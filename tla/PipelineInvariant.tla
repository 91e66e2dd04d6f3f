-------------------------- MODULE PipelineInvariant --------------------------
(***************************************************************************)
(* The inductive invariant of Pipeline.  Its safety properties are about   *)
(* the output, the checkpoint and the end of a run; what makes them hold   *)
(* is that an item is in one place only on its way from the feeder to the  *)
(* output, and, while nothing failed, in one place at least.               *)
(***************************************************************************)
EXTENDS Pipeline

(* Below the floor every item has been committed, or is being written.     *)
Floor == IF writer = "write" THEN nextIdx + 1 ELSE nextIdx

(* The places between the channel of items and the output.                 *)
WithWorker(i) == \E w \in Workers : wpc[w] \in Busy /\ held[w] = i
InResults(i) == \E k \in DOMAIN results : results[k].idx = i
Pending(i) == i \in ready \/ i \in holes

(* What the output and the checkpoint hold, run by run.                    *)
OutputInv ==
  /\ OutputInOrder
  /\ CheckpointCutsOutput
  /\ Running => Len(file) = offset
  /\ Running => \A k \in DOMAIN file : file[k] < nextIdx
  /\ offset <= nextIdx
  /\ ~Live => offset = nextIdx /\ ckpt.off = ckpt.next
  /\ Live => ckpt.next <= nextIdx /\ ckpt.off <= offset
  /\ verdict = "none" => offset = nextIdx

(* Items leave the channel once, in order, above what is committed.        *)
RangeInv ==
  /\ taken < sent => Floor <= taken
  /\ Live => nextIdx <= taken
  /\ writer = "write" => nextIdx < taken
  /\ \A w \in Workers : wpc[w] \in Busy => held[w] \in Floor .. taken - 1
  /\ \A k \in DOMAIN results : results[k].idx \in Floor .. taken - 1
  /\ ready \cup holes \subseteq Floor .. taken - 1

(* No item is in two places.                                               *)
UniqueInv ==
  /\ \A v, w \in Workers :
       v # w /\ wpc[v] \in Busy /\ wpc[w] \in Busy => held[v] # held[w]
  /\ \A j, k \in DOMAIN results : j # k => results[j].idx # results[k].idx
  /\ \A k \in DOMAIN results : ~WithWorker(results[k].idx)
  /\ \A i \in ready \cup holes : ~WithWorker(i) /\ ~InResults(i)
  /\ ready \cap holes = {}

(* A part file reported as downloaded is whole.                            *)
PartsInv ==
  /\ \A w \in Workers : wpc[w] = "good" => parts[held[w]] = "whole"
  /\ \A k \in DOMAIN results :
       results[k].ok = "yes" => parts[results[k].idx] = "whole"
  /\ \A i \in ready : parts[i] = "whole"

(* The order in which feeder, workers and channels shut down.              *)
ShutdownInv ==
  /\ ~Live => listed = Total /\ ~streaming /\ feeder # "wait"
  /\ feeder = "wait" => sent = listed
  /\ feeder = "done" /\ ~canceled => sent = listed
  /\ \A w \in Workers :
       wpc[w] = "exit" /\ ~canceled => feeder = "done" /\ taken = sent
  /\ drained => feeder = "done" /\ \A w \in Workers : wpc[w] = "exit"

(* While nothing failed and nothing was canceled, every item sent is       *)
(* committed, being written, or in one of the places it can be.            *)
ConserveInv ==
  /\ writer = "range" => nextIdx \notin ready
  /\ ~Live \/ verdict = "none" => holes = {}
  /\ verdict = "none" /\ writer \in {"final", "done"} =>
       drained /\ results = <<>> /\ ready = {}
  /\ verdict = "missing" => canceled
  /\ verdict = "none" /\ ~canceled =>
       \A i \in Floor .. taken - 1 : WithWorker(i) \/ InResults(i) \/ Pending(i)
  /\ run = "ok" /\ ~canceled => Len(file) = listed
  /\ run = "ok" /\ ~LiveLimited => ~canceled

IInv ==
  /\ TypeOK
  /\ OutputInv
  /\ RangeInv
  /\ UniqueInv
  /\ PartsInv
  /\ ShutdownInv
  /\ ConserveInv
=============================================================================
