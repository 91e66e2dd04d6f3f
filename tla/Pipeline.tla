------------------------------ MODULE Pipeline ------------------------------
(***************************************************************************)
(* engine.DownloadStream writing one track to a file: the feeder, the      *)
(* bounded channel of items, the workers and their part files, the bounded *)
(* channel of results, the writer that commits in index order and          *)
(* checkpoints, the unwinding when one of them fails or the context is     *)
(* canceled, and the kill and rerun of the process around all of it.       *)
(*                                                                         *)
(* An item is its index, in playlist order, init segments included; the    *)
(* bytes of item i are i.  A file position counts items, so Offset is the  *)
(* number of items in the output.  The adaptive limiter a worker passes    *)
(* before a fetch only delays it and is left out.  Rerunning a live        *)
(* recording renumbers the items and is not modelled here: only a VOD      *)
(* download is rerun.                                                      *)
(***************************************************************************)
EXTENDS Integers, Sequences

CONSTANTS
  Workers,      (* The worker goroutines, one per permitted connection.    *)
  ChanCap,      (* Capacity of items and of results, workers*2 in the code.*)
  Total,        (* Items a VOD lists; the most a live playlist ever lists. *)
  Live,         (* st.Live: the playlist is refreshed, holes are tolerated.*)
  LiveLimited,  (* cfg.LiveLimit # 0: -live-duration was given.            *)
  MultiTrack,   (* The command downloads other tracks too, so it may be    *)
                (* rerun after this one is done.                           *)
  SaveMayFail,  (* Writing the checkpoint may fail; the code ignores it.   *)
  MaxRuns       (* Bound: how often the command is run.                    *)

ASSUME PipelineAssumption ==
  /\ Workers # {}
  /\ ChanCap \in Nat \ {0}
  /\ Total \in Nat \ {0}
  /\ MaxRuns \in Nat \ {0}
  /\ Live \in BOOLEAN
  /\ LiveLimited \in BOOLEAN
  /\ MultiTrack \in BOOLEAN
  /\ SaveMayFail \in BOOLEAN

VARIABLES
  run,          (* "running", or how the last run ended: "ok", "error" or  *)
                (* "killed".                                               *)
  runs,         (* How many runs have started.                             *)
  canceled,     (* ctx is done: the caller's cancel, or the writer's.      *)
  \* the feeder and the channel of items
  listed,       (* Items the playlist has listed so far: the batch's end.  *)
  streaming,    (* The playlist last read said more will come (cur.Live).  *)
  feeder,       (* "emit", "wait" (for the next refresh) or "done".        *)
  sent,         (* idx of the feeder's next item.                          *)
  taken,        (* Next item to leave items, which holds taken .. sent-1.  *)
  \* the workers and the channel of results
  wpc,          (* [Workers -> where each is in its loop]                  *)
  held,         (* [Workers -> the item it took last]                      *)
  results,      (* The results channel, a queue of [idx, ok] records.      *)
  drained,      (* results is closed.                                      *)
  \* the writer
  writer,       (* Where the writer is in commitInOrder.                   *)
  ready,        (* pending, downloaded: waiting for their turn.            *)
  holes,        (* pending, failed: holes of a live recording.             *)
  verdict,      (* The writer's error: "none", "segment" (failed # nil),   *)
                (* "missing" (at the end of stream) or "commit".           *)
  nextIdx,      (* state.NextIdx                                           *)
  offset,       (* state.Offset                                            *)
  \* what survives the process
  file,         (* The items in the output file.                           *)
  torn,         (* A partly written item follows them.                     *)
  ckpt,         (* The checkpoint file, [next, off]; zero when absent.     *)
  parts         (* [Items -> "none", "partial" or "whole"], the part files.*)

control  == <<run, runs>>
feeding  == <<listed, streaming, feeder>>
items    == <<sent, taken>>
working  == <<wpc, held>>
outcomes == <<results, drained>>
pending  == <<ready, holes>>
memory   == <<nextIdx, offset>>
output   == <<file, torn>>
disk     == <<file, torn, ckpt, parts>>

vars == <<run, runs, canceled, listed, streaming, feeder, sent, taken, wpc, held,
          results, drained, writer, ready, holes, verdict, nextIdx, offset,
          file, torn, ckpt, parts>>

Items == 0 .. Total - 1
Result == [idx : Items, ok : {"yes", "no"}]
Busy == {"acquire", "fetch", "good", "bad"}
NoCheckpoint == [next |-> 0, off |-> 0]
Committed == [next |-> nextIdx, off |-> offset]
Running == run = "running"

RunTypeOK ==
  /\ run \in {"running", "ok", "error", "killed"}
  /\ runs \in 1 .. MaxRuns
  /\ canceled \in BOOLEAN

FeederTypeOK ==
  /\ listed \in 1 .. Total
  /\ streaming \in BOOLEAN
  /\ feeder \in {"emit", "wait", "done"}
  /\ sent \in 0 .. listed
  /\ taken \in 0 .. sent
  /\ sent - taken <= ChanCap

WorkersTypeOK ==
  /\ wpc \in [Workers -> Busy \cup {"recv", "exit"}]
  /\ held \in [Workers -> Items]
  /\ results \in Seq(Result)
  /\ Len(results) <= ChanCap
  /\ drained \in BOOLEAN

WriterTypeOK ==
  /\ writer \in {"range", "drain", "write", "save", "final", "done"}
  /\ ready \subseteq Items
  /\ holes \subseteq Items
  /\ verdict \in {"none", "segment", "missing", "commit"}
  /\ nextIdx \in 0 .. Total
  /\ offset \in 0 .. Total

DiskTypeOK ==
  /\ file \in Seq(Items)
  /\ torn \in BOOLEAN
  /\ ckpt \in [next : 0 .. Total, off : 0 .. Total]
  /\ parts \in [Items -> {"none", "partial", "whole"}]

TypeOK ==
  /\ RunTypeOK
  /\ FeederTypeOK
  /\ WorkersTypeOK
  /\ WriterTypeOK
  /\ DiskTypeOK

(***************************************************************************)
(* The feeder.                                                             *)
(***************************************************************************)

(* emit: an item below NextIdx was written by an earlier run.              *)
SkipWritten ==
  /\ Running /\ feeder = "emit"
  /\ sent < listed /\ sent < nextIdx
  /\ sent' = sent + 1
  /\ taken' = sent + 1
  /\ UNCHANGED <<control, canceled, feeding, working, outcomes, writer, pending,
                 verdict, memory, disk>>

(* emit: the item goes into the bounded channel once there is room.        *)
Emit ==
  /\ Running /\ feeder = "emit"
  /\ sent < listed /\ sent >= nextIdx
  /\ sent - taken < ChanCap
  /\ sent' = sent + 1
  /\ UNCHANGED <<control, canceled, feeding, taken, working, outcomes, writer,
                 pending, verdict, memory, disk>>

(* The feeder sees ctx.Done where it would otherwise send or wait, and     *)
(* returns; items is closed.                                               *)
FeederCanceled ==
  /\ Running /\ canceled
  /\ \/ feeder = "wait"
     \/ feeder = "emit" /\ sent < listed /\ sent >= nextIdx
  /\ feeder' = "done"
  /\ UNCHANGED <<control, canceled, listed, streaming, items, working, outcomes,
                 writer, pending, verdict, memory, disk>>

(* push returns: a finished playlist ends the feed, a live one waits.      *)
BatchSent ==
  /\ Running /\ feeder = "emit"
  /\ sent = listed
  /\ feeder' = IF streaming THEN "wait" ELSE "done"
  /\ UNCHANGED <<control, canceled, listed, streaming, items, working, outcomes,
                 writer, pending, verdict, memory, disk>>

(* A refresh that answers: new items may be listed and the stream may have *)
(* ended.  One that fails changes nothing, and one that is still under way *)
(* at the cancel is the same as one that finished just before it.          *)
Refresh ==
  /\ Running /\ feeder = "wait" /\ ~canceled
  /\ \E n \in listed .. Total : listed' = n
  /\ \E more \in BOOLEAN : streaming' = more
  /\ feeder' = "emit"
  /\ UNCHANGED <<control, canceled, items, working, outcomes, writer, pending,
                 verdict, memory, disk>>

(* cfg.Stop is closed, or the recording limit is reached.                  *)
StopRecording ==
  /\ Running /\ feeder = "wait"
  /\ feeder' = "done"
  /\ UNCHANGED <<control, canceled, listed, streaming, items, working, outcomes,
                 writer, pending, verdict, memory, disk>>

(***************************************************************************)
(* The workers.                                                            *)
(***************************************************************************)

(* The next item of the channel, in the order the feeder sent them.        *)
Take(w) ==
  /\ Running /\ wpc[w] = "recv"
  /\ taken < sent
  /\ taken' = taken + 1
  /\ held' = [held EXCEPT ![w] = taken]
  /\ wpc' = [wpc EXCEPT ![w] = "acquire"]
  /\ UNCHANGED <<control, canceled, feeding, sent, outcomes, writer, pending,
                 verdict, memory, disk>>

(* The worker returns: items is closed and empty, or acquire or the select *)
(* on results sees the context done.  What it held is never reported.      *)
Exit(w) ==
  /\ Running
  /\ \/ wpc[w] = "recv" /\ feeder = "done" /\ taken = sent
     \/ wpc[w] \in {"acquire", "good", "bad"} /\ canceled
  /\ wpc' = [wpc EXCEPT ![w] = "exit"]
  /\ UNCHANGED <<control, canceled, feeding, items, held, outcomes, writer, pending,
                 verdict, memory, disk>>

(* acquire succeeds and downloadSegment opens the part file, which may be  *)
(* there from an earlier run.                                              *)
Acquire(w) ==
  /\ Running /\ wpc[w] = "acquire"
  /\ wpc' = [wpc EXCEPT ![w] = "fetch"]
  /\ parts' = [parts EXCEPT ![held[w]] = IF @ = "none" THEN "partial" ELSE @]
  /\ UNCHANGED <<control, canceled, feeding, items, held, outcomes, writer, pending,
                 verdict, memory, output, ckpt>>

(* A server that ignores the range of a resume: the part starts over.      *)
PartRestart(w) ==
  /\ Running /\ wpc[w] = "fetch"
  /\ parts[held[w]] = "whole"
  /\ parts' = [parts EXCEPT ![held[w]] = "partial"]
  /\ UNCHANGED <<control, canceled, feeding, items, working, outcomes, writer,
                 pending, verdict, memory, output, ckpt>>

(* downloadSegment returns nil: every byte of the segment is in the part.  *)
FetchOk(w) ==
  /\ Running /\ wpc[w] = "fetch"
  /\ wpc' = [wpc EXCEPT ![w] = "good"]
  /\ parts' = [parts EXCEPT ![held[w]] = "whole"]
  /\ UNCHANGED <<control, canceled, feeding, items, held, outcomes, writer, pending,
                 verdict, memory, output, ckpt>>

(* downloadSegment gives up: retries used up, a status that is not worth   *)
(* one, the context done.  The bytes it has stay, except that the part is  *)
(* removed when the server ignored the range (ErrRangeIgnored).            *)
FetchFail(w) ==
  /\ Running /\ wpc[w] = "fetch"
  /\ wpc' = [wpc EXCEPT ![w] = "bad"]
  /\ \/ UNCHANGED parts
     \/ /\ parts[held[w]] = "partial"
        /\ parts' = [parts EXCEPT ![held[w]] = "none"]
  /\ UNCHANGED <<control, canceled, feeding, items, held, outcomes, writer, pending,
                 verdict, memory, output, ckpt>>

(* The result goes into the bounded channel once there is room.            *)
Send(w) ==
  /\ Running /\ wpc[w] \in {"good", "bad"}
  /\ Len(results) < ChanCap
  /\ results' = Append(results,
                  [idx |-> held[w], ok |-> IF wpc[w] = "good" THEN "yes" ELSE "no"])
  /\ wpc' = [wpc EXCEPT ![w] = "recv"]
  /\ UNCHANGED <<control, canceled, feeding, items, held, drained, writer, pending,
                 verdict, memory, disk>>

(***************************************************************************)
(* The writer: commitInOrder with writer's commit and afterCommit.         *)
(***************************************************************************)

\* Mutant: the hole is recorded for a VOD as well.
TakeErrorAsHole ==
  /\ Running /\ writer = "range"
  /\ results # <<>> /\ Head(results).ok = "no"
  /\ results' = Tail(results)
  /\ verdict' = IF verdict = "none" THEN "segment" ELSE verdict
  /\ holes' = holes \cup {Head(results).idx}
  /\ UNCHANGED <<control, canceled, feeding, items, working, drained, writer, ready,
                 memory, disk>>

(* An error result: the first one is remembered; live, the item becomes a  *)
(* hole, which the next success will find.  No draining here.              *)
TakeError ==
  /\ Running /\ writer = "range"
  /\ results # <<>> /\ Head(results).ok = "no"
  /\ results' = Tail(results)
  /\ verdict' = IF verdict = "none" THEN "segment" ELSE verdict
  /\ holes' = IF Live THEN holes \cup {Head(results).idx} ELSE holes
  /\ UNCHANGED <<control, canceled, feeding, items, working, drained, writer, ready,
                 memory, disk>>

(* A downloaded item: it waits for its turn, and the writer drains.        *)
TakeOk ==
  /\ Running /\ writer = "range"
  /\ results # <<>> /\ Head(results).ok = "yes"
  /\ results' = Tail(results)
  /\ ready' = ready \cup {Head(results).idx}
  /\ writer' = "drain"
  /\ UNCHANGED <<control, canceled, feeding, items, working, drained, holes, verdict,
                 memory, disk>>

(* The next index is not there yet: back to the channel.                   *)
DrainStops ==
  /\ Running /\ writer = "drain"
  /\ nextIdx \notin ready \cup holes
  /\ writer' = "range"
  /\ UNCHANGED <<control, canceled, feeding, items, working, outcomes, pending,
                 verdict, memory, disk>>

(* A hole is committed by writing nothing.                                 *)
DrainHole ==
  /\ Running /\ writer = "drain"
  /\ nextIdx \in holes
  /\ holes' = holes \ {nextIdx}
  /\ nextIdx' = nextIdx + 1
  /\ writer' = "save"
  /\ UNCHANGED <<control, canceled, feeding, items, working, outcomes, ready, verdict,
                 offset, disk>>

(* readDecrypt: the part file is read, and then removed whatever           *)
(* decryption says; an error of either ends the writer.                    *)
ReadDecrypt ==
  LET removed == [parts EXCEPT ![nextIdx] = "none"]
  IN /\ Running /\ writer = "drain"
     /\ nextIdx \in ready
     /\ ready' = ready \ {nextIdx}
     /\ \/ /\ parts[nextIdx] # "none"
           /\ parts' = removed
           /\ writer' = "write"
           /\ UNCHANGED verdict
        \/ /\ parts' \in {parts, removed}
           /\ writer' = "final"
           /\ verdict' = "commit"
     /\ UNCHANGED <<control, canceled, feeding, items, working, outcomes, holes,
                    memory, output, ckpt>>

(* out.Write and the bookkeeping in memory.                                *)
AppendOutput ==
  /\ Running /\ writer = "write"
  /\ file' = Append(file, nextIdx)
  /\ offset' = offset + 1
  /\ nextIdx' = nextIdx + 1
  /\ writer' = "save"
  /\ UNCHANGED <<control, canceled, feeding, items, working, outcomes, pending,
                 verdict, torn, ckpt, parts>>

(* out.Write fails, perhaps after some bytes.                              *)
AppendFails ==
  /\ Running /\ writer = "write"
  /\ torn' \in BOOLEAN
  /\ verdict' = "commit"
  /\ writer' = "final"
  /\ UNCHANGED <<control, canceled, feeding, items, working, outcomes, pending,
                 memory, file, ckpt, parts>>

(* save writes the checkpoint beside and renames it into place; a failure  *)
(* is not noticed.                                                         *)
WriteCheckpoint ==
  \/ ckpt' = Committed
  \/ SaveMayFail /\ UNCHANGED ckpt

\* Mutant: no checkpoint on a commit.
SaveSkipped ==
  /\ Running /\ writer = "save"
  /\ writer' = "drain"
  /\ UNCHANGED <<control, canceled, feeding, items, working, outcomes, pending,
                 verdict, memory, disk>>

(* afterCommit, on every commit.                                           *)
Save ==
  /\ Running /\ writer = "save"
  /\ WriteCheckpoint
  /\ writer' = "drain"
  /\ UNCHANGED <<control, canceled, feeding, items, working, outcomes, pending,
                 verdict, memory, output, parts>>

(* results is closed and empty: an item still pending means one before it  *)
(* never arrived.                                                          *)
EndOfResults ==
  /\ Running /\ writer = "range"
  /\ results = <<>> /\ drained
  /\ verdict' = IF verdict = "none" /\ ready \cup holes # {} THEN "missing" ELSE verdict
  /\ writer' = "final"
  /\ UNCHANGED <<control, canceled, feeding, items, working, outcomes, pending, memory,
                 disk>>

\* Mutant: a failed writer does not cancel the others.
WriterParks ==
  /\ Running /\ writer = "final"
  /\ WriteCheckpoint
  /\ writer' = "done"
  /\ UNCHANGED <<control, canceled, feeding, items, working, outcomes, pending,
                 verdict, memory, output, parts>>

(* The writer's last save; its error cancels the context so that feeder    *)
(* and workers unwind.                                                     *)
WriterReturns ==
  /\ Running /\ writer = "final"
  /\ WriteCheckpoint
  /\ canceled' = (canceled \/ verdict # "none")
  /\ writer' = "done"
  /\ UNCHANGED <<control, feeding, items, working, outcomes, pending, verdict, memory,
                 output, parts>>

(***************************************************************************)
(* DownloadStream itself, its caller, and the process.                     *)
(***************************************************************************)

\* Mutant: results is closed while a result is on its way.
CloseEarly ==
  /\ Running /\ feeder = "done" /\ ~drained
  /\ \A w \in Workers : wpc[w] # "fetch"
  /\ drained' = TRUE
  /\ UNCHANGED <<control, canceled, feeding, items, working, results, writer, pending,
                 verdict, memory, disk>>

(* After feed and wg.Wait, results is closed.                              *)
CloseResults ==
  /\ Running /\ feeder = "done" /\ ~drained
  /\ \A w \in Workers : wpc[w] = "exit"
  /\ drained' = TRUE
  /\ UNCHANGED <<control, canceled, feeding, items, working, results, writer, pending,
                 verdict, memory, disk>>

(* The writer's error is the run's; else a done context is, but only       *)
(* without -live-duration; else the checkpoint goes and the run succeeded. *)
Succeeds == verdict = "none" /\ (~canceled \/ LiveLimited)
\* Mutant: a canceled run succeeds.
ReturnCheerful ==
  /\ Running /\ drained /\ writer = "done"
  /\ run' = IF verdict = "none" THEN "ok" ELSE "error"
  /\ ckpt' = IF verdict = "none" THEN NoCheckpoint ELSE ckpt
  /\ UNCHANGED <<runs, canceled, feeding, items, working, outcomes, writer, pending,
                 verdict, memory, output, parts>>
Return ==
  /\ Running /\ drained /\ writer = "done"
  /\ run' = IF Succeeds THEN "ok" ELSE "error"
  /\ ckpt' = IF Succeeds THEN NoCheckpoint ELSE ckpt
  /\ UNCHANGED <<runs, canceled, feeding, items, working, outcomes, writer, pending,
                 verdict, memory, output, parts>>

(* The caller cancels: Ctrl-C on a VOD, or another track failed.           *)
Cancel ==
  /\ Running /\ ~canceled
  /\ canceled' = TRUE
  /\ UNCHANGED <<control, feeding, items, working, outcomes, writer, pending, verdict,
                 memory, disk>>

(* The process dies; an out.Write under way may leave part of the item.    *)
Kill ==
  /\ Running
  /\ run' = "killed"
  /\ torn' \in {torn} \cup (IF writer = "write" THEN {TRUE} ELSE {})
  /\ UNCHANGED <<runs, canceled, feeding, items, working, outcomes, writer, pending,
                 verdict, memory, file, ckpt, parts>>

(* Between runs the output loses its tail: a crash before the file system  *)
(* wrote it back, or the user.                                             *)
CutOutput ==
  /\ run \in {"error", "killed"}
  /\ \E n \in 0 .. Len(file) - 1 : file' = SubSeq(file, 1, n)
  /\ torn' = FALSE
  /\ UNCHANGED <<control, canceled, feeding, items, working, outcomes, writer, pending,
                 verdict, memory, ckpt, parts>>

(* A checkpoint beyond the end of the output lies: start over.             *)
Resumed == IF Len(file) < ckpt.off THEN NoCheckpoint ELSE ckpt

(* The goroutines of a new run are all at their first step.                *)
FreshGoroutines ==
  /\ canceled' = FALSE
  /\ listed' = Total /\ streaming' = Live /\ feeder' = "emit"
  /\ sent' = 0 /\ taken' = 0
  /\ wpc' = [w \in Workers |-> "recv"] /\ held' = [w \in Workers |-> 0]
  /\ results' = <<>> /\ drained' = FALSE
  /\ writer' = "range" /\ ready' = {} /\ holes' = {} /\ verdict' = "none"

(* The user runs the command again after an interruption; with several     *)
(* tracks the other one may be what was interrupted.                       *)
MayRerun ==
  /\ ~Live /\ runs < MaxRuns
  /\ \/ run \in {"error", "killed"}
     \/ MultiTrack /\ run = "ok"

\* Mutant: a checkpoint beyond the output is believed.
RerunTrusting ==
  /\ MayRerun
  /\ run' = "running" /\ runs' = runs + 1
  /\ nextIdx' = ckpt.next /\ offset' = ckpt.off
  /\ file' = SubSeq(file, 1, IF Len(file) < ckpt.off THEN Len(file) ELSE ckpt.off)
  /\ torn' = FALSE
  /\ UNCHANGED <<ckpt, parts>>
  /\ FreshGoroutines

(* The command is run again: openOutput loads the checkpoint and truncates *)
(* the output to it.                                                       *)
Rerun ==
  /\ MayRerun
  /\ run' = "running" /\ runs' = runs + 1
  /\ nextIdx' = Resumed.next /\ offset' = Resumed.off
  /\ file' = SubSeq(file, 1, Resumed.off)
  /\ torn' = FALSE
  /\ UNCHANGED <<ckpt, parts>>
  /\ FreshGoroutines

-----------------------------------------------------------------------------

(* The first run finds nothing on disk.                                    *)
Init ==
  /\ run = "running" /\ runs = 1 /\ canceled = FALSE
  /\ listed \in IF Live THEN 1 .. Total ELSE {Total}
  /\ streaming = Live /\ feeder = "emit"
  /\ sent = 0 /\ taken = 0
  /\ wpc = [w \in Workers |-> "recv"] /\ held = [w \in Workers |-> 0]
  /\ results = <<>> /\ drained = FALSE
  /\ writer = "range" /\ ready = {} /\ holes = {} /\ verdict = "none"
  /\ nextIdx = 0 /\ offset = 0
  /\ file = <<>> /\ torn = FALSE
  /\ ckpt = NoCheckpoint
  /\ parts = [i \in Items |-> "none"]

FeederStep == SkipWritten \/ Emit \/ FeederCanceled \/ BatchSent

WorkerStep(w) ==
  Take(w) \/ Exit(w) \/ Acquire(w) \/ FetchOk(w) \/ FetchFail(w) \/ Send(w)

WriterStep ==
  \/ TakeError \/ TakeOk \/ EndOfResults
  \/ DrainStops \/ DrainHole \/ ReadDecrypt
  \/ AppendOutput \/ AppendFails
  \/ Save \/ WriterReturns

MainStep == CloseResults \/ Return

Next ==
  \/ FeederStep \/ Refresh \/ StopRecording
  \/ \E w \in Workers : WorkerStep(w) \/ PartRestart(w)
  \/ WriterStep
  \/ MainStep
  \/ Cancel \/ Kill \/ CutOutput \/ Rerun

Spec == Init /\ [][Next]_vars

(* Every goroutine that can step does; a fetch ends because every attempt  *)
(* has an idle watchdog and attempts are counted.  Nobody has to refresh,  *)
(* stop, cancel, kill or rerun.                                            *)
Fairness ==
  /\ WF_vars(FeederStep)
  /\ \A w \in Workers : WF_vars(WorkerStep(w))
  /\ WF_vars(WriterStep)
  /\ WF_vars(MainStep)

FairSpec == Spec /\ Fairness

-----------------------------------------------------------------------------
(***************************************************************************)
(* Properties.                                                             *)
(***************************************************************************)

(* Playlist order survives the race of the workers: the output holds items *)
(* in increasing order, each once, and a VOD's has no gap at all: a failed *)
(* segment is never skipped (TestDownloadStreamVODFailNoHole).             *)
OutputInOrder ==
  /\ \A j, k \in DOMAIN file : j < k => file[j] < file[k]
  /\ ~Live => \A k \in DOMAIN file : file[k] = k - 1

(* Whatever instant the process is killed at, the checkpoint on disk cuts  *)
(* the output on disk between two items: before Offset are the items below *)
(* NextIdx, after it the ones a rerun will write again.                    *)
CheckpointCutsOutput ==
  \A k \in DOMAIN file : k <= ckpt.off <=> file[k] < ckpt.next

(* The part file of an item waiting for its turn is whole, and it stays    *)
(* whole after a failed run so that the next one need not fetch it again:  *)
(* no worker still writes to it, in this run or started by a second take   *)
(* of the same item.                                                       *)
PendingPartsWhole ==
  \A i \in ready :
    /\ parts[i] = "whole"
    /\ \A w \in Workers : wpc[w] \in Busy => held[w] # i

(* "segments missing at end of stream" is not an error of its own: items   *)
(* get lost between feeder and writer only when the context is canceled.   *)
MissingOnlyIfCanceled == verdict = "missing" => canceled

(* A run that reports success wrote everything the playlist listed, unless *)
(* it was canceled under -live-duration.                                   *)
CompleteOnSuccess ==
  run = "ok" /\ (~canceled \/ ~LiveLimited) => Len(file) = listed

(* The README's "loses at most the segment it was writing": a rerun keeps  *)
(* all but one item of the output, unless the output was cut meanwhile.    *)
RerunLosesAtMostOne ==
  [][runs' # runs /\ Len(file) >= ckpt.off => Len(file') >= Len(file) - 1]_vars

(* A run that cannot grow any more comes to an end, whichever of its       *)
(* goroutines failed or was canceled and however full the channels were    *)
(* (TestWriterErrorStopsPipeline).                                         *)
RunEnds ==
  Running /\ (~streaming \/ canceled \/ feeder = "done") ~> ~Running

(* The items a rerun would keep, as the disk stands.                       *)
Durable == IF run = "ok" THEN Len(file) ELSE Resumed.off

(* A VOD download is a resumable copy.                                     *)
Copy == INSTANCE ResumableCopy WITH
          durable <- Durable,
          status  <- IF run = "ok" THEN "done" ELSE "open"
ImplementsCopy == Copy!Spec

(* The comment in commitInOrder: "the segment is gone; a hole keeps the    *)
(* stream moving".  So when the results of a live recording that was not   *)
(* canceled are over, every segment it downloaded has been written.        *)
HoleKeepsStreamMoving ==
  Live /\ writer = "final" /\ verdict # "commit" /\ ~canceled => ready = {}

(* "resume state lets the next run continue": after a cancel the           *)
(* checkpoint of an unfinished VOD is still there.                         *)
CancelKeepsCheckpoint ==
  ~Live /\ ~Running /\ canceled /\ Len(file) < Total /\ offset > 0 => ckpt.off > 0
=============================================================================
