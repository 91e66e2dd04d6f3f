--------------------------- MODULE PipelineProofs ---------------------------
(***************************************************************************)
(* Proofs about Pipeline, for any number of workers, any capacity, any     *)
(* number of items and of runs: IInv is inductive, and the safety          *)
(* properties follow from it.                                              *)
(***************************************************************************)
EXTENDS PipelineInvariant, TLAPS

(* What Append does, and with it the worker that sends a result and the    *)
(* writer that appends to the output.                                      *)
LEMMA AppendFacts ==
  ASSUME NEW S, NEW s \in Seq(S), NEW e \in S
  PROVE  /\ Append(s, e) \in Seq(S)
         /\ Len(Append(s, e)) = Len(s) + 1
         /\ DOMAIN Append(s, e) = 1 .. Len(s) + 1
         /\ \A k \in 1 .. Len(s) : Append(s, e)[k] = s[k]
         /\ Append(s, e)[Len(s) + 1] = e
  OBVIOUS

(* What Tail and Head do, and with them the writer that receives a result. *)
LEMMA TailFacts ==
  ASSUME NEW S, NEW s \in Seq(S), s # <<>>
  PROVE  /\ Tail(s) \in Seq(S)
         /\ Len(Tail(s)) = Len(s) - 1
         /\ DOMAIN Tail(s) = 1 .. Len(s) - 1
         /\ \A k \in DOMAIN Tail(s) : k + 1 \in DOMAIN s /\ Tail(s)[k] = s[k + 1]
         /\ 1 \in DOMAIN s /\ Head(s) = s[1] /\ Head(s) \in S
  OBVIOUS

(* What truncation does: a resumed output is a prefix of the old one.      *)
LEMMA PrefixFacts ==
  ASSUME NEW S, NEW s \in Seq(S), NEW n \in 0 .. Len(s)
  PROVE  /\ SubSeq(s, 1, n) \in Seq(S)
         /\ Len(SubSeq(s, 1, n)) = n
         /\ DOMAIN SubSeq(s, 1, n) = 1 .. n
         /\ \A k \in 1 .. n : k \in DOMAIN s /\ SubSeq(s, 1, n)[k] = s[k]
  OBVIOUS

(* The results channel after the writer received from it.                  *)
LEMMA ResultsTail ==
  ASSUME IInv, results # <<>>, results' = Tail(results)
  PROVE  /\ DOMAIN results' = 1 .. Len(results) - 1
         /\ DOMAIN results = 1 .. Len(results) /\ Len(results) \in Nat
         /\ \A k \in DOMAIN results' : k + 1 \in DOMAIN results /\ results'[k] = results[k + 1]
         /\ 1 \in DOMAIN results /\ Head(results) = results[1]
         /\ results[1] \in Result /\ results[1].idx \in Items
<1>1. results \in Seq(Result)
  BY DEF IInv, TypeOK, WorkersTypeOK
<1>2. results[1] \in Result
  BY <1>1, TailFacts
<1> QED
  BY <1>1, <1>2, TailFacts DEF Result

(* The results channel after a worker sent a result into it.               *)
LEMMA ResultsAppend ==
  ASSUME IInv, NEW r \in Result, results' = Append(results, r)
  PROVE  /\ DOMAIN results' = 1 .. Len(results) + 1
         /\ DOMAIN results = 1 .. Len(results) /\ Len(results) \in Nat
         /\ \A k \in DOMAIN results : results'[k] = results[k]
         /\ results'[Len(results) + 1] = r
<1>1. results \in Seq(Result)
  BY DEF IInv, TypeOK, WorkersTypeOK
<1> QED
  BY <1>1, AppendFacts

(* What a new run starts from: openOutput with fresh goroutines.  Only a   *)
(* VOD download is rerun, so the checkpoint has both its numbers equal.    *)
LEMMA FreshRun ==
  ASSUME IInv, Rerun
  PROVE  /\ run' = "running" /\ ~Live /\ UNCHANGED <<ckpt, parts>>
         /\ nextIdx' = offset' /\ nextIdx' \in 0 .. Len(file) /\ file' = SubSeq(file, 1, nextIdx')
         /\ listed' = Total /\ streaming' = FALSE /\ feeder' = "emit" /\ sent' = 0 /\ taken' = 0
         /\ \A w \in Workers : wpc'[w] = "recv"
         /\ results' = <<>> /\ drained' = FALSE
         /\ writer' = "range" /\ ready' = {} /\ holes' = {} /\ verdict' = "none"
<1>1. Len(file) \in Nat /\ ckpt.off \in Nat /\ ckpt.off = ckpt.next /\ ~Live
  BY DEF IInv, TypeOK, DiskTypeOK, OutputInv, Rerun, MayRerun
<1>2. Resumed.next = Resumed.off /\ Resumed.off \in 0 .. Len(file)
  BY <1>1 DEF Resumed, NoCheckpoint
<1> QED
  BY <1>1, <1>2, PipelineAssumption DEF Rerun, FreshGoroutines

(* Every step keeps the variables in their types.  Only AppendOutput needs *)
(* more than the types: the item being written is one the playlist has.    *)
LEMMA TypeStep ==
  IInv /\ [Next]_vars => TypeOK'
<1> SUFFICES ASSUME IInv, [Next]_vars PROVE TypeOK'
  OBVIOUS
<1> USE PipelineAssumption DEF IInv, TypeOK, RunTypeOK, FeederTypeOK, WorkersTypeOK, WriterTypeOK, DiskTypeOK, Busy, control, feeding, items, working, outcomes, pending, memory, output, disk
<1>1. CASE SkipWritten
  BY <1>1 DEF SkipWritten
<1>2. CASE Emit
  BY <1>2 DEF Emit
<1>3. CASE FeederCanceled
  BY <1>3 DEF FeederCanceled
<1>4. CASE BatchSent
  BY <1>4 DEF BatchSent
<1>5. CASE Refresh
  BY <1>5 DEF Refresh
<1>6. CASE StopRecording
  BY <1>6 DEF StopRecording
<1>7. ASSUME NEW w \in Workers, Take(w) PROVE TypeOK'
  BY <1>7 DEF Take, Items
<1>8. ASSUME NEW w \in Workers, Exit(w) PROVE TypeOK'
  BY <1>8 DEF Exit
<1>9. ASSUME NEW w \in Workers, Acquire(w) PROVE TypeOK'
  BY <1>9 DEF Acquire
<1>10. ASSUME NEW w \in Workers, PartRestart(w) PROVE TypeOK'
  BY <1>10 DEF PartRestart
<1>11. ASSUME NEW w \in Workers, FetchOk(w) PROVE TypeOK'
  BY <1>11 DEF FetchOk
<1>12. ASSUME NEW w \in Workers, FetchFail(w) PROVE TypeOK'
  <2>1. parts' \in [Items -> {"none", "partial", "whole"}]
    BY <1>12 DEF FetchFail
  <2> QED
    BY <1>12, <2>1 DEF FetchFail
<1>13. ASSUME NEW w \in Workers, Send(w) PROVE TypeOK'
  <2>1. /\ results \in Seq(Result) /\ [idx |-> held[w], ok |-> IF wpc[w] = "good" THEN "yes" ELSE "no"] \in Result
        /\ results' = Append(results, [idx |-> held[w], ok |-> IF wpc[w] = "good" THEN "yes" ELSE "no"])
    BY <1>13 DEF Send, Result
  <2>2. results' \in Seq(Result) /\ Len(results') = Len(results) + 1
    BY <2>1, AppendFacts
  <2> QED
    BY <1>13, <2>2 DEF Send
<1>14. CASE TakeError
  <2>1. results \in Seq(Result) /\ results # <<>> /\ results' = Tail(results)
    BY <1>14 DEF TakeError
  <2>2. results' \in Seq(Result) /\ Len(results') = Len(results) - 1 /\ Head(results) \in Result
    BY <2>1, TailFacts
  <2>3. Head(results).idx \in Items
    BY <2>2 DEF Result
  <2> QED
    BY <1>14, <2>2, <2>3 DEF TakeError
<1>15. CASE TakeOk
  <2>1. results \in Seq(Result) /\ results # <<>> /\ results' = Tail(results)
    BY <1>15 DEF TakeOk
  <2>2. results' \in Seq(Result) /\ Len(results') = Len(results) - 1 /\ Head(results) \in Result
    BY <2>1, TailFacts
  <2>3. Head(results).idx \in Items
    BY <2>2 DEF Result
  <2> QED
    BY <1>15, <2>2, <2>3 DEF TakeOk
<1>16. CASE EndOfResults
  BY <1>16 DEF EndOfResults
<1>17. CASE DrainStops
  BY <1>17 DEF DrainStops
<1>18. CASE DrainHole
  BY <1>18 DEF DrainHole, Items
<1>19. CASE ReadDecrypt
  BY <1>19 DEF ReadDecrypt
<1>20. CASE AppendOutput
  <2>1. nextIdx \in Items /\ offset < Total
    BY <1>20 DEF AppendOutput, RangeInv, OutputInv, Items
  <2>2. file' \in Seq(Items)
    BY <1>20, <2>1, AppendFacts DEF AppendOutput
  <2> QED
    BY <1>20, <2>1, <2>2 DEF AppendOutput, Items
<1>21. CASE AppendFails
  BY <1>21 DEF AppendFails
<1>22. CASE Save
  BY <1>22 DEF Save, WriteCheckpoint, Committed
<1>23. CASE WriterReturns
  BY <1>23 DEF WriterReturns, WriteCheckpoint, Committed
<1>24. CASE CloseResults
  BY <1>24 DEF CloseResults
<1>25. CASE Return
  BY <1>25 DEF Return, NoCheckpoint
<1>26. CASE Cancel
  BY <1>26 DEF Cancel
<1>27. CASE Kill
  BY <1>27, ZenonT(60) DEF Kill
<1>28. CASE CutOutput
  <2>1. PICK n \in 0 .. Len(file) - 1 : file' = SubSeq(file, 1, n)
    BY <1>28 DEF CutOutput
  <2>2. file' \in Seq(Items)
    BY <2>1, PrefixFacts
  <2>3. UNCHANGED <<control, canceled, feeding, items, working, outcomes, writer,
                    pending, verdict, memory, ckpt, parts>> /\ torn' = FALSE
    BY <1>28 DEF CutOutput
  <2>4. RunTypeOK' /\ FeederTypeOK' /\ WorkersTypeOK' /\ WriterTypeOK'
    BY <2>3
  <2>5. DiskTypeOK'
    BY <2>2, <2>3
  <2> QED
    BY <2>4, <2>5
<1>29. CASE Rerun
  <2>1. Resumed \in [next : 0 .. Total, off : 0 .. Total] /\ Resumed.off \in 0 .. Len(file)
    BY DEF Resumed, NoCheckpoint
  <2>2. file' \in Seq(Items) /\ nextIdx' \in 0 .. Total /\ offset' \in 0 .. Total
    BY <1>29, <2>1, PrefixFacts DEF Rerun
  <2>3. results' \in Seq(Result) /\ Len(results') = 0
    BY <1>29 DEF Rerun, FreshGoroutines
  <2>4. /\ listed' = Total /\ streaming' \in BOOLEAN /\ feeder' = "emit" /\ sent' = 0 /\ taken' = 0
        /\ wpc' = [w \in Workers |-> "recv"] /\ held' = [w \in Workers |-> 0]
        /\ writer' = "range" /\ ready' = {} /\ holes' = {} /\ verdict' = "none"
        /\ canceled' \in BOOLEAN /\ drained' \in BOOLEAN
    BY <1>29 DEF Rerun, FreshGoroutines
  <2>5. run' = "running" /\ runs' \in 1 .. MaxRuns /\ torn' = FALSE /\ UNCHANGED <<ckpt, parts>>
    BY <1>29 DEF Rerun, MayRerun
  <2>6. 0 \in Items
    BY DEF Items
  <2>7. RunTypeOK' /\ FeederTypeOK'
    BY <2>4, <2>5
  <2>8. WorkersTypeOK'
    BY <2>3, <2>4, <2>6
  <2>9. WriterTypeOK'
    BY <2>2, <2>4
  <2>10. DiskTypeOK'
    BY <2>2, <2>5
  <2> QED
    BY <2>7, <2>8, <2>9, <2>10
<1>30. CASE UNCHANGED vars
  BY <1>30 DEF vars
<1> QED
  BY <1>1, <1>2, <1>3, <1>4, <1>5, <1>6, <1>7, <1>8, <1>9, <1>10, <1>11, <1>12,
     <1>13, <1>14, <1>15, <1>16, <1>17, <1>18, <1>19, <1>20, <1>21, <1>22,
     <1>23, <1>24, <1>25, <1>26, <1>27, <1>28, <1>29, <1>30
  DEF Next, FeederStep, WorkerStep, WriterStep, MainStep

(* Every step keeps the output in order and the checkpoint between two of  *)
(* its items.  AppendOutput adds the item nextIdx, above all that are      *)
(* there; Rerun takes a prefix.                                            *)
LEMMA OutputStep ==
  IInv /\ [Next]_vars => OutputInv'
<1> SUFFICES ASSUME IInv, [Next]_vars PROVE OutputInv'
  OBVIOUS
<1> USE PipelineAssumption DEF control, feeding, items, working, outcomes, pending, memory, output, disk
<1>1. CASE SkipWritten
  BY <1>1 DEF SkipWritten, IInv, OutputInv, OutputInOrder, CheckpointCutsOutput
<1>2. CASE Emit
  BY <1>2 DEF Emit, IInv, OutputInv, OutputInOrder, CheckpointCutsOutput
<1>3. CASE FeederCanceled
  BY <1>3
  DEF FeederCanceled, IInv, OutputInv, OutputInOrder, CheckpointCutsOutput
<1>4. CASE BatchSent
  BY <1>4 DEF BatchSent, IInv, OutputInv, OutputInOrder, CheckpointCutsOutput
<1>5. CASE Refresh
  BY <1>5 DEF Refresh, IInv, OutputInv, OutputInOrder, CheckpointCutsOutput
<1>6. CASE StopRecording
  BY <1>6
  DEF StopRecording, IInv, OutputInv, OutputInOrder, CheckpointCutsOutput
<1>7. ASSUME NEW w \in Workers, Take(w) PROVE OutputInv'
  BY <1>7 DEF Take, IInv, OutputInv, OutputInOrder, CheckpointCutsOutput
<1>8. ASSUME NEW w \in Workers, Exit(w) PROVE OutputInv'
  BY <1>8 DEF Exit, IInv, OutputInv, OutputInOrder, CheckpointCutsOutput
<1>9. ASSUME NEW w \in Workers, Acquire(w) PROVE OutputInv'
  BY <1>9 DEF Acquire, IInv, OutputInv, OutputInOrder, CheckpointCutsOutput
<1>10. ASSUME NEW w \in Workers, PartRestart(w) PROVE OutputInv'
  BY <1>10 DEF PartRestart, IInv, OutputInv, OutputInOrder, CheckpointCutsOutput
<1>11. ASSUME NEW w \in Workers, FetchOk(w) PROVE OutputInv'
  BY <1>11 DEF FetchOk, IInv, OutputInv, OutputInOrder, CheckpointCutsOutput
<1>12. ASSUME NEW w \in Workers, FetchFail(w) PROVE OutputInv'
  BY <1>12 DEF FetchFail, IInv, OutputInv, OutputInOrder, CheckpointCutsOutput
<1>13. ASSUME NEW w \in Workers, Send(w) PROVE OutputInv'
  BY <1>13 DEF Send, IInv, OutputInv, OutputInOrder, CheckpointCutsOutput
<1>14. CASE TakeError
  BY <1>14 DEF TakeError, IInv, OutputInv, OutputInOrder, CheckpointCutsOutput
<1>15. CASE TakeOk
  BY <1>15 DEF TakeOk, IInv, OutputInv, OutputInOrder, CheckpointCutsOutput
<1>16. CASE EndOfResults
  BY <1>16
  DEF EndOfResults, IInv, OutputInv, OutputInOrder, CheckpointCutsOutput
<1>17. CASE DrainStops
  BY <1>17 DEF DrainStops, IInv, OutputInv, OutputInOrder, CheckpointCutsOutput
<1>18. CASE DrainHole
  <2>1. /\ Live /\ verdict # "none" /\ nextIdx' = nextIdx + 1
        /\ UNCHANGED <<run, file, offset, ckpt, verdict>>
    BY <1>18 DEF DrainHole, IInv, ConserveInv
  <2>2. nextIdx \in Nat /\ offset \in Nat /\ ckpt.next \in Nat /\ ckpt.off \in Nat
    BY DEF IInv, TypeOK, WriterTypeOK, DiskTypeOK
  <2>3. \A k \in DOMAIN file : file[k] \in Nat
    BY DEF IInv, TypeOK, DiskTypeOK, Items
  <2>4. OutputInOrder' /\ CheckpointCutsOutput'
    BY <2>1 DEF IInv, OutputInv, OutputInOrder, CheckpointCutsOutput
  <2>5. (Running => \A k \in DOMAIN file : file[k] < nextIdx)'
    BY <2>1, <2>2, <2>3 DEF IInv, OutputInv, Running
  <2>6. (Running => Len(file) = offset)'
    BY <2>1 DEF IInv, OutputInv, Running
  <2> QED
    BY <2>1, <2>2, <2>4, <2>5, <2>6 DEF IInv, OutputInv
<1>19. CASE ReadDecrypt
  BY <1>19 DEF ReadDecrypt, IInv, OutputInv, OutputInOrder, CheckpointCutsOutput
<1>20. CASE AppendOutput
  <2>1. nextIdx \in Items /\ file \in Seq(Items) /\ Len(file) = offset /\ offset \in Nat /\ nextIdx \in Nat
    BY <1>20
    DEF AppendOutput, RangeInv, Items, IInv, TypeOK, FeederTypeOK, WriterTypeOK,
        DiskTypeOK, OutputInv, Running
  <2>2. /\ Len(file') = offset + 1 /\ DOMAIN file' = 1 .. offset + 1 /\ DOMAIN file = 1 .. offset
        /\ \A k \in 1 .. offset : file'[k] = file[k] /\ file[k] \in Nat
        /\ file'[offset + 1] = nextIdx
    BY <1>20, <2>1, AppendFacts DEF AppendOutput, Items
  <2>3. /\ run = "running" /\ UNCHANGED <<run, ckpt, verdict>> /\ offset' = offset + 1 /\ nextIdx' = nextIdx + 1
        /\ ckpt.off \in Nat /\ ckpt.next \in Nat
    BY <1>20 DEF AppendOutput, Running, IInv, TypeOK, DiskTypeOK
  <2>4. /\ \A k \in 1 .. offset : file[k] < nextIdx
        /\ ~Live => \A k \in 1 .. offset : file[k] = k - 1
        /\ \A j, k \in 1 .. offset : j < k => file[j] < file[k]
        /\ \A k \in 1 .. offset : k <= ckpt.off <=> file[k] < ckpt.next
        /\ offset <= nextIdx
        /\ ~Live => offset = nextIdx /\ ckpt.off = ckpt.next
        /\ Live => ckpt.next <= nextIdx /\ ckpt.off <= offset
        /\ verdict = "none" => offset = nextIdx
    BY <2>2, <2>3
    DEF IInv, OutputInv, OutputInOrder, CheckpointCutsOutput, Running
  <2>5. OutputInOrder'
    BY <2>1, <2>2, <2>4 DEF OutputInOrder
  <2>6. CheckpointCutsOutput'
    BY <2>1, <2>2, <2>3, <2>4 DEF CheckpointCutsOutput
  <2>7. \A k \in DOMAIN file' : file'[k] < nextIdx'
    BY <2>1, <2>2, <2>3, <2>4
  <2> QED
    BY <2>5, <2>6, <2>7, <2>1, <2>2, <2>3, <2>4 DEF OutputInv
<1>21. CASE AppendFails
  BY <1>21 DEF AppendFails, IInv, OutputInv, OutputInOrder, CheckpointCutsOutput
<1>22. CASE Save
  BY <1>22
  DEF Save, WriteCheckpoint, Committed, IInv, TypeOK, WriterTypeOK, OutputInv,
      OutputInOrder, CheckpointCutsOutput
<1>23. CASE WriterReturns
  BY <1>23
  DEF WriterReturns, WriteCheckpoint, Committed, IInv, TypeOK, WriterTypeOK,
      OutputInv, OutputInOrder, CheckpointCutsOutput
<1>24. CASE CloseResults
  BY <1>24
  DEF CloseResults, IInv, OutputInv, OutputInOrder, CheckpointCutsOutput
<1>25. CASE Return
  <2>1. UNCHANGED <<file, offset, nextIdx, verdict>> /\ run' # "running" /\ run = "running"
    BY <1>25 DEF Return, Running
  <2>2. ckpt' = ckpt \/ ckpt' = [next |-> 0, off |-> 0]
    BY <1>25 DEF Return, NoCheckpoint
  <2>3. file \in Seq(Items) /\ offset \in Nat /\ nextIdx \in Nat
    BY DEF IInv, TypeOK, DiskTypeOK, WriterTypeOK
  <2>4. \A k \in DOMAIN file : k \in Nat /\ k > 0 /\ file[k] \in Nat
    BY <2>3 DEF Items
  <2>5. CheckpointCutsOutput'
    BY <2>1, <2>2, <2>4 DEF IInv, OutputInv, CheckpointCutsOutput
  <2> QED
    BY <2>1, <2>2, <2>3, <2>5 DEF IInv, OutputInv, OutputInOrder, Running
<1>26. CASE Cancel
  BY <1>26 DEF Cancel, IInv, OutputInv, OutputInOrder, CheckpointCutsOutput
<1>27. CASE Kill
  BY <1>27 DEF Kill, IInv, OutputInv, OutputInOrder, CheckpointCutsOutput
<1>28. CASE CutOutput
  BY <1>28
  DEF CutOutput, IInv, OutputInv, OutputInOrder, CheckpointCutsOutput, Running
<1>29. CASE Rerun
  <2>1. /\ run' = "running" /\ ~Live /\ UNCHANGED <<ckpt, parts>>
        /\ nextIdx' = offset' /\ nextIdx' \in 0 .. Len(file) /\ file' = SubSeq(file, 1, nextIdx')
        /\ listed' = Total /\ streaming' = FALSE /\ feeder' = "emit" /\ sent' = 0 /\ taken' = 0
        /\ \A w \in Workers : wpc'[w] = "recv"
        /\ results' = <<>> /\ drained' = FALSE
        /\ writer' = "range" /\ ready' = {} /\ holes' = {} /\ verdict' = "none"
    BY <1>29, FreshRun
  <2>2. file \in Seq(Items) /\ nextIdx' \in Nat /\ ckpt.off = ckpt.next
    BY <2>1 DEF IInv, TypeOK, DiskTypeOK, OutputInv
  <2>3. /\ Len(file') = nextIdx' /\ DOMAIN file' = 1 .. nextIdx'
        /\ \A k \in 1 .. nextIdx' : k \in DOMAIN file /\ file'[k] = file[k]
    BY <2>1, <2>2, PrefixFacts
  <2>4. \A k \in DOMAIN file : file[k] = k - 1
    BY <2>1 DEF IInv, OutputInv, OutputInOrder
  <2>5. OutputInOrder'
    BY <2>1, <2>2, <2>3, <2>4, SMTT(30) DEF OutputInOrder
  <2>6. CheckpointCutsOutput'
    BY <2>1, <2>2, <2>3, <2>4 DEF CheckpointCutsOutput, IInv, TypeOK, DiskTypeOK
  <2>7. \A k \in DOMAIN file' : file'[k] < nextIdx'
    BY <2>2, <2>3, <2>4
  <2>8. ckpt.next \in Nat /\ ckpt' = ckpt /\ verdict' = "none" /\ offset' = nextIdx' /\ ~Live
    BY <2>1 DEF IInv, TypeOK, DiskTypeOK
  <2> QED
    BY <2>2, <2>3, <2>5, <2>6, <2>7, <2>8 DEF OutputInv
<1>30. CASE UNCHANGED vars
  BY <1>30
  DEF vars, IInv, OutputInv, OutputInOrder, CheckpointCutsOutput, Running
<1> QED
  BY <1>1, <1>2, <1>3, <1>4, <1>5, <1>6, <1>7, <1>8, <1>9, <1>10, <1>11, <1>12,
     <1>13, <1>14, <1>15, <1>16, <1>17, <1>18, <1>19, <1>20, <1>21, <1>22,
     <1>23, <1>24, <1>25, <1>26, <1>27, <1>28, <1>29, <1>30
  DEF Next, FeederStep, WorkerStep, WriterStep, MainStep

(* Every step keeps the items in flight between the floor and taken.       *)
LEMMA RangeStep ==
  IInv /\ [Next]_vars => RangeInv'
<1> SUFFICES ASSUME IInv, [Next]_vars PROVE RangeInv'
  OBVIOUS
<1> USE PipelineAssumption DEF control, feeding, items, working, outcomes, pending, memory, output, disk
<1>1. CASE SkipWritten
  BY <1>1
  DEF SkipWritten, IInv, TypeOK, FeederTypeOK, WriterTypeOK, RangeInv, Floor
<1>2. CASE Emit
  BY <1>2 DEF Emit, IInv, TypeOK, FeederTypeOK, WriterTypeOK, RangeInv, Floor
<1>3. CASE FeederCanceled
  BY <1>3 DEF FeederCanceled, IInv, RangeInv, Floor
<1>4. CASE BatchSent
  BY <1>4 DEF BatchSent, IInv, RangeInv, Floor
<1>5. CASE Refresh
  BY <1>5 DEF Refresh, IInv, RangeInv, Floor
<1>6. CASE StopRecording
  BY <1>6 DEF StopRecording, IInv, RangeInv, Floor
<1>7. ASSUME NEW w \in Workers, Take(w) PROVE RangeInv'
  BY <1>7
  DEF Take, IInv, TypeOK, FeederTypeOK, WorkersTypeOK, WriterTypeOK, RangeInv,
      Floor
<1>8. ASSUME NEW w \in Workers, Exit(w) PROVE RangeInv'
  BY <1>8 DEF Exit, IInv, Busy, RangeInv, Floor
<1>9. ASSUME NEW w \in Workers, Acquire(w) PROVE RangeInv'
  BY <1>9 DEF Acquire, IInv, Busy, RangeInv, Floor
<1>10. ASSUME NEW w \in Workers, PartRestart(w) PROVE RangeInv'
  BY <1>10 DEF PartRestart, IInv, RangeInv, Floor
<1>11. ASSUME NEW w \in Workers, FetchOk(w) PROVE RangeInv'
  BY <1>11 DEF FetchOk, IInv, Busy, RangeInv, Floor
<1>12. ASSUME NEW w \in Workers, FetchFail(w) PROVE RangeInv'
  BY <1>12 DEF FetchFail, IInv, Busy, RangeInv, Floor
<1>13. ASSUME NEW w \in Workers, Send(w) PROVE RangeInv'
  BY <1>13 DEF Send, IInv, Busy, RangeInv, Floor
<1>14. CASE TakeError
  <2>1. results # <<>> /\ results' = Tail(results) /\ Head(results).ok = "no"
    BY <1>14 DEF TakeError
  <2>2. /\ DOMAIN results' = 1 .. Len(results) - 1
        /\ DOMAIN results = 1 .. Len(results) /\ Len(results) \in Nat
        /\ \A k \in DOMAIN results' : k + 1 \in DOMAIN results /\ results'[k] = results[k + 1]
        /\ 1 \in DOMAIN results /\ Head(results) = results[1] /\ results[1].idx \in Items
    BY <2>1, ResultsTail
  <2>3. /\ UNCHANGED <<sent, taken, nextIdx, wpc, held, writer, ready>> /\ writer = "range"
        /\ holes' \subseteq holes \cup {results[1].idx}
    BY <1>14, <2>2 DEF TakeError
  <2>4. \A k \in DOMAIN results' : results'[k].idx \in Floor .. taken - 1
    BY <2>2 DEF IInv, RangeInv
  <2>5. ready' \cup holes' \subseteq Floor .. taken - 1
    BY <2>2, <2>3 DEF IInv, RangeInv
  <2>6. Floor' = Floor
    BY <2>3 DEF Floor
  <2> QED
    BY <2>3, <2>4, <2>5, <2>6 DEF IInv, RangeInv
<1>15. CASE TakeOk
  BY <1>15 DEF TakeOk, IInv, TypeOK, WorkersTypeOK, RangeInv, Floor
<1>16. CASE EndOfResults
  BY <1>16 DEF EndOfResults, IInv, RangeInv, Floor
<1>17. CASE DrainStops
  BY <1>17 DEF DrainStops, IInv, RangeInv, Floor
<1>18. CASE DrainHole
  BY <1>18
  DEF DrainHole, UniqueInv, WithWorker, InResults, IInv, TypeOK, FeederTypeOK,
      RangeInv, Floor
<1>19. CASE ReadDecrypt
  <2>1. /\ nextIdx \in ready /\ ready' = ready \ {nextIdx} /\ UNCHANGED <<results, wpc, held, holes, taken, sent, nextIdx>>
        /\ writer = "drain" /\ writer' \in {"write", "final"}
    BY <1>19 DEF ReadDecrypt
  <2>2. nextIdx \in Int /\ nextIdx < taken /\ taken \in Int
    BY <2>1 DEF IInv, RangeInv, Floor, TypeOK, FeederTypeOK, WriterTypeOK
  <2>3. \A w \in Workers : wpc[w] \in Busy => held[w] # nextIdx
    BY <2>1 DEF IInv, UniqueInv, WithWorker
  <2>4. \A k \in DOMAIN results : results[k].idx # nextIdx
    BY <2>1 DEF IInv, UniqueInv, InResults
  <2>5. nextIdx \notin ready' \cup holes'
    BY <2>1 DEF IInv, UniqueInv
  <2>6. \A w \in Workers : wpc'[w] \in Busy => held'[w] \in Floor' .. taken' - 1
    BY <2>1, <2>2, <2>3 DEF IInv, RangeInv, Floor
  <2>7. \A k \in DOMAIN results' : results'[k].idx \in Floor' .. taken' - 1
    BY <2>1, <2>2, <2>4 DEF IInv, RangeInv, Floor
  <2>8. ready' \cup holes' \subseteq Floor' .. taken' - 1
    BY <2>1, <2>2, <2>5 DEF IInv, RangeInv, Floor
  <2> QED
    BY <2>1, <2>2, <2>6, <2>7, <2>8 DEF IInv, RangeInv, Floor
<1>20. CASE AppendOutput
  BY <1>20
  DEF AppendOutput, IInv, TypeOK, FeederTypeOK, WriterTypeOK, RangeInv, Floor
<1>21. CASE AppendFails
  BY <1>21
  DEF AppendFails, IInv, TypeOK, FeederTypeOK, WriterTypeOK, RangeInv, Floor
<1>22. CASE Save
  BY <1>22 DEF Save, IInv, RangeInv, Floor
<1>23. CASE WriterReturns
  BY <1>23 DEF WriterReturns, IInv, RangeInv, Floor
<1>24. CASE CloseResults
  BY <1>24 DEF CloseResults, IInv, RangeInv, Floor
<1>25. CASE Return
  BY <1>25 DEF Return, IInv, RangeInv, Floor
<1>26. CASE Cancel
  BY <1>26 DEF Cancel, IInv, RangeInv, Floor
<1>27. CASE Kill
  BY <1>27 DEF Kill, IInv, RangeInv, Floor
<1>28. CASE CutOutput
  BY <1>28 DEF CutOutput, IInv, RangeInv, Floor
<1>29. CASE Rerun
  <2>1. /\ run' = "running" /\ ~Live /\ UNCHANGED <<ckpt, parts>>
        /\ nextIdx' = offset' /\ nextIdx' \in 0 .. Len(file) /\ file' = SubSeq(file, 1, nextIdx')
        /\ listed' = Total /\ streaming' = FALSE /\ feeder' = "emit" /\ sent' = 0 /\ taken' = 0
        /\ \A w \in Workers : wpc'[w] = "recv"
        /\ results' = <<>> /\ drained' = FALSE
        /\ writer' = "range" /\ ready' = {} /\ holes' = {} /\ verdict' = "none"
    BY <1>29, FreshRun
  <2> QED
    BY <2>1 DEF RangeInv, Floor, Busy
<1>30. CASE UNCHANGED vars
  BY <1>30 DEF vars, IInv, RangeInv, Floor
<1> QED
  BY <1>1, <1>2, <1>3, <1>4, <1>5, <1>6, <1>7, <1>8, <1>9, <1>10, <1>11, <1>12,
     <1>13, <1>14, <1>15, <1>16, <1>17, <1>18, <1>19, <1>20, <1>21, <1>22,
     <1>23, <1>24, <1>25, <1>26, <1>27, <1>28, <1>29, <1>30
  DEF Next, FeederStep, WorkerStep, WriterStep, MainStep

(* Every step keeps every item in one place: a worker, the results         *)
(* channel, ready or holes.  An item changes place at Take, Send, TakeOk,  *)
(* TakeError and ReadDecrypt.                                              *)
LEMMA UniqueStep ==
  IInv /\ [Next]_vars => UniqueInv'
<1> SUFFICES ASSUME IInv, [Next]_vars PROVE UniqueInv'
  OBVIOUS
<1> USE PipelineAssumption DEF control, feeding, items, working, outcomes, pending, memory, output, disk
<1>1. CASE SkipWritten
  BY <1>1 DEF SkipWritten, IInv, UniqueInv, WithWorker, InResults
<1>2. CASE Emit
  BY <1>2 DEF Emit, IInv, UniqueInv, WithWorker, InResults
<1>3. CASE FeederCanceled
  BY <1>3 DEF FeederCanceled, IInv, UniqueInv, WithWorker, InResults
<1>4. CASE BatchSent
  BY <1>4 DEF BatchSent, IInv, UniqueInv, WithWorker, InResults
<1>5. CASE Refresh
  BY <1>5 DEF Refresh, IInv, UniqueInv, WithWorker, InResults
<1>6. CASE StopRecording
  BY <1>6 DEF StopRecording, IInv, UniqueInv, WithWorker, InResults
<1>7. ASSUME NEW w \in Workers, Take(w) PROVE UniqueInv'
  BY <1>7
  DEF Take, IInv, TypeOK, WorkersTypeOK, UniqueInv, RangeInv, WithWorker,
      InResults
<1>8. ASSUME NEW w \in Workers, Exit(w) PROVE UniqueInv'
  BY <1>8 DEF Exit, IInv, Busy, UniqueInv, WithWorker, InResults
<1>9. ASSUME NEW w \in Workers, Acquire(w) PROVE UniqueInv'
  BY <1>9 DEF Acquire, IInv, Busy, UniqueInv, WithWorker, InResults
<1>10. ASSUME NEW w \in Workers, PartRestart(w) PROVE UniqueInv'
  BY <1>10 DEF PartRestart, IInv, UniqueInv, WithWorker, InResults
<1>11. ASSUME NEW w \in Workers, FetchOk(w) PROVE UniqueInv'
  BY <1>11 DEF FetchOk, IInv, Busy, UniqueInv, WithWorker, InResults
<1>12. ASSUME NEW w \in Workers, FetchFail(w) PROVE UniqueInv'
  BY <1>12 DEF FetchFail, IInv, Busy, UniqueInv, WithWorker, InResults
<1>13. ASSUME NEW w \in Workers, Send(w) PROVE UniqueInv'
  <2>1. PICK r \in Result : r.idx = held[w] /\ (r.ok = "yes" <=> wpc[w] = "good") /\ results' = Append(results, r)
    BY <1>13 DEF Send, Result, IInv, TypeOK, WorkersTypeOK
  <2>2. /\ DOMAIN results' = 1 .. Len(results) + 1
        /\ DOMAIN results = 1 .. Len(results) /\ Len(results) \in Nat
        /\ \A k \in DOMAIN results : results'[k] = results[k]
        /\ results'[Len(results) + 1] = r
    BY <2>1, ResultsAppend
  <2>3. /\ wpc[w] \in Busy /\ wpc'[w] = "recv"
        /\ \A v \in Workers : held'[v] = held[v] /\ (v # w => wpc'[v] = wpc[v])
        /\ UNCHANGED <<ready, holes>>
    BY <1>13 DEF Send, IInv, TypeOK, WorkersTypeOK, Busy
  <2>4. \A k \in DOMAIN results' : k \in DOMAIN results \/ k = Len(results) + 1
    BY <2>2
  <2>5. WithWorker(r.idx)
    BY <2>1, <2>3 DEF WithWorker
  <2>6. "recv" \notin Busy
    BY DEF Busy
  <2>7. \A i : WithWorker(i)' => WithWorker(i) /\ i # r.idx
    BY <2>1, <2>3, <2>6 DEF WithWorker, IInv, UniqueInv
  <2>8. \A i : InResults(i)' => InResults(i) \/ i = r.idx
    BY <2>2, <2>4 DEF InResults
  <2>9. \A k \in DOMAIN results' : ~WithWorker(results[k].idx)'
    BY <2>2, <2>4, <2>7 DEF IInv, UniqueInv
  <2>10. \A i \in ready' \cup holes' : ~WithWorker(i)' /\ ~InResults(i)'
    BY <2>3, <2>5, <2>7, <2>8 DEF IInv, UniqueInv
  <2>11. \A j, k \in DOMAIN results' : j # k => results'[j].idx # results'[k].idx
    BY <2>2, <2>4, <2>5 DEF IInv, UniqueInv
  <2>12. \A u, v \in Workers :
          u # v /\ wpc'[u] \in Busy /\ wpc'[v] \in Busy => held'[u] # held'[v]
    BY <2>3, <2>6 DEF IInv, UniqueInv
  <2> QED
    BY <2>3, <2>9, <2>10, <2>11, <2>12 DEF IInv, UniqueInv
<1>14. CASE TakeError
  <2>1. results # <<>> /\ results' = Tail(results) /\ Head(results).ok = "no"
    BY <1>14 DEF TakeError
  <2>2. /\ DOMAIN results' = 1 .. Len(results) - 1
        /\ DOMAIN results = 1 .. Len(results) /\ Len(results) \in Nat
        /\ \A k \in DOMAIN results' : k + 1 \in DOMAIN results /\ results'[k] = results[k + 1]
        /\ 1 \in DOMAIN results /\ Head(results) = results[1] /\ results[1].idx \in Items
    BY <2>1, ResultsTail
  <2>3. \A w \in Workers : wpc'[w] = wpc[w] /\ held'[w] = held[w]
    BY <1>14 DEF TakeError
  <2>4. \A i \in ready' \cup holes' : i \in ready \cup holes \/ i = results[1].idx
    BY <1>14, <2>2 DEF TakeError
  <2>5. \A j, k \in DOMAIN results' : j # k => results'[j].idx # results'[k].idx
    BY <2>2 DEF IInv, UniqueInv
  <2>6. \A k \in DOMAIN results' : ~WithWorker(results[k].idx)'
    BY <2>2, <2>3 DEF IInv, UniqueInv, WithWorker
  <2>7. \A i \in ready' \cup holes' : ~WithWorker(i)'
    BY <2>2, <2>3, <2>4 DEF IInv, UniqueInv, WithWorker
  <2>8. \A i \in ready' \cup holes' : ~InResults(i)'
    <3>1. ASSUME NEW i \in ready' \cup holes', NEW k \in DOMAIN results', results'[k].idx = i PROVE FALSE
      <4>1. k + 1 \in DOMAIN results /\ results[k + 1].idx = i /\ k + 1 # 1
        BY <2>2, <3>1
      <4>2. CASE i \in ready \cup holes
        BY <4>1, <4>2 DEF IInv, UniqueInv, InResults
      <4>3. CASE i = results[1].idx
        BY <2>2, <4>1, <4>3 DEF IInv, UniqueInv
      <4> QED
        BY <2>4, <4>2, <4>3
    <3> QED
      BY <3>1 DEF InResults
  <2>9. ready' \cap holes' = {}
    <3>1. results[1].idx \notin ready \cup holes
      BY <2>2 DEF IInv, UniqueInv, InResults
    <3> QED
      BY <1>14, <2>2, <3>1 DEF TakeError, IInv, UniqueInv
  <2> QED
    BY <2>3, <2>5, <2>6, <2>7, <2>8, <2>9 DEF IInv, UniqueInv
<1>15. CASE TakeOk
  <2>1. results # <<>> /\ results' = Tail(results) /\ Head(results).ok = "yes"
    BY <1>15 DEF TakeOk
  <2>2. /\ DOMAIN results' = 1 .. Len(results) - 1
        /\ DOMAIN results = 1 .. Len(results) /\ Len(results) \in Nat
        /\ \A k \in DOMAIN results' : k + 1 \in DOMAIN results /\ results'[k] = results[k + 1]
        /\ 1 \in DOMAIN results /\ Head(results) = results[1] /\ results[1].idx \in Items
    BY <2>1, ResultsTail
  <2>3. \A w \in Workers : wpc'[w] = wpc[w] /\ held'[w] = held[w]
    BY <1>15 DEF TakeOk
  <2>4. \A i \in ready' \cup holes' : i \in ready \cup holes \/ i = results[1].idx
    BY <1>15, <2>2 DEF TakeOk
  <2>5. \A j, k \in DOMAIN results' : j # k => results'[j].idx # results'[k].idx
    BY <2>2 DEF IInv, UniqueInv
  <2>6. \A k \in DOMAIN results' : ~WithWorker(results[k].idx)'
    BY <2>2, <2>3 DEF IInv, UniqueInv, WithWorker
  <2>7. \A i \in ready' \cup holes' : ~WithWorker(i)'
    BY <2>2, <2>3, <2>4 DEF IInv, UniqueInv, WithWorker
  <2>8. \A i \in ready' \cup holes' : ~InResults(i)'
    <3>1. ASSUME NEW i \in ready' \cup holes', NEW k \in DOMAIN results', results'[k].idx = i PROVE FALSE
      <4>1. k + 1 \in DOMAIN results /\ results[k + 1].idx = i /\ k + 1 # 1
        BY <2>2, <3>1
      <4>2. CASE i \in ready \cup holes
        BY <4>1, <4>2 DEF IInv, UniqueInv, InResults
      <4>3. CASE i = results[1].idx
        BY <2>2, <4>1, <4>3 DEF IInv, UniqueInv
      <4> QED
        BY <2>4, <4>2, <4>3
    <3> QED
      BY <3>1 DEF InResults
  <2>9. ready' \cap holes' = {}
    <3>1. results[1].idx \notin ready \cup holes
      BY <2>2 DEF IInv, UniqueInv, InResults
    <3> QED
      BY <1>15, <2>2, <3>1 DEF TakeOk, IInv, UniqueInv
  <2> QED
    BY <2>3, <2>5, <2>6, <2>7, <2>8, <2>9 DEF IInv, UniqueInv
<1>16. CASE EndOfResults
  BY <1>16 DEF EndOfResults, IInv, UniqueInv, WithWorker, InResults
<1>17. CASE DrainStops
  BY <1>17 DEF DrainStops, IInv, UniqueInv, WithWorker, InResults
<1>18. CASE DrainHole
  BY <1>18 DEF DrainHole, IInv, UniqueInv, WithWorker, InResults
<1>19. CASE ReadDecrypt
  BY <1>19 DEF ReadDecrypt, IInv, UniqueInv, WithWorker, InResults
<1>20. CASE AppendOutput
  BY <1>20 DEF AppendOutput, IInv, UniqueInv, WithWorker, InResults
<1>21. CASE AppendFails
  BY <1>21 DEF AppendFails, IInv, UniqueInv, WithWorker, InResults
<1>22. CASE Save
  BY <1>22 DEF Save, IInv, UniqueInv, WithWorker, InResults
<1>23. CASE WriterReturns
  BY <1>23 DEF WriterReturns, IInv, UniqueInv, WithWorker, InResults
<1>24. CASE CloseResults
  BY <1>24 DEF CloseResults, IInv, UniqueInv, WithWorker, InResults
<1>25. CASE Return
  BY <1>25 DEF Return, IInv, UniqueInv, WithWorker, InResults
<1>26. CASE Cancel
  BY <1>26 DEF Cancel, IInv, UniqueInv, WithWorker, InResults
<1>27. CASE Kill
  BY <1>27 DEF Kill, IInv, UniqueInv, WithWorker, InResults
<1>28. CASE CutOutput
  BY <1>28 DEF CutOutput, IInv, UniqueInv, WithWorker, InResults
<1>29. CASE Rerun
  <2>1. /\ run' = "running" /\ ~Live /\ UNCHANGED <<ckpt, parts>>
        /\ nextIdx' = offset' /\ nextIdx' \in 0 .. Len(file) /\ file' = SubSeq(file, 1, nextIdx')
        /\ listed' = Total /\ streaming' = FALSE /\ feeder' = "emit" /\ sent' = 0 /\ taken' = 0
        /\ \A w \in Workers : wpc'[w] = "recv"
        /\ results' = <<>> /\ drained' = FALSE
        /\ writer' = "range" /\ ready' = {} /\ holes' = {} /\ verdict' = "none"
    BY <1>29, FreshRun
  <2> QED
    BY <2>1 DEF UniqueInv, WithWorker, InResults, Busy
<1>30. CASE UNCHANGED vars
  BY <1>30 DEF vars, IInv, UniqueInv, WithWorker, InResults
<1> QED
  BY <1>1, <1>2, <1>3, <1>4, <1>5, <1>6, <1>7, <1>8, <1>9, <1>10, <1>11, <1>12,
     <1>13, <1>14, <1>15, <1>16, <1>17, <1>18, <1>19, <1>20, <1>21, <1>22,
     <1>23, <1>24, <1>25, <1>26, <1>27, <1>28, <1>29, <1>30
  DEF Next, FeederStep, WorkerStep, WriterStep, MainStep

(* Every step keeps the part of a downloaded item whole: the steps that    *)
(* write to a part are those of the worker that holds the item, and no     *)
(* other place has it.                                                     *)
LEMMA PartsStep ==
  IInv /\ [Next]_vars => PartsInv'
<1> SUFFICES ASSUME IInv, [Next]_vars PROVE PartsInv'
  OBVIOUS
<1> USE PipelineAssumption DEF control, feeding, items, working, outcomes, pending, memory, output, disk
<1>1. CASE SkipWritten
  BY <1>1 DEF SkipWritten, IInv, PartsInv
<1>2. CASE Emit
  BY <1>2 DEF Emit, IInv, PartsInv
<1>3. CASE FeederCanceled
  BY <1>3 DEF FeederCanceled, IInv, PartsInv
<1>4. CASE BatchSent
  BY <1>4 DEF BatchSent, IInv, PartsInv
<1>5. CASE Refresh
  BY <1>5 DEF Refresh, IInv, PartsInv
<1>6. CASE StopRecording
  BY <1>6 DEF StopRecording, IInv, PartsInv
<1>7. ASSUME NEW w \in Workers, Take(w) PROVE PartsInv'
  BY <1>7 DEF Take, IInv, PartsInv
<1>8. ASSUME NEW w \in Workers, Exit(w) PROVE PartsInv'
  BY <1>8 DEF Exit, IInv, PartsInv
<1>9. ASSUME NEW w \in Workers, Acquire(w) PROVE PartsInv'
  BY <1>9 DEF Acquire, IInv, PartsInv
<1>10. ASSUME NEW w \in Workers, PartRestart(w) PROVE PartsInv'
  BY <1>10 DEF PartRestart, IInv, Busy, PartsInv, UniqueInv, WithWorker
<1>11. ASSUME NEW w \in Workers, FetchOk(w) PROVE PartsInv'
  BY <1>11 DEF FetchOk, IInv, TypeOK, WorkersTypeOK, DiskTypeOK, PartsInv
<1>12. ASSUME NEW w \in Workers, FetchFail(w) PROVE PartsInv'
  <2>1. CASE UNCHANGED parts
    BY <1>12, <2>1 DEF FetchFail, IInv, PartsInv
  <2>2. CASE parts[held[w]] = "partial" /\ parts' = [parts EXCEPT ![held[w]] = "none"]
    BY <1>12, <2>2 DEF FetchFail, IInv, PartsInv
  <2> QED
    BY <1>12, <2>1, <2>2 DEF FetchFail
<1>13. ASSUME NEW w \in Workers, Send(w) PROVE PartsInv'
  BY <1>13 DEF Send, IInv, PartsInv
<1>14. CASE TakeError
  BY <1>14 DEF TakeError, IInv, TypeOK, WorkersTypeOK, PartsInv
<1>15. CASE TakeOk
  BY <1>15 DEF TakeOk, IInv, TypeOK, WorkersTypeOK, PartsInv
<1>16. CASE EndOfResults
  BY <1>16 DEF EndOfResults, IInv, PartsInv
<1>17. CASE DrainStops
  BY <1>17 DEF DrainStops, IInv, PartsInv
<1>18. CASE DrainHole
  BY <1>18 DEF DrainHole, IInv, PartsInv
<1>19. CASE ReadDecrypt
  <2>1. /\ nextIdx \in ready /\ ready' = ready \ {nextIdx}
        /\ UNCHANGED <<wpc, held, results>>
        /\ \A i \in ready' : i \in Items /\ i # nextIdx
    BY <1>19 DEF ReadDecrypt, IInv, TypeOK, WriterTypeOK
  <2>2. \A i \in Items : i # nextIdx => parts'[i] = parts[i]
    BY <1>19 DEF ReadDecrypt, IInv, TypeOK, DiskTypeOK
  <2>3. \A w \in Workers : wpc[w] = "good" => held[w] \in Items /\ held[w] # nextIdx
    BY <2>1 DEF IInv, TypeOK, WorkersTypeOK, UniqueInv, WithWorker, Busy
  <2>4. \A k \in DOMAIN results : results[k].idx \in Items /\ results[k].idx # nextIdx
    <3>1. \A k \in DOMAIN results : results[k] \in Result
      BY DEF IInv, TypeOK, WorkersTypeOK
    <3>2. \A k \in DOMAIN results : results[k].idx # nextIdx
      BY <2>1 DEF IInv, UniqueInv, InResults
    <3> QED
      BY <3>1, <3>2 DEF Result
  <2> QED
    BY <2>1, <2>2, <2>3, <2>4 DEF IInv, PartsInv
<1>20. CASE AppendOutput
  BY <1>20 DEF AppendOutput, IInv, PartsInv
<1>21. CASE AppendFails
  BY <1>21 DEF AppendFails, IInv, PartsInv
<1>22. CASE Save
  BY <1>22 DEF Save, IInv, PartsInv
<1>23. CASE WriterReturns
  BY <1>23 DEF WriterReturns, IInv, PartsInv
<1>24. CASE CloseResults
  BY <1>24 DEF CloseResults, IInv, PartsInv
<1>25. CASE Return
  BY <1>25 DEF Return, IInv, PartsInv
<1>26. CASE Cancel
  BY <1>26 DEF Cancel, IInv, PartsInv
<1>27. CASE Kill
  BY <1>27 DEF Kill, IInv, PartsInv
<1>28. CASE CutOutput
  BY <1>28 DEF CutOutput, IInv, PartsInv
<1>29. CASE Rerun
  <2>1. /\ run' = "running" /\ ~Live /\ UNCHANGED <<ckpt, parts>>
        /\ nextIdx' = offset' /\ nextIdx' \in 0 .. Len(file) /\ file' = SubSeq(file, 1, nextIdx')
        /\ listed' = Total /\ streaming' = FALSE /\ feeder' = "emit" /\ sent' = 0 /\ taken' = 0
        /\ \A w \in Workers : wpc'[w] = "recv"
        /\ results' = <<>> /\ drained' = FALSE
        /\ writer' = "range" /\ ready' = {} /\ holes' = {} /\ verdict' = "none"
    BY <1>29, FreshRun
  <2> QED
    BY <2>1 DEF PartsInv
<1>30. CASE UNCHANGED vars
  BY <1>30 DEF vars, IInv, PartsInv
<1> QED
  BY <1>1, <1>2, <1>3, <1>4, <1>5, <1>6, <1>7, <1>8, <1>9, <1>10, <1>11, <1>12,
     <1>13, <1>14, <1>15, <1>16, <1>17, <1>18, <1>19, <1>20, <1>21, <1>22,
     <1>23, <1>24, <1>25, <1>26, <1>27, <1>28, <1>29, <1>30
  DEF Next, FeederStep, WorkerStep, WriterStep, MainStep

(* Every step keeps the order of the shutdown: the feeder is done before a *)
(* worker sees the end of items, all workers are gone before results is    *)
(* closed.                                                                 *)
LEMMA ShutdownStep ==
  IInv /\ [Next]_vars => ShutdownInv'
<1> SUFFICES ASSUME IInv, [Next]_vars PROVE ShutdownInv'
  OBVIOUS
<1> USE PipelineAssumption DEF control, feeding, items, working, outcomes, pending, memory, output, disk
<1>1. CASE SkipWritten
  BY <1>1 DEF SkipWritten, IInv, ShutdownInv
<1>2. CASE Emit
  BY <1>2 DEF Emit, IInv, ShutdownInv
<1>3. CASE FeederCanceled
  BY <1>3 DEF FeederCanceled, IInv, ShutdownInv
<1>4. CASE BatchSent
  BY <1>4 DEF BatchSent, IInv, ShutdownInv
<1>5. CASE Refresh
  <2>1. Live
    BY <1>5 DEF Refresh, IInv, ShutdownInv
  <2> QED
    BY <1>5, <2>1 DEF Refresh, IInv, ShutdownInv
<1>6. CASE StopRecording
  BY <1>6 DEF StopRecording, IInv, ShutdownInv
<1>7. ASSUME NEW w \in Workers, Take(w) PROVE ShutdownInv'
  BY <1>7 DEF Take, IInv, TypeOK, FeederTypeOK, ShutdownInv
<1>8. ASSUME NEW w \in Workers, Exit(w) PROVE ShutdownInv'
  BY <1>8 DEF Exit, IInv, ShutdownInv
<1>9. ASSUME NEW w \in Workers, Acquire(w) PROVE ShutdownInv'
  BY <1>9 DEF Acquire, IInv, ShutdownInv
<1>10. ASSUME NEW w \in Workers, PartRestart(w) PROVE ShutdownInv'
  BY <1>10 DEF PartRestart, IInv, ShutdownInv
<1>11. ASSUME NEW w \in Workers, FetchOk(w) PROVE ShutdownInv'
  BY <1>11 DEF FetchOk, IInv, ShutdownInv
<1>12. ASSUME NEW w \in Workers, FetchFail(w) PROVE ShutdownInv'
  BY <1>12 DEF FetchFail, IInv, ShutdownInv
<1>13. ASSUME NEW w \in Workers, Send(w) PROVE ShutdownInv'
  BY <1>13 DEF Send, IInv, ShutdownInv
<1>14. CASE TakeError
  BY <1>14 DEF TakeError, IInv, ShutdownInv
<1>15. CASE TakeOk
  BY <1>15 DEF TakeOk, IInv, ShutdownInv
<1>16. CASE EndOfResults
  BY <1>16 DEF EndOfResults, IInv, ShutdownInv
<1>17. CASE DrainStops
  BY <1>17 DEF DrainStops, IInv, ShutdownInv
<1>18. CASE DrainHole
  BY <1>18 DEF DrainHole, IInv, ShutdownInv
<1>19. CASE ReadDecrypt
  BY <1>19 DEF ReadDecrypt, IInv, ShutdownInv
<1>20. CASE AppendOutput
  BY <1>20 DEF AppendOutput, IInv, ShutdownInv
<1>21. CASE AppendFails
  BY <1>21 DEF AppendFails, IInv, ShutdownInv
<1>22. CASE Save
  BY <1>22 DEF Save, IInv, ShutdownInv
<1>23. CASE WriterReturns
  BY <1>23 DEF WriterReturns, IInv, ShutdownInv
<1>24. CASE CloseResults
  BY <1>24 DEF CloseResults, IInv, ShutdownInv
<1>25. CASE Return
  BY <1>25 DEF Return, IInv, ShutdownInv
<1>26. CASE Cancel
  BY <1>26 DEF Cancel, IInv, ShutdownInv
<1>27. CASE Kill
  BY <1>27 DEF Kill, IInv, ShutdownInv
<1>28. CASE CutOutput
  BY <1>28 DEF CutOutput, IInv, ShutdownInv
<1>29. CASE Rerun
  <2>1. /\ run' = "running" /\ ~Live /\ UNCHANGED <<ckpt, parts>>
        /\ nextIdx' = offset' /\ nextIdx' \in 0 .. Len(file) /\ file' = SubSeq(file, 1, nextIdx')
        /\ listed' = Total /\ streaming' = FALSE /\ feeder' = "emit" /\ sent' = 0 /\ taken' = 0
        /\ \A w \in Workers : wpc'[w] = "recv"
        /\ results' = <<>> /\ drained' = FALSE
        /\ writer' = "range" /\ ready' = {} /\ holes' = {} /\ verdict' = "none"
    BY <1>29, FreshRun
  <2> QED
    BY <2>1 DEF ShutdownInv
<1>30. CASE UNCHANGED vars
  BY <1>30 DEF vars, IInv, ShutdownInv
<1> QED
  BY <1>1, <1>2, <1>3, <1>4, <1>5, <1>6, <1>7, <1>8, <1>9, <1>10, <1>11, <1>12,
     <1>13, <1>14, <1>15, <1>16, <1>17, <1>18, <1>19, <1>20, <1>21, <1>22,
     <1>23, <1>24, <1>25, <1>26, <1>27, <1>28, <1>29, <1>30
  DEF Next, FeederStep, WorkerStep, WriterStep, MainStep

(* Every step keeps the items of a run that has not failed: what was taken *)
(* is committed or in one of the places an item can be.                    *)
LEMMA ConserveStep ==
  IInv /\ [Next]_vars => ConserveInv'
<1> SUFFICES ASSUME IInv, [Next]_vars PROVE ConserveInv'
  OBVIOUS
<1> USE PipelineAssumption DEF control, feeding, items, working, outcomes, pending, memory, output, disk
<1>1. CASE SkipWritten
  BY <1>1
  DEF SkipWritten, IInv, TypeOK, FeederTypeOK, WriterTypeOK, ConserveInv, Floor
<1>2. CASE Emit
  BY <1>2 DEF Emit, IInv, ConserveInv, Floor, WithWorker, InResults, Pending
<1>3. CASE FeederCanceled
  BY <1>3 DEF FeederCanceled, IInv, ConserveInv
<1>4. CASE BatchSent
  BY <1>4
  DEF BatchSent, IInv, ConserveInv, Floor, WithWorker, InResults, Pending
<1>5. CASE Refresh
  BY <1>5
  DEF Refresh, IInv, ConserveInv, Floor, WithWorker, InResults, Pending, Running
<1>6. CASE StopRecording
  BY <1>6
  DEF StopRecording, IInv, ConserveInv, Floor, WithWorker, InResults, Pending
<1>7. ASSUME NEW w \in Workers, Take(w) PROVE ConserveInv'
  <2>1. /\ taken' = taken + 1 /\ wpc[w] = "recv" /\ wpc'[w] = "acquire" /\ held'[w] = taken
        /\ \A v \in Workers : v # w => wpc'[v] = wpc[v] /\ held'[v] = held[v]
        /\ UNCHANGED <<run, canceled, listed, results, drained, writer, ready, holes, verdict, nextIdx, file>>
    BY <1>7 DEF Take, IInv, TypeOK, WorkersTypeOK
  <2>2. nextIdx \in Int /\ taken \in Int
    BY DEF IInv, TypeOK, FeederTypeOK, WriterTypeOK
  <2>3. \A i : WithWorker(i) => WithWorker(i)'
    BY <2>1 DEF WithWorker, Busy
  <2>4. \A i : i = taken => WithWorker(i)'
    BY <2>1 DEF WithWorker, Busy
  <2>5. \A i : InResults(i) \/ Pending(i) => (InResults(i) \/ Pending(i))'
    BY <2>1 DEF InResults, Pending
  <2>6. Floor' = Floor /\ Floor \in Int
    BY <2>1, <2>2 DEF Floor
  <2>7. \A i \in Floor .. taken : i = taken \/ i \in Floor .. taken - 1
    BY <2>2, <2>6
  <2>8. (verdict = "none" /\ ~canceled =>
           \A i \in Floor .. taken - 1 : WithWorker(i) \/ InResults(i) \/ Pending(i))'
    <3>1. ASSUME verdict' = "none", ~canceled', NEW i \in Floor' .. taken' - 1
          PROVE  WithWorker(i)' \/ InResults(i)' \/ Pending(i)'
      <4>1. i = taken \/ i \in Floor .. taken - 1
        BY <3>1, <2>1, <2>2, <2>6, <2>7
      <4>2. CASE i = taken
        BY <4>2, <2>4
      <4>3. CASE i \in Floor .. taken - 1
        BY <4>3, <3>1, <2>1, <2>3, <2>5 DEF IInv, ConserveInv
      <4> QED
        BY <4>1, <4>2, <4>3
    <3> QED
      BY <3>1
  <2> QED
    BY <2>1, <2>8 DEF IInv, ConserveInv
<1>8. ASSUME NEW w \in Workers, Exit(w) PROVE ConserveInv'
  BY <1>8
  DEF Exit, IInv, Busy, ConserveInv, Floor, WithWorker, InResults, Pending
<1>9. ASSUME NEW w \in Workers, Acquire(w) PROVE ConserveInv'
  BY <1>9
  DEF Acquire, IInv, Busy, ConserveInv, Floor, WithWorker, InResults, Pending
<1>10. ASSUME NEW w \in Workers, PartRestart(w) PROVE ConserveInv'
  BY <1>10
  DEF PartRestart, IInv, ConserveInv, Floor, WithWorker, InResults, Pending
<1>11. ASSUME NEW w \in Workers, FetchOk(w) PROVE ConserveInv'
  BY <1>11
  DEF FetchOk, IInv, Busy, ConserveInv, Floor, WithWorker, InResults, Pending
<1>12. ASSUME NEW w \in Workers, FetchFail(w) PROVE ConserveInv'
  BY <1>12
  DEF FetchFail, IInv, Busy, ConserveInv, Floor, WithWorker, InResults, Pending
<1>13. ASSUME NEW w \in Workers, Send(w) PROVE ConserveInv'
  <2>1. PICK r \in Result : r.idx = held[w] /\ (r.ok = "yes" <=> wpc[w] = "good") /\ results' = Append(results, r)
    BY <1>13 DEF Send, Result, IInv, TypeOK, WorkersTypeOK
  <2>2. /\ DOMAIN results' = 1 .. Len(results) + 1
        /\ DOMAIN results = 1 .. Len(results) /\ Len(results) \in Nat
        /\ \A k \in DOMAIN results : results'[k] = results[k]
        /\ results'[Len(results) + 1] = r
    BY <2>1, ResultsAppend
  <2>3. /\ wpc[w] \in Busy /\ wpc'[w] = "recv"
        /\ \A v \in Workers : held'[v] = held[v] /\ (v # w => wpc'[v] = wpc[v])
        /\ UNCHANGED <<ready, holes>>
    BY <1>13 DEF Send, IInv, TypeOK, WorkersTypeOK, Busy
  <2>4. \A k \in DOMAIN results' : k \in DOMAIN results \/ k = Len(results) + 1
    BY <2>2
  <2>5. WithWorker(r.idx)
    BY <2>1, <2>3 DEF WithWorker
  <2>6. UNCHANGED <<run, canceled, listed, drained, taken, nextIdx, file, verdict, writer>>
    BY <1>13 DEF Send
  <2>7. \A i : InResults(i) => InResults(i)'
    BY <2>2 DEF InResults
  <2>8. Len(results) + 1 \in DOMAIN results' /\ InResults(r.idx)'
    BY <2>2 DEF InResults
  <2>9. \A i : WithWorker(i) => WithWorker(i)' \/ InResults(i)'
    BY <2>1, <2>3, <2>8 DEF WithWorker
  <2>10. \A i : WithWorker(i) \/ InResults(i) \/ Pending(i) => (WithWorker(i) \/ InResults(i) \/ Pending(i))'
    BY <2>3, <2>7, <2>9 DEF Pending
  <2>11. verdict = "none" => writer \notin {"final", "done"}
    BY <1>13 DEF Send, IInv, ConserveInv, ShutdownInv
  <2> QED
    BY <2>3, <2>6, <2>10, <2>11 DEF IInv, ConserveInv, Floor
<1>14. CASE TakeError
  BY <1>14 DEF TakeError, IInv, ConserveInv
<1>15. CASE TakeOk
  <2>1. results # <<>> /\ results' = Tail(results) /\ Head(results).ok = "yes"
    BY <1>15 DEF TakeOk
  <2>2. /\ DOMAIN results' = 1 .. Len(results) - 1
        /\ DOMAIN results = 1 .. Len(results) /\ Len(results) \in Nat
        /\ \A k \in DOMAIN results' : k + 1 \in DOMAIN results /\ results'[k] = results[k + 1]
        /\ 1 \in DOMAIN results /\ Head(results) = results[1] /\ results[1].idx \in Items
    BY <2>1, ResultsTail
  <2>3. /\ UNCHANGED <<run, canceled, listed, drained, wpc, held, holes, taken, nextIdx, file, verdict>>
        /\ writer = "range" /\ writer' = "drain" /\ ready' = ready \cup {results[1].idx}
    BY <1>15, <2>2 DEF TakeOk
  <2>4. \A i : InResults(i) => InResults(i)' \/ i = results[1].idx
    <3>1. ASSUME NEW i, NEW k \in DOMAIN results, results[k].idx = i, k # 1
          PROVE  InResults(i)'
      <4>1. k - 1 \in DOMAIN results' /\ results'[k - 1] = results[k]
        BY <2>2, <3>1
      <4> QED
        BY <3>1, <4>1 DEF InResults
    <3> QED
      BY <3>1 DEF InResults
  <2>5. \A i : WithWorker(i) \/ InResults(i) \/ Pending(i) => (WithWorker(i) \/ InResults(i) \/ Pending(i))'
    BY <2>3, <2>4 DEF WithWorker, Pending
  <2> QED
    BY <2>3, <2>5 DEF IInv, ConserveInv, Floor
<1>16. CASE EndOfResults
  BY <1>16
  DEF EndOfResults, ShutdownInv, RangeInv, IInv, TypeOK, FeederTypeOK,
      WriterTypeOK, Busy, ConserveInv, Floor, WithWorker, InResults, Pending
<1>17. CASE DrainStops
  BY <1>17
  DEF DrainStops, IInv, ConserveInv, Floor, WithWorker, InResults, Pending
<1>18. CASE DrainHole
  BY <1>18 DEF DrainHole, IInv, ConserveInv
<1>19. CASE ReadDecrypt
  <2>1. /\ nextIdx \in ready /\ ready' = ready \ {nextIdx}
        /\ UNCHANGED <<run, canceled, listed, results, drained, wpc, held, holes, taken, nextIdx, file>>
        /\ writer = "drain"
        /\ (writer' = "write" /\ verdict' = verdict) \/ (writer' = "final" /\ verdict' = "commit")
    BY <1>19 DEF ReadDecrypt
  <2>2. nextIdx \in Int /\ taken \in Int
    BY DEF IInv, TypeOK, FeederTypeOK, WriterTypeOK
  <2>3. \A i : i # nextIdx /\ (WithWorker(i) \/ InResults(i) \/ Pending(i)) => (WithWorker(i) \/ InResults(i) \/ Pending(i))'
    BY <2>1 DEF WithWorker, InResults, Pending
  <2> QED
    BY <2>1, <2>2, <2>3 DEF IInv, ConserveInv, Floor
<1>20. CASE AppendOutput
  BY <1>20
  DEF AppendOutput, IInv, ConserveInv, Floor, WithWorker, InResults, Pending,
      Running
<1>21. CASE AppendFails
  BY <1>21 DEF AppendFails, IInv, ConserveInv
<1>22. CASE Save
  BY <1>22 DEF Save, IInv, ConserveInv, Floor, WithWorker, InResults, Pending
<1>23. CASE WriterReturns
  BY <1>23
  DEF WriterReturns, IInv, ConserveInv, Floor, WithWorker, InResults, Pending,
      Running
<1>24. CASE CloseResults
  BY <1>24
  DEF CloseResults, IInv, ConserveInv, Floor, WithWorker, InResults, Pending
<1>25. CASE Return
  <2>1. /\ UNCHANGED <<canceled, listed, sent, taken, wpc, held, results, drained, writer, ready, holes, verdict, nextIdx, offset, file>>
        /\ writer = "done" /\ drained /\ run = "running"
    BY <1>25 DEF Return, Running
  <2>2. run' = "ok" => verdict = "none" /\ (~canceled \/ LiveLimited)
    BY <1>25 DEF Return, Succeeds
  <2>3. ASSUME verdict = "none", ~canceled
        PROVE  Len(file) = listed
    <3>1. results = <<>> /\ ready = {} /\ holes = {}
      BY <2>1, <2>3 DEF IInv, ConserveInv
    <3>2. feeder = "done" /\ sent = listed /\ \A w \in Workers : wpc[w] = "exit"
      BY <2>1, <2>3 DEF IInv, ShutdownInv
    <3>3. taken = sent
      BY <3>2, <2>3 DEF IInv, ShutdownInv
    <3>4. \A i \in nextIdx .. taken - 1 : FALSE
      BY <2>1, <2>3, <3>1, <3>2
      DEF IInv, ConserveInv, Floor, WithWorker, InResults, Pending, Busy
    <3>5. nextIdx \in Nat /\ taken \in Nat /\ nextIdx <= taken
      BY <2>1, <3>2, <3>3
      DEF IInv, TypeOK, FeederTypeOK, WriterTypeOK, RangeInv, ShutdownInv
    <3>6. nextIdx = taken
      <4>1. nextIdx < taken => nextIdx \in nextIdx .. taken - 1
        BY <3>5
      <4> QED
        BY <3>4, <3>5, <4>1
    <3> QED
      BY <2>1, <2>3, <3>2, <3>3, <3>6 DEF IInv, OutputInv, Running
  <2> QED
    BY <2>1, <2>2, <2>3
    DEF IInv, ConserveInv, Floor, WithWorker, InResults, Pending
<1>26. CASE Cancel
  BY <1>26 DEF Cancel, IInv, ConserveInv, Running
<1>27. CASE Kill
  BY <1>27 DEF Kill, IInv, ConserveInv, Floor, WithWorker, InResults, Pending
<1>28. CASE CutOutput
  BY <1>28
  DEF CutOutput, IInv, ConserveInv, Floor, WithWorker, InResults, Pending
<1>29. CASE Rerun
  <2>1. /\ run' = "running" /\ ~Live /\ UNCHANGED <<ckpt, parts>>
        /\ nextIdx' = offset' /\ nextIdx' \in 0 .. Len(file) /\ file' = SubSeq(file, 1, nextIdx')
        /\ listed' = Total /\ streaming' = FALSE /\ feeder' = "emit" /\ sent' = 0 /\ taken' = 0
        /\ \A w \in Workers : wpc'[w] = "recv"
        /\ results' = <<>> /\ drained' = FALSE
        /\ writer' = "range" /\ ready' = {} /\ holes' = {} /\ verdict' = "none"
    BY <1>29, FreshRun
  <2> QED
    BY <2>1 DEF ConserveInv, Floor
<1>30. CASE UNCHANGED vars
  BY <1>30 DEF vars, IInv, ConserveInv, Floor, WithWorker, InResults, Pending
<1> QED
  BY <1>1, <1>2, <1>3, <1>4, <1>5, <1>6, <1>7, <1>8, <1>9, <1>10, <1>11, <1>12,
     <1>13, <1>14, <1>15, <1>16, <1>17, <1>18, <1>19, <1>20, <1>21, <1>22,
     <1>23, <1>24, <1>25, <1>26, <1>27, <1>28, <1>29, <1>30
  DEF Next, FeederStep, WorkerStep, WriterStep, MainStep

(* The first run starts in the invariant.                                  *)
LEMMA InitIInv ==
  Init => IInv
<1> SUFFICES ASSUME Init PROVE IInv
  OBVIOUS
<1> USE PipelineAssumption
<1>1. TypeOK
  <2>1. canceled \in BOOLEAN /\ drained \in BOOLEAN /\ torn \in BOOLEAN
    BY DEF Init
  <2>2. run = "running" /\ runs = 1 /\ 0 \in Items
    BY DEF Init, Items
  <2>3. RunTypeOK
    BY <2>1, <2>2 DEF RunTypeOK
  <2>4. FeederTypeOK
    BY DEF Init, FeederTypeOK
  <2>5. wpc = [w \in Workers |-> "recv"] /\ held = [w \in Workers |-> 0] /\ results = <<>>
    BY DEF Init
  <2>6. WorkersTypeOK
    BY <2>1, <2>2, <2>5 DEF WorkersTypeOK
  <2>7. WriterTypeOK
    BY DEF Init, WriterTypeOK
  <2>8. /\ file = <<>> /\ ckpt = [next |-> 0, off |-> 0]
        /\ parts = [i \in Items |-> "none"]
    BY DEF Init, NoCheckpoint
  <2>9. DiskTypeOK
    BY <2>1, <2>8 DEF DiskTypeOK
  <2> QED
    BY <2>3, <2>4, <2>6, <2>7, <2>9 DEF TypeOK
<1>2. OutputInv
  BY DEF Init, OutputInv, OutputInOrder, CheckpointCutsOutput, Running, NoCheckpoint
<1>3. \A w \in Workers : wpc[w] \notin Busy
  BY DEF Init, Busy
<1>4. RangeInv /\ UniqueInv /\ PartsInv
  BY <1>3 DEF Init, RangeInv, UniqueInv, PartsInv, Floor, WithWorker, InResults
<1>5. ShutdownInv
  BY DEF Init, ShutdownInv
<1>6. ConserveInv
  BY DEF Init, ConserveInv, Floor
<1> QED
  BY <1>1, <1>2, <1>4, <1>5, <1>6 DEF IInv

(* IInv holds in every reachable state.                                    *)
THEOREM Invariance ==
  Spec => []IInv
<1>1. IInv /\ [Next]_vars => IInv'
  BY TypeStep, OutputStep, RangeStep, UniqueStep, PartsStep, ShutdownStep,
     ConserveStep DEF IInv
<1> QED
  BY InitIInv, <1>1, PTL DEF Spec

(* Every variable keeps its type; in particular the channels stay within   *)
(* their capacity and offset never runs past what the playlist lists.      *)
THEOREM TypeCorrect ==
  Spec => []TypeOK
<1>1. IInv => TypeOK
  BY DEF IInv
<1> QED
  BY Invariance, <1>1, PTL

(* The workers' race never reorders or repeats items in the output, and a  *)
(* VOD's output has no gap.                                                *)
THEOREM OutputOrdered ==
  Spec => []OutputInOrder
<1>1. IInv => OutputInOrder
  BY DEF IInv, OutputInv
<1> QED
  BY Invariance, <1>1, PTL

(* The checkpoint on disk cuts the output on disk between two items, at    *)
(* every instant the process may be killed and across reruns.              *)
THEOREM CheckpointConsistent ==
  Spec => []CheckpointCutsOutput
<1>1. IInv => CheckpointCutsOutput
  BY DEF IInv, OutputInv
<1> QED
  BY Invariance, <1>1, PTL

(* An item waiting for its turn has a whole part that no worker writes to. *)
THEOREM PendingWhole ==
  Spec => []PendingPartsWhole
<1>1. IInv => PendingPartsWhole
  BY DEF IInv, PartsInv, UniqueInv, WithWorker, PendingPartsWhole
<1> QED
  BY Invariance, <1>1, PTL

(* Items are missing at the end of stream only after a cancel.             *)
THEOREM NothingLost ==
  Spec => []MissingOnlyIfCanceled
<1>1. IInv => MissingOnlyIfCanceled
  BY DEF IInv, ConserveInv, MissingOnlyIfCanceled
<1> QED
  BY Invariance, <1>1, PTL

(* A run that reports success wrote every item the playlist listed.        *)
THEOREM SuccessIsComplete ==
  Spec => []CompleteOnSuccess
<1>1. IInv => CompleteOnSuccess
  BY DEF IInv, ConserveInv, CompleteOnSuccess
<1> QED
  BY Invariance, <1>1, PTL

(* How far the output may be ahead of the checkpoint: by the one item      *)
(* whose save is still to come.                                            *)
AheadInv ==
  /\ Running /\ writer # "save" => offset <= ckpt.off
  /\ Running /\ writer = "save" => offset <= ckpt.off + 1
  /\ run # "ok" => Len(file) <= ckpt.off + 1

(* While no save fails, every step keeps the output at most one item ahead *)
(* of the checkpoint.                                                      *)
LEMMA AheadStep ==
  ASSUME ~SaveMayFail, ~MultiTrack
  PROVE  IInv /\ AheadInv /\ [Next]_vars => AheadInv'
<1> SUFFICES ASSUME IInv, AheadInv, [Next]_vars PROVE AheadInv'
  OBVIOUS
<1> USE DEF feeding, items, working, outcomes, pending, memory, output, disk, control
<1>1. /\ offset \in Nat /\ nextIdx \in Nat /\ Len(file) \in Nat
      /\ ckpt.off \in Nat /\ ckpt.next \in Nat /\ file \in Seq(Items)
  BY DEF IInv, TypeOK, WriterTypeOK, DiskTypeOK
<1>2. Running => Len(file) = offset
  BY DEF IInv, OutputInv
<1>3. ASSUME UNCHANGED <<run, writer, offset, file, ckpt>> PROVE AheadInv'
  BY <1>3 DEF AheadInv, Running
<1>4. CASE FeederStep \/ Refresh \/ StopRecording \/ CloseResults \/ Cancel
  BY <1>3, <1>4 DEF FeederStep, SkipWritten, Emit, FeederCanceled, BatchSent, Refresh,
     StopRecording, CloseResults, Cancel
<1>5. ASSUME NEW w \in Workers, WorkerStep(w) \/ PartRestart(w) PROVE AheadInv'
  BY <1>3, <1>5 DEF WorkerStep, Take, Exit, Acquire, FetchOk, FetchFail, Send, PartRestart
<1>6. CASE TakeError \/ TakeOk \/ EndOfResults \/ DrainStops \/ DrainHole
           \/ ReadDecrypt \/ AppendFails
  <2>1. /\ UNCHANGED <<run, offset, file, ckpt>> /\ Running /\ writer # "save"
    BY <1>6 DEF TakeError, TakeOk, EndOfResults, DrainStops, DrainHole, ReadDecrypt,
       AppendFails
  <2> QED
    BY <1>1, <2>1 DEF AheadInv, Running
<1>7. CASE AppendOutput
  <2>1. /\ Running /\ writer = "write" /\ writer' = "save" /\ UNCHANGED <<run, ckpt>>
        /\ file' = Append(file, nextIdx) /\ offset' = offset + 1
    BY <1>7 DEF AppendOutput
  <2>2. Len(file') = Len(file) + 1
    BY <1>1, <2>1
  <2> QED
    BY <1>1, <1>2, <2>1, <2>2 DEF AheadInv, Running
<1>8. CASE Save \/ WriterReturns
  <2>1. /\ Running /\ UNCHANGED <<run, offset, file>> /\ ckpt'.off = offset
    BY <1>8 DEF Save, WriterReturns, WriteCheckpoint, Committed
  <2> QED
    BY <1>1, <1>2, <2>1 DEF AheadInv, Running
<1>9. CASE Return
  <2>1. /\ Running /\ run' # "running" /\ UNCHANGED file
        /\ run' # "ok" => ckpt' = ckpt
    BY <1>9 DEF Return, Running
  <2> QED
    BY <2>1 DEF AheadInv, Running
<1>10. CASE Kill
  BY <1>10 DEF Kill, AheadInv, Running
<1>11. CASE CutOutput
  <2>1. PICK n \in 0 .. Len(file) - 1 : file' = SubSeq(file, 1, n)
    BY <1>11 DEF CutOutput
  <2>2. Len(file') = n
    BY <1>1, <2>1, PrefixFacts
  <2> QED
    BY <1>1, <1>11, <2>1, <2>2 DEF CutOutput, AheadInv, Running
<1>12. CASE Rerun
  <2>1. /\ run' = "running" /\ writer' = "range" /\ nextIdx' = offset' /\ ckpt' = ckpt
        /\ nextIdx' \in 0 .. Len(file) /\ file' = SubSeq(file, 1, nextIdx')
    BY <1>12, FreshRun
  <2>2. Len(file') = offset'
    BY <1>1, <2>1, PrefixFacts
  <2>3. offset' <= ckpt.off
    BY <1>1, <1>12 DEF Rerun, Resumed, NoCheckpoint
  <2> QED
    BY <1>1, <2>1, <2>2, <2>3 DEF AheadInv, Running
<1>13. CASE UNCHANGED vars
  BY <1>3, <1>13 DEF vars
<1> QED
  BY <1>4, <1>5, <1>6, <1>7, <1>8, <1>9, <1>10, <1>11, <1>12, <1>13
  DEF Next, WriterStep, MainStep

(* The README's promise for one track, when saves succeed: a rerun keeps   *)
(* all but one item of the output it finds.                                *)
THEOREM RerunKeepsOutput ==
  ASSUME ~SaveMayFail, ~MultiTrack
  PROVE  Spec => RerunLosesAtMostOne
<1>1. Init => AheadInv
  BY DEF Init, AheadInv, NoCheckpoint
<1>2. IInv /\ AheadInv /\ [Next]_vars =>
        [runs' # runs /\ Len(file) >= ckpt.off => Len(file') >= Len(file) - 1]_vars
  <2> SUFFICES ASSUME IInv, AheadInv, Next, runs' # runs, Len(file) >= ckpt.off
               PROVE  Len(file') >= Len(file) - 1
    OBVIOUS
  <2>1. Rerun
    BY DEF Next, FeederStep, SkipWritten, Emit, FeederCanceled, BatchSent, Refresh,
       StopRecording, WorkerStep, Take, Exit, Acquire, FetchOk, FetchFail, Send,
       PartRestart, WriterStep, TakeError, TakeOk, EndOfResults, DrainStops, DrainHole,
       ReadDecrypt, AppendOutput, AppendFails, Save, WriterReturns, MainStep,
       CloseResults, Return, Cancel, Kill, CutOutput, control
  <2>2. run \in {"error", "killed"}
    BY <2>1 DEF Rerun, MayRerun
  <2>3. file \in Seq(Items) /\ Len(file) \in Nat /\ ckpt.off \in Nat
    BY DEF IInv, TypeOK, DiskTypeOK
  <2>4. file' = SubSeq(file, 1, ckpt.off)
    BY <2>1, <2>3 DEF Rerun, Resumed
  <2>5. Len(file') = ckpt.off
    BY <2>3, <2>4, PrefixFacts
  <2> QED
    BY <2>2, <2>3, <2>5 DEF AheadInv
<1> QED
  BY <1>1, <1>2, AheadStep, Invariance, PTL DEF Spec, RerunLosesAtMostOne

(* What the refinement needs to know of the checkpoint: one that lies is   *)
(* replaced by the first save of the run that found it, and the writer's   *)
(* last save leaves one that is exact.                                     *)
ExactInv ==
  /\ Running /\ offset < ckpt.off => offset = 0 \/ (writer = "save" /\ offset = 1)
  /\ Running /\ writer = "done" => ckpt.off = offset

(* While no save fails, every step of a VOD download keeps ExactInv.       *)
LEMMA ExactStep ==
  ASSUME ~Live, ~SaveMayFail
  PROVE  IInv /\ ExactInv /\ [Next]_vars => ExactInv'
<1> SUFFICES ASSUME IInv, ExactInv, [Next]_vars PROVE ExactInv'
  OBVIOUS
<1> USE DEF feeding, items, working, outcomes, pending, memory, output, disk, control
<1>1. offset \in Nat /\ ckpt.off \in Nat
  BY DEF IInv, TypeOK, WriterTypeOK, DiskTypeOK
<1>2. ASSUME UNCHANGED <<run, writer, offset, ckpt>> PROVE ExactInv'
  BY <1>2 DEF ExactInv, Running
<1>3. ASSUME run' # "running" PROVE ExactInv'
  BY <1>3 DEF ExactInv, Running
<1>4. CASE FeederStep \/ Refresh \/ StopRecording \/ CloseResults \/ Cancel
  BY <1>2, <1>4 DEF FeederStep, SkipWritten, Emit, FeederCanceled, BatchSent, Refresh,
     StopRecording, CloseResults, Cancel
<1>5. ASSUME NEW w \in Workers, WorkerStep(w) \/ PartRestart(w) PROVE ExactInv'
  BY <1>2, <1>5 DEF WorkerStep, Take, Exit, Acquire, FetchOk, FetchFail, Send, PartRestart
<1>6. CASE TakeError \/ TakeOk \/ EndOfResults \/ DrainStops \/ ReadDecrypt \/ AppendFails
  <2>1. /\ UNCHANGED <<run, offset, ckpt>> /\ Running
        /\ writer # "save" /\ writer' # "done"
    BY <1>6 DEF TakeError, TakeOk, EndOfResults, DrainStops, ReadDecrypt, AppendFails
  <2> QED
    BY <2>1 DEF ExactInv, Running
<1>7. CASE DrainHole
  BY <1>7 DEF DrainHole, IInv, ConserveInv
<1>8. CASE AppendOutput
  <2>1. /\ Running /\ writer = "write" /\ writer' = "save" /\ UNCHANGED <<run, ckpt>>
        /\ offset' = offset + 1
    BY <1>8 DEF AppendOutput
  <2> QED
    BY <1>1, <2>1 DEF ExactInv, Running
<1>9. CASE Save \/ WriterReturns
  <2>1. UNCHANGED offset /\ ckpt'.off = offset
    BY <1>9 DEF Save, WriterReturns, WriteCheckpoint, Committed
  <2> QED
    BY <1>1, <2>1 DEF ExactInv
<1>10. CASE Return \/ Kill \/ CutOutput
  <2>1. run' # "running"
    BY <1>10 DEF Return, Kill, CutOutput
  <2> QED
    BY <1>3, <2>1
<1>11. CASE Rerun
  <2>1. writer' = "range" /\ ckpt' = ckpt /\ offset' \in {0, ckpt.off}
    BY <1>11 DEF Rerun, FreshGoroutines, Resumed, NoCheckpoint
  <2> QED
    BY <1>1, <2>1 DEF ExactInv
<1>12. CASE UNCHANGED vars
  BY <1>2, <1>12 DEF vars
<1> QED
  BY <1>4, <1>5, <1>6, <1>7, <1>8, <1>9, <1>10, <1>11, <1>12
  DEF Next, WriterStep, MainStep

(* A step maps to a stutter of the copy when it changes neither the disk   *)
(* nor whether the run succeeded, to a step of it otherwise.               *)
LEMMA CopyStep ==
  ASSUME ~Live, ~LiveLimited, ~SaveMayFail, ~MultiTrack
  PROVE  IInv /\ IInv' /\ AheadInv /\ ExactInv /\ [Next]_vars => [Copy!Next]_(Copy!vars)
<1> SUFFICES ASSUME IInv, IInv', AheadInv, ExactInv, [Next]_vars
             PROVE  [Copy!Next]_(Copy!vars)
  OBVIOUS
<1> USE DEF feeding, items, working, outcomes, pending, memory, output, disk, control
<1>1. /\ offset \in 0 .. Total /\ Len(file) \in Nat /\ ckpt.off \in 0 .. Total
      /\ file \in Seq(Items) /\ Total \in Nat \ {0}
  BY PipelineAssumption DEF IInv, TypeOK, WriterTypeOK, DiskTypeOK
<1>2. Running => Len(file) = offset
  BY DEF IInv, OutputInv
<1>3. Durable = IF run = "ok" THEN Len(file) ELSE IF Len(file) < ckpt.off THEN 0 ELSE ckpt.off
  BY DEF Durable, Resumed, NoCheckpoint
<1>4. Durable' = IF run' = "ok" THEN Len(file') ELSE IF Len(file') < ckpt'.off THEN 0 ELSE ckpt'.off
  BY DEF Durable, Resumed, NoCheckpoint
<1> DEFINE status == IF run = "ok" THEN "done" ELSE "open"
<1>5. ASSUME UNCHANGED <<Durable, status>> PROVE [Copy!Next]_(Copy!vars)
  BY <1>5 DEF Copy!vars
<1>6. ASSUME UNCHANGED <<run, file, ckpt>> PROVE [Copy!Next]_(Copy!vars)
  BY <1>3, <1>4, <1>5, <1>6
<1>7. ASSUME run # "ok", run' # "ok", Durable < Total, Durable' = Durable + 1
      PROVE  [Copy!Next]_(Copy!vars)
  BY <1>7 DEF Copy!Next, Copy!CopyNext
<1>8. CASE FeederStep \/ Refresh \/ StopRecording \/ CloseResults \/ Cancel
  BY <1>6, <1>8 DEF FeederStep, SkipWritten, Emit, FeederCanceled, BatchSent, Refresh,
     StopRecording, CloseResults, Cancel
<1>9. ASSUME NEW w \in Workers, WorkerStep(w) \/ PartRestart(w)
      PROVE  [Copy!Next]_(Copy!vars)
  BY <1>6, <1>9 DEF WorkerStep, Take, Exit, Acquire, FetchOk, FetchFail, Send, PartRestart
<1>10. CASE TakeError \/ TakeOk \/ EndOfResults \/ DrainStops \/ DrainHole
            \/ ReadDecrypt \/ AppendFails
  BY <1>6, <1>10 DEF TakeError, TakeOk, EndOfResults, DrainStops, DrainHole, ReadDecrypt,
     AppendFails
<1>11. CASE AppendOutput
  <2>1. /\ run = "running" /\ Running /\ writer = "write" /\ UNCHANGED <<run, ckpt>>
        /\ file' = Append(file, nextIdx)
    BY <1>11 DEF AppendOutput, Running
  <2>2. Len(file') = Len(file) + 1
    BY <1>1, <2>1
  <2>3. CASE Len(file) >= ckpt.off
    <3>1. Durable' = Durable
      BY <1>1, <1>3, <1>4, <2>1, <2>2, <2>3
    <3> QED
      BY <1>5, <2>1, <3>1
  <2>4. CASE Len(file) < ckpt.off
    <3>1. Len(file) = 0 /\ Durable = 0
      BY <1>1, <1>2, <1>3, <2>1, <2>4 DEF ExactInv
    <3>2. Durable' = 0 \/ Durable' = 1
      BY <1>1, <1>4, <2>1, <2>2, <3>1
    <3> QED
      BY <1>1, <1>5, <1>7, <2>1, <3>1, <3>2
  <2> QED
    BY <1>1, <2>3, <2>4
<1>12. CASE Save \/ WriterReturns
  <2>1. /\ run = "running" /\ Running /\ UNCHANGED <<run, file>> /\ ckpt'.off = offset
        /\ writer \in {"save", "final"}
    BY <1>12 DEF Save, WriterReturns, WriteCheckpoint, Committed, Running
  <2>2. Durable' = offset
    BY <1>1, <1>2, <1>4, <2>1
  <2>3. Durable = offset \/ Durable + 1 = offset
    BY <1>1, <1>2, <1>3, <2>1 DEF AheadInv, ExactInv
  <2>4. Durable \in Nat
    BY <1>1, <1>3
  <2> QED
    BY <1>1, <1>5, <1>7, <2>1, <2>2, <2>3, <2>4
<1>13. CASE Return
  <2>1. Running /\ run = "running" /\ writer = "done" /\ UNCHANGED file
    BY <1>13 DEF Return, Running
  <2>2. CASE Succeeds
    <3>1. run' = "ok"
      BY <1>13, <2>2 DEF Return
    <3>2. Len(file) = Total
      BY <2>1, <3>1 DEF IInv, ConserveInv, ShutdownInv
    <3>3. Durable = Total /\ Durable' = Total
      BY <1>1, <1>2, <1>3, <1>4, <2>1, <3>1, <3>2 DEF ExactInv
    <3> QED
      BY <2>1, <3>1, <3>3 DEF Copy!Next, Copy!ReportDone
  <2>3. CASE ~Succeeds
    <3>1. run' = "error" /\ UNCHANGED ckpt
      BY <1>13, <2>3 DEF Return
    <3> QED
      BY <1>3, <1>4, <1>5, <2>1, <3>1
  <2> QED
    BY <2>2, <2>3
<1>14. CASE Kill
  <2>1. run # "ok" /\ run' # "ok" /\ UNCHANGED <<file, ckpt>>
    BY <1>14 DEF Kill, Running
  <2> QED
    BY <1>3, <1>4, <1>5, <2>1
<1>15. CASE CutOutput
  <2>1. PICK n \in 0 .. Len(file) - 1 : file' = SubSeq(file, 1, n)
    BY <1>15 DEF CutOutput
  <2>2. Len(file') < Len(file) /\ Len(file') \in Nat
    BY <1>1, <2>1, PrefixFacts
  <2>3. run # "ok" /\ run' # "ok" /\ UNCHANGED ckpt
    BY <1>15 DEF CutOutput
  <2>4. Durable' = Durable \/ Durable' = 0
    BY <1>1, <1>3, <1>4, <2>2, <2>3
  <2> QED
    BY <1>5, <2>3, <2>4 DEF Copy!Next, Copy!StartOver
<1>16. CASE Rerun
  <2>1. run # "ok" /\ run' # "ok" /\ UNCHANGED ckpt
    BY <1>16 DEF Rerun, MayRerun
  <2>2. Resumed.off = Durable /\ Durable \in 0 .. Len(file)
    BY <1>1, <1>3, <2>1 DEF Resumed, NoCheckpoint
  <2>3. Len(file') = Durable
    BY <1>1, <1>16, <2>2, PrefixFacts DEF Rerun
  <2>4. Durable' = Durable
    BY <1>1, <1>3, <1>4, <2>1, <2>3
  <2> QED
    BY <1>5, <2>1, <2>4
<1>17. CASE UNCHANGED vars
  BY <1>6, <1>17 DEF vars
<1> QED
  BY <1>8, <1>9, <1>10, <1>11, <1>12, <1>13, <1>14, <1>15, <1>16, <1>17
  DEF Next, WriterStep, MainStep

(* A VOD download whose saves succeed is a resumable copy: through any     *)
(* number of kills, errors and reruns what a rerun would keep grows one    *)
(* item at a time, only damage to the output takes it back, and success is *)
(* reported of the complete track only.                                    *)
THEOREM RefinesCopy ==
  ASSUME ~Live, ~LiveLimited, ~SaveMayFail, ~MultiTrack
  PROVE  Spec => ImplementsCopy
<1>1. Init => Copy!Init
  BY DEF Init, Copy!Init, Durable, Resumed, NoCheckpoint
<1>2. Init => AheadInv /\ ExactInv
  BY DEF Init, AheadInv, ExactInv, NoCheckpoint
<1> QED
  BY <1>1, <1>2, AheadStep, ExactStep, CopyStep, Invariance, PTL
  DEF Spec, ImplementsCopy, Copy!Spec
=============================================================================
