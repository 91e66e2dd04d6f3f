---------------------------- MODULE SegmentFetch ----------------------------
(***************************************************************************)
(* downloadSegment of internal/engine/stream.go: one worker downloads one  *)
(* segment into its part file, over any number of requests, resuming from  *)
(* the bytes that are there, and over runs of the program that are killed. *)
(*                                                                         *)
(* A byte is its offset in the object at the URL, so that a part file is a *)
(* sequence of offsets.  The server answers every request as it likes      *)
(* within HTTP: an error, the whole object, or the range asked for, which  *)
(* it may cut short.                                                       *)
(***************************************************************************)
EXTENDS Integers, Sequences

CONSTANTS
  Segments,     (* The segments to choose from; last is -1 if the range is *)
                (* open, or if there is no range.                          *)
  Size,         (* Bytes of the object.                                    *)
  Retries,      (* cfg.Client.Retries()                                    *)
  Refreshable,  (* cfg.fileURL is set.                                     *)
  CapsOpen,     (* The server also cuts open ranges short.                 *)
  Chunked,      (* A 200 may come without a Content-Length.                *)
  TornRetries,  (* A write that was cut short may be followed by a retry.  *)
  MaxRuns       (* Bound: runs of the program.                             *)

ASSUME FetchAssumption ==
  /\ Size \in Nat \ {0}
  /\ Segments \subseteq [ranged : BOOLEAN, first : 0 .. Size - 1, last : Int]
  /\ \A s \in Segments :
       /\ s.last >= s.first \/ s.last = -1
       /\ ~s.ranged => s.first = 0 /\ s.last = -1
  /\ Retries \in Nat /\ MaxRuns \in Nat \ {0}
  /\ {Refreshable, CapsOpen, Chunked, TornRetries} \subseteq BOOLEAN

VARIABLES
  seg,          (* The segment: it.rng                                     *)
  file,         (* The part file.                                          *)
  have,         (* The bytes of it the program counts on.                  *)
  pc,           (* "start", "request", "body", "wait", or how it ended:    *)
                (* "ok", "failed", "ignored" (ErrRangeIgnored).            *)
  next, end,    (* The body still to come: offsets next .. end - 1.        *)
  attempt,
  refreshed,
  canceled,     (* The parent context is done.                             *)
  runs

vars == <<seg, file, have, pc, next, end, attempt, refreshed, canceled, runs>>
body == <<next, end>>

Ended == {"ok", "failed", "ignored"}

segLen == IF seg.last >= 0 THEN seg.last - seg.first + 1 ELSE -1

(* The bytes a .. b - 1 of the object, and those of the segment.           *)
Bytes(a, b) == [i \in 1 .. b - a |-> a + i - 1]
Segment == Bytes(seg.first, IF seg.last >= 0 THEN seg.last + 1 ELSE Size)

TypeOK ==
  /\ seg \in Segments
  /\ file \in Seq(0 .. Size - 1)
  /\ have \in 0 .. Len(Segment)
  /\ pc \in Ended \cup {"start", "request", "body", "wait"}
  /\ next \in 0 .. Size /\ end \in 0 .. Size
  /\ attempt \in Nat
  /\ refreshed \in BOOLEAN /\ canceled \in BOOLEAN
  /\ runs \in 1 .. MaxRuns

-----------------------------------------------------------------------------

(* The part file is opened at its end; a slice that is there is not asked  *)
(* for.                                                                    *)
OpenPart ==
  /\ pc = "start"
  /\ have' = Len(file)
  /\ pc' \in IF segLen >= 0 /\ Len(file) >= segLen THEN {"ok"} ELSE {"request", "failed"}
  /\ attempt' = 0 /\ refreshed' = FALSE
  /\ UNCHANGED <<seg, file, body, canceled, runs>>

(* A failed attempt is followed by another one, or it was the last.        *)
Retry == pc' = IF attempt >= Retries \/ canceled THEN "failed" ELSE "wait"

(* No response: the connection failed, or the watchdog or the context cut  *)
(* it.                                                                     *)
NoResponse ==
  /\ pc = "request"
  /\ Retry
  /\ UNCHANGED <<seg, file, have, body, attempt, refreshed, canceled, runs>>

(* resumeRange: the range asked for starts here and there is one.          *)
From == seg.first + have
HasRange == seg.ranged \/ have > 0

(* 416: nothing of the object is in the range.                             *)
NotSatisfiable ==
  /\ pc = "request" /\ HasRange /\ From >= Size
  /\ pc' = "ok"
  /\ UNCHANGED <<seg, file, have, body, attempt, refreshed, canceled, runs>>

(* 200 to a resume: the part starts over, if it can be truncated.          *)
Restart ==
  /\ pc = "request" /\ have > 0
  /\ \/ /\ file' = <<>> /\ have' = 0
        /\ attempt' = attempt + 1
        /\ UNCHANGED pc
     \/ /\ pc' = "failed"
        /\ UNCHANGED <<file, have, attempt>>
  /\ UNCHANGED <<seg, body, refreshed, canceled, runs>>

(* The Content-Length of a 200; -1 if it is not sent.                      *)
Lengths == {Size} \cup (IF Chunked THEN {-1} ELSE {})

\* Mutant: the length of the answer is not looked at.
WholeTrusting ==
  /\ pc = "request" /\ have = 0
  /\ next' = 0
  /\ end' = IF segLen >= 0 /\ segLen < Size THEN segLen ELSE Size
  /\ pc' = "body"
  /\ UNCHANGED <<seg, file, have, attempt, refreshed, canceled, runs>>

(* 200 to a first request: the whole object, of which a slice from zero is *)
(* the start.  A slice from elsewhere is refused and its part removed.     *)
Whole ==
  /\ pc = "request" /\ have = 0
  /\ \E length \in Lengths :
       IF seg.ranged /\ seg.first > 0 /\ length # segLen
         THEN /\ file' = <<>>
              /\ pc' = "ignored"
              /\ UNCHANGED body
         ELSE /\ next' = 0
              /\ end' = IF segLen >= 0 /\ segLen < Size THEN segLen ELSE Size
              /\ pc' = "body"
              /\ UNCHANGED file
  /\ UNCHANGED <<seg, have, attempt, refreshed, canceled, runs>>

(* 206: the range asked for, or as much of it as the server sends.         *)
Partial ==
  /\ pc = "request" /\ HasRange /\ From < Size
  /\ next' = From
  /\ LET all == IF seg.last >= 0 /\ seg.last < Size THEN seg.last + 1 ELSE Size
     IN end' \in IF seg.last >= 0 \/ CapsOpen THEN From + 1 .. all ELSE {all}
  /\ pc' = "body"
  /\ UNCHANGED <<seg, file, have, attempt, refreshed, canceled, runs>>

(* A status of 400 or more: one worth a retry, one that is not, or a       *)
(* refused token, for which the URL is resolved again once.                *)
ErrorStatus ==
  /\ pc = "request"
  /\ \/ Retry /\ UNCHANGED <<attempt, refreshed>>
     \/ pc' = "failed" /\ UNCHANGED <<attempt, refreshed>>
     \/ /\ Refreshable /\ ~refreshed /\ ~canceled
        /\ refreshed' = TRUE
        /\ \/ attempt' = attempt + 1 /\ UNCHANGED pc
           \/ pc' = "failed" /\ UNCHANGED attempt
  /\ UNCHANGED <<seg, file, have, body, canceled, runs>>

(* streamBody: a read of the body is written to the end of the file.       *)
Receive ==
  /\ pc = "body"
  /\ \E upto \in next + 1 .. end :
       /\ file' = file \o Bytes(next, upto)
       /\ have' = have + (upto - next)
       /\ next' = upto
  /\ UNCHANGED <<seg, pc, end, attempt, refreshed, canceled, runs>>

(* The write fails, after some bytes of the last attempt and maybe of one  *)
(* that is retried: they are in the file and are not counted.              *)
WriteFails ==
  /\ pc = "body" /\ next < end
  /\ \E upto \in next .. end - 1 :
       /\ upto = next \/ TornRetries \/ attempt >= Retries \/ canceled
       /\ file' = file \o Bytes(next, upto)
  /\ Retry
  /\ UNCHANGED <<seg, have, body, attempt, refreshed, canceled, runs>>

(* The body breaks off: the network, the watchdog or the context.          *)
BodyFails ==
  /\ pc = "body"
  /\ Retry
  /\ UNCHANGED <<seg, file, have, body, attempt, refreshed, canceled, runs>>

\* Mutant: a slice that came short is taken as it is.
BodyEndsShort ==
  /\ pc = "body" /\ next = end
  /\ pc' = "ok"
  /\ UNCHANGED <<seg, file, have, body, attempt, refreshed, canceled, runs>>

(* The body is over.  A slice that came short is not.                      *)
BodyEnds ==
  /\ pc = "body" /\ next = end
  /\ IF segLen >= 0 /\ have < segLen THEN Retry ELSE pc' = "ok"
  /\ UNCHANGED <<seg, file, have, body, attempt, refreshed, canceled, runs>>

\* Mutant: attempts are not counted.
WaitUncounted ==
  /\ pc = "wait"
  /\ pc' \in {"request"} \cup (IF canceled THEN {"failed"} ELSE {})
  /\ UNCHANGED <<seg, file, have, body, attempt, refreshed, canceled, runs>>

(* retryWait: the time passes, or the context is done.                     *)
Wait ==
  /\ pc = "wait"
  /\ \/ pc' = "request" /\ attempt' = attempt + 1
     \/ canceled /\ pc' = "failed" /\ UNCHANGED attempt
  /\ UNCHANGED <<seg, file, have, body, refreshed, canceled, runs>>

Cancel ==
  /\ ~canceled /\ pc \notin Ended
  /\ canceled' = TRUE
  /\ UNCHANGED <<seg, file, have, pc, body, attempt, refreshed, runs>>

(* The program is killed, or failed, and is run again: only the part file  *)
(* is left.                                                                *)
Rerun ==
  /\ pc # "ok" /\ runs < MaxRuns
  /\ runs' = runs + 1
  /\ pc' = "start"
  /\ have' = 0 /\ next' = 0 /\ end' = 0 /\ attempt' = 0
  /\ refreshed' = FALSE /\ canceled' = FALSE
  /\ UNCHANGED <<seg, file>>

-----------------------------------------------------------------------------

Init ==
  /\ seg \in Segments
  /\ file = <<>> /\ have = 0 /\ pc = "start" /\ next = 0 /\ end = 0
  /\ attempt = 0 /\ refreshed = FALSE /\ canceled = FALSE /\ runs = 1

Answer ==
  NoResponse \/ NotSatisfiable \/ Restart \/ Whole \/ Partial \/ ErrorStatus

Body == Receive \/ WriteFails \/ BodyFails \/ BodyEnds

Next == OpenPart \/ Answer \/ Body \/ Wait \/ Cancel \/ Rerun

Spec == Init /\ [][Next]_vars

(* A request is answered and a body comes or breaks off, for the watchdog  *)
(* cuts a connection that is silent; a timer fires.                        *)
FairSpec ==
  /\ Spec
  /\ WF_vars(OpenPart) /\ WF_vars(Answer) /\ WF_vars(Body) /\ WF_vars(Wait)

-----------------------------------------------------------------------------
(***************************************************************************)
(* Properties.                                                             *)
(***************************************************************************)

(* "Resuming from the bytes already on disk": at every instant, so also    *)
(* when the program is killed, the part file holds the start of the        *)
(* segment, in order and without a hole.                                   *)
PartIsPrefix ==
  /\ Len(file) <= Len(Segment)
  /\ \A i \in 1 .. Len(file) : file[i] = Segment[i]

(* A fetch that reports no error left exactly the segment's bytes in the   *)
(* part file: the writer appends whatever is there.                        *)
OkIsWhole == pc = "ok" => file = Segment

(* The attempts are bounded although a restart and a new URL are not       *)
(* checked against Retries: each can come once after the last retry.       *)
AttemptsBounded == attempt <= Retries + 2

(* What the theorems and the passing run assume of the server and of the   *)
(* playlist: an open range is answered to its end, a 200 has its length, a *)
(* slice is inside the object; and of the disk, that only the last attempt *)
(* has a write cut short.                                                  *)
Honest ==
  /\ ~CapsOpen /\ ~Chunked /\ ~TornRetries
  /\ \A s \in Segments : s.last < Size

(***************************************************************************)
(* The inductive invariant: while the program asks and receives it counts  *)
(* on exactly what is in the part file, the body goes on where the file    *)
(* ends, and the attempts that are not checked have their place.           *)
(***************************************************************************)
segEnd == seg.first + Len(Segment)

CountInv == pc \in {"request", "body", "wait"} => have = Len(file)

BodyInv ==
  pc = "body" =>
    /\ next = From /\ next <= end /\ end <= segEnd
    /\ segLen = -1 => end = segEnd

AttemptInv ==
  /\ AttemptsBounded
  /\ pc = "request" =>
       attempt <= Retries + (IF refreshed THEN 1 ELSE 0) + (IF have = 0 THEN 1 ELSE 0)
  /\ pc = "wait" => attempt < Retries

FetchInv ==
  /\ TypeOK /\ PartIsPrefix /\ OkIsWhole
  /\ CountInv /\ BodyInv /\ AttemptInv

(* A fetch ends, whatever the server does.                                 *)
FetchEnds == pc \notin Ended ~> pc \in Ended
=============================================================================
