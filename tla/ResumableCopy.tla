--------------------------- MODULE ResumableCopy ---------------------------
(***************************************************************************)
(* What one VOD track download promises its user, whatever goes on inside  *)
(* DownloadStream: a number of leading items of the track is durable (a    *)
(* rerun would keep them); it grows by one item at a time, through any     *)
(* number of kills, errors and reruns; and the download is reported done   *)
(* only when every item is there.  Nothing but damage to the output file   *)
(* itself takes durable items away, and then the copy starts over.         *)
(***************************************************************************)
EXTENDS Naturals

CONSTANT
  Total       (* The number of items of the track: its init and segments.  *)

VARIABLES
  durable,    (* How many leading items the next run would keep.           *)
  status      (* "open", or "done" once success has been reported.         *)

vars == <<durable, status>>

Init == durable = 0 /\ status = "open"

(* One more item becomes durable.                                          *)
CopyNext ==
  /\ status = "open"
  /\ durable < Total
  /\ durable' = durable + 1
  /\ UNCHANGED status

(* The output file was cut or deleted outside the program: start over.     *)
StartOver ==
  /\ status = "open"
  /\ durable' = 0
  /\ UNCHANGED status

(* Success is reported of a complete copy only.                            *)
ReportDone ==
  /\ status = "open"
  /\ durable = Total
  /\ status' = "done"
  /\ UNCHANGED durable

Next == CopyNext \/ StartOver \/ ReportDone

Spec == Init /\ [][Next]_vars
=============================================================================
