--------------------------- MODULE MCTSBroadcast ---------------------------
(* Small instances of TSBroadcast for TLC.                                 *)
EXTENDS TSBroadcast, TLC

CONSTANTS v1, v2   (* The viewers, as model values.                        *)

TwoViewers == {v1, v2}
OneViewer == {v1}

(* With a budget of four and two slots, a viewer runs out of bytes before  *)
(* slots, out of slots before bytes, and meets a unit over the budget.     *)
Growing == SubSeq(<<1, 1, 2, 3, 5>>, 1, Units)

(* With a budget of two and two slots, the second unit does not fit while  *)
(* the first one waits, and the third one would.                           *)
Uneven == <<1, 2, 1>>

AnyViewer == Permutations(Viewers)
=============================================================================
