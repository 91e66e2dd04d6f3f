--------------------------- MODULE MCSegmentFetch ---------------------------
(* Small instances of SegmentFetch for TLC: an object of four bytes.        *)
EXTENDS SegmentFetch

WholeObject == [ranged |-> FALSE, first |-> 0, last |-> -1]
Slice(a, b) == [ranged |-> TRUE, first |-> a, last |-> b]
OpenFrom(a) == Slice(a, -1)

(* The kinds of segment that branches of the code tell apart.               *)
AllKinds == {WholeObject, Slice(0, 2), Slice(1, 3), OpenFrom(0), OpenFrom(1)}
JustWhole == {WholeObject}
=============================================================================
