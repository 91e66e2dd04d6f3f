----------------------------- MODULE MCLiveFeeder -----------------------------
(* Instances of LiveFeeder small enough for TLC.                           *)
EXTENDS LiveFeeder

(* The init changes in the middle and comes back at the end, and a segment *)
(* in between has none.                                                    *)
TwoInits == [n \in 1 .. Newest |-> CASE n = 2 -> "" [] n \in 3 .. 4 -> "b" [] OTHER -> "a"]
================================================================================
