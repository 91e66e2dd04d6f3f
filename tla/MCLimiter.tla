------------------------------- MODULE MCLimiter -------------------------------
(* Instances of Limiter small enough for TLC.                              *)
EXTENDS Limiter

CONSTANTS w1, w2, w3, w4

FourWorkers == {w1, w2, w3, w4}
(* One value in each band of decide, from each of the others.              *)
FewRates == {100, 107, 120}
================================================================================
