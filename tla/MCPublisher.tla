------------------------------ MODULE MCPublisher ------------------------------
(* Instances of Publisher small enough for TLC.                            *)
EXTENDS Publisher, TLC

CONSTANTS video, audio, r1, r2

BothTracks == {video, audio}
TwoRequests == {r1, r2}
AnyRequest == Permutations(TwoRequests)
(* The video outgrows its window; the length of the audio is not known.    *)
Lengths == (video :> <<1, 1, 1>>) @@ (audio :> <<0>>)
================================================================================
