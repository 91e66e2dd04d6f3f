------------------------------ MODULE MCRestream ------------------------------
(* Instances of Restream small enough for TLC.                             *)
EXTENDS Restream

Stream(type, fragmented) == [type |-> type, fragmented |-> fragmented, untimed |-> {}]

(* A muxed TS, with and without a segment that has no duration, and a      *)
(* video with a separate audio.                                            *)
SomeSelections ==
  {<<Stream("video", FALSE)>>, <<[Stream("video", FALSE) EXCEPT !.untimed = {2}]>>,
   <<Stream("video", TRUE), Stream("audio", TRUE), Stream("subtitles", FALSE)>>}
================================================================================
