------------------------------ MODULE MCProgram ------------------------------
(* An instance of Program small enough for TLC.                            *)
EXTENDS Program

Entry(title, kind) == [title |-> title, kind |-> kind]

(* A title listed twice, a live channel, a title that turns out live, and  *)
(* a direct file.                                                          *)
FiveEntries ==
  <<Entry("a", "manifest"), Entry("c", "channel"), Entry("l", "live"),
    Entry("a", "manifest"), Entry("f", "file")>>
================================================================================
