------------------------------- MODULE Manifest --------------------------------
(***************************************************************************)
(* The protocol-agnostic model both the parsers and the engine speak       *)
(* (internal/manifest).  A URL is the chain of references it was resolved  *)
(* through, with the number and the time a template filled in; a duration  *)
(* is in whole ticks.                                                      *)
(***************************************************************************)
EXTENDS Integers, Sequences, FiniteSets, FiniteSetsExt, SequencesExt

None == -1   \* a nil pointer to a number

URL(path) == [path |-> path, num |-> 0, time |-> 0]
NoURL == URL(<<>>)

(* An inclusive byte range; last = -1 is open-ended, first = -1 is nil.    *)
Bytes(first, last) == [first |-> first, last |-> last]
NoRange == Bytes(None, None)

(* kid "zero" is an unknown key id; iv None derives from the sequence.     *)
NoKey == [method |-> "none", uri |-> "", iv |-> None, kid |-> "zero"]

NoInit == [url |-> NoURL, range |-> NoRange]

BlankSegment ==
  [url |-> NoURL, dur |-> 0, range |-> NoRange, key |-> NoKey, init |-> NoInit,
   seq |-> 0, disc |-> FALSE, index |-> NoRange]

BlankStream ==
  [type |-> "unknown", id |-> <<>>, url |-> NoURL, bw |-> 0, height |-> 0, codecs |-> "",
   lang |-> "", group |-> "", audio |-> "", subs |-> "", channels |-> 0,
   default |-> FALSE, muxed |-> FALSE, live |-> FALSE, refresh |-> 0, init |-> NoInit,
   segs |-> <<>>, full |-> FALSE]

(* Stream.Duration                                                         *)
Duration(st) == FoldLeft(LAMBDA sum, seg : sum + seg.dur, 0, st.segs)

(* firstNonEmpty and firstNonZero: the first value that is set.            *)
FirstSet(blank, values) ==
  LET set == {i \in DOMAIN values : values[i] # blank}
  IN IF set = {} THEN blank ELSE values[Min(set)]

(* How many of S come up to p, and the members of s at places I, in order. *)
Upto(S, p) == Cardinality({q \in S : q <= p})
Those(s, I) == [k \in 1 .. Cardinality(I) |-> s[CHOOSE i \in I : Upto(I, i) = k]]

(* Where a track is in a manifest, and the places of S as the parser meets *)
(* them.                                                                   *)
Place(p, a, r) == [p |-> p, a |-> a, r |-> r]
Later(x, y) == x.p > y.p \/ (x.p = y.p /\ (x.a > y.a \/ (x.a = y.a /\ x.r > y.r)))
InOrder(S) ==
  [k \in 1 .. Cardinality(S) |-> CHOOSE x \in S : Cardinality({y \in S : ~Later(y, x)}) = k]

(* A list as a decoder makes it.                                           *)
IsList(s) == Len(s) \in Nat /\ DOMAIN s = 1 .. Len(s)

CeilDiv(a, b) == (a + b - 1) \div b
================================================================================
