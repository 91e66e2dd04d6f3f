------------------------- MODULE SegmentFetchProofs -------------------------
(***************************************************************************)
(* The proofs about SegmentFetch: what a part file holds, for an object of *)
(* any size, any segments of it, any number of retries and of runs.        *)
(***************************************************************************)
EXTENDS SegmentFetch, TLAPS

(* What a read of the body is.                                             *)
LEMMA BytesFacts ==
  ASSUME NEW a \in Int, NEW b \in Int, a <= b
  PROVE  /\ Bytes(a, b) \in Seq(Int)
         /\ Len(Bytes(a, b)) = b - a
         /\ \A i \in 1 .. b - a : Bytes(a, b)[i] = a + i - 1
  BY DEF Bytes

(* What the bytes from the end of the file on make of it: the segment is   *)
(* such a run of bytes, and so is every part of it.                        *)
LEMMA GrownPart ==
  ASSUME NEW f \in Seq(0 .. Size - 1), NEW a \in Nat, NEW b \in Nat, a <= b, b <= Size
  PROVE  /\ f \o Bytes(a, b) \in Seq(0 .. Size - 1)
         /\ Len(f \o Bytes(a, b)) = Len(f) + (b - a)
         /\ \A i \in 1 .. Len(f) : (f \o Bytes(a, b))[i] = f[i]
         /\ \A i \in Len(f) + 1 .. Len(f) + (b - a) : (f \o Bytes(a, b))[i] = a + (i - Len(f)) - 1
<1>1. Bytes(a, b) \in Seq(0 .. Size - 1) /\ Len(Bytes(a, b)) = b - a
  BY FetchAssumption DEF Bytes
<1>2. \A i \in 1 .. b - a : Bytes(a, b)[i] = a + i - 1
  BY BytesFacts, SMTT(30)
<1> DEFINE g == Bytes(a, b)
<1> HIDE DEF g
<1>3. /\ f \o g \in Seq(0 .. Size - 1) /\ Len(f \o g) = Len(f) + Len(g)
      /\ \A i \in 1 .. Len(f) : (f \o g)[i] = f[i]
      /\ \A i \in Len(f) + 1 .. Len(f) + Len(g) : (f \o g)[i] = g[i - Len(f)]
  BY <1>1 DEF g
<1> QED
  BY <1>1, <1>2, <1>3 DEF g

(* The segment, as offsets.                                                *)
LEMMA SegmentFacts ==
  ASSUME Honest, seg \in Segments
  PROVE  /\ seg.first \in Nat /\ seg.last \in Int /\ seg.ranged \in BOOLEAN
         /\ segLen \in Int /\ segEnd \in Nat
         /\ Len(Segment) \in Nat /\ Len(Segment) > 0
         /\ segEnd = seg.first + Len(Segment) /\ segEnd <= Size
         /\ segEnd = IF seg.last >= 0 THEN seg.last + 1 ELSE Size
         /\ segLen = -1 \/ segLen = Len(Segment)
         /\ segLen = -1 <=> seg.last = -1
         /\ ~seg.ranged => seg.first = 0 /\ segLen = -1
         /\ Segment = [i \in 1 .. Len(Segment) |-> seg.first + i - 1]
<1> DEFINE e == IF seg.last >= 0 THEN seg.last + 1 ELSE Size
<1>1. /\ seg.first \in Nat /\ seg.last \in Int /\ seg.ranged \in BOOLEAN
      /\ seg.first < Size /\ seg.last < Size
      /\ seg.last >= seg.first \/ seg.last = -1
      /\ ~seg.ranged => seg.first = 0 /\ seg.last = -1
  BY FetchAssumption DEF Honest
<1>2. e \in Nat /\ seg.first < e /\ e <= Size
  BY <1>1, FetchAssumption
<1>3. Segment = [i \in 1 .. e - seg.first |-> seg.first + i - 1]
  BY DEF Segment, Bytes
<1>4. Len(Segment) = e - seg.first
  <2>1. Segment = Bytes(seg.first, e)
    BY DEF Segment
  <2>2. seg.first \in Int /\ e \in Int /\ seg.first <= e
    BY <1>1, <1>2
  <2> HIDE DEF e
  <2>3. Len(Bytes(seg.first, e)) = e - seg.first
    BY <2>2, BytesFacts, Zenon
  <2> QED
    BY <2>1, <2>3
<1>5. /\ segLen \in Int /\ segEnd = e
      /\ segLen = -1 \/ segLen = e - seg.first
      /\ segLen = -1 <=> seg.last = -1
  BY <1>1, <1>2, <1>4 DEF segEnd, segLen
<1> QED
  BY <1>1, <1>2, <1>3, <1>4, <1>5

(* A part that is as long as the segment is the segment.                   *)
LEMMA LongIsWhole ==
  ASSUME Honest, TypeOK, PartIsPrefix, Len(file) = Len(Segment)
  PROVE  file = Segment
<1>1. seg \in Segments /\ file \in Seq(0 .. Size - 1)
  BY DEF TypeOK
<1>2. Segment = [i \in 1 .. Len(Segment) |-> seg.first + i - 1]
  BY <1>1, SegmentFacts
<1>3. file = [i \in 1 .. Len(file) |-> file[i]]
  BY <1>1
<1>4. \A i \in 1 .. Len(Segment) : file[i] = Segment[i]
  BY DEF PartIsPrefix
<1> QED
  BY <1>2, <1>3, <1>4

(* Receiving more of the body, or some of it before a write fails, leaves  *)
(* the start of the segment in the part file.                              *)
LEMMA PartGrows ==
  ASSUME Honest, FetchInv, pc = "body", NEW upto \in next .. end,
         file' = file \o Bytes(next, upto), seg' = seg
  PROVE  /\ file' \in Seq(0 .. Size - 1)
         /\ Len(file') = Len(file) + (upto - next)
         /\ Segment' = Segment
         /\ PartIsPrefix'
<1>1. /\ seg \in Segments /\ file \in Seq(0 .. Size - 1) /\ next \in Nat /\ end \in Nat
      /\ end <= Size /\ Len(file) \in Nat
  BY FetchAssumption DEF FetchInv, TypeOK
<1> upto \in Nat /\ next <= upto /\ upto <= end
  BY <1>1
<1>2. next = seg.first + Len(file) /\ end <= segEnd
  BY DEF FetchInv, BodyInv, CountInv, From
<1>3. /\ seg.first \in Nat /\ segEnd = seg.first + Len(Segment) /\ Len(Segment) \in Nat
      /\ Segment = [i \in 1 .. Len(Segment) |-> seg.first + i - 1]
  BY <1>1, SegmentFacts
<1>4. /\ file' \in Seq(0 .. Size - 1)
      /\ Len(file') = Len(file) + (upto - next)
      /\ \A i \in 1 .. Len(file) : file'[i] = file[i]
      /\ \A i \in Len(file) + 1 .. Len(file') : file'[i] = next + (i - Len(file)) - 1
  <2> DEFINE g == file \o Bytes(next, upto)
  <2>1. /\ g \in Seq(0 .. Size - 1)
        /\ Len(g) = Len(file) + (upto - next)
        /\ \A i \in 1 .. Len(file) : g[i] = file[i]
        /\ \A i \in Len(file) + 1 .. Len(file) + (upto - next) : g[i] = next + (i - Len(file)) - 1
    <3>1. upto <= Size /\ next \in Nat /\ upto \in Nat /\ next <= upto
      BY <1>1, FetchAssumption
    <3> QED
      BY <1>1, <3>1, GrownPart, Zenon
  <2>2. file' = g
    OBVIOUS
  <2> HIDE DEF g
  <2> QED
    BY <2>1, <2>2
<1>5. Segment' = Segment
  BY DEF Segment
<1>6. Len(file') <= Len(Segment)
  <2>1. Len(file') = Len(file) + (upto - next)
    BY <1>4
  <2>2. next = seg.first + Len(file) /\ upto <= end /\ end <= seg.first + Len(Segment)
    BY <1>2, <1>3
  <2>3. /\ seg.first \in Nat /\ Len(file) \in Nat /\ Len(Segment) \in Nat
        /\ upto \in Nat /\ next \in Nat /\ end \in Nat
    BY <1>1, <1>3
  <2> QED
    BY <2>1, <2>2, <2>3, SMTT(30)
<1>7. ASSUME NEW i \in 1 .. Len(file')
      PROVE  file'[i] = Segment[i]
  <2>1. CASE i \in 1 .. Len(file)
    BY <2>1, <1>4 DEF FetchInv, PartIsPrefix
  <2>2. CASE i \in Len(file) + 1 .. Len(file')
    <3>1. i \in 1 .. Len(Segment)
      BY <2>2, <1>6, <1>3, <1>4, <1>1
    <3>2. Segment[i] = seg.first + i - 1
      BY <3>1, <1>3
    <3>3. file'[i] = next + (i - Len(file)) - 1
      BY <2>2, <1>4
    <3> QED
      BY <3>1, <3>2, <3>3, <1>1, <1>2, <1>3, SMTT(30)
  <2> QED
    BY <1>1, <1>4, <2>1, <2>2
<1> QED
  BY <1>4, <1>5, <1>6, <1>7 DEF PartIsPrefix

-----------------------------------------------------------------------------

LEMMA InitFetchInv ==
  ASSUME Honest
  PROVE  Init => FetchInv
<1> SUFFICES ASSUME Init PROVE FetchInv
  OBVIOUS
<1>1. seg \in Segments /\ file = <<>> /\ have = 0 /\ pc = "start" /\ next = 0 /\ end = 0
      /\ attempt = 0 /\ refreshed = FALSE /\ canceled = FALSE /\ runs = 1
  BY DEF Init
<1>2. Len(Segment) \in Nat
  BY <1>1, SegmentFacts
<1>3. file \in Seq(0 .. Size - 1) /\ Len(file) = 0 /\ runs \in 1 .. MaxRuns /\ Size \in Nat /\ Retries \in Nat
  BY <1>1, FetchAssumption
<1>4. TypeOK
  <2>1. have \in 0 .. Len(Segment) /\ next \in 0 .. Size /\ end \in 0 .. Size /\ attempt \in Nat
    BY <1>1, <1>2, <1>3
  <2> QED
    BY <1>1, <1>3, <2>1 DEF TypeOK, Ended
<1>5. PartIsPrefix /\ OkIsWhole /\ CountInv /\ BodyInv
  BY <1>1, <1>2, <1>3 DEF PartIsPrefix, OkIsWhole, CountInv, BodyInv
<1>6. AttemptInv
  BY <1>1, <1>3 DEF AttemptInv, AttemptsBounded
<1> QED
  BY <1>4, <1>5, <1>6 DEF FetchInv

(* An action that leaves the part file, the count and the body alone and   *)
(* only decides whether there is another attempt.                          *)
LEMMA RetryStep ==
  ASSUME FetchInv, pc \in {"request", "body"}, Retry,
         UNCHANGED <<seg, file, have, body, attempt, refreshed, canceled, runs>>
  PROVE  FetchInv'
<1>1. pc' \in {"failed", "wait"} /\ (pc' = "wait" => attempt < Retries)
  BY FetchAssumption DEF Retry, FetchInv, TypeOK
<1> QED
  BY <1>1 DEF FetchInv, TypeOK, Ended, body, PartIsPrefix, OkIsWhole, CountInv, BodyInv,
     AttemptInv, AttemptsBounded, Segment, segEnd, segLen, From

LEMMA FetchStep ==
  ASSUME Honest
  PROVE  FetchInv /\ [Next]_vars => FetchInv'
<1> SUFFICES ASSUME FetchInv, [Next]_vars PROVE FetchInv'
  OBVIOUS
<1>a. /\ TypeOK /\ PartIsPrefix /\ OkIsWhole /\ CountInv /\ BodyInv /\ AttemptInv
      /\ seg \in Segments
  BY DEF FetchInv, TypeOK
<1>b. /\ seg.first \in Nat /\ segEnd \in Nat /\ segEnd <= Size
      /\ segEnd = seg.first + Len(Segment) /\ Len(Segment) \in Nat /\ Len(Segment) > 0
      /\ segLen \in Int /\ (segLen = -1 \/ segLen = Len(Segment))
      /\ (segLen = -1 <=> seg.last = -1) /\ seg.last \in Int
      /\ segEnd = IF seg.last >= 0 THEN seg.last + 1 ELSE Size
      /\ ~seg.ranged => seg.first = 0 /\ segLen = -1
  BY <1>a, SegmentFacts
<1>c. Len(file) \in Nat /\ have \in Nat /\ attempt \in Nat /\ Size \in Nat /\ Retries \in Nat
      /\ Len(file) <= Len(Segment)
  BY <1>a, FetchAssumption DEF TypeOK, PartIsPrefix
<1>d. seg' = seg => Segment' = Segment /\ segEnd' = segEnd /\ segLen' = segLen
  BY DEF Segment, segEnd, segLen
<1>1. CASE OpenPart
  <2>1. /\ have' = Len(file) /\ attempt' = 0 /\ refreshed' = FALSE
        /\ UNCHANGED <<seg, file, next, end, canceled, runs>>
        /\ pc' \in {"ok", "request", "failed"}
        /\ pc' = "ok" => segLen >= 0 /\ Len(file) >= segLen
    BY <1>1 DEF OpenPart, body
  <2>2. have' \in 0 .. Len(Segment')
    BY <2>1, <1>b, <1>c, <1>d
  <2>3. TypeOK' /\ PartIsPrefix'
    BY <2>1, <2>2, <1>a, <1>d DEF TypeOK, PartIsPrefix, Ended
  <2>4. OkIsWhole'
    <3> SUFFICES ASSUME pc' = "ok" PROVE file = Segment
      BY <1>d, <2>1 DEF OkIsWhole
    <3>1. Len(file) = Len(Segment)
      BY <2>1, <1>b, <1>c
    <3> QED
      BY <3>1, <1>a, LongIsWhole
  <2>5. CountInv' /\ BodyInv' /\ AttemptInv'
    BY <2>1, <1>c DEF CountInv, BodyInv, AttemptInv, AttemptsBounded
  <2> QED
    BY <2>3, <2>4, <2>5 DEF FetchInv
<1>2. CASE NoResponse
  BY <1>2, RetryStep DEF NoResponse
<1>3. CASE NotSatisfiable
  <2>1. /\ pc = "request" /\ pc' = "ok" /\ From >= Size
        /\ UNCHANGED <<seg, file, have, next, end, attempt, refreshed, canceled, runs>>
    BY <1>3 DEF NotSatisfiable, body
  <2>2. Len(file) = Len(Segment)
    BY <2>1, <1>a, <1>b, <1>c DEF From, CountInv
  <2>3. OkIsWhole'
    BY <2>1, <2>2, <1>a, <1>d, LongIsWhole DEF OkIsWhole
  <2>4. TypeOK' /\ PartIsPrefix' /\ CountInv' /\ BodyInv' /\ AttemptInv'
    BY <2>1, <1>a, <1>c, <1>d DEF TypeOK, Ended, PartIsPrefix, CountInv, BodyInv, AttemptInv, AttemptsBounded
  <2> QED
    BY <2>3, <2>4 DEF FetchInv
<1>4. CASE Restart
  <2>1. /\ pc = "request" /\ have > 0
        /\ UNCHANGED <<seg, next, end, refreshed, canceled, runs>>
        /\ \/ file' = <<>> /\ have' = 0 /\ attempt' = attempt + 1 /\ pc' = pc
           \/ pc' = "failed" /\ UNCHANGED <<file, have, attempt>>
    BY <1>4 DEF Restart, body
  <2>2. TypeOK' /\ PartIsPrefix'
    <3>1. Segment' = Segment /\ Len(Segment) \in Nat
      BY <2>1, <1>b, <1>d
    <3>2. CASE file' = <<>> /\ have' = 0 /\ attempt' = attempt + 1 /\ pc' = pc
      <4>1. Len(file') = 0 /\ file' \in Seq(0 .. Size - 1)
        BY <3>2
      <4> QED
        BY <2>1, <3>1, <3>2, <4>1, <1>a DEF TypeOK, Ended, PartIsPrefix
    <3>3. CASE pc' = "failed" /\ UNCHANGED <<file, have, attempt>>
      BY <2>1, <3>1, <3>3, <1>a DEF TypeOK, Ended, PartIsPrefix
    <3> QED
      BY <2>1, <3>2, <3>3
  <2>3. OkIsWhole' /\ CountInv' /\ BodyInv'
    BY <2>1, <1>a DEF OkIsWhole, CountInv, BodyInv
  <2>4. AttemptInv'
    BY <2>1, <1>a, <1>c DEF TypeOK, AttemptInv, AttemptsBounded
  <2> QED
    BY <2>2, <2>3, <2>4 DEF FetchInv
<1>5. CASE Whole
  <2>1. /\ pc = "request" /\ have = 0 /\ Lengths = {Size}
        /\ UNCHANGED <<seg, have, attempt, refreshed, canceled, runs>>
    BY <1>5 DEF Whole, Lengths, Honest
  <2>2. file = <<>> /\ Len(file) = 0
    BY <2>1, <1>a DEF CountInv, TypeOK
  <2>3. CASE seg.ranged /\ seg.first > 0 /\ Size # segLen
    <3>1. file' = file /\ pc' = "ignored" /\ UNCHANGED <<next, end>>
      BY <1>5, <2>1, <2>2, <2>3 DEF Whole, body
    <3> QED
      BY <2>1, <3>1, <1>a, <1>c, <1>d
      DEF FetchInv, TypeOK, Ended, PartIsPrefix, OkIsWhole, CountInv, BodyInv, AttemptInv, AttemptsBounded
  <2>4. CASE ~(seg.ranged /\ seg.first > 0 /\ Size # segLen)
    <3>1. /\ next' = 0 /\ end' = IF segLen >= 0 /\ segLen < Size THEN segLen ELSE Size
          /\ pc' = "body" /\ file' = file
      BY <1>5, <2>1, <2>4 DEF Whole
    <3>2. seg.first = 0
      BY <2>4, <1>b
    <3>3. end' = segEnd
      BY <3>1, <3>2, <1>b, <1>c
    <3>4. TypeOK' /\ PartIsPrefix' /\ OkIsWhole' /\ CountInv' /\ AttemptInv'
      BY <2>1, <3>1, <3>3, <1>a, <1>b, <1>c, <1>d
      DEF TypeOK, Ended, PartIsPrefix, OkIsWhole, CountInv, AttemptInv, AttemptsBounded
    <3>5. BodyInv'
      BY <2>1, <3>1, <3>2, <3>3, <1>b, <1>c, <1>d DEF BodyInv, From
    <3> QED
      BY <3>4, <3>5 DEF FetchInv
  <2> QED
    BY <2>3, <2>4
<1>6. CASE Partial
  <2>1. /\ pc = "request" /\ From < Size /\ next' = From /\ pc' = "body"
        /\ UNCHANGED <<seg, file, have, attempt, refreshed, canceled, runs>>
    BY <1>6 DEF Partial
  <2>2. /\ end' \in IF seg.last >= 0 THEN From + 1 .. segEnd ELSE {segEnd}
    BY <1>6, <1>b, SegmentFacts, <1>a DEF Partial, Honest
  <2>3. From \in Nat /\ From = seg.first + Len(file)
    BY <2>1, <1>a, <1>b, <1>c DEF From, CountInv
  <2>4. end' \in Nat /\ From <= end' /\ end' <= segEnd /\ (segLen = -1 => end' = segEnd)
    <3>1. segEnd \in Nat /\ From \in Nat /\ From <= segEnd
      BY <2>3, <1>b, <1>c
    <3>2. CASE seg.last >= 0
      BY <2>2, <3>1, <3>2, <1>b
    <3>3. CASE ~(seg.last >= 0)
      BY <2>2, <3>1, <3>3, <1>b
    <3> QED
      BY <3>2, <3>3
  <2>5. TypeOK' /\ PartIsPrefix' /\ OkIsWhole' /\ CountInv' /\ AttemptInv'
    BY <2>1, <2>3, <2>4, <1>a, <1>b, <1>c, <1>d, SMTT(30)
    DEF TypeOK, Ended, PartIsPrefix, OkIsWhole, CountInv, AttemptInv, AttemptsBounded
  <2>6. BodyInv'
    BY <2>1, <2>4, <1>d DEF BodyInv, From
  <2> QED
    BY <2>5, <2>6 DEF FetchInv
<1>7. CASE ErrorStatus
  <2>1. pc = "request" /\ UNCHANGED <<seg, file, have, next, end, canceled, runs>>
    BY <1>7 DEF ErrorStatus, body
  <2>2. CASE Retry /\ UNCHANGED <<attempt, refreshed>>
    BY <2>1, <2>2, RetryStep DEF body
  <2>3. CASE pc' = "failed" /\ attempt' = attempt /\ refreshed' \in BOOLEAN
    BY <2>1, <2>3, <1>a, <1>c, <1>d
    DEF FetchInv, TypeOK, Ended, PartIsPrefix, OkIsWhole, CountInv, BodyInv, AttemptInv, AttemptsBounded
  <2>4. CASE ~refreshed /\ refreshed' = TRUE /\ attempt' = attempt + 1 /\ pc' = pc
    BY <2>1, <2>4, <1>a, <1>c, <1>d
    DEF FetchInv, TypeOK, Ended, PartIsPrefix, OkIsWhole, CountInv, BodyInv, AttemptInv, AttemptsBounded
  <2> QED
    BY <1>7, <2>2, <2>3, <2>4, <1>a DEF ErrorStatus, TypeOK
<1>8. CASE Receive
  <2>1. PICK upto \in next + 1 .. end :
          file' = file \o Bytes(next, upto) /\ have' = have + (upto - next) /\ next' = upto
    BY <1>8 DEF Receive
  <2>2. pc = "body" /\ UNCHANGED <<seg, pc, end, attempt, refreshed, canceled, runs>>
    BY <1>8 DEF Receive
  <2>3. next \in Nat /\ end \in Nat /\ upto \in next .. end /\ upto \in Nat /\ end <= Size
    BY <1>a, <2>1, FetchAssumption DEF TypeOK
  <2>4. /\ file' \in Seq(0 .. Size - 1) /\ Len(file') = Len(file) + (upto - next)
        /\ PartIsPrefix'
    BY <2>1, <2>2, <2>3, PartGrows
  <2>5. have' = Len(file') /\ have' \in 0 .. Len(Segment)
    <3>1. have = Len(file) /\ Len(file') <= Len(Segment)
      BY <2>2, <2>4, <1>a, <1>d DEF CountInv, PartIsPrefix
    <3>2. have' = have + (upto - next) /\ upto - next \in Nat
      BY <2>1, <2>3
    <3> QED
      BY <2>4, <3>1, <3>2, <1>b, <1>c
  <2>6. next' \in 0 .. Size /\ next' <= end' /\ Segment' = Segment
    BY <2>1, <2>2, <2>3, <1>c, <1>d
  <2>7. TypeOK'
    BY <2>2, <2>4, <2>5, <2>6, <1>a DEF TypeOK, Ended
  <2>8. OkIsWhole' /\ CountInv' /\ AttemptInv'
    BY <2>2, <2>5, <1>a DEF OkIsWhole, CountInv, AttemptInv, AttemptsBounded
  <2>9. BodyInv'
    <3>1. next = seg.first + have /\ end <= segEnd /\ (segLen = -1 => end = segEnd)
      BY <2>2, <1>a DEF BodyInv, From
    <3>2. next' = seg'.first + have'
      <4>1. /\ have' = have + (upto - next) /\ next' = upto /\ seg' = seg
            /\ seg.first \in Nat /\ have \in Nat /\ upto \in Nat /\ next \in Nat
        BY <2>1, <2>2, <2>3, <1>b, <1>c
      <4>2. next = seg.first + have
        BY <3>1
      <4> QED
        BY <4>1, <4>2
    <3> QED
      BY <3>1, <3>2, <2>2, <2>6, <1>d DEF BodyInv, From
  <2> QED
    BY <2>4, <2>7, <2>8, <2>9 DEF FetchInv
<1>9. CASE WriteFails
  <2>1. PICK upto \in next .. end - 1 :
          /\ upto = next \/ TornRetries \/ attempt >= Retries \/ canceled
          /\ file' = file \o Bytes(next, upto)
    BY <1>9 DEF WriteFails
  <2>2. pc = "body" /\ Retry /\ UNCHANGED <<seg, have, next, end, attempt, refreshed, canceled, runs>>
    BY <1>9 DEF WriteFails, body
  <2>3. next \in Nat /\ end \in Nat /\ upto \in next .. end
    BY <1>a, <2>1, FetchAssumption DEF TypeOK
  <2>4. /\ file' \in Seq(0 .. Size - 1) /\ Len(file') = Len(file) + (upto - next)
        /\ PartIsPrefix'
    BY <2>1, <2>2, <2>3, PartGrows
  <2>5. pc' \in {"failed", "wait"} /\ (pc' = "wait" => attempt < Retries /\ ~canceled)
    BY <2>2, <1>c DEF Retry
  <2>6. pc' = "wait" => upto = next
    BY <2>1, <2>5, <1>c DEF Honest
  <2>7. CountInv'
    BY <2>2, <2>3, <2>4, <2>5, <2>6, <1>a, <1>c DEF CountInv
  <2>8. TypeOK' /\ OkIsWhole' /\ BodyInv' /\ AttemptInv'
    BY <2>2, <2>4, <2>5, <1>a, <1>c, <1>d
    DEF TypeOK, Ended, OkIsWhole, BodyInv, AttemptInv, AttemptsBounded
  <2> QED
    BY <2>4, <2>7, <2>8 DEF FetchInv
<1>10. CASE BodyFails
  BY <1>10, RetryStep DEF BodyFails
<1>11. CASE BodyEnds
  <2>1. /\ pc = "body" /\ next = end
        /\ UNCHANGED <<seg, file, have, next, end, attempt, refreshed, canceled, runs>>
    BY <1>11 DEF BodyEnds, body
  <2>2. CASE segLen >= 0 /\ have < segLen
    BY <1>11, <2>2, RetryStep DEF BodyEnds
  <2>3. CASE ~(segLen >= 0 /\ have < segLen)
    <3>1. pc' = "ok"
      BY <1>11, <2>3 DEF BodyEnds
    <3>2. Len(file) = Len(Segment)
      <4>1. have = Len(file) /\ next = seg.first + have /\ (segLen = -1 => next = segEnd)
        BY <2>1, <1>a DEF CountInv, BodyInv, From
      <4> QED
        BY <4>1, <2>3, <1>b, <1>c
    <3>3. OkIsWhole'
      BY <2>1, <3>2, <1>a, <1>d, LongIsWhole DEF OkIsWhole
    <3> QED
      BY <2>1, <3>1, <3>3, <1>a, <1>c, <1>d
      DEF FetchInv, TypeOK, Ended, PartIsPrefix, CountInv, BodyInv, AttemptInv, AttemptsBounded
  <2> QED
    BY <2>2, <2>3
<1>12. CASE Wait
  <2>1. /\ pc = "wait" /\ UNCHANGED <<seg, file, have, next, end, refreshed, canceled, runs>>
        /\ \/ pc' = "request" /\ attempt' = attempt + 1
           \/ pc' = "failed" /\ attempt' = attempt
    BY <1>12 DEF Wait, body
  <2> QED
    BY <2>1, <1>a, <1>c, <1>d
    DEF FetchInv, TypeOK, Ended, PartIsPrefix, OkIsWhole, CountInv, BodyInv, AttemptInv, AttemptsBounded
<1>13. CASE Cancel
  BY <1>13, <1>a, <1>d
  DEF Cancel, body, FetchInv, TypeOK, Ended, PartIsPrefix, OkIsWhole, CountInv, BodyInv, AttemptInv, AttemptsBounded, From
<1>14. CASE Rerun
  <2>1. /\ pc' = "start" /\ have' = 0 /\ next' = 0 /\ end' = 0 /\ attempt' = 0
        /\ refreshed' = FALSE /\ canceled' = FALSE /\ runs' = runs + 1 /\ runs < MaxRuns
        /\ UNCHANGED <<seg, file>>
    BY <1>14 DEF Rerun
  <2>2. runs' \in 1 .. MaxRuns
    BY <2>1, <1>a, FetchAssumption DEF TypeOK
  <2>3. TypeOK'
    <3>1. have' \in 0 .. Len(Segment') /\ next' \in 0 .. Size /\ end' \in 0 .. Size /\ attempt' \in Nat
      BY <2>1, <1>b, <1>c, <1>d
    <3> QED
      BY <2>1, <2>2, <3>1, <1>a DEF TypeOK, Ended
  <2>4. PartIsPrefix' /\ OkIsWhole' /\ CountInv' /\ BodyInv' /\ AttemptInv'
    BY <2>1, <1>a, <1>c, <1>d DEF PartIsPrefix, OkIsWhole, CountInv, BodyInv, AttemptInv, AttemptsBounded
  <2> QED
    BY <2>3, <2>4 DEF FetchInv
<1>15. CASE UNCHANGED vars
  BY <1>15, <1>a, <1>d
  DEF vars, FetchInv, TypeOK, Ended, PartIsPrefix, OkIsWhole, CountInv, BodyInv, AttemptInv, AttemptsBounded, From
<1> QED
  BY <1>1, <1>2, <1>3, <1>4, <1>5, <1>6, <1>7, <1>8, <1>9, <1>10, <1>11, <1>12, <1>13, <1>14, <1>15
  DEF Next, Answer, Body

-----------------------------------------------------------------------------

(* The part file, the count of its bytes, the body that comes and the      *)
(* attempts are always as FetchInv says.                                   *)
THEOREM FetchInvariance ==
  ASSUME Honest
  PROVE  Spec => []FetchInv
  BY InitFetchInv, FetchStep, PTL DEF Spec

(* Every variable of a fetch keeps its type; what the program counts on is *)
(* never more than the segment.                                            *)
THEOREM FetchTypeCorrect ==
  ASSUME Honest
  PROVE  Spec => []TypeOK
<1>1. FetchInv => TypeOK
  BY DEF FetchInv
<1> QED
  BY <1>1, FetchInvariance, PTL

(* Whatever requests, failures, cancels and kills came before, the part    *)
(* file is the start of the segment.                                       *)
THEOREM PartResumable ==
  ASSUME Honest
  PROVE  Spec => []PartIsPrefix
<1>1. FetchInv => PartIsPrefix
  BY DEF FetchInv
<1> QED
  BY <1>1, FetchInvariance, PTL

(* downloadSegment returns no error only for a whole segment.              *)
THEOREM FetchedIsWhole ==
  ASSUME Honest
  PROVE  Spec => []OkIsWhole
<1>1. FetchInv => OkIsWhole
  BY DEF FetchInv
<1> QED
  BY <1>1, FetchInvariance, PTL

(* There are at most two attempts more than retries.                       *)
THEOREM AttemptsEnd ==
  ASSUME Honest
  PROVE  Spec => []AttemptsBounded
<1>1. FetchInv => AttemptsBounded
  BY DEF FetchInv, AttemptInv
<1> QED
  BY <1>1, FetchInvariance, PTL
=============================================================================
