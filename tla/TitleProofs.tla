------------------------------ MODULE TitleProofs ------------------------------
(***************************************************************************)
(* Proofs about Title, for any inputs.                                     *)
(***************************************************************************)
EXTENDS Title, FiniteSetTheorems, SequenceTheorems, WellFoundedInduction, TLAPS

--------------------------------------------------------------------------------
(* The keys.                                                               *)

Opened(st) == OpenStream(st, input.tenc, input.keys, input.served)

(* Two layers are one on the other.                                        *)
LEMMA Stacked ==
  ASSUME NEW a, NEW b
  PROVE  /\ <<a>> \o <<b>> = <<a, b>> /\ <<>> \o <<a>> = <<a>> /\ <<a>> \o <<>> = <<a>>
         /\ <<>> \o <<>> = <<>>
<1>1. <<a>> \in Seq({a, b}) /\ <<b>> \in Seq({a, b}) /\ <<>> \in Seq({a, b}) /\ <<a, b>> \in Seq({a, b})
  OBVIOUS
<1>2. <<a>> \o <<b>> = <<a, b>>
  <2> DEFINE s == <<a>> \o <<b>>
             t == <<a, b>>
  <2>1. s \in Seq({a, b}) /\ t \in Seq({a, b})  BY <1>1
  <2>2. Len(s) = 2 /\ Len(t) = 2 /\ s[1] = a /\ s[2] = b /\ t[1] = a /\ t[2] = b  BY <1>1
  <2> HIDE DEF s, t
  <2>3. \A i \in 1 .. Len(s) : s[i] = t[i]  BY <2>2
  <2>4. s = t  BY <2>1, <2>2, <2>3, SeqEqual
  <2>5. QED  BY <2>4 DEF s, t
<1>3. QED  BY <1>1, <1>2, ConcatEmptySeq

(* Layers come off from the outside: an image header, what a cipher put    *)
(* around the rest, and what looks for its own mark.                       *)
LEMMA HeaderOff ==
  ASSUME NEW B, B.kind # "image", NEW b \in {<<>>, <<B>>}, NEW i \in {<<>>, <<Image>>}
  PROVE  StripImage(i \o b) = b
<1>1. B # Image
  <2>1. Image.kind = "image"  BY DEF Image, Layer
  <2>2. QED  BY <2>1
<1>2. Head(<<Image>>) = Image /\ Tail(<<Image>>) = <<>> /\ <<Image>> # <<>>  OBVIOUS
<1>3. Head(<<Image, B>>) = Image /\ Tail(<<Image, B>>) = <<B>> /\ <<Image, B>> # <<>>  OBVIOUS
<1>4. Head(<<B>>) = B /\ <<B>> # <<>>  OBVIOUS
<1> HIDE DEF Image
<1>5. CASE b = <<>>
  <2>1. i \o b \in {<<>>, <<Image>>}  BY <1>5, Stacked
  <2>2. QED  BY <1>2, <1>5, <2>1 DEF StripImage
<1>6. CASE b = <<B>>
  <2>1. i \o b \in {<<B>>, <<Image, B>>}  BY <1>6, Stacked
  <2>2. QED  BY <1>1, <1>3, <1>4, <1>6, <2>1 DEF StripImage
<1>7. QED  BY <1>5, <1>6

(* A mark that is outermost comes off by its name.                       *)
LEMMA MarkOff ==
  ASSUME NEW L
  PROVE  Peel(<<L>>, L) = <<>> /\ PeelMarked(<<L>>, L) = <<>> /\ PeelMarked(<<>>, L) = <<>>
<1>1. Head(<<L>>) = L /\ Tail(<<L>>) = <<>> /\ <<L>> # <<>>  OBVIOUS
<1>2. QED  BY <1>1 DEF Peel, PeelMarked

(* Peeling takes the outermost layer and leaves the image and what it    *)
(* covers.                                                               *)
LEMMA Outermost ==
  ASSUME NEW L, NEW B, NEW b \in {<<>>, <<B>>}, NEW i \in {<<>>, <<Image>>}
  PROVE  Peel(<<L>> \o i \o b, L) = i \o b
<1> DEFINE S == {L, B, Image}
<1>1. <<L>> \in Seq(S) /\ b \in Seq(S) /\ i \in Seq(S)
  <2>1. L \in S /\ B \in S /\ Image \in S  OBVIOUS
  <2> HIDE DEF S, Image
  <2>2. <<>> \in Seq(S) /\ \A x \in S : <<x>> \in Seq(S)  OBVIOUS
  <2>3. (b = <<>> \/ b = <<B>>) /\ (i = <<>> \/ i = <<Image>>)  OBVIOUS
  <2>4. QED  BY <2>1, <2>2, <2>3
<1> HIDE DEF S
<1>2. i \o b \in Seq(S) /\ <<L>> \o i \o b = <<L>> \o (i \o b)  BY <1>1, ConcatProperties, ConcatAssociative
<1>3. \A t \in Seq(S) : <<L>> \o t # <<>> /\ Head(<<L>> \o t) = L /\ Tail(<<L>> \o t) = t
  BY <1>1
<1>4. QED  BY <1>2, <1>3 DEF Peel

(* resolveKey gives no key or a true one.                                  *)
LEMMA ResolvedTrue ==
  ASSUME NEW keys, NEW secret, NEW T, NEW a \in T, NEW b \in T,
         \A kid \in DOMAIN keys :
           kid \in T \/ (kid = "zero" /\ Cardinality(DOMAIN keys) = 1) => keys[kid] = secret
  PROVE  /\ ResolveKey(keys, <<a, b>>) \in {"", secret}
         /\ ResolveKey(keys, <<a>>) \in {"", secret}
<1>1. ASSUME NEW P \in SUBSET {1, 2}, P # {} PROVE Min(P) \in P
  <2>1. CASE 1 \in P
    <3>1. \A y \in P : 1 <= y  OBVIOUS
    <3>2. \E x \in P : \A y \in P : x <= y  BY <2>1, <3>1
    <3>3. QED  BY <3>2 DEF Min
  <2>2. CASE 1 \notin P
    <3>1. P = {2}  BY <1>1, <2>2
    <3>2. QED  BY <3>1 DEF Min
  <2>3. QED  BY <2>1, <2>2
<1>2. ASSUME NEW kids, DOMAIN kids \subseteq {1, 2}, \A i \in DOMAIN kids : kids[i] \in T
      PROVE  ResolveKey(keys, kids) \in {"", secret}
  <2> DEFINE P == {i \in DOMAIN kids : kids[i] \in DOMAIN keys}
  <2>1. CASE P # {}
    <3>1. P \in SUBSET {1, 2}  BY <1>2
    <3>2. Min(P) \in P  BY <1>1, <2>1, <3>1
    <3>3. QED  BY <1>2, <2>1, <3>2 DEF ResolveKey
  <2>2. CASE P = {}  BY <2>2 DEF ResolveKey
  <2>3. QED  BY <2>1, <2>2
<1>3. DOMAIN <<a, b>> = {1, 2} /\ <<a, b>>[1] = a /\ <<a, b>>[2] = b  OBVIOUS
<1>4. DOMAIN <<a>> = {1} /\ <<a>>[1] = a  OBVIOUS
<1>5. QED
  <2>1. ResolveKey(keys, <<a, b>>) \in {"", secret}
    <3>1. \A i \in DOMAIN <<a, b>> : <<a, b>>[i] \in T  BY <1>3
    <3>2. QED  BY <1>2, <1>3, <3>1
  <2>2. ResolveKey(keys, <<a>>) \in {"", secret}
    <3>1. \A i \in DOMAIN <<a>> : <<a>>[i] \in T  BY <1>4
    <3>2. QED  BY <1>2, <1>4, <3>1
  <2>3. QED  BY <2>1, <2>2

(* What the keys a stream and its segment name may be wrong about.         *)
Ids(st, seg) == {input.tenc, seg.key.kid, ManifestKID(st)}
Truth(st, seg) ==
  /\ \A kid \in DOMAIN input.keys :
       kid \in Ids(st, seg) \/ (kid = "zero" /\ Cardinality(DOMAIN input.keys) = 1) =>
         input.keys[kid] = input.secret
  /\ \A uri \in DOMAIN input.served : input.served[uri] \in {"", input.secret}

(* The decryptor of a stream that was opened: there is one, and its key is *)
(* true, exactly if an init names a key; and no other stream of CENC is    *)
(* opened (newCencDecryptor, DownloadStream).                              *)
LEMMA DecryptorTrue ==
  ASSUME NEW st, NEW k \in DOMAIN st.segs, Truth(st, st.segs[k]), ~Opened(st).err
  PROVE  LET own == st.init # NoInit /\ input.tenc # ""
             key == Opened(st).key
         IN  /\ own => key # "" /\ key = input.secret
             /\ ~own => key = "" /\ st.segs[k].key.method # "CENC"
<1> DEFINE dec == NewDecryptor(st, input.tenc, input.keys, input.served)
           none == IF HasCENC(st) THEN Error ELSE Found("")
           seg == st.segs[k]
           served == input.served
<1>1. Error.err = TRUE /\ Error.key = "" /\ \A x : Found(x).err = FALSE /\ Found(x).key = x
  BY DEF Error, Found
<1>2. ResolveKey(input.keys, <<input.tenc, ManifestKID(st)>>) \in {"", input.secret}
  <2>1. input.tenc \in Ids(st, seg) /\ ManifestKID(st) \in Ids(st, seg)  BY DEF Ids
  <2>2. QED  BY <2>1, ResolvedTrue DEF Truth
<1>3. \A uri \in DOMAIN served : Fetch(served, uri) = Error \/
          (Fetch(served, uri) = Found(input.secret) /\ input.secret # "")
  BY DEF Truth, Fetch
<1>4. CASE st.init # NoInit /\ input.tenc # ""
  <2>1. dec = Error \/ (dec = Found(input.secret) /\ input.secret # "")
    BY <1>2, <1>3, <1>4 DEF NewDecryptor, Fetchable
  <2> HIDE DEF dec
  <2>2. Opened(st) = dec \/ Opened(st) = Error  BY <1>4 DEF Opened, OpenStream, dec
  <2>3. dec = Found(input.secret) /\ input.secret # "" /\ Opened(st) = dec  BY <1>1, <2>1, <2>2
  <2>4. QED  BY <1>1, <1>4, <2>3
<1>5. CASE ~(st.init # NoInit /\ input.tenc # "")
  <2>1. (IF st.init # NoInit THEN dec ELSE none) = none  BY <1>5 DEF NewDecryptor
  <2>2. Opened(st) = none \/ Opened(st) = Error  BY <2>1 DEF Opened, OpenStream
  <2>3. Opened(st) = Found("") /\ ~HasCENC(st)  BY <1>1, <2>2
  <2>4. seg.key.method # "CENC"  BY <2>3 DEF HasCENC, IsCENC
  <2>5. QED  BY <1>1, <1>5, <2>3, <2>4
<1>6. QED  BY <1>4, <1>5

(* A segment of an opened stream comes out clear or is refused, one case   *)
(* for each thing the packager can have done to it (decryptSegment).       *)
LEMMA Cleared ==
  ASSUME NEW st, NEW k \in DOMAIN st.segs, Truth(st, st.segs[k]), ~Opened(st).err,
         Enciphered(st.segs[k].key) \/ input.tenc = "",
         NEW header \in Headers, NEW mark \in Marks
  PROVE  LET data == Packaged(st, st.segs[k], header, mark)
             out  == DecryptSegment(st.segs[k], Opened(st).key, input.keys, input.served, input.bbts, data)
         IN  out.err \/ out.data = <<>>
<1> DEFINE seg     == st.segs[k]
           method  == seg.key.method
           dec     == Opened(st).key
           own     == st.init # NoInit /\ input.tenc # ""
           data    == Packaged(st, seg, header, mark)
           out     == DecryptSegment(seg, dec, input.keys, input.served, input.bbts, data)
           iv      == IVOf(seg)
           bbts    == Layer("bbts", input.bbts, None)
           aes     == Layer("aes", input.secret, iv)
           cenc    == Layer("cenc", input.secret, None)
           sample  == Layer("sample", input.secret, iv)
           fetched == Fetch(input.served, seg.key.uri)
           sampled == SampleKey(seg.key, input.keys, input.served)
           unmarked(opened) == IF input.bbts = "" THEN opened ELSE PeelMarked(opened, bbts)
           bare    == IF method = "AES-128" THEN data ELSE StripImage(data)
           mine    == CASE dec # "" /\ method \in {"CENC", "SAMPLE-AES"} -> Found(dec)
                        [] dec = "" /\ method = "SAMPLE-AES" -> sampled
                        [] method = "AES-128" -> fetched
                        [] OTHER -> Found("")
           opened  == IF mine.key = "" THEN bare
                      ELSE CASE method = "AES-128" -> StripImage(Peel(bare, Layer("aes", mine.key, iv)))
                             [] method # "AES-128" /\ dec # "" -> Peel(bare, Layer("cenc", mine.key, None))
                             [] OTHER -> PeelMarked(bare, Layer("sample", mine.key, iv))
<1>1. Error.err = TRUE /\ Error.key = "" /\ \A x : Found(x).err = FALSE /\ Found(x).key = x
  BY DEF Error, Found
<1>2. /\ own => dec # "" /\ dec = input.secret
      /\ ~own => dec = "" /\ method # "CENC"
  BY DecryptorTrue
<1>3. fetched = Error \/ (fetched = Found(input.secret) /\ input.secret # "")
  BY DEF Truth, Fetch
<1>4. sampled = Error \/ (sampled = Found(input.secret) /\ input.secret # "")
  <2> seg.key.kid \in Ids(st, seg)  BY DEF Ids
  <2>1. ResolveKey(input.keys, <<seg.key.kid>>) \in {"", input.secret}  BY ResolvedTrue DEF Truth
  <2>2. QED  BY <1>3, <2>1 DEF SampleKey
<1>5. aes.kind = "aes" /\ cenc.kind = "cenc" /\ sample.kind = "sample" /\ bbts.kind = "bbts"
  BY DEF Layer
<1>6. header \in {<<>>, <<Image>>} /\ mark \in {<<>>, <<bbts>>}  BY DEF Headers, Marks
<1>7. unmarked(<<>>) = <<>> /\ unmarked(mark) = <<>>  BY MarkOff DEF Marks
<1>8. /\ StripImage(header \o mark) = mark
      /\ StripImage(header \o <<cenc>>) = <<cenc>> /\ StripImage(header \o <<sample>>) = <<sample>>
  BY <1>5, <1>6, HeaderOff
<1>9. out = IF mine.err THEN [err |-> TRUE, data |-> data] ELSE [err |-> FALSE, data |-> unmarked(opened)]
  BY DEF DecryptSegment
<1>10. data = CASE method = "AES-128" -> <<aes>> \o header \o mark
                [] method # "AES-128" /\ own -> header \o <<cenc>>
                [] method = "SAMPLE-AES" /\ ~own -> header \o <<sample>>
                [] OTHER -> header \o mark
  BY DEF Packaged, IVOf
<1> SUFFICES out.err \/ out.data = <<>>  OBVIOUS
<1> HIDE DEF out, unmarked, iv, fetched, sampled, data
<1>11. CASE method = "AES-128"
  <2>1. CASE fetched = Error  BY <1>1, <1>9, <1>11, <2>1
  <2>2. CASE fetched = Found(input.secret) /\ input.secret # ""
    <3>1. Peel(data, aes) = header \o mark
      <4>1. data = <<aes>> \o header \o mark  BY <1>10, <1>11
      <4>2. QED  BY <1>6, <4>1, Outermost
    <3>2. mine = fetched  BY <1>11
    <3>3. ~mine.err /\ mine.key = input.secret  BY <1>1, <2>2, <3>2
    <3> HIDE DEF mine
    <3>4. opened = StripImage(Peel(data, aes))  BY <1>11, <2>2, <3>3
    <3> HIDE DEF opened
    <3>5. out.data = unmarked(StripImage(Peel(data, aes)))  BY <1>9, <3>3, <3>4
    <3>6. QED  BY <1>7, <1>8, <3>1, <3>5
  <2>3. QED  BY <1>3, <2>1, <2>2
<1>12. CASE own /\ method # "AES-128"
  <2>1. data = header \o <<cenc>>  BY <1>10, <1>12
  <2>2. method \in {"CENC", "SAMPLE-AES"}  BY <1>12 DEF Enciphered
  <2>3. ~mine.err /\ opened = Peel(StripImage(data), cenc)  BY <1>1, <1>2, <1>12, <2>2
  <2> HIDE DEF mine, opened, own
  <2>4. out.data = unmarked(Peel(StripImage(data), cenc))  BY <1>9, <2>3
  <2>5. QED  BY <1>7, <1>8, <2>1, <2>4, MarkOff
<1>13. CASE ~own /\ method = "SAMPLE-AES"
  <2>1. data = header \o <<sample>>  BY <1>10, <1>13
  <2>2. CASE sampled = Error  BY <1>1, <1>2, <1>9, <1>13, <2>2
  <2>3. CASE sampled = Found(input.secret) /\ input.secret # ""
    <3>1. ~mine.err /\ opened = PeelMarked(StripImage(data), sample)  BY <1>1, <1>2, <1>13, <2>3
    <3> HIDE DEF mine, opened, own
    <3>2. out.data = unmarked(PeelMarked(StripImage(data), sample))  BY <1>9, <3>1
    <3>3. QED  BY <1>7, <1>8, <2>1, <3>2, MarkOff
  <2>4. QED  BY <1>4, <2>2, <2>3
<1>14. CASE ~own /\ method \notin {"AES-128", "SAMPLE-AES"}
  <2>1. data = header \o mark  BY <1>10, <1>14
  <2>2. ~mine.err /\ opened = StripImage(data)  BY <1>1, <1>2, <1>14
  <2> HIDE DEF mine, opened, own
  <2>3. out.data = unmarked(StripImage(data))  BY <1>9, <2>2
  <2>4. QED  BY <1>7, <1>8, <2>1, <2>3
<1>15. QED  BY <1>11, <1>12, <1>13, <1>14

(* What the writer's last step left: the segment is of a stream that was   *)
(* opened, and its data is what the packager made of it.                   *)
TakenFrom(i, k, header, mark) ==
  LET seg  == chosen[i].segs[k]
      data == Packaged(chosen[i], seg, header, mark)
      sole == SingleFile(chosen[i])
      out  == IF sole THEN [err |-> FALSE, data |-> data]
              ELSE DecryptSegment(seg, Opened(chosen[i]).key, input.keys, input.served, input.bbts, data)
  IN /\ ~Opened(chosen[i]).err
     /\ piece = [seg |-> seg, verbatim |-> sole, err |-> out.err, data |-> out.data]

(* Before the streams are opened there is no decryptor; then there is one  *)
(* for each stream that was looked at, in order.                           *)
OpenInv ==
  /\ at \in Nat \ {0}
  /\ phase \in {"load", "select", "expand"} => decs = <<>>
  /\ phase \in {"open", "taken"} => decs = [i \in 1 .. at - 1 |-> Opened(chosen[i])]
  /\ phase = "taken" =>
       \E i \in DOMAIN decs : \E k \in DOMAIN chosen[i].segs, header \in Headers, mark \in Marks :
         TakenFrom(i, k, header, mark)

(* No stream is open at first.                                           *)
LEMMA OpenStarts == Init => OpenInv
<1> SUFFICES ASSUME Init PROVE OpenInv  OBVIOUS
<1>1. phase = "load" /\ at = 1 /\ decs = <<>>  BY DEF Init
<1>2. QED  BY <1>1 DEF OpenInv

(* Every step of a title keeps the decryptors opened as OpenStream opens *)
(* them.                                                                 *)
LEMMA OpenStep == OpenInv /\ [Next]_titleVars => OpenInv'
<1> SUFFICES ASSUME OpenInv, [Next]_titleVars PROVE OpenInv'  OBVIOUS
<1>1. CASE Load  BY <1>1 DEF OpenInv, Load
<1>2. CASE List  BY <1>2 DEF OpenInv, List
<1>3. CASE Choose  BY <1>3 DEF OpenInv, Choose
<1>4. CASE Expand  BY <1>4 DEF OpenInv, Expand
<1>5. CASE Settle
  <2>1. decs = <<>> /\ at' = 1 /\ decs' = decs /\ phase' \in {"skipped", "serve", "open"}
    BY <1>5 DEF OpenInv, Settle
  <2>2. decs' = [i \in 1 .. at' - 1 |-> Opened(chosen[i])']  BY <2>1
  <2>3. QED  BY <2>1, <2>2 DEF OpenInv
<1>6. CASE Open
  <2>1. decs = [i \in 1 .. at - 1 |-> Opened(chosen[i])] /\ at \in Nat \ {0} /\ at' = at + 1
    BY <1>6 DEF OpenInv, Open
  <2>2. decs' = Append(decs, Opened(chosen[at])) /\ UNCHANGED <<chosen, input>>
        /\ phase' \in {"refused", "open"}
    BY <1>6 DEF Open, OpenInv, Opened
  <2>3. decs' = [i \in 1 .. at |-> Opened(chosen[i])]
    <3> DEFINE S == {Opened(chosen[i]) : i \in 1 .. at}
    <3>1. decs \in Seq(S) /\ Len(decs) = at - 1
      <4>1. \A i \in 1 .. at - 1 : Opened(chosen[i]) \in S  BY <2>1
      <4> HIDE DEF S
      <4>2. QED  BY <2>1, <4>1
    <3>2. QED  BY <2>1, <2>2, <3>1
  <2>4. \A i : Opened(chosen[i])' = Opened(chosen[i])  BY <2>2 DEF Opened
  <2>5. decs' = [i \in 1 .. at' - 1 |-> Opened(chosen[i])']  BY <2>1, <2>3, <2>4
  <2>6. QED  BY <2>1, <2>2, <2>5 DEF OpenInv
<1>7. CASE Take
  <2>1. decs = [i \in 1 .. at - 1 |-> Opened(chosen[i])]  BY <1>7 DEF OpenInv, Take
  <2>2. PICK i \in DOMAIN decs :
          /\ ~decs[i].err
          /\ \E k \in DOMAIN chosen[i].segs, header \in Headers, mark \in Marks :
               LET seg  == chosen[i].segs[k]
                   data == Packaged(chosen[i], seg, header, mark)
                   sole == SingleFile(chosen[i])
                   out  == IF sole THEN [err |-> FALSE, data |-> data]
                           ELSE DecryptSegment(seg, decs[i].key, input.keys, input.served, input.bbts, data)
               IN piece' = [seg |-> seg, verbatim |-> sole, err |-> out.err, data |-> out.data]
    BY <1>7 DEF Take
  <2>3. PICK k \in DOMAIN chosen[i].segs, header \in Headers, mark \in Marks :
          LET seg  == chosen[i].segs[k]
              data == Packaged(chosen[i], seg, header, mark)
              sole == SingleFile(chosen[i])
              out  == IF sole THEN [err |-> FALSE, data |-> data]
                      ELSE DecryptSegment(seg, decs[i].key, input.keys, input.served, input.bbts, data)
          IN piece' = [seg |-> seg, verbatim |-> sole, err |-> out.err, data |-> out.data]
    BY <2>2
  <2>4. decs[i] = Opened(chosen[i])  BY <2>1
  <2>5. UNCHANGED <<input, chosen, at, decs>> /\ phase' = "taken"  BY <1>7 DEF Take
  <2>6. TakenFrom(i, k, header, mark)'
    <3>1. Opened(chosen[i])' = Opened(chosen[i])  BY <2>5 DEF Opened
    <3>2. \A st, seg : Packaged(st, seg, header, mark)' = Packaged(st, seg, header, mark)  BY <2>5 DEF Packaged
    <3>3. ~Opened(chosen[i]).err  BY <2>2, <2>4
    <3>4. QED  BY <2>3, <2>4, <2>5, <3>1, <3>2, <3>3 DEF TakenFrom
  <2>7. Headers' = Headers /\ Marks' = Marks  BY <2>5 DEF Headers, Marks
  <2>8. (\E m \in DOMAIN decs : \E n \in DOMAIN chosen[m].segs, h \in Headers, b \in Marks : TakenFrom(m, n, h, b))'
    BY <2>5, <2>6, <2>7
  <2>9. decs' = [m \in 1 .. at' - 1 |-> Opened(chosen[m])']  BY <2>1, <2>5 DEF Opened
  <2>10. QED  BY <2>5, <2>8, <2>9 DEF OpenInv
<1>8. CASE UNCHANGED titleVars
  <2>1. UNCHANGED <<input, phase, chosen, at, decs, piece>>  BY <1>8 DEF titleVars
  <2>2. Marks' = Marks /\ Headers' = Headers  BY <2>1 DEF Marks, Headers
  <2>3. \A i, k, header, mark : TakenFrom(i, k, header, mark)' = TakenFrom(i, k, header, mark)
    BY <2>1 DEF TakenFrom, Opened, Packaged
  <2>4. \A i : Opened(chosen[i])' = Opened(chosen[i])  BY <2>1 DEF Opened
  <2>5. (\E i \in DOMAIN decs : \E k \in DOMAIN chosen[i].segs, header \in Headers, mark \in Marks :
           TakenFrom(i, k, header, mark))' =
        (\E i \in DOMAIN decs : \E k \in DOMAIN chosen[i].segs, header \in Headers, mark \in Marks :
           TakenFrom(i, k, header, mark))
    BY <2>1, <2>2, <2>3
  <2>6. QED  BY <2>1, <2>4, <2>5 DEF OpenInv
<1>9. QED  BY <1>1, <1>2, <1>3, <1>4, <1>5, <1>6, <1>7, <1>8 DEF Next

(* The decryptors of a title are those of its streams, in order, and what  *)
(* the writer took is a segment of one that was opened (DownloadStream).   *)
THEOREM OpenInvariance == Spec => []OpenInv
BY OpenStarts, OpenStep, PTL DEF Spec

(* With true keys no ciphertext is taken for media: for any streams, keys, *)
(* key servers, inits, IVs and image headers, a segment the manifest calls *)
(* encrypted comes out clear or is refused, and so does any that the       *)
(* writer takes of a title whose init names no key (decryptSegment,        *)
(* resolveKey).  Of the sole segment of a stream without a key, which      *)
(* downloadSingleFile stores as it comes, it says nothing.                 *)
THEOREM NoCiphertext == Spec => []ClearOrRefused
<1>1. OpenInv => ClearOrRefused
  <2>1. SUFFICES ASSUME OpenInv, phase = "taken", KeysTrue,
                        Enciphered(piece.seg.key) \/ (input.tenc = "" /\ ~piece.verbatim)
                 PROVE  piece.err \/ piece.data = <<>>
    BY DEF ClearOrRefused
  <2>2. PICK i \in DOMAIN decs : \E k \in DOMAIN chosen[i].segs, header \in Headers, mark \in Marks :
          TakenFrom(i, k, header, mark)
    BY <2>1 DEF OpenInv
  <2>3. PICK k \in DOMAIN chosen[i].segs, header \in Headers, mark \in Marks : TakenFrom(i, k, header, mark)
    BY <2>2
  <2> DEFINE st   == chosen[i]
             seg  == st.segs[k]
             data == Packaged(st, seg, header, mark)
             sole == SingleFile(st)
             held == [err |-> FALSE, data |-> data]
             open == DecryptSegment(seg, Opened(st).key, input.keys, input.served, input.bbts, data)
             out  == IF sole THEN held ELSE open
  <2>4. ~Opened(st).err /\ piece = [seg |-> seg, verbatim |-> sole, err |-> out.err, data |-> out.data]
    BY <2>3 DEF TakenFrom
  <2> HIDE DEF sole, held, open
  <2>11. ~sole
    <3>1. piece.verbatim = sole /\ piece.seg = seg  BY <2>4
    <3>2. sole => seg.key = NoKey  BY DEF sole, SingleFile
    <3>3. ~Enciphered(NoKey)  BY DEF Enciphered, NoKey
    <3>4. QED  BY <2>1, <3>1, <3>2, <3>3
  <2>12. out = open  BY <2>11
  <2> HIDE DEF out
  <2>5. piece.seg = seg /\ piece.err = out.err /\ piece.data = out.data  BY <2>4
  <2>6. i \in Naming  BY <2>5 DEF Naming
  <2>7. Ids(st, seg) \subseteq Named  BY <2>5, <2>6 DEF Ids, Named
  <2>8. Truth(st, seg)  BY <2>1, <2>7 DEF Truth, KeysTrue
  <2>9. out.err \/ out.data = <<>>  BY <2>1, <2>4, <2>5, <2>8, <2>12, Cleared DEF open
  <2>10. QED  BY <2>5, <2>9
<1>2. QED  BY <1>1, OpenInvariance, PTL

--------------------------------------------------------------------------------
(* A set of numbers that has one has a least one.                          *)
LEMMA LeastMember ==
  ASSUME NEW T, T \subseteq Nat, T # {} PROVE \E m \in T : \A k \in T : m <= k
<1>1. PICK n \in T : TRUE  OBVIOUS
<1> DEFINE U == {0 .. k : k \in {k \in T : k <= n}}
           R == StrictSubsetOrdering(0 .. n)
           S == SUBSET (0 .. n)
<1>2. IsFiniteSet(0 .. n)  BY <1>1, FS_Interval
<1>3. IsWellFoundedOn(R, S)
  BY <1>2, FS_StrictSubsetOrderingWellFounded, FS_FiniteSubsetsOfFinite
<1>4. U \subseteq S /\ U # {}  BY <1>1
<1>5. \E x \in U : \A y \in U : ~(<<y, x>> \in R)
  <2> HIDE DEF R, S, U
  <2>1. QED  BY <1>3, <1>4, WFMin
<1>6. PICK m \in T : m <= n /\ \A y \in U : ~(<<y, 0 .. m>> \in R)  BY <1>5
<1>7. ASSUME NEW k \in T, k < m PROVE FALSE
  <2>1. 0 .. k \in U
    <3> HIDE DEF R, S
    <3>1. n \in Nat /\ m \in Nat /\ k \in Nat /\ m <= n /\ k < m  BY <1>1, <1>6, <1>7
    <3>2. k <= n  BY <3>1
    <3>3. QED  BY <1>7, <3>2
  <2>2. <<0 .. k, 0 .. m>> \in R  BY <1>1, <1>4, <1>6, <1>7, <2>1 DEF StrictSubsetOrdering
  <2>3. QED  BY <1>6, <2>1, <2>2
<1>8. QED  BY <1>6, <1>7

(* Induction up to n, over a set.                                          *)
LEMMA UpTo ==
  ASSUME NEW n \in Nat, NEW T, 0 \in T, \A k \in 0 .. n - 1 : k \in T => k + 1 \in T
  PROVE  0 .. n \subseteq T
<1> DEFINE F == (0 .. n) \ T
<1>1. ASSUME F # {} PROVE FALSE
  <2>1. F \subseteq Nat  OBVIOUS
  <2> HIDE DEF F
  <2>2. PICK m \in F : \A k \in F : m <= k  BY <1>1, <2>1, LeastMember
  <2> USE DEF F
  <2>3. m \in 1 .. n /\ m - 1 \in 0 .. n - 1 /\ m - 1 \notin F  BY <2>2
  <2>4. m - 1 \in T /\ (m - 1) + 1 = m  BY <2>3
  <2>5. QED  BY <2>2, <2>3, <2>4
<1>2. QED  BY <1>1

(* A recursive function over places has its steps: f is the function the   *)
(* recursion defines.                                                      *)
Recurs(n, S, b, step, f) ==
  /\ f \in [0 .. n -> S] /\ f[0] = b
  /\ \A i \in 1 .. n : f[i] = step[i][f[i - 1]]

(* A walk over 1 .. n with a step for each place has a value at every    *)
(* place.                                                                *)
LEMMA Recursion ==
  ASSUME NEW n \in Nat, NEW S, NEW b \in S, NEW step \in [1 .. n -> [S -> S]]
  PROVE  \E f : Recurs(n, S, b, step, f)
<1> DEFINE T == {k \in 0 .. n : \E f : Recurs(k, S, b, step, f)}
<1>1. 0 \in T
  <2> DEFINE f == [i \in 0 .. 0 |-> b]
  <2>1. Recurs(0, S, b, step, f)  BY DEF Recurs
  <2>2. QED  BY <2>1
<1>2. ASSUME NEW k \in 0 .. n - 1, k \in T PROVE k + 1 \in T
  <2>1. PICK f : Recurs(k, S, b, step, f)  BY <1>2
  <2> DEFINE last == step[k + 1][f[k]]
             g == [i \in 0 .. k + 1 |-> IF i <= k THEN f[i] ELSE last]
  <2>2. k \in Nat /\ k + 1 \in 1 .. n /\ k + 1 \in 0 .. n /\ f[k] \in S  BY <2>1 DEF Recurs
  <2>3. last \in S  BY <2>2
  <2> HIDE DEF last
  <2>4. g \in [0 .. k + 1 -> S]  BY <2>1, <2>2, <2>3 DEF Recurs
  <2>5. g[k + 1] = last /\ \A i \in 0 .. k : g[i] = f[i]  BY <2>2
  <2>6. g[0] = b  BY <2>1, <2>2, <2>5 DEF Recurs
  <2> HIDE DEF g
  <2>7. ASSUME NEW i \in 1 .. k + 1 PROVE g[i] = step[i][g[i - 1]]
    <3>1. i - 1 \in 0 .. k /\ g[i - 1] = f[i - 1]
      <4>1. i - 1 \in 0 .. k  BY <2>2
      <4>2. QED  BY <2>5, <4>1
    <3>2. CASE i = k + 1  BY <2>2, <2>5, <3>1, <3>2 DEF last
    <3>3. CASE i # k + 1
      <4>1. i \in 1 .. k /\ i \in 0 .. k  BY <2>2, <3>3
      <4>2. QED  BY <2>1, <2>5, <3>1, <4>1 DEF Recurs
    <3>4. QED  BY <3>2, <3>3
  <2>8. Recurs(k + 1, S, b, step, g)  BY <2>4, <2>6, <2>7 DEF Recurs
  <2>9. QED  BY <2>2, <2>8
<1> HIDE DEF T
<1>3. 0 .. n \subseteq T  BY <1>1, <1>2, UpTo
<1>4. n \in T  BY <1>3
<1>5. QED  BY <1>4 DEF T

--------------------------------------------------------------------------------
(* Numbers.                                                                *)
LEMMA Largest ==
  ASSUME NEW a \in Int, NEW b \in Int
  PROVE  Max({a, b}) = IF a >= b THEN a ELSE b
BY DEF Max

(* A quotient rounded up covers the dividend, and one less does not.     *)
LEMMA CeilDivCovers ==
  ASSUME NEW a \in Nat, a > 0, NEW d \in Nat, d > 0
  PROVE  /\ CeilDiv(a, d) \in Nat /\ CeilDiv(a, d) >= 1
         /\ CeilDiv(a, d) * d >= a /\ (CeilDiv(a, d) - 1) * d < a
<1> DEFINE q == (a + d - 1) \div d
<1>1. q \in Int /\ d * q <= a + d - 1 /\ a + d - 1 < d * q + d  OBVIOUS
<1> HIDE DEF q
<1>2. q >= 1
  <2>1. CASE q <= 0
    <3>1. d * q <= 0  BY <1>1, <2>1
    <3>2. QED  BY <1>1, <3>1
  <2>2. QED  BY <1>1, <2>1
<1>3. q * d = d * q /\ (q - 1) * d = d * q - d  BY <1>1
<1>4. d * q \in Int  BY <1>1
<1>5. QED  BY <1>1, <1>2, <1>3, <1>4 DEF CeilDiv, q

(* FirstSet of two values, without its least index.                      *)
LEMMA FirstOfTwo ==
  ASSUME NEW blank, NEW a, NEW b
  PROVE  FirstSet(blank, <<a, b>>) = IF a # blank THEN a ELSE IF b # blank THEN b ELSE blank
<1> DEFINE v == <<a, b>>
           S == {i \in DOMAIN v : v[i] # blank}
<1>1. DOMAIN v = 1 .. 2 /\ v[1] = a /\ v[2] = b  OBVIOUS
<1>2. FirstSet(blank, v) = IF S = {} THEN blank ELSE v[Min(S)]  BY DEF FirstSet
<1> HIDE DEF v
<1>3. CASE a # blank
  <2>1. 1 \in S /\ \A i \in S : i \in Int /\ 1 <= i  BY <1>1, <1>3
  <2>2. Min(S) = 1  BY <2>1 DEF Min
  <2>3. QED  BY <1>1, <1>2, <1>3, <2>1, <2>2 DEF v
<1>4. CASE a = blank /\ b # blank
  <2>1. S = {2}  BY <1>1, <1>4
  <2>2. Min(S) = 2  BY <2>1 DEF Min
  <2>3. QED  BY <1>1, <1>2, <1>4, <2>1, <2>2 DEF v
<1>5. CASE a = blank /\ b = blank
  <2>1. S = {}  BY <1>1, <1>5
  <2>2. QED  BY <1>2, <1>5, <2>1 DEF v
<1>6. QED  BY <1>3, <1>4, <1>5

--------------------------------------------------------------------------------
(* Sequences.                                                              *)
LEMMA Joined ==
  ASSUME NEW S, NEW s \in Seq(S), NEW n \in Nat, NEW e \in [1 .. n -> S]
  PROVE  /\ s \o e \in Seq(S) /\ Len(s) \in Nat /\ Len(s \o e) = Len(s) + n
         /\ \A k \in 1 .. Len(s) : (s \o e)[k] = s[k]
         /\ \A k \in 1 .. n : (s \o e)[Len(s) + k] = e[k]
<1>1. e \in Seq(S) /\ Len(e) = n  BY DEF Seq
<1>2. QED  BY <1>1

--------------------------------------------------------------------------------
(* What a timeline lists.                                                  *)
Pieces(c, t) == {Piece(c, t, x.num, x.time, x.d) : x \in [num : Int, time : Int, d : Int]}
Lists(c, t) == [cur : Nat, num : Int, segs : Seq(Pieces(c, t))]
Cursor(s, acc) == IF s.t # None THEN s.t ELSE acc.cur
Count(c, s, acc) == Max({0, Repeats(s, Cursor(s, acc), c) + 1})

(* What time is to a context: a period that fits a word, and roundings.    *)
Timed(c) == c.dur \in Durations /\ c.rep.float \in Roundings
(* A word is longer than twice a period; a rounding is at most one.      *)
LEMMA TimedIs ==
  ASSUME NEW c, Timed(c)
  PROVE  /\ c.dur \in Nat /\ 2 * c.dur < Word
         /\ c.rep.float.end \in {0, 1} /\ c.rep.float.count \in {0, 1} /\ c.rep.float.edge \in {0, 1}
         /\ PeriodEnd(c) \in Int /\ PeriodEnd(c) <= c.dur
<1>1. c.dur \in Nat /\ 2 * c.dur < Word  BY DEF Timed, Durations
<1>2. c.rep.float.end \in {0, 1} /\ c.rep.float.count \in {0, 1} /\ c.rep.float.edge \in {0, 1}
  BY DEF Timed, Roundings
<1>3. QED  BY <1>1, <1>2 DEF PeriodEnd

(* A piece of a template has the number, the time and the length it is   *)
(* given.                                                                *)
LEMMA PieceIs ==
  ASSUME NEW c, NEW t, NEW num \in Int, NEW time \in Int, NEW d \in Int
  PROVE  LET p == Piece(c, t, num, time, d)
         IN p \in Pieces(c, t) /\ p.seq = num /\ p.dur = d /\ p.url.time = time
<1> DEFINE x == [num |-> num, time |-> time, d |-> d]
<1>1. x \in [num : Int, time : Int, d : Int] /\ x.num = num /\ x.time = time /\ x.d = d  OBVIOUS
<1> HIDE DEF x
<1>2. Piece(c, t, num, time, d) \in Pieces(c, t)  BY <1>1 DEF Pieces
<1>3. QED  BY <1>2 DEF Piece, BlankSegment

(* An S element begins at a natural number and counts a number of        *)
(* segments, one more than it repeats.                                   *)
LEMMA CountIs ==
  ASSUME NEW c, Timed(c), NEW t, NEW acc \in Lists(c, t), NEW s \in RunSet
  PROVE  /\ Cursor(s, acc) \in Nat /\ Count(c, s, acc) \in Nat
         /\ s.r >= 0 => Count(c, s, acc) = s.r + 1
<1>1. s.t \in Nat \cup {None} /\ s.d \in Nat /\ s.r \in Int /\ acc.cur \in Nat  BY DEF RunSet, Lists
<1>2. Cursor(s, acc) \in Nat  BY <1>1 DEF Cursor, None
<1> DEFINE cur == Cursor(s, acc)
<1> HIDE DEF cur
<1>3. ASSUME s.d > 0 PROVE Fitting(s, cur, c) \in Int
  <2>1. (PeriodEnd(c) - cur) % Word \in Int  BY <1>2, TimedIs, WordAssumption DEF cur
  <2>2. ((PeriodEnd(c) - cur) % Word) \div s.d \in Int  BY <1>1, <1>3, <2>1
  <2>3. QED  BY <2>2, WordAssumption DEF Fitting, Signed
<1>4. Repeats(s, cur, c) \in Int /\ (s.r >= 0 => Repeats(s, cur, c) = s.r)
  BY <1>1, <1>3 DEF Repeats
<1>5. Count(c, s, acc) = IF 0 >= Repeats(s, cur, c) + 1 THEN 0 ELSE Repeats(s, cur, c) + 1
  BY <1>4, Largest DEF Count, cur
<1>6. QED  BY <1>1, <1>2, <1>4, <1>5

(* new is acc and n segments of s, of which the first is at cur.           *)
Lengthened(acc, s, n, cur, new) ==
  LET l == Len(acc.segs)
  IN /\ new.cur = cur + n * s.d /\ new.num = acc.num + n
     /\ l \in Nat /\ Len(new.segs) = l + n
     /\ \A k \in 1 .. l : new.segs[k] = acc.segs[k]
     /\ \A k \in 1 .. n : /\ new.segs[l + k].seq = acc.num + k - 1
                          /\ new.segs[l + k].dur = s.d
                          /\ new.segs[l + k].url.time = cur + (k - 1) * s.d
(* An S element lengthens the list by its run.                           *)
LEMMA ElementIs ==
  ASSUME NEW c, Timed(c), NEW t, NEW acc \in Lists(c, t), NEW s \in RunSet
  PROVE  /\ Element(c, t, acc, s) \in Lists(c, t)
         /\ Lengthened(acc, s, Count(c, s, acc), Cursor(s, acc), Element(c, t, acc, s))
<1> DEFINE n == Count(c, s, acc)
           cur == Cursor(s, acc)
           P == Pieces(c, t)
           e == [i \in 1 .. n |-> Piece(c, t, acc.num + i - 1, cur + (i - 1) * s.d, s.d)]
           new == Element(c, t, acc, s)
<1>1. n \in Nat /\ cur \in Nat  BY CountIs
<1>2. acc.num \in Int /\ acc.segs \in Seq(P) /\ s.d \in Nat  BY DEF Lists, RunSet
<1>3. new = [cur |-> cur + n * s.d, num |-> acc.num + n, segs |-> acc.segs \o e]
  BY DEF Element, Count, Cursor
<1> HIDE DEF n, cur, P, new
<1>4. ASSUME NEW i \in 1 .. n
      PROVE  /\ e[i] \in P /\ e[i].seq = acc.num + i - 1 /\ e[i].dur = s.d
             /\ e[i].url.time = cur + (i - 1) * s.d
  <2>1. acc.num + i - 1 \in Int  BY <1>1, <1>2
  <2>2. (i - 1) * s.d \in Int  BY <1>1, <1>2
  <2>3. cur + (i - 1) * s.d \in Int  BY <1>1, <2>2
  <2>4. e[i] = Piece(c, t, acc.num + i - 1, cur + (i - 1) * s.d, s.d)  OBVIOUS
  <2> HIDE DEF e
  <2>5. QED  BY <1>2, <2>1, <2>3, <2>4, PieceIs DEF P
<1>5. e \in [1 .. n -> P]  BY <1>4
<1> HIDE DEF e
<1>6. /\ acc.segs \o e \in Seq(P) /\ Len(acc.segs) \in Nat /\ Len(acc.segs \o e) = Len(acc.segs) + n
      /\ \A k \in 1 .. Len(acc.segs) : (acc.segs \o e)[k] = acc.segs[k]
      /\ \A k \in 1 .. n : (acc.segs \o e)[Len(acc.segs) + k] = e[k]
  BY <1>1, <1>2, <1>5, Joined, SMTT(30)
<1>7. cur + n * s.d \in Nat /\ acc.num + n \in Int
  <2>1. n * s.d \in Nat  BY <1>1, <1>2
  <2>2. QED  BY <1>1, <1>2, <2>1
<1>8. new \in Lists(c, t)  BY <1>3, <1>6, <1>7 DEF Lists, P
<1>9. /\ new.cur = cur + n * s.d /\ new.num = acc.num + n
      /\ Len(acc.segs) \in Nat /\ Len(new.segs) = Len(acc.segs) + n
      /\ \A k \in 1 .. Len(acc.segs) : new.segs[k] = acc.segs[k]
  BY <1>3, <1>6
<1>10. ASSUME NEW k \in 1 .. n
       PROVE  /\ new.segs[Len(acc.segs) + k].seq = acc.num + k - 1
              /\ new.segs[Len(acc.segs) + k].dur = s.d
              /\ new.segs[Len(acc.segs) + k].url.time = cur + (k - 1) * s.d
  <2>1. new.segs[Len(acc.segs) + k] = e[k]  BY <1>3, <1>6
  <2>2. QED  BY <1>4, <2>1
<1>11. QED  BY <1>8, <1>9, <1>10 DEF Lengthened, n, cur, new

(* The steps of a recursion over the elements.                             *)
LEMMA AnnouncedIs ==
  ASSUME NEW runs \in Seq(RunSet)
  PROVE  /\ Announced(runs)[0] = 0
         /\ \A i \in 1 .. Len(runs) :
              Announced(runs)[i] = Announced(runs)[i - 1] + IF runs[i].r < 0 THEN 0 ELSE runs[i].r + 1
         /\ \A i \in 0 .. Len(runs) : Announced(runs)[i] \in Int
<1> DEFINE n == Len(runs)
           more(i) == IF runs[i].r < 0 THEN 0 ELSE runs[i].r + 1
           step == [i \in 1 .. n |-> [x \in Int |-> x + more(i)]]
           D(f) == [i \in 0 .. n |-> IF i = 0 THEN 0 ELSE f[i - 1] + more(i)]
           named == CHOOSE f : f = D(f)
<1>1. n \in Nat /\ \A i \in 1 .. n : more(i) \in Int
  <2>1. n \in Nat /\ \A i \in 1 .. n : runs[i] \in RunSet  OBVIOUS
  <2>2. \A i \in 1 .. n : runs[i].r \in Int
    <3> HIDE DEF n
    <3>1. QED  BY <2>1 DEF RunSet
  <2> HIDE DEF n
  <2>3. QED  BY <2>1, <2>2
<1>2. step \in [1 .. n -> [Int -> Int]]  BY <1>1
<1>3. Announced(runs) = named  BY DEF Announced
<1> HIDE DEF n, more
<1>4. PICK f : Recurs(n, Int, 0, step, f)
  <2> HIDE DEF step
  <2>1. n \in Nat /\ 0 \in Int  BY <1>1
  <2>2. QED  BY <1>2, <2>1, Recursion
<1>5. ASSUME NEW i \in 1 .. n PROVE f[i] = f[i - 1] + more(i) /\ f[i - 1] \in Int
  <2>1. i - 1 \in 0 .. n  BY <1>1
  <2>2. f[i - 1] \in Int /\ f[i] = step[i][f[i - 1]]  BY <1>4, <2>1 DEF Recurs
  <2>3. QED  BY <2>2
<1> HIDE DEF step
<1>6. f = D(f)
  <2>1. f = [i \in 0 .. n |-> f[i]] /\ f[0] = 0  BY <1>4 DEF Recurs
  <2>2. ASSUME NEW i \in 0 .. n PROVE f[i] = D(f)[i]
    <3>1. CASE i = 0  BY <2>1, <3>1
    <3>2. CASE i # 0
      <4>1. i \in 1 .. n  BY <1>1, <3>2
      <4>2. QED  BY <1>5, <3>2, <4>1
    <3>3. QED  BY <3>1, <3>2
  <2>3. QED  BY <2>1, <2>2
<1>7. named = D(named)  BY <1>6
<1> HIDE DEF named
<1>8. named[0] = 0 /\ \A i \in 1 .. n : named[i] = named[i - 1] + more(i)
  <2>1. 0 \in 0 .. n /\ \A i \in 1 .. n : i \in 0 .. n /\ i # 0  BY <1>1
  <2>2. QED  BY <1>7, <2>1
<1>9. \A i \in 0 .. n : named[i] \in Int
  <2> DEFINE T == {i \in 0 .. n : named[i] \in Int}
  <2>1. 0 \in T  BY <1>1, <1>8
  <2>2. ASSUME NEW k \in 0 .. n - 1, k \in T PROVE k + 1 \in T
    <3>1. k + 1 \in 1 .. n /\ (k + 1) - 1 = k /\ k + 1 \in 0 .. n  BY <1>1
    <3>2. QED  BY <1>1, <1>8, <2>2, <3>1
  <2> HIDE DEF T
  <2>3. 0 .. n \subseteq T  BY <1>1, <2>1, <2>2, UpTo
  <2>4. QED  BY <2>3 DEF T
<1>10. QED  BY <1>3, <1>8, <1>9 DEF n, more

(* The list f walks through the elements of t, from start.                 *)
Walks(c, t, start, f) ==
  /\ f[0] = [cur |-> 0, num |-> start, segs |-> <<>>]
  /\ \A i \in 1 .. Len(t.timeline) : f[i] = Element(c, t, f[i - 1], t.timeline[i])
  /\ \A i \in 0 .. Len(t.timeline) : f[i] \in Lists(c, t)

(* FromTimeline walks the S elements one after another.                  *)
LEMMA FromTimelineWalks ==
  ASSUME NEW c, Timed(c), NEW t, t.timeline \in Seq(RunSet), NEW start \in Int
  PROVE  \E f : Walks(c, t, start, f) /\ FromTimeline(c, t, start) = f[Len(t.timeline)].segs
<1> DEFINE n == Len(t.timeline)
           L == Lists(c, t)
           b == [cur |-> 0, num |-> start, segs |-> <<>>]
           more(i, x) == Element(c, t, x, t.timeline[i])
           step == [i \in 1 .. n |-> [x \in L |-> more(i, x)]]
           D(f) == [i \in 0 .. n |-> IF i = 0 THEN b ELSE more(i, f[i - 1])]
           upTo == CHOOSE f : f = D(f)
<1>1. n \in Nat /\ \A i \in 1 .. n : t.timeline[i] \in RunSet  OBVIOUS
<1>2. b \in L  BY DEF Lists
<1>3. \A i \in 1 .. n, x \in L : more(i, x) \in L  BY <1>1, ElementIs
<1>4. FromTimeline(c, t, start) = upTo[n].segs  BY DEF FromTimeline
<1> HIDE DEF n, more, b, L
<1>5. step \in [1 .. n -> [L -> L]]  BY <1>3
<1>6. PICK f : Recurs(n, L, b, step, f)
  <2> HIDE DEF step
  <2>1. n \in Nat  BY <1>1
  <2>2. QED  BY <1>2, <1>5, <2>1, Recursion
<1>7. ASSUME NEW i \in 1 .. n PROVE f[i] = more(i, f[i - 1])
  <2>1. i - 1 \in 0 .. n  BY <1>1
  <2>2. f[i - 1] \in L /\ f[i] = step[i][f[i - 1]]  BY <1>6, <2>1 DEF Recurs
  <2>3. QED  BY <2>2
<1> HIDE DEF step
<1>8. f[0] = b /\ \A i \in 0 .. n : f[i] \in L  BY <1>6 DEF Recurs
<1>9. f = D(f)
  <2>1. f = [i \in 0 .. n |-> f[i]]  BY <1>6 DEF Recurs
  <2>2. ASSUME NEW i \in 0 .. n PROVE f[i] = D(f)[i]
    <3>1. CASE i = 0  BY <1>8, <3>1
    <3>2. CASE i # 0
      <4>1. i \in 1 .. n  BY <1>1, <3>2
      <4>2. QED  BY <1>7, <3>2, <4>1
    <3>3. QED  BY <3>1, <3>2
  <2>3. QED  BY <2>1, <2>2
<1>10. upTo = D(upTo)  BY <1>9
<1> HIDE DEF upTo
<1>11. upTo[0] = b /\ \A i \in 1 .. n : upTo[i] = more(i, upTo[i - 1])
  <2>1. 0 \in 0 .. n /\ \A i \in 1 .. n : i \in 0 .. n /\ i # 0  BY <1>1
  <2>2. QED  BY <1>10, <2>1
<1>12. \A i \in 0 .. n : upTo[i] \in L
  <2> DEFINE T == {i \in 0 .. n : upTo[i] \in L}
  <2>1. 0 \in T  BY <1>1, <1>2, <1>11
  <2>2. ASSUME NEW k \in 0 .. n - 1, k \in T PROVE k + 1 \in T
    <3>1. k + 1 \in 1 .. n /\ (k + 1) - 1 = k /\ k + 1 \in 0 .. n  BY <1>1
    <3>2. QED  BY <1>3, <1>11, <2>2, <3>1
  <2> HIDE DEF T
  <2>3. 0 .. n \subseteq T  BY <1>1, <2>1, <2>2, UpTo
  <2>4. QED  BY <2>3 DEF T
<1>13. Walks(c, t, start, upTo)  BY <1>11, <1>12 DEF Walks, n, L, b, more
<1>14. QED  BY <1>4, <1>13 DEF n

(* After i elements: numbered on, joined or placed, and as many as were    *)
(* announced.                                                              *)
Chained(segs, placed) ==
  \A k \in 2 .. Len(segs) : segs[k].url.time = End(segs[k - 1]) \/ segs[k].url.time \in placed
PlacedBy(t) == {t.timeline[i].t : i \in DOMAIN t.timeline}
WalkInv(t, start, i, acc) ==
  /\ acc.num = start + Len(acc.segs)
  /\ \A k \in 1 .. Len(acc.segs) : acc.segs[k].seq = start + k - 1
  /\ Chained(acc.segs, PlacedBy(t))
  /\ Len(acc.segs) > 0 => acc.cur = End(acc.segs[Len(acc.segs)]) \/ acc.cur \in PlacedBy(t)
  /\ (\A j \in 1 .. i : t.timeline[j].r >= 0) =>
       /\ Len(acc.segs) = Announced(t.timeline)[i]
       /\ acc.cur = IF Len(acc.segs) = 0 THEN 0 ELSE End(acc.segs[Len(acc.segs)])

(* One S element more keeps what is known of the list so far.            *)
LEMMA WalkStep ==
  ASSUME NEW c, Timed(c), NEW t, t.timeline \in Seq(RunSet), NEW start \in Int,
         NEW i \in 1 .. Len(t.timeline), NEW acc \in Lists(c, t), WalkInv(t, start, i - 1, acc)
  PROVE  WalkInv(t, start, i, Element(c, t, acc, t.timeline[i]))
<1> DEFINE s == t.timeline[i]
           new == Element(c, t, acc, s)
           n == Count(c, s, acc)
           cur == Cursor(s, acc)
           l == Len(acc.segs)
<1>1. s \in RunSet /\ i \in Nat  OBVIOUS
<1>2. n \in Nat /\ cur \in Nat /\ (s.r >= 0 => n = s.r + 1)  BY <1>1, CountIs, SMTT(30)
<1>3. /\ new.cur = cur + n * s.d /\ new.num = acc.num + n
      /\ l \in Nat /\ Len(new.segs) = l + n
      /\ \A k \in 1 .. l : new.segs[k] = acc.segs[k]
      /\ \A k \in 1 .. n : /\ new.segs[l + k].seq = acc.num + k - 1
                           /\ new.segs[l + k].dur = s.d
                           /\ new.segs[l + k].url.time = cur + (k - 1) * s.d
  <2> HIDE DEF s
  <2>1. Lengthened(acc, s, n, cur, new)  BY <1>1, ElementIs
  <2> HIDE DEF n, cur, new
  <2>2. QED  BY <2>1 DEF Lengthened, l
<1>4. s.d \in Nat /\ s.r \in Int /\ acc.cur \in Nat  BY <1>1 DEF RunSet, Lists
<1> HIDE DEF s, new, n, cur, l
<1> DEFINE m == Len(new.segs)
<1>sum. l \in Nat /\ n \in Nat /\ m = l + n  BY <1>2, <1>3
<1>num. acc.num = start + l  BY DEF WalkInv, l
<1> HIDE DEF m
<1>5. new.num = start + Len(new.segs)  BY <1>2, <1>3 DEF WalkInv, l
<1>6. ASSUME NEW k \in 1 .. Len(new.segs) PROVE new.segs[k].seq = start + k - 1
  <2>1. CASE k <= l
    <3>1. k \in 1 .. l  BY <2>1, <1>3
    <3>2. QED  BY <1>3, <3>1 DEF WalkInv, l
  <2>2. CASE k > l
    <3>1. k - l \in 1 .. n /\ l + (k - l) = k  BY <1>2, <1>3, <2>2
    <3>2. new.segs[k].seq = acc.num + (k - l) - 1  BY <1>3, <3>1
    <3>3. k \in Int /\ l \in Int  BY <1>sum
    <3>4. QED  BY <1>num, <3>2, <3>3
  <2>3. QED  BY <1>2, <1>3, <2>1, <2>2
<1>7. ASSUME NEW k \in 1 .. n PROVE End(new.segs[l + k]) = cur + k * s.d
  <2>1. new.segs[l + k].dur = s.d /\ new.segs[l + k].url.time = cur + (k - 1) * s.d  BY <1>3
  <2>2. (k - 1) * s.d + s.d = k * s.d /\ (k - 1) * s.d \in Int /\ k * s.d \in Int  BY <1>2, <1>4
  <2>3. QED  BY <1>2, <1>4, <2>1, <2>2 DEF End
<1>8. n > 0 => new.cur = End(new.segs[Len(new.segs)])
  <2>1. n > 0 => n \in 1 .. n  BY <1>2
  <2>2. QED  BY <1>3, <1>7, <2>1
<1>none. n = 0 => new.cur = cur /\ Len(new.segs) = l /\ \A k \in 1 .. l : new.segs[k] = acc.segs[k]
  <2>1. n = 0 => n * s.d = 0  BY <1>4
  <2>2. QED  BY <1>2, <1>3, <2>1
<1>put. cur = acc.cur \/ cur \in PlacedBy(t)  BY DEF cur, Cursor, PlacedBy, s
<1>end. Len(new.segs) > 0 => new.cur = End(new.segs[Len(new.segs)]) \/ new.cur \in PlacedBy(t)
  <2>1. CASE n > 0  BY <1>8, <2>1
  <2>2. CASE n = 0
    <3>1. l > 0 => l \in 1 .. l  BY <1>3
    <3>2. QED  BY <1>none, <1>put, <2>2, <3>1 DEF WalkInv, l
  <2>3. QED  BY <1>2, <2>1, <2>2
<1>9. ASSUME NEW k \in 2 .. Len(new.segs)
      PROVE  new.segs[k].url.time = End(new.segs[k - 1]) \/ new.segs[k].url.time \in PlacedBy(t)
  <2>1. CASE k <= l
    <3>1. k \in 2 .. l /\ k \in 1 .. l /\ k - 1 \in 1 .. l  BY <2>1, <1>3
    <3>2. QED  BY <1>3, <3>1 DEF WalkInv, Chained, l
  <2>2. CASE k = l + 1
    <3>1. 1 \in 1 .. n /\ l \in 1 .. l /\ l > 0  BY <1>2, <1>3, <2>2
    <3>2. new.segs[k].url.time = cur
      <4>1. new.segs[l + 1].url.time = cur + (1 - 1) * s.d  BY <1>3, <3>1
      <4>2. (1 - 1) * s.d = 0  BY <1>4
      <4>3. QED  BY <1>2, <2>2, <4>1, <4>2
    <3>3. new.segs[k - 1] = acc.segs[l]  BY <1>3, <2>2, <3>1
    <3>4. QED  BY <1>put, <3>1, <3>2, <3>3 DEF WalkInv, l
  <2>3. CASE k > l + 1
    <3>1. /\ k - l \in 1 .. n /\ l + (k - l) = k
          /\ k - 1 - l \in 1 .. n /\ l + (k - 1 - l) = k - 1
      <4>1. k \in 2 .. m  BY DEF m
      <4>2. QED  BY <1>sum, <2>3, <4>1
    <3>2. new.segs[k].url.time = cur + ((k - l) - 1) * s.d  BY <1>3, <3>1
    <3>3. End(new.segs[k - 1]) = cur + (k - 1 - l) * s.d  BY <1>7, <3>1
    <3>4. (k - l) - 1 = k - 1 - l  BY <1>3
    <3>5. QED  BY <3>2, <3>3, <3>4
  <2>4. QED  BY <1>2, <1>3, <2>1, <2>2, <2>3
<1>10. ASSUME \A j \in 1 .. i : t.timeline[j].r >= 0
       PROVE  /\ Len(new.segs) = Announced(t.timeline)[i]
              /\ new.cur = IF Len(new.segs) = 0 THEN 0 ELSE End(new.segs[Len(new.segs)])
  <2>1. s.r >= 0 /\ ~(s.r < 0)  BY <1>1, <1>4, <1>10 DEF s
  <2>2. \A j \in 1 .. i - 1 : t.timeline[j].r >= 0  BY <1>1, <1>10
  <2>3. l = Announced(t.timeline)[i - 1]  BY <2>2 DEF WalkInv, l
  <2>4. Announced(t.timeline)[i] = Announced(t.timeline)[i - 1] + (s.r + 1)  BY <2>1, AnnouncedIs DEF s
  <2>5. n > 0 /\ Len(new.segs) > 0  BY <1>2, <1>3, <1>4, <2>1
  <2>6. QED  BY <1>2, <1>3, <1>8, <2>1, <2>3, <2>4, <2>5
<1>11. QED  BY <1>5, <1>6, <1>end, <1>9, <1>10 DEF WalkInv, Chained, new, s

(* An open run that begins before the end stops where the next segment     *)
(* would leave the period.                                                 *)
LEMMA OpenRunFits ==
  ASSUME NEW c, Timed(c), c.dur > 0, NEW s \in RunSet, s.r < 0, s.d > 0,
         NEW cur \in Nat, cur <= PeriodEnd(c), NEW n, n = Max({0, Repeats(s, cur, c) + 1})
  PROVE  /\ n \in Nat /\ n > 0 /\ cur + n * s.d + s.d > PeriodEnd(c)
         /\ n > 1 => cur + n * s.d <= PeriodEnd(c)
<1> DEFINE q == Fitting(s, cur, c)
           end == PeriodEnd(c)
           x == (end - cur) \div s.d
<1>1. s.d \in Nat /\ s.r \in Int  BY DEF RunSet
<1>2. end \in Nat /\ end - cur \in Nat /\ 2 * (end - cur) < Word /\ end - cur < Word
  BY TimedIs, WordAssumption
<1>3. (end - cur) % Word = end - cur
  <2> DEFINE y == end - cur
  <2>1. y \in Nat /\ y < Word  BY <1>2
  <2> HIDE DEF y
  <2>2. y % Word = y  BY <2>1, WordAssumption
  <2>3. QED  BY <2>2 DEF y
<1>4. q = Signed(x)  BY <1>3 DEF Fitting
<1> HIDE DEF end, x
<1>5. x \in Nat /\ s.d * x <= end - cur /\ end - cur < s.d * x + s.d  BY <1>1, <1>2 DEF x
<1>6. x <= end - cur
  <2>1. x <= s.d * x /\ s.d * x \in Int  BY <1>1, <1>5
  <2>2. QED  BY <1>2, <1>5, <2>1
<1>8. Repeats(s, cur, c) = IF q > 0 THEN q - 1 ELSE q  BY <1>1 DEF Repeats
<1> HIDE DEF q
<1>7. q = x
  <2>1. 2 * x <= 2 * (end - cur)  BY <1>2, <1>5, <1>6
  <2>2. 2 * x < Word  BY <1>2, <1>5, <2>1, WordAssumption
  <2>3. QED  BY <1>4, <2>2 DEF Signed
<1>9. n = IF q > 0 THEN q ELSE 1
  <2> DEFINE z == Repeats(s, cur, c) + 1
  <2>1. z \in Int /\ z > 0  BY <1>5, <1>7, <1>8
  <2> HIDE DEF z
  <2>a. Max({0, z}) = z  BY <2>1, Largest
  <2>2. n = Repeats(s, cur, c) + 1  BY <2>a DEF z
  <2>3. q \in Nat  BY <1>5, <1>7
  <2>4. CASE q > 0
    <3>1. Repeats(s, cur, c) = q - 1  BY <1>8, <2>4
    <3>2. QED  BY <2>2, <2>3, <2>4, <3>1
  <2>5. CASE q = 0
    <3>1. Repeats(s, cur, c) = 0  BY <1>8, <2>5
    <3>2. QED  BY <2>2, <2>5, <3>1
  <2>6. QED  BY <2>3, <2>4, <2>5
<1>10. CASE q > 0
  <2>1. n = x /\ n \in Nat /\ n > 0  BY <1>5, <1>7, <1>9, <1>10
  <2>2. n * s.d = s.d * x /\ s.d * x \in Nat  BY <1>1, <1>5, <2>1
  <2>3. cur + s.d * x <= end /\ end < cur + s.d * x + s.d  BY <1>1, <1>2, <1>5, <2>2
  <2>4. QED  BY <1>1, <1>2, <2>1, <2>2, <2>3 DEF end
<1>11. CASE q = 0
  <2>1. n = 1  BY <1>9, <1>11
  <2>2. n * s.d = s.d /\ s.d * x = 0  BY <1>1, <1>7, <1>11, <2>1
  <2>3. end - cur < s.d  BY <1>1, <1>2, <1>5, <2>2
  <2>4. cur + s.d + s.d > end  BY <1>1, <1>2, <2>3
  <2>5. QED  BY <2>1, <2>2, <2>4 DEF end
<1>12. QED  BY <1>5, <1>7, <1>10, <1>11

(* A timeline gives a list that fits it.                                 *)
LEMMA TimelineListed ==
  ASSUME NEW c, Timed(c), NEW t, t.timeline \in Seq(RunSet), t.timeline # <<>>,
         NEW start \in Int, NEW segs, segs = FromTimeline(c, t, start)
  PROVE  /\ segs \in Seq(Pieces(c, t))
         /\ \A k \in 1 .. Len(segs) : segs[k].seq = start + k - 1
         /\ TimelineFits(c, t, segs)
<1> DEFINE n == Len(t.timeline)
           s == t.timeline[n]
<1>1. n \in Nat /\ n > 0 /\ \A i \in 1 .. n : t.timeline[i] \in RunSet  OBVIOUS
<1>2. PICK f : Walks(c, t, start, f) /\ segs = f[n].segs  BY FromTimelineWalks
<1>3. ASSUME NEW i \in 0 .. n PROVE f[i] \in Lists(c, t)  BY <1>2 DEF Walks
<1> DEFINE T == {i \in 0 .. n : WalkInv(t, start, i, f[i])}
<1>4. 0 \in T
  <2>1. f[0].num = start /\ f[0].segs = <<>> /\ f[0].cur = 0  BY <1>2 DEF Walks
  <2>2. Announced(t.timeline)[0] = 0  BY AnnouncedIs
  <2>3. QED  BY <1>1, <2>1, <2>2 DEF WalkInv, Chained
<1>5. ASSUME NEW i \in 0 .. n - 1, i \in T PROVE i + 1 \in T
  <2>1. i + 1 \in 1 .. n /\ (i + 1) - 1 = i /\ i + 1 \in 0 .. n /\ i \in 0 .. n  BY <1>1
  <2>2. f[i + 1] = Element(c, t, f[i], t.timeline[i + 1])  BY <1>2, <2>1 DEF Walks
  <2>3. f[i] \in Lists(c, t)  BY <1>3, <2>1
  <2>4. WalkInv(t, start, (i + 1) - 1, f[i])  BY <1>5, <2>1
  <2>5. WalkInv(t, start, i + 1, f[i + 1])  BY <2>1, <2>2, <2>3, <2>4, WalkStep
  <2>6. QED  BY <2>1, <2>5
<1> HIDE DEF T
<1>6. 0 .. n \subseteq T  BY <1>1, <1>4, <1>5, UpTo
<1>7. \A i \in 0 .. n : WalkInv(t, start, i, f[i])  BY <1>6 DEF T
<1>8. n \in 0 .. n /\ n - 1 \in 0 .. n /\ n \in 1 .. n  BY <1>1
<1>9. segs \in Seq(Pieces(c, t))  BY <1>2, <1>3, <1>8 DEF Lists
<1>10. WalkInv(t, start, n, f[n]) /\ WalkInv(t, start, n - 1, f[n - 1])  BY <1>7, <1>8
<1> DEFINE before == f[n - 1]
           l == Len(before.segs)
           m == Count(c, s, before)
           cur == Cursor(s, before)
<1>11. before \in Lists(c, t) /\ s \in RunSet  BY <1>1, <1>3, <1>8
<1>12. f[n] = Element(c, t, before, s)  BY <1>2, <1>8 DEF Walks
<1>13. Lengthened(before, s, m, cur, f[n])  BY <1>11, <1>12, ElementIs
<1>14. m \in Nat /\ cur \in Nat  BY <1>11, CountIs
<1>15. s.d \in Nat /\ s.r \in Int  BY <1>11 DEF RunSet
<1>16. l \in Nat /\ Len(segs) = l + m
  BY <1>2, <1>13 DEF Lengthened
<1>17. \A k \in 1 .. m : segs[l + k].dur = s.d /\ segs[l + k].url.time = cur + (k - 1) * s.d
  BY <1>2, <1>13 DEF Lengthened
<1> DEFINE early == \E i \in 1 .. n - 1 : t.timeline[i].r < 0
           named == Announced(t.timeline)[n]
<1> HIDE DEF m, cur
<1>18. ASSUME s.r >= 0, ~early PROVE Len(segs) = named
  <2>1. \A j \in 1 .. n : t.timeline[j].r \in Int /\ (j = n \/ j \in 1 .. n - 1)
    <3>1. \A j \in 1 .. n : j = n \/ j \in 1 .. n - 1  BY <1>1
    <3> HIDE DEF n
    <3>2. QED  BY <1>1, <3>1 DEF RunSet
  <2>2. \A j \in 1 .. n : t.timeline[j].r >= 0  BY <1>18, <2>1
  <2>3. QED  BY <1>2, <1>10, <2>2 DEF WalkInv
<1> DEFINE last == segs[named]
           begins == IF s.t # None THEN s.t ELSE IF named = 0 THEN 0 ELSE End(last)
<1> HIDE DEF begins
<1>19. ASSUME s.r < 0, ~early PROVE l = named /\ cur = begins
  <2>1. \A j \in 1 .. n - 1 : t.timeline[j].r \in Int
    <3>1. \A j \in 1 .. n - 1 : j \in 1 .. n  BY <1>1
    <3> HIDE DEF n
    <3>2. QED  BY <1>1, <3>1 DEF RunSet
  <2>2. \A j \in 1 .. n - 1 : t.timeline[j].r >= 0  BY <1>19, <2>1
  <2>3. /\ l = Announced(t.timeline)[n - 1]
        /\ before.cur = IF l = 0 THEN 0 ELSE End(before.segs[l])
    BY <1>10, <2>2 DEF WalkInv
  <2>4. named = Announced(t.timeline)[n - 1] + 0  BY <1>8, <1>19, AnnouncedIs
  <2>5. l = named  BY <1>16, <2>3, <2>4
  <2>6. l # 0 => segs[l] = before.segs[l]
    <3>1. l # 0 => l \in 1 .. l  BY <1>16
    <3>2. QED  BY <1>2, <1>13, <3>1 DEF Lengthened
  <2>7. QED  BY <2>3, <2>5, <2>6 DEF begins, cur, Cursor
<1>20. ASSUME s.r < 0, ~early, s.d > 0, c.dur > 0, begins <= PeriodEnd(c)
       PROVE  /\ Len(segs) > named
              /\ End(segs[Len(segs)]) + segs[Len(segs)].dur > PeriodEnd(c)
              /\ Len(segs) > named + 1 => End(segs[Len(segs)]) <= c.dur
  <2>1. l = named /\ cur <= PeriodEnd(c)  BY <1>19, <1>20
  <2>2. m = Max({0, Repeats(s, cur, c) + 1})  BY DEF m, cur, Count
  <2>3. /\ m > 0 /\ cur + m * s.d + s.d > PeriodEnd(c)
        /\ m > 1 => cur + m * s.d <= PeriodEnd(c)
    <3> HIDE DEF s
    <3>1. QED  BY <1>11, <1>14, <1>20, <2>1, <2>2, OpenRunFits
  <2>4. segs[l + m].dur = s.d /\ segs[l + m].url.time = cur + (m - 1) * s.d
    <3>1. m \in 1 .. m  BY <1>14, <2>3
    <3>2. QED  BY <1>17, <3>1
  <2>5. (m - 1) * s.d + s.d = m * s.d /\ (m - 1) * s.d \in Int /\ m * s.d \in Int  BY <1>14, <1>15, SMTT(30)
  <2>6. End(segs[l + m]) = cur + m * s.d  BY <1>14, <1>15, <2>4, <2>5, SMTT(30) DEF End
  <2>7. Len(segs) > named /\ (Len(segs) > named + 1 => m > 1)  BY <1>14, <1>16, <2>1, <2>3
  <2>8. cur + m * s.d <= PeriodEnd(c) => cur + m * s.d <= c.dur  BY <1>14, <2>5, TimedIs
  <2>9. QED  BY <1>16, <2>3, <2>4, <2>6, <2>7, <2>8
<1>21. Chained(segs, PlacedBy(t))  BY <1>2, <1>10 DEF WalkInv
<1>22. TimelineFits(c, t, segs)
  <2>1. s.r < 0 \/ s.r >= 0  BY <1>15
  <2>2. QED  BY <1>15, <1>18, <1>20, <1>21 DEF TimelineFits, Chained, PlacedBy, begins
<1>23. QED  BY <1>1, <1>2, <1>9, <1>10, <1>22 DEF WalkInv

--------------------------------------------------------------------------------
(* What numbers list.                                                      *)
LEMMA NumbersListed ==
  ASSUME NEW c, NEW t, t.d \in Nat, NEW first \in Int, NEW count \in Nat,
         NEW segs, segs = Numbers(c, t, first, count)
  PROVE  Len(segs) = count /\ DOMAIN segs = 1 .. count /\ \A k \in 1 .. count : segs[k].seq = first + k - 1
<1>1. ASSUME NEW i \in 1 .. count
      PROVE  segs[i] \in Pieces(c, t) /\ segs[i].seq = first + i - 1
  <2>1. first + i - 1 \in Int /\ (i - 1) * t.d \in Int  OBVIOUS
  <2>2. segs[i] = Piece(c, t, first + i - 1, (i - 1) * t.d, t.d)  BY DEF Numbers
  <2>3. QED  BY <2>1, <2>2, PieceIs
<1>2. segs = [i \in 1 .. count |-> segs[i]]  BY DEF Numbers
<1>3. segs \in [1 .. count -> Pieces(c, t)]  BY <1>1, <1>2
<1>4. segs \in Seq(Pieces(c, t)) /\ Len(segs) = count  BY <1>3 DEF Seq
<1>5. QED  BY <1>1, <1>2, <1>4

(* A span is covered by as many segments as it takes, or by one more       *)
(* where it is a whole number of them.                                     *)
LEMMA CoveringIs ==
  ASSUME NEW c, Timed(c), NEW t, t.d \in Nat, t.d > 0, NEW span \in Nat, span > 0
  PROVE  LET count == Covering(c, t, span)
         IN /\ count \in Nat /\ count >= 1 /\ count * t.d >= span
            /\ (count - 1) * t.d < span + c.rep.float.count
<1> DEFINE k == CeilDiv(span, t.d)
           w == Whole(span, t.d, c.rep.float.count)
           d == t.d
<1>1. k \in Nat /\ k >= 1 /\ k * d >= span /\ (k - 1) * d < span  BY CeilDivCovers
<1>2. c.rep.float.count \in {0, 1}  BY TimedIs
<1>3. w \in {0, c.rep.float.count} /\ (w = 1 => span % d = 0)  BY <1>2 DEF Whole
<1>4. Covering(c, t, span) = k + w  BY DEF Covering
<1>6. d \in Nat /\ d > 0  OBVIOUS
<1> HIDE DEF k, w, d
<1>5. ASSUME span % d = 0 PROVE k * d = span
  <2> DEFINE v == span \div d
             r == span % d
  <2>1. v \in Nat /\ span = d * v + r /\ r = 0  BY <1>5, <1>6
  <2> HIDE DEF v, r
  <2>2. d * v \in Nat  BY <1>6, <2>1
  <2>3. span = d * v  BY <2>1, <2>2
  <2>4. k \in Nat /\ k * d >= d * v /\ (k - 1) * d < d * v  BY <1>1, <2>3
  <2>5. ASSUME k < v PROVE FALSE
    <3>1. k * d < d * v  BY <1>6, <2>1, <2>4, <2>5
    <3>2. QED  BY <1>6, <2>2, <2>4, <3>1
  <2>6. ASSUME k - 1 >= v PROVE FALSE
    <3>1. (k - 1) * d >= d * v  BY <1>6, <2>1, <2>4, <2>6
    <3>2. QED  BY <1>6, <2>2, <2>4, <3>1
  <2>7. k = v  BY <2>1, <2>4, <2>5, <2>6
  <2>8. QED  BY <1>6, <2>1, <2>3, <2>7
<1>w. w = 0 \/ w = 1  BY <1>2, <1>3
<1>7. CASE w = 0  BY <1>1, <1>2, <1>4, <1>7 DEF d
<1>8. CASE w = 1
  <2>1. k * d = span /\ c.rep.float.count = 1  BY <1>2, <1>3, <1>5, <1>8
  <2>2. (k + 1) * d >= k * d  BY <1>1, <1>6
  <2>3. k + 1 - 1 = k /\ k + 1 \in Nat /\ k + 1 >= 1  BY <1>1
  <2>4. Covering(c, t, span) = k + 1  BY <1>4, <1>8
  <2>5. (k + 1) * d >= span  BY <2>1, <2>2
  <2>7. Covering(c, t, span) \in Nat /\ Covering(c, t, span) >= 1  BY <2>3, <2>4
  <2>8. Covering(c, t, span) * d >= span  BY <2>4, <2>5
  <2>9. (Covering(c, t, span) - 1) * d < span + c.rep.float.count
    <3>1. Covering(c, t, span) - 1 = k  BY <1>1, <2>4
    <3>2. span < span + c.rep.float.count  BY <2>1
    <3>3. QED  BY <2>1, <3>1, <3>2
  <2>10. QED  BY <2>7, <2>8, <2>9 DEF d
<1>9. QED  BY <1>w, <1>7, <1>8

(* The live edge is a whole number of segments, and at most one short.   *)
LEMMA CompleteIs ==
  ASSUME NEW c, Timed(c), c.elapsed \in Int, c.start \in Nat, NEW t, t.d \in Nat, t.d > 0
  PROVE  LET q == (c.elapsed - c.start) \div t.d
         IN q \in Int /\ Complete(c, t) \in Int /\ q - Complete(c, t) \in 0 .. c.rep.float.edge
<1> DEFINE E == c.elapsed - c.start
           q == E \div t.d
<1>1. E \in Int  OBVIOUS
<1> HIDE DEF E
<1>2. q \in Int  BY <1>1
<1>3. Complete(c, t) = q - Whole(E, t.d, c.rep.float.edge)  BY DEF Complete, E
<1>4. Whole(E, t.d, c.rep.float.edge) \in {0, c.rep.float.edge} /\ c.rep.float.edge \in {0, 1}
  BY TimedIs DEF Whole
<1> HIDE DEF q
<1>5. Complete(c, t) \in Int /\ q - Complete(c, t) \in 0 .. c.rep.float.edge  BY <1>2, <1>3, <1>4
<1>6. QED  BY <1>2, <1>5 DEF q, E

(* The window ends with the newest complete segment once there are         *)
(* enough, or with the one before it when the edge was rounded down.       *)
LEMMA EdgeFits ==
  ASSUME NEW c, Timed(c), c.window \in Nat, c.elapsed \in Int, c.start \in Nat,
         NEW t, t.d \in Nat, t.d > 0, NEW first \in Int,
         NEW count \in Nat, count >= 1, count = Covering(c, t, LiveWindow(c)), c.elapsed # None
  PROVE  LET complete == {n \in first .. first + c.elapsed : (n - first + 1) * t.d <= c.elapsed - c.start}
         IN Cardinality(complete) >= count =>
              Max(complete) - (first + Behind(c, t) + count - 1) \in 0 .. c.rep.float.edge
<1> DEFINE d == t.d
           E == c.elapsed - c.start
           complete == {n \in first .. first + c.elapsed : (n - first + 1) * d <= E}
           q == E \div d
<1>1. d \in Nat /\ d > 0 /\ E \in Int /\ E <= c.elapsed /\ c.elapsed \in Int  OBVIOUS
<1>2. q \in Int /\ d * q <= E /\ E < d * q + d  BY <1>1
<1> HIDE DEF d, E, q
<1>3. ASSUME NEW j \in Int PROVE j * d <= E <=> j <= q
  <2>1. ASSUME j <= q PROVE j * d <= E
    <3>1. j * d <= q * d  BY <1>1, <1>2, <2>1
    <3>2. QED  BY <1>1, <1>2, <3>1
  <2>2. ASSUME j >= q + 1 PROVE j * d > E
    <3>1. j * d >= (q + 1) * d  BY <1>1, <1>2, <2>2
    <3>2. (q + 1) * d = d * q + d /\ d * q \in Int /\ j * d \in Int  BY <1>1, <1>2
    <3>3. QED  BY <1>1, <1>2, <3>1, <3>2
  <2>3. j * d \in Int  BY <1>1
  <2>4. QED  BY <1>1, <1>2, <2>1, <2>2, <2>3
<1>4. q >= 1 => q <= E
  <2>1. ASSUME q >= 1 PROVE q <= d * q  BY <1>1, <1>2, <2>1
  <2>2. d * q \in Int  BY <1>1, <1>2
  <2>3. QED  BY <1>1, <1>2, <2>1, <2>2
<1>5. complete = first .. first + q - 1
  <2>1. ASSUME NEW n \in complete PROVE n \in first .. first + q - 1
    <3>1. n \in Int /\ n - first + 1 \in Int /\ (n - first + 1) * d <= E /\ n >= first  OBVIOUS
    <3>2. n - first + 1 <= q  BY <1>3, <3>1
    <3>3. QED  BY <1>2, <3>1, <3>2
  <2>2. ASSUME NEW n \in first .. first + q - 1 PROVE n \in complete
    <3>1. n \in Int /\ n >= first /\ n - first + 1 \in Int /\ n - first + 1 <= q  BY <1>2
    <3>2. q >= 1  BY <1>2, <3>1
    <3>3. n <= first + c.elapsed  BY <1>1, <1>2, <1>4, <3>1, <3>2
    <3>4. (n - first + 1) * d <= E  BY <1>3, <3>1
    <3>5. QED  BY <1>1, <3>1, <3>3, <3>4
  <2>3. QED  BY <2>1, <2>2
<1> HIDE DEF complete
<1>6. ASSUME Cardinality(complete) >= count
      PROVE  Max(complete) - (first + Behind(c, t) + count - 1) \in 0 .. c.rep.float.edge
  <2>1. Cardinality(complete) = IF first > first + q - 1 THEN 0 ELSE (first + q - 1) - first + 1
    <3>1. first + q - 1 \in Int  BY <1>2
    <3>2. QED  BY <1>5, <3>1, FS_Interval
  <2>2. q >= count  BY <1>2, <1>6, <2>1
  <2> DEFINE z == Complete(c, t)
  <2>z. z \in Int /\ q - z \in 0 .. c.rep.float.edge  BY CompleteIs DEF q, E, d
  <2>e. c.rep.float.edge \in {0, 1}  BY TimedIs
  <2> HIDE DEF z
  <2>3. Behind(c, t) = IF 0 >= z - count THEN 0 ELSE z - count
    <3>1. Behind(c, t) = Max({0, z - count})  BY DEF Behind, z
    <3>2. Max({0, z - count}) = IF 0 >= z - count THEN 0 ELSE z - count  BY <2>z, Largest
    <3>3. QED  BY <3>1, <3>2
  <2>4. Max(complete) = first + q - 1
    <3>1. first + q - 1 \in complete /\ \A n \in complete : n \in Int /\ n <= first + q - 1
      BY <1>2, <1>5, <2>2
    <3>2. QED  BY <1>2, <3>1 DEF Max
  <2>5. QED  BY <1>2, <2>2, <2>3, <2>4, <2>e, <2>z
<1>7. QED  BY <1>6 DEF complete, d, E

(* A context as an MPD gives it.                                           *)
IsContext(c) ==
  /\ Timed(c) /\ c.timescale \in Nat \ {0}
  /\ c.live \in BOOLEAN /\ c.window \in Nat /\ c.elapsed \in Int /\ c.start \in Nat
  /\ IsTemplate(c.rep.template) /\ IsTemplate(c.set.template)

(* What two templates merge to is a template.                            *)
LEMMA Merged ==
  ASSUME NEW c, IsContext(c), NEW t, t = MergeTemplates(c.rep.template, c.set.template)
  PROVE  t.d \in Nat /\ t.start \in Nat \cup {None} /\ t.timeline \in Seq(RunSet)
<1> DEFINE a == c.rep.template
           b == c.set.template
<1>1. IsTemplate(a) /\ IsTemplate(b)  BY DEF IsContext
<1>2. /\ t.d = FirstSet(0, <<a.d, b.d>>) /\ t.start = FirstSet(None, <<a.start, b.start>>)
      /\ t.timeline = FirstSet(<<>>, <<a.timeline, b.timeline>>)
  BY DEF MergeTemplates
<1> HIDE DEF a, b
<1>3. t.d \in Nat  BY <1>1, <1>2, FirstOfTwo DEF IsTemplate
<1>4. t.start \in Nat \cup {None}  BY <1>1, <1>2, FirstOfTwo DEF IsTemplate
<1>5. t.timeline \in Seq(RunSet)
  <2>1. a.timeline \in Seq(RunSet) /\ b.timeline \in Seq(RunSet) /\ <<>> \in Seq(RunSet)
    BY <1>1 DEF IsTemplate
  <2>2. QED  BY <1>2, <2>1, FirstOfTwo
<1>6. QED  BY <1>3, <1>4, <1>5

(* A template gives a list that fits it, timeline or numbers, live or    *)
(* not.                                                                  *)
LEMMA TemplateListed ==
  ASSUME NEW c, IsContext(c) PROVE TemplateFits(c)
<1> DEFINE t == MergeTemplates(c.rep.template, c.set.template)
           segs == BuildSegments(c).segs
           first == IF t.start = None THEN 1 ELSE t.start
<1>1. t.d \in Nat /\ t.start \in Nat \cup {None} /\ t.timeline \in Seq(RunSet)  BY Merged
<1>2. /\ c.live \in BOOLEAN /\ Timed(c) /\ c.window \in Nat /\ c.elapsed \in Int
      /\ c.start \in Nat /\ c.timescale \in Nat \ {0}
  BY DEF IsContext
<1>dur. c.dur \in Nat  BY <1>2, TimedIs
<1> SUFFICES ASSUME t # NoTemplate, segs # <<>>
             PROVE  /\ \A k \in DOMAIN segs : segs[k].seq = segs[1].seq + k - 1
                    /\ IF t.timeline # <<>> THEN segs[1].seq = first /\ TimelineFits(c, t, segs)
                       ELSE NumbersFit(c, t, first, segs)
  BY DEF TemplateFits
<1>3. segs = SegmentsFromTemplate(c, t).segs  BY DEF BuildSegments
<1>4. first \in Nat /\ FirstSet(None, <<t.start, 1>>) = first
  <2>1. FirstSet(None, <<t.start, 1>>) = IF t.start # None THEN t.start ELSE IF 1 # None THEN 1 ELSE None
    BY FirstOfTwo
  <2>2. 1 # None  BY DEF None
  <2>3. QED  BY <1>1, <2>1, <2>2
<1> HIDE DEF t, segs, first
<1>5. CASE t.timeline # <<>>
  <2>1. segs = FromTimeline(c, t, first)  BY <1>3, <1>4, <1>5 DEF SegmentsFromTemplate, Listing
  <2>2. /\ segs \in Seq(Pieces(c, t)) /\ TimelineFits(c, t, segs)
        /\ \A k \in 1 .. Len(segs) : segs[k].seq = first + k - 1
    <3>1. Timed(c) /\ first \in Int  BY <1>2, <1>4
    <3>2. QED  BY <1>1, <1>5, <2>1, <3>1, TimelineListed
  <2>3. DOMAIN segs = 1 .. Len(segs) /\ 1 \in 1 .. Len(segs)
    <3>1. Len(segs) \in Nat /\ Len(segs) # 0 /\ DOMAIN segs = 1 .. Len(segs)  BY <2>2
    <3>2. QED  BY <3>1
  <2>4. segs[1].seq = first  BY <1>4, <2>2, <2>3
  <2>5. QED  BY <1>4, <1>5, <2>2, <2>3, <2>4
<1>6. CASE t.timeline = <<>>
  <2>1. t.d > 0 /\ (~c.live => c.dur > 0)
    <3>1. CASE t.d = 0 \/ (~c.live /\ c.dur <= 0)
      <4>1. segs = <<>>  BY <1>3, <1>6, <3>1 DEF SegmentsFromTemplate, Failure
      <4>2. QED  BY <4>1
    <3>2. QED  BY <1>1, <1>2, <1>dur, <3>1
  <2>2. CASE c.live
    <3> DEFINE count == Covering(c, t, LiveWindow(c))
               edge == first + Behind(c, t)
    <3>1. LiveWindow(c) \in Nat /\ LiveWindow(c) > 0  BY <1>2 DEF LiveWindow
    <3>2. count \in Nat /\ count >= 1 /\ count * t.d >= LiveWindow(c)
      BY <1>1, <1>2, <2>1, <3>1, CoveringIs
    <3>3. segs = Numbers(c, t, edge, count)
      BY <1>3, <1>4, <1>6, <2>1, <2>2 DEF SegmentsFromTemplate, Listing
    <3>4. Behind(c, t) \in Int
      <4>1. Complete(c, t) \in Int  BY <1>1, <1>2, <2>1, CompleteIs
      <4>2. QED  BY <3>2, <4>1, Largest DEF Behind
    <3> HIDE DEF count
    <3>5. edge \in Int  BY <1>4, <3>4
    <3> HIDE DEF edge
    <3>6. Len(segs) = count /\ DOMAIN segs = 1 .. count /\ \A k \in 1 .. count : segs[k].seq = edge + k - 1
      BY <1>1, <3>2, <3>3, <3>5, NumbersListed
    <3>7. 1 \in 1 .. count /\ count \in 1 .. count  BY <3>2
    <3>8. \A k \in DOMAIN segs : segs[k].seq = segs[1].seq + k - 1  BY <3>2, <3>5, <3>6, <3>7
    <3> DEFINE complete == {n \in first .. first + c.elapsed : (n - first + 1) * t.d <= c.elapsed - c.start}
    <3>9. c.elapsed # None /\ Cardinality(complete) >= count =>
            Max(complete) - (edge + count - 1) \in 0 .. c.rep.float.edge
      <4>1. count = Covering(c, t, LiveWindow(c))  BY DEF count
      <4>2. QED  BY <1>1, <1>2, <1>4, <2>1, <3>2, <4>1, EdgeFits DEF edge
    <3> HIDE DEF complete
    <3>10. segs[Len(segs)].seq = edge + count - 1  BY <3>6, <3>7
    <3>11. NumbersFit(c, t, first, segs)
      BY <2>2, <3>2, <3>6, <3>9, <3>10 DEF NumbersFit, complete
    <3>12. QED  BY <1>6, <3>8, <3>11
  <2>3. CASE ~c.live
    <3> DEFINE count == Covering(c, t, c.dur)
    <3>1. c.dur \in Nat /\ c.dur > 0  BY <1>dur, <2>1, <2>3
    <3>2. /\ count \in Nat /\ count >= 1 /\ count * t.d >= c.dur
          /\ (count - 1) * t.d < c.dur + c.rep.float.count
      BY <1>1, <1>2, <2>1, <3>1, CoveringIs
    <3>3. segs = Numbers(c, t, first, count)
      BY <1>3, <1>4, <1>6, <2>1, <2>3, <3>1 DEF SegmentsFromTemplate, Listing
    <3> HIDE DEF count
    <3>n. count \in Nat /\ first \in Int /\ t.d \in Nat  BY <1>1, <1>4, <3>2
    <3>4. Len(segs) = count /\ DOMAIN segs = 1 .. count /\ \A k \in 1 .. count : segs[k].seq = first + k - 1
      BY <3>3, <3>n, NumbersListed
    <3>5. 1 \in 1 .. count  BY <3>2
    <3>6. \A k \in DOMAIN segs : segs[k].seq = segs[1].seq + k - 1  BY <1>4, <3>2, <3>4, <3>5
    <3>7. NumbersFit(c, t, first, segs)  BY <2>3, <3>2, <3>4 DEF NumbersFit
    <3>8. QED  BY <1>6, <3>6, <3>7
  <2>4. QED  BY <2>2, <2>3
<1>7. QED  BY <1>5, <1>6

(* A period begins at a number: its own, or where the last one ends.       *)
LEMMA BeginsAt ==
  ASSUME NEW doc, IsMPD(doc), NEW p \in DOMAIN doc.periods PROVE Begins(doc, p) \in Nat
<1> DEFINE S == [at : Nat, next : Nat]
           zero == [at |-> 0, next |-> 0]
           from(q, x) == IF doc.periods[q].start > 0 THEN doc.periods[q].start ELSE x.next
           more(q, x) == [at |-> from(q, x), next |-> from(q, x) + Lasts(doc, q)]
           step == [q \in 1 .. p |-> [x \in S |-> more(q, x)]]
           D(f) == [q \in 0 .. p |-> IF q = 0 THEN zero ELSE more(q, f[q - 1])]
           b == CHOOSE f : f = D(f)
<1>1. p \in Nat /\ p > 0 /\ \A q \in 1 .. p : q \in DOMAIN doc.periods
  <2>1. Len(doc.periods) \in Nat /\ DOMAIN doc.periods = 1 .. Len(doc.periods)  BY DEF IsMPD, IsList
  <2>2. QED  BY <2>1
<1>2. \A q \in 1 .. p : Lasts(doc, q) \in Nat /\ doc.periods[q].start \in Nat
  BY <1>1 DEF IsMPD, Lasts, Durations
<1>3. \A q \in 1 .. p, x \in S : more(q, x) \in S
  <2> SUFFICES ASSUME NEW q \in 1 .. p, NEW x \in S PROVE more(q, x) \in S  OBVIOUS
  <2>1. from(q, x) \in Nat  BY <1>2
  <2>2. QED  BY <1>2, <2>1
<1>4. Begins(doc, p) = b[p].at
  <2>1. b = CHOOSE f : f = [q \in 0 .. p |->
              IF q = 0 THEN [at |-> 0, next |-> 0]
              ELSE LET own == IF doc.periods[q].start > 0 THEN doc.periods[q].start ELSE f[q - 1].next
                   IN [at |-> own, next |-> own + Lasts(doc, q)]]
    OBVIOUS
  <2>2. QED  BY <2>1 DEF Begins
<1>5. zero \in S  OBVIOUS
<1> HIDE DEF S, zero, more
<1>6. step \in [1 .. p -> [S -> S]]  BY <1>3
<1>7. PICK f : Recurs(p, S, zero, step, f)
  <2> HIDE DEF step
  <2>1. QED  BY <1>1, <1>5, <1>6, Recursion
<1>8. ASSUME NEW q \in 1 .. p PROVE f[q] = more(q, f[q - 1])
  <2>1. q - 1 \in 0 .. p  BY <1>1
  <2>2. f[q - 1] \in S /\ f[q] = step[q][f[q - 1]]  BY <1>7, <2>1 DEF Recurs
  <2>3. QED  BY <2>2
<1> HIDE DEF step
<1>9. f = D(f)
  <2>1. f = [q \in 0 .. p |-> f[q]] /\ f[0] = zero  BY <1>7 DEF Recurs
  <2>2. ASSUME NEW q \in 0 .. p PROVE f[q] = D(f)[q]
    <3>1. CASE q = 0  BY <2>1, <3>1
    <3>2. CASE q # 0
      <4>1. q \in 1 .. p  BY <1>1, <3>2
      <4>2. QED  BY <1>8, <3>2, <4>1
    <3>3. QED  BY <3>1, <3>2
  <2>3. QED  BY <2>1, <2>2
<1>10. b = D(b)  BY <1>9
<1> HIDE DEF b
<1>11. \A q \in 1 .. p : b[q] = more(q, b[q - 1])
  <2>1. \A q \in 1 .. p : q \in 0 .. p /\ q # 0  BY <1>1
  <2>2. QED  BY <1>10, <2>1
<1> DEFINE T == {q \in 0 .. p : b[q] \in S}
<1>12. 0 \in T
  <2>1. 0 \in 0 .. p  BY <1>1
  <2>2. b[0] = zero  BY <1>10, <2>1
  <2>3. QED  BY <1>5, <2>1, <2>2
<1>13. ASSUME NEW k \in 0 .. p - 1, k \in T PROVE k + 1 \in T
  <2>1. k + 1 \in 1 .. p /\ (k + 1) - 1 = k /\ k + 1 \in 0 .. p  BY <1>1
  <2>2. QED  BY <1>3, <1>11, <1>13, <2>1
<1> HIDE DEF T
<1>14. 0 .. p \subseteq T  BY <1>1, <1>12, <1>13, UpTo
<1>15. b[p] \in S  BY <1>1, <1>14 DEF T
<1>16. QED  BY <1>4, <1>15 DEF S

(* A place is one of a representation that is there.                       *)
LEMMA PlaceIs ==
  ASSUME NEW doc, NEW x \in Places(doc)
  PROVE  \E p \in DOMAIN doc.periods : \E a \in DOMAIN doc.periods[p].sets :
           \E r \in DOMAIN doc.periods[p].sets[a].reps : x = Place(p, a, r)
BY DEF Places

(* Every representation of an MPD is listed as its template says.        *)
LEMMA DashListed == ASSUME NEW doc, IsMPD(doc) PROVE DashListingFits(doc)
<1> SUFFICES ASSUME NEW p \in DOMAIN doc.periods, NEW a \in DOMAIN doc.periods[p].sets,
                    NEW r \in DOMAIN doc.periods[p].sets[a].reps
             PROVE  TemplateFits(Context(doc, Place(p, a, r)))
  BY PlaceIs DEF DashListingFits
<1> DEFINE c == Context(doc, Place(p, a, r))
<1>1. /\ c.live = doc.live /\ c.window = doc.window /\ c.elapsed = doc.elapsed
      /\ c.dur = Lasts(doc, p) /\ c.start = Begins(doc, p) /\ c.timescale = doc.timescale
      /\ c.set = doc.periods[p].sets[a] /\ c.rep = doc.periods[p].sets[a].reps[r]
  BY DEF Context, Place
<1> HIDE DEF c
<1>2. c.start \in Nat  BY <1>1, BeginsAt
<1>3. Lasts(doc, p) \in Durations  BY DEF IsMPD, Lasts
<1>r. c.rep.float \in Roundings /\ c.timescale \in Nat \ {0}  BY <1>1 DEF IsMPD, IsSet
<1>t. Timed(c)  BY <1>1, <1>3, <1>r DEF Timed
<1>4. IsTemplate(c.rep.template) /\ IsTemplate(c.set.template)  BY <1>1 DEF IsMPD, IsSet
<1>5. c.live \in BOOLEAN /\ c.window \in Nat /\ c.elapsed \in Int  BY <1>1 DEF IsMPD
<1>6. IsContext(c)  BY <1>2, <1>4, <1>5, <1>r, <1>t DEF IsContext
<1>7. QED  BY <1>6, TemplateListed DEF c

--------------------------------------------------------------------------------
(* What the chunks of a Smooth index list.                                 *)
Spans == [t : Nat, d : Nat]
SpanLists == [cur : Nat, list : Seq(Spans)]
Where(s, acc) == IF s.t # None THEN s.t ELSE acc.cur

(* The chunks of an element of n, and what they are appended to.           *)
ChunksOf(cur, d, n) == [j \in 1 .. n |-> [t |-> cur + (j - 1) * d, d |-> d]]
Chain(list, n, cur, d, all) ==
  /\ all \in Seq(Spans) /\ Len(list) \in Nat /\ Len(all) = Len(list) + n
  /\ \A k \in 1 .. Len(list) : all[k] = list[k]
  /\ \A k \in 1 .. n : all[Len(list) + k] = [t |-> cur + (k - 1) * d, d |-> d]
(* A run of chunks chains on to the list before it.                      *)
LEMMA SpansOn ==
  ASSUME NEW list \in Seq(Spans), NEW n \in Nat, NEW cur \in Nat, NEW d \in Nat
  PROVE  Chain(list, n, cur, d, list \o ChunksOf(cur, d, n))
<1> DEFINE e == ChunksOf(cur, d, n)
<1>1. ASSUME NEW k \in 1 .. n PROVE [t |-> cur + (k - 1) * d, d |-> d] \in Spans
  <2>1. (k - 1) * d \in Nat  OBVIOUS
  <2>2. cur + (k - 1) * d \in Nat
    <3> DEFINE x == (k - 1) * d
    <3> HIDE DEF x
    <3>1. x \in Nat  BY <2>1 DEF x
    <3>2. cur + x \in Nat  BY <3>1
    <3>3. QED  BY <3>2 DEF x
  <2>3. QED  BY <2>2 DEF Spans
<1>2. e \in [1 .. n -> Spans] /\ \A k \in 1 .. n : e[k] = [t |-> cur + (k - 1) * d, d |-> d]
  BY <1>1 DEF ChunksOf
<1> HIDE DEF e
<1>3. /\ list \o e \in Seq(Spans) /\ Len(list) \in Nat /\ Len(list \o e) = Len(list) + n
      /\ \A k \in 1 .. Len(list) : (list \o e)[k] = list[k]
      /\ \A k \in 1 .. n : (list \o e)[Len(list) + k] = e[k]
  BY <1>2, Joined
<1>4. QED  BY <1>2, <1>3 DEF e, Chain

(* new is acc and n chunks that last d, of which the first is at cur.       *)
Spanned(acc, n, cur, d, new) ==
  LET l == Len(acc.list)
  IN /\ new.cur = cur + n * d /\ l \in Nat /\ Len(new.list) = l + n
     /\ \A k \in 1 .. l : new.list[k] = acc.list[k]
     /\ \A k \in 1 .. n : new.list[l + k] = [t |-> cur + (k - 1) * d, d |-> d]
(* A chunk counts at least once, begins at a natural number and lasts    *)
(* one.                                                                  *)
LEMMA ElapsedIs ==
  ASSUME NEW cs \in Seq(ChunkSet), NEW total \in Nat, NEW i \in 1 .. Len(cs), NEW acc \in SpanLists
  PROVE  LET n   == Counted(cs[i])
             cur == Where(cs[i], acc)
             d   == ChunkLength(cs, i, cur, total)
         IN /\ n \in Nat /\ n >= 1 /\ cur \in Nat /\ d \in Nat
            /\ n = (IF cs[i].r > 1 THEN cs[i].r ELSE 1)
            /\ Elapsed(cs, i, acc, total) \in SpanLists
            /\ Spanned(acc, n, cur, d, Elapsed(cs, i, acc, total))
<1> DEFINE n == Counted(cs[i])
           cur == Where(cs[i], acc)
           d == ChunkLength(cs, i, cur, total)
           new == Elapsed(cs, i, acc, total)
           list == acc.list
           e == ChunksOf(cur, d, n)
<1>1. \A k \in 1 .. Len(cs) : cs[k] \in ChunkSet  OBVIOUS
<1>2. \A k \in 1 .. Len(cs) : cs[k].t \in Nat \cup {None} /\ cs[k].d \in Nat \cup {None} /\ cs[k].r \in Int
  BY <1>1 DEF ChunkSet
<1>3. acc.cur \in Nat /\ acc.list \in Seq(Spans)  BY DEF SpanLists
<1>4. cur \in Nat  BY <1>2, <1>3 DEF Where
<1>5. Max({total - cur, 0}) \in Nat  BY <1>4, Largest
<1>6. d \in Nat
  <2>1. ASSUME i < Len(cs), cs[i + 1].t > cur, cs[i + 1].t # None PROVE cs[i + 1].t - cur \in Nat
    <3>1. i + 1 \in 1 .. Len(cs)  BY <2>1
    <3>2. cs[i + 1].t \in Nat  BY <1>2, <2>1, <3>1
    <3>3. QED  BY <1>4, <2>1, <3>2
  <2>2. QED  BY <1>2, <1>5, <2>1 DEF ChunkLength
<1>7. n = (IF cs[i].r > 1 THEN cs[i].r ELSE 1) /\ n \in Nat /\ n >= 1  BY <1>2, Largest DEF Counted
<1>8. new = [cur |-> cur + n * d, list |-> list \o e]  BY DEF Elapsed, Where, ChunksOf
<1> HIDE DEF n, cur, d, new, list
<1>9. list \in Seq(Spans)  BY <1>3 DEF list
<1>10. Chain(list, n, cur, d, list \o e)
  <2>1. n \in Nat  BY <1>7
  <2>2. QED  BY <1>4, <1>6, <1>9, <2>1, SpansOn
<1> HIDE DEF e
<1>11. cur + n * d \in Nat
  <2>1. n * d \in Nat  BY <1>6, <1>7
  <2>2. QED  BY <1>4, <2>1
<1>12. new \in SpanLists  BY <1>8, <1>10, <1>11 DEF SpanLists, Chain
<1>13. new.cur = cur + n * d /\ new.list = list \o e  BY <1>8
<1>14. Spanned(acc, n, cur, d, new)  BY <1>10, <1>13 DEF Spanned, Chain, list
<1>15. QED  BY <1>4, <1>6, <1>7, <1>12, <1>14 DEF n, cur, d, new

SpansWalk(cs, total, f) ==
  /\ f[0] = [cur |-> 0, list |-> <<>>]
  /\ \A i \in 1 .. Len(cs) : f[i] = Elapsed(cs, i, f[i - 1], total)
  /\ \A i \in 0 .. Len(cs) : f[i] \in SpanLists

(* Timeline walks the chunks one after another.                          *)
LEMMA TimelineWalks ==
  ASSUME NEW cs \in Seq(ChunkSet), NEW total \in Nat
  PROVE  \E f : SpansWalk(cs, total, f) /\ Timeline(cs, total) = f[Len(cs)].list
<1> DEFINE n == Len(cs)
           S == SpanLists
           b == [cur |-> 0, list |-> <<>>]
           more(i, x) == Elapsed(cs, i, x, total)
           step == [i \in 1 .. n |-> [x \in S |-> more(i, x)]]
           D(f) == [i \in 0 .. n |-> IF i = 0 THEN b ELSE more(i, f[i - 1])]
           upTo == CHOOSE f : f = D(f)
<1>1. n \in Nat  OBVIOUS
<1>2. b \in S  BY DEF SpanLists, Spans
<1>3. \A i \in 1 .. n, x \in S : more(i, x) \in S  BY ElapsedIs
<1>4. Timeline(cs, total) = upTo[n].list  BY DEF Timeline
<1> HIDE DEF n, more, b, S
<1>5. step \in [1 .. n -> [S -> S]]  BY <1>3
<1>6. PICK f : Recurs(n, S, b, step, f)
  <2> HIDE DEF step
  <2>1. QED  BY <1>1, <1>2, <1>5, Recursion
<1>7. ASSUME NEW i \in 1 .. n PROVE f[i] = more(i, f[i - 1])
  <2>1. i - 1 \in 0 .. n  BY <1>1
  <2>2. f[i - 1] \in S /\ f[i] = step[i][f[i - 1]]  BY <1>6, <2>1 DEF Recurs
  <2>3. QED  BY <2>2
<1> HIDE DEF step
<1>8. f = D(f)
  <2>1. f = [i \in 0 .. n |-> f[i]] /\ f[0] = b  BY <1>6 DEF Recurs
  <2>2. ASSUME NEW i \in 0 .. n PROVE f[i] = D(f)[i]
    <3>1. CASE i = 0  BY <2>1, <3>1
    <3>2. CASE i # 0
      <4>1. i \in 1 .. n  BY <1>1, <3>2
      <4>2. QED  BY <1>7, <3>2, <4>1
    <3>3. QED  BY <3>1, <3>2
  <2>3. QED  BY <2>1, <2>2
<1>9. upTo = D(upTo)  BY <1>8
<1> HIDE DEF upTo
<1>10. upTo[0] = b /\ \A i \in 1 .. n : upTo[i] = more(i, upTo[i - 1])
  <2>1. 0 \in 0 .. n /\ \A i \in 1 .. n : i \in 0 .. n /\ i # 0  BY <1>1
  <2>2. QED  BY <1>9, <2>1
<1>11. \A i \in 0 .. n : upTo[i] \in S
  <2> DEFINE T == {i \in 0 .. n : upTo[i] \in S}
  <2>1. 0 \in T  BY <1>1, <1>2, <1>10
  <2>2. ASSUME NEW k \in 0 .. n - 1, k \in T PROVE k + 1 \in T
    <3>1. k + 1 \in 1 .. n /\ (k + 1) - 1 = k /\ k + 1 \in 0 .. n  BY <1>1
    <3>2. QED  BY <1>3, <1>10, <2>2, <3>1
  <2> HIDE DEF T
  <2>3. 0 .. n \subseteq T  BY <1>1, <2>1, <2>2, UpTo
  <2>4. QED  BY <2>3 DEF T
<1>12. SpansWalk(cs, total, upTo)  BY <1>10, <1>11 DEF SpansWalk, n, S, b, more
<1>13. QED  BY <1>4, <1>12 DEF n

(* How many chunks are wanted adds up run by run.                        *)
LEMMA WantedIs ==
  ASSUME NEW cs \in Seq(ChunkSet)
  PROVE  /\ Wanted(cs)[0] = 0
         /\ \A i \in 1 .. Len(cs) : Wanted(cs)[i] = Wanted(cs)[i - 1] + IF cs[i].r > 1 THEN cs[i].r ELSE 1
<1> DEFINE n == Len(cs)
           more(i) == IF cs[i].r > 1 THEN cs[i].r ELSE 1
           step == [i \in 1 .. n |-> [x \in Int |-> x + more(i)]]
           D(f) == [i \in 0 .. n |-> IF i = 0 THEN 0 ELSE f[i - 1] + more(i)]
           wanted == CHOOSE f : f = D(f)
<1>1. n \in Nat /\ \A i \in 1 .. n : more(i) \in Int
  <2>1. n \in Nat /\ \A i \in 1 .. n : cs[i] \in ChunkSet  OBVIOUS
  <2>2. \A i \in 1 .. n : cs[i].r \in Int
    <3> HIDE DEF n
    <3>1. QED  BY <2>1 DEF ChunkSet
  <2> HIDE DEF n
  <2>3. QED  BY <2>1, <2>2
<1>2. step \in [1 .. n -> [Int -> Int]]  BY <1>1
<1>3. Wanted(cs) = wanted  BY DEF Wanted
<1> HIDE DEF n, more
<1>4. PICK f : Recurs(n, Int, 0, step, f)
  <2> HIDE DEF step
  <2>1. n \in Nat /\ 0 \in Int  BY <1>1
  <2>2. QED  BY <1>2, <2>1, Recursion
<1>5. ASSUME NEW i \in 1 .. n PROVE f[i] = f[i - 1] + more(i) /\ f[i - 1] \in Int
  <2>1. i - 1 \in 0 .. n  BY <1>1
  <2>2. f[i - 1] \in Int /\ f[i] = step[i][f[i - 1]]  BY <1>4, <2>1 DEF Recurs
  <2>3. QED  BY <2>2
<1> HIDE DEF step
<1>6. f = D(f)
  <2>1. f = [i \in 0 .. n |-> f[i]] /\ f[0] = 0  BY <1>4 DEF Recurs
  <2>2. ASSUME NEW i \in 0 .. n PROVE f[i] = D(f)[i]
    <3>1. CASE i = 0  BY <2>1, <3>1
    <3>2. CASE i # 0
      <4>1. i \in 1 .. n  BY <1>1, <3>2
      <4>2. QED  BY <1>5, <3>2, <4>1
    <3>3. QED  BY <3>1, <3>2
  <2>3. QED  BY <2>1, <2>2
<1>7. wanted = D(wanted)  BY <1>6
<1> HIDE DEF wanted
<1>8. wanted[0] = 0 /\ \A i \in 1 .. n : wanted[i] = wanted[i - 1] + more(i)
  <2>1. 0 \in 0 .. n /\ \A i \in 1 .. n : i \in 0 .. n /\ i # 0  BY <1>1
  <2>2. QED  BY <1>7, <2>1
<1>9. QED  BY <1>3, <1>8 DEF n, more

(* After i elements: the chunks run on, as many as wanted.                 *)
RunsOn(list, placed) ==
  \A k \in 2 .. Len(list) : list[k].t = list[k - 1].t + list[k - 1].d \/ list[k].t \in placed
Put(cs) == {cs[k].t : k \in DOMAIN cs}
SpanInv(cs, i, acc) ==
  /\ Len(acc.list) = Wanted(cs)[i]
  /\ RunsOn(acc.list, Put(cs))
  /\ Len(acc.list) > 0 => acc.cur = acc.list[Len(acc.list)].t + acc.list[Len(acc.list)].d

(* One chunk more keeps what is known of the list so far.                *)
LEMMA SpanStep ==
  ASSUME NEW cs \in Seq(ChunkSet), NEW total \in Nat, NEW i \in 1 .. Len(cs), NEW acc \in SpanLists,
         SpanInv(cs, i - 1, acc)
  PROVE  SpanInv(cs, i, Elapsed(cs, i, acc, total))
<1> DEFINE s == cs[i]
           n == Counted(s)
           cur == Where(s, acc)
           d == ChunkLength(cs, i, cur, total)
           new == Elapsed(cs, i, acc, total)
           l == Len(acc.list)
           m == Len(new.list)
<1>1. /\ n \in Nat /\ n >= 1 /\ cur \in Nat /\ d \in Nat /\ n = (IF s.r > 1 THEN s.r ELSE 1)
      /\ Spanned(acc, n, cur, d, new)
  BY ElapsedIs
<1>2. m = Wanted(cs)[i]
  <2>1. Wanted(cs)[i] = Wanted(cs)[i - 1] + n  BY <1>1, WantedIs
  <2>2. l = Wanted(cs)[i - 1]  BY DEF SpanInv
  <2> HIDE DEF n, new
  <2>3. QED  BY <1>1, <2>1, <2>2 DEF Spanned
<1> HIDE DEF n, cur, d, new, l, s
<1>3. /\ new.cur = cur + n * d /\ l \in Nat /\ m = l + n
      /\ \A k \in 1 .. l : new.list[k] = acc.list[k]
      /\ \A k \in 1 .. n : new.list[l + k].t = cur + (k - 1) * d /\ new.list[l + k].d = d
  <2>1. /\ new.cur = cur + n * d /\ l \in Nat /\ m = l + n
        /\ \A k \in 1 .. l : new.list[k] = acc.list[k]
        /\ \A k \in 1 .. n : new.list[l + k] = [t |-> cur + (k - 1) * d, d |-> d]
    BY <1>1 DEF Spanned, l
  <2>2. ASSUME NEW k \in 1 .. n PROVE new.list[l + k].t = cur + (k - 1) * d /\ new.list[l + k].d = d
    <3>1. new.list[l + k] = [t |-> cur + (k - 1) * d, d |-> d]  BY <2>1
    <3>2. QED  BY <3>1
  <2>3. QED  BY <2>1, <2>2
<1>4. ASSUME NEW k \in 1 .. n PROVE new.list[l + k].t + new.list[l + k].d = cur + k * d
  <2>1. new.list[l + k].d = d /\ new.list[l + k].t = cur + (k - 1) * d  BY <1>3
  <2>2. (k - 1) * d + d = k * d /\ (k - 1) * d \in Int /\ k * d \in Int  BY <1>1
  <2>3. QED  BY <1>1, <2>1, <2>2
<1>5. new.cur = new.list[m].t + new.list[m].d
  <2>1. n \in 1 .. n  BY <1>1
  <2>2. QED  BY <1>3, <1>4, <2>1
<1>sum. l \in Nat /\ n \in Nat /\ m = l + n /\ n >= 1  BY <1>1, <1>3
<1> HIDE DEF m
<1>6. ASSUME NEW k \in 2 .. m
      PROVE  new.list[k].t = new.list[k - 1].t + new.list[k - 1].d \/ new.list[k].t \in Put(cs)
  <2>1. CASE k <= l
    <3>1. k \in 2 .. l /\ k \in 1 .. l /\ k - 1 \in 1 .. l  BY <2>1, <1>sum
    <3>2. QED  BY <1>3, <3>1 DEF SpanInv, RunsOn, l
  <2>2. CASE k = l + 1
    <3>1. 1 \in 1 .. n /\ l \in 1 .. l /\ l > 0  BY <1>sum, <2>2
    <3>2. new.list[k].t = cur
      <4>1. new.list[l + 1].t = cur + (1 - 1) * d  BY <1>3, <3>1
      <4>2. (1 - 1) * d = 0  BY <1>1
      <4>3. QED  BY <1>1, <2>2, <4>1, <4>2
    <3>3. new.list[k - 1] = acc.list[l]  BY <1>3, <2>2, <3>1
    <3>4. CASE s.t # None  BY <3>2, <3>4 DEF Put, s, cur, Where
    <3>5. CASE s.t = None
      <4>1. cur = acc.cur  BY <3>5 DEF cur, Where
      <4>2. QED  BY <3>1, <3>2, <3>3, <4>1 DEF SpanInv, l
    <3>6. QED  BY <3>4, <3>5
  <2>3. CASE k > l + 1
    <3>1. /\ k - l \in 1 .. n /\ l + (k - l) = k
          /\ k - 1 - l \in 1 .. n /\ l + (k - 1 - l) = k - 1
          /\ (k - l) - 1 = k - 1 - l
      <4>1. k \in Int /\ k <= m  BY <1>sum
      <4>2. QED  BY <1>sum, <2>3, <4>1
    <3>2. new.list[k].t = cur + ((k - l) - 1) * d  BY <1>3, <3>1
    <3>3. new.list[k - 1].t + new.list[k - 1].d = cur + (k - 1 - l) * d  BY <1>4, <3>1
    <3>4. QED  BY <3>1, <3>2, <3>3
  <2>4. QED  BY <1>sum, <2>1, <2>2, <2>3
<1>7. QED  BY <1>2, <1>5, <1>6 DEF SpanInv, RunsOn, new, m

(* A Smooth timeline lists the chunks it counts, without a gap, to its   *)
(* end.                                                                  *)
LEMMA ChunksListed ==
  ASSUME NEW cs \in Seq(ChunkSet), NEW total \in Nat, cs # <<>>,
         NEW chunks, chunks = Timeline(cs, total)
  PROVE  /\ Len(chunks) = Wanted(cs)[Len(cs)]
         /\ RunsOn(chunks, Put(cs))
         /\ (cs[Len(cs)].d = None /\ cs[Len(cs)].r <= 1 /\ chunks[Len(chunks)].t <= total) =>
              chunks[Len(chunks)].t + chunks[Len(chunks)].d = total
<1> DEFINE n == Len(cs)
           s == cs[n]
<1>1. n \in Nat /\ n > 0 /\ s \in ChunkSet  OBVIOUS
<1>2. PICK f : SpansWalk(cs, total, f) /\ chunks = f[n].list  BY TimelineWalks
<1>3. ASSUME NEW i \in 0 .. n PROVE f[i] \in SpanLists  BY <1>2 DEF SpansWalk
<1> DEFINE T == {i \in 0 .. n : SpanInv(cs, i, f[i])}
<1>4. 0 \in T
  <2>1. f[0].list = <<>>  BY <1>2 DEF SpansWalk
  <2>2. QED  BY <1>1, <2>1, WantedIs DEF SpanInv, RunsOn
<1>5. ASSUME NEW i \in 0 .. n - 1, i \in T PROVE i + 1 \in T
  <2>1. i + 1 \in 1 .. n /\ (i + 1) - 1 = i /\ i + 1 \in 0 .. n /\ i \in 0 .. n  BY <1>1
  <2>2. f[i + 1] = Elapsed(cs, i + 1, f[i], total)  BY <1>2, <2>1 DEF SpansWalk
  <2>3. f[i] \in SpanLists  BY <1>3, <2>1
  <2>4. SpanInv(cs, (i + 1) - 1, f[i])  BY <1>5, <2>1
  <2>5. SpanInv(cs, i + 1, f[i + 1])  BY <2>1, <2>2, <2>3, <2>4, SpanStep
  <2>6. QED  BY <2>1, <2>5
<1> HIDE DEF T
<1>6. 0 .. n \subseteq T  BY <1>1, <1>4, <1>5, UpTo
<1>7. n \in 0 .. n /\ n - 1 \in 0 .. n /\ n \in 1 .. n  BY <1>1
<1>8. SpanInv(cs, n, f[n])  BY <1>6, <1>7 DEF T
<1> DEFINE before == f[n - 1]
           m == Counted(s)
           cur == Where(s, before)
           d == ChunkLength(cs, n, cur, total)
<1>9. before \in SpanLists /\ f[n] = Elapsed(cs, n, before, total)  BY <1>2, <1>3, <1>7 DEF SpansWalk
<1>10. /\ m \in Nat /\ cur \in Nat /\ m = (IF s.r > 1 THEN s.r ELSE 1)
       /\ Spanned(before, m, cur, d, f[n])
  BY <1>7, <1>9, ElapsedIs
<1>11. ASSUME s.d = None, s.r <= 1, chunks[Len(chunks)].t <= total
       PROVE  chunks[Len(chunks)].t + chunks[Len(chunks)].d = total
  <2>1. d = Max({total - cur, 0})  BY <1>1, <1>11 DEF ChunkLength
  <2>2. s.r \in Int  BY <1>1 DEF ChunkSet
  <2>3. m = 1  BY <1>10, <1>11, <2>2
  <2> HIDE DEF d, m, cur, before
  <2>4. Len(chunks) = Len(before.list) + 1 /\ 1 \in 1 .. m  BY <1>2, <1>10, <2>3 DEF Spanned
  <2>5. chunks[Len(chunks)] = [t |-> cur + (1 - 1) * d, d |-> d]  BY <1>2, <1>10, <2>4 DEF Spanned
  <2>6. d \in Int  BY <1>10, <2>1, Largest
  <2>7. chunks[Len(chunks)].t = cur /\ chunks[Len(chunks)].d = d
    <3>1. cur + (1 - 1) * d = cur  BY <1>10, <2>6
    <3>2. QED  BY <2>5, <3>1
  <2>8. cur <= total  BY <1>11, <2>7
  <2>9. d = total - cur
    <3>1. Max({total - cur, 0}) = IF total - cur >= 0 THEN total - cur ELSE 0  BY <1>10, Largest
    <3>2. QED  BY <1>10, <2>1, <2>8, <3>1
  <2>10. QED  BY <1>10, <2>7, <2>9
<1>12. QED  BY <1>2, <1>8, <1>11 DEF SpanInv

(* Every stream index of a Smooth manifest is listed as it says.         *)
LEMMA SmoothListed == ASSUME NEW doc, IsSmooth(doc) PROVE ChunksFit(doc)
<1> SUFFICES ASSUME NEW i \in DOMAIN doc.indexes, doc.indexes[i].chunks # <<>>
             PROVE  LET cs     == doc.indexes[i].chunks
                        chunks == Timeline(cs, doc.dur)
                        last   == cs[Len(cs)]
                        final  == chunks[Len(chunks)]
                    IN /\ Len(chunks) = Wanted(cs)[Len(cs)]
                       /\ RunsOn(chunks, Put(cs))
                       /\ (last.d = None /\ last.r <= 1 /\ final.t <= doc.dur) => final.t + final.d = doc.dur
  BY DEF ChunksFit, RunsOn, Put
<1>1. doc.indexes[i].chunks \in Seq(ChunkSet) /\ doc.dur \in Nat  BY DEF IsSmooth
<1>2. QED  BY <1>1, ChunksListed

--------------------------------------------------------------------------------
(* A manifest was loaded from a document of its format.                    *)
KindInv ==
  /\ \E f \in DOMAIN Inputs : input \in Inputs[f]
  /\ kind = "hls" => Source.format = "m3u"
  /\ kind = "dash" => Source.format = "mpd"
  /\ kind = "mss" => Source.format = "ism"

(* A title begins with an input of the families and no kind.             *)
LEMMA KindStarts == Init => KindInv
BY DEF Init, KindInv

(* Every step keeps the kind what the format of the source makes it.     *)
LEMMA KindStep == KindInv /\ [Next]_titleVars => KindInv'
<1> SUFFICES ASSUME KindInv, [Next]_titleVars PROVE KindInv'  OBVIOUS
<1>1. CASE Load
  <2>1. input' = input /\ kind' = LoadManifest.kind  BY <1>1 DEF Load
  <2>2. Source' = Source  BY <2>1 DEF Source
  <2>3. /\ kind' = "hls" => Source.format = "m3u"
        /\ kind' = "dash" => Source.format = "mpd"
        /\ kind' = "mss" => Source.format = "ism"
    BY <2>1 DEF LoadManifest, ParseManifest, Loaded, Listed
  <2>4. QED  BY <2>1, <2>2, <2>3 DEF KindInv
<1>2. ASSUME input' = input, kind' = kind PROVE KindInv'
  <2>1. Source' = Source  BY <1>2 DEF Source
  <2>2. QED  BY <1>2, <2>1 DEF KindInv
<1>3. CASE ~Load
  <2>1. input' = input /\ kind' = kind
    BY <1>3 DEF Next, List, Choose, Expand, Settle, Open, Take, titleVars
  <2>2. QED  BY <1>2, <2>1
<1>4. QED  BY <1>1, <1>3

(* What is selected from was listed from the document.                   *)
LEMMA KindListed == KindInv => ListingFits
<1> SUFFICES ASSUME KindInv PROVE ListingFits  OBVIOUS
<1>1. WellFormed(Source)
  <2>1. PICK f \in DOMAIN Inputs : input \in Inputs[f]  BY DEF KindInv
  <2>2. WellFormed(input.body) /\ (input.page # <<>> => WellFormed(Head(input.page)))
    BY <2>1, InputsAssumption
  <2>3. QED  BY <2>2 DEF Source
<1>2. kind = "dash" => DashListingFits(Doc)  BY <1>1, DashListed DEF KindInv, WellFormed, Doc
<1>3. kind = "mss" => ChunksFit(Doc)  BY <1>1, SmoothListed DEF KindInv, WellFormed, Doc
<1>4. QED  BY <1>2, <1>3 DEF ListingFits

(* What is listed of a manifest is what the presentation has, for any MPD, *)
(* whichever of its float64 results come out one off, and any Smooth       *)
(* manifest: without gaps; of an open run that begins within the period    *)
(* all that fits before its end, as that was rounded; numbers up to the    *)
(* period's end or the live edge, one more or one less where a quotient    *)
(* was rounded (dash.go segmentsFromTemplate, mss.go timeline).  That an   *)
(* open run reaches the period's end is not so: see OpenRunEnds.           *)
THEOREM ListingsFit == Spec => []ListingFits
<1>1. Spec => []KindInv  BY KindStarts, KindStep, PTL DEF Spec
<1>2. KindInv => ListingFits  BY KindListed
<1>3. QED  BY <1>1, <1>2, PTL

--------------------------------------------------------------------------------
(* Ranks, and what is kept of a list by them.                            *)

(* The members of a finite set that come before each other.                *)
Ranking(S, B) ==
  /\ \A x \in S : x \in B[x] /\ \A y \in B[x] : B[y] \subseteq B[x]
  /\ \A x, y \in S : x # y => (x \in B[y] <=> y \notin B[x])

(* Ranks count a finite set out: each is one of 1 .. n, and each of      *)
(* those is a rank.                                                      *)
LEMMA Ranked ==
  ASSUME NEW S, IsFiniteSet(S), NEW B \in [S -> SUBSET S], Ranking(S, B)
  PROVE  /\ \A x \in S : Cardinality(B[x]) \in 1 .. Cardinality(S)
         /\ \A x, y \in S : x # y /\ x \in B[y] => Cardinality(B[x]) < Cardinality(B[y])
         /\ \A k \in 1 .. Cardinality(S) : \E x \in S : Cardinality(B[x]) = k
<1> DEFINE n == Cardinality(S)
           rank == [x \in S |-> Cardinality(B[x])]
<1>1. n \in Nat  BY FS_CardinalityType
<1>2. ASSUME NEW x \in S PROVE IsFiniteSet(B[x]) /\ Cardinality(B[x]) \in 1 .. n
  <2>1. IsFiniteSet(B[x]) /\ Cardinality(B[x]) <= n  BY FS_Subset
  <2>2. Cardinality(B[x]) \in Nat  BY <2>1, FS_CardinalityType
  <2>3. B[x] # {}  BY DEF Ranking
  <2>4. Cardinality(B[x]) # 0  BY <2>1, <2>3, FS_EmptySet
  <2>5. QED  BY <1>1, <2>1, <2>2, <2>4
<1>3. ASSUME NEW x \in S, NEW y \in S, x # y, x \in B[y]
      PROVE  Cardinality(B[x]) < Cardinality(B[y])
  <2>1. B[x] \in SUBSET B[y] /\ B[x] # B[y]  BY <1>3 DEF Ranking
  <2>2. Cardinality(B[x]) <= Cardinality(B[y]) /\ Cardinality(B[y]) # Cardinality(B[x])
    BY <1>2, <2>1, FS_Subset
  <2>3. Cardinality(B[x]) \in Int /\ Cardinality(B[y]) \in Int  BY <1>1, <1>2
  <2>4. QED  BY <2>2, <2>3
<1>4. rank \in Injection(S, 1 .. n)
  <2>1. rank \in [S -> 1 .. n]  BY <1>2
  <2>2. ASSUME NEW x \in S, NEW y \in S, rank[x] = rank[y] PROVE x = y
    <3>1. Cardinality(B[x]) \in Int /\ Cardinality(B[y]) \in Int  BY <1>1, <1>2
    <3>2. CASE x # y
      <4>1. x \in B[y] \/ y \in B[x]  BY <3>2 DEF Ranking
      <4>2. Cardinality(B[x]) < Cardinality(B[y]) \/ Cardinality(B[y]) < Cardinality(B[x])
        BY <1>3, <3>2, <4>1
      <4>3. QED  BY <2>2, <3>1, <4>2
    <3>3. QED  BY <3>2
  <2> HIDE DEF rank
  <2>3. QED  BY <2>1, <2>2 DEF Injection, IsInjective
<1>5. rank \in Surjection(S, 1 .. n)
  <2>1. IsFiniteSet(1 .. n) /\ Cardinality(1 .. n) = n
    <3>1. IsFiniteSet(1 .. n) /\ Cardinality(1 .. n) = (IF 1 > n THEN 0 ELSE n - 1 + 1)  BY <1>1, FS_Interval
    <3>2. QED  BY <1>1, <3>1
  <2> HIDE DEF rank
  <2>2. QED  BY <1>4, <2>1, FS_Injection
<1>6. \A k \in 1 .. n : \E x \in S : Cardinality(B[x]) = k
  BY <1>5 DEF Surjection
<1>7. QED  BY <1>2, <1>3, <1>6

--------------------------------------------------------------------------------
(* How many of I come up to i.                                             *)
LEMMA UptoRanks ==
  ASSUME NEW n \in Nat, NEW I \in SUBSET (1 .. n)
  PROVE  /\ IsFiniteSet(I) /\ Cardinality(I) \in Nat
         /\ \A i \in I : Upto(I, i) \in 1 .. Cardinality(I)
         /\ \A i, j \in I : i < j => Upto(I, i) < Upto(I, j)
         /\ \A k \in 1 .. Cardinality(I) : \E i \in I : Upto(I, i) = k
<1> DEFINE B == [i \in I |-> {q \in I : q <= i}]
<1>1. IsFiniteSet(I) /\ Cardinality(I) \in Nat
  <2>1. IsFiniteSet(1 .. n)  BY FS_Interval
  <2>2. QED  BY <2>1, FS_Subset, FS_CardinalityType
<1>2. Ranking(I, B)
  <2>1. \A i \in I : i \in Int  OBVIOUS
  <2>2. \A i \in I : i \in B[i] /\ \A j \in B[i] : B[j] \subseteq B[i]
    <3>1. ASSUME NEW i \in I, NEW j \in B[i], NEW q \in B[j] PROVE q \in B[i]
      <4>1. j \in I /\ j <= i /\ q \in I /\ q <= j  OBVIOUS
      <4>2. i \in Int /\ j \in Int /\ q \in Int  BY <2>1, <4>1
      <4>3. q <= i  BY <4>1, <4>2
      <4>4. QED  BY <4>1, <4>3
    <3>2. ASSUME NEW i \in I PROVE i \in B[i]  OBVIOUS
    <3> HIDE DEF B
    <3>3. QED  BY <3>1, <3>2
  <2>3. \A i, j \in I : i # j => (i \in B[j] <=> j \notin B[i])
    <3>1. ASSUME NEW i \in I, NEW j \in I, i # j PROVE i \in B[j] <=> j \notin B[i]
      <4>1. (i \in B[j] <=> i <= j) /\ (j \in B[i] <=> j <= i)  OBVIOUS
      <4>2. i \in Int /\ j \in Int  OBVIOUS
      <4> HIDE DEF B
      <4>3. QED  BY <3>1, <4>1, <4>2
    <3>2. QED  BY <3>1
  <2>4. QED  BY <2>2, <2>3 DEF Ranking
<1>3. B \in [I -> SUBSET I]  OBVIOUS
<1>4. \A i \in I : Upto(I, i) = Cardinality(B[i])  BY DEF Upto
<1>5. \A i, j \in I : i < j => i # j /\ i \in B[j]  OBVIOUS
<1> HIDE DEF B
<1>6. /\ \A x \in I : Cardinality(B[x]) \in 1 .. Cardinality(I)
      /\ \A x, y \in I : x # y /\ x \in B[y] => Cardinality(B[x]) < Cardinality(B[y])
      /\ \A k \in 1 .. Cardinality(I) : \E x \in I : Cardinality(B[x]) = k
  BY <1>1, <1>2, <1>3, Ranked
<1>7. QED  BY <1>1, <1>4, <1>5, <1>6

(* What is picked of a sequence: the members at I, in order.               *)
PickedFrom(s, I, t) ==
  /\ Cardinality(I) \in Nat /\ Len(t) = Cardinality(I) /\ DOMAIN t = 1 .. Cardinality(I)
  /\ \A i \in I : Upto(I, i) \in 1 .. Cardinality(I) /\ t[Upto(I, i)] = s[i]
  /\ \A k \in 1 .. Cardinality(I) : \E i \in I : Upto(I, i) = k /\ t[k] = s[i]
  /\ \A i, j \in I : i < j => Upto(I, i) < Upto(I, j)

(* Those picks the members at the places I, in their order.              *)
LEMMA ThosePicked ==
  ASSUME NEW s, NEW n \in Nat, NEW I \in SUBSET (1 .. n)
  PROVE  PickedFrom(s, I, Those(s, I))
<1> DEFINE m == Cardinality(I)
           the(k) == CHOOSE i \in I : Upto(I, i) = k
           t == Those(s, I)
<1>1. /\ m \in Nat
      /\ \A i \in I : Upto(I, i) \in 1 .. m
      /\ \A i, j \in I : i < j => Upto(I, i) < Upto(I, j)
      /\ \A k \in 1 .. m : \E i \in I : Upto(I, i) = k
  BY UptoRanks
<1>2. t = [k \in 1 .. m |-> s[the(k)]]  BY DEF Those
<1>3. \A k \in 1 .. m : the(k) \in I /\ Upto(I, the(k)) = k  BY <1>1
<1>4. ASSUME NEW i \in I PROVE the(Upto(I, i)) = i
  <2> DEFINE j == the(Upto(I, i))
  <2>1. j \in I /\ Upto(I, j) = Upto(I, i) /\ Upto(I, i) \in Int  BY <1>1, <1>3
  <2> HIDE DEF j
  <2>2. i \in Int /\ j \in Int  BY <2>1
  <2>3. ~(i < j) /\ ~(j < i)  BY <1>1, <2>1
  <2>4. i = j  BY <2>2, <2>3
  <2>5. QED  BY <2>4 DEF j
<1>5. Len(t) = m /\ DOMAIN t = 1 .. m
  <2>1. DOMAIN t = 1 .. m  BY <1>2
  <2>2. t \in [1 .. m -> {t[k] : k \in 1 .. m}]  BY <1>2
  <2>3. t \in Seq({t[k] : k \in 1 .. m})  BY <1>1, <2>2 DEF Seq
  <2> HIDE DEF t, m
  <2>4. QED  BY <1>1, <2>1, <2>3
<1> HIDE DEF the, t, m
<1>6. \A i \in I : t[Upto(I, i)] = s[i]  BY <1>1, <1>2, <1>4
<1>7. \A k \in 1 .. m : \E i \in I : Upto(I, i) = k /\ t[k] = s[i]  BY <1>2, <1>3
<1>8. QED  BY <1>1, <1>5, <1>6, <1>7 DEF PickedFrom, t, m

--------------------------------------------------------------------------------
(* HLS: the lines of a tag around a position.                            *)

(* The last line of a kind before a place.                                 *)
LEMMA GreatestMember ==
  ASSUME NEW n \in Nat, NEW T \in SUBSET (0 .. n), T # {}
  PROVE  Max(T) \in T /\ \A k \in T : k <= Max(T)
<1> DEFINE U == {n - k : k \in T}
<1>1. U \subseteq Nat /\ U # {}
  <2>1. \A k \in T : n - k \in Nat  OBVIOUS
  <2>2. PICK k \in T : TRUE  OBVIOUS
  <2>3. n - k \in U  OBVIOUS
  <2>4. QED  BY <2>1, <2>3
<1> HIDE DEF U
<1>2. PICK m \in U : \A k \in U : m <= k  BY <1>1, LeastMember
<1>3. PICK x \in T : m = n - x  BY DEF U
<1>4. ASSUME NEW k \in T PROVE k <= x
  <2>1. n - k \in U  BY DEF U
  <2>2. n - x <= n - k  BY <1>2, <1>3, <2>1
  <2>3. QED  BY <2>2
<1>5. \A k \in T : k \in Int  OBVIOUS
<1>6. \E y \in T : \A k \in T : y >= k  BY <1>4, <1>5
<1>7. Max(T) \in T /\ \A k \in T : Max(T) >= k  BY <1>6 DEF Max
<1>8. QED  BY <1>5, <1>7

(* q is the last line of the kind before p, or 0.                          *)
IsLast(lines, tag, p, q) ==
  /\ q \in Nat /\ (q = 0 \/ (q \in Tagged(lines, tag) /\ q < p))
  /\ \A i \in Tagged(lines, tag) : i < p => i <= q

(* LastBefore is the last line of a tag before p, or 0.                  *)
LEMMA LastIs ==
  ASSUME NEW lines, IsList(lines), NEW tag, NEW p \in Nat
  PROVE  IsLast(lines, tag, p, LastBefore(lines, tag, p))
<1> DEFINE T == {0} \union {i \in Tagged(lines, tag) : i < p}
<1>1. Len(lines) \in Nat /\ DOMAIN lines = 1 .. Len(lines)  BY DEF IsList
<1>2. T \in SUBSET (0 .. Len(lines)) /\ T # {} /\ 0 \in T  BY <1>1 DEF Tagged
<1>3. LastBefore(lines, tag, p) = Max(T)  BY DEF LastBefore
<1>4. \A i \in Tagged(lines, tag) : i < p => i \in T  OBVIOUS
<1>5. \A q \in T : q \in Nat /\ (q = 0 \/ (q \in Tagged(lines, tag) /\ q < p))  BY <1>2
<1> HIDE DEF T
<1>6. Max(T) \in T /\ \A k \in T : k <= Max(T)  BY <1>1, <1>2, GreatestMember
<1>7. QED  BY <1>3, <1>4, <1>5, <1>6 DEF IsLast

(* Only LastBefore is that line.                                         *)
LEMMA LastUnique ==
  ASSUME NEW lines, IsList(lines), NEW tag, NEW p \in Nat, NEW q, IsLast(lines, tag, p, q)
  PROVE  LastBefore(lines, tag, p) = q
<1> DEFINE r == LastBefore(lines, tag, p)
<1>1. IsLast(lines, tag, p, r)  BY LastIs
<1> HIDE DEF r
<1>2. q \in Nat /\ r \in Nat /\ q <= r /\ r <= q  BY <1>1 DEF IsLast
<1>3. QED  BY <1>2 DEF r

(* One line on, the last line of a tag is that line if it has the tag.   *)
LEMMA LastOn ==
  ASSUME NEW lines, IsList(lines), NEW tag, NEW i \in 1 .. Len(lines)
  PROVE  LastBefore(lines, tag, i + 1) = IF lines[i].tag = tag THEN i ELSE LastBefore(lines, tag, i)
<1> DEFINE q == LastBefore(lines, tag, i)
<1>1. Len(lines) \in Nat /\ DOMAIN lines = 1 .. Len(lines)  BY DEF IsList
<1>2. i \in Nat /\ i + 1 \in Nat /\ i < i + 1  BY <1>1
<1>3. i \in Tagged(lines, tag) <=> lines[i].tag = tag  BY <1>1 DEF Tagged
<1>4. \A k \in Tagged(lines, tag) : k \in Nat  BY <1>1 DEF Tagged
<1>5. CASE lines[i].tag = tag
  <2>1. IsLast(lines, tag, i + 1, i)  BY <1>2, <1>3, <1>4, <1>5 DEF IsLast
  <2>2. QED  BY <1>2, <1>5, <2>1, LastUnique
<1>6. CASE lines[i].tag # tag
  <2>1. IsLast(lines, tag, i, q)  BY <1>2, LastIs
  <2> HIDE DEF q
  <2>2. \A k \in Tagged(lines, tag) : k < i + 1 => k < i  BY <1>2, <1>3, <1>4, <1>6
  <2>3. q \in Nat /\ (q < i => q < i + 1)  BY <1>2, <2>1 DEF IsLast
  <2>4. IsLast(lines, tag, i + 1, q)  BY <2>1, <2>2, <2>3 DEF IsLast
  <2>5. LastBefore(lines, tag, i + 1) = q  BY <1>2, <2>4, LastUnique
  <2>6. QED  BY <1>6, <2>5 DEF q
<1>7. QED  BY <1>5, <1>6

(* Before the first line there is none.                                  *)
LEMMA LastFirst ==
  ASSUME NEW lines, IsList(lines), NEW tag PROVE LastBefore(lines, tag, 1) = 0
<1>1. \A k \in Tagged(lines, tag) : k \in Nat /\ ~(k < 1)  BY DEF Tagged, IsList
<1>2. IsLast(lines, tag, 1, 0)  BY <1>1 DEF IsLast
<1>3. QED  BY <1>2, LastUnique

(* What a list of lines carries.                                           *)
LEMMA TextIs ==
  ASSUME NEW lines, IsText(lines)
  PROVE  /\ IsList(lines) /\ Len(lines) \in Nat /\ DOMAIN lines = 1 .. Len(lines)
         /\ \A i \in Tagged(lines, "range") :
              i \in 1 .. Len(lines) /\ lines[i].value.offset \in Nat \cup {None} /\ lines[i].value.length \in Nat
         /\ \A i \in Tagged(lines, "sequence") : i \in 1 .. Len(lines) /\ lines[i].value \in Int
BY DEF IsText, IsList, Tagged

(* Where a range starts, from the ranges before it: does it chain?         *)
Chains(lines, p) ==
  LET q == LastBefore(lines, "range", p)
      u == UriBefore(lines, p)
  IN q # 0 /\ (u < q \/ UriBefore(lines, u) < q)
StartOf(lines, p, start) ==
  LET q == LastBefore(lines, "range", p)
  IN IF lines[p].value.offset # None THEN lines[p].value.offset
     ELSE IF Chains(lines, p) THEN start[q] + lines[q].value.length ELSE 0

(* A byte range without an offset starts where the last one of the file  *)
(* ended.                                                                *)
LEMMA RangeStarts ==
  ASSUME NEW lines, IsText(lines)
  PROVE  \A p \in Tagged(lines, "range") :
           /\ RangeStart(lines)[p] = StartOf(lines, p, RangeStart(lines))
           /\ RangeStart(lines)[p] \in Nat
<1> DEFINE n == Len(lines)
           R == Tagged(lines, "range")
           Upper(k) == {p \in R : p <= k}
           prev(p) == LastBefore(lines, "range", p)
           D(f, k) == [p \in Upper(k) |-> StartOf(lines, p, f)]
           start == CHOOSE f : f = [p \in R |-> StartOf(lines, p, f)]
<1>1. /\ n \in Nat /\ IsList(lines)
      /\ \A p \in R : p \in 1 .. n /\ p \in Nat /\ lines[p].value.offset \in Nat \cup {None}
                      /\ lines[p].value.length \in Nat
  BY TextIs
<1>2. RangeStart(lines) = start  BY DEF RangeStart, StartOf, Chains
<1>3. ASSUME NEW p \in R, Chains(lines, p) PROVE prev(p) \in R /\ prev(p) < p
  <2>1. IsLast(lines, "range", p, prev(p))  BY <1>1, LastIs
  <2>2. QED  BY <1>3, <2>1 DEF IsLast, Chains
<1>4. ASSUME NEW p \in R, NEW f, NEW g, \A q \in R : q < p => f[q] = g[q]
      PROVE  StartOf(lines, p, f) = StartOf(lines, p, g)
  BY <1>3, <1>4 DEF StartOf
<1> HIDE DEF R, n, prev
<1> DEFINE T == {k \in 0 .. n : \E f : f = D(f, k)}
<1>5. 0 \in T
  <2>1. Upper(0) = {}  BY <1>1
  <2> DEFINE e == [p \in Upper(0) |-> 0]
  <2>2. e = [p \in Upper(0) |-> e[p]]  OBVIOUS
  <2> HIDE DEF e
  <2>3. e = D(e, 0)  BY <2>1, <2>2
  <2>4. QED  BY <1>1, <2>3
<1>6. ASSUME NEW k \in 0 .. n - 1, k \in T PROVE k + 1 \in T
  <2>1. PICK f : f = D(f, k)  BY <1>6
  <2>2. k \in Nat /\ k + 1 \in 0 .. n  BY <1>1
  <2> DEFINE g == [p \in Upper(k + 1) |-> IF p <= k THEN f[p] ELSE StartOf(lines, p, f)]
  <2>3. ASSUME NEW q \in R, q <= k PROVE f[q] = g[q] /\ f[q] = StartOf(lines, q, f)
    <3>1. q \in Upper(k) /\ q \in Upper(k + 1)  BY <1>1, <2>2, <2>3
    <3>2. QED  BY <2>1, <2>3, <3>1
  <2>4. ASSUME NEW p \in Upper(k + 1) PROVE g[p] = StartOf(lines, p, g)
    <3>1. p \in R /\ p \in Nat /\ p <= k + 1  BY <1>1
    <3>2. \A q \in R : q < p => q <= k  BY <1>1, <2>2, <3>1
    <3>3. StartOf(lines, p, f) = StartOf(lines, p, g)  BY <1>4, <2>3, <3>1, <3>2
    <3>4. g[p] = StartOf(lines, p, f)  BY <2>3, <3>1
    <3>5. QED  BY <3>3, <3>4
  <2> HIDE DEF T
  <2>5. g = [p \in Upper(k + 1) |-> g[p]]  OBVIOUS
  <2> HIDE DEF g
  <2>6. g = D(g, k + 1)  BY <2>4, <2>5
  <2>7. QED  BY <2>2, <2>6 DEF T
<1> HIDE DEF T
<1>7. 0 .. n \subseteq T  BY <1>1, <1>5, <1>6, UpTo
<1>8. \E f : f = [p \in R |-> StartOf(lines, p, f)]
  <2>1. n \in T  BY <1>1, <1>7
  <2>2. Upper(n) = R  BY <1>1
  <2>3. QED  BY <2>1, <2>2 DEF T
<1>9. start = [p \in R |-> StartOf(lines, p, start)]  BY <1>8
<1> HIDE DEF start
<1>10. \A p \in R : start[p] = StartOf(lines, p, start)  BY <1>9
<1> DEFINE V == {k \in 0 .. n : \A p \in R : p <= k => start[p] \in Nat}
<1>11. 0 \in V  BY <1>1
<1>12. ASSUME NEW k \in 0 .. n - 1, k \in V PROVE k + 1 \in V
  <2>1. k \in Nat /\ k + 1 \in 0 .. n  BY <1>1
  <2>2. ASSUME NEW p \in R, p <= k + 1 PROVE start[p] \in Nat
    <3>1. p \in Nat /\ lines[p].value.offset \in Nat \cup {None}  BY <1>1
    <3>2. ASSUME Chains(lines, p) PROVE start[prev(p)] + lines[prev(p)].value.length \in Nat
      <4>1. prev(p) \in R /\ prev(p) < p /\ prev(p) \in Nat  BY <1>1, <1>3, <3>2
      <4>2. prev(p) <= k  BY <2>1, <2>2, <3>1, <4>1
      <4>3. start[prev(p)] \in Nat  BY <1>12, <4>1, <4>2
      <4>4. QED  BY <1>1, <4>1, <4>3
    <3>3. QED  BY <1>10, <3>1, <3>2 DEF StartOf, prev
  <2>3. QED  BY <2>1, <2>2
<1> HIDE DEF V
<1>13. 0 .. n \subseteq V  BY <1>1, <1>11, <1>12, UpTo
<1>14. \A p \in R : start[p] \in Nat
  <2>1. n \in V  BY <1>1, <1>13
  <2>2. QED  BY <1>1, <2>1 DEF V
<1>15. QED  BY <1>2, <1>10, <1>14 DEF R

(* Counting on.                                                            *)
LEMMA UptoOn ==
  ASSUME NEW n \in Nat, NEW S \in SUBSET (1 .. n)
  PROVE  /\ Upto(S, 0) = 0 /\ Upto(S, n) = Cardinality(S)
         /\ \A i \in 0 .. n : Upto(S, i) \in Nat
         /\ \A i \in 1 .. n : Upto(S, i) = Upto(S, i - 1) + IF i \in S THEN 1 ELSE 0
         /\ \A p \in S : \A i \in p .. n : Upto(S, p) \in 1 .. Upto(S, i)
<1> DEFINE B(i) == {q \in S : q <= i}
<1>1. IsFiniteSet(S) /\ \A q \in S : q \in 1 .. n /\ q \in Nat
  <2>1. IsFiniteSet(1 .. n) /\ \A q \in S : q \in 1 .. n  BY FS_Interval
  <2>2. IsFiniteSet(S)  BY <2>1, FS_Subset
  <2>3. QED  BY <2>1, <2>2
<1>2. ASSUME NEW i PROVE IsFiniteSet(B(i)) /\ Cardinality(B(i)) \in Nat
  <2>1. B(i) \in SUBSET S  OBVIOUS
  <2> HIDE DEF B
  <2>2. QED  BY <1>1, <2>1, FS_Subset, FS_CardinalityType
<1>3. \A i : Upto(S, i) = Cardinality(B(i))  BY DEF Upto
<1>4. B(0) = {} /\ B(n) = S
  <2>1. \A q \in S : q > 0 /\ q <= n /\ ~(q <= 0)  BY <1>1
  <2>2. QED  BY <2>1
<1>5. ASSUME NEW i \in 1 .. n PROVE Upto(S, i) = Upto(S, i - 1) + IF i \in S THEN 1 ELSE 0
  <2>1. i \in Nat /\ i - 1 \in Nat  OBVIOUS
  <2>2. i \notin B(i - 1)  BY <2>1
  <2>3. \A q \in S : q <= i <=> (q <= i - 1 \/ q = i)  BY <1>1, <2>1
  <2>4. CASE i \in S
    <3>1. B(i) = B(i - 1) \cup {i}  BY <2>1, <2>3, <2>4
    <3> HIDE DEF B
    <3>2. Cardinality(B(i)) = Cardinality(B(i - 1)) + 1  BY <1>2, <2>2, <3>1, FS_AddElement
    <3>3. QED  BY <1>3, <2>4, <3>2
  <2>5. CASE i \notin S
    <3>1. B(i) = B(i - 1)  BY <2>3, <2>5
    <3> HIDE DEF B
    <3>2. QED  BY <1>2, <1>3, <2>5, <3>1
  <2>6. QED  BY <2>4, <2>5
<1>6. ASSUME NEW p \in S, NEW i \in p .. n PROVE Upto(S, p) \in 1 .. Upto(S, i)
  <2>1. p \in Nat /\ i \in Nat /\ p <= i  BY <1>1
  <2>2. B(p) \in SUBSET B(i) /\ p \in B(p)
    <3>1. p <= p /\ \A q \in S : q <= p => q <= i  BY <1>1, <2>1
    <3>2. QED  BY <3>1
  <2> HIDE DEF B
  <2>3. Cardinality(B(p)) <= Cardinality(B(i)) /\ Cardinality(B(p)) # 0
    BY <1>2, <2>2, FS_Subset, FS_EmptySet
  <2>4. QED  BY <1>2, <1>3, <2>3
<1> HIDE DEF B
<1>7. QED  BY <1>2, <1>3, <1>4, <1>5, <1>6, FS_EmptySet

--------------------------------------------------------------------------------
(* What holds before line p, by position.                                  *)
KeyAt(lines, p) ==
  LET k == LastBefore(lines, "key", p) IN IF k = 0 THEN NoKey ELSE ParseKey(lines[k].value)
MapOf(base, v) ==
  [url |-> Resolve(base, v.uri), range |-> IF v.length = None THEN NoRange ELSE ParseByteRange(v, 0)]
InitAt(lines, base, p) ==
  LET k == LastBefore(lines, "map", p) IN IF k = 0 THEN NoInit ELSE MapOf(base, lines[k].value)
DurAt(lines, p) ==
  LET k == LastBefore(lines, "inf", p) IN IF k > UriBefore(lines, p) THEN lines[k].value ELSE 0
DiscAt(lines, p) == LastBefore(lines, "disc", p) > UriBefore(lines, p)
Since(lines, s, p) == Cardinality({q \in Tagged(lines, "uri") : s < q /\ q < p})
SeqAt(lines, p) ==
  LET s == LastBefore(lines, "sequence", p)
  IN (IF s = 0 THEN 0 ELSE lines[s].value) + Since(lines, s, p)
RangeOf(lines, r) == Bytes(RangeStart(lines)[r], RangeStart(lines)[r] + lines[r].value.length - 1)
RangeAt(lines, p) ==
  LET r == LastBefore(lines, "range", p) IN IF r > UriBefore(lines, p) THEN RangeOf(lines, r) ELSE NoRange
NextAt(lines, p) ==
  LET r == LastBefore(lines, "range", p)
  IN IF Chains(lines, p) THEN RangeStart(lines)[r] + lines[r].value.length ELSE 0

(* What a position says of a segment, tag by tag.                        *)
LEMMA SegmentByParts ==
  ASSUME NEW lines, NEW base, NEW p
  PROVE  SegmentAt(lines, base, p) =
           [BlankSegment EXCEPT
              !.url = Resolve(base, lines[p].value), !.dur = DurAt(lines, p), !.key = KeyAt(lines, p),
              !.init = InitAt(lines, base, p), !.seq = SeqAt(lines, p), !.disc = DiscAt(lines, p),
              !.range = RangeAt(lines, p)]
<1> DEFINE url == Resolve(base, lines[p].value)
           key == KeyAt(lines, p)
           init == InitAt(lines, base, p)
           dur == DurAt(lines, p)
           disc == DiscAt(lines, p)
           seq == SeqAt(lines, p)
           range == RangeAt(lines, p)
<1>1. SegmentAt(lines, base, p) =
        [BlankSegment EXCEPT !.url = url, !.key = key, !.init = init, !.dur = dur, !.disc = disc,
                             !.seq = seq, !.range = range]
  <2>1. range = IF ~(LastBefore(lines, "range", p) > UriBefore(lines, p)) THEN NoRange
                ELSE RangeOf(lines, LastBefore(lines, "range", p))
    BY DEF RangeAt
  <2>2. QED  BY <2>1 DEF SegmentAt, KeyAt, InitAt, MapOf, DurAt, DiscAt, SeqAt, Since, RangeOf
<1> HIDE DEF url, key, init, dur, disc, seq, range
<1>2. [BlankSegment EXCEPT !.url = url, !.key = key, !.init = init, !.dur = dur, !.disc = disc,
                           !.seq = seq, !.range = range] =
      [BlankSegment EXCEPT !.url = url, !.dur = dur, !.key = key, !.init = init, !.seq = seq,
                           !.disc = disc, !.range = range]
  BY DEF BlankSegment
<1>3. QED  BY <1>1, <1>2 DEF url, key, init, dur, disc, seq, range

(* What line i changes of it.                                              *)
LEMMA PartsOn ==
  ASSUME NEW lines, IsText(lines), NEW base, NEW i \in 1 .. Len(lines)
  PROVE  LET tag == lines[i].tag
             v   == lines[i].value
             p   == i + 1
         IN /\ KeyAt(lines, p) = IF tag = "key" THEN ParseKey(v) ELSE KeyAt(lines, i)
            /\ InitAt(lines, base, p) = IF tag = "map" THEN MapOf(base, v) ELSE InitAt(lines, base, i)
            /\ DurAt(lines, p) = IF tag = "inf" THEN v ELSE IF tag = "uri" THEN 0 ELSE DurAt(lines, i)
            /\ DiscAt(lines, p) = IF tag = "disc" THEN TRUE ELSE IF tag = "uri" THEN FALSE ELSE DiscAt(lines, i)
            /\ RangeAt(lines, p) = IF tag = "range" THEN RangeOf(lines, i)
                                   ELSE IF tag = "uri" THEN NoRange ELSE RangeAt(lines, i)
<1> DEFINE tag == lines[i].tag
           L(t) == LastBefore(lines, t, i)
           M(t) == LastBefore(lines, t, i + 1)
<1>1. IsList(lines) /\ Len(lines) \in Nat  BY TextIs
<1>2. \A t : M(t) = IF tag = t THEN i ELSE L(t)  BY <1>1, LastOn
<1>3. \A t : L(t) \in Nat /\ L(t) < i
  <2>1. i \in Nat /\ i > 0  BY <1>1
  <2>2. \A t : IsLast(lines, t, i, L(t))  BY <1>1, <2>1, LastIs
  <2> HIDE DEF L
  <2>3. QED  BY <2>1, <2>2 DEF IsLast
<1>4. i \in Nat /\ i # 0  BY <1>1
<1>5. KeyAt(lines, i + 1) = IF tag = "key" THEN ParseKey(lines[i].value) ELSE KeyAt(lines, i)
  <2>1. M("key") = IF tag = "key" THEN i ELSE L("key")  BY <1>2
  <2>2. QED  BY <1>4, <2>1 DEF KeyAt
<1>6. InitAt(lines, base, i + 1) = IF tag = "map" THEN MapOf(base, lines[i].value) ELSE InitAt(lines, base, i)
  <2>1. M("map") = IF tag = "map" THEN i ELSE L("map")  BY <1>2
  <2>2. QED  BY <1>4, <2>1 DEF InitAt
<1>7. M("uri") = IF tag = "uri" THEN i ELSE L("uri")  BY <1>2
<1>8. L("uri") \in Nat /\ L("uri") < i  BY <1>3
<1> HIDE DEF tag
<1>9. DurAt(lines, i + 1) = IF tag = "inf" THEN lines[i].value ELSE IF tag = "uri" THEN 0 ELSE DurAt(lines, i)
  <2>1. M("inf") = (IF tag = "inf" THEN i ELSE L("inf")) /\ L("inf") \in Nat /\ L("inf") < i  BY <1>2, <1>3
  <2>2. DurAt(lines, i + 1) = IF M("inf") > M("uri") THEN lines[M("inf")].value ELSE 0  BY DEF DurAt, UriBefore
  <2>3. DurAt(lines, i) = IF L("inf") > L("uri") THEN lines[L("inf")].value ELSE 0  BY DEF DurAt, UriBefore
  <2> HIDE DEF L, M
  <2>4. QED  BY <1>4, <1>7, <1>8, <2>1, <2>2, <2>3
<1>10. DiscAt(lines, i + 1) = IF tag = "disc" THEN TRUE ELSE IF tag = "uri" THEN FALSE ELSE DiscAt(lines, i)
  <2>1. M("disc") = (IF tag = "disc" THEN i ELSE L("disc")) /\ L("disc") \in Nat /\ L("disc") < i  BY <1>2, <1>3
  <2>2. DiscAt(lines, i + 1) = (M("disc") > M("uri")) /\ DiscAt(lines, i) = (L("disc") > L("uri"))
    BY DEF DiscAt, UriBefore
  <2> HIDE DEF L, M
  <2>3. CASE tag = "disc"  BY <1>4, <1>7, <1>8, <2>1, <2>2, <2>3
  <2>4. CASE tag = "uri"
    <3>1. M("disc") < i /\ M("uri") = i /\ M("disc") \in Nat  BY <1>7, <2>1, <2>4
    <3>2. (M("disc") > M("uri")) = FALSE  BY <1>4, <3>1
    <3>3. QED  BY <2>2, <2>4, <3>2
  <2>5. CASE tag # "disc" /\ tag # "uri"  BY <1>7, <2>1, <2>2, <2>5
  <2>6. QED  BY <2>3, <2>4, <2>5
<1>11. RangeAt(lines, i + 1) = IF tag = "range" THEN RangeOf(lines, i)
                               ELSE IF tag = "uri" THEN NoRange ELSE RangeAt(lines, i)
  <2>1. M("range") = (IF tag = "range" THEN i ELSE L("range")) /\ L("range") \in Nat /\ L("range") < i
    BY <1>2, <1>3
  <2>2. RangeAt(lines, i + 1) = IF M("range") > M("uri") THEN RangeOf(lines, M("range")) ELSE NoRange
    BY DEF RangeAt, UriBefore
  <2>3. RangeAt(lines, i) = IF L("range") > L("uri") THEN RangeOf(lines, L("range")) ELSE NoRange
    BY DEF RangeAt, UriBefore
  <2> HIDE DEF L, M
  <2>4. QED  BY <1>4, <1>7, <1>8, <2>1, <2>2, <2>3
<1>12. QED  BY <1>5, <1>6, <1>9, <1>10, <1>11 DEF tag

(* A range is a range, and the next one without an offset chains to it.    *)
LEMMA NextOn ==
  ASSUME NEW lines, IsText(lines), NEW i \in 1 .. Len(lines)
  PROVE  LET tag == lines[i].tag
             v   == lines[i].value
             p   == i + 1
         IN /\ tag = "range" =>
                 LET r == ParseByteRange(v, NextAt(lines, i))
                 IN r = RangeOf(lines, i) /\ NextAt(lines, p) = r.last + 1
            /\ tag = "uri" =>
                 NextAt(lines, p) = IF RangeAt(lines, i) = NoRange THEN 0 ELSE NextAt(lines, i)
            /\ tag \notin {"range", "uri"} => NextAt(lines, p) = NextAt(lines, i)
<1> DEFINE tag == lines[i].tag
           L(t) == LastBefore(lines, t, i)
           M(t) == LastBefore(lines, t, i + 1)
           start == RangeStart(lines)
           length(r) == lines[r].value.length
<1>1. IsList(lines) /\ Len(lines) \in Nat /\ DOMAIN lines = 1 .. Len(lines)  BY TextIs
<1>2. M("uri") = (IF tag = "uri" THEN i ELSE L("uri")) /\ M("range") = (IF tag = "range" THEN i ELSE L("range"))
  BY <1>1, LastOn
<1>3. i \in Nat /\ i # 0  BY <1>1
<1>4. /\ L("uri") \in Nat /\ L("uri") < i /\ L("range") \in Nat /\ L("range") < i
      /\ L("range") # 0 => L("range") \in Tagged(lines, "range")
  <2>1. IsLast(lines, "uri", i, L("uri")) /\ IsLast(lines, "range", i, L("range"))  BY <1>1, <1>3, LastIs
  <2> HIDE DEF L
  <2>2. QED  BY <1>3, <2>1 DEF IsLast
<1>5. /\ NextAt(lines, i) = IF Chains(lines, i) THEN start[L("range")] + length(L("range")) ELSE 0
      /\ NextAt(lines, i + 1) = IF Chains(lines, i + 1) THEN start[M("range")] + length(M("range")) ELSE 0
  BY DEF NextAt
<1>6. /\ Chains(lines, i) <=> (L("range") # 0 /\ (L("uri") < L("range") \/ UriBefore(lines, L("uri")) < L("range")))
      /\ Chains(lines, i + 1) <=>
           (M("range") # 0 /\ (M("uri") < M("range") \/ UriBefore(lines, M("uri")) < M("range")))
  BY DEF Chains, UriBefore
<1>7. \A r \in Tagged(lines, "range") :
        /\ start[r] \in Nat /\ length(r) \in Nat
        /\ start[r] = IF lines[r].value.offset # None THEN lines[r].value.offset ELSE NextAt(lines, r)
  BY TextIs, RangeStarts DEF StartOf, NextAt
<1>8. CASE tag = "range"
  <2>1. i \in Tagged(lines, "range")  BY <1>1, <1>8 DEF Tagged
  <2>2. start[i] \in Nat /\ length(i) \in Nat  BY <1>7, <2>1
  <2> DEFINE r == ParseByteRange(lines[i].value, NextAt(lines, i))
  <2>3. r = RangeOf(lines, i)  BY <1>7, <2>1 DEF ParseByteRange, RangeOf
  <2>4. r.last = start[i] + length(i) - 1  BY <2>3 DEF RangeOf, Bytes
  <2> HIDE DEF r, L, M, start, length
  <2>5. M("range") = i /\ M("uri") = L("uri")  BY <1>2, <1>8
  <2>6. Chains(lines, i + 1)  BY <1>3, <1>4, <1>6, <2>5
  <2>7. NextAt(lines, i + 1) = start[i] + length(i)  BY <1>5, <2>5, <2>6
  <2>8. NextAt(lines, i + 1) = r.last + 1  BY <2>2, <2>4, <2>7
  <2>9. QED  BY <1>8, <2>3, <2>8 DEF r
<1>9. CASE tag = "uri"
  <2>1. RangeAt(lines, i) = IF L("range") > L("uri") THEN RangeOf(lines, L("range")) ELSE NoRange
    BY DEF RangeAt, UriBefore
  <2>2. M("uri") = i /\ M("range") = L("range") /\ UriBefore(lines, i) = L("uri")  BY <1>2, <1>9 DEF UriBefore
  <2> HIDE DEF L, M, start, length
  <2>3. Chains(lines, i + 1) <=> L("range") > L("uri")  BY <1>3, <1>4, <1>6, <2>2
  <2>4. L("range") > L("uri") => Chains(lines, i)  BY <1>4, <1>6
  <2>5. ASSUME L("range") > L("uri") PROVE RangeAt(lines, i) # NoRange
    <3>1. L("range") \in Tagged(lines, "range")  BY <1>4, <2>5
    <3>2. start[L("range")] \in Nat  BY <1>7, <3>1
    <3>3. RangeAt(lines, i).first = start[L("range")]  BY <2>1, <2>5 DEF RangeOf, Bytes, start
    <3>4. NoRange.first = -1  BY DEF NoRange, Bytes, None
    <3>5. RangeAt(lines, i).first # NoRange.first  BY <3>2, <3>3, <3>4
    <3>6. QED  BY <3>5
  <2>6. CASE L("range") > L("uri")
    <3>1. NextAt(lines, i + 1) = NextAt(lines, i)  BY <1>5, <2>2, <2>3, <2>4, <2>6
    <3>2. QED  BY <1>9, <2>5, <2>6, <3>1
  <2>7. CASE ~(L("range") > L("uri"))
    <3>1. NextAt(lines, i + 1) = 0 /\ RangeAt(lines, i) = NoRange  BY <1>5, <2>1, <2>3, <2>7
    <3>2. QED  BY <1>9, <3>1
  <2>8. QED  BY <2>6, <2>7
<1>10. CASE tag \notin {"range", "uri"}
  <2>1. M("uri") = L("uri") /\ M("range") = L("range")  BY <1>2, <1>10
  <2> HIDE DEF L, M, start, length
  <2>2. NextAt(lines, i + 1) = NextAt(lines, i)  BY <1>5, <1>6, <2>1
  <2>3. QED  BY <1>10, <2>2
<1>11. QED  BY <1>8, <1>9, <1>10

(* URIs number on from the sequence number.                                *)
LEMMA SeqOn ==
  ASSUME NEW lines, IsText(lines), NEW i \in 1 .. Len(lines)
  PROVE  LET tag == lines[i].tag
         IN /\ SeqAt(lines, i) \in Int
            /\ SeqAt(lines, i + 1) = IF tag = "sequence" THEN lines[i].value
                                     ELSE IF tag = "uri" THEN SeqAt(lines, i) + 1 ELSE SeqAt(lines, i)
<1> DEFINE tag == lines[i].tag
           L == LastBefore(lines, "sequence", i)
           M == LastBefore(lines, "sequence", i + 1)
           U == Tagged(lines, "uri")
           B(s, p) == {q \in U : s < q /\ q < p}
           from(s) == IF s = 0 THEN 0 ELSE lines[s].value
<1>1. IsList(lines) /\ Len(lines) \in Nat /\ DOMAIN lines = 1 .. Len(lines)  BY TextIs
<1>2. M = IF tag = "sequence" THEN i ELSE L  BY <1>1, LastOn
<1>3. i \in Nat /\ i # 0  BY <1>1
<1>4. L \in Nat /\ L < i /\ (L # 0 => L \in Tagged(lines, "sequence"))
  <2>1. IsLast(lines, "sequence", i, L)  BY <1>1, <1>3, LastIs
  <2> HIDE DEF L
  <2>2. QED  BY <1>3, <2>1 DEF IsLast
<1>5. from(L) \in Int  BY <1>4, TextIs
<1>6. U \in SUBSET (1 .. Len(lines)) /\ IsFiniteSet(U)
  <2>1. U \in SUBSET (1 .. Len(lines))  BY <1>1 DEF Tagged
  <2>2. IsFiniteSet(1 .. Len(lines))  BY <1>1, FS_Interval
  <2> HIDE DEF U
  <2>3. QED  BY <2>1, <2>2, FS_Subset
<1>7. i \in U <=> tag = "uri"  BY <1>1 DEF Tagged
<1>8. ASSUME NEW s, NEW p PROVE IsFiniteSet(B(s, p)) /\ Cardinality(B(s, p)) \in Nat
  <2>1. B(s, p) \in SUBSET U  OBVIOUS
  <2> HIDE DEF B, U
  <2>2. QED  BY <1>6, <2>1, FS_Subset, FS_CardinalityType
<1>9. /\ SeqAt(lines, i) = from(L) + Cardinality(B(L, i))
      /\ SeqAt(lines, i + 1) = from(M) + Cardinality(B(M, i + 1))
  BY DEF SeqAt, Since
<1>10. \A q \in U : q \in Nat  BY <1>6
<1>11. SeqAt(lines, i) \in Int
  <2>1. Cardinality(B(L, i)) \in Nat  BY <1>8
  <2> HIDE DEF B, from, L
  <2>2. QED  BY <1>5, <1>9, <2>1
<1> HIDE DEF U, L, M
<1>12. CASE tag = "sequence"
  <2>1. M = i  BY <1>2, <1>12
  <2>2. B(i, i + 1) = {}  BY <1>3, <1>10
  <2>3. Cardinality(B(M, i + 1)) = 0  BY <2>1, <2>2, FS_EmptySet
  <2>4. from(M) = lines[i].value /\ lines[i].value \in Int
    <3>1. i \in Tagged(lines, "sequence")  BY <1>1, <1>12 DEF Tagged
    <3>2. QED  BY <1>3, <2>1, <3>1, TextIs
  <2> HIDE DEF from, B
  <2>5. SeqAt(lines, i + 1) = lines[i].value  BY <1>9, <2>3, <2>4
  <2>6. QED  BY <1>11, <1>12, <2>5
<1>13. CASE tag = "uri"
  <2>1. M = L  BY <1>2, <1>13
  <2>2. \A q \in U : (L < q /\ q < i + 1) <=> ((L < q /\ q < i) \/ q = i)  BY <1>3, <1>4, <1>10
  <2>3. i \in U  BY <1>7, <1>13
  <2>4. B(L, i + 1) = B(L, i) \cup {i} /\ i \notin B(L, i)
    <3>1. i \notin B(L, i)  BY <1>3
    <3>2. L < i /\ i < i + 1  BY <1>3, <1>4
    <3>3. B(L, i + 1) = B(L, i) \cup {i}
      <4>1. ASSUME NEW q \in B(L, i + 1) PROVE q \in B(L, i) \cup {i}  BY <2>2
      <4>2. ASSUME NEW q \in B(L, i) \cup {i} PROVE q \in B(L, i + 1)  BY <2>2, <2>3, <3>2
      <4>3. QED  BY <4>1, <4>2
    <3>4. QED  BY <3>1, <3>3
  <2> HIDE DEF from, B
  <2>5. Cardinality(B(L, i + 1)) = Cardinality(B(L, i)) + 1  BY <1>8, <2>4, FS_AddElement
  <2>6. SeqAt(lines, i + 1) = SeqAt(lines, i) + 1  BY <1>5, <1>8, <1>9, <2>1, <2>5
  <2>7. QED  BY <1>11, <1>13, <2>6
<1>14. CASE tag \notin {"sequence", "uri"}
  <2>1. M = L  BY <1>2, <1>14
  <2>2. \A q \in U : (L < q /\ q < i + 1) <=> (L < q /\ q < i)
    <3>1. i \notin U  BY <1>7, <1>14
    <3>2. QED  BY <1>3, <1>4, <1>10, <3>1
  <2>3. B(L, i + 1) = B(L, i)  BY <2>2
  <2> HIDE DEF from, B
  <2>4. SeqAt(lines, i + 1) = SeqAt(lines, i)  BY <1>9, <2>1, <2>3
  <2>5. QED  BY <1>11, <1>14, <2>4
<1>15. QED  BY <1>12, <1>13, <1>14

(* Before the first line.                                                  *)
LEMMA PartsFirst ==
  ASSUME NEW lines, IsText(lines), NEW base
  PROVE  /\ KeyAt(lines, 1) = NoKey /\ InitAt(lines, base, 1) = NoInit /\ DurAt(lines, 1) = 0
         /\ DiscAt(lines, 1) = FALSE /\ SeqAt(lines, 1) = 0 /\ RangeAt(lines, 1) = NoRange
         /\ NextAt(lines, 1) = 0
<1>1. IsList(lines)  BY TextIs
<1>2. \A tag : LastBefore(lines, tag, 1) = 0  BY <1>1, LastFirst
<1>3. UriBefore(lines, 1) = 0  BY <1>2 DEF UriBefore
<1>4. Since(lines, 0, 1) = 0
  <2>1. {q \in Tagged(lines, "uri") : 0 < q /\ q < 1} = {}
    <3>1. \A q \in Tagged(lines, "uri") : q \in Int  BY TextIs DEF Tagged
    <3>2. QED  BY <3>1
  <2>2. QED  BY <2>1, FS_EmptySet DEF Since
<1>5. QED
  <2>1. KeyAt(lines, 1) = NoKey /\ InitAt(lines, base, 1) = NoInit  BY <1>2 DEF KeyAt, InitAt
  <2>2. DurAt(lines, 1) = 0 /\ RangeAt(lines, 1) = NoRange  BY <1>2, <1>3 DEF DurAt, RangeAt
  <2>3. DiscAt(lines, 1) = FALSE
    <3>1. DiscAt(lines, 1) = (0 > 0)  BY <1>2, <1>3 DEF DiscAt
    <3>2. (0 > 0) = FALSE  OBVIOUS
    <3>3. QED  BY <3>1, <3>2
  <2>4. SeqAt(lines, 1) = 0 /\ NextAt(lines, 1) = 0  BY <1>2, <1>4 DEF SeqAt, NextAt, Chains
  <2>5. QED  BY <2>1, <2>2, <2>3, <2>4

(* The playlist is read line by line.                                      *)
MediaStep(lines, base, acc, i) == IF acc.err THEN acc ELSE MediaLine(acc, base, lines[i])
MediaWalk(lines, base, f) ==
  /\ f[0] = Unread
  /\ \A i \in 1 .. Len(lines) : f[i] = MediaStep(lines, base, f[i - 1], i)

(* ReadMedia walks the lines one after another.                          *)
LEMMA MediaWalks ==
  ASSUME NEW lines, IsText(lines), NEW base
  PROVE  \E f : MediaWalk(lines, base, f) /\ ReadMedia(lines, base) = f[Len(lines)]
<1> DEFINE n == Len(lines)
           E(f, i) == IF i = 0 THEN Unread ELSE MediaStep(lines, base, f[i - 1], i)
           D(f, k) == [i \in 0 .. k |-> E(f, i)]
           read == CHOOSE f : f = D(f, n)
           T == {k \in 0 .. n : \E f : f = D(f, k)}
<1>1. n \in Nat  BY TextIs
<1>2. ReadMedia(lines, base) = read[n]  BY DEF ReadMedia, MediaStep
<1> HIDE DEF n
<1>3. ASSUME NEW k \in 0 .. n, NEW f, NEW g, \A i \in 0 .. k - 1 : f[i] = g[i]
      PROVE  E(f, k) = E(g, k)
  BY <1>1, <1>3
<1>4. 0 \in T
  <2> DEFINE e == [i \in 0 .. 0 |-> Unread]
  <2>1. e = [i \in 0 .. 0 |-> e[i]] /\ \A i \in 0 .. 0 : e[i] = Unread /\ i = 0  OBVIOUS
  <2> HIDE DEF e
  <2>2. e = D(e, 0)  BY <2>1
  <2>3. QED  BY <1>1, <2>2
<1> HIDE DEF E
<1>5. ASSUME NEW k \in 0 .. n - 1, k \in T PROVE k + 1 \in T
  <2>1. PICK f : f = D(f, k)  BY <1>5
  <2>2. k \in Nat /\ k + 1 \in 0 .. n /\ (k + 1) - 1 = k  BY <1>1
  <2> DEFINE g == [i \in 0 .. k + 1 |-> IF i <= k THEN f[i] ELSE E(f, i)]
  <2>3. \A i \in 0 .. k : f[i] = g[i] /\ f[i] = E(f, i)  BY <2>1, <2>2
  <2>4. ASSUME NEW i \in 0 .. k + 1 PROVE g[i] = E(g, i)
    <3>1. i \in 0 .. n /\ \A j \in 0 .. i - 1 : j \in 0 .. k  BY <1>1, <2>2
    <3>2. E(f, i) = E(g, i)
      <4>1. \A j \in 0 .. i - 1 : f[j] = g[j]  BY <2>3, <3>1
      <4> HIDE DEF g
      <4>2. QED  BY <1>3, <3>1, <4>1
    <3>3. g[i] = E(f, i)
      <4>1. CASE i <= k
        <5>1. i \in 0 .. k  BY <2>2, <4>1
        <5> HIDE DEF g
        <5>2. QED  BY <2>3, <5>1
      <4>2. CASE ~(i <= k)  BY <4>2
      <4>3. QED  BY <4>1, <4>2
    <3>4. QED  BY <3>2, <3>3
  <2>5. g = [i \in 0 .. k + 1 |-> g[i]]  OBVIOUS
  <2> HIDE DEF g, T
  <2>6. g = D(g, k + 1)  BY <2>4, <2>5
  <2>7. QED  BY <2>2, <2>6 DEF T
<1> HIDE DEF T
<1>6. 0 .. n \subseteq T  BY <1>1, <1>4, <1>5, UpTo
<1>7. \E f : f = D(f, n)
  <2>1. n \in T  BY <1>1, <1>6
  <2>2. QED  BY <2>1 DEF T
<1>8. read = D(read, n)  BY <1>7
<1> HIDE DEF read
<1>9. \A i \in 0 .. n : read[i] = E(read, i)  BY <1>8
<1>10. MediaWalk(lines, base, read)
  <2>1. 0 \in 0 .. n /\ \A i \in 1 .. n : i \in 0 .. n /\ i # 0  BY <1>1
  <2>2. QED  BY <1>9, <2>1 DEF MediaWalk, n, E
<1>11. QED  BY <1>2, <1>10 DEF n

(* After i lines: what is carried is what the lines before say by their    *)
(* position, and so is each segment.                                       *)
SegmentsAt(lines, base) == {SegmentAt(lines, base, p) : p \in Tagged(lines, "uri")}
Carried(lines, base, p, acc) ==
  acc = [err |-> acc.err, live |-> acc.live, target |-> acc.target, segs |-> acc.segs,
         seq |-> SeqAt(lines, p), key |-> KeyAt(lines, p), init |-> InitAt(lines, base, p),
         dur |-> DurAt(lines, p), disc |-> DiscAt(lines, p), next |-> NextAt(lines, p),
         range |-> RangeAt(lines, p)]
MediaInv(lines, base, i, acc) ==
  LET uris == Tagged(lines, "uri")
  IN /\ Carried(lines, base, i + 1, acc)
     /\ acc.segs \in Seq(SegmentsAt(lines, base)) /\ Len(acc.segs) = Upto(uris, i)
     /\ \A p \in uris : p <= i => acc.segs[Upto(uris, p)] = SegmentAt(lines, base, p)

(* What is carried to a line is what the lines before it say; a URI      *)
(* makes a segment of it.                                                *)
LEMMA CarriedOn ==
  ASSUME NEW lines, IsText(lines), NEW base, NEW i \in 1 .. Len(lines), NEW acc,
         Carried(lines, base, i, acc)
  PROVE  LET new == MediaLine(acc, base, lines[i])
         IN /\ Carried(lines, base, i + 1, new)
            /\ new.segs = IF lines[i].tag = "uri" THEN Append(acc.segs, SegmentAt(lines, base, i))
                          ELSE acc.segs
<1> DEFINE tag == lines[i].tag
           v == lines[i].value
           new == MediaLine(acc, base, lines[i])
           seq == SeqAt(lines, i)
           key == KeyAt(lines, i)
           init == InitAt(lines, base, i)
           dur == DurAt(lines, i)
           disc == DiscAt(lines, i)
           next == NextAt(lines, i)
           range == RangeAt(lines, i)
           seqq == SeqAt(lines, i + 1)
           keyy == KeyAt(lines, i + 1)
           initt == InitAt(lines, base, i + 1)
           durr == DurAt(lines, i + 1)
           discc == DiscAt(lines, i + 1)
           nextt == NextAt(lines, i + 1)
           rangee == RangeAt(lines, i + 1)
           R(err, live, target, segs, sq, ky, it, du, di, ne, ra) ==
             [err |-> err, live |-> live, target |-> target, segs |-> segs, seq |-> sq, key |-> ky,
              init |-> it, dur |-> du, disc |-> di, next |-> ne, range |-> ra]
<1>1. acc = R(acc.err, acc.live, acc.target, acc.segs, seq, key, init, dur, disc, next, range)
  BY DEF Carried
<1>2. /\ keyy = IF tag = "key" THEN ParseKey(v) ELSE key
      /\ initt = IF tag = "map" THEN MapOf(base, v) ELSE init
      /\ durr = IF tag = "inf" THEN v ELSE IF tag = "uri" THEN 0 ELSE dur
      /\ discc = IF tag = "disc" THEN TRUE ELSE IF tag = "uri" THEN FALSE ELSE disc
      /\ rangee = IF tag = "range" THEN RangeOf(lines, i) ELSE IF tag = "uri" THEN NoRange ELSE range
  BY PartsOn
<1>3. seqq = IF tag = "sequence" THEN v ELSE IF tag = "uri" THEN seq + 1 ELSE seq  BY SeqOn
<1>4. /\ tag = "range" => ParseByteRange(v, next) = RangeOf(lines, i)
                          /\ nextt = ParseByteRange(v, next).last + 1
      /\ tag = "uri" => nextt = IF range = NoRange THEN 0 ELSE next
      /\ tag \notin {"range", "uri"} => nextt = next
  BY NextOn
<1>5. SegmentAt(lines, base, i) =
        [BlankSegment EXCEPT !.url = Resolve(base, v), !.dur = dur, !.key = key, !.init = init,
                             !.seq = seq, !.disc = disc, !.range = range]
  BY SegmentByParts
<1> HIDE DEF seq, key, init, dur, disc, next, range, seqq, keyy, initt, durr, discc, nextt, rangee
<1>6. /\ acc.seq = seq /\ acc.key = key /\ acc.init = init /\ acc.dur = dur /\ acc.disc = disc
      /\ acc.next = next /\ acc.range = range
  BY <1>1
<1> SUFFICES /\ new = R(new.err, new.live, new.target, new.segs, seqq, keyy, initt, durr, discc, nextt, rangee)
             /\ new.segs = IF tag = "uri" THEN Append(acc.segs, SegmentAt(lines, base, i)) ELSE acc.segs
  BY DEF Carried, seqq, keyy, initt, durr, discc, nextt, rangee
<1>7. CASE tag = "target"
  <2>1. new = [acc EXCEPT !.target = v]  BY <1>7 DEF MediaLine
  <2> HIDE DEF new
  <2>2. new = R(acc.err, acc.live, v, acc.segs, seq, key, init, dur, disc, next, range)  BY <1>1, <2>1
  <2>3. QED  BY <1>2, <1>3, <1>4, <1>7, <2>2
<1>8. CASE tag = "sequence"
  <2>1. new = [acc EXCEPT !.seq = v]  BY <1>8 DEF MediaLine
  <2> HIDE DEF new
  <2>2. new = R(acc.err, acc.live, acc.target, acc.segs, v, key, init, dur, disc, next, range)  BY <1>1, <2>1
  <2>3. QED  BY <1>2, <1>3, <1>4, <1>8, <2>2
<1>9. CASE tag \in {"vod", "endlist"}
  <2> DEFINE no == FALSE
  <2>1. new = [acc EXCEPT !.live = no]  BY <1>9 DEF MediaLine
  <2> HIDE DEF new, no
  <2>2. new = R(acc.err, no, acc.target, acc.segs, seq, key, init, dur, disc, next, range)  BY <1>1, <2>1
  <2>3. QED  BY <1>2, <1>3, <1>4, <1>9, <2>2
<1>10. CASE tag = "disc"
  <2> DEFINE yes == TRUE
  <2>1. new = [acc EXCEPT !.disc = yes]  BY <1>10 DEF MediaLine
  <2> HIDE DEF new, yes
  <2>2. new = R(acc.err, acc.live, acc.target, acc.segs, seq, key, init, dur, yes, next, range)  BY <1>1, <2>1
  <2>3. discc = yes  BY <1>2, <1>10 DEF yes
  <2>4. QED  BY <1>2, <1>3, <1>4, <1>10, <2>2, <2>3
<1>11. CASE tag = "key"
  <2> DEFINE bad == v.method # "NONE" /\ v.badIV
  <2> DEFINE keyed == [acc EXCEPT !.key = ParseKey(v)]
  <2>1. new = [acc EXCEPT !.key = ParseKey(v), !.err = bad]  BY <1>11 DEF MediaLine
  <2> HIDE DEF new, bad
  <2>a. new = [keyed EXCEPT !.err = bad]  BY <2>1
  <2>b. keyed = R(acc.err, acc.live, acc.target, acc.segs, seq, ParseKey(v), init, dur, disc, next, range)  BY <1>1
  <2> HIDE DEF keyed
  <2>2. new = R(bad, acc.live, acc.target, acc.segs, seq, ParseKey(v), init, dur, disc, next, range)
    BY <2>a, <2>b
  <2>3. QED  BY <1>2, <1>3, <1>4, <1>11, <2>2
<1>12. CASE tag = "map"
  <2>1. new = [acc EXCEPT !.init = MapOf(base, v)]  BY <1>12 DEF MediaLine, MapOf
  <2> HIDE DEF new
  <2>2. new = R(acc.err, acc.live, acc.target, acc.segs, seq, key, MapOf(base, v), dur, disc, next, range)
    BY <1>1, <2>1
  <2>3. QED  BY <1>2, <1>3, <1>4, <1>12, <2>2
<1>13. CASE tag = "inf"
  <2>1. new = [acc EXCEPT !.dur = v]  BY <1>13 DEF MediaLine
  <2> HIDE DEF new
  <2>2. new = R(acc.err, acc.live, acc.target, acc.segs, seq, key, init, v, disc, next, range)  BY <1>1, <2>1
  <2>3. QED  BY <1>2, <1>3, <1>4, <1>13, <2>2
<1>14. CASE tag = "range"
  <2> DEFINE r == ParseByteRange(v, next)
  <2>1. new = [acc EXCEPT !.range = r, !.next = r.last + 1]  BY <1>6, <1>14 DEF MediaLine
  <2> DEFINE ranged == [acc EXCEPT !.range = r]
  <2> HIDE DEF new, r
  <2>a. new = [ranged EXCEPT !.next = r.last + 1]  BY <2>1
  <2>b. ranged = R(acc.err, acc.live, acc.target, acc.segs, seq, key, init, dur, disc, next, r)  BY <1>1
  <2> HIDE DEF ranged
  <2>2. new = R(acc.err, acc.live, acc.target, acc.segs, seq, key, init, dur, disc, r.last + 1, r)
    BY <2>a, <2>b
  <2>3. r = RangeOf(lines, i) /\ nextt = r.last + 1  BY <1>4, <1>14 DEF r
  <2>4. QED  BY <1>2, <1>3, <1>14, <2>2, <2>3
<1>15. CASE tag = "uri"
  <2> DEFINE seg == SegmentAt(lines, base, i)
             more == Append(acc.segs, seg)
             after == IF range = NoRange THEN 0 ELSE next
  <2>1. new = Closed(acc, base, v)  BY <1>15 DEF MediaLine
  <2> DEFINE no == FALSE
             a == [acc EXCEPT !.segs = more]
             b == [a EXCEPT !.next = after]
             c == [b EXCEPT !.seq = seq + 1]
             d == [c EXCEPT !.dur = 0]
             e == [d EXCEPT !.disc = no]
  <2>2. new = [acc EXCEPT !.segs = more, !.next = after, !.seq = seq + 1, !.dur = 0, !.disc = no,
                          !.range = NoRange]
    BY <1>5, <1>6, <2>1 DEF Closed, NextByte
  <2> HIDE DEF new, more, after, no
  <2>a. new = [e EXCEPT !.range = NoRange]  BY <2>2
  <2>b. a = R(acc.err, acc.live, acc.target, more, seq, key, init, dur, disc, next, range)  BY <1>1
  <2> HIDE DEF a
  <2>c. b = R(acc.err, acc.live, acc.target, more, seq, key, init, dur, disc, after, range)  BY <2>b
  <2> HIDE DEF b
  <2>d. c = R(acc.err, acc.live, acc.target, more, seq + 1, key, init, dur, disc, after, range)  BY <2>c
  <2> HIDE DEF c
  <2>e. d = R(acc.err, acc.live, acc.target, more, seq + 1, key, init, 0, disc, after, range)  BY <2>d
  <2> HIDE DEF d
  <2>f. e = R(acc.err, acc.live, acc.target, more, seq + 1, key, init, 0, no, after, range)  BY <2>e
  <2> HIDE DEF e
  <2>3. new = R(acc.err, acc.live, acc.target, more, seq + 1, key, init, 0, no, after, NoRange)
    BY <2>a, <2>f
  <2>4. nextt = after  BY <1>4, <1>15 DEF after
  <2>5. discc = no  BY <1>2, <1>15 DEF no
  <2>6. QED  BY <1>2, <1>3, <1>15, <2>3, <2>4, <2>5 DEF more
<1>16. CASE tag \notin {"target", "sequence", "vod", "endlist", "disc", "key", "map", "inf", "range", "uri"}
  <2>1. new = acc  BY <1>16 DEF MediaLine
  <2> HIDE DEF new
  <2>2. QED  BY <1>1, <1>2, <1>3, <1>4, <1>16, <2>1
<1>17. QED
  BY <1>7, <1>8, <1>9, <1>10, <1>11, <1>12, <1>13, <1>14, <1>15, <1>16

(* One line of a media playlist keeps the segments read by position.     *)
LEMMA MediaOn ==
  ASSUME NEW lines, IsText(lines), NEW base, NEW i \in 1 .. Len(lines), NEW acc,
         MediaInv(lines, base, i - 1, acc)
  PROVE  MediaInv(lines, base, i, MediaLine(acc, base, lines[i]))
<1> DEFINE new == MediaLine(acc, base, lines[i])
           uris == Tagged(lines, "uri")
           S == SegmentsAt(lines, base)
           seg(p) == SegmentAt(lines, base, p)
           n == Len(lines)
<1>1. n \in Nat /\ i \in 1 .. n /\ i \in Nat /\ i - 1 \in 0 .. n /\ (i - 1) + 1 = i /\ DOMAIN lines = 1 .. n
  BY TextIs
<1>2. Carried(lines, base, i, acc)  BY <1>1 DEF MediaInv
<1>3. /\ acc.segs \in Seq(S) /\ Len(acc.segs) = Upto(uris, i - 1)
      /\ \A p \in uris : p <= i - 1 => acc.segs[Upto(uris, p)] = seg(p)
  BY DEF MediaInv
<1>4. /\ Carried(lines, base, i + 1, new)
      /\ new.segs = IF lines[i].tag = "uri" THEN Append(acc.segs, seg(i)) ELSE acc.segs
  BY <1>2, CarriedOn
<1>5. uris \in SUBSET (1 .. n) /\ (i \in uris <=> lines[i].tag = "uri")  BY <1>1 DEF Tagged
<1>6. \A p \in uris : seg(p) \in S  BY DEF SegmentsAt
<1> HIDE DEF uris, S, seg, n, new
<1>7. /\ Upto(uris, i) = Upto(uris, i - 1) + IF i \in uris THEN 1 ELSE 0
      /\ Upto(uris, i - 1) \in Nat
      /\ \A p \in uris : p <= i - 1 => Upto(uris, p) \in 1 .. Upto(uris, i - 1)
  <2>1. \A p \in uris : p <= i - 1 => i - 1 \in p .. n  BY <1>1, <1>5
  <2>2. \A k \in 1 .. n : Upto(uris, k) = Upto(uris, k - 1) + IF k \in uris THEN 1 ELSE 0
    BY <1>1, <1>5, UptoOn
  <2>3. \A k \in 0 .. n : Upto(uris, k) \in Nat  BY <1>1, <1>5, UptoOn
  <2>4. \A p \in uris : \A k \in p .. n : Upto(uris, p) \in 1 .. Upto(uris, k)  BY <1>1, <1>5, UptoOn
  <2>5. \A p \in uris : p <= i - 1 => Upto(uris, p) \in 1 .. Upto(uris, i - 1)  BY <2>1, <2>4
  <2>6. QED  BY <1>1, <2>2, <2>3, <2>5
<1>8. CASE i \in uris
  <2>1. new.segs = Append(acc.segs, seg(i)) /\ seg(i) \in S  BY <1>4, <1>5, <1>6, <1>8
  <2>2. /\ new.segs \in Seq(S) /\ Len(new.segs) = Len(acc.segs) + 1
        /\ new.segs[Len(acc.segs) + 1] = seg(i)
        /\ \A k \in 1 .. Len(acc.segs) : new.segs[k] = acc.segs[k]
    BY <1>3, <2>1
  <2>3. Upto(uris, i) = Len(acc.segs) + 1  BY <1>3, <1>7, <1>8
  <2>4. ASSUME NEW p \in uris, p <= i PROVE new.segs[Upto(uris, p)] = seg(p)
    <3>1. CASE p = i  BY <2>2, <2>3, <3>1
    <3>2. CASE p # i
      <4>1. p \in Nat /\ p <= i - 1  BY <1>1, <1>5, <2>4, <3>2
      <4>2. Upto(uris, p) \in 1 .. Len(acc.segs)  BY <1>3, <1>7, <4>1
      <4>3. acc.segs[Upto(uris, p)] = seg(p)  BY <1>3, <4>1
      <4>4. QED  BY <2>2, <4>2, <4>3
    <3>3. QED  BY <3>1, <3>2
  <2>5. QED  BY <1>4, <2>2, <2>3, <2>4 DEF MediaInv, uris, S, seg, new
<1>9. CASE i \notin uris
  <2>1. new.segs = acc.segs /\ Upto(uris, i) = Upto(uris, i - 1)  BY <1>4, <1>5, <1>7, <1>9
  <2>2. \A p \in uris : p <= i => p <= i - 1  BY <1>1, <1>5, <1>9
  <2>3. QED  BY <1>3, <1>4, <2>1, <2>2 DEF MediaInv, uris, S, seg, new
<1>10. QED  BY <1>8, <1>9

(* A playlist that is not refused says of each URI what its position says. *)
LEMMA MediaListed ==
  ASSUME NEW lines, IsText(lines), NEW base, ~ReadMedia(lines, base).err
  PROVE  MediaByPosition(lines, base, ReadMedia(lines, base).segs)
<1> DEFINE n == Len(lines)
           uris == Tagged(lines, "uri")
<1>1. n \in Nat /\ DOMAIN lines = 1 .. n  BY TextIs
<1>2. PICK f : MediaWalk(lines, base, f) /\ ReadMedia(lines, base) = f[n]  BY MediaWalks
<1> DEFINE T == {i \in 0 .. n : ~f[i].err => MediaInv(lines, base, i, f[i])}
<1>3. uris \in SUBSET (1 .. n)  BY <1>1 DEF Tagged
<1>4. 0 \in T
  <2>1. f[0] = Unread  BY <1>2 DEF MediaWalk
  <2>2. Carried(lines, base, 0 + 1, Unread)
    <3>1. Carried(lines, base, 1, Unread)
      <4>1. Unread = [err |-> Unread.err, live |-> Unread.live, target |-> Unread.target,
                      segs |-> Unread.segs, seq |-> 0, key |-> NoKey, init |-> NoInit, dur |-> 0,
                      disc |-> FALSE, next |-> 0, range |-> NoRange]
        BY DEF Unread
      <4>2. QED  BY <4>1, PartsFirst DEF Carried
    <3>2. 0 + 1 = 1  OBVIOUS
    <3>3. QED  BY <3>1, <3>2
  <2>3. Unread.segs = <<>>  BY DEF Unread
  <2>4. Upto(uris, 0) = 0  BY <1>1, <1>3, UptoOn
  <2>5. \A p \in uris : ~(p <= 0)  BY <1>1, <1>3
  <2>6. <<>> \in Seq(SegmentsAt(lines, base)) /\ Len(<<>>) = 0  OBVIOUS
  <2>7. MediaInv(lines, base, 0, Unread)  BY <2>2, <2>3, <2>4, <2>5, <2>6 DEF MediaInv
  <2>8. QED  BY <1>1, <2>1, <2>7
<1>5. ASSUME NEW i \in 0 .. n - 1, i \in T PROVE i + 1 \in T
  <2>1. i + 1 \in 1 .. n /\ (i + 1) - 1 = i /\ i + 1 \in 0 .. n  BY <1>1
  <2>2. f[i + 1] = MediaStep(lines, base, f[i], i + 1)  BY <1>2, <2>1 DEF MediaWalk
  <2>3. CASE f[i].err  BY <2>1, <2>2, <2>3 DEF MediaStep
  <2>4. CASE ~f[i].err
    <3>1. MediaInv(lines, base, (i + 1) - 1, f[i])  BY <1>5, <2>1, <2>4
    <3>2. f[i + 1] = MediaLine(f[i], base, lines[i + 1])  BY <2>2, <2>4 DEF MediaStep
    <3>3. MediaInv(lines, base, i + 1, f[i + 1])  BY <2>1, <3>1, <3>2, MediaOn
    <3>4. QED  BY <2>1, <3>3
  <2>5. QED  BY <2>3, <2>4
<1> HIDE DEF T
<1>6. 0 .. n \subseteq T  BY <1>1, <1>4, <1>5, UpTo
<1>7. MediaInv(lines, base, n, f[n])
  <2>1. n \in T  BY <1>1, <1>6
  <2>2. QED  BY <1>2, <2>1 DEF T
<1>8. Upto(uris, n) = Cardinality(uris) /\ \A p \in uris : p <= n  BY <1>1, <1>3, UptoOn
<1>9. QED  BY <1>2, <1>7, <1>8 DEF MediaInv, MediaByPosition

(* A list that is a function, and one more at its end.                     *)
IsSeq(s) == Len(s) \in Nat /\ s = [k \in 1 .. Len(s) |-> s[k]]
Extended(s, e, t) ==
  /\ IsSeq(t) /\ Len(t) = Len(s) + 1 /\ t[Len(s) + 1] = e
  /\ \A k \in 1 .. Len(s) : t[k] = s[k]

(* A sequence is one of its members.                                     *)
LEMMA InSeq ==
  ASSUME NEW s, IsSeq(s) PROVE \E S : s \in Seq(S) /\ \A k \in 1 .. Len(s) : s[k] \in S
<1> DEFINE S == {s[k] : k \in 1 .. Len(s)}
           n == Len(s)
<1>1. n \in Nat /\ s = [k \in 1 .. n |-> s[k]]  BY DEF IsSeq
<1>2. \A k \in 1 .. n : s[k] \in S  OBVIOUS
<1> HIDE DEF S, n
<1>3. s \in [1 .. n -> S]  BY <1>1, <1>2
<1>4. s \in Seq(S)  BY <1>1, <1>3 DEF Seq
<1>5. QED  BY <1>2, <1>4 DEF n

(* A sequence of a set is a sequence.                                    *)
LEMMA SeqIs ==
  ASSUME NEW S, NEW s \in Seq(S) PROVE IsSeq(s)
<1>1. Len(s) \in Nat /\ s \in [1 .. Len(s) -> S]  BY LenProperties
<1>2. QED  BY <1>1 DEF IsSeq

(* What Append makes of a sequence.                                      *)
LEMMA Appended ==
  ASSUME NEW s, IsSeq(s), NEW e PROVE Extended(s, e, Append(s, e))
<1>1. PICK S : s \in Seq(S)  BY InSeq
<1> DEFINE V == S \cup {e}
           t == Append(s, e)
           n == Len(s)
<1>2. s \in Seq(V) /\ e \in V /\ n \in Nat
  <2>1. S \subseteq V /\ e \in V  OBVIOUS
  <2> HIDE DEF V
  <2>2. QED  BY <1>1, <2>1
<1> HIDE DEF V
<1>3. /\ t \in Seq(V) /\ Len(t) = n + 1 /\ t[n + 1] = e
      /\ \A k \in 1 .. n : t[k] = s[k]
  BY <1>2
<1> HIDE DEF t, n
<1>4. QED  BY <1>3, SeqIs DEF Extended, t, n

--------------------------------------------------------------------------------
(* The first line of a kind after a place.                                 *)
After(lines, tag, p) == Min({Len(lines) + 1} \union {q \in Tagged(lines, tag) : q > p})

(* After is the first line of a tag behind p, or the end.                *)
LEMMA AfterIs ==
  ASSUME NEW lines, IsList(lines), NEW tag, NEW p \in 0 .. Len(lines)
  PROVE  LET q == After(lines, tag, p)
         IN /\ q \in Nat /\ q > p
            /\ q = Len(lines) + 1 \/ (q \in Tagged(lines, tag) /\ q <= Len(lines))
            /\ \A i \in Tagged(lines, tag) : i > p => q <= i
<1> DEFINE n == Len(lines)
           T == {n + 1} \union {q \in Tagged(lines, tag) : q > p}
<1>1. n \in Nat /\ \A i \in Tagged(lines, tag) : i \in 1 .. n  BY DEF IsList, Tagged
<1>2. T \subseteq Nat /\ T # {}  BY <1>1
<1>3. \A i \in Tagged(lines, tag) : i > p => i \in T  OBVIOUS
<1>4. \A q \in T : q > p /\ (q = n + 1 \/ (q \in Tagged(lines, tag) /\ q <= n))  BY <1>1
<1>5. After(lines, tag, p) = Min(T)  BY DEF After
<1> HIDE DEF T
<1>6. \E q \in T : \A k \in T : q <= k  BY <1>2, LeastMember
<1>7. Min(T) \in T /\ \A k \in T : Min(T) <= k  BY <1>6 DEF Min
<1>8. QED  BY <1>2, <1>3, <1>4, <1>5, <1>7

--------------------------------------------------------------------------------
(* The variants: a STREAM-INF line and the URI that follows it.            *)
Pairs(lines, p) == After(lines, "uri", p) < After(lines, "stream-inf", p)
PairedBy(lines, i) ==
  {p \in Tagged(lines, "stream-inf") : Pairs(lines, p) /\ After(lines, "uri", p) <= i}
ListedBy(lines, i) ==
  {p \in Tagged(lines, "media") :
     p <= i /\ lines[p].value.uri # "" /\ lines[p].value.type \in {"audio", "subtitles"}}
Waiting(lines, i) == LastBefore(lines, "stream-inf", i) > LastBefore(lines, "uri", i)

(* One line on, a URI pairs the variant that waits for it and nothing    *)
(* else pairs any.                                                       *)
LEMMA PairedOn ==
  ASSUME NEW lines, IsText(lines), NEW i \in 1 .. Len(lines)
  PROVE  LET m == LastBefore(lines, "stream-inf", i)
         IN /\ lines[i].tag # "uri" => PairedBy(lines, i) = PairedBy(lines, i - 1)
            /\ lines[i].tag = "uri" /\ ~Waiting(lines, i) => PairedBy(lines, i) = PairedBy(lines, i - 1)
            /\ lines[i].tag = "uri" /\ Waiting(lines, i) =>
                 /\ PairedBy(lines, i) = PairedBy(lines, i - 1) \cup {m}
                 /\ m \notin PairedBy(lines, i - 1) /\ After(lines, "uri", m) = i
<1> DEFINE n == Len(lines)
           infs == Tagged(lines, "stream-inf")
           uris == Tagged(lines, "uri")
           m == LastBefore(lines, "stream-inf", i)
           u == LastBefore(lines, "uri", i)
           a(p) == After(lines, "uri", p)
           b(p) == After(lines, "stream-inf", p)
<1>1. IsList(lines) /\ n \in Nat /\ DOMAIN lines = 1 .. n  BY TextIs
<1>2. i \in Nat /\ i - 1 \in Nat /\ i <= n  BY <1>1
<1>3. /\ \A p \in infs : p \in 1 .. n /\ p \in 0 .. n /\ p \in Nat /\ p \notin uris
      /\ \A p \in uris : p \in 1 .. n /\ p \in Nat
  BY <1>1 DEF Tagged
<1>4. i \in uris <=> lines[i].tag = "uri"  BY <1>1 DEF Tagged
<1>5. /\ m \in Nat /\ (m = 0 \/ (m \in infs /\ m < i)) /\ \A q \in infs : q < i => q <= m
      /\ u \in Nat /\ (u = 0 \/ (u \in uris /\ u < i)) /\ \A q \in uris : q < i => q <= u
  <2>1. IsLast(lines, "stream-inf", i, m) /\ IsLast(lines, "uri", i, u)  BY <1>1, <1>2, LastIs
  <2> HIDE DEF m, u
  <2>2. QED  BY <2>1 DEF IsLast
<1>6. ASSUME NEW p \in infs
      PROVE  /\ a(p) \in Nat /\ a(p) > p /\ (a(p) = n + 1 \/ (a(p) \in uris /\ a(p) <= n))
             /\ \A q \in uris : q > p => a(p) <= q
             /\ b(p) \in Nat /\ b(p) > p /\ (b(p) = n + 1 \/ (b(p) \in infs /\ b(p) <= n))
             /\ \A q \in infs : q > p => b(p) <= q
  BY <1>1, <1>3, AfterIs
<1>7. \A p : p \in PairedBy(lines, i) <=> p \in infs /\ a(p) < b(p) /\ a(p) <= i
  BY DEF PairedBy, Pairs
<1>8. \A p : p \in PairedBy(lines, i - 1) <=> p \in infs /\ a(p) < b(p) /\ a(p) <= i - 1
  BY DEF PairedBy, Pairs
<1>9. Waiting(lines, i) <=> m > u  BY DEF Waiting
<1> HIDE DEF n, infs, uris, m, u, a, b
<1>10. \A p \in infs : a(p) <= i <=> (a(p) <= i - 1 \/ a(p) = i)  BY <1>2, <1>6
<1>11. ASSUME i \notin uris PROVE PairedBy(lines, i) = PairedBy(lines, i - 1)
  <2>1. \A p \in infs : a(p) # i  BY <1>2, <1>6, <1>11, <1>1
  <2>2. \A p : p \in PairedBy(lines, i) <=> p \in PairedBy(lines, i - 1)  BY <1>7, <1>8, <1>10, <2>1
  <2>3. QED  BY <2>2
<1>12. ASSUME i \in uris, NEW p \in infs, a(p) = i, a(p) < b(p) PROVE p = m /\ m > u
  <2>1. p < i /\ p \in Nat  BY <1>3, <1>6, <1>12
  <2>2. p <= m /\ m \in infs /\ m < i  BY <1>3, <1>5, <2>1
  <2>3. ~(m > p)
    <3>1. m > p => b(p) <= m  BY <1>6, <2>2
    <3>2. b(p) \in Nat /\ b(p) > i  BY <1>6, <1>12
    <3>3. QED  BY <1>2, <1>5, <2>2, <3>1, <3>2
  <2>4. p = m  BY <1>5, <2>1, <2>2, <2>3
  <2>5. ~(u > p)
    <3>1. u > p => u \in uris /\ u < i  BY <1>5, <2>1
    <3>2. u > p => a(p) <= u  BY <1>6, <3>1
    <3>3. QED  BY <1>2, <1>5, <1>12, <3>1, <3>2
  <2>6. u # p
    <3>1. p # 0 /\ p \notin uris  BY <1>3
    <3>2. QED  BY <1>5, <3>1
  <2>7. QED  BY <1>5, <2>1, <2>4, <2>5, <2>6
<1>13. ASSUME i \in uris, m > u PROVE m \in infs /\ a(m) = i /\ a(m) < b(m)
  <2>1. m \in infs /\ m < i  BY <1>5, <1>13
  <2>2. a(m) <= i  BY <1>6, <1>13, <2>1
  <2>3. ~(a(m) < i)
    <3>1. a(m) < i => a(m) \in uris  BY <1>1, <1>2, <1>6, <2>1
    <3>2. a(m) < i => a(m) <= u  BY <1>5, <3>1
    <3>3. a(m) > m /\ a(m) \in Nat  BY <1>6, <2>1
    <3>4. QED  BY <1>5, <1>13, <3>2, <3>3
  <2>4. a(m) = i  BY <1>2, <1>6, <2>1, <2>2, <2>3
  <2>5. b(m) > i
    <3>1. b(m) \in Nat /\ b(m) > m /\ (b(m) = n + 1 \/ b(m) \in infs)  BY <1>6, <2>1
    <3>2. b(m) \in infs => ~(b(m) < i)  BY <1>5, <3>1
    <3>3. b(m) \in infs => b(m) # i  BY <1>3, <1>13
    <3>4. QED  BY <1>1, <1>2, <3>1, <3>2, <3>3
  <2>6. QED  BY <1>2, <2>1, <2>4, <2>5
<1>14. ASSUME i \in uris, ~(m > u) PROVE PairedBy(lines, i) = PairedBy(lines, i - 1)
  <2>1. \A p \in infs : a(p) = i => ~(a(p) < b(p))  BY <1>12, <1>14
  <2>2. \A p : p \in PairedBy(lines, i) <=> p \in PairedBy(lines, i - 1)  BY <1>7, <1>8, <1>10, <2>1
  <2>3. QED  BY <2>2
<1>15. ASSUME i \in uris, m > u
       PROVE  /\ PairedBy(lines, i) = PairedBy(lines, i - 1) \cup {m}
              /\ m \notin PairedBy(lines, i - 1) /\ a(m) = i
  <2>1. m \in infs /\ a(m) = i /\ a(m) < b(m)  BY <1>13, <1>15
  <2>2. m \notin PairedBy(lines, i - 1)
    <3>1. ~(a(m) <= i - 1)  BY <1>2, <2>1
    <3>2. QED  BY <1>8, <3>1
  <2>3. \A p : p \in PairedBy(lines, i) <=> p \in PairedBy(lines, i - 1) \/ p = m
    <3>1. m \in PairedBy(lines, i)  BY <1>2, <1>7, <2>1
    <3>2. ASSUME NEW p \in PairedBy(lines, i), p # m PROVE p \in PairedBy(lines, i - 1)
      <4>1. p \in infs /\ a(p) < b(p) /\ a(p) <= i  BY <1>7
      <4>2. a(p) # i  BY <1>12, <1>15, <3>2, <4>1
      <4>3. QED  BY <1>8, <1>10, <4>1, <4>2
    <3>3. ASSUME NEW p \in PairedBy(lines, i - 1) PROVE p \in PairedBy(lines, i)
      BY <1>7, <1>8, <1>10
    <3>4. QED  BY <3>1, <3>2, <3>3
  <2>4. QED  BY <2>1, <2>2, <2>3
<1>16. QED  BY <1>4, <1>9, <1>11, <1>14, <1>15 DEF m, u, a, uris

(* What every parser makes a track of.                                     *)
IsTrack(st) ==
  /\ DOMAIN st = DOMAIN BlankStream
  /\ st.height \in Int /\ st.bw \in Int /\ st.channels \in Int /\ st.default \in BOOLEAN
AreTracks(streams) == IsSeq(streams) /\ \A k \in 1 .. Len(streams) : IsTrack(streams[k])

(* The blank stream is a track.                                          *)
LEMMA BlankTrack == IsTrack(BlankStream) /\ BlankStream.full = FALSE
BY DEF IsTrack, BlankStream

(* A variant is a track that is not expanded, with the URL it is given.  *)
LEMMA VariantIs ==
  ASSUME NEW v, v.average \in Int, v.bw \in Int, v.height \in Int, NEW n, NEW url
  PROVE  LET st == [Variant(v, n) EXCEPT !.url = url]
         IN IsTrack(st) /\ st.full = FALSE /\ st.url = url /\ st.height = v.height /\ st.audio = v.audio
<1> DEFINE onlyAudio == v.height = 0 /\ v.codecs # {} /\ v.codecs \intersect VideoCodecs = {}
           bw == FirstSet(0, <<v.average, v.bw>>)
           type == IF onlyAudio THEN "audio" ELSE "video"
           muxed == ~onlyAudio /\ v.codecs \intersect AudioCodecs # {}
           id == <<"v", n>>
           st == [BlankStream EXCEPT
                    !.id = id, !.bw = bw, !.height = v.height, !.codecs = v.codecs, !.audio = v.audio,
                    !.subs = v.subs, !.type = type, !.muxed = muxed]
           new == [st EXCEPT !.url = url]
<1>1. Variant(v, n) = st  BY DEF Variant
<1>2. bw \in Int  BY FirstOfTwo
<1> HIDE DEF bw, type, muxed, onlyAudio, id
<1>3. DOMAIN st = DOMAIN BlankStream /\ DOMAIN new = DOMAIN BlankStream  OBVIOUS
<1>4. {"height", "bw", "channels", "default", "full", "url", "audio"} \subseteq DOMAIN BlankStream
  BY DEF BlankStream
<1>5. st.height = v.height /\ st.bw = bw /\ st.audio = v.audio
  BY <1>4
<1>6. st.channels = BlankStream.channels /\ st.default = BlankStream.default /\ st.full = BlankStream.full
  BY <1>4
<1> HIDE DEF st
<1>7. /\ new.height = st.height /\ new.bw = st.bw /\ new.channels = st.channels /\ new.default = st.default
      /\ new.full = st.full /\ new.audio = st.audio /\ new.url = url
  BY <1>3, <1>4
<1> HIDE DEF new
<1>8. IsTrack(new)  BY <1>2, <1>3, <1>5, <1>6, <1>7, BlankTrack DEF IsTrack
<1>9. QED  BY <1>1, <1>5, <1>6, <1>7, <1>8, BlankTrack DEF new

(* A rendition is a track that is not expanded, of its group.            *)
LEMMA RenditionIs ==
  ASSUME NEW v, v.channels \in Int, v.default \in BOOLEAN, NEW n, NEW base
  PROVE  LET st == Rendition(v, n, base)
         IN IsTrack(st) /\ st.full = FALSE /\ st.url = Resolve(base, v.uri) /\ st.group = v.group
<1> DEFINE id == <<v.type, n>>
           url == Resolve(base, v.uri)
           none == {}
           st == [BlankStream EXCEPT !.type = v.type, !.id = id, !.url = url, !.group = v.group,
                    !.lang = v.lang, !.default = v.default, !.channels = v.channels, !.codecs = none]
<1>1. Rendition(v, n, base) = st  BY DEF Rendition
<1> HIDE DEF id, url, none
<1>2. DOMAIN st = DOMAIN BlankStream  OBVIOUS
<1>3. {"height", "bw", "channels", "default", "full", "url", "group"} \subseteq DOMAIN BlankStream
  BY DEF BlankStream
<1>4. st.channels = v.channels /\ st.default = v.default /\ st.url = url /\ st.group = v.group  BY <1>3
<1>5. st.height = BlankStream.height /\ st.bw = BlankStream.bw /\ st.full = BlankStream.full  BY <1>3
<1> HIDE DEF st
<1>6. IsTrack(st)  BY <1>2, <1>4, <1>5, BlankTrack DEF IsTrack
<1>7. QED  BY <1>1, <1>4, <1>5, <1>6, BlankTrack DEF url

--------------------------------------------------------------------------------
(* The master playlist is read line by line.                               *)
NoneRead == [variants |-> 0, pending |-> <<>>, streams |-> <<>>]
MasterWalk(lines, base, f) ==
  /\ f[0] = NoneRead
  /\ \A i \in 1 .. Len(lines) : f[i] = MasterLine(f[i - 1], base, lines[i])

(* ReadMaster walks the lines one after another.                         *)
LEMMA MasterWalks ==
  ASSUME NEW lines, IsText(lines), NEW base
  PROVE  \E f : MasterWalk(lines, base, f) /\ ReadMaster(lines, base) = f[Len(lines)]
<1> DEFINE n == Len(lines)
           E(f, i) == IF i = 0 THEN NoneRead ELSE MasterLine(f[i - 1], base, lines[i])
           D(f, k) == [i \in 0 .. k |-> E(f, i)]
           read == CHOOSE f : f = D(f, n)
           T == {k \in 0 .. n : \E f : f = D(f, k)}
<1>1. n \in Nat  BY TextIs
<1>2. ReadMaster(lines, base) = read[n]  BY DEF ReadMaster, NoneRead
<1> HIDE DEF n
<1>3. ASSUME NEW k \in 0 .. n, NEW f, NEW g, \A i \in 0 .. k - 1 : f[i] = g[i]
      PROVE  E(f, k) = E(g, k)
  BY <1>1, <1>3
<1>4. 0 \in T
  <2> DEFINE e == [i \in 0 .. 0 |-> NoneRead]
  <2>1. e = [i \in 0 .. 0 |-> e[i]] /\ \A i \in 0 .. 0 : e[i] = NoneRead /\ i = 0  OBVIOUS
  <2> HIDE DEF e
  <2>2. e = D(e, 0)  BY <2>1
  <2>3. QED  BY <1>1, <2>2
<1> HIDE DEF E
<1>5. ASSUME NEW k \in 0 .. n - 1, k \in T PROVE k + 1 \in T
  <2>1. PICK f : f = D(f, k)  BY <1>5
  <2>2. k \in Nat /\ k + 1 \in 0 .. n /\ (k + 1) - 1 = k  BY <1>1
  <2> DEFINE g == [i \in 0 .. k + 1 |-> IF i <= k THEN f[i] ELSE E(f, i)]
  <2>3. \A i \in 0 .. k : f[i] = g[i] /\ f[i] = E(f, i)  BY <2>1, <2>2
  <2>4. ASSUME NEW i \in 0 .. k + 1 PROVE g[i] = E(g, i)
    <3>1. i \in 0 .. n /\ \A j \in 0 .. i - 1 : j \in 0 .. k  BY <1>1, <2>2
    <3>2. E(f, i) = E(g, i)
      <4>1. \A j \in 0 .. i - 1 : f[j] = g[j]  BY <2>3, <3>1
      <4> HIDE DEF g
      <4>2. QED  BY <1>3, <3>1, <4>1
    <3>3. g[i] = E(f, i)
      <4>1. CASE i <= k
        <5>1. i \in 0 .. k  BY <2>2, <4>1
        <5> HIDE DEF g
        <5>2. QED  BY <2>3, <5>1
      <4>2. CASE ~(i <= k)  BY <4>2
      <4>3. QED  BY <4>1, <4>2
    <3>4. QED  BY <3>2, <3>3
  <2>5. g = [i \in 0 .. k + 1 |-> g[i]]  OBVIOUS
  <2> HIDE DEF g, T
  <2>6. g = D(g, k + 1)  BY <2>4, <2>5
  <2>7. QED  BY <2>2, <2>6 DEF T
<1> HIDE DEF T
<1>6. 0 .. n \subseteq T  BY <1>1, <1>4, <1>5, UpTo
<1>7. \E f : f = D(f, n)
  <2>1. n \in T  BY <1>1, <1>6
  <2>2. QED  BY <2>1 DEF T
<1>8. read = D(read, n)  BY <1>7
<1> HIDE DEF read
<1>9. \A i \in 0 .. n : read[i] = E(read, i)  BY <1>8
<1>10. MasterWalk(lines, base, read)
  <2>1. 0 \in 0 .. n /\ \A i \in 1 .. n : i \in 0 .. n /\ i # 0  BY <1>1
  <2>2. QED  BY <1>9, <2>1 DEF MasterWalk, n, E
<1>11. QED  BY <1>2, <1>10 DEF n

IsListed(line) ==
  line.tag = "media" /\ line.value.uri # "" /\ line.value.type \in {"audio", "subtitles"}

(* One line on, a rendition with a URI is listed and nothing else is.    *)
LEMMA ListedOn ==
  ASSUME NEW lines, IsText(lines), NEW i \in 1 .. Len(lines)
  PROVE  /\ ~IsListed(lines[i]) => ListedBy(lines, i) = ListedBy(lines, i - 1)
         /\ IsListed(lines[i]) => /\ ListedBy(lines, i) = ListedBy(lines, i - 1) \cup {i}
                                  /\ i \notin ListedBy(lines, i - 1)
<1> DEFINE n == Len(lines)
           W == {p \in Tagged(lines, "media") :
                   lines[p].value.uri # "" /\ lines[p].value.type \in {"audio", "subtitles"}}
<1>1. n \in Nat /\ DOMAIN lines = 1 .. n  BY TextIs
<1>2. i \in W <=> IsListed(lines[i])  BY <1>1 DEF IsListed, Tagged
<1>3. \A p \in W : p \in Nat
  <2>1. \A p \in Tagged(lines, "media") : p \in Nat  BY <1>1 DEF Tagged
  <2>2. W \subseteq Tagged(lines, "media")  OBVIOUS
  <2>3. QED  BY <2>1, <2>2
<1>4. i \in Nat  BY <1>1
<1>5. \A k, p : p \in ListedBy(lines, k) <=> p \in W /\ p <= k  BY DEF ListedBy
<1> HIDE DEF W, n
<1>6. \A p \in W : p <= i <=> (p <= i - 1 \/ p = i)  BY <1>3, <1>4
<1>7. \A p : p \in ListedBy(lines, i) <=> p \in ListedBy(lines, i - 1) \/ (p \in W /\ p = i)  BY <1>4, <1>5, <1>6
<1>8. i \notin ListedBy(lines, i - 1)
  <2>1. ~(i <= i - 1)  BY <1>4
  <2>2. QED  BY <1>5, <2>1
<1>9. ASSUME IsListed(lines[i]) PROVE ListedBy(lines, i) = ListedBy(lines, i - 1) \cup {i}
  <2>1. \A p : p \in ListedBy(lines, i) <=> p \in ListedBy(lines, i - 1) \/ p = i  BY <1>2, <1>7, <1>9
  <2>2. QED  BY <2>1
<1>10. ASSUME ~IsListed(lines[i]) PROVE ListedBy(lines, i) = ListedBy(lines, i - 1)
  <2>1. \A p : p \in ListedBy(lines, i) <=> p \in ListedBy(lines, i - 1)  BY <1>2, <1>7, <1>10
  <2>2. QED  BY <2>1
<1>11. QED  BY <1>8, <1>9, <1>10

(* After i lines: a track for each pair that is complete and each          *)
(* rendition, and a variant that waits for its URI.                        *)
OfPair(lines, base, p, st) ==
  /\ st.url = Resolve(base, lines[After(lines, "uri", p)].value)
  /\ st.height = lines[p].value.height /\ st.audio = lines[p].value.audio
OfMedia(lines, base, p, st) ==
  st.url = Resolve(base, lines[p].value.uri) /\ st.group = lines[p].value.group
Read(lines, base, i, streams) ==
  /\ AreTracks(streams) /\ \A k \in 1 .. Len(streams) : streams[k].full = FALSE
  /\ Len(streams) = Cardinality(PairedBy(lines, i)) + Cardinality(ListedBy(lines, i))
  /\ \A p \in PairedBy(lines, i) : \E k \in 1 .. Len(streams) : OfPair(lines, base, p, streams[k])
  /\ \A p \in ListedBy(lines, i) : \E k \in 1 .. Len(streams) : OfMedia(lines, base, p, streams[k])
Pends(lines, i, pending) ==
  IF Waiting(lines, i)
  THEN \E c : pending = <<Variant(lines[LastBefore(lines, "stream-inf", i)].value, c)>>
  ELSE pending = <<>>
MasterInv(lines, base, i, acc) ==
  /\ acc = [variants |-> acc.variants, pending |-> acc.pending, streams |-> acc.streams]
  /\ Read(lines, base, i, acc.streams) /\ Pends(lines, i + 1, acc.pending)

(* A variant waits from its line to the next URI.                        *)
LEMMA PendsOn ==
  ASSUME NEW lines, IsText(lines), NEW i \in 1 .. Len(lines)
  PROVE  LET m == LastBefore(lines, "stream-inf", i)
         IN /\ lines[i].tag = "stream-inf" =>
                 Waiting(lines, i + 1) /\ LastBefore(lines, "stream-inf", i + 1) = i
            /\ lines[i].tag = "uri" => ~Waiting(lines, i + 1)
            /\ lines[i].tag \notin {"uri", "stream-inf"} => \A pending :
                 Pends(lines, i, pending) => Pends(lines, i + 1, pending)
            /\ Waiting(lines, i) => m \in Tagged(lines, "stream-inf")
<1> DEFINE m == LastBefore(lines, "stream-inf", i)
           u == LastBefore(lines, "uri", i)
           mm == LastBefore(lines, "stream-inf", i + 1)
           uu == LastBefore(lines, "uri", i + 1)
<1>1. IsList(lines) /\ Len(lines) \in Nat /\ i \in Nat  BY TextIs
<1>2. mm = (IF lines[i].tag = "stream-inf" THEN i ELSE m) /\ uu = (IF lines[i].tag = "uri" THEN i ELSE u)
  BY <1>1, LastOn
<1>3. m \in Nat /\ (m = 0 \/ (m \in Tagged(lines, "stream-inf") /\ m < i)) /\ u \in Nat /\ u <= i /\ (u = 0 \/ u < i)
  <2>1. IsLast(lines, "stream-inf", i, m) /\ IsLast(lines, "uri", i, u)  BY <1>1, LastIs
  <2> HIDE DEF m, u
  <2>2. QED  BY <1>1, <2>1 DEF IsLast
<1>4. (Waiting(lines, i) <=> m > u) /\ (Waiting(lines, i + 1) <=> mm > uu)  BY DEF Waiting
<1>5. lines[i].tag \notin {"uri", "stream-inf"} => \A pending :
        Pends(lines, i, pending) => Pends(lines, i + 1, pending)
  BY <1>2, <1>4 DEF Pends
<1>6. i # 0  BY <1>1
<1> HIDE DEF m, u, mm, uu
<1>7. lines[i].tag = "stream-inf" => Waiting(lines, i + 1) /\ mm = i  BY <1>1, <1>2, <1>3, <1>4, <1>6
<1>8. lines[i].tag = "uri" => ~Waiting(lines, i + 1)  BY <1>1, <1>2, <1>3, <1>4, <1>6
<1>9. Waiting(lines, i) => m \in Tagged(lines, "stream-inf")  BY <1>3, <1>4
<1>10. QED  BY <1>5, <1>7, <1>8, <1>9 DEF m, mm

(* The variants paired and the renditions listed can be counted.         *)
LEMMA CountedBy ==
  ASSUME NEW lines, IsText(lines), NEW i
  PROVE  /\ IsFiniteSet(PairedBy(lines, i)) /\ Cardinality(PairedBy(lines, i)) \in Nat
         /\ IsFiniteSet(ListedBy(lines, i)) /\ Cardinality(ListedBy(lines, i)) \in Nat
<1>1. PairedBy(lines, i) \in SUBSET (1 .. Len(lines)) /\ ListedBy(lines, i) \in SUBSET (1 .. Len(lines))
  BY TextIs DEF PairedBy, ListedBy, Tagged
<1>2. IsFiniteSet(1 .. Len(lines))
  <2>1. Len(lines) \in Nat  BY TextIs
  <2>2. QED  BY <2>1, FS_Interval
<1>3. QED  BY <1>1, <1>2, FS_Subset, FS_CardinalityType

(* One more track.                                                         *)
LEMMA OneMore ==
  ASSUME NEW streams, AreTracks(streams), \A k \in 1 .. Len(streams) : streams[k].full = FALSE,
         NEW st, IsTrack(st), st.full = FALSE
  PROVE  LET more == Append(streams, st)
         IN /\ AreTracks(more) /\ \A k \in 1 .. Len(more) : more[k].full = FALSE
            /\ Extended(streams, st, more)
<1> DEFINE more == Append(streams, st)
           n == Len(streams)
<1>1. Extended(streams, st, more) /\ n \in Nat  BY Appended DEF AreTracks, IsSeq
<1> HIDE DEF more
<1>2. ASSUME NEW k \in 1 .. Len(more) PROVE IsTrack(more[k]) /\ more[k].full = FALSE
  <2>1. Len(more) = n + 1 /\ more[n + 1] = st /\ \A j \in 1 .. n : more[j] = streams[j]  BY <1>1 DEF Extended
  <2> HIDE DEF n
  <2>2. CASE k = n + 1  BY <2>1, <2>2
  <2>3. CASE k # n + 1
    <3>1. k \in 1 .. n  BY <1>1, <2>1, <2>3
    <3>2. QED  BY <2>1, <3>1 DEF AreTracks, n
  <2>4. QED  BY <2>2, <2>3
<1>3. QED  BY <1>1, <1>2 DEF AreTracks, Extended, more

(* One line of a master playlist keeps the tracks read by position.      *)
LEMMA MasterOn ==
  ASSUME NEW lines, IsText(lines), NEW base, NEW i \in 1 .. Len(lines), NEW acc,
         MasterInv(lines, base, i - 1, acc)
  PROVE  MasterInv(lines, base, i, MasterLine(acc, base, lines[i]))
<1> DEFINE line == lines[i]
           v == line.value
           new == MasterLine(acc, base, line)
           m == LastBefore(lines, "stream-inf", i)
           P(k) == PairedBy(lines, k)
           Q(k) == ListedBy(lines, k)
           R(a, b, c) == [variants |-> a, pending |-> b, streams |-> c]
<1>1. i \in Nat /\ i - 1 \in Nat /\ (i - 1) + 1 = i /\ DOMAIN lines = 1 .. Len(lines)  BY TextIs
<1>2. acc = R(acc.variants, acc.pending, acc.streams) /\ Read(lines, base, i - 1, acc.streams)
      /\ Pends(lines, i, acc.pending)
  BY <1>1 DEF MasterInv
<1>3. ASSUME P(i) = P(i - 1), Q(i) = Q(i - 1) PROVE Read(lines, base, i, acc.streams)
  BY <1>2, <1>3 DEF Read
<1>4. CASE line.tag = "stream-inf"
  <2> DEFINE c == acc.variants + 1
             pending == <<Variant(v, c)>>
  <2>1. new = [acc EXCEPT !.variants = c, !.pending = pending]  BY <1>4 DEF MasterLine
  <2> HIDE DEF new, pending, c
  <2>2. new = [[acc EXCEPT !.variants = c] EXCEPT !.pending = pending]  BY <2>1
  <2>3. new = R(c, pending, acc.streams)  BY <1>2, <2>2
  <2>4. Pends(lines, i + 1, pending)  BY <1>4, PendsOn DEF Pends, pending
  <2>5. P(i) = P(i - 1) /\ Q(i) = Q(i - 1)  BY <1>4, PairedOn, ListedOn DEF IsListed
  <2>6. QED  BY <1>3, <2>3, <2>4, <2>5 DEF MasterInv, new
<1>5. CASE line.tag = "uri" /\ acc.pending # <<>>
  <2>1. Waiting(lines, i)  BY <1>2, <1>5 DEF Pends
  <2>2. PICK c : acc.pending = <<Variant(lines[m].value, c)>>  BY <1>2, <2>1 DEF Pends
  <2> DEFINE url == Resolve(base, v)
             var == Variant(lines[m].value, c)
             st == [var EXCEPT !.url = url]
             more == Append(acc.streams, st)
             none == <<>>
  <2>3. acc.pending[1] = var  BY <2>2
  <2>4. new = [acc EXCEPT !.streams = more, !.pending = none]
    BY <1>5, <2>3 DEF MasterLine
  <2> HIDE DEF new, more, none
  <2>5. new = [[acc EXCEPT !.streams = more] EXCEPT !.pending = none]  BY <2>4
  <2>6. new = R(acc.variants, none, more)  BY <1>2, <2>5
  <2>7. Pends(lines, i + 1, none)  BY <1>5, PendsOn DEF Pends, none
  <2>8. m \in Tagged(lines, "stream-inf")  BY <2>1, PendsOn
  <2>9. /\ IsTrack(st) /\ st.full = FALSE /\ st.url = url
        /\ st.height = lines[m].value.height /\ st.audio = lines[m].value.audio
    <3> DEFINE value == lines[m].value
    <3>1. value.average \in Int /\ value.bw \in Int /\ value.height \in Int
      BY <2>8 DEF IsText, Tagged
    <3> HIDE DEF value, url
    <3>2. \A a : LET made == [Variant(value, c) EXCEPT !.url = a]
                 IN IsTrack(made) /\ made.full = FALSE /\ made.url = a
                    /\ made.height = value.height /\ made.audio = value.audio
      BY <3>1, VariantIs
    <3>3. QED  BY <3>2 DEF value
  <2>10. /\ P(i) = P(i - 1) \cup {m} /\ m \notin P(i - 1) /\ After(lines, "uri", m) = i
         /\ Q(i) = Q(i - 1)
    BY <1>5, <2>1, PairedOn, ListedOn DEF IsListed
  <2>11. OfPair(lines, base, m, st)  BY <2>9, <2>10 DEF OfPair
  <2> HIDE DEF st, m, P, Q
  <2>12. /\ AreTracks(more) /\ \A k \in 1 .. Len(more) : more[k].full = FALSE
         /\ Extended(acc.streams, st, more)
    BY <1>2, <2>9, OneMore DEF Read, more
  <2>13. Len(more) = Cardinality(P(i)) + Cardinality(Q(i))
    <3>1. IsFiniteSet(P(i - 1)) /\ Cardinality(P(i - 1)) \in Nat /\ Cardinality(Q(i - 1)) \in Nat
      BY CountedBy DEF P, Q
    <3>2. Cardinality(P(i)) = Cardinality(P(i - 1)) + 1  BY <2>10, <3>1, FS_AddElement
    <3>3. Len(acc.streams) = Cardinality(P(i - 1)) + Cardinality(Q(i - 1))  BY <1>2 DEF Read, P, Q
    <3>4. Len(more) = Len(acc.streams) + 1  BY <2>12 DEF Extended
    <3>5. QED  BY <2>10, <3>1, <3>2, <3>3, <3>4
  <2>14. Len(acc.streams) \in Nat /\ Len(more) = Len(acc.streams) + 1 /\ more[Len(acc.streams) + 1] = st
         /\ \A k \in 1 .. Len(acc.streams) : k \in 1 .. Len(more) /\ more[k] = acc.streams[k]
    BY <1>2, <2>12 DEF Read, AreTracks, IsSeq, Extended
  <2>15. ASSUME NEW p \in P(i) PROVE \E k \in 1 .. Len(more) : OfPair(lines, base, p, more[k])
    <3>1. CASE p = m
      <4>1. Len(acc.streams) + 1 \in 1 .. Len(more)  BY <2>14
      <4>2. QED  BY <2>11, <2>14, <3>1, <4>1
    <3>2. CASE p # m
      <4>1. p \in P(i - 1)  BY <2>10, <2>15, <3>2
      <4>2. PICK k \in 1 .. Len(acc.streams) : OfPair(lines, base, p, acc.streams[k])
        BY <1>2, <4>1 DEF Read, P
      <4>3. QED  BY <2>14, <4>2
    <3>3. QED  BY <3>1, <3>2
  <2>16. ASSUME NEW p \in Q(i) PROVE \E k \in 1 .. Len(more) : OfMedia(lines, base, p, more[k])
    <3>1. PICK k \in 1 .. Len(acc.streams) : OfMedia(lines, base, p, acc.streams[k])
      BY <1>2, <2>10, <2>16 DEF Read, Q
    <3>2. QED  BY <2>14, <3>1
  <2>17. Read(lines, base, i, more)  BY <2>12, <2>13, <2>15, <2>16 DEF Read, P, Q
  <2>18. QED  BY <2>6, <2>7, <2>17 DEF MasterInv, new
<1>6. CASE line.tag = "uri" /\ acc.pending = <<>>
  <2>1. ~Waiting(lines, i)  BY <1>2, <1>6 DEF Pends
  <2>2. new = acc  BY <1>6 DEF MasterLine
  <2>3. P(i) = P(i - 1) /\ Q(i) = Q(i - 1)  BY <1>6, <2>1, PairedOn, ListedOn DEF IsListed
  <2>4. Pends(lines, i + 1, acc.pending)  BY <1>6, PendsOn DEF Pends
  <2>5. QED  BY <1>2, <1>3, <2>2, <2>3, <2>4 DEF MasterInv
<1>7. CASE IsListed(line)
  <2>1. line.tag = "media" /\ v.uri # "" /\ v.type \in {"audio", "subtitles"}  BY <1>7 DEF IsListed
  <2> DEFINE st == Rendition(v, Numbered(acc.streams, v.type), base)
             more == Append(acc.streams, st)
  <2>2. new = [acc EXCEPT !.streams = more]  BY <2>1 DEF MasterLine
  <2> HIDE DEF new, more
  <2>3. new = R(acc.variants, acc.pending, more)  BY <1>2, <2>2
  <2>4. Pends(lines, i + 1, acc.pending)  BY <1>2, <2>1, PendsOn
  <2>5. IsTrack(st) /\ st.full = FALSE /\ st.url = Resolve(base, v.uri) /\ st.group = v.group
    <3>1. v.channels \in Int /\ v.default \in BOOLEAN  BY <1>1, <2>1 DEF IsText
    <3> HIDE DEF v
    <3>2. QED  BY <3>1, RenditionIs
  <2>6. Q(i) = Q(i - 1) \cup {i} /\ i \notin Q(i - 1) /\ P(i) = P(i - 1)
    <3>1. line.tag # "uri"  BY <2>1
    <3>2. QED  BY <1>7, <3>1, PairedOn, ListedOn
  <2>7. OfMedia(lines, base, i, st)  BY <2>5 DEF OfMedia
  <2> HIDE DEF st, P, Q
  <2>8. /\ AreTracks(more) /\ \A k \in 1 .. Len(more) : more[k].full = FALSE
        /\ Extended(acc.streams, st, more)
    BY <1>2, <2>5, OneMore DEF Read, more
  <2>9. Len(more) = Cardinality(P(i)) + Cardinality(Q(i))
    <3>1. IsFiniteSet(Q(i - 1)) /\ Cardinality(P(i - 1)) \in Nat /\ Cardinality(Q(i - 1)) \in Nat
      BY CountedBy DEF P, Q
    <3>2. Cardinality(Q(i)) = Cardinality(Q(i - 1)) + 1  BY <2>6, <3>1, FS_AddElement
    <3>3. Len(acc.streams) = Cardinality(P(i - 1)) + Cardinality(Q(i - 1))  BY <1>2 DEF Read, P, Q
    <3>4. Len(more) = Len(acc.streams) + 1  BY <2>8 DEF Extended
    <3>5. QED  BY <2>6, <3>1, <3>2, <3>3, <3>4
  <2>10. Len(acc.streams) \in Nat /\ Len(more) = Len(acc.streams) + 1 /\ more[Len(acc.streams) + 1] = st
         /\ \A k \in 1 .. Len(acc.streams) : k \in 1 .. Len(more) /\ more[k] = acc.streams[k]
    BY <1>2, <2>8 DEF Read, AreTracks, IsSeq, Extended
  <2>11. ASSUME NEW p \in Q(i) PROVE \E k \in 1 .. Len(more) : OfMedia(lines, base, p, more[k])
    <3>1. CASE p = i
      <4>1. Len(acc.streams) + 1 \in 1 .. Len(more)  BY <2>10
      <4>2. QED  BY <2>7, <2>10, <3>1, <4>1
    <3>2. CASE p # i
      <4>1. p \in Q(i - 1)  BY <2>6, <2>11, <3>2
      <4>2. PICK k \in 1 .. Len(acc.streams) : OfMedia(lines, base, p, acc.streams[k])
        BY <1>2, <4>1 DEF Read, Q
      <4>3. QED  BY <2>10, <4>2
    <3>3. QED  BY <3>1, <3>2
  <2>12. ASSUME NEW p \in P(i) PROVE \E k \in 1 .. Len(more) : OfPair(lines, base, p, more[k])
    <3>1. PICK k \in 1 .. Len(acc.streams) : OfPair(lines, base, p, acc.streams[k])
      BY <1>2, <2>6, <2>12 DEF Read, P
    <3>2. QED  BY <2>10, <3>1
  <2>13. Read(lines, base, i, more)  BY <2>8, <2>9, <2>11, <2>12 DEF Read, P, Q
  <2>14. QED  BY <2>3, <2>4, <2>13 DEF MasterInv, new
<1>8. CASE line.tag \notin {"stream-inf", "uri"} /\ ~IsListed(line)
  <2>1. new = acc  BY <1>8 DEF MasterLine, IsListed
  <2>2. P(i) = P(i - 1) /\ Q(i) = Q(i - 1)  BY <1>8, PairedOn, ListedOn
  <2>3. Pends(lines, i + 1, acc.pending)  BY <1>2, <1>8, PendsOn
  <2>4. QED  BY <1>2, <1>3, <2>1, <2>2, <2>3 DEF MasterInv
<1>9. QED  BY <1>4, <1>5, <1>6, <1>7, <1>8 DEF IsListed

(* The whole master playlist is read by position.                        *)
LEMMA MasterRead ==
  ASSUME NEW lines, IsText(lines), NEW base
  PROVE  Read(lines, base, Len(lines), ReadMaster(lines, base).streams)
<1> DEFINE n == Len(lines)
<1>1. n \in Nat /\ IsList(lines)  BY TextIs
<1>2. PICK f : MasterWalk(lines, base, f) /\ ReadMaster(lines, base) = f[n]  BY MasterWalks
<1> DEFINE T == {i \in 0 .. n : MasterInv(lines, base, i, f[i])}
<1>3. 0 \in T
  <2>1. f[0] = NoneRead /\ NoneRead.streams = <<>> /\ NoneRead.pending = <<>>
        /\ NoneRead = [variants |-> NoneRead.variants, pending |-> NoneRead.pending, streams |-> NoneRead.streams]
    BY <1>2 DEF MasterWalk, NoneRead
  <2>2. PairedBy(lines, 0) = {} /\ ListedBy(lines, 0) = {}
    <3>1. \A tag : \A p \in Tagged(lines, tag) : p \in 1 .. n /\ p \in 0 .. n /\ p > 0  BY <1>1 DEF Tagged, IsList
    <3>2. \A p \in Tagged(lines, "stream-inf") : ~(After(lines, "uri", p) <= 0)
      <4>1. \A p \in Tagged(lines, "stream-inf") : After(lines, "uri", p) \in Nat /\ After(lines, "uri", p) > p
        BY <1>1, <3>1, AfterIs
      <4>2. QED  BY <3>1, <4>1
    <3>3. \A p \in Tagged(lines, "media") : ~(p <= 0)  BY <3>1
    <3>4. QED  BY <3>2, <3>3 DEF PairedBy, ListedBy
  <2>3. AreTracks(<<>>) /\ Len(<<>>) = 0
    <3>1. <<>> \in Seq({}) /\ Len(<<>>) = 0  OBVIOUS
    <3>2. IsSeq(<<>>)  BY <3>1, SeqIs
    <3>3. \A k \in 1 .. 0 : FALSE  OBVIOUS
    <3>4. QED  BY <3>1, <3>2, <3>3 DEF AreTracks
  <2>4. Read(lines, base, 0, <<>>)  BY <2>2, <2>3, FS_EmptySet DEF Read
  <2>5. Pends(lines, 0 + 1, <<>>)
    <3>1. \A tag : LastBefore(lines, tag, 1) = 0  BY <1>1, LastFirst
    <3>2. ~Waiting(lines, 1)  BY <3>1 DEF Waiting
    <3>3. QED  BY <3>2 DEF Pends
  <2>6. MasterInv(lines, base, 0, NoneRead)  BY <2>1, <2>4, <2>5 DEF MasterInv
  <2>7. QED  BY <1>1, <2>1, <2>6
<1>4. ASSUME NEW i \in 0 .. n - 1, i \in T PROVE i + 1 \in T
  <2>1. i + 1 \in 1 .. n /\ (i + 1) - 1 = i /\ i + 1 \in 0 .. n  BY <1>1
  <2>2. f[i + 1] = MasterLine(f[i], base, lines[i + 1])  BY <1>2, <2>1 DEF MasterWalk
  <2>3. MasterInv(lines, base, (i + 1) - 1, f[i])  BY <1>4, <2>1
  <2>4. MasterInv(lines, base, i + 1, f[i + 1])  BY <2>1, <2>2, <2>3, MasterOn
  <2>5. QED  BY <2>1, <2>4
<1> HIDE DEF T
<1>5. 0 .. n \subseteq T  BY <1>1, <1>3, <1>4, UpTo
<1>6. n \in T  BY <1>1, <1>5
<1>7. QED  BY <1>2, <1>6 DEF T, MasterInv

(* Its tracks are its variants with a URI and its renditions with one.   *)
LEMMA MasterListed ==
  ASSUME NEW lines, IsText(lines), NEW base
  PROVE  MasterByPosition(lines, base, ReadMaster(lines, base).streams)
<1> DEFINE n == Len(lines)
           streams == ReadMaster(lines, base).streams
           paired == {p \in Tagged(lines, "stream-inf") : After(lines, "uri", p) < After(lines, "stream-inf", p)}
           listed == {p \in Tagged(lines, "media") :
                        lines[p].value.uri # "" /\ lines[p].value.type \in {"audio", "subtitles"}}
<1>1. n \in Nat /\ IsList(lines)  BY TextIs
<1>2. \A tag : \A p \in Tagged(lines, tag) : p \in 1 .. n /\ p \in 0 .. n /\ p <= n  BY <1>1 DEF Tagged, IsList
<1>3. PairedBy(lines, n) = paired
  <2>1. ASSUME NEW p \in paired PROVE After(lines, "uri", p) <= n
    <3>1. p \in 0 .. n  BY <1>2
    <3>2. /\ After(lines, "uri", p) = n + 1 \/ After(lines, "uri", p) <= n
          /\ After(lines, "stream-inf", p) \in Nat
          /\ After(lines, "stream-inf", p) = n + 1 \/ After(lines, "stream-inf", p) <= n
      BY <1>1, <3>1, AfterIs
    <3>3. QED  BY <1>1, <2>1, <3>2
  <2>2. QED  BY <2>1 DEF PairedBy, Pairs
<1>4. ListedBy(lines, n) = listed  BY <1>2 DEF ListedBy
<1>5. Read(lines, base, n, streams)  BY MasterRead
<1> HIDE DEF streams, n
<1>6. DOMAIN streams = 1 .. Len(streams)  BY <1>5 DEF Read, AreTracks, IsSeq
<1>7. /\ Len(streams) = Cardinality(paired) + Cardinality(listed)
      /\ \A p \in paired : \E i \in DOMAIN streams :
           /\ streams[i].url = Resolve(base, lines[After(lines, "uri", p)].value)
           /\ streams[i].height = lines[p].value.height
           /\ streams[i].audio = lines[p].value.audio
      /\ \A p \in listed : \E i \in DOMAIN streams :
           /\ streams[i].url = Resolve(base, lines[p].value.uri)
           /\ streams[i].group = lines[p].value.group
  BY <1>3, <1>4, <1>5, <1>6 DEF Read, OfPair, OfMedia
<1>8. QED  BY <1>7 DEF MasterByPosition, After, streams

--------------------------------------------------------------------------------
(* Selection: the order of the tracks.                                   *)

(* What Sort compares is a strict weak order of tracks.                    *)
FiveInts(m) == DOMAIN m = 1 .. 5 /\ \A k \in 1 .. 5 : m[k] \in Int
Exceeds(a, b) ==
  \/ a[1] > b[1]
  \/ a[1] = b[1] /\ a[2] > b[2]
  \/ a[1] = b[1] /\ a[2] = b[2] /\ a[3] > b[3]
  \/ a[1] = b[1] /\ a[2] = b[2] /\ a[3] = b[3] /\ a[4] > b[4]
  \/ a[1] = b[1] /\ a[2] = b[2] /\ a[3] = b[3] /\ a[4] = b[4] /\ a[5] > b[5]

(* The merits of a track are five integers.                              *)
LEMMA MeritsAre == ASSUME NEW st, IsTrack(st) PROVE FiveInts(Merits(st))
<1> DEFINE a == -TypeRank(st)
           b == IF st.type = "video" THEN st.height ELSE 0
           c == IF st.type = "audio" THEN Rank(st.default) ELSE 0
           d == IF st.type = "audio" THEN st.channels ELSE 0
<1>1. TypeRank(st) \in Int
  <2>1. CASE st.type = "video"  BY <2>1 DEF TypeRank
  <2>2. CASE st.type = "audio"  BY <2>2 DEF TypeRank
  <2>3. CASE st.type = "subtitles"  BY <2>3 DEF TypeRank
  <2>4. CASE st.type \notin {"video", "audio", "subtitles"}  BY <2>4 DEF TypeRank
  <2>5. QED  BY <2>1, <2>2, <2>3, <2>4
<1>2. a \in Int /\ b \in Int /\ c \in Int /\ d \in Int /\ st.bw \in Int
  BY <1>1 DEF IsTrack, Rank
<1>3. Merits(st) = <<a, b, c, d, st.bw>>  BY DEF Merits
<1> HIDE DEF a, b, c, d
<1>4. QED  BY <1>2, <1>3 DEF FiveInts

(* A track is above another if its merits exceed the other's.            *)
LEMMA AboveIs ==
  ASSUME NEW x, IsTrack(x), NEW y, IsTrack(y)
  PROVE  Above(x, y) <=> Exceeds(Merits(x), Merits(y))
<1> DEFINE a == Merits(x)
           b == Merits(y)
           L(k) == a[k] > b[k] /\ \A j \in 1 .. k - 1 : a[j] = b[j]
<1>1. DOMAIN a = 1 .. 5  BY MeritsAre DEF FiveInts
<1>2. Above(x, y) <=> \E k \in 1 .. 5 : L(k)
  <2>1. Above(x, y) <=> \E k \in DOMAIN a : L(k)  BY DEF Above
  <2> HIDE DEF a, L
  <2>2. QED  BY <1>1, <2>1
<1> HIDE DEF a, b
<1>3. /\ L(1) <=> a[1] > b[1]
      /\ L(2) <=> a[1] = b[1] /\ a[2] > b[2]
      /\ L(3) <=> a[1] = b[1] /\ a[2] = b[2] /\ a[3] > b[3]
      /\ L(4) <=> a[1] = b[1] /\ a[2] = b[2] /\ a[3] = b[3] /\ a[4] > b[4]
      /\ L(5) <=> a[1] = b[1] /\ a[2] = b[2] /\ a[3] = b[3] /\ a[4] = b[4] /\ a[5] > b[5]
  <2>1. /\ L(1) <=> a[1] > b[1]
        /\ L(2) <=> a[1] = b[1] /\ a[2] > b[2]
        /\ L(3) <=> a[1] = b[1] /\ a[2] = b[2] /\ a[3] > b[3]
    OBVIOUS
  <2>2. L(4) <=> a[1] = b[1] /\ a[2] = b[2] /\ a[3] = b[3] /\ a[4] > b[4]  OBVIOUS
  <2>3. L(5) <=> a[1] = b[1] /\ a[2] = b[2] /\ a[3] = b[3] /\ a[4] = b[4] /\ a[5] > b[5]  OBVIOUS
  <2>4. QED  BY <2>1, <2>2, <2>3
<1> HIDE DEF L
<1>4. (\E k \in 1 .. 5 : L(k)) <=> L(1) \/ L(2) \/ L(3) \/ L(4) \/ L(5)
  <2>1. \A k : k \in 1 .. 5 <=> k = 1 \/ k = 2 \/ k = 3 \/ k = 4 \/ k = 5  OBVIOUS
  <2>2. QED  BY <2>1
<1>5. QED  BY <1>2, <1>3, <1>4 DEF Exceeds, a, b

(* Above is a strict weak order of the tracks.                           *)
LEMMA AboveOrders ==
  ASSUME NEW x, IsTrack(x), NEW y, IsTrack(y), NEW z, IsTrack(z)
  PROVE  /\ ~(Above(x, y) /\ Above(y, x)) /\ ~Above(x, x)
         /\ Above(x, y) /\ Above(y, z) => Above(x, z)
         /\ ~Above(x, y) /\ ~Above(y, z) => ~Above(x, z)
<1> DEFINE a == Merits(x)
           b == Merits(y)
           c == Merits(z)
<1>1. FiveInts(a) /\ FiveInts(b) /\ FiveInts(c)  BY MeritsAre
<1>2. /\ Above(x, y) <=> Exceeds(a, b)
      /\ Above(y, x) <=> Exceeds(b, a)
      /\ Above(y, z) <=> Exceeds(b, c)
      /\ Above(x, z) <=> Exceeds(a, c)
      /\ Above(x, x) <=> Exceeds(a, a)
  BY AboveIs
<1> HIDE DEF a, b, c
<1>3. /\ a[1] \in Int /\ a[2] \in Int /\ a[3] \in Int /\ a[4] \in Int /\ a[5] \in Int
      /\ b[1] \in Int /\ b[2] \in Int /\ b[3] \in Int /\ b[4] \in Int /\ b[5] \in Int
      /\ c[1] \in Int /\ c[2] \in Int /\ c[3] \in Int /\ c[4] \in Int /\ c[5] \in Int
  BY <1>1 DEF FiveInts
<1>4. ~(Exceeds(a, b) /\ Exceeds(b, a)) /\ ~Exceeds(a, a)  BY <1>3 DEF Exceeds
<1>5. Exceeds(a, b) /\ Exceeds(b, c) => Exceeds(a, c)  BY <1>3 DEF Exceeds
<1>6. ~Exceeds(a, b) /\ ~Exceeds(b, c) => ~Exceeds(a, c)  BY <1>3 DEF Exceeds
<1>7. QED  BY <1>2, <1>4, <1>5, <1>6

--------------------------------------------------------------------------------
(* Sort gives the same tracks, none above one before it.                   *)
Holds(s, t) == \A k \in 1 .. Len(s) : \E j \in 1 .. Len(t) : s[k] = t[j]
Descends(t) == \A k, l \in 1 .. Len(t) : k < l => ~Above(t[l], t[k])
SortOf(s, t) == IsSeq(t) /\ Len(t) = Len(s) /\ Holds(t, s) /\ Holds(s, t) /\ Descends(t)

(* Sort gives the tracks in descending order.                            *)
LEMMA Sorted ==
  ASSUME NEW s, AreTracks(s)
  PROVE  SortOf(s, Sort(s))
<1> DEFINE n == Len(s)
           D == 1 .. n
           before(i, j) == Above(s[i], s[j]) \/ (~Above(s[j], s[i]) /\ i < j)
           B == [i \in D |-> {j \in D : j = i \/ before(j, i)}]
           the(k) == CHOOSE i \in D : Cardinality(B[i]) = k
           t == [k \in D |-> s[the(k)]]
<1>1. n \in Nat /\ DOMAIN s = D /\ \A i \in D : IsTrack(s[i]) /\ i \in Int  BY DEF AreTracks, IsSeq
<1>2. Sort(s) = t
  <2> DEFINE place == [i \in D |-> Cardinality({j \in D : j = i \/ before(j, i)})]
  <2>1. Sort(s) = [k \in D |-> s[CHOOSE i \in D : place[i] = k]]
    <3> HIDE DEF D
    <3>1. QED  BY <1>1 DEF Sort
  <2>2. \A i \in D : place[i] = Cardinality(B[i])
    <3> HIDE DEF D, before
    <3>1. QED  OBVIOUS
  <2> HIDE DEF D, place, B
  <2>3. \A k \in D : (CHOOSE i \in D : place[i] = k) = the(k)  BY <2>2
  <2>4. QED  BY <2>1, <2>3
<1>3. ASSUME NEW i \in D, NEW j \in D PROVE i \in B[j] <=> i = j \/ before(i, j)
  <2> HIDE DEF D, before
  <2>1. QED  OBVIOUS
<1>4. ASSUME NEW i \in D, NEW j \in D, i # j PROVE before(i, j) <=> ~before(j, i)
  <2>1. ~(Above(s[i], s[j]) /\ Above(s[j], s[i]))  BY <1>1, AboveOrders
  <2>2. i \in Int /\ j \in Int  BY <1>1
  <2> HIDE DEF D
  <2>3. i < j <=> ~(j < i)  BY <1>4, <2>2
  <2>4. QED  BY <2>1, <2>3
<1>5. ASSUME NEW i \in D, NEW j \in D, NEW k \in D, before(i, j), before(j, k) PROVE before(i, k)
  <2>1. IsTrack(s[i]) /\ IsTrack(s[j]) /\ IsTrack(s[k])  BY <1>1
  <2>2. i \in Int /\ j \in Int /\ k \in Int  BY <1>1
  <2>3. i < j /\ j < k => i < k  BY <2>2
  <2> DEFINE x == s[i]
             y == s[j]
             z == s[k]
  <2>4. /\ ~(Above(x, z) /\ Above(z, x))
        /\ ~(Above(x, y) /\ Above(y, x)) /\ ~(Above(y, z) /\ Above(z, y))
        /\ Above(x, y) /\ Above(y, z) => Above(x, z)
        /\ ~Above(z, y) /\ ~Above(y, x) => ~Above(z, x)
        /\ ~Above(x, z) /\ ~Above(z, y) => ~Above(x, y)
        /\ ~Above(y, x) /\ ~Above(x, z) => ~Above(y, z)
    BY <2>1, AboveOrders
  <2> HIDE DEF x, y, z, D
  <2>5. Above(x, y) \/ (~Above(y, x) /\ i < j)  BY <1>5 DEF x, y
  <2>6. Above(y, z) \/ (~Above(z, y) /\ j < k)  BY <1>5 DEF y, z
  <2>7. Above(x, z) \/ (~Above(z, x) /\ i < k)  BY <2>3, <2>4, <2>5, <2>6
  <2>8. QED  BY <2>7 DEF x, z
<1>6. Ranking(D, B) /\ B \in [D -> SUBSET D]
  <2>1. B \in [D -> SUBSET D]
    <3> HIDE DEF D, before
    <3>1. QED  OBVIOUS
  <2> HIDE DEF B, D, before
  <2>2. ASSUME NEW i \in D, NEW j \in B[i], NEW k \in B[j] PROVE k \in B[i]
    <3>1. j \in D /\ k \in D  BY <2>1
    <3>2. (j = i \/ before(j, i)) /\ (k = j \/ before(k, j))  BY <1>3, <3>1
    <3>3. k = i \/ before(k, i)  BY <1>5, <3>1, <3>2
    <3>4. QED  BY <1>3, <3>1, <3>3
  <2>3. \A i \in D : i \in B[i] /\ \A j \in B[i] : B[j] \subseteq B[i]  BY <1>3, <2>2
  <2>4. \A i, j \in D : i # j => (i \in B[j] <=> j \notin B[i])  BY <1>3, <1>4
  <2>5. QED  BY <2>1, <2>3, <2>4 DEF Ranking
<1>7. IsFiniteSet(D) /\ Cardinality(D) = n
  <2>1. IsFiniteSet(1 .. n) /\ Cardinality(1 .. n) = (IF 1 > n THEN 0 ELSE n - 1 + 1)  BY <1>1, FS_Interval
  <2>2. QED  BY <1>1, <2>1
<1> HIDE DEF B
<1>8. /\ \A x \in D : Cardinality(B[x]) \in 1 .. n
      /\ \A x, y \in D : x # y /\ x \in B[y] => Cardinality(B[x]) < Cardinality(B[y])
      /\ \A k \in 1 .. n : \E x \in D : Cardinality(B[x]) = k
  <2> HIDE DEF D, n
  <2>1. QED  BY <1>6, <1>7, Ranked
<1>9. \A k \in D : the(k) \in D /\ Cardinality(B[the(k)]) = k  BY <1>8
<1>10. ASSUME NEW i \in D PROVE the(Cardinality(B[i])) = i
  <2> DEFINE j == the(Cardinality(B[i]))
  <2>1. Cardinality(B[i]) \in D /\ Cardinality(B[i]) \in Int  BY <1>8
  <2>2. j \in D /\ Cardinality(B[j]) = Cardinality(B[i])  BY <1>9, <2>1
  <2> HIDE DEF j
  <2>3. i # j => i \in B[j] \/ j \in B[i]  BY <1>6, <2>2 DEF Ranking
  <2>4. i # j => Cardinality(B[i]) < Cardinality(B[j]) \/ Cardinality(B[j]) < Cardinality(B[i])
    <3> HIDE DEF D
    <3>1. QED  BY <1>8, <2>2, <2>3
  <2>5. i = j
    <3> HIDE DEF D
    <3>1. QED  BY <2>1, <2>2, <2>4
  <2>6. QED  BY <2>5 DEF j
<1>11. IsSeq(t) /\ Len(t) = n
  <2>1. t = [k \in D |-> t[k]]  OBVIOUS
  <2> HIDE DEF t
  <2>2. t \in [1 .. n -> {t[k] : k \in D}]  BY <2>1
  <2>3. t \in Seq({t[k] : k \in D})  BY <1>1, <2>2 DEF Seq
  <2>4. DOMAIN t = 1 .. n  BY <2>1
  <2>5. Len(t) = n  BY <1>1, <2>3, <2>4
  <2>6. QED  BY <1>1, <2>1, <2>5 DEF IsSeq
<1>12. \A k \in D : t[k] = s[the(k)]  OBVIOUS
<1> HIDE DEF t, the
<1>13. Holds(t, s) /\ Holds(s, t)
  <2>1. ASSUME NEW i \in D PROVE \E k \in D : s[i] = t[k]
    <3>1. Cardinality(B[i]) \in D  BY <1>8
    <3>2. QED  BY <1>10, <1>12, <3>1
  <2>2. QED  BY <1>9, <1>11, <1>12, <2>1 DEF Holds
<1>14. ASSUME NEW k \in D, NEW l \in D, k < l PROVE ~Above(t[l], t[k])
  <2> DEFINE i == the(k)
             j == the(l)
  <2>1. i \in D /\ j \in D /\ Cardinality(B[i]) = k /\ Cardinality(B[j]) = l  BY <1>9
  <2>2. t[k] = s[i] /\ t[l] = s[j]  BY <1>12
  <2> HIDE DEF i, j
  <2>3. k \in Int /\ l \in Int  BY <1>1
  <2>4. i # j  BY <1>14, <2>1, <2>3
  <2>5. ~(j \in B[i])
    <3>1. j \in B[i] => l < k  BY <1>8, <2>1, <2>4
    <3>2. QED  BY <1>14, <2>3, <3>1
  <2>6. ~before(j, i)  BY <1>3, <2>1, <2>5
  <2>7. ~Above(s[j], s[i])  BY <2>6
  <2>8. QED  BY <2>2, <2>7
<1>15. QED  BY <1>2, <1>11, <1>13, <1>14 DEF SortOf, Descends

(* What is picked of a list is of that list.                               *)
From(t, s) == IsSeq(t) /\ Holds(t, s)

(* A sequence is from itself, nothing is from anything, and from is      *)
(* transitive.                                                           *)
LEMMA FromIs ==
  ASSUME NEW s, IsSeq(s)
  PROVE  /\ From(s, s) /\ From(<<>>, s) /\ DOMAIN s = 1 .. Len(s) /\ Len(s) \in Nat
         /\ s # <<>> => Len(s) > 0
         /\ \A t, u : From(t, u) /\ From(u, s) => From(t, s)
<1>1. From(s, s) /\ DOMAIN s = 1 .. Len(s) /\ Len(s) \in Nat  BY DEF From, Holds, IsSeq
<1>2. From(<<>>, s)
  <2>1. <<>> \in Seq({}) /\ Len(<<>>) = 0  OBVIOUS
  <2>2. IsSeq(<<>>)  BY <2>1, SeqIs
  <2>3. \A k \in 1 .. 0 : FALSE  OBVIOUS
  <2>4. QED  BY <2>1, <2>2, <2>3 DEF From, Holds
<1>3. s # <<>> => Len(s) > 0
  <2>1. PICK S : s \in Seq(S)  BY InSeq
  <2>2. QED  BY <2>1, EmptySeq
<1>4. ASSUME NEW t, NEW u, From(t, u), From(u, s) PROVE From(t, s)
  <2>1. IsSeq(t)  BY <1>4 DEF From
  <2>2. ASSUME NEW k \in 1 .. Len(t) PROVE \E j \in 1 .. Len(s) : t[k] = s[j]
    <3>1. PICK i \in 1 .. Len(u) : t[k] = u[i]  BY <1>4 DEF From, Holds
    <3>2. PICK j \in 1 .. Len(s) : u[i] = s[j]  BY <1>4 DEF From, Holds
    <3>3. QED  BY <3>1, <3>2
  <2>3. QED  BY <2>1, <2>2 DEF From, Holds
<1>5. QED  BY <1>1, <1>2, <1>3, <1>4

(* What is from tracks is tracks.                                        *)
LEMMA FromTracks ==
  ASSUME NEW s, AreTracks(s), NEW t, From(t, s) PROVE AreTracks(t)
BY DEF AreTracks, From, Holds

(* What Those picks is from the sequence, and is something if a place is *)
(* picked.                                                               *)
LEMMA PickedIs ==
  ASSUME NEW s, IsSeq(s), NEW I \in SUBSET (1 .. Len(s))
  PROVE  /\ PickedFrom(s, I, Those(s, I)) /\ From(Those(s, I), s)
         /\ I # {} => Those(s, I) # <<>> /\ Len(Those(s, I)) > 0
<1> DEFINE t == Those(s, I)
<1>1. Len(s) \in Nat  BY DEF IsSeq
<1>2. PickedFrom(s, I, t)  BY <1>1, ThosePicked
<1>3. IsSeq(t)
  <2>1. t = [k \in 1 .. Cardinality(I) |-> t[k]]  BY DEF Those
  <2> HIDE DEF t
  <2>2. QED  BY <1>2, <2>1 DEF IsSeq, PickedFrom
<1> HIDE DEF t
<1>4. Holds(t, s)
  <2>1. \A k \in 1 .. Len(t) : \E i \in I : t[k] = s[i]  BY <1>2 DEF PickedFrom
  <2>2. QED  BY <2>1 DEF Holds
<1>5. I # {} => Len(t) > 0
  <2>1. ASSUME NEW i \in I PROVE Len(t) > 0
    <3>1. Upto(I, i) \in 1 .. Cardinality(I) /\ Cardinality(I) \in Nat /\ Len(t) = Cardinality(I)
      BY <1>2 DEF PickedFrom
    <3>2. QED  BY <3>1
  <2>2. QED  BY <2>1
<1>6. Len(t) > 0 => t # <<>>
  <2>1. Len(<<>>) = 0  OBVIOUS
  <2>2. QED  BY <2>1
<1>7. QED  BY <1>2, <1>3, <1>4, <1>5, <1>6 DEF From, t

(* Two sequences of a list joined are from it.                           *)
LEMMA JoinedFrom ==
  ASSUME NEW s, NEW t, From(t, s), NEW u, From(u, s)
  PROVE  /\ From(t \o u, s) /\ Len(t \o u) = Len(t) + Len(u)
         /\ \A k \in 1 .. Len(t) : (t \o u)[k] = t[k]
         /\ \A k \in Len(t) + 1 .. Len(t) + Len(u) : (t \o u)[k] = u[k - Len(t)]
<1> DEFINE S == {t[k] : k \in 1 .. Len(t)} \cup {u[k] : k \in 1 .. Len(u)}
           w == t \o u
<1>1. IsSeq(t) /\ IsSeq(u) /\ Len(t) \in Nat /\ Len(u) \in Nat  BY DEF From, IsSeq
<1>2. t \in Seq(S) /\ u \in Seq(S)
  <2>1. t \in [1 .. Len(t) -> S] /\ u \in [1 .. Len(u) -> S]
    <3>1. \A k \in 1 .. Len(t) : t[k] \in S  OBVIOUS
    <3>2. \A k \in 1 .. Len(u) : u[k] \in S  OBVIOUS
    <3>3. t = [k \in 1 .. Len(t) |-> t[k]] /\ u = [k \in 1 .. Len(u) |-> u[k]]  BY <1>1 DEF IsSeq
    <3> HIDE DEF S
    <3>4. QED  BY <3>1, <3>2, <3>3
  <2> HIDE DEF S
  <2>2. QED  BY <1>1, <2>1 DEF Seq
<1> HIDE DEF S
<1>3. /\ w \in Seq(S) /\ Len(w) = Len(t) + Len(u)
      /\ \A i \in 1 .. Len(t) + Len(u) : w[i] = IF i <= Len(t) THEN t[i] ELSE u[i - Len(t)]
  BY <1>2, ConcatProperties
<1>4. IsSeq(w)  BY <1>3, SeqIs
<1> HIDE DEF w
<1>5. ASSUME NEW k \in 1 .. Len(t) PROVE w[k] = t[k]
  <2>1. k \in 1 .. Len(t) + Len(u) /\ k <= Len(t)  BY <1>1
  <2>2. QED  BY <1>3, <2>1
<1>6. ASSUME NEW k \in Len(t) + 1 .. Len(t) + Len(u) PROVE w[k] = u[k - Len(t)] /\ k - Len(t) \in 1 .. Len(u)
  <2>1. k \in 1 .. Len(t) + Len(u) /\ ~(k <= Len(t)) /\ k - Len(t) \in 1 .. Len(u)  BY <1>1
  <2>2. QED  BY <1>3, <2>1
<1>7. ASSUME NEW k \in 1 .. Len(w) PROVE \E j \in 1 .. Len(s) : w[k] = s[j]
  <2>1. k \in 1 .. Len(t) \/ k \in Len(t) + 1 .. Len(t) + Len(u)  BY <1>1, <1>3
  <2>2. QED  BY <1>5, <1>6, <2>1, ZenonT(40) DEF From, Holds
<1>8. From(w, s)  BY <1>4, <1>7 DEF From, Holds
<1>9. QED  BY <1>3, <1>5, <1>6, <1>8 DEF w

(* A part cut out of a list is from it.                                  *)
LEMMA CutFrom ==
  ASSUME NEW s, IsSeq(s), NEW m \in Nat, NEW n \in Nat, m >= 1, n <= Len(s), m <= n + 1
  PROVE  /\ From(SubSeq(s, m, n), s) /\ Len(SubSeq(s, m, n)) = n - m + 1
         /\ \A k \in 1 .. n - m + 1 : SubSeq(s, m, n)[k] = s[m + k - 1]
<1> DEFINE t == SubSeq(s, m, n)
<1>1. PICK S : s \in Seq(S) /\ \A k \in 1 .. Len(s) : s[k] \in S  BY InSeq
<1>2. Len(s) \in Nat  BY DEF IsSeq
<1>3. \A i \in m .. n : s[i] \in S
  <2>1. \A i \in m .. n : i \in 1 .. Len(s)  BY <1>2
  <2>2. QED  BY <1>1, <2>1
<1>4. /\ t \in Seq(S) /\ Len(t) = (IF m <= n THEN n - m + 1 ELSE 0)
      /\ \A i \in 1 .. n - m + 1 : t[i] = s[m + i - 1]
  BY <1>3, SubSeqProperties
<1>5. IsSeq(t)  BY <1>4, SeqIs
<1> HIDE DEF t
<1>6. Len(t) = n - m + 1  BY <1>4
<1>7. \A k \in 1 .. n - m + 1 : m + k - 1 \in 1 .. Len(s)  BY <1>2
<1>8. QED  BY <1>4, <1>5, <1>6, <1>7 DEF From, Holds, t

(* Of finitely many integers and 0 one is the greatest.                  *)
LEMMA GreatestOf ==
  ASSUME NEW n \in Nat, NEW I \in SUBSET (1 .. n), NEW f \in [1 .. n -> Int]
  PROVE  \E m \in {0} \cup {f[i] : i \in I} : \A y \in {0} \cup {f[i] : i \in I} : y <= m
<1> DEFINE J(k) == {i \in I : i <= k}
           W(k) == {0} \cup {f[i] : i \in J(k)}
           T == {k \in 0 .. n : \E m \in W(k) : \A y \in W(k) : y <= m}
<1>1. \A i \in I : i \in Int /\ f[i] \in Int /\ i <= n /\ ~(i <= 0)  OBVIOUS
<1>2. \A k : \A i : i \in J(k) <=> i \in I /\ i <= k  OBVIOUS
<1> HIDE DEF J
<1>3. \A k : \A y : y \in W(k) <=> y = 0 \/ \E i \in J(k) : y = f[i]  OBVIOUS
<1>4. \A k : \A y \in W(k) : y \in Int  BY <1>1, <1>2
<1> HIDE DEF W
<1>5. 0 \in T
  <2>1. \A i : i \notin J(0)
    <3>1. \A i : i \in J(0) <=> i \in I /\ i <= 0  BY <1>2
    <3>2. QED  BY <1>1, <3>1
  <2>2. \A y : y \in W(0) <=> y = 0  BY <1>3, <2>1
  <2>3. QED  BY <2>2
<1>6. ASSUME NEW k \in 0 .. n - 1, k \in T PROVE k + 1 \in T
  <2>1. k \in Nat /\ k + 1 \in 0 .. n  OBVIOUS
  <2>2. PICK m \in W(k) : \A y \in W(k) : y <= m  BY <1>6
  <2>3. m \in Int  BY <1>4
  <2>4. CASE k + 1 \in I
    <3> DEFINE v == f[k + 1]
    <3>1. v \in Int  BY <1>1, <2>4
    <3>2. \A i \in I : i <= k + 1 <=> (i <= k \/ i = k + 1)  BY <1>1, <2>1
    <3>3. \A i : i \in J(k + 1) <=> i \in J(k) \/ i = k + 1  BY <1>2, <2>4, <3>2
    <3>4. \A y : y \in W(k + 1) <=> y \in W(k) \/ y = v  BY <1>3, <3>3
    <3> HIDE DEF v
    <3>5. CASE v >= m
      <4>1. \A y \in W(k) : y <= v  BY <1>4, <2>2, <2>3, <3>1, <3>5
      <4>2. v <= v  BY <3>1
      <4>3. \A y \in W(k + 1) : y <= v  BY <3>4, <4>1, <4>2
      <4>4. v \in W(k + 1)  BY <3>4
      <4>5. QED  BY <2>1, <4>3, <4>4
    <3>6. CASE ~(v >= m)
      <4>1. v <= m  BY <2>3, <3>1, <3>6
      <4>2. \A y \in W(k + 1) : y <= m  BY <2>2, <3>4, <4>1
      <4>3. m \in W(k + 1)  BY <3>4
      <4>4. QED  BY <2>1, <4>2, <4>3
    <3>7. QED  BY <3>5, <3>6
  <2>5. CASE k + 1 \notin I
    <3>1. \A i \in I : i <= k + 1 <=> i <= k  BY <1>1, <2>1, <2>5
    <3>2. \A i : i \in J(k + 1) <=> i \in J(k)  BY <1>2, <3>1
    <3>3. \A y : y \in W(k + 1) <=> y \in W(k)  BY <1>3, <3>2
    <3>4. QED  BY <2>1, <2>2, <3>3
  <2>6. QED  BY <2>4, <2>5
<1> HIDE DEF T
<1>7. 0 .. n \subseteq T  BY <1>5, <1>6, UpTo
<1>8. n \in T  BY <1>7
<1>9. J(n) = I
  <2>1. \A i : i \in J(n) <=> i \in I /\ i <= n  BY <1>2
  <2>2. \A i : i \in J(n) <=> i \in I  BY <1>1, <2>1
  <2>3. QED  BY <2>2
<1>10. W(n) = {0} \cup {f[i] : i \in I}  BY <1>9 DEF W
<1>11. QED  BY <1>8, <1>10 DEF T

--------------------------------------------------------------------------------
(* How far a track is outside the bounds.                                  *)
IsBound(e, i) == i \in DOMAIN e.filters /\ IsDim(e.filters[i])
Outside(e, i, st) ==
  IF st.height <= 0 THEN 0
  ELSE IF e.filters[i].key = "hmax" THEN st.height - e.filters[i].num ELSE e.filters[i].num - st.height

(* A track is at distance 0 exactly if it is within the bounds.          *)
LEMMA DistanceIs ==
  ASSUME NEW e, IsExpr(e), NEW st, IsTrack(st)
  PROVE  /\ Distance(e, st) \in Nat
         /\ (Match(e, st, TRUE) /\ Distance(e, st) = 0) <=> Match(e, st, FALSE)
<1> DEFINE n == Len(e.filters)
           I == {i \in DOMAIN e.filters : IsDim(e.filters[i])}
           f == [i \in 1 .. n |-> Outside(e, i, st)]
           V == {0} \cup {f[i] : i \in I}
           d == Distance(e, st)
<1>1. n \in Nat /\ DOMAIN e.filters = 1 .. n /\ st.height \in Int
      /\ \A i \in 1 .. n : e.filters[i].num \in Int
  BY DEF IsExpr, IsList, IsTrack
<1>2. I \in SUBSET (1 .. n) /\ f \in [1 .. n -> Int]
  <2>1. \A i \in 1 .. n : Outside(e, i, st) \in Int  BY <1>1 DEF Outside
  <2>2. QED  BY <1>1, <2>1
<1>3. d = Max(V)
  <2>1. \A i \in I : i \in 1 .. n  BY <1>2
  <2>2. \A i \in I : f[i] = Outside(e, i, st)  BY <2>1
  <2> HIDE DEF f, n
  <2>3. {f[i] : i \in I} = {Outside(e, i, st) : i \in I}  BY <2>2
  <2>4. d = Max({0} \cup {Outside(e, i, st) : i \in I})  BY DEF Distance, Outside
  <2>5. QED  BY <2>3, <2>4
<1>4. \E m \in V : \A y \in V : y <= m
  <2> HIDE DEF f, n, I
  <2>1. QED  BY <1>1, <1>2, GreatestOf
<1>5. \A y \in V : y \in Int  BY <1>2
<1>6. 0 \in V /\ \A i \in I : f[i] \in V /\ f[i] = Outside(e, i, st)  BY <1>2
<1>7. \A y \in V : y = 0 \/ \E i \in I : y = f[i]  OBVIOUS
<1> HIDE DEF V, d, f
<1>8. \E m \in V : \A y \in V : m >= y  BY <1>4, <1>5
<1>9. d \in V /\ \A y \in V : d >= y  BY <1>3, <1>8 DEF Max
<1>10. d \in Nat  BY <1>5, <1>6, <1>9
<1>11. d = 0 <=> \A i \in I : Outside(e, i, st) <= 0
  <2>1. ASSUME d = 0, NEW i \in I PROVE Outside(e, i, st) <= 0
    <3>1. f[i] \in V /\ f[i] = Outside(e, i, st) /\ f[i] \in Int  BY <1>5, <1>6
    <3>2. d >= f[i]  BY <1>9, <3>1
    <3>3. QED  BY <2>1, <3>1, <3>2
  <2>2. ASSUME \A i \in I : Outside(e, i, st) <= 0 PROVE d = 0
    <3>1. d = 0 \/ d <= 0  BY <1>6, <1>7, <1>9, <2>2
    <3>2. QED  BY <1>10, <3>1
  <2>3. QED  BY <2>1, <2>2
<1>12. ASSUME NEW i \in I PROVE Outside(e, i, st) <= 0 <=> Passes(e.filters[i], st)
  <2>1. e.filters[i].key \in {"hmin", "hmax"} /\ e.filters[i].num \in Int  BY <1>1, <1>2 DEF IsDim
  <2>2. CASE e.filters[i].key = "hmin"
    <3>1. Passes(e.filters[i], st) <=> (st.height > 0 => st.height >= e.filters[i].num)
      BY <2>2 DEF Passes
    <3>2. QED  BY <1>1, <2>1, <2>2, <3>1 DEF Outside
  <2>3. CASE e.filters[i].key = "hmax"
    <3>1. Passes(e.filters[i], st) <=> (st.height > 0 => st.height <= e.filters[i].num)
      BY <2>3 DEF Passes
    <3>2. QED  BY <1>1, <2>1, <2>3, <3>1 DEF Outside
  <2>4. QED  BY <2>1, <2>2, <2>3
<1>13. Match(e, st, FALSE) <=> \A i \in DOMAIN e.filters : Passes(e.filters[i], st)  BY DEF Match
<1>14. Match(e, st, TRUE) <=> \A i \in DOMAIN e.filters : i \in I \/ Passes(e.filters[i], st)
  BY DEF Match
<1>15. \A i \in I : i \in DOMAIN e.filters  OBVIOUS
<1> HIDE DEF I
<1>16. QED  BY <1>10, <1>11, <1>12, <1>13, <1>14, <1>15 DEF d

(* One member of a list is from it.                                      *)
LEMMA OneOf ==
  ASSUME NEW s, IsSeq(s), NEW k \in 1 .. Len(s)
  PROVE  From(<<s[k]>>, s) /\ Len(<<s[k]>>) = 1 /\ <<s[k]>>[1] = s[k]
<1> DEFINE e == s[k]
           t == <<e>>
<1>1. Len(t) = 1 /\ t[1] = e /\ t \in Seq({e})  OBVIOUS
<1>2. IsSeq(t)  BY <1>1, SeqIs
<1> HIDE DEF t
<1>3. \A j \in 1 .. 1 : j = 1  OBVIOUS
<1>4. QED  BY <1>1, <1>2, <1>3 DEF From, Holds, t

(* Min is the least member of a part of 1 .. n.                          *)
LEMMA LeastOfRange ==
  ASSUME NEW n, NEW T \in SUBSET (1 .. n), T # {}
  PROVE  Min(T) \in T /\ \A k \in T : Min(T) <= k
<1>1. \A k \in T : k \in Nat  OBVIOUS
<1>2. T \subseteq Nat  BY <1>1
<1>3. \E m \in T : \A k \in T : m <= k  BY <1>2, LeastMember
<1>4. QED  BY <1>3 DEF Min

(* The tracks an expression takes: within its bounds, or else nearest.     *)
Able(e, s) == {k \in 1 .. Len(s) : Match(e, s[k], TRUE)}
Fits(e, s) == {k \in 1 .. Len(s) : Match(e, s[k], FALSE)}
Bounded(e) == \E i \in DOMAIN e.filters : IsDim(e.filters[i])
IsNearest(e, s, k) ==
  k \in Able(e, s) /\ \A j \in Able(e, s) : Distance(e, s[k]) <= Distance(e, s[j])

(* Nearest gives a track no other is nearer than, and gives one if there *)
(* are bounds.                                                           *)
LEMMA NearestIs ==
  ASSUME NEW e, IsExpr(e), NEW s, AreTracks(s)
  PROVE  /\ From(Nearest(e, s), s)
         /\ \A i \in 1 .. Len(Nearest(e, s)) : \E k \in 1 .. Len(s) : IsNearest(e, s, k) /\ Nearest(e, s)[i] = s[k]
         /\ Able(e, s) # {} /\ Bounded(e) => Len(Nearest(e, s)) > 0
<1> DEFINE n == Len(s)
           A == Able(e, s)
           near == {k \in A : \A j \in A : Distance(e, s[k]) <= Distance(e, s[j])}
           t == Nearest(e, s)
<1>1. IsSeq(s) /\ DOMAIN s = 1 .. n /\ n \in Nat /\ \A k \in 1 .. n : IsTrack(s[k])
  BY FromIs DEF AreTracks
<1>2. A \in SUBSET (1 .. n)  BY DEF Able
<1>3. t = IF A = {} \/ ~Bounded(e) THEN <<>> ELSE <<s[Min(near)]>>
  <2>1. A = {k \in DOMAIN s : Match(e, s[k], TRUE)}  BY <1>1 DEF Able
  <2> HIDE DEF A
  <2>2. t = IF A = {} \/ \A i \in DOMAIN e.filters : ~IsDim(e.filters[i]) THEN <<>> ELSE <<s[Min(near)]>>
    BY <2>1 DEF Nearest
  <2> HIDE DEF near, t
  <2>3. QED  BY <2>2 DEF Bounded
<1> HIDE DEF t
<1>4. CASE A = {} \/ ~Bounded(e)
  <2>1. t = <<>>  BY <1>3, <1>4
  <2>2. Len(t) = 0  BY <2>1
  <2>3. From(t, s)  BY <1>1, <2>1, FromIs
  <2>4. \A i \in 1 .. 0 : FALSE  OBVIOUS
  <2>5. QED  BY <1>4, <2>2, <2>3, <2>4 DEF t
<1>5. CASE A # {} /\ Bounded(e)
  <2> DEFINE D == {Distance(e, s[k]) : k \in A}
  <2>1. \A k \in A : Distance(e, s[k]) \in Nat  BY <1>1, <1>2, DistanceIs
  <2> HIDE DEF A
  <2>2. D \subseteq Nat /\ D # {}  BY <1>5, <2>1
  <2>3. \E m \in D : \A k \in D : m <= k
    <3> HIDE DEF D
    <3>1. QED  BY <2>2, LeastMember
  <2>4. PICK k \in A : \A d \in D : Distance(e, s[k]) <= d  BY <2>3
  <2>5. \A j \in A : Distance(e, s[j]) \in D  OBVIOUS
  <2> HIDE DEF D
  <2>6. k \in near  BY <2>4, <2>5
  <2>7. near \in SUBSET (1 .. n)  BY <1>2
  <2>8. \A j \in near : IsNearest(e, s, j)  BY DEF IsNearest, A
  <2> HIDE DEF near
  <2>9. Min(near) \in near  BY <2>6, <2>7, LeastOfRange
  <2> DEFINE m == Min(near)
  <2>10. m \in 1 .. n /\ IsNearest(e, s, m) /\ t = <<s[m]>>  BY <1>3, <1>5, <2>7, <2>8, <2>9
  <2> HIDE DEF m, n
  <2>11. From(t, s) /\ Len(t) = 1 /\ t[1] = s[m]  BY <1>1, <2>10, OneOf DEF n
  <2>12. \A i \in 1 .. 1 : i = 1  OBVIOUS
  <2>13. QED  BY <2>10, <2>11, <2>12 DEF t, n
<1>6. QED  BY <1>4, <1>5

(* What Apply takes of its pool.                                           *)
Pool(e, s) ==
  LET matching == Those(s, {k \in DOMAIN s : Match(e, s[k], FALSE)})
  IN IF matching # <<>> THEN matching ELSE Nearest(e, s)

(* The pool is what fits, in its order, or else what is nearest.         *)
LEMMA PoolIs ==
  ASSUME NEW e, IsExpr(e), NEW s, AreTracks(s)
  PROVE  /\ From(Pool(e, s), s)
         /\ Fits(e, s) # {} => PickedFrom(s, Fits(e, s), Pool(e, s)) /\ Len(Pool(e, s)) > 0
         /\ Fits(e, s) = {} => Pool(e, s) = Nearest(e, s)
<1> DEFINE n == Len(s)
           F == Fits(e, s)
           t == Those(s, F)
<1>1. IsSeq(s) /\ DOMAIN s = 1 .. n /\ n \in Nat  BY FromIs DEF AreTracks
<1>2. F \in SUBSET (1 .. n) /\ F = {k \in DOMAIN s : Match(e, s[k], FALSE)}  BY <1>1 DEF Fits
<1> HIDE DEF F
<1>3. PickedFrom(s, F, t) /\ From(t, s) /\ (F # {} => t # <<>> /\ Len(t) > 0)  BY <1>1, <1>2, PickedIs
<1>4. F = {} => t = <<>>
  <2>1. F = {} => Cardinality(F) = 0  BY FS_EmptySet
  <2>2. F = {} => t = [k \in 1 .. 0 |-> s[CHOOSE i \in F : Upto(F, i) = k]]  BY <2>1 DEF Those
  <2>3. \A g : [k \in 1 .. 0 |-> s[CHOOSE i \in g : Upto(g, i) = k]] = <<>>  OBVIOUS
  <2>4. QED  BY <2>2, <2>3
<1>5. Pool(e, s) = IF t # <<>> THEN t ELSE Nearest(e, s)  BY <1>2 DEF Pool
<1>6. From(Nearest(e, s), s)  BY NearestIs
<1> HIDE DEF t
<1>7. QED  BY <1>3, <1>4, <1>5, <1>6 DEF F

(* Apply takes of the pool, and takes something if it asks for           *)
(* something.                                                            *)
LEMMA ApplyIs ==
  ASSUME NEW e, IsExpr(e), NEW s, AreTracks(s)
  PROVE  LET t == Apply(e, s)
             pool == Pool(e, s)
         IN /\ From(t, pool) /\ (e.none => t = <<>>)
            /\ ~e.none /\ Len(pool) > 0 /\ (e.take = "all" \/ e.n > 0) => Len(t) > 0
            /\ e.take = "best" /\ e.n = 1 => \A k \in 1 .. Len(t) : t[k] = pool[1]
<1> DEFINE t == Apply(e, s)
           pool == Pool(e, s)
           len == Len(pool)
           n == Min({e.n, len})
           one == len - n + 1
<1>1. IsSeq(pool) /\ len \in Nat  BY PoolIs DEF From, IsSeq
<1>2. e.none \in BOOLEAN /\ e.take \in {"all", "worst", "best"} /\ e.n \in Nat  BY DEF IsExpr
<1>3. t = IF e.none THEN <<>>
          ELSE CASE e.take = "all"   -> pool
                 [] e.take = "worst" -> SubSeq(pool, one, len)
                 [] e.take = "best"  -> SubSeq(pool, 1, n)
  BY DEF Apply, Pool
<1> HIDE DEF pool
<1>4. n \in Nat /\ n <= len /\ (n = len \/ n = e.n) /\ (e.n <= len => n = e.n)
  <2>1. \E m \in {e.n, len} : \A k \in {e.n, len} : m <= k  BY <1>1, <1>2
  <2>2. n \in {e.n, len} /\ n <= len /\ n <= e.n  BY <2>1 DEF Min
  <2> HIDE DEF n
  <2>3. QED  BY <1>1, <1>2, <2>2
<1> HIDE DEF t, n
<1>5. CASE e.none
  <2>1. t = <<>>  BY <1>3, <1>5
  <2>2. Len(t) = 0 /\ \A k \in 1 .. 0 : FALSE  BY <2>1
  <2>3. From(t, pool)  BY <1>1, <2>1, FromIs
  <2>4. QED  BY <1>5, <2>1, <2>2, <2>3 DEF t, pool
<1>6. CASE ~e.none /\ e.take = "all"
  <2>1. t = pool  BY <1>3, <1>6
  <2>2. From(t, pool)  BY <1>1, <2>1, FromIs
  <2>3. QED  BY <1>6, <2>1, <2>2 DEF t, pool
<1>7. CASE ~e.none /\ e.take = "worst"
  <2>1. t = SubSeq(pool, one, len)  BY <1>3, <1>7
  <2>2. one \in Nat /\ one >= 1 /\ one <= len + 1 /\ len - one + 1 = n  BY <1>1, <1>4
  <2> HIDE DEF one
  <2>3. From(t, pool) /\ Len(t) = n  BY <1>1, <2>1, <2>2, CutFrom
  <2>4. len > 0 /\ e.n > 0 => n > 0  BY <1>4
  <2>5. QED  BY <1>7, <2>3, <2>4 DEF t, pool
<1>8. CASE ~e.none /\ e.take = "best"
  <2>1. t = SubSeq(pool, 1, n)  BY <1>3, <1>8
  <2>2. 1 <= n + 1 /\ n - 1 + 1 = n  BY <1>4
  <2>3. From(t, pool) /\ Len(t) = n - 1 + 1 /\ \A k \in 1 .. n - 1 + 1 : t[k] = pool[1 + k - 1]
    BY <1>1, <1>4, <2>1, <2>2, CutFrom
  <2>4. Len(t) = n  BY <2>2, <2>3
  <2>5. len > 0 /\ e.n > 0 => n > 0  BY <1>4
  <2>6. e.n = 1 => \A k \in 1 .. Len(t) : t[k] = pool[1]
    <3>1. ASSUME e.n = 1, NEW k \in 1 .. Len(t) PROVE t[k] = pool[1]
      <4>1. n <= 1
        <5>1. e.n <= len \/ len = 0  BY <1>1, <3>1
        <5>2. QED  BY <1>1, <1>4, <3>1, <5>1
      <4>2. k = 1 /\ 1 + k - 1 = 1 /\ k \in 1 .. n - 1 + 1  BY <1>4, <2>4, <4>1
      <4>3. t[k] = pool[1 + k - 1]  BY <2>3, <4>2
      <4>4. QED  BY <4>2, <4>3
    <3>2. QED  BY <3>1
  <2>7. QED  BY <1>8, <2>3, <2>4, <2>5, <2>6 DEF t, pool
<1>9. QED  BY <1>2, <1>5, <1>6, <1>7, <1>8

(* The parts of a selection.                                               *)
OfTypes(s, type) == {k \in 1 .. Len(s) : s[k].type = type}
OfGroup(s, group) == {k \in 1 .. Len(s) : s[k].group = group}
Rendered(s) == {k \in 1 .. Len(s) : s[k].group # ""}
FirstSpoken(s) == {k \in 1 .. Len(s) : \A j \in 1 .. k - 1 : s[j].lang # s[k].lang}

(* What the selection keeps of a list, as places in it.                  *)
LEMMA PartsPicked ==
  ASSUME NEW s, IsSeq(s), NEW x
  PROVE  /\ OfType(s, x) = Those(s, OfTypes(s, x)) /\ OfTypes(s, x) \in SUBSET (1 .. Len(s))
         /\ Those(s, {k \in DOMAIN s : s[k].group = x}) = Those(s, OfGroup(s, x))
         /\ OfGroup(s, x) \in SUBSET (1 .. Len(s))
         /\ Those(s, {k \in DOMAIN s : s[k].group # ""}) = Those(s, Rendered(s))
         /\ Rendered(s) \in SUBSET (1 .. Len(s))
         /\ BestPerLanguage(s) = Those(s, FirstSpoken(s)) /\ FirstSpoken(s) \in SUBSET (1 .. Len(s))
<1>1. DOMAIN s = 1 .. Len(s)  BY FromIs
<1>2. OfType(s, x) = Those(s, OfTypes(s, x)) /\ OfTypes(s, x) \in SUBSET (1 .. Len(s))
  BY <1>1 DEF OfType, OfTypes
<1>3. /\ Those(s, {k \in DOMAIN s : s[k].group = x}) = Those(s, OfGroup(s, x))
      /\ OfGroup(s, x) \in SUBSET (1 .. Len(s))
  BY <1>1 DEF OfGroup
<1>4. /\ Those(s, {k \in DOMAIN s : s[k].group # ""}) = Those(s, Rendered(s))
      /\ Rendered(s) \in SUBSET (1 .. Len(s))
  BY <1>1 DEF Rendered
<1>5. BestPerLanguage(s) = Those(s, FirstSpoken(s)) /\ FirstSpoken(s) \in SUBSET (1 .. Len(s))
  BY <1>1 DEF BestPerLanguage, FirstSpoken
<1>6. QED  BY <1>2, <1>3, <1>4, <1>5

(* No place picks nothing.                                               *)
LEMMA NonePicked == ASSUME NEW s PROVE Those(s, {}) = <<>>
<1>1. Cardinality({}) = 0  BY FS_EmptySet
<1>2. Those(s, {}) = [k \in 1 .. 0 |-> s[CHOOSE i \in {} : Upto({}, i) = k]]  BY <1>1 DEF Those
<1>3. QED  BY <1>2

(* FirstOf takes the first, if there is one.                             *)
LEMMA FirstIs ==
  ASSUME NEW s, IsSeq(s)
  PROVE  From(FirstOf(s), s) /\ (s # <<>> => FirstOf(s) = <<s[1]>>)
<1>1. CASE s = <<>>
  <2>1. FirstOf(s) = <<>>  BY <1>1 DEF FirstOf
  <2>2. QED  BY <1>1, <2>1, FromIs
<1>2. CASE s # <<>>
  <2>1. Len(s) > 0 /\ Len(s) \in Nat  BY <1>2, FromIs
  <2>2. 1 \in 1 .. Len(s)  BY <2>1
  <2>3. FirstOf(s) = <<s[1]>>  BY <1>2 DEF FirstOf
  <2>4. QED  BY <2>2, <2>3, OneOf
<1>3. QED  BY <1>1, <1>2

(* PreferGroup keeps the members of the group if it has any.             *)
LEMMA PreferredIs ==
  ASSUME NEW s, IsSeq(s), NEW group
  PROVE  /\ From(PreferGroup(s, group), s)
         /\ PreferGroup(s, group) =
              IF group # "" /\ OfGroup(s, group) # {} THEN Those(s, OfGroup(s, group)) ELSE s
<1>1. OfGroup(s, group) \in SUBSET (1 .. Len(s))  BY PartsPicked
<1>2. From(Those(s, OfGroup(s, group)), s) /\ (OfGroup(s, group) # {} => Those(s, OfGroup(s, group)) # <<>>)
  BY <1>1, PickedIs
<1>3. OfGroup(s, group) = {} => Those(s, OfGroup(s, group)) = <<>>  BY NonePicked
<1>4. PreferGroup(s, group) =
        IF group # "" /\ Those(s, OfGroup(s, group)) # <<>> THEN Those(s, OfGroup(s, group)) ELSE s
  BY PartsPicked DEF PreferGroup
<1>5. From(s, s)  BY FromIs
<1>6. QED  BY <1>2, <1>3, <1>4, <1>5

(* Without an expression the sound is the best of each language, or one  *)
(* variant.                                                              *)
LEMMA DefaultIs ==
  ASSUME NEW s, IsSeq(s), NEW videos
  PROVE  LET t == DefaultAudio(s, videos)
             heard == Those(s, Rendered(s))
         IN /\ From(t, s) /\ From(heard, s)
            /\ Rendered(s) # {} => t = BestPerLanguage(heard)
            /\ Rendered(s) = {} /\ ~AllMuxed(videos) /\ s # <<>> => Len(t) > 0
<1> DEFINE t == DefaultAudio(s, videos)
           R == Rendered(s)
           heard == Those(s, R)
           V == OfGroup(s, "")
           rest == Those(s, V)
<1>1. R \in SUBSET (1 .. Len(s)) /\ V \in SUBSET (1 .. Len(s))  BY PartsPicked
<1>2. t = IF heard # <<>> THEN BestPerLanguage(heard) ELSE IF AllMuxed(videos) THEN <<>> ELSE FirstOf(rest)
  BY PartsPicked DEF DefaultAudio
<1> HIDE DEF R, V
<1>3. From(heard, s) /\ From(rest, s) /\ (R # {} => heard # <<>>) /\ (V # {} => rest # <<>>)
  BY <1>1, PickedIs
<1>4. R = {} => heard = <<>>  BY NonePicked
<1> HIDE DEF heard, rest, t
<1>5. CASE R # {}
  <2>1. t = BestPerLanguage(heard)  BY <1>2, <1>3, <1>5
  <2>2. IsSeq(heard)  BY <1>3 DEF From
  <2>3. From(t, heard)  BY <2>1, <2>2, PartsPicked, PickedIs
  <2>4. From(t, s)  BY <1>3, <2>3, FromIs
  <2>5. QED  BY <1>3, <1>5, <2>1, <2>4 DEF t, heard, R
<1>6. CASE R = {} /\ AllMuxed(videos)
  <2>1. t = <<>>  BY <1>2, <1>4, <1>6
  <2>2. From(t, s)  BY <2>1, FromIs
  <2>3. QED  BY <1>3, <1>6, <2>2 DEF t, heard, R
<1>7. CASE R = {} /\ ~AllMuxed(videos)
  <2>1. t = FirstOf(rest)  BY <1>2, <1>4, <1>7
  <2>2. From(t, rest) /\ IsSeq(rest) /\ (rest # <<>> => t = <<rest[1]>>)  BY <1>3, <2>1, FirstIs DEF From
  <2>3. From(t, s)  BY <1>3, <2>2, FromIs
  <2>4. s # <<>> => V # {}
    <3>1. s # <<>> => Len(s) > 0 /\ Len(s) \in Nat  BY FromIs
    <3>2. s # <<>> => 1 \in 1 .. Len(s)  BY <3>1
    <3>3. s # <<>> => s[1].group = ""  BY <1>7, <3>2 DEF R, Rendered
    <3>4. QED  BY <3>2, <3>3 DEF V, OfGroup
  <2>5. s # <<>> => Len(t) > 0
    <3>1. s # <<>> => t = <<rest[1]>>  BY <1>3, <2>2, <2>4
    <3>2. Len(<<rest[1]>>) = 1  OBVIOUS
    <3>3. QED  BY <3>1, <3>2
  <2>6. QED  BY <1>3, <1>7, <2>3, <2>5 DEF t, heard, R
<1>8. QED  BY <1>5, <1>6, <1>7

(* What Select adds to the videos.                                         *)
NamedGroup(videos) == IF Len(videos) = 1 THEN videos[1].audio ELSE ""
AudioPool(s, videos) == PreferGroup(OfType(s, "audio"), NamedGroup(videos))
AudioOf(s, videos, ae) ==
  IF ae = <<>> THEN DefaultAudio(AudioPool(s, videos), videos) ELSE Apply(ae[1], AudioPool(s, videos))
SubsPool(s, videos) == PreferGroup(OfType(s, "subtitles"), IF Len(videos) = 1 THEN videos[1].subs ELSE "")
SubsOf(s, videos, se) == IF se = <<>> THEN SubsPool(s, videos) ELSE Apply(se[1], SubsPool(s, videos))

(* What Apply takes is from what it is given.                            *)
LEMMA PoolFrom ==
  ASSUME NEW e, IsExpr(e), NEW s, AreTracks(s) PROVE From(Apply(e, s), s)
<1>1. From(Pool(e, s), s) /\ From(Apply(e, s), Pool(e, s))  BY PoolIs, ApplyIs
<1>2. QED  BY <1>1, FromIs DEF AreTracks

(* A selection is the videos, then sound, then subtitles, each from the  *)
(* tracks of its type.                                                   *)
LEMMA SelectFrom ==
  ASSUME NEW s, AreTracks(s), NEW videos, From(videos, s),
         NEW ae, ae # <<>> => IsExpr(ae[1]), NEW se, se # <<>> => IsExpr(se[1])
  PROVE  /\ Select(s, videos, ae, se) = videos \o AudioOf(s, videos, ae) \o SubsOf(s, videos, se)
         /\ From(AudioOf(s, videos, ae), OfType(s, "audio")) /\ From(SubsOf(s, videos, se), OfType(s, "subtitles"))
         /\ From(Select(s, videos, ae, se), s)
<1> DEFINE audios == OfType(s, "audio")
           texts == OfType(s, "subtitles")
           a == AudioOf(s, videos, ae)
           b == SubsOf(s, videos, se)
<1>1. Select(s, videos, ae, se) = videos \o a \o b
  BY DEF Select, AudioOf, SubsOf, AudioPool, SubsPool, NamedGroup
<1>2. IsSeq(s)  BY DEF AreTracks
<1>3. From(audios, s) /\ From(texts, s) /\ IsSeq(audios) /\ IsSeq(texts) /\ AreTracks(audios) /\ AreTracks(texts)
  <2>1. \A x : From(OfType(s, x), s)
    <3>1. \A x : OfType(s, x) = Those(s, OfTypes(s, x)) /\ OfTypes(s, x) \in SUBSET (1 .. Len(s))
      BY <1>2, PartsPicked
    <3>2. QED  BY <1>2, <3>1, PickedIs
  <2>2. QED  BY <2>1, FromTracks DEF From
<1> HIDE DEF audios, texts
<1>4. From(AudioPool(s, videos), audios) /\ From(SubsPool(s, videos), texts)
  BY <1>3, PreferredIs DEF AudioPool, SubsPool, audios, texts
<1>5. AreTracks(AudioPool(s, videos)) /\ AreTracks(SubsPool(s, videos))  BY <1>3, <1>4, FromTracks
<1>6. From(a, AudioPool(s, videos))
  <2>1. CASE ae = <<>>  BY <1>5, <2>1, DefaultIs DEF AudioOf, AreTracks
  <2>2. CASE ae # <<>>  BY <1>5, <2>2, PoolFrom DEF AudioOf
  <2>3. QED  BY <2>1, <2>2
<1>7. From(b, SubsPool(s, videos))
  <2>1. CASE se = <<>>  BY <1>5, <2>1, FromIs DEF SubsOf, AreTracks
  <2>2. CASE se # <<>>  BY <1>5, <2>2, PoolFrom DEF SubsOf
  <2>3. QED  BY <2>1, <2>2
<1> HIDE DEF a, b
<1>8. From(a, audios) /\ From(b, texts)  BY <1>3, <1>4, <1>6, <1>7, FromIs
<1>9. From(a, s) /\ From(b, s)  BY <1>2, <1>3, <1>8, FromIs
<1>10. From(videos \o a \o b, s)
  <2>1. From(videos \o a, s)  BY <1>9, JoinedFrom
  <2>2. QED  BY <1>9, <2>1, JoinedFrom
<1>11. QED  BY <1>1, <1>8, <1>10 DEF a, b, audios, texts

(* What a media playlist makes of a track.                                 *)
LEMMA ParsedMedia ==
  ASSUME NEW lines, NEW base, NEW st, DOMAIN st = DOMAIN BlankStream
  PROVE  LET made == ParseMedia(lines, base, st)
             read == ReadMedia(lines, base)
         IN /\ made.err = read.err /\ made.stream.segs = read.segs /\ made.stream.url = st.url
            /\ DOMAIN made.stream = DOMAIN BlankStream /\ (IsTrack(st) => IsTrack(made.stream))
<1> DEFINE read == ReadMedia(lines, base)
           segs == read.segs
           live == read.live
           full == TRUE
           refresh == IF read.live THEN read.target \div 2 ELSE st.refresh
           init == IF st.init = NoInit THEN read.init ELSE st.init
           new == [st EXCEPT !.segs = segs, !.live = live, !.full = full, !.refresh = refresh, !.init = init]
<1>1. ParseMedia(lines, base, st) = [err |-> read.err, stream |-> new]  BY DEF ParseMedia
<1> HIDE DEF segs, live, full, refresh, init
<1>2. {"segs", "url", "height", "bw", "channels", "default"} \subseteq DOMAIN st  BY DEF BlankStream
<1>3. DOMAIN new = DOMAIN BlankStream  OBVIOUS
<1>4. new.segs = segs /\ new.url = st.url /\ new.height = st.height /\ new.bw = st.bw
      /\ new.channels = st.channels /\ new.default = st.default
  BY <1>2
<1> HIDE DEF new
<1>5. IsTrack(st) => IsTrack(new)  BY <1>3, <1>4 DEF IsTrack
<1>6. QED  BY <1>1, <1>3, <1>4, <1>5 DEF segs

(* The tracks of an HLS manifest.                                          *)
HlsTracks(doc, streams) ==
  /\ AreTracks(streams)
  /\ IF IsMaster(doc)
     THEN MasterByPosition(doc, Base, streams) /\ \A k \in 1 .. Len(streams) : streams[k].full = FALSE
     ELSE MediaByPosition(doc, Base, streams[1].segs)

(* What ParseMaster gives is read by position and is tracks.             *)
LEMMA ParsedHLS ==
  ASSUME NEW doc, IsText(doc), ~ParseMaster(doc, Base).err
  PROVE  HlsTracks(doc, ParseMaster(doc, Base).streams)
<1> DEFINE streams == ParseMaster(doc, Base).streams
<1>1. CASE IsMaster(doc)
  <2>1. streams = ReadMaster(doc, Base).streams  BY <1>1 DEF ParseMaster
  <2>2. Read(doc, Base, Len(doc), streams)  BY <2>1, MasterRead
  <2>3. MasterByPosition(doc, Base, streams)  BY <2>1, MasterListed
  <2>4. QED  BY <1>1, <2>2, <2>3 DEF HlsTracks, Read
<1>2. CASE ~IsMaster(doc)
  <2> DEFINE type == "video"
             id == <<"v", 1>>
             url == URL(Base)
             blank == [BlankStream EXCEPT !.type = type, !.id = id, !.url = url]
             bare == ParseMedia(doc, Base, blank)
  <2>1. ParseMaster(doc, Base) = [err |-> bare.err, streams |-> IF bare.err THEN <<>> ELSE <<bare.stream>>]
    BY <1>2 DEF ParseMaster
  <2> HIDE DEF type, id, url
  <2>2. IsTrack(blank)
    <3>1. {"height", "bw", "channels", "default"} \subseteq DOMAIN BlankStream  BY DEF BlankStream
    <3>2. DOMAIN blank = DOMAIN BlankStream  OBVIOUS
    <3>3. blank.height = BlankStream.height /\ blank.bw = BlankStream.bw
          /\ blank.channels = BlankStream.channels /\ blank.default = BlankStream.default
      BY <3>1
    <3> HIDE DEF blank
    <3>4. QED  BY <3>2, <3>3, BlankTrack DEF IsTrack
  <2> HIDE DEF blank
  <2>3. bare.err = ReadMedia(doc, Base).err /\ bare.stream.segs = ReadMedia(doc, Base).segs /\ IsTrack(bare.stream)
    <3>1. DOMAIN blank = DOMAIN BlankStream  BY <2>2 DEF IsTrack
    <3>2. QED  BY <2>2, <3>1, ParsedMedia
  <2> HIDE DEF bare
  <2>4. ~bare.err /\ streams = <<bare.stream>>  BY <2>1
  <2>5. MediaByPosition(doc, Base, bare.stream.segs)  BY <2>3, <2>4, MediaListed
  <2> DEFINE st == bare.stream
  <2>6. IsTrack(st) /\ MediaByPosition(doc, Base, st.segs) /\ streams = <<st>>  BY <2>3, <2>4, <2>5
  <2> HIDE DEF st, streams
  <2>7. streams \in Seq({st}) /\ Len(streams) = 1 /\ streams[1] = st  BY <2>6
  <2>8. IsSeq(streams)  BY <2>7, SeqIs
  <2>9. \A k \in 1 .. 1 : k = 1  OBVIOUS
  <2>10. AreTracks(streams)  BY <2>6, <2>7, <2>8, <2>9 DEF AreTracks
  <2>11. QED  BY <1>2, <2>6, <2>7, <2>10 DEF HlsTracks, streams
<1>3. QED  BY <1>1, <1>2

(* A sequence with one member replaced.                                  *)
LEMMA Replaced ==
  ASSUME NEW s, IsSeq(s), NEW k \in 1 .. Len(s), NEW e
  PROVE  LET t == [s EXCEPT ![k] = e]
         IN IsSeq(t) /\ Len(t) = Len(s) /\ t[k] = e /\ \A j \in 1 .. Len(s) : j # k => t[j] = s[j]
<1> DEFINE t == [s EXCEPT ![k] = e]
<1>1. PICK S : s \in Seq(S)  BY InSeq
<1> DEFINE V == S \cup {e}
<1>2. S \subseteq V /\ e \in V  OBVIOUS
<1> HIDE DEF V
<1>3. s \in Seq(V)  BY <1>1, <1>2
<1>4. t \in Seq(V) /\ Len(t) = Len(s)  BY <1>2, <1>3
<1>5. DOMAIN s = 1 .. Len(s)  BY FromIs
<1>6. t[k] = e /\ \A j \in 1 .. Len(s) : j # k => t[j] = s[j]  BY <1>5
<1>7. QED  BY <1>4, <1>6, SeqIs

(* The playlist behind each stream is read by position.                    *)
ReadAt(st) ==
  st.url \in DOMAIN input.media /\ MediaByPosition(input.media[st.url], st.url.path, st.segs)
Unexpanded(st) == st.full = FALSE /\ DOMAIN st = DOMAIN BlankStream
HlsInv ==
  /\ KindInv
  /\ phase = "load" => kind = ""
  /\ phase \in {"load", "select"} => at = 1
  /\ phase = "select" /\ kind = "hls" => HlsTracks(Doc, tracks)
  /\ phase = "expand" /\ kind = "hls" /\ IsMaster(Doc) =>
       /\ IsSeq(chosen)
       /\ \A i \in 1 .. Len(chosen) : IF i < at THEN ReadAt(chosen[i]) ELSE Unexpanded(chosen[i])
  /\ phase = "open" /\ kind = "hls" /\ IsMaster(Doc) => \A i \in DOMAIN chosen : ReadAt(chosen[i])

(* The input a title reads is as the decoders make it.                   *)
LEMMA InputIs ==
  KindInv => /\ WellFormed(Source)
             /\ \A u \in DOMAIN input.media : IsText(input.media[u])
             /\ IsExpr(input.ve) /\ (input.ae # <<>> => IsExpr(input.ae[1]))
             /\ (input.se # <<>> => IsExpr(input.se[1]))
<1> SUFFICES ASSUME KindInv
             PROVE  /\ WellFormed(Source)
                    /\ \A u \in DOMAIN input.media : IsText(input.media[u])
                    /\ IsExpr(input.ve) /\ (input.ae # <<>> => IsExpr(input.ae[1]))
                    /\ (input.se # <<>> => IsExpr(input.se[1]))
  OBVIOUS
<1>1. PICK f \in DOMAIN Inputs : input \in Inputs[f]  BY DEF KindInv
<1>2. /\ WellFormed(input.body) /\ (input.page # <<>> => WellFormed(Head(input.page)))
      /\ \A u \in DOMAIN input.media : IsText(input.media[u])
      /\ IsExpr(input.ve) /\ (input.ae # <<>> => IsExpr(input.ae[1]))
      /\ (input.se # <<>> => IsExpr(input.se[1]))
  BY <1>1, InputsAssumption
<1>3. QED  BY <1>2 DEF Source

(* An HLS manifest that is loaded is read by position.                   *)
LEMMA HlsLoaded ==
  ASSUME KindInv, Load, phase' = "select", kind' = "hls" PROVE HlsTracks(Doc, tracks)'
<1>1. /\ kind' = LoadManifest.kind /\ tracks' = LoadManifest.streams /\ ~LoadManifest.err /\ input' = input
  BY DEF Load
<1>2. Source.format = "m3u" /\ LoadManifest = Loaded("hls", ParseMaster(Doc, Base))
  BY <1>1 DEF LoadManifest, ParseManifest, Loaded, Listed, Doc
<1>3. ~ParseMaster(Doc, Base).err /\ tracks' = ParseMaster(Doc, Base).streams  BY <1>1, <1>2 DEF Loaded
<1>4. IsText(Doc)  BY <1>2, InputIs DEF WellFormed, Doc
<1>5. HlsTracks(Doc, ParseMaster(Doc, Base).streams)  BY <1>3, <1>4, ParsedHLS
<1>6. Doc' = Doc  BY <1>1 DEF Doc, Source
<1>7. QED  BY <1>3, <1>5, <1>6

(* The tracks of a type are from the tracks.                             *)
LEMMA TypeFrom ==
  ASSUME NEW s, IsSeq(s), NEW type PROVE From(OfType(s, type), s)
<1>1. OfType(s, type) = Those(s, OfTypes(s, type)) /\ OfTypes(s, type) \in SUBSET (1 .. Len(s))
  BY PartsPicked
<1>2. QED  BY <1>1, PickedIs

(* What Choose chooses is of the tracks.                                   *)
LEMMA ChosenFrom ==
  ASSUME KindInv, AreTracks(tracks), Choose
  PROVE  /\ SortOf(tracks, Sort(tracks)) /\ AreTracks(Sort(tracks))
         /\ From(Apply(input.ve, OfType(Sort(tracks), "video")), OfType(Sort(tracks), "video"))
         /\ AreTracks(OfType(Sort(tracks), "video"))
         /\ chosen' = Select(Sort(tracks), Apply(input.ve, OfType(Sort(tracks), "video")), input.ae, input.se)
         /\ From(chosen', Sort(tracks)) /\ From(chosen', tracks)
<1> DEFINE sorted == Sort(tracks)
           films == OfType(sorted, "video")
           videos == Apply(input.ve, films)
<1>1. SortOf(tracks, sorted)  BY Sorted
<1> HIDE DEF sorted
<1>2. From(sorted, tracks) /\ IsSeq(tracks) /\ IsSeq(sorted)  BY <1>1 DEF SortOf, From, AreTracks
<1>3. AreTracks(sorted)  BY <1>2, FromTracks
<1>4. From(films, sorted)  BY <1>2, TypeFrom
<1> HIDE DEF films
<1>5. AreTracks(films)  BY <1>3, <1>4, FromTracks
<1>6. From(videos, films)  BY <1>5, InputIs, PoolFrom
<1>7. From(videos, sorted)  BY <1>2, <1>4, <1>6, FromIs
<1>8. chosen' = Select(sorted, videos, input.ae, input.se)  BY DEF Choose, sorted, videos, films
<1> HIDE DEF videos
<1>9. From(chosen', sorted)  BY <1>3, <1>7, <1>8, InputIs, SelectFrom
<1>10. From(chosen', tracks)  BY <1>2, <1>9, FromIs
<1>11. QED  BY <1>1, <1>3, <1>5, <1>6, <1>8, <1>9, <1>10 DEF sorted, films, videos

(* Every step keeps what is known of an HLS title.                       *)
LEMMA HlsStep == OpenInv /\ HlsInv /\ [Next]_titleVars => HlsInv'
<1> SUFFICES ASSUME OpenInv, HlsInv, [Next]_titleVars PROVE HlsInv'  OBVIOUS
<1>1. KindInv' /\ at \in Nat \ {0}  BY KindStep DEF HlsInv, OpenInv
<1>2. input' = input /\ Source' = Source /\ Doc' = Doc
  <2>1. input' = input  BY DEF Next, Load, List, Choose, Expand, Settle, Open, Take, titleVars
  <2>2. QED  BY <2>1 DEF Source, Doc
<1>3. \A st : ReadAt(st)' = ReadAt(st)  BY <1>2 DEF ReadAt
<1>4. CASE Load
  <2>1. phase' \in {"refused", "playlist", "file", "select"} /\ at' = 1  BY <1>4 DEF Load, HlsInv
  <2>2. QED  BY <1>1, <1>4, <2>1, HlsLoaded DEF HlsInv
<1>5. CASE List  BY <1>1, <1>5 DEF List, HlsInv
<1>6. CASE Choose
  <2>1. phase = "select" /\ phase' \in {"refused", "expand"} /\ kind' = kind /\ at' = at  BY <1>6 DEF Choose
  <2>2. CASE kind = "hls" /\ IsMaster(Doc) /\ phase' = "expand"
    <3>1. HlsTracks(Doc, tracks)  BY <2>1, <2>2 DEF HlsInv
    <3>2. AreTracks(tracks) /\ \A k \in 1 .. Len(tracks) : Unexpanded(tracks[k])
      BY <2>2, <3>1 DEF HlsTracks, AreTracks, IsTrack, Unexpanded
    <3>3. From(chosen', tracks)  BY <1>6, <3>2, ChosenFrom DEF HlsInv
    <3>4. IsSeq(chosen') /\ \A i \in 1 .. Len(chosen') : Unexpanded(chosen'[i])  BY <3>2, <3>3 DEF From, Holds
    <3>5. at = 1
      BY <2>1 DEF HlsInv
    <3>6. \A i \in 1 .. Len(chosen') : ~(i < at')  BY <2>1, <3>5
    <3>7. QED  BY <1>1, <2>1, <2>2, <3>4, <3>6 DEF HlsInv
  <2>3. QED  BY <1>1, <1>2, <2>1, <2>2 DEF HlsInv
<1>7. CASE Expand
  <2>1. phase = "expand" /\ phase' \in {"refused", "expand"} /\ kind' = kind  BY <1>7 DEF Expand
  <2>2. CASE kind = "hls" /\ IsMaster(Doc) /\ phase' = "expand"
    <3> DEFINE st == chosen[at]
               whole == ExpandStream(st)
    <3>1. at \in 1 .. Len(chosen) /\ IsSeq(chosen) /\ Len(chosen) \in Nat
      BY <1>1, <1>7, <2>1, <2>2 DEF HlsInv, Expand, IsSeq
    <3>2. Unexpanded(st)  BY <1>1, <2>1, <2>2, <3>1 DEF HlsInv
    <3>3. ~whole.err /\ chosen' = [chosen EXCEPT ![at] = whole.stream] /\ at' = at + 1
      BY <1>7, <2>1, <2>2 DEF Expand
    <3> HIDE DEF st
    <3>4. st.url \in DOMAIN input.media /\ whole = ParseMedia(input.media[st.url], st.url.path, st)
      BY <2>2, <3>2, <3>3 DEF ExpandStream, Unexpanded, Refused
    <3>5. IsText(input.media[st.url])  BY <3>4, InputIs DEF HlsInv
    <3> HIDE DEF whole
    <3>6. whole.err = ReadMedia(input.media[st.url], st.url.path).err
          /\ whole.stream.segs = ReadMedia(input.media[st.url], st.url.path).segs /\ whole.stream.url = st.url
      BY <3>2, <3>4, ParsedMedia DEF Unexpanded
    <3>7. ReadAt(whole.stream)  BY <3>3, <3>4, <3>5, <3>6, MediaListed DEF ReadAt
    <3>8. IsSeq(chosen') /\ Len(chosen') = Len(chosen) /\ chosen'[at] = whole.stream
          /\ \A j \in 1 .. Len(chosen) : j # at => chosen'[j] = chosen[j]
      <4>1. \A e : LET t == [chosen EXCEPT ![at] = e]
                   IN IsSeq(t) /\ Len(t) = Len(chosen) /\ t[at] = e
                      /\ \A j \in 1 .. Len(chosen) : j # at => t[j] = chosen[j]
        BY <3>1, Replaced
      <4>2. QED  BY <3>3, <4>1
    <3>9. ASSUME NEW i \in 1 .. Len(chosen') PROVE IF i < at' THEN ReadAt(chosen'[i]) ELSE Unexpanded(chosen'[i])
      <4>1. CASE i = at
        <5>1. i < at'  BY <1>1, <3>3, <4>1
        <5>2. QED  BY <3>7, <3>8, <4>1, <5>1
      <4>2. CASE i # at
        <5>1. i \in 1 .. Len(chosen) /\ chosen'[i] = chosen[i]  BY <3>8, <4>2
        <5>2. i < at' <=> i < at  BY <1>1, <3>1, <3>3, <4>2, <5>1
        <5>3. QED  BY <2>1, <2>2, <5>1, <5>2 DEF HlsInv
      <4>3. QED  BY <4>1, <4>2
    <3>10. QED  BY <1>1, <1>3, <2>1, <2>2, <3>8, <3>9 DEF HlsInv
  <2>3. QED  BY <1>1, <1>2, <2>1, <2>2 DEF HlsInv
<1>8. CASE Settle
  <2>1. phase = "expand" /\ at > Len(chosen) /\ kind' = kind /\ chosen' = chosen /\ phase' \in {"skipped", "serve", "open"}
    BY <1>8 DEF Settle
  <2>2. CASE kind = "hls" /\ IsMaster(Doc)
    <3>1. IsSeq(chosen) /\ \A i \in 1 .. Len(chosen) : IF i < at THEN ReadAt(chosen[i]) ELSE Unexpanded(chosen[i])
      BY <2>1, <2>2 DEF HlsInv
    <3>2. DOMAIN chosen = 1 .. Len(chosen) /\ Len(chosen) \in Nat  BY <3>1, FromIs
    <3>3. \A i \in 1 .. Len(chosen) : i < at  BY <1>1, <2>1, <3>2
    <3>4. \A i \in DOMAIN chosen : ReadAt(chosen[i])  BY <3>1, <3>2, <3>3
    <3>5. QED  BY <1>1, <1>3, <2>1, <3>4 DEF HlsInv
  <2>3. QED  BY <1>1, <1>2, <2>1, <2>2 DEF HlsInv
<1>9. CASE Open
  <2>1. phase = "open" /\ kind' = kind /\ chosen' = chosen /\ phase' \in {"refused", "open"}  BY <1>9 DEF Open
  <2>2. QED  BY <1>1, <1>2, <1>3, <2>1 DEF HlsInv
<1>10. CASE Take  BY <1>1, <1>10 DEF Take, HlsInv
<1>11. CASE UNCHANGED titleVars  BY <1>1, <1>2, <1>3, <1>11 DEF titleVars, HlsInv
<1>12. QED  BY <1>4, <1>5, <1>6, <1>7, <1>8, <1>9, <1>10, <1>11 DEF Next

(* A playlist says of each URI what its position says: key, init, range,   *)
(* discontinuity and number come from the lines before it and from no      *)
(* others (hls.go ParseMaster, ParseMedia).                                *)
THEOREM ReadByPosition == Spec => []PlaylistByPosition
<1>1. Init => HlsInv
  <2>1. Init => phase = "load" /\ kind = "" /\ at = 1  BY DEF Init
  <2>2. QED  BY <2>1, KindStarts DEF HlsInv
<1>2. Spec => []HlsInv  BY <1>1, HlsStep, OpenInvariance, PTL DEF Spec
<1>3. HlsInv => PlaylistByPosition  BY DEF HlsInv, HlsTracks, PlaylistByPosition, ReadAt
<1>4. QED  BY <1>2, <1>3, PTL

--------------------------------------------------------------------------------
(* DASH and Smooth: what becomes of a manifest is tracks.                *)

(* The image of a finite set is finite.                                  *)
LEMMA ImageFinite ==
  ASSUME NEW S, IsFiniteSet(S), NEW T, NEW f \in [S -> T]
  PROVE  IsFiniteSet({f[x] : x \in S})
<1> DEFINE I == {f[x] : x \in S}
<1>1. f \in Surjection(S, I)
  <2>1. \A x \in S : f[x] \in I  OBVIOUS
  <2>2. \A y \in I : \E x \in S : f[x] = y  OBVIOUS
  <2> HIDE DEF I
  <2>3. f \in [S -> I]  BY <2>1
  <2>4. QED  BY <2>2, <2>3 DEF Surjection
<1> HIDE DEF I
<1>2. IsFiniteSet(I)  BY <1>1, FS_Surjection
<1>3. QED  BY <1>2 DEF I

(* The places a parser reads, in their order.                              *)
ArePlaces(S) ==
  IsFiniteSet(S) /\ \A x \in S : \E p, a, r \in Int : x = Place(p, a, r)

(* InOrder counts the places out, each of them once.                     *)
LEMMA OrderedPlaces ==
  ASSUME NEW S, ArePlaces(S)
  PROVE  LET s == InOrder(S)
         IN /\ Cardinality(S) \in Nat /\ s = [k \in 1 .. Cardinality(S) |-> s[k]]
            /\ \A k \in 1 .. Cardinality(S) : s[k] \in S
            /\ \A j, k \in 1 .. Cardinality(S) : s[j] = s[k] => j = k
            /\ \A x \in S : \E k \in 1 .. Cardinality(S) : s[k] = x
<1> DEFINE B == [x \in S |-> {y \in S : ~Later(y, x)}]
           n == Cardinality(S)
           the(k) == CHOOSE x \in S : Cardinality({y \in S : ~Later(y, x)}) = k
<1>1. IsFiniteSet(S) /\ n \in Nat  BY FS_CardinalityType DEF ArePlaces
<1>2. \A x \in S : x.p \in Int /\ x.a \in Int /\ x.r \in Int /\ x = Place(x.p, x.a, x.r)
  BY DEF ArePlaces, Place
<1>3. \A x, y \in S : y \in B[x] <=> ~Later(y, x)  OBVIOUS
<1>4. ASSUME NEW x \in S, NEW y \in S, NEW z \in S
      PROVE  /\ ~Later(x, x) /\ (x # y => (Later(x, y) <=> ~Later(y, x)))
             /\ ~Later(x, y) /\ ~Later(y, z) => ~Later(x, z)
  <2>1. /\ x.p \in Int /\ x.a \in Int /\ x.r \in Int /\ y.p \in Int /\ y.a \in Int /\ y.r \in Int
        /\ z.p \in Int /\ z.a \in Int /\ z.r \in Int
    BY <1>2
  <2>2. x # y => x.p # y.p \/ x.a # y.a \/ x.r # y.r  BY <1>2
  <2>3. ~Later(x, x)  BY <2>1 DEF Later
  <2>4. x # y => (Later(x, y) <=> ~Later(y, x))  BY <2>1, <2>2 DEF Later
  <2>5. ~Later(x, y) /\ ~Later(y, z) => ~Later(x, z)  BY <2>1 DEF Later
  <2>6. QED  BY <2>3, <2>4, <2>5
<1>5. B \in [S -> SUBSET S]  OBVIOUS
<1>6. \A x \in S : Cardinality({y \in S : ~Later(y, x)}) = Cardinality(B[x])  OBVIOUS
<1> HIDE DEF B
<1>7. Ranking(S, B)
  <2>1. \A x \in S : x \in B[x] /\ \A y \in B[x] : B[y] \subseteq B[x]
    <3>1. ASSUME NEW x \in S, NEW y \in B[x], NEW z \in B[y] PROVE z \in B[x]
      <4>1. y \in S /\ z \in S  BY <1>5
      <4>2. ~Later(y, x) /\ ~Later(z, y)  BY <1>3, <4>1
      <4>3. ~Later(z, x)  BY <1>4, <4>1, <4>2
      <4>4. QED  BY <1>3, <4>1, <4>3
    <3>2. \A x \in S : x \in B[x]  BY <1>3, <1>4
    <3>3. QED  BY <3>1, <3>2
  <2>2. \A x, y \in S : x # y => (x \in B[y] <=> y \notin B[x])  BY <1>3, <1>4
  <2>3. QED  BY <2>1, <2>2 DEF Ranking
<1>8. /\ \A x \in S : Cardinality(B[x]) \in 1 .. n
      /\ \A x, y \in S : x # y /\ x \in B[y] => Cardinality(B[x]) < Cardinality(B[y])
      /\ \A k \in 1 .. n : \E x \in S : Cardinality(B[x]) = k
  BY <1>1, <1>5, <1>7, Ranked
<1>9. \A k \in 1 .. n : the(k) \in S /\ Cardinality(B[the(k)]) = k  BY <1>6, <1>8
<1>10. InOrder(S) = [k \in 1 .. n |-> the(k)]  BY DEF InOrder
<1> HIDE DEF the, n
<1>11. ASSUME NEW x \in S, NEW y \in S, Cardinality(B[x]) = Cardinality(B[y]) PROVE x = y
  <2>1. CASE x # y
    <3>1. x \in B[y] \/ y \in B[x]  BY <1>7, <2>1 DEF Ranking
    <3>2. Cardinality(B[x]) < Cardinality(B[y]) \/ Cardinality(B[y]) < Cardinality(B[x])
      BY <1>8, <2>1, <3>1
    <3>3. Cardinality(B[x]) \in Int  BY <1>8
    <3>4. QED  BY <1>11, <3>2, <3>3
  <2>2. QED  BY <2>1
<1>12. \A x \in S : \E k \in 1 .. n : the(k) = x  BY <1>8, <1>9, <1>11
<1>13. \A j, k \in 1 .. n : the(j) = the(k) => j = k  BY <1>9
<1>14. QED  BY <1>1, <1>9, <1>10, <1>12, <1>13 DEF n

(* The places of lists of lists.                                           *)
PlacesIn(p, m, len) == UNION {{Place(p, a, r) : r \in 1 .. len[a]} : a \in 1 .. m}

(* The places of finitely many lists are finitely many.                  *)
LEMMA PlacesFinite ==
  ASSUME NEW m \in Nat, NEW len, \A a \in 1 .. m : len[a] \in Nat, NEW p \in Int
  PROVE  /\ IsFiniteSet(PlacesIn(p, m, len))
         /\ \A x \in PlacesIn(p, m, len) : \E a, r \in Int : x = Place(p, a, r)
<1> DEFINE row == [a \in 1 .. m |-> {Place(p, a, r) : r \in 1 .. len[a]}]
           rows == {row[a] : a \in 1 .. m}
<1>1. \A a \in 1 .. m : IsFiniteSet(row[a])
  <2>1. SUFFICES ASSUME NEW a \in 1 .. m PROVE IsFiniteSet({Place(p, a, r) : r \in 1 .. len[a]})  OBVIOUS
  <2> DEFINE f == [r \in 1 .. len[a] |-> Place(p, a, r)]
             n == len[a]
  <2>2. n \in Nat  OBVIOUS
  <2>3. IsFiniteSet(1 .. n)  BY <2>2, FS_Interval
  <2>4. f \in [1 .. n -> {Place(p, a, r) : r \in 1 .. n}]  OBVIOUS
  <2>5. {Place(p, a, r) : r \in 1 .. n} = {f[r] : r \in 1 .. n}  OBVIOUS
  <2> HIDE DEF f, n
  <2>6. IsFiniteSet({f[r] : r \in 1 .. n})  BY <2>3, <2>4, ImageFinite
  <2>7. QED  BY <2>5, <2>6 DEF n
<1>2. row \in [1 .. m -> {row[a] : a \in 1 .. m}]  OBVIOUS
<1>3. \A a \in 1 .. m : \A x \in row[a] : \E r \in Int : x = Place(p, a, r)
  <2>1. \A a \in 1 .. m : \A r \in 1 .. len[a] : r \in Int  OBVIOUS
  <2>2. QED  BY <2>1
<1>4. {{Place(p, a, r) : r \in 1 .. len[a]} : a \in 1 .. m} = rows  OBVIOUS
<1> HIDE DEF row
<1>5. IsFiniteSet(1 .. m)  BY FS_Interval
<1>6. IsFiniteSet(rows)
  <2> DEFINE T == {row[a] : a \in 1 .. m}
  <2>1. row \in [1 .. m -> T]  BY <1>2
  <2> HIDE DEF T
  <2>2. QED  BY <1>5, <2>1, ImageFinite
<1>7. \A R \in rows : IsFiniteSet(R)  BY <1>1
<1>8. \A x \in UNION rows : \E a, r \in Int : x = Place(p, a, r)
  <2>1. \A a \in 1 .. m : a \in Int  OBVIOUS
  <2>2. QED  BY <1>3, <2>1
<1> HIDE DEF rows
<1>9. IsFiniteSet(UNION rows)  BY <1>6, <1>7, FS_UNION
<1>10. PlacesIn(p, m, len) = UNION rows  BY <1>4 DEF PlacesIn
<1>11. QED  BY <1>8, <1>9, <1>10

(* A quality level becomes a track.                                      *)
LEMMA SmoothTrack ==
  ASSUME NEW doc, IsSmooth(doc), NEW i \in DOMAIN doc.indexes, NEW q \in DOMAIN doc.indexes[i].levels
  PROVE  IsTrack(Track(doc, i, q))
<1> DEFINE index == doc.indexes[i]
           level == index.levels[q]
           chunks == Timeline(index.chunks, doc.dur)
           type == MediaType(index.type)
           segs == [k \in DOMAIN chunks |->
                      [BlankSegment EXCEPT
                         !.url = [path |-> <<index.type, ToString(i), ToString(q)>>, num |-> 0, time |-> chunks[k].t],
                         !.dur = chunks[k].d, !.seq = k - 1,
                         !.key = IF type = "subtitles" THEN NoKey ELSE Key(doc)]]
           id == <<index.type, i, q>>
           url == URL(<<"manifest">>)
           height == FirstSet(0, <<level.height, index.height>>)
           full == TRUE
           init == IF type = "subtitles" THEN NoInit
                   ELSE [NoInit EXCEPT !.url = URL(<<"data", index.type, ToString(i), ToString(q)>>)]
           refresh == IF doc.live THEN Max({2} \union {chunks[k].d : k \in DOMAIN chunks}) ELSE 0
           lang == index.lang
           live == doc.live
           bw == level.bw
           new == [BlankStream EXCEPT !.type = type, !.id = id, !.url = url, !.bw = bw, !.height = height,
                     !.lang = lang, !.live = live, !.segs = segs, !.full = full, !.init = init,
                     !.refresh = refresh]
<1>1. Track(doc, i, q) = new  BY DEF Track
<1>2. bw \in Int /\ level.height \in Int /\ index.height \in Int  BY DEF IsSmooth
<1>3. height \in Int
  <2> HIDE DEF level, index
  <2>1. QED  BY <1>2, FirstOfTwo
<1> HIDE DEF type, id, url, bw, height, lang, live, segs, full, init, refresh
<1>4. {"height", "bw", "channels", "default"} \subseteq DOMAIN BlankStream  BY DEF BlankStream
<1>5. DOMAIN new = DOMAIN BlankStream  OBVIOUS
<1>6. new.height = height /\ new.bw = bw /\ new.channels = BlankStream.channels /\ new.default = BlankStream.default
  BY <1>4
<1> HIDE DEF new
<1>7. QED  BY <1>1, <1>2, <1>3, <1>5, <1>6, BlankTrack DEF IsTrack

(* A Smooth manifest becomes tracks.                                     *)
LEMMA SmoothTracks ==
  ASSUME NEW doc, IsSmooth(doc) PROVE AreTracks(ParseMSS(doc).streams)
<1> DEFINE n == Len(doc.indexes)
           levels == [i \in 1 .. n |-> Len(doc.indexes[i].levels)]
           all == UNION {{Place(1, i, q) : q \in 1 .. levels[i]} : i \in 1 .. n}
           known == {x \in all : doc.indexes[x.a].levels[x.r].known \/ doc.indexes[x.a].type = "text"}
           places == InOrder(known)
           streams == [k \in DOMAIN places |-> Track(doc, places[k].a, places[k].r)]
<1>1. n \in Nat /\ DOMAIN doc.indexes = 1 .. n
      /\ \A i \in 1 .. n : /\ Len(doc.indexes[i].levels) \in Nat
                           /\ DOMAIN doc.indexes[i].levels = 1 .. Len(doc.indexes[i].levels)
  BY DEF IsSmooth, IsList
<1>2. ParseMSS(doc).streams = streams
  <2> DEFINE row(i) == {Place(1, i, q) : q \in DOMAIN doc.indexes[i].levels}
             there == {x \in UNION {row(i) : i \in DOMAIN doc.indexes} :
                         doc.indexes[x.a].levels[x.r].known \/ doc.indexes[x.a].type = "text"}
  <2>1. \A i \in 1 .. n : row(i) = {Place(1, i, q) : q \in 1 .. levels[i]}
    <3>1. \A i \in 1 .. n : levels[i] = Len(doc.indexes[i].levels)  OBVIOUS
    <3> HIDE DEF levels, n
    <3>2. \A i \in 1 .. n : DOMAIN doc.indexes[i].levels = 1 .. levels[i]  BY <1>1, <3>1
    <3>3. QED  BY <3>2
  <2>2. {row(i) : i \in DOMAIN doc.indexes} = {{Place(1, i, q) : q \in 1 .. levels[i]} : i \in 1 .. n}
    <3> HIDE DEF row, levels, n
    <3>1. QED  BY <1>1, <2>1, ZenonT(40)
  <2>3. there = known
    <3> HIDE DEF levels, n
    <3>1. QED  BY <2>2
  <2> HIDE DEF known
  <2>4. QED  BY <2>3 DEF ParseMSS
<1>3. levels = [i \in 1 .. n |-> levels[i]] /\ \A i \in 1 .. n : levels[i] \in Nat
      /\ levels[i] = Len(doc.indexes[i].levels)
  BY <1>1
<1> HIDE DEF levels, n
<1>4. IsFiniteSet(all) /\ \A x \in all : \E a, r \in Int : x = Place(1, a, r)
  <2>1. all = PlacesIn(1, n, levels) /\ 1 \in Int  BY DEF PlacesIn
  <2> HIDE DEF all
  <2>2. QED  BY <1>1, <1>3, <2>1, PlacesFinite
<1>5. \A x \in all : x.a \in DOMAIN doc.indexes /\ x.r \in DOMAIN doc.indexes[x.a].levels
  <2>1. \A i \in 1 .. n : \A q \in 1 .. levels[i] :
          Place(1, i, q).a = i /\ Place(1, i, q).r = q /\ i \in DOMAIN doc.indexes
          /\ q \in DOMAIN doc.indexes[i].levels
    BY <1>1, <1>3 DEF Place
  <2>2. QED  BY <2>1
<1>6. ArePlaces(known)
  <2>1. known \in SUBSET all  OBVIOUS
  <2>2. \A x \in known : \E p, a, r \in Int : x = Place(p, a, r)
    <3>1. 1 \in Int  OBVIOUS
    <3> HIDE DEF known, all
    <3>2. QED  BY <1>4, <2>1, <3>1
  <2> HIDE DEF known, all
  <2>3. IsFiniteSet(known)  BY <1>4, <2>1, FS_Subset
  <2>4. QED  BY <2>2, <2>3 DEF ArePlaces
<1>7. \A x \in known : x.a \in DOMAIN doc.indexes /\ x.r \in DOMAIN doc.indexes[x.a].levels
  <2> HIDE DEF all
  <2>1. QED  BY <1>5
<1> HIDE DEF known
<1> DEFINE m == Cardinality(known)
<1>8. m \in Nat /\ DOMAIN places = 1 .. m /\ \A k \in 1 .. m : places[k] \in known
  <2>1. /\ m \in Nat /\ places = [k \in 1 .. m |-> places[k]]
        /\ \A k \in 1 .. m : places[k] \in known
    BY <1>6, OrderedPlaces
  <2> HIDE DEF places, m
  <2>2. QED  BY <2>1
<1> HIDE DEF places, m
<1>9. streams = [k \in 1 .. m |-> Track(doc, places[k].a, places[k].r)]  BY <1>8
<1>10. \A k \in 1 .. m : IsTrack(Track(doc, places[k].a, places[k].r))  BY <1>7, <1>8, SmoothTrack
<1> HIDE DEF streams
<1>11. IsSeq(streams) /\ Len(streams) = m
  <2> DEFINE S == {streams[k] : k \in 1 .. m}
  <2>1. streams \in [1 .. m -> S]
    <3>1. \A k \in 1 .. m : streams[k] \in S  OBVIOUS
    <3>2. streams = [k \in 1 .. m |-> streams[k]]  BY <1>9
    <3> HIDE DEF S
    <3>3. QED  BY <3>1, <3>2
  <2> HIDE DEF S
  <2>2. streams \in Seq(S) /\ DOMAIN streams = 1 .. m  BY <1>8, <2>1 DEF Seq
  <2>3. Len(streams) = m  BY <1>8, <2>2
  <2>4. QED  BY <2>2, <2>3, SeqIs
<1>12. \A k \in 1 .. m : IsTrack(streams[k])  BY <1>9, <1>10
<1>13. QED  BY <1>2, <1>11, <1>12 DEF AreTracks

(* The representations of an MPD are at finitely many places.            *)
LEMMA DashPlaces ==
  ASSUME NEW doc, IsMPD(doc) PROVE ArePlaces(Places(doc))
<1> DEFINE P == DOMAIN doc.periods
           sets(p) == doc.periods[p].sets
           len(p) == [a \in 1 .. Len(sets(p)) |-> Len(sets(p)[a].reps)]
           row(p, a) == {Place(p, a, r) : r \in DOMAIN sets(p)[a].reps}
           all == [p \in P |-> UNION {row(p, a) : a \in DOMAIN sets(p)}]
           every == UNION {all[p] : p \in P}
<1>1. P = 1 .. Len(doc.periods) /\ Len(doc.periods) \in Nat  BY DEF IsMPD, IsList
<1>2. \A p \in P : IsList(sets(p)) /\ \A a \in DOMAIN sets(p) : IsList(sets(p)[a].reps)
  BY DEF IsMPD, IsSet
<1>3. \A p \in P : p \in Int  BY <1>1
<1>4. ASSUME NEW p \in P
      PROVE  IsFiniteSet(all[p]) /\ \A x \in all[p] : \E a, r \in Int : x = Place(p, a, r)
  <2> DEFINE m == Len(sets(p))
             n == len(p)
  <2>1. m \in Nat /\ DOMAIN sets(p) = 1 .. m
        /\ \A a \in 1 .. m : n[a] = Len(sets(p)[a].reps) /\ n[a] \in Nat /\ DOMAIN sets(p)[a].reps = 1 .. n[a]
    BY <1>2 DEF IsList
  <2> HIDE DEF len
  <2>2. \A a \in DOMAIN sets(p) : row(p, a) = {Place(p, a, r) : r \in 1 .. n[a]}
    <3> HIDE DEF sets, n
    <3>1. QED  BY <2>1
  <2>3. all[p] = UNION {row(p, a) : a \in DOMAIN sets(p)}  OBVIOUS
  <2> HIDE DEF all, row, sets, n
  <2>4. {row(p, a) : a \in DOMAIN sets(p)} = {{Place(p, a, r) : r \in 1 .. n[a]} : a \in 1 .. m}
    BY <2>1, <2>2, ZenonT(40)
  <2>5. all[p] = PlacesIn(p, m, n)  BY <2>3, <2>4 DEF PlacesIn
  <2> HIDE DEF m
  <2>6. IsFiniteSet(PlacesIn(p, m, n)) /\ \A x \in PlacesIn(p, m, n) : \E a, r \in Int : x = Place(p, a, r)
    <3>1. m \in Nat /\ (\A a \in 1 .. m : n[a] \in Nat) /\ p \in Int  BY <1>3, <2>1
    <3> HIDE DEF P, len
    <3>2. QED  BY <3>1, PlacesFinite
  <2>7. QED  BY <2>5, <2>6
<1>5. Places(doc) \in SUBSET every
  <2> DEFINE ofPeriod(p) == UNION {row(p, a) : a \in DOMAIN sets(p)}
  <2>1. Places(doc) = {x \in UNION {ofPeriod(p) : p \in P} : IsRead(doc, x)}  BY DEF Places
  <2>2. \A p \in P : all[p] = ofPeriod(p)  OBVIOUS
  <2> HIDE DEF ofPeriod, all, P
  <2>3. {ofPeriod(p) : p \in P} = {all[p] : p \in P}  BY <2>2
  <2>4. QED  BY <2>1, <2>3
<1>6. IsFiniteSet(every)
  <2> DEFINE T == {all[p] : p \in P}
  <2>1. all \in [P -> T]
    <3>1. \A p \in P : all[p] \in T  OBVIOUS
    <3>2. all = [p \in P |-> all[p]]  OBVIOUS
    <3> HIDE DEF all, T, P
    <3>3. QED  BY <3>1, <3>2
  <2>2. IsFiniteSet(P)  BY <1>1, FS_Interval
  <2> HIDE DEF all, P
  <2>3. \A R \in T : IsFiniteSet(R)  BY <1>4
  <2> HIDE DEF T
  <2>4. IsFiniteSet({all[p] : p \in P})  BY <2>1, <2>2, ImageFinite
  <2>5. QED  BY <2>3, <2>4, FS_UNION DEF T
<1>7. \A x \in every : \E p, a, r \in Int : x = Place(p, a, r)
  <2> HIDE DEF all, P
  <2>1. \A x \in every : \E p \in P : x \in all[p]  OBVIOUS
  <2>2. QED  BY <1>3, <1>4, <2>1
<1> HIDE DEF every
<1>8. IsFiniteSet(Places(doc))  BY <1>5, <1>6, FS_Subset
<1>9. QED  BY <1>5, <1>7, <1>8 DEF ArePlaces

(* A representation becomes a track.                                     *)
LEMMA BuiltTrack ==
  ASSUME NEW set, NEW rep, set.height \in Int, rep.height \in Int, rep.bw \in Int, NEW a, NEW r
  PROVE  IsTrack(BuildStream(set, rep, a, r))
<1> DEFINE codecs == FirstSet("", <<rep.codecs, set.codecs>>)
           mime == FirstSet("", <<rep.mime, set.mime>>)
           id == <<FirstSet("", <<rep.id, "r">>), a, r>>
           height == FirstSet(0, <<rep.height, set.height>>)
           lang == FirstSet("", <<rep.lang, set.lang>>)
           type == IF "subtitle" \in set.roles THEN "subtitles" ELSE TypeOf(mime, codecs, rep)
           bw == rep.bw
           new == [BlankStream EXCEPT !.id = id, !.bw = bw, !.height = height, !.codecs = codecs,
                                      !.lang = lang, !.type = type]
<1>1. BuildStream(set, rep, a, r) = new  BY DEF BuildStream
<1>2. height \in Int /\ bw \in Int  BY FirstOfTwo
<1> HIDE DEF codecs, id, height, lang, type, bw
<1>3. {"height", "bw", "channels", "default"} \subseteq DOMAIN BlankStream  BY DEF BlankStream
<1>4. DOMAIN new = DOMAIN BlankStream  OBVIOUS
<1>5. new.height = height /\ new.bw = bw /\ new.channels = BlankStream.channels /\ new.default = BlankStream.default
  BY <1>3
<1> HIDE DEF new
<1>6. QED  BY <1>1, <1>2, <1>4, <1>5, BlankTrack DEF IsTrack

(* Adding a representation, as a track of its own or to another, keeps   *)
(* the tracks tracks.                                                    *)
LEMMA TrackAdded ==
  ASSUME NEW doc, IsMPD(doc), NEW x \in Places(doc),
         NEW acc, acc = [err |-> acc.err, streams |-> acc.streams], AreTracks(acc.streams)
  PROVE  LET new == AddTrack(doc, acc, x)
         IN new = [err |-> new.err, streams |-> new.streams] /\ AreTracks(new.streams)
<1> DEFINE c == Context(doc, x)
           built == BuildSegments(c)
           segs == Protect(c.rep, c.set, built.segs)
           st == BuildStream(c.set, c.rep, x.a, x.r)
           namesakes == {i \in DOMAIN acc.streams : acc.streams[i].id = st.id}
           id == IF namesakes = {} THEN st.id ELSE OwnID(st.id, x.p)
           live == doc.live
           url == URL(doc.urls)
           refresh == Refresh(doc)
           init == built.init
           full == TRUE
           own == [st EXCEPT !.id = id, !.live = live, !.url = url, !.refresh = refresh, !.init = init,
                             !.segs = segs, !.full = full]
           continues == {i \in namesakes :
                           segs # <<>> /\ MergeCompatible(acc.streams[i], st, built.init, FirstSegKey(segs))}
           the == CHOOSE i \in continues : TRUE
           new == AddTrack(doc, acc, x)
           failed == TRUE
           more == Append(acc.streams, own)
           added == acc.streams[the].segs \o Continued(segs, Len(acc.streams[the].segs))
           longer == [acc.streams EXCEPT ![the].segs = added]
           R(a, b) == [err |-> a, streams |-> b]
<1>1. new = IF acc.err \/ built.err THEN [acc EXCEPT !.err = failed]
            ELSE IF continues = {} THEN [acc EXCEPT !.streams = more]
            ELSE [acc EXCEPT !.streams[the].segs = added]
  BY DEF AddTrack
<1>2. IsTrack(st)
  <2>1. PICK p \in DOMAIN doc.periods : \E a \in DOMAIN doc.periods[p].sets :
           \E r \in DOMAIN doc.periods[p].sets[a].reps : x = Place(p, a, r)
    BY PlaceIs
  <2>2. PICK a \in DOMAIN doc.periods[p].sets : \E r \in DOMAIN doc.periods[p].sets[a].reps : x = Place(p, a, r)
    BY <2>1
  <2>3. PICK r \in DOMAIN doc.periods[p].sets[a].reps : x = Place(p, a, r)  BY <2>2
  <2>4. c.set = doc.periods[p].sets[a] /\ c.rep = doc.periods[p].sets[a].reps[r]
    BY <2>3 DEF Context, Place
  <2>5. c.set.height \in Int /\ c.rep.height \in Int /\ c.rep.bw \in Int  BY <2>4 DEF IsMPD, IsSet
  <2> HIDE DEF c
  <2>6. QED  BY <2>5, BuiltTrack
<1> HIDE DEF c, built, segs, st, id, live, url, refresh, init, full
<1>3. IsTrack(own)
  <2>1. {"height", "bw", "channels", "default"} \subseteq DOMAIN st  BY <1>2 DEF IsTrack, BlankStream
  <2>2. DOMAIN own = DOMAIN st  OBVIOUS
  <2>3. own.height = st.height /\ own.bw = st.bw /\ own.channels = st.channels /\ own.default = st.default
    BY <2>1
  <2> HIDE DEF own
  <2>4. QED  BY <1>2, <2>2, <2>3 DEF IsTrack
<1>4. IsSeq(acc.streams) /\ DOMAIN acc.streams = 1 .. Len(acc.streams)  BY FromIs DEF AreTracks
<1>5. continues # {} => the \in 1 .. Len(acc.streams)  BY <1>4
<1>6. \A i \in 1 .. Len(acc.streams) : IsTrack(acc.streams[i])  BY DEF AreTracks
<1> HIDE DEF own, continues, the, added, failed, new
<1>7. CASE acc.err \/ built.err
  <2>1. new = R(failed, acc.streams)  BY <1>1, <1>7
  <2>2. QED  BY <2>1 DEF new
<1>8. CASE ~(acc.err \/ built.err) /\ continues = {}
  <2>1. new = [acc EXCEPT !.streams = more]  BY <1>1, <1>8
  <2>2. Extended(acc.streams, own, more)  BY <1>4, Appended
  <2> HIDE DEF more
  <2>3. new = R(acc.err, more)  BY <2>1
  <2>4. \A k \in 1 .. Len(more) : k \in 1 .. Len(acc.streams) \/ k = Len(acc.streams) + 1
    BY <1>4, <2>2 DEF Extended, IsSeq
  <2>5. AreTracks(more)  BY <1>3, <1>6, <2>2, <2>4 DEF AreTracks, Extended
  <2>6. QED  BY <2>3, <2>5 DEF new
<1>9. CASE ~(acc.err \/ built.err) /\ continues # {}
  <2>1. new = [acc EXCEPT !.streams[the].segs = added]  BY <1>1, <1>9
  <2>2. new = [acc EXCEPT !.streams = longer]  BY <2>1
  <2> DEFINE old == acc.streams[the]
             e == [old EXCEPT !.segs = added]
  <2>3. longer = [acc.streams EXCEPT ![the] = e]  OBVIOUS
  <2>4. IsTrack(e)
    <3>1. IsTrack(old)  BY <1>5, <1>6, <1>9
    <3> HIDE DEF old
    <3>2. {"height", "bw", "channels", "default"} \subseteq DOMAIN old  BY <3>1 DEF IsTrack, BlankStream
    <3>3. DOMAIN e = DOMAIN old /\ e.height = old.height /\ e.bw = old.bw
          /\ e.channels = old.channels /\ e.default = old.default
      BY <3>2
    <3> HIDE DEF e
    <3>4. QED  BY <3>1, <3>3 DEF IsTrack
  <2> HIDE DEF e, longer
  <2>5. IsSeq(longer) /\ Len(longer) = Len(acc.streams) /\ longer[the] = e
        /\ \A j \in 1 .. Len(acc.streams) : j # the => longer[j] = acc.streams[j]
    <3>1. \A d : LET t == [acc.streams EXCEPT ![the] = d]
                 IN IsSeq(t) /\ Len(t) = Len(acc.streams) /\ t[the] = d
                    /\ \A j \in 1 .. Len(acc.streams) : j # the => t[j] = acc.streams[j]
      BY <1>4, <1>5, <1>9, Replaced
    <3>2. QED  BY <2>3, <3>1
  <2>6. AreTracks(longer)  BY <1>6, <2>4, <2>5 DEF AreTracks
  <2>7. new = R(acc.err, longer)  BY <2>2
  <2>8. QED  BY <2>6, <2>7 DEF new
<1>10. QED  BY <1>7, <1>8, <1>9

(* The tracks an MPD becomes.                                              *)
Tracked(acc) == acc = [err |-> acc.err, streams |-> acc.streams] /\ AreTracks(acc.streams)

NoneAdded == [err |-> FALSE, streams |-> <<>>]
DashWalk(doc, read) ==
  /\ read[0] = NoneAdded
  /\ \A i \in 1 .. Cardinality(Places(doc)) : read[i] = AddTrack(doc, read[i - 1], InOrder(Places(doc))[i])

(* An MPD is read one representation after another.                      *)
LEMMA DashWalks ==
  ASSUME NEW doc, IsMPD(doc)
  PROVE  \E read : DashWalk(doc, read) /\ ParseDASH(doc) = read[Cardinality(Places(doc))]
<1> DEFINE n == Cardinality(Places(doc))
           places == InOrder(Places(doc))
           none == NoneAdded
           E(f, i) == IF i = 0 THEN none ELSE AddTrack(doc, f[i - 1], places[i])
           D(f, k) == [i \in 0 .. k |-> E(f, i)]
           read == CHOOSE f : f = D(f, n)
           T == {k \in 0 .. n : \E f : f = D(f, k)}
<1>1. n \in Nat /\ \A k \in 1 .. n : places[k] \in Places(doc)  BY DashPlaces, OrderedPlaces
<1>2. ParseDASH(doc) = read[n]  BY DEF ParseDASH, NoneAdded
<1> HIDE DEF n, places
<1>3. ASSUME NEW k \in 0 .. n, NEW f, NEW g, \A i \in 0 .. k - 1 : f[i] = g[i]
      PROVE  E(f, k) = E(g, k)
  BY <1>1, <1>3
<1>4. 0 \in T
  <2> DEFINE e == [i \in 0 .. 0 |-> none]
  <2>1. e = [i \in 0 .. 0 |-> e[i]] /\ \A i \in 0 .. 0 : e[i] = none /\ i = 0  OBVIOUS
  <2> HIDE DEF e, none
  <2>2. e = D(e, 0)  BY <2>1
  <2>3. QED  BY <1>1, <2>2
<1>5. \A f : E(f, 0) = none /\ \A i \in 1 .. n : E(f, i) = AddTrack(doc, f[i - 1], places[i])  OBVIOUS
<1> HIDE DEF E
<1>6. ASSUME NEW k \in 0 .. n - 1, k \in T PROVE k + 1 \in T
  <2>1. PICK f : f = D(f, k)  BY <1>6
  <2>2. k \in Nat /\ k + 1 \in 0 .. n /\ (k + 1) - 1 = k  BY <1>1
  <2> DEFINE g == [i \in 0 .. k + 1 |-> IF i <= k THEN f[i] ELSE E(f, i)]
  <2>3. \A i \in 0 .. k : f[i] = g[i] /\ f[i] = E(f, i)  BY <2>1, <2>2
  <2>4. ASSUME NEW i \in 0 .. k + 1 PROVE g[i] = E(g, i)
    <3>1. i \in 0 .. n /\ \A j \in 0 .. i - 1 : j \in 0 .. k  BY <1>1, <2>2
    <3>2. E(f, i) = E(g, i)
      <4>1. \A j \in 0 .. i - 1 : f[j] = g[j]  BY <2>3, <3>1
      <4> HIDE DEF g
      <4>2. QED  BY <1>3, <3>1, <4>1
    <3>3. g[i] = E(f, i)
      <4>1. CASE i <= k
        <5>1. i \in 0 .. k  BY <2>2, <4>1
        <5> HIDE DEF g
        <5>2. QED  BY <2>3, <5>1
      <4>2. CASE ~(i <= k)  BY <4>2
      <4>3. QED  BY <4>1, <4>2
    <3>4. QED  BY <3>2, <3>3
  <2>5. g = [i \in 0 .. k + 1 |-> g[i]]  OBVIOUS
  <2> HIDE DEF g, T
  <2>6. g = D(g, k + 1)  BY <2>4, <2>5
  <2>7. QED  BY <2>2, <2>6 DEF T
<1> HIDE DEF T
<1>7. 0 .. n \subseteq T  BY <1>1, <1>4, <1>6, UpTo
<1>8. \E f : f = D(f, n)
  <2>1. n \in T  BY <1>1, <1>7
  <2>2. QED  BY <2>1 DEF T
<1>9. read = D(read, n)  BY <1>8
<1> HIDE DEF read
<1>10. \A i \in 0 .. n : read[i] = E(read, i)  BY <1>9
<1>11. read[0] = none /\ \A i \in 1 .. n : read[i] = AddTrack(doc, read[i - 1], places[i])
  <2>1. 0 \in 0 .. n /\ \A i \in 1 .. n : i \in 0 .. n  BY <1>1
  <2>2. QED  BY <1>5, <1>10, <2>1
<1>12. QED  BY <1>2, <1>11 DEF DashWalk, n, places

(* What was read of it so far is tracks.                                 *)
LEMMA TracksRead ==
  ASSUME NEW doc, IsMPD(doc), NEW read, DashWalk(doc, read), NEW m \in 0 .. Cardinality(Places(doc))
  PROVE  Tracked(read[m])
<1> DEFINE n == Cardinality(Places(doc))
           places == InOrder(Places(doc))
           U == {i \in 0 .. n : Tracked(read[i])}
<1>1. n \in Nat /\ \A k \in 1 .. n : places[k] \in Places(doc)  BY DashPlaces, OrderedPlaces
<1>2. read[0] = NoneAdded /\ \A i \in 1 .. n : read[i] = AddTrack(doc, read[i - 1], places[i])  BY DEF DashWalk
<1> HIDE DEF n, places
<1>3. 0 \in U
  <2>1. AreTracks(<<>>)
    <3>1. <<>> \in Seq({}) /\ Len(<<>>) = 0  OBVIOUS
    <3>2. IsSeq(<<>>)  BY <3>1, SeqIs
    <3>3. \A k \in 1 .. 0 : FALSE  OBVIOUS
    <3>4. QED  BY <3>1, <3>2, <3>3 DEF AreTracks
  <2>2. Tracked(read[0])  BY <1>2, <2>1 DEF Tracked, NoneAdded
  <2>3. QED  BY <1>1, <2>2
<1>4. ASSUME NEW i \in 0 .. n - 1, i \in U PROVE i + 1 \in U
  <2>1. i + 1 \in 1 .. n /\ (i + 1) - 1 = i /\ i + 1 \in 0 .. n  BY <1>1
  <2>2. read[i + 1] = AddTrack(doc, read[i], places[i + 1])  BY <1>2, <2>1
  <2> DEFINE acc == read[i]
  <2>3. Tracked(acc) /\ places[i + 1] \in Places(doc)  BY <1>1, <1>4, <2>1
  <2> HIDE DEF acc
  <2>4. LET new == AddTrack(doc, acc, places[i + 1])
        IN new = [err |-> new.err, streams |-> new.streams] /\ AreTracks(new.streams)
    BY <2>3, TrackAdded DEF Tracked
  <2>5. Tracked(read[i + 1])  BY <2>2, <2>4 DEF Tracked, acc
  <2>6. QED  BY <2>1, <2>5
<1> HIDE DEF U
<1>5. 0 .. n \subseteq U  BY <1>1, <1>3, <1>4, UpTo
<1>6. m \in U  BY <1>5 DEF n
<1>7. QED  BY <1>6 DEF U

(* An MPD becomes tracks.                                                *)
LEMMA DashTracks ==
  ASSUME NEW doc, IsMPD(doc)
  PROVE  AreTracks(ParseDASH(doc).streams)
<1>1. Cardinality(Places(doc)) \in Nat  BY DashPlaces, OrderedPlaces
<1>2. Cardinality(Places(doc)) \in 0 .. Cardinality(Places(doc))  BY <1>1
<1>3. PICK read : DashWalk(doc, read) /\ ParseDASH(doc) = read[Cardinality(Places(doc))]  BY DashWalks
<1>4. QED  BY <1>2, <1>3, TracksRead DEF Tracked

--------------------------------------------------------------------------------
(* What is chosen.                                                       *)

(* What is selected from is a list of tracks, and what is expanded first   *)
(* is what was selected of it.                                             *)
Picked == Apply(input.ve, OfType(Sort(tracks), "video"))
ChosenInv ==
  /\ HlsInv
  /\ phase = "select" => AreTracks(tracks)
  /\ phase = "expand" /\ at = 1 =>
       AreTracks(tracks) /\ chosen = Select(Sort(tracks), Picked, input.ae, input.se)

(* Whatever manifest is loaded, what is selected from is tracks.         *)
LEMMA TracksLoaded ==
  ASSUME KindInv, Load, phase' = "select" PROVE AreTracks(tracks)'
<1> DEFINE m == LoadManifest
<1>1. tracks' = m.streams /\ ~m.err /\ m.kind \notin {"playlist", "file"} /\ kind' = m.kind  BY DEF Load
<1>2. m = ParseManifest(Source)
  <2>1. Listed("file", <<FileMaster(URL(Base), input.size, input.probe)>>).kind = "file"  BY DEF Listed
  <2>2. QED  BY <1>1, <2>1 DEF LoadManifest
<1> HIDE DEF m
<1>3. WellFormed(Source)  BY InputIs
<1>4. CASE Source.format = "m3u"
  <2>1. m = Listed("playlist", ParsePlaylist(Doc, Base)) \/ m = Loaded("hls", ParseMaster(Doc, Base))
    BY <1>2, <1>4 DEF ParseManifest, Doc
  <2>2. m.kind = "hls"  BY <1>1, <2>1 DEF Listed, Loaded
  <2>3. HlsTracks(Doc, tracks)'  BY <1>1, <2>2, HlsLoaded
  <2>4. QED  BY <2>3 DEF HlsTracks
<1>5. CASE Source.format = "mpd"
  <2>1. m = Loaded("dash", ParseDASH(Doc))  BY <1>2, <1>5 DEF ParseManifest, Doc
  <2>2. IsMPD(Doc)  BY <1>3, <1>5 DEF WellFormed, Doc
  <2>3. AreTracks(ParseDASH(Doc).streams)  BY <2>2, DashTracks
  <2>4. tracks' = ParseDASH(Doc).streams  BY <1>1, <2>1 DEF Loaded
  <2>5. QED  BY <2>3, <2>4 DEF AreTracks
<1>6. CASE Source.format = "ism"
  <2>1. m = Loaded("mss", ParseMSS(Doc))  BY <1>2, <1>6 DEF ParseManifest, Doc
  <2>2. IsSmooth(Doc)  BY <1>3, <1>6 DEF WellFormed, Doc
  <2>3. AreTracks(ParseMSS(Doc).streams)  BY <2>2, SmoothTracks
  <2>4. tracks' = ParseMSS(Doc).streams  BY <1>1, <2>1 DEF Loaded
  <2>5. QED  BY <2>3, <2>4 DEF AreTracks
<1>7. CASE Source.format \notin {"m3u", "mpd", "ism"}
  <2>1. m = [kind |-> "", err |-> TRUE, streams |-> <<>>]  BY <1>2, <1>7 DEF ParseManifest
  <2>2. QED  BY <1>1, <2>1
<1>8. QED  BY <1>4, <1>5, <1>6, <1>7

(* Every step keeps the chosen what Select chose, until they are         *)
(* expanded.                                                             *)
LEMMA ChosenStep == OpenInv /\ ChosenInv /\ [Next]_titleVars => ChosenInv'
<1> SUFFICES ASSUME OpenInv, ChosenInv, [Next]_titleVars PROVE ChosenInv'  OBVIOUS
<1>1. HlsInv' /\ at \in Nat \ {0} /\ KindInv  BY HlsStep DEF ChosenInv, HlsInv, OpenInv
<1>2. CASE Load
  <2>1. phase' \in {"refused", "playlist", "file", "select"}  BY <1>2 DEF Load
  <2>2. QED  BY <1>1, <1>2, <2>1, TracksLoaded DEF ChosenInv
<1>3. CASE List  BY <1>1, <1>3 DEF List, ChosenInv
<1>4. CASE Choose
  <2>1. phase = "select" /\ phase' \in {"refused", "expand"} /\ tracks' = tracks /\ input' = input
    BY <1>4 DEF Choose
  <2>2. AreTracks(tracks)  BY <2>1 DEF ChosenInv
  <2>3. chosen' = Select(Sort(tracks), Picked, input.ae, input.se)  BY <1>1, <1>4, <2>2, ChosenFrom DEF Picked
  <2>4. Picked' = Picked  BY <2>1 DEF Picked
  <2>5. QED  BY <1>1, <2>1, <2>2, <2>3, <2>4 DEF ChosenInv
<1>5. CASE Expand
  <2>1. phase' = "refused" \/ (phase' = "expand" /\ at' = at + 1)  BY <1>5 DEF Expand
  <2>2. at + 1 # 1  BY <1>1
  <2>3. QED  BY <1>1, <2>1, <2>2 DEF ChosenInv
<1>6. CASE Settle  BY <1>1, <1>6 DEF Settle, ChosenInv
<1>7. CASE Open
  <2>1. phase' \in {"refused", "open"}  BY <1>7 DEF Open
  <2>2. QED  BY <1>1, <2>1 DEF ChosenInv
<1>8. CASE Take  BY <1>1, <1>8 DEF Take, ChosenInv
<1>9. CASE UNCHANGED titleVars
  <2>1. tracks' = tracks /\ input' = input /\ chosen' = chosen /\ phase' = phase /\ at' = at  BY <1>9 DEF titleVars
  <2>2. Picked' = Picked  BY <2>1 DEF Picked
  <2>3. QED  BY <1>1, <2>1, <2>2 DEF ChosenInv
<1>10. QED  BY <1>2, <1>3, <1>4, <1>5, <1>6, <1>7, <1>8, <1>9 DEF Next

(* The tracks in a list, and the order of those that are kept of it.       *)
Has(s, st) == \E k \in 1 .. Len(s) : st = s[k]

(* What a list has, its types and what is from it.                       *)
LEMMA HasIs ==
  ASSUME NEW s, IsSeq(s)
  PROVE  /\ \A x, st : st \in OfKind(s, x) <=> Has(s, st) /\ st.type = x
         /\ \A t, st : From(t, s) /\ Has(t, st) => Has(s, st)
         /\ \A t, st : SortOf(s, t) => (Has(t, st) <=> Has(s, st))
<1>1. DOMAIN s = 1 .. Len(s)  BY FromIs
<1>2. \A st : st \in ToSet(s) <=> Has(s, st)  BY <1>1 DEF ToSet, Has
<1>3. \A x, st : st \in OfKind(s, x) <=> Has(s, st) /\ st.type = x  BY <1>2 DEF OfKind
<1>4. \A t, st : From(t, s) /\ Has(t, st) => Has(s, st)  BY DEF From, Holds, Has
<1>5. \A t, st : SortOf(s, t) => (Has(t, st) <=> Has(s, st))  BY DEF SortOf, Holds, Has
<1>6. QED  BY <1>3, <1>4, <1>5

(* What Those keeps of a list: the members at those places, in their     *)
(* order, the least first.                                               *)
LEMMA KeptOf ==
  ASSUME NEW s, IsSeq(s), NEW I \in SUBSET (1 .. Len(s))
  PROVE  /\ \A st : Has(Those(s, I), st) <=> \E i \in I : st = s[i]
         /\ Descends(s) => Descends(Those(s, I))
         /\ \A m \in I : (\A i \in I : m <= i) => Those(s, I)[1] = s[m]
<1> DEFINE t == Those(s, I)
           n == Cardinality(I)
<1>1. PickedFrom(s, I, t)  BY PickedIs
<1> HIDE DEF t
<1>2. n \in Nat /\ Len(t) = n  BY <1>1 DEF PickedFrom
<1>3. \A i \in I : Upto(I, i) \in 1 .. n /\ t[Upto(I, i)] = s[i]  BY <1>1 DEF PickedFrom
<1>4. \A k \in 1 .. n : \E i \in I : Upto(I, i) = k /\ t[k] = s[i]  BY <1>1 DEF PickedFrom
<1>5. \A i, j \in I : i < j => Upto(I, i) < Upto(I, j)  BY <1>1 DEF PickedFrom
<1>6. \A i \in I : i \in Int /\ i \in 1 .. Len(s)  BY DEF IsSeq
<1> HIDE DEF n
<1>7. \A st : Has(t, st) <=> \E i \in I : st = s[i]  BY <1>2, <1>3, <1>4 DEF Has
<1>8. ASSUME Descends(s), NEW k \in 1 .. n, NEW l \in 1 .. n, k < l PROVE ~Above(t[l], t[k])
  <2>1. PICK i \in I : Upto(I, i) = k /\ t[k] = s[i]  BY <1>4
  <2>2. PICK j \in I : Upto(I, j) = l /\ t[l] = s[j]  BY <1>4
  <2>3. k \in Int /\ l \in Int /\ i \in Int /\ j \in Int  BY <1>2, <1>6
  <2>4. ~(j < i) /\ i # j  BY <1>5, <1>8, <2>1, <2>2, <2>3
  <2>5. i < j  BY <2>3, <2>4
  <2>6. ~Above(s[j], s[i])  BY <1>6, <1>8, <2>5 DEF Descends
  <2>7. QED  BY <2>1, <2>2, <2>6
<1>9. ASSUME NEW m \in I, \A i \in I : m <= i PROVE t[1] = s[m]
  <2>1. Upto(I, m) = Cardinality({m})
    <3>1. {q \in I : q <= m} = {m}
      <4>1. \A q \in I : q <= m <=> q = m  BY <1>6, <1>9
      <4>2. QED  BY <4>1
    <3>2. QED  BY <3>1 DEF Upto
  <2>2. Cardinality({m}) = 1  BY FS_Singleton
  <2>3. QED  BY <1>3, <2>1, <2>2
<1>10. QED  BY <1>2, <1>7, <1>8, <1>9 DEF Descends, t

(* What OfType keeps of a list, in its order.                            *)
LEMMA TypesOf ==
  ASSUME NEW s, IsSeq(s), NEW x
  PROVE  /\ \A st : Has(OfType(s, x), st) <=> Has(s, st) /\ st.type = x
         /\ Descends(s) => Descends(OfType(s, x))
<1> DEFINE I == OfTypes(s, x)
<1>1. OfType(s, x) = Those(s, I) /\ I \in SUBSET (1 .. Len(s))  BY PartsPicked
<1>2. \A i : i \in I <=> i \in 1 .. Len(s) /\ s[i].type = x  BY DEF OfTypes
<1> HIDE DEF I
<1>3. /\ \A st : Has(OfType(s, x), st) <=> \E i \in I : st = s[i]
      /\ Descends(s) => Descends(OfType(s, x))
  <2>1. \A st : Has(Those(s, I), st) <=> \E i \in I : st = s[i]  BY <1>1, KeptOf
  <2>2. Descends(s) => Descends(Those(s, I))  BY <1>1, KeptOf
  <2>3. QED  BY <1>1, <2>1, <2>2
<1>4. \A st : (\E i \in I : st = s[i]) <=> Has(s, st) /\ st.type = x  BY <1>2 DEF Has
<1>5. QED  BY <1>3, <1>4

(* What is chosen: the videos, then sound and subtitles of their types.    *)
LEMMA ChosenHas ==
  ASSUME NEW s, AreTracks(s), NEW videos, From(videos, OfType(s, "video")),
         NEW ae, ae # <<>> => IsExpr(ae[1]), NEW se, se # <<>> => IsExpr(se[1])
  PROVE  LET all == Select(s, videos, ae, se)
         IN /\ \A st : st \in OfKind(all, "video") <=> Has(videos, st)
            /\ \A st : st \in OfKind(all, "audio") <=> Has(AudioOf(s, videos, ae), st)
            /\ OfType(all, "video") = videos
<1> DEFINE a == AudioOf(s, videos, ae)
           b == SubsOf(s, videos, se)
           all == Select(s, videos, ae, se)
           v == Len(videos)
           films == OfType(s, "video")
<1>1. IsSeq(s) /\ From(films, s)  BY TypeFrom DEF AreTracks
<1>2. From(videos, s) /\ IsSeq(videos) /\ v \in Nat /\ videos = [k \in 1 .. v |-> videos[k]]
  <2>1. From(videos, s)  BY <1>1, FromIs
  <2>2. QED  BY <2>1 DEF From, IsSeq
<1>3. /\ all = videos \o a \o b /\ From(all, s)
      /\ From(a, OfType(s, "audio")) /\ From(b, OfType(s, "subtitles"))
  BY <1>2, SelectFrom
<1> HIDE DEF a, b, all, v, films
<1>4. From(a, s) /\ From(b, s)
  <2>1. From(OfType(s, "audio"), s) /\ From(OfType(s, "subtitles"), s)  BY <1>1, TypeFrom
  <2>2. QED  BY <1>1, <1>3, <2>1, FromIs
<1>5. /\ \A st : Has(videos, st) => st.type = "video"
      /\ \A st : Has(a, st) => st.type = "audio"
      /\ \A st : Has(b, st) => st.type = "subtitles"
  <2>1. \A x : \A t : From(t, OfType(s, x)) => \A st : Has(t, st) => st.type = x
    <3>1. ASSUME NEW x, NEW t, From(t, OfType(s, x)), NEW st, Has(t, st) PROVE st.type = x
      <4>1. IsSeq(OfType(s, x))  BY <1>1, TypeFrom DEF From
      <4>2. Has(OfType(s, x), st)  BY <3>1, <4>1, HasIs
      <4>3. QED  BY <1>1, <4>2, TypesOf
    <3>2. QED  BY <3>1
  <2>2. QED  BY <1>3, <2>1 DEF films
<1> DEFINE ab == videos \o a
<1>6. /\ From(ab, s) /\ Len(ab) = v + Len(a)
      /\ \A k \in 1 .. v : ab[k] = videos[k]
      /\ \A k \in v + 1 .. v + Len(a) : ab[k] = a[k - v]
  BY <1>2, <1>4, JoinedFrom DEF v
<1>7. all = ab \o b  BY <1>3
<1> HIDE DEF ab
<1>8. /\ Len(all) = Len(ab) + Len(b)
      /\ \A k \in 1 .. Len(ab) : all[k] = ab[k]
      /\ \A k \in Len(ab) + 1 .. Len(ab) + Len(b) : all[k] = b[k - Len(ab)]
  <2> DEFINE joined == ab \o b
  <2>1. /\ Len(joined) = Len(ab) + Len(b)
        /\ \A k \in 1 .. Len(ab) : joined[k] = ab[k]
        /\ \A k \in Len(ab) + 1 .. Len(ab) + Len(b) : joined[k] = b[k - Len(ab)]
    <3>1. From(ab, s) /\ From(b, s)  BY <1>4, <1>6
    <3>2. /\ Len(ab \o b) = Len(ab) + Len(b)
          /\ \A k \in 1 .. Len(ab) : (ab \o b)[k] = ab[k]
          /\ \A k \in Len(ab) + 1 .. Len(ab) + Len(b) : (ab \o b)[k] = b[k - Len(ab)]
      BY ONLY <3>1, JoinedFrom
    <3>3. QED  BY <3>2
  <2> HIDE DEF joined
  <2>2. all = joined  BY <1>7 DEF joined
  <2>3. QED  BY <2>1, <2>2
<1>9. Len(a) \in Nat /\ Len(b) \in Nat  BY <1>4 DEF From, IsSeq
<1> DEFINE m == Len(a)
           w == Len(b)
<1>10. /\ Len(all) = v + m + w
       /\ \A k \in 1 .. v : all[k] = videos[k]
       /\ \A k \in 1 .. m : all[v + k] = a[k]
       /\ \A k \in 1 .. w : all[v + m + k] = b[k]
  <2>1. m \in Nat /\ w \in Nat /\ Len(ab) = v + m /\ Len(all) = v + m + w  BY <1>6, <1>8, <1>9
  <2>2. \A k \in 1 .. v : k \in 1 .. Len(ab)  BY <1>2, <2>1
  <2>3. \A k \in 1 .. m : v + k \in 1 .. Len(ab) /\ v + k \in v + 1 .. v + Len(a) /\ (v + k) - v = k
    BY <1>2, <2>1
  <2>4. ASSUME NEW k \in 1 .. w
        PROVE  v + m + k \in Len(ab) + 1 .. Len(ab) + Len(b) /\ (v + m + k) - Len(ab) = k
    <3>1. w = Len(b)  OBVIOUS
    <3> HIDE DEF m, w
    <3>2. QED  BY <1>2, <2>1, <3>1, SMTT(30)
  <2>5. \A k \in 1 .. v : all[k] = videos[k]  BY <1>6, <1>8, <2>2
  <2>6. \A k \in 1 .. m : all[v + k] = a[k]  BY <1>6, <1>8, <2>3
  <2>7. \A k \in 1 .. w : all[v + m + k] = b[k]  BY <1>8, <2>4
  <2>8. QED  BY <2>1, <2>5, <2>6, <2>7
<1>11. \A st : Has(videos, st) <=> \E k \in 1 .. v : st = videos[k]  BY DEF Has, v
<1>12. \A st : Has(a, st) <=> \E k \in 1 .. m : st = a[k]  BY DEF Has
<1>13. \A st : Has(b, st) <=> \E k \in 1 .. w : st = b[k]  BY DEF Has
<1>14. m \in Nat /\ w \in Nat  BY <1>9
<1> HIDE DEF m, w
<1>15. \A st : Has(all, st) <=> Has(videos, st) \/ Has(a, st) \/ Has(b, st)
  <2>1. ASSUME NEW st, Has(all, st) PROVE Has(videos, st) \/ Has(a, st) \/ Has(b, st)
    <3>1. PICK k \in 1 .. v + m + w : st = all[k]  BY <1>10, <2>1 DEF Has
    <3>2. CASE k \in 1 .. v  BY <1>10, <1>11, <3>1, <3>2
    <3>3. CASE k \in v + 1 .. v + m
      <4>1. k - v \in 1 .. m /\ v + (k - v) = k  BY <1>2, <1>14, <3>3
      <4>2. QED  BY <1>10, <1>12, <3>1, <4>1
    <3>4. CASE k \in v + m + 1 .. v + m + w
      <4>1. k - v - m \in 1 .. w /\ v + m + (k - v - m) = k  BY <1>2, <1>14, <3>4
      <4>2. QED  BY <1>10, <1>13, <3>1, <4>1
    <3>5. QED  BY <1>2, <1>14, <3>2, <3>3, <3>4
  <2>2. ASSUME NEW st, Has(videos, st) PROVE Has(all, st)
    <3>1. PICK k \in 1 .. v : st = videos[k]  BY <1>11, <2>2
    <3>2. k \in 1 .. v + m + w  BY <1>2, <1>14
    <3>3. QED  BY <1>10, <3>1, <3>2 DEF Has
  <2>3. ASSUME NEW st, Has(a, st) PROVE Has(all, st)
    <3>1. PICK k \in 1 .. m : st = a[k]  BY <1>12, <2>3
    <3>2. v + k \in 1 .. v + m + w  BY <1>2, <1>14
    <3>3. QED  BY <1>10, <3>1, <3>2 DEF Has
  <2>4. ASSUME NEW st, Has(b, st) PROVE Has(all, st)
    <3>1. PICK k \in 1 .. w : st = b[k]  BY <1>13, <2>4
    <3>2. v + m + k \in 1 .. v + m + w  BY <1>2, <1>14
    <3>3. QED  BY <1>10, <3>1, <3>2 DEF Has
  <2>5. QED  BY <2>1, <2>2, <2>3, <2>4
<1>16. IsSeq(all)  BY <1>3 DEF From
<1>17. \A st : st \in OfKind(all, "video") <=> Has(videos, st)
  <2>1. \A st : st \in OfKind(all, "video") <=> Has(all, st) /\ st.type = "video"  BY <1>16, HasIs
  <2>2. QED  BY <1>5, <1>15, <2>1
<1>18. \A st : st \in OfKind(all, "audio") <=> Has(a, st)
  <2>1. \A st : st \in OfKind(all, "audio") <=> Has(all, st) /\ st.type = "audio"  BY <1>16, HasIs
  <2>2. QED  BY <1>5, <1>15, <2>1
<1>19. OfType(all, "video") = videos
  <2>1. OfTypes(all, "video") = 1 .. v
    <3>1. ASSUME NEW k \in 1 .. v PROVE k \in 1 .. v + m + w /\ all[k].type = "video"
      <4>1. k \in 1 .. v + m + w  BY <1>2, <1>14
      <4>2. all[k] = videos[k] /\ Has(videos, videos[k])  BY <1>10, <1>11
      <4>3. QED  BY <1>5, <4>1, <4>2
    <3>2. ASSUME NEW k \in 1 .. v + m + w, k \notin 1 .. v PROVE all[k].type # "video"
      <4>1. CASE k \in v + 1 .. v + m
        <5>1. k - v \in 1 .. m /\ v + (k - v) = k  BY <1>2, <1>14, <4>1
        <5>2. all[k] = a[k - v] /\ Has(a, a[k - v])  BY <1>10, <1>12, <5>1
        <5>3. all[k].type = "audio"  BY <1>5, <5>2
        <5>4. QED  BY <5>3
      <4>2. CASE k \in v + m + 1 .. v + m + w
        <5>1. k - v - m \in 1 .. w /\ v + m + (k - v - m) = k  BY <1>2, <1>14, <4>2
        <5>2. all[k] = b[k - v - m] /\ Has(b, b[k - v - m])  BY <1>10, <1>13, <5>1
        <5>3. all[k].type = "subtitles"  BY <1>5, <5>2
        <5>4. QED  BY <5>3
      <4>3. QED  BY <1>2, <1>14, <3>2, <4>1, <4>2
    <3>3. QED  BY <1>10, <3>1, <3>2 DEF OfTypes
  <2>2. ASSUME NEW k \in 1 .. v PROVE (CHOOSE i \in 1 .. v : Upto(1 .. v, i) = k) = k
    <3>1. ASSUME NEW i \in 1 .. v PROVE Upto(1 .. v, i) = i
      <4>1. {q \in 1 .. v : q <= i} = 1 .. i  BY <1>2
      <4>2. Cardinality(1 .. i) = i
        <5>1. i \in Nat /\ 1 <= i  BY <1>2
        <5>2. Cardinality(1 .. i) = (IF 1 > i THEN 0 ELSE i - 1 + 1)  BY <5>1, FS_Interval
        <5>3. QED  BY <5>1, <5>2
      <4>3. QED  BY <4>1, <4>2 DEF Upto
    <3>2. QED  BY <3>1
  <2>3. Cardinality(1 .. v) = v
    <3>1. Cardinality(1 .. v) = (IF 1 > v THEN 0 ELSE v - 1 + 1)  BY <1>2, FS_Interval
    <3>2. QED  BY <1>2, <3>1
  <2>4. OfType(all, "video") = Those(all, 1 .. v)  BY <1>16, <2>1, PartsPicked, ZenonT(40)
  <2>5. Those(all, 1 .. v) = [k \in 1 .. v |-> all[CHOOSE i \in 1 .. v : Upto(1 .. v, i) = k]]  BY <2>3 DEF Those
  <2>6. [k \in 1 .. v |-> all[CHOOSE i \in 1 .. v : Upto(1 .. v, i) = k]] = [k \in 1 .. v |-> videos[k]]
    BY <1>10, <2>2
  <2>7. QED  BY <1>2, <2>4, <2>5, <2>6
<1>20. QED  BY <1>17, <1>18, <1>19 DEF all, a

(* The videos among the tracks, in the order they are picked from.         *)
LEMMA SortedVideos ==
  ASSUME NEW s, AreTracks(s), NEW x
  PROVE  LET t == OfType(Sort(s), x)
         IN AreTracks(t) /\ IsSeq(t) /\ Descends(t) /\ \A st : Has(t, st) <=> st \in OfKind(s, x)
<1> DEFINE sorted == Sort(s)
           t == OfType(sorted, x)
<1>1. SortOf(s, sorted)  BY Sorted
<1> HIDE DEF sorted
<1>2. IsSeq(s) /\ IsSeq(sorted) /\ From(sorted, s) /\ Descends(sorted)
  BY <1>1 DEF SortOf, From, AreTracks
<1>3. From(t, sorted)  BY <1>2, TypeFrom
<1>4. AreTracks(sorted)  BY <1>2, FromTracks
<1>5. AreTracks(t) /\ IsSeq(t)  BY <1>3, <1>4, FromTracks DEF From
<1>6. Descends(t) /\ \A st : Has(t, st) <=> Has(sorted, st) /\ st.type = x  BY <1>2, TypesOf
<1>7. \A st : Has(sorted, st) <=> Has(s, st)  BY <1>1, <1>2, HasIs
<1>8. \A st : st \in OfKind(s, x) <=> Has(s, st) /\ st.type = x  BY <1>2, HasIs
<1> HIDE DEF t
<1>9. \A st : Has(t, st) <=> st \in OfKind(s, x)  BY <1>6, <1>7, <1>8
<1>10. QED  BY <1>5, <1>6, <1>9 DEF t, sorted

(* The videos Apply takes keep the bounds.                               *)
LEMMA BoundsKept ==
  ASSUME NEW s, AreTracks(s), NEW e, IsExpr(e), NEW selected,
         \A st : st \in OfKind(selected, "video") <=> Has(Apply(e, OfType(Sort(s), "video")), st)
  PROVE  BoundsHonored(s, e, selected)
<1> DEFINE films == OfType(Sort(s), "video")
           videos == Apply(e, films)
           pool == Pool(e, films)
           others == {st \in OfKind(s, "video") :
                        \A i \in DOMAIN e.filters : IsDim(e.filters[i]) \/ Passes(e.filters[i], st)}
           inside == {st \in others : Distance(e, st) = 0}
           picked == OfKind(selected, "video")
           best == e.take = "best" /\ e.n = 1
<1>1. AreTracks(films) /\ IsSeq(films) /\ Descends(films) /\ \A st : Has(films, st) <=> st \in OfKind(s, "video")
  BY SortedVideos
<1>2. \A st : st \in picked <=> Has(videos, st)  OBVIOUS
<1>3. \A st : Match(e, st, TRUE) <=> \A i \in DOMAIN e.filters : IsDim(e.filters[i]) \/ Passes(e.filters[i], st)
  BY DEF Match
<1>4. \A st : st \in others <=> Has(films, st) /\ Match(e, st, TRUE)  BY <1>1, <1>3
<1>5. \A st : st \in inside <=> st \in others /\ Distance(e, st) = 0  OBVIOUS
<1>6. BoundsHonored(s, e, selected) <=>
        (~e.none /\ (e.take = "all" \/ e.n > 0) /\ others # {} /\ (inside # {} \/ Bounded(e)) =>
           /\ picked # {}
           /\ inside # {} => picked \subseteq inside
           /\ \A st \in picked, o \in others : Distance(e, st) <= Distance(e, o)
           /\ best => \A st \in picked, o \in inside : inside # {} => ~Above(o, st))
  BY DEF BoundsHonored, Bounded
<1> HIDE DEF others, inside, picked, films
<1>7. /\ From(pool, films)
      /\ Fits(e, films) # {} => PickedFrom(films, Fits(e, films), pool) /\ Len(pool) > 0
      /\ Fits(e, films) = {} => pool = Nearest(e, films)
  BY <1>1, PoolIs
<1>8. /\ From(videos, pool)
      /\ ~e.none /\ Len(pool) > 0 /\ (e.take = "all" \/ e.n > 0) => Len(videos) > 0
      /\ best => \A k \in 1 .. Len(videos) : videos[k] = pool[1]
  BY <1>1, ApplyIs
<1> HIDE DEF videos, best
<1>9. \A st : Has(films, st) => Distance(e, st) \in Nat /\ IsTrack(st)
                               /\ ((Match(e, st, TRUE) /\ Distance(e, st) = 0) <=> Match(e, st, FALSE))
  <2>1. \A st : Has(films, st) => IsTrack(st)  BY <1>1 DEF AreTracks, Has
  <2>2. QED  BY <2>1, DistanceIs
<1>10. IsSeq(pool) /\ IsSeq(videos) /\ Len(videos) \in Nat  BY <1>7, <1>8 DEF From, IsSeq
<1>11. \A st : st \in picked => Has(pool, st)  BY <1>2, <1>8, <1>10, HasIs
<1>12. Len(videos) > 0 => picked # {}
  <2>1. Len(videos) > 0 => 1 \in 1 .. Len(videos)  BY <1>10
  <2>2. Len(videos) > 0 => Has(videos, videos[1])  BY <2>1 DEF Has
  <2>3. QED  BY <1>2, <2>2
<1>13. CASE Fits(e, films) # {}
  <2> DEFINE F == Fits(e, films)
  <2>1. F \in SUBSET (1 .. Len(films)) /\ F # {}  BY <1>13 DEF Fits
  <2>2. \A i \in F : Has(films, films[i]) /\ Match(e, films[i], FALSE)  BY DEF Fits, Has
  <2>3. \A st : st \in inside <=> \E i \in F : st = films[i]
    <3>1. \A st : st \in inside <=> Has(films, st) /\ Match(e, st, FALSE)  BY <1>4, <1>5, <1>9
    <3>2. \A st : Has(films, st) /\ Match(e, st, FALSE) => \E i \in F : st = films[i]  BY DEF Fits, Has
    <3>3. QED  BY <2>2, <3>1, <3>2
  <2> HIDE DEF F
  <2>4. PickedFrom(films, F, pool) /\ Len(pool) > 0  BY <1>7, <1>13 DEF F
  <2>5. \A st : Has(pool, st) => \E i \in F : st = films[i]
    <3>1. Len(pool) = Cardinality(F) /\ \A k \in 1 .. Cardinality(F) : \E i \in F : pool[k] = films[i]
      BY <2>4 DEF PickedFrom
    <3>2. QED  BY <3>1 DEF Has
  <2>6. picked \subseteq inside  BY <1>11, <2>3, <2>5
  <2>7. \A st \in picked, o \in others : Distance(e, st) <= Distance(e, o)
    <3>1. \A st \in picked : Distance(e, st) = 0  BY <1>5, <2>6
    <3>2. \A o \in others : Distance(e, o) \in Nat  BY <1>4, <1>9
    <3>3. QED  BY <3>1, <3>2
  <2>8. best => \A st \in picked, o \in inside : ~Above(o, st)
    <3>1. SUFFICES ASSUME best, NEW st \in picked, NEW o \in inside PROVE ~Above(o, st)  OBVIOUS
    <3> DEFINE m == Min(F)
    <3>2. m \in F /\ \A i \in F : m <= i
      <4>1. \A n : \A T \in SUBSET (1 .. n) : T # {} => Min(T) \in T /\ \A i \in T : Min(T) <= i
        BY LeastOfRange
      <4>2. QED  BY <2>1, <4>1
    <3> HIDE DEF m
    <3>3. pool[1] = films[m]
      <4>1. pool = Those(films, F)
        <5>1. DOMAIN films = 1 .. Len(films)  BY <1>1, FromIs
        <5>2. F = {k \in DOMAIN films : Match(e, films[k], FALSE)}  BY <5>1 DEF F, Fits
        <5>3. Those(films, F) # <<>>  BY <1>1, <2>1, PickedIs
        <5>4. QED  BY <5>2, <5>3 DEF Pool
      <4>2. Those(films, F)[1] = films[m]  BY <1>1, <2>1, <3>2, KeptOf
      <4>3. QED  BY <4>1, <4>2
    <3>4. st = films[m]
      <4>1. PICK k \in 1 .. Len(videos) : st = videos[k]  BY <1>2 DEF Has
      <4>2. QED  BY <1>8, <3>1, <3>3, <4>1
    <3>5. PICK j \in F : o = films[j]  BY <2>3
    <3>6. m \in 1 .. Len(films) /\ j \in 1 .. Len(films) /\ m <= j /\ m \in Int /\ j \in Int
      BY <2>1, <3>2
    <3>7. CASE m = j
      <4>1. IsTrack(st)  BY <1>9, <2>2, <3>2, <3>4
      <4>2. QED  BY <3>4, <3>5, <3>7, <4>1, AboveOrders
    <3>8. CASE m < j  BY <1>1, <3>4, <3>5, <3>6, <3>8 DEF Descends
    <3>9. QED  BY <3>6, <3>7, <3>8
  <2>9. ~e.none /\ (e.take = "all" \/ e.n > 0) => picked # {}  BY <1>8, <1>12, <2>4
  <2>10. QED  BY <1>6, <2>6, <2>7, <2>8, <2>9
<1>14. CASE Fits(e, films) = {}
  <2>1. pool = Nearest(e, films)  BY <1>7, <1>14
  <2>2. /\ \A i \in 1 .. Len(pool) : \E k \in 1 .. Len(films) : IsNearest(e, films, k) /\ pool[i] = films[k]
        /\ Able(e, films) # {} /\ Bounded(e) => Len(pool) > 0
    BY <1>1, <2>1, NearestIs
  <2>3. inside = {}
    <3>1. \A st : Has(films, st) => ~Match(e, st, FALSE)  BY <1>14 DEF Fits, Has
    <3>2. QED  BY <1>4, <1>5, <1>9, <3>1
  <2>4. \A o \in others : \E j \in Able(e, films) : o = films[j]
    <3>1. \A o \in others : \E k \in 1 .. Len(films) : o = films[k] /\ Match(e, o, TRUE)  BY <1>4 DEF Has
    <3>2. QED  BY <3>1 DEF Able
  <2>5. \A st \in picked, o \in others : Distance(e, st) <= Distance(e, o)
    <3>1. SUFFICES ASSUME NEW st \in picked, NEW o \in others PROVE Distance(e, st) <= Distance(e, o)
      OBVIOUS
    <3>2. PICK i \in 1 .. Len(pool) : st = pool[i]  BY <1>11 DEF Has
    <3>3. PICK k \in 1 .. Len(films) : IsNearest(e, films, k) /\ st = films[k]  BY <2>2, <3>2
    <3>4. PICK j \in Able(e, films) : o = films[j]  BY <2>4
    <3>5. QED  BY <3>3, <3>4 DEF IsNearest
  <2>6. others # {} /\ Bounded(e) /\ ~e.none /\ (e.take = "all" \/ e.n > 0) => picked # {}
    <3>1. others # {} => Able(e, films) # {}  BY <2>4
    <3>2. QED  BY <1>8, <1>12, <2>2, <3>1
  <2>7. QED  BY <1>6, <2>3, <2>5, <2>6
<1>15. QED  BY <1>13, <1>14

(* The first track of each language, of tracks that descend.               *)
Langs(S) == {st.lang : st \in S}

(* The first of each language in descending tracks is its best, and one  *)
(* for each.                                                             *)
LEMMA BestSpoken ==
  ASSUME NEW h, AreTracks(h), Descends(h),
         NEW picked, \A st : st \in picked <=> Has(BestPerLanguage(h), st),
         NEW pool, \A st : st \in pool <=> Has(h, st)
  PROVE  /\ picked \subseteq pool /\ (pool # {} => picked # {})
         /\ Langs(picked) = Langs(pool) /\ Cardinality(Langs(picked)) = Cardinality(picked)
         /\ \A st \in picked, o \in pool : o.lang = st.lang => ~Above(o, st)
<1> DEFINE n == Len(h)
           F == FirstSpoken(h)
<1>1. IsSeq(h) /\ n \in Nat  BY FromIs DEF AreTracks
<1>2. F \in SUBSET (1 .. n) /\ BestPerLanguage(h) = Those(h, F)  BY <1>1, PartsPicked
<1>3. \A k : k \in F <=> k \in 1 .. n /\ \A j \in 1 .. k - 1 : h[j].lang # h[k].lang  BY DEF FirstSpoken
<1> HIDE DEF F
<1>4. \A st : st \in picked <=> \E i \in F : st = h[i]
  <2>1. \A st : Has(Those(h, F), st) <=> \E i \in F : st = h[i]  BY <1>1, <1>2, KeptOf
  <2>2. QED  BY <1>2, <2>1
<1>5. \A st : st \in pool <=> \E i \in 1 .. n : st = h[i]  BY DEF Has
<1> HIDE DEF n
<1>6. picked \subseteq pool  BY <1>2, <1>4, <1>5
<1>7. ASSUME NEW k \in 1 .. n PROVE \E i \in F : h[i].lang = h[k].lang /\ i <= k
  <2> DEFINE T == {j \in 1 .. n : h[j].lang = h[k].lang}
  <2>1. T \in SUBSET (1 .. n) /\ k \in T  OBVIOUS
  <2>2. Min(T) \in T /\ \A j \in T : Min(T) <= j  BY <2>1, LeastOfRange
  <2> DEFINE m == Min(T)
  <2>3. \A j : j \in T <=> j \in 1 .. n /\ h[j].lang = h[k].lang  OBVIOUS
  <2> HIDE DEF T, m
  <2>4. m \in 1 .. n /\ h[m].lang = h[k].lang /\ m <= k /\ \A j \in T : m <= j  BY <2>1, <2>2, <2>3 DEF m
  <2>5. ASSUME NEW j \in 1 .. m - 1 PROVE h[j].lang # h[m].lang
    <3>1. j \in 1 .. n /\ ~(m <= j)  BY <1>1, <2>4
    <3>2. QED  BY <2>3, <2>4, <3>1
  <2>6. m \in F  BY <1>3, <2>4, <2>5
  <2>7. QED  BY <2>4, <2>6
<1>8. pool # {} => picked # {}
  <2>1. ASSUME NEW st \in pool PROVE picked # {}
    <3>1. PICK k \in 1 .. n : st = h[k]  BY <1>5
    <3>2. PICK i \in F : h[i].lang = h[k].lang  BY <1>7
    <3>3. QED  BY <1>4, <3>2
  <2>2. QED  BY <2>1
<1>9. ASSUME NEW i \in F, NEW j \in F, h[i].lang = h[j].lang PROVE i = j
  <2>1. i \in 1 .. n /\ j \in 1 .. n /\ i \in Int /\ j \in Int  BY <1>1, <1>2
  <2>2. ~(i \in 1 .. j - 1) /\ ~(j \in 1 .. i - 1)  BY <1>3, <1>9
  <2>3. QED  BY <2>1, <2>2
<1>10. Langs(picked) = Langs(pool)
  <2>1. \A st \in pool : \E o \in picked : o.lang = st.lang
    <3>1. SUFFICES ASSUME NEW st \in pool PROVE \E o \in picked : o.lang = st.lang  OBVIOUS
    <3>2. PICK k \in 1 .. n : st = h[k]  BY <1>5
    <3>3. PICK i \in F : h[i].lang = h[k].lang  BY <1>7
    <3>4. h[i] \in picked  BY <1>4
    <3>5. QED  BY <3>2, <3>3, <3>4
  <2>2. QED  BY <1>6, <2>1 DEF Langs
<1>11. Cardinality(Langs(picked)) = Cardinality(picked)
  <2> DEFINE lang == [st \in picked |-> st.lang]
             at1 == [i \in F |-> h[i]]
  <2>1. IsFiniteSet(F)
    <3>1. IsFiniteSet(1 .. n)  BY <1>1, FS_Interval
    <3>2. QED  BY <1>2, <3>1, FS_Subset
  <2>2. IsFiniteSet(picked)
    <3>1. \A i \in F : h[i] \in picked  BY <1>4
    <3>2. \A st \in picked : \E i \in F : at1[i] = st  BY <1>4
    <3>3. at1 \in [F -> picked]  BY <3>1
    <3> HIDE DEF at1
    <3>4. at1 \in Surjection(F, picked)  BY <3>2, <3>3 DEF Surjection
    <3>5. QED  BY <2>1, <3>4, FS_Surjection
  <2>3. lang \in Bijection(picked, Langs(picked))
    <3>1. ASSUME NEW a \in picked, NEW b \in picked, lang[a] = lang[b] PROVE a = b
      <4>1. PICK i \in F : a = h[i]  BY <1>4
      <4>2. PICK j \in F : b = h[j]  BY <1>4
      <4>3. h[i].lang = h[j].lang  BY <3>1, <4>1, <4>2
      <4>4. QED  BY <1>9, <4>1, <4>2, <4>3
    <3>2. \A y \in Langs(picked) : \E a \in picked : lang[a] = y  BY DEF Langs
    <3>3. lang \in [picked -> Langs(picked)]  BY DEF Langs
    <3> HIDE DEF lang
    <3>4. QED  BY <3>1, <3>2, <3>3 DEF Bijection, Injection, Surjection, IsInjective
  <2> HIDE DEF lang
  <2>4. ExistsBijection(picked, Langs(picked))  BY <2>3 DEF ExistsBijection
  <2>5. QED  BY <2>2, <2>4, FS_Bijection
<1>12. ASSUME NEW st \in picked, NEW o \in pool, o.lang = st.lang PROVE ~Above(o, st)
  <2>1. PICK i \in F : st = h[i]  BY <1>4
  <2>2. PICK j \in 1 .. n : o = h[j]  BY <1>5
  <2>3. i \in 1 .. n /\ i \in Int /\ j \in Int  BY <1>1, <1>2
  <2>4. ~(j \in 1 .. i - 1)  BY <1>3, <1>12, <2>1, <2>2
  <2>5. i = j \/ i < j  BY <2>2, <2>3, <2>4
  <2>6. CASE i = j
    <3>1. IsTrack(st)  BY <2>1, <2>3 DEF AreTracks, n
    <3>2. QED  BY <2>1, <2>2, <2>6, <3>1, AboveOrders
  <2>7. CASE i < j  BY <2>1, <2>2, <2>3, <2>7 DEF Descends, n
  <2>8. QED  BY <2>5, <2>6, <2>7
<1>13. QED  BY <1>6, <1>8, <1>10, <1>11, <1>12

(* The sound of a selection without an expression is what SoundKept      *)
(* says.                                                                 *)
LEMMA SoundIsKept ==
  ASSUME NEW s, AreTracks(s), NEW videos, NEW selected,
         \A st : st \in OfKind(selected, "audio") <=> Has(AudioOf(Sort(s), videos, <<>>), st)
  PROVE  SoundKept(s, videos, selected)
<1> DEFINE audios == OfType(Sort(s), "audio")
           g == NamedGroup(videos)
           G == OfGroup(audios, g)
           ap == AudioPool(Sort(s), videos)
           R == Rendered(ap)
           heard == Those(ap, R)
           sound == AudioOf(Sort(s), videos, <<>>)
           audio == OfKind(s, "audio")
           groups == {st \in audio : st.group # ""}
           picked == OfKind(selected, "audio")
           named == {st \in groups : Len(videos) = 1 /\ st.group = videos[1].audio}
           pool == IF named # {} THEN named ELSE groups
<1>1. AreTracks(audios) /\ IsSeq(audios) /\ Descends(audios) /\ \A st : Has(audios, st) <=> st \in audio
  BY SortedVideos
<1>2. ap = (IF g # "" /\ G # {} THEN Those(audios, G) ELSE audios) /\ From(ap, audios)
  BY <1>1, PreferredIs DEF AudioPool
<1>3. sound = DefaultAudio(ap, videos)  BY DEF AudioOf
<1>4. SoundKept(s, videos, selected) <=>
        /\ audio # {} => picked # {} \/ AllMuxed(videos)
        /\ groups # {} =>
             /\ picked \subseteq pool
             /\ Langs(picked) = Langs(pool)
             /\ Cardinality(Langs(picked)) = Cardinality(picked)
             /\ \A st \in picked, o \in pool : o.lang = st.lang => ~Above(o, st)
  BY DEF SoundKept, Langs
<1>5. \A st : st \in picked <=> Has(sound, st)  OBVIOUS
<1>6. \A st : st \in groups <=> st \in audio /\ st.group # ""  OBVIOUS
<1>7. \A st : st \in named <=> st \in groups /\ Len(videos) = 1 /\ st.group = videos[1].audio  OBVIOUS
<1>8. g = IF Len(videos) = 1 THEN videos[1].audio ELSE ""  BY DEF NamedGroup
<1>9. G \in SUBSET (1 .. Len(audios)) /\ \A i : i \in G <=> i \in 1 .. Len(audios) /\ audios[i].group = g
  BY DEF OfGroup
<1>10. pool = IF named # {} THEN named ELSE groups  OBVIOUS
<1> HIDE DEF audios, ap, sound, audio, groups, picked, named, pool, g, G
<1>11. AreTracks(ap) /\ IsSeq(ap) /\ Descends(ap)
  <2>1. AreTracks(ap) /\ IsSeq(ap)  BY <1>1, <1>2, FromTracks DEF From
  <2>2. Descends(Those(audios, G))  BY <1>1, <1>9, KeptOf
  <2>3. QED  BY <1>1, <1>2, <2>1, <2>2
<1>12. R \in SUBSET (1 .. Len(ap)) /\ \A i : i \in R <=> i \in 1 .. Len(ap) /\ ap[i].group # ""
  BY DEF Rendered
<1>13. /\ From(sound, ap) /\ From(heard, ap)
       /\ R # {} => sound = BestPerLanguage(heard)
       /\ R = {} /\ ~AllMuxed(videos) /\ ap # <<>> => Len(sound) > 0
  BY <1>3, <1>11, DefaultIs
<1> HIDE DEF R
<1>14. /\ \A st : Has(heard, st) <=> \E i \in R : st = ap[i]
       /\ Descends(heard)
  BY <1>11, <1>12, KeptOf
<1> HIDE DEF heard
<1>15. AreTracks(heard)  BY <1>11, <1>13, FromTracks
<1>16. \A st : Has(heard, st) <=> Has(ap, st) /\ st.group # ""
  <2>1. \A st : (\E i \in R : st = ap[i]) <=> Has(ap, st) /\ st.group # ""  BY <1>12 DEF Has
  <2>2. QED  BY <1>14, <2>1
<1>17. groups # {} => \A st : st \in pool <=> Has(heard, st)
  <2>1. CASE g # "" /\ G # {}
    <3>1. ap = Those(audios, G)  BY <1>2, <2>1
    <3>2. \A st : Has(Those(audios, G), st) <=> \E i \in G : st = audios[i]  BY <1>1, <1>9, KeptOf
    <3>3. \A st : Has(ap, st) <=> Has(audios, st) /\ st.group = g
      <4>1. \A st : (\E i \in G : st = audios[i]) <=> Has(audios, st) /\ st.group = g  BY <1>9 DEF Has
      <4>2. QED  BY <3>1, <3>2, <4>1
    <3>4. Len(videos) = 1 /\ g = videos[1].audio  BY <1>8, <2>1
    <3>5. \A st : st \in named <=> Has(heard, st)  BY <1>1, <1>6, <1>7, <1>16, <2>1, <3>3, <3>4
    <3>6. \E i \in G : Has(audios, audios[i]) /\ audios[i].group = g  BY <1>9, <2>1 DEF Has
    <3>7. named # {}  BY <1>16, <2>1, <3>3, <3>5, <3>6
    <3>8. QED  BY <1>10, <3>5, <3>7
  <2>2. CASE ~(g # "" /\ G # {})
    <3>1. ap = audios  BY <1>2, <2>2
    <3>2. \A st : st \in groups <=> Has(heard, st)  BY <1>1, <1>6, <1>16, <3>1
    <3>3. named = {}
      <4>1. ASSUME NEW st \in named PROVE FALSE
        <5>1. st.group = g /\ g # "" /\ Has(audios, st)  BY <1>1, <1>6, <1>7, <1>8
        <5>2. G # {}  BY <1>9, <5>1 DEF Has
        <5>3. QED  BY <2>2, <5>1, <5>2
      <4>2. QED  BY <4>1
    <3>4. QED  BY <1>10, <3>2, <3>3
  <2>3. QED  BY <2>1, <2>2
<1>18. pool = {} <=> groups = {}
  <2>1. named \subseteq groups  BY <1>7
  <2>2. QED  BY <1>10, <2>1
<1>19. CASE groups # {}
  <2>1. \A st : st \in pool <=> Has(heard, st)  BY <1>17, <1>19
  <2>2. \E st : Has(heard, st)  BY <1>18, <1>19, <2>1
  <2>3. R # {}  BY <1>14, <2>2
  <2>4. \A st : st \in picked <=> Has(BestPerLanguage(heard), st)  BY <1>5, <1>13, <2>3
  <2>5. /\ picked \subseteq pool /\ (pool # {} => picked # {})
        /\ Langs(picked) = Langs(pool) /\ Cardinality(Langs(picked)) = Cardinality(picked)
        /\ \A st \in picked, o \in pool : o.lang = st.lang => ~Above(o, st)
    BY <1>14, <1>15, <2>1, <2>4, BestSpoken
  <2>6. QED  BY <1>4, <1>18, <1>19, <2>5
<1>20. CASE groups = {}
  <2>1. R = {}
    <3>1. ASSUME NEW i \in R PROVE FALSE
      <4>1. Has(ap, ap[i]) /\ ap[i].group # ""  BY <1>12 DEF Has
      <4>2. Has(audios, ap[i])  BY <1>1, <1>2, <4>1, HasIs
      <4>3. QED  BY <1>1, <1>6, <1>20, <4>1, <4>2
    <3>2. QED  BY <3>1
  <2>2. audio # {} => ap # <<>>
    <3>1. ASSUME NEW st \in audio PROVE ap # <<>>
      <4>1. PICK k \in 1 .. Len(audios) : st = audios[k]  BY <1>1 DEF Has
      <4>2. Len(audios) # 0 /\ Len(<<>>) = 0  BY <4>1
      <4>3. g # "" /\ G # {} => Those(audios, G) # <<>>  BY <1>1, <1>9, PickedIs
      <4>4. audios # <<>>  BY <4>2
      <4>5. QED  BY <1>2, <4>3, <4>4
    <3>2. QED  BY <3>1
  <2>3. Len(sound) > 0 => picked # {}
    <3>1. Len(sound) \in Nat  BY <1>13 DEF From, IsSeq
    <3>2. Len(sound) > 0 => 1 \in 1 .. Len(sound)  BY <3>1
    <3>3. Len(sound) > 0 => Has(sound, sound[1])  BY <3>2 DEF Has
    <3>4. QED  BY <1>5, <3>3
  <2>4. QED  BY <1>4, <1>13, <1>20, <2>1, <2>2, <2>3
<1>21. QED  BY <1>19, <1>20

(* A height bound is kept if any stream can, gives the nearest one if none *)
(* can, and never loses the picture; without -sa the picture is not left   *)
(* silent (pick.go Select, nearest).                                       *)
THEOREM SelectedAsAsked == Spec => []SelectionKept
<1>1. Init => ChosenInv
  <2>1. Init => HlsInv
    <3>1. Init => phase = "load" /\ kind = "" /\ at = 1  BY DEF Init
    <3>2. QED  BY <3>1, KindStarts DEF HlsInv
  <2>2. Init => phase = "load"  BY DEF Init
  <2>3. QED  BY <2>1, <2>2 DEF ChosenInv
<1>2. Spec => []ChosenInv  BY <1>1, ChosenStep, OpenInvariance, PTL DEF Spec
<1>3. ChosenInv => SelectionKept
  <2>1. SUFFICES ASSUME ChosenInv, phase = "expand", at = 1
                 PROVE  /\ BoundsHonored(tracks, input.ve, chosen)
                        /\ input.ae = <<>> => SoundKept(tracks, OfType(chosen, "video"), chosen)
    BY DEF SelectionKept
  <2> DEFINE sorted == Sort(tracks)
             films == OfType(sorted, "video")
             videos == Apply(input.ve, films)
  <2>2. AreTracks(tracks) /\ chosen = Select(sorted, videos, input.ae, input.se)
    BY <2>1 DEF ChosenInv, Picked
  <2>3. /\ IsExpr(input.ve) /\ (input.ae # <<>> => IsExpr(input.ae[1]))
        /\ (input.se # <<>> => IsExpr(input.se[1]))
    BY <2>1, InputIs DEF ChosenInv, HlsInv
  <2>4. AreTracks(sorted)
    <3>1. SortOf(tracks, sorted)  BY <2>2, Sorted
    <3> HIDE DEF sorted
    <3>2. From(sorted, tracks)  BY <3>1 DEF SortOf, From
    <3>3. QED  BY <2>2, <3>2, FromTracks
  <2>5. AreTracks(films)  BY <2>2, SortedVideos
  <2>6. From(videos, films)  BY <2>3, <2>5, PoolFrom
  <2>7. /\ \A st : st \in OfKind(chosen, "video") <=> Has(videos, st)
        /\ \A st : st \in OfKind(chosen, "audio") <=> Has(AudioOf(sorted, videos, input.ae), st)
        /\ OfType(chosen, "video") = videos
    <3> DEFINE all == Select(sorted, videos, input.ae, input.se)
    <3> HIDE DEF sorted, videos
    <3>1. /\ \A st : st \in OfKind(all, "video") <=> Has(videos, st)
          /\ \A st : st \in OfKind(all, "audio") <=> Has(AudioOf(sorted, videos, input.ae), st)
          /\ OfType(all, "video") = videos
      BY <2>3, <2>4, <2>6, ChosenHas
    <3> HIDE DEF all
    <3>2. chosen = all  BY <2>2 DEF all
    <3>3. QED  BY <3>1, <3>2
  <2>8. BoundsHonored(tracks, input.ve, chosen)  BY <2>2, <2>3, <2>7, BoundsKept
  <2>9. input.ae = <<>> => SoundKept(tracks, OfType(chosen, "video"), chosen)
    <3> HIDE DEF sorted, videos
    <3>1. ASSUME input.ae = <<>> PROVE SoundKept(tracks, videos, chosen)
      <4>1. \A st : st \in OfKind(chosen, "audio") <=> Has(AudioOf(Sort(tracks), videos, <<>>), st)
        BY <2>7, <3>1 DEF sorted
      <4>2. QED  BY <2>2, <4>1, SoundIsKept
    <3>2. QED  BY <2>7, <3>1
  <2>10. QED  BY <2>8, <2>9
<1>4. QED  BY <1>2, <1>3, PTL

--------------------------------------------------------------------------------
(* The bytes: how a file is cut.                                         *)

(* The lesser of two numbers.                                            *)
LEMMA Smallest ==
  ASSUME NEW a \in Int, NEW b \in Int
  PROVE  Min({a, b}) = IF a <= b THEN a ELSE b
BY DEF Min

(* A function on 1 .. n is a sequence of n.                              *)
LEMMA Sequenced ==
  ASSUME NEW n \in Nat, NEW s, s = [i \in 1 .. n |-> s[i]]
  PROVE  IsSeq(s) /\ Len(s) = n /\ DOMAIN s = 1 .. n
<1> DEFINE S == {s[i] : i \in 1 .. n}
<1>1. \A i \in 1 .. n : s[i] \in S  OBVIOUS
<1> HIDE DEF S
<1>2. s \in [1 .. n -> S]  BY <1>1
<1>3. s \in Seq(S) /\ Len(s) = n  BY <1>2 DEF Seq
<1>4. QED  BY <1>2, <1>3, SeqIs

(* plan cuts size bytes into n pieces of c, of which the last may be less. *)
CutInto(plan, size, c, n) ==
  /\ c \in Nat \ {0} /\ n \in Nat \ {0} /\ plan = [i \in 1 .. n |-> plan[i]]
  /\ \A i \in 1 .. n : /\ plan[i].first = (i - 1) * c /\ plan[i].first <= plan[i].last
                       /\ plan[i].last = IF i = n THEN size - 1 ELSE i * c - 1

(* A file is cut into at most so many chunks, each where the last ended. *)
LEMMA PlanTiles ==
  ASSUME NEW size \in Nat, size > 0
  PROVE  \E c, n : n <= FileMaxChunks /\ CutInto(PlanChunks(size), size, c, n)
<1> DEFINE c == ChunkSize(size)
           n == CeilDiv(size, c)
           plan == PlanChunks(size)
<1>1. FileChunk \in Nat /\ FileChunk > 0 /\ FileMaxChunks \in Nat /\ FileMaxChunks > 0  BY LayoutAssumption
<1>2. c \in Nat /\ c > 0
  <2>1. CeilDiv(size, FileMaxChunks) \in Nat /\ CeilDiv(size, FileMaxChunks) >= 1  BY <1>1, CeilDivCovers
  <2>2. QED  BY <1>1, <2>1 DEF ChunkSize
<1>3. CeilDiv(size, FileChunk) > FileMaxChunks => c * FileMaxChunks >= size
  BY <1>1, CeilDivCovers DEF ChunkSize
<1>4. CeilDiv(size, FileChunk) \in Nat  BY <1>1, CeilDivCovers
<1>5. CeilDiv(size, FileChunk) <= FileMaxChunks => n <= FileMaxChunks
  <2>1. CeilDiv(size, FileChunk) <= FileMaxChunks => ~(CeilDiv(size, FileChunk) > FileMaxChunks)
    BY <1>1, <1>4
  <2>2. QED  BY <2>1 DEF ChunkSize
<1>6. plan = [i \in 1 .. n |-> Bytes((i - 1) * c, Min({i * c, size}) - 1)]  BY DEF PlanChunks
<1> HIDE DEF c, plan
<1>7. n \in Nat /\ n >= 1 /\ n * c >= size /\ (n - 1) * c < size  BY <1>2, CeilDivCovers
<1> HIDE DEF n
<1>8. n <= FileMaxChunks
  <2>1. CASE CeilDiv(size, FileChunk) > FileMaxChunks
    <3>1. ASSUME n - 1 >= FileMaxChunks PROVE FALSE
      <4>1. (n - 1) * c >= FileMaxChunks * c  BY <1>1, <1>2, <1>7, <3>1
      <4>2. FileMaxChunks * c = c * FileMaxChunks /\ c * FileMaxChunks \in Int /\ (n - 1) * c \in Int
        BY <1>1, <1>2, <1>7
      <4>3. QED  BY <1>3, <1>7, <2>1, <4>1, <4>2
    <3>2. QED  BY <1>1, <1>7, <3>1
  <2>2. QED  BY <1>1, <1>4, <1>5, <2>1
<1>9. ASSUME NEW i \in 1 .. n
      PROVE  /\ plan[i].first = (i - 1) * c /\ plan[i].first <= plan[i].last
             /\ plan[i].last = IF i = n THEN size - 1 ELSE i * c - 1
  <2> DEFINE a == (i - 1) * c
             b == i * c
  <2>1. a \in Int /\ b \in Int /\ b = a + c  BY <1>2, <1>7
  <2>2. plan[i].first = a /\ plan[i].last = Min({b, size}) - 1  BY <1>6 DEF Bytes
  <2>3. a <= (n - 1) * c /\ (n - 1) * c \in Int  BY <1>2, <1>7
  <2>4. i # n => b <= (n - 1) * c
    <3>1. i # n => i <= n - 1  BY <1>7
    <3>2. QED  BY <1>2, <1>7, <3>1
  <2>5. i = n => b >= size  BY <1>7
  <2> HIDE DEF a, b
  <2>6. Min({b, size}) = IF i = n THEN size ELSE b
    <3>1. Min({b, size}) = IF b <= size THEN b ELSE size  BY <2>1, Smallest
    <3>2. QED  BY <1>7, <2>1, <2>3, <2>4, <2>5, <3>1
  <2>7. plan[i].last = IF i = n THEN size - 1 ELSE b - 1  BY <2>2, <2>6
  <2>8. a <= plan[i].last  BY <1>2, <1>7, <2>1, <2>3, <2>7
  <2>9. QED  BY <2>2, <2>7, <2>8 DEF a, b
<1>10. plan = [i \in 1 .. n |-> plan[i]]  BY <1>6
<1>11. CutInto(plan, size, c, n)  BY <1>2, <1>7, <1>9, <1>10 DEF CutInto
<1>12. QED  BY <1>8, <1>11 DEF plan

(* A direct file is tiled by the segments of its stream.                 *)
LEMMA FileIsTiled ==
  ASSUME NEW url, NEW size \in Int, NEW probe
  PROVE  FileTiled(FileMaster(url, size, probe), size)
<1> DEFINE st == FileMaster(url, size, probe)
           cut == size > FileChunk /\ RangesHonored(probe, size)
           chunks == IF cut THEN PlanChunks(size) ELSE <<>>
           whole == [BlankSegment EXCEPT !.url = url]
           numbered(i) == [whole EXCEPT !.range = chunks[i], !.seq = i - 1]
<1>1. st.segs = IF Len(chunks) < 2 THEN <<whole>> ELSE [i \in DOMAIN chunks |-> numbered(i)]
  BY DEF FileMaster, BlankStream
<1>2. Len(<<whole>>) = 1  OBVIOUS
<1> HIDE DEF st, numbered
<1> SUFFICES ASSUME Len(st.segs) > 1
             PROVE  /\ Tiles([i \in DOMAIN st.segs |-> st.segs[i].range], 0, size - 1)
                    /\ Len(st.segs) <= FileMaxChunks /\ FileSize(st) = size
  BY DEF FileTiled, st
<1>3. ~(Len(chunks) < 2) /\ st.segs = [i \in DOMAIN chunks |-> numbered(i)]  BY <1>1, <1>2
<1>4. Len(<<>>) = 0  OBVIOUS
<1>5. chunks = PlanChunks(size) /\ size \in Nat /\ size > 0  BY <1>3, <1>4, LayoutAssumption
<1> HIDE DEF chunks
<1>16. \E c, n : n <= FileMaxChunks /\ CutInto(chunks, size, c, n)  BY <1>5, PlanTiles
<1>17. PICK c, n : n <= FileMaxChunks /\ CutInto(chunks, size, c, n)  BY <1>16
<1>6. /\ c \in Nat \ {0} /\ n \in Nat \ {0} /\ n <= FileMaxChunks /\ chunks = [i \in 1 .. n |-> chunks[i]]
      /\ \A i \in 1 .. n : /\ chunks[i].first = (i - 1) * c /\ chunks[i].first <= chunks[i].last
                           /\ chunks[i].last = IF i = n THEN size - 1 ELSE i * c - 1
  BY <1>17 DEF CutInto
<1>7. st.segs = [i \in 1 .. n |-> numbered(i)]  BY <1>3, <1>6
<1>8. \A i \in 1 .. n : numbered(i).range = chunks[i]  BY DEF numbered, BlankSegment
<1>9. IsSeq(st.segs) /\ Len(st.segs) = n /\ \A i \in 1 .. n : st.segs[i].range = chunks[i]
  <2>1. st.segs = [i \in 1 .. n |-> st.segs[i]] /\ \A i \in 1 .. n : st.segs[i] = numbered(i)  BY <1>7
  <2>2. IsSeq(st.segs) /\ Len(st.segs) = n  BY <1>6, <2>1, Sequenced
  <2>3. QED  BY <1>8, <2>1, <2>2
<1> DEFINE ranges == [i \in DOMAIN st.segs |-> st.segs[i].range]
<1>10. DOMAIN st.segs = 1 .. n  BY <1>7
<1>11. ranges = [i \in 1 .. n |-> chunks[i]]  BY <1>9, <1>10
<1>12. \E S : ranges \in Seq(S) /\ Len(ranges) = n
  <2>1. ranges = [i \in 1 .. n |-> ranges[i]]  BY <1>11
  <2> HIDE DEF ranges
  <2>2. IsSeq(ranges) /\ Len(ranges) = n  BY <1>6, <2>1, Sequenced
  <2>3. QED  BY <2>2, InSeq
<1>13. \A i \in 1 .. n : ranges[i] = chunks[i]  BY <1>11
<1> HIDE DEF ranges
<1>14. Tiles(ranges, 0, size - 1)
  <2>1. ranges # <<>> /\ Head(ranges) = chunks[1] /\ Last(ranges) = chunks[n]
    <3>1. ranges # <<>>  BY <1>6, <1>12, <1>4
    <3>2. 1 \in 1 .. n /\ n \in 1 .. n  BY <1>6
    <3>3. QED  BY <1>12, <1>13, <3>1, <3>2 DEF Last
  <2>2. chunks[1].first = 0 /\ chunks[n].last = size - 1
    <3>1. 1 \in 1 .. n /\ n \in 1 .. n /\ (1 - 1) * c = 0  BY <1>6
    <3>2. QED  BY <1>6, <3>1
  <2>3. DOMAIN ranges = 1 .. n  BY <1>12
  <2>4. ASSUME NEW i \in 2 .. n PROVE ranges[i].first = ranges[i - 1].last + 1
    <3>1. i \in 1 .. n /\ i - 1 \in 1 .. n /\ i - 1 # n  BY <1>6
    <3>2. ranges[i].first = (i - 1) * c /\ ranges[i - 1].last = (i - 1) * c - 1  BY <1>6, <1>13, <3>1
    <3>3. (i - 1) * c \in Int  BY <1>6
    <3>4. QED  BY <3>2, <3>3
  <2>5. QED  BY <1>6, <1>12, <1>13, <2>1, <2>2, <2>3, <2>4 DEF Tiles
<1>15. FileSize(st) = size
  <2>1. st.segs # <<>> /\ Last(st.segs) = st.segs[n]
    <3>1. st.segs # <<>>  BY <1>9, <1>4
    <3>2. QED  BY <1>9 DEF Last
  <2>2. Last(st.segs).range.last = size - 1
    <3>1. n \in 1 .. n  BY <1>6
    <3>2. QED  BY <1>6, <1>9, <2>1, <3>1
  <2>3. Last(st.segs).range # NoRange
    <3>1. size - 1 # None  BY <1>5 DEF None
    <3>2. NoRange.last = None  BY DEF NoRange, Bytes
    <3>3. QED  BY <2>2, <3>1, <3>2
  <2>4. QED  BY <1>5, <2>1, <2>2, <2>3 DEF FileSize
<1>18. QED  BY <1>6, <1>9, <1>14, <1>15 DEF ranges

--------------------------------------------------------------------------------
(* The bytes: how an index is expanded.                                  *)

(* Two sequences joined.                                                 *)
LEMMA Concatenated ==
  ASSUME NEW t, IsSeq(t), NEW u, IsSeq(u)
  PROVE  /\ IsSeq(t \o u) /\ Len(t \o u) = Len(t) + Len(u)
         /\ \A k \in 1 .. Len(t) : (t \o u)[k] = t[k]
         /\ \A k \in 1 .. Len(u) : (t \o u)[Len(t) + k] = u[k]
<1>1. PICK S : t \in Seq(S)  BY InSeq
<1>2. PICK R : u \in Seq(R)  BY InSeq
<1> DEFINE V == S \cup R
<1>3. S \subseteq V /\ R \subseteq V  OBVIOUS
<1> HIDE DEF V
<1>4. t \in Seq(V) /\ u \in Seq(V) /\ Len(t) \in Nat /\ Len(u) \in Nat  BY <1>1, <1>2, <1>3 DEF IsSeq
<1>5. /\ t \o u \in Seq(V) /\ Len(t \o u) = Len(t) + Len(u)
      /\ \A i \in 1 .. Len(t) + Len(u) : (t \o u)[i] = IF i <= Len(t) THEN t[i] ELSE u[i - Len(t)]
  BY <1>4, ConcatProperties
<1>6. ASSUME NEW k \in 1 .. Len(t) PROVE (t \o u)[k] = t[k]
  <2>1. k \in 1 .. Len(t) + Len(u) /\ k <= Len(t)  BY <1>4
  <2>2. QED  BY <1>5, <2>1
<1>7. ASSUME NEW k \in 1 .. Len(u) PROVE (t \o u)[Len(t) + k] = u[k]
  <2>1. Len(t) + k \in 1 .. Len(t) + Len(u) /\ ~(Len(t) + k <= Len(t)) /\ Len(t) + k - Len(t) = k  BY <1>4
  <2>2. QED  BY <1>5, <2>1
<1>8. QED  BY <1>5, <1>6, <1>7, SeqIs

(* The bytes of the references are a sum.                                *)
LEMMA RefBytesIs ==
  ASSUME NEW refs, IsList(refs), \A i \in DOMAIN refs : refs[i].size \in Nat
  PROVE  /\ RefBytes(refs)[0] = 0 /\ \A i \in 0 .. Len(refs) : RefBytes(refs)[i] \in Nat
         /\ \A i \in 1 .. Len(refs) : RefBytes(refs)[i] = RefBytes(refs)[i - 1] + refs[i].size
<1> DEFINE n == Len(refs)
           step == [i \in 1 .. n |-> [x \in Nat |-> x + refs[i].size]]
           D(f) == [i \in 0 .. n |-> IF i = 0 THEN 0 ELSE f[i - 1] + refs[i].size]
           b == CHOOSE f : f = D(f)
<1>1. n \in Nat /\ \A i \in 1 .. n : refs[i].size \in Nat  BY DEF IsList
<1>2. RefBytes(refs) = b  BY DEF RefBytes
<1> HIDE DEF n
<1>3. step \in [1 .. n -> [Nat -> Nat]]  BY <1>1
<1>4. PICK f : Recurs(n, Nat, 0, step, f)
  <2> HIDE DEF step
  <2>1. QED  BY <1>1, <1>3, Recursion
<1>5. ASSUME NEW i \in 1 .. n PROVE f[i] = f[i - 1] + refs[i].size
  <2>1. i - 1 \in 0 .. n  BY <1>1
  <2>2. f[i - 1] \in Nat /\ f[i] = step[i][f[i - 1]]  BY <1>4, <2>1 DEF Recurs
  <2>3. QED  BY <2>2
<1> HIDE DEF step
<1>6. f = D(f)
  <2>1. f = [i \in 0 .. n |-> f[i]] /\ f[0] = 0  BY <1>4 DEF Recurs
  <2>2. ASSUME NEW i \in 0 .. n PROVE f[i] = D(f)[i]
    <3>1. CASE i = 0  BY <2>1, <3>1
    <3>2. CASE i # 0
      <4>1. i \in 1 .. n  BY <1>1, <3>2
      <4>2. QED  BY <1>5, <3>2, <4>1
    <3>3. QED  BY <3>1, <3>2
  <2>3. QED  BY <2>1, <2>2
<1>7. b = D(b)  BY <1>6
<1> HIDE DEF b
<1>8. b[0] = 0 /\ \A i \in 1 .. n : b[i] = b[i - 1] + refs[i].size
  <2>1. 0 \in 0 .. n /\ \A i \in 1 .. n : i \in 0 .. n /\ i # 0  BY <1>1
  <2>2. QED  BY <1>7, <2>1
<1> DEFINE T == {i \in 0 .. n : b[i] \in Nat}
<1>9. 0 \in T  BY <1>1, <1>8
<1>10. ASSUME NEW k \in 0 .. n - 1, k \in T PROVE k + 1 \in T
  <2>1. k + 1 \in 1 .. n /\ (k + 1) - 1 = k /\ k + 1 \in 0 .. n  BY <1>1
  <2>2. QED  BY <1>1, <1>8, <1>10, <2>1
<1> HIDE DEF T
<1>11. 0 .. n \subseteq T  BY <1>1, <1>9, <1>10, UpTo
<1>12. \A i \in 0 .. n : b[i] \in Nat  BY <1>11 DEF T
<1>13. QED  BY <1>2, <1>8, <1>12 DEF n

(* A segment as the parsers make it, and one of an index.                  *)
IsSegment(seg) == DOMAIN seg = DOMAIN BlankSegment /\ seg.index.first \in Int
ArePieces(segs, url) ==
  /\ IsSeq(segs)
  /\ \A k \in 1 .. Len(segs) : /\ DOMAIN segs[k] = DOMAIN BlankSegment
                               /\ segs[k].index = NoRange /\ segs[k].url = url
Subsegment(seg, answer, i) ==
  LET first == seg.index.first + answer.end + answer.offset
      upTo  == RefBytes(answer.refs)
  IN Bytes(first + upTo[i - 1], first + upTo[i] - 1)

(* An index gives a segment for each reference.                          *)
LEMMA IndexedAre ==
  ASSUME NEW seg, IsSegment(seg), NEW answer, IsSidx(answer)
  PROVE  LET segs == IndexedSegments(seg, answer)
         IN /\ ArePieces(segs, seg.url) /\ Len(segs) = Len(answer.refs)
            /\ \A k \in 1 .. Len(segs) : segs[k].range = Subsegment(seg, answer, k)
<1> DEFINE segs == IndexedSegments(seg, answer)
           dur(i) == answer.refs[i].dur
           disc(i) == seg.disc /\ i = 1
           range(i) == Subsegment(seg, answer, i)
           cut(i) == [seg EXCEPT !.range = range(i), !.index = NoRange, !.dur = dur(i), !.disc = disc(i)]
           n == Len(answer.refs)
<1>1. segs = [i \in DOMAIN answer.refs |-> cut(i)]  BY DEF IndexedSegments, Subsegment
<1>2. n \in Nat /\ DOMAIN answer.refs = 1 .. n  BY DEF IsSidx, IsList
<1>3. {"url", "range", "index"} \subseteq DOMAIN seg  BY DEF IsSegment, BlankSegment
<1> HIDE DEF segs, dur, disc, range, n
<1>4. \A i : DOMAIN cut(i) = DOMAIN seg /\ cut(i).url = seg.url /\ cut(i).index = NoRange /\ cut(i).range = range(i)
  BY <1>3
<1> HIDE DEF cut
<1>5. segs = [i \in 1 .. n |-> segs[i]] /\ \A i \in 1 .. n : segs[i] = cut(i)  BY <1>1, <1>2
<1>6. IsSeq(segs) /\ Len(segs) = n  BY <1>2, <1>5, Sequenced
<1>7. QED  BY <1>4, <1>5, <1>6 DEF ArePieces, IsSegment, segs, n, range

(* A list of segments as the parsers make them.                            *)
IsPlan(segs) == IsSeq(segs) /\ \A k \in 1 .. Len(segs) : IsSegment(segs[k])

(* What one segment becomes has its URL, and no index.                   *)
LEMMA ExpandedAre ==
  ASSUME NEW st, IsPlan(st.segs), NEW index, \A u \in DOMAIN index : IsSidx(index[u]), NEW i \in 1 .. Len(st.segs)
  PROVE  ArePieces(Expanded(st, i, index), st.segs[i].url)
<1> DEFINE seg == st.segs[i]
           bare == [seg EXCEPT !.index = NoRange]
           e == Expanded(st, i, index)
<1>1. IsSegment(seg)  BY DEF IsPlan
<1>2. \/ e = <<>> \/ (seg.index = NoRange /\ e = <<seg>>) \/ e = <<bare>>
      \/ (seg.url \in DOMAIN index /\ e = IndexedSegments(seg, index[seg.url]))
  BY DEF Expanded, ExpandedEach, Usable
<1> HIDE DEF seg, e
<1>3. ASSUME NEW s, DOMAIN s = DOMAIN BlankSegment, s.index = NoRange, s.url = seg.url
      PROVE  ArePieces(<<s>>, seg.url)
  <2> DEFINE t == <<s>>
  <2>1. t \in Seq({s}) /\ Len(t) = 1 /\ t[1] = s  OBVIOUS
  <2>2. IsSeq(t)  BY <2>1, SeqIs
  <2> HIDE DEF t
  <2>3. \A k \in 1 .. 1 : k = 1  OBVIOUS
  <2>4. QED  BY <1>3, <2>1, <2>2, <2>3 DEF ArePieces, t
<1>4. CASE e = <<>>
  <2>1. <<>> \in Seq({}) /\ Len(<<>>) = 0  OBVIOUS
  <2>2. IsSeq(<<>>)  BY <2>1, SeqIs
  <2>3. \A k \in 1 .. 0 : FALSE  OBVIOUS
  <2>4. QED  BY <1>4, <2>1, <2>2, <2>3 DEF ArePieces, seg, e
<1>5. CASE seg.index = NoRange /\ e = <<seg>>  BY <1>1, <1>3, <1>5 DEF IsSegment, seg, e
<1>6. CASE e = <<bare>>
  <2>1. {"url", "index"} \subseteq DOMAIN seg  BY <1>1 DEF IsSegment, BlankSegment
  <2>2. DOMAIN bare = DOMAIN seg /\ bare.index = NoRange /\ bare.url = seg.url  BY <2>1
  <2> HIDE DEF bare
  <2>3. QED  BY <1>1, <1>3, <1>6, <2>2 DEF IsSegment, seg, e
<1>7. CASE seg.url \in DOMAIN index /\ e = IndexedSegments(seg, index[seg.url])
  <2>1. IsSidx(index[seg.url])  BY <1>7
  <2>2. QED  BY <1>1, <1>7, <2>1, IndexedAre DEF seg, e
<1>8. QED  BY <1>2, <1>4, <1>5, <1>6, <1>7

(* Lists joined one after another make a list.                           *)
LEMMA JoinsWalk ==
  ASSUME NEW n \in Nat, NEW e, \A i \in 1 .. n : IsSeq(e[i])
  PROVE  \E f : /\ f = [i \in 0 .. n |-> IF i = 0 THEN <<>> ELSE f[i - 1] \o e[i]]
                /\ \A i \in 0 .. n : IsSeq(f[i])
<1> DEFINE X == UNION {{e[i][k] : k \in 1 .. Len(e[i])} : i \in 1 .. n}
           S == Seq(X)
           step == [i \in 1 .. n |-> [x \in S |-> x \o e[i]]]
<1>1. ASSUME NEW i \in 1 .. n PROVE e[i] \in S
  <2>1. Len(e[i]) \in Nat /\ e[i] = [k \in 1 .. Len(e[i]) |-> e[i][k]]  BY DEF IsSeq
  <2>2. \A k \in 1 .. Len(e[i]) : e[i][k] \in X  OBVIOUS
  <2> HIDE DEF X
  <2> DEFINE t == e[i]
             l == Len(t)
  <2>3. l \in Nat /\ t = [k \in 1 .. l |-> t[k]] /\ \A k \in 1 .. l : t[k] \in X  BY <2>1, <2>2
  <2> HIDE DEF t, l
  <2>4. t \in [1 .. l -> X]  BY <2>3
  <2>5. t \in Seq(X)  BY <2>3, <2>4 DEF Seq
  <2>6. QED  BY <2>5 DEF t
<1>2. <<>> \in S  OBVIOUS
<1> HIDE DEF X
<1>3. \A x \in S, i \in 1 .. n : x \o e[i] \in S  BY <1>1
<1> HIDE DEF S
<1>4. step \in [1 .. n -> [S -> S]]  BY <1>3
<1>5. PICK f : Recurs(n, S, <<>>, step, f)
  <2> HIDE DEF step
  <2>1. QED  BY <1>2, <1>4, Recursion
<1>6. f \in [0 .. n -> S] /\ f[0] = <<>> /\ \A i \in 1 .. n : f[i] = step[i][f[i - 1]]  BY <1>5 DEF Recurs
<1>7. ASSUME NEW i \in 1 .. n PROVE f[i] = f[i - 1] \o e[i]
  <2>1. i - 1 \in 0 .. n  OBVIOUS
  <2>2. f[i - 1] \in S /\ f[i] = step[i][f[i - 1]]  BY <1>6, <2>1
  <2>3. QED  BY <2>2
<1> HIDE DEF step
<1>8. ASSUME NEW i \in 0 .. n PROVE f[i] = IF i = 0 THEN <<>> ELSE f[i - 1] \o e[i]
  <2>1. CASE i = 0  BY <1>6, <2>1
  <2>2. CASE i # 0
    <3>1. i \in 1 .. n  BY <2>2
    <3>2. QED  BY <1>7, <2>2, <3>1
  <2>3. QED  BY <2>1, <2>2
<1>9. f = [i \in 0 .. n |-> f[i]]  BY <1>6
<1>10. f = [i \in 0 .. n |-> IF i = 0 THEN <<>> ELSE f[i - 1] \o e[i]]  BY <1>8, <1>9
<1>11. \A i \in 0 .. n : IsSeq(f[i])
  <2>1. \A i \in 0 .. n : f[i] \in Seq(X)  BY <1>6 DEF S
  <2>2. QED  BY <2>1, SeqIs
<1>12. QED  BY <1>10, <1>11

(* f joins what the first segments of st expand to.                        *)
Expands(st, index, f) ==
  /\ f[0] = <<>> /\ \A i \in 0 .. Len(st.segs) : IsSeq(f[i])
  /\ \A i \in 1 .. Len(st.segs) : f[i] = f[i - 1] \o Expanded(st, i, index)

(* An expanded stream holds what each of its segments expands to, in       *)
(* order, numbered.                                                        *)
LEMMA ExpandWalks ==
  ASSUME NEW st, IsPlan(st.segs), NEW index, \A u \in DOMAIN index : IsSidx(index[u]),
         ~(\A i \in DOMAIN st.segs : st.segs[i].index = NoRange)
  PROVE  \E f : /\ Expands(st, index, f)
                /\ LET all == f[Len(st.segs)]
                   IN ExpandIndexed(st, index) =
                        [st EXCEPT !.segs = [k \in DOMAIN all |-> [all[k] EXCEPT !.seq = k - 1]]]
<1> DEFINE n == Len(st.segs)
           e == [i \in 1 .. n |-> Expanded(st, i, index)]
           D(f) == [i \in 0 .. n |-> IF i = 0 THEN <<>> ELSE f[i - 1] \o Expanded(st, i, index)]
           upTo == CHOOSE f : f = D(f)
           all == upTo[n]
<1>1. n \in Nat  BY DEF IsPlan, IsSeq
<1>2. \A i \in 1 .. n : IsSeq(e[i])  BY ExpandedAre DEF ArePieces
<1>3. ExpandIndexed(st, index) = [st EXCEPT !.segs = [k \in DOMAIN all |-> [all[k] EXCEPT !.seq = k - 1]]]
  BY DEF ExpandIndexed
<1> HIDE DEF n
<1>4. \A i \in 1 .. n : e[i] = Expanded(st, i, index)  OBVIOUS
<1> HIDE DEF e
<1>5. PICK f : /\ f = [i \in 0 .. n |-> IF i = 0 THEN <<>> ELSE f[i - 1] \o e[i]]
               /\ \A i \in 0 .. n : IsSeq(f[i])
  BY <1>1, <1>2, JoinsWalk
<1>6. f = D(f)
  <2>1. ASSUME NEW i \in 0 .. n PROVE (IF i = 0 THEN <<>> ELSE f[i - 1] \o e[i]) = D(f)[i]
    <3>1. i # 0 => i \in 1 .. n  BY <1>1
    <3>2. QED  BY <1>4, <3>1
  <2>2. QED  BY <1>5, <2>1
<1>7. upTo = D(upTo)  BY <1>6
<1>8. \A g : D(g)[0] = <<>> /\ \A i \in 1 .. n : D(g)[i] = g[i - 1] \o Expanded(st, i, index)
  <2>1. 0 \in 0 .. n /\ \A i \in 1 .. n : i \in 0 .. n /\ i # 0  BY <1>1
  <2>2. QED  BY <2>1
<1> HIDE DEF upTo, D
<1>9. upTo[0] = <<>> /\ \A i \in 1 .. n : upTo[i] = upTo[i - 1] \o Expanded(st, i, index)  BY <1>7, <1>8
<1>10. \A i \in 0 .. n : IsSeq(upTo[i])
  <2> DEFINE T == {i \in 0 .. n : IsSeq(upTo[i])}
  <2>1. 0 \in T
    <3>1. <<>> \in Seq({})  OBVIOUS
    <3>2. IsSeq(<<>>)  BY <3>1, SeqIs
    <3>3. QED  BY <1>1, <1>9, <3>2
  <2>2. ASSUME NEW k \in 0 .. n - 1, k \in T PROVE k + 1 \in T
    <3>1. k + 1 \in 1 .. n /\ (k + 1) - 1 = k /\ k + 1 \in 0 .. n  BY <1>1
    <3>2. IsSeq(Expanded(st, k + 1, index))  BY <1>2, <1>4, <3>1
    <3>3. upTo[k + 1] = upTo[k] \o Expanded(st, k + 1, index)  BY <1>9, <3>1
    <3>4. IsSeq(upTo[k] \o Expanded(st, k + 1, index))  BY <2>2, <3>2, Concatenated
    <3>5. QED  BY <3>1, <3>3, <3>4
  <2> HIDE DEF T
  <2>3. 0 .. n \subseteq T  BY <1>1, <2>1, <2>2, UpTo
  <2>4. QED  BY <2>3 DEF T
<1>11. Expands(st, index, upTo)  BY <1>9, <1>10 DEF Expands, n
<1>12. QED  BY <1>3, <1>11 DEF n

(* The segments with url are those at a + 1 .. a + l, with such ranges.    *)
Filled(segs, url, a, seg, answer) ==
  LET l == Len(answer.refs)
  IN /\ a \in Nat /\ a + l <= Len(segs)
     /\ \A k \in 1 .. Len(segs) : segs[k].url = url <=> k \in a + 1 .. a + l
     /\ \A j \in 1 .. l : segs[a + j].range = Subsegment(seg, answer, j)
Bare(segs) ==
  IsSeq(segs) /\ \A k \in 1 .. Len(segs) : DOMAIN segs[k] = DOMAIN BlankSegment /\ segs[k].index = NoRange

(* The place of a segment in two lists joined.                           *)
LEMMA JoinedAt ==
  ASSUME NEW s, IsSeq(s), NEW e, IsSeq(e), NEW k \in 1 .. Len(s \o e)
  PROVE  \/ k \in 1 .. Len(s) /\ (s \o e)[k] = s[k]
         \/ k \notin 1 .. Len(s) /\ k - Len(s) \in 1 .. Len(e) /\ (s \o e)[k] = e[k - Len(s)]
<1>1. Len(s) \in Nat /\ Len(e) \in Nat /\ Len(s \o e) = Len(s) + Len(e)  BY Concatenated DEF IsSeq
<1>2. CASE k \in 1 .. Len(s)  BY <1>2, Concatenated
<1>3. CASE k \notin 1 .. Len(s)
  <2> DEFINE j == k - Len(s)
  <2>1. j \in 1 .. Len(e) /\ k = Len(s) + j  BY <1>1, <1>3
  <2> HIDE DEF j
  <2>2. (s \o e)[k] = e[j]  BY <2>1, Concatenated
  <2>3. QED  BY <1>3, <2>1, <2>2 DEF j
<1>4. QED  BY <1>2, <1>3

(* Segments without index stay so when joined.                           *)
LEMMA BareJoined ==
  ASSUME NEW s, Bare(s), NEW e, NEW url, ArePieces(e, url) PROVE Bare(s \o e)
<1>1. IsSeq(s \o e)  BY Concatenated DEF Bare, ArePieces
<1>2. \A k \in 1 .. Len(s \o e) : DOMAIN (s \o e)[k] = DOMAIN BlankSegment /\ (s \o e)[k].index = NoRange
  BY JoinedAt DEF Bare, ArePieces
<1>3. QED  BY <1>1, <1>2 DEF Bare

(* What another file adds leaves a file as it is.                        *)
LEMMA OtherJoined ==
  ASSUME NEW s, IsSeq(s), NEW e, NEW other, ArePieces(e, other), NEW url, url # other,
         NEW a, NEW seg, NEW answer, IsSidx(answer), Filled(s, url, a, seg, answer)
  PROVE  Filled(s \o e, url, a, seg, answer)
<1> DEFINE l == Len(answer.refs)
<1>1. IsSeq(e) /\ \A k \in 1 .. Len(e) : e[k].url = other  BY DEF ArePieces
<1>2. l \in Nat /\ a \in Nat /\ a + l <= Len(s) /\ Len(s) \in Nat /\ Len(e) \in Nat /\ Len(s \o e) = Len(s) + Len(e)
  BY <1>1, Concatenated DEF IsSidx, IsList, Filled, IsSeq
<1>3. ASSUME NEW k \in 1 .. Len(s \o e) PROVE (s \o e)[k].url = url <=> k \in a + 1 .. a + l
  <2>1. CASE k \in 1 .. Len(s) /\ (s \o e)[k] = s[k]  BY <2>1 DEF Filled
  <2>2. CASE k \notin 1 .. Len(s) /\ k - Len(s) \in 1 .. Len(e) /\ (s \o e)[k] = e[k - Len(s)]
    <3>1. (s \o e)[k].url = other  BY <1>1, <2>2
    <3>2. k \notin a + 1 .. a + l  BY <1>2, <2>2
    <3>3. QED  BY <3>1, <3>2
  <2>3. QED  BY <1>1, <2>1, <2>2, JoinedAt
<1>4. ASSUME NEW j \in 1 .. l PROVE (s \o e)[a + j].range = Subsegment(seg, answer, j)
  <2>1. a + j \in 1 .. Len(s)  BY <1>2
  <2>2. (s \o e)[a + j] = s[a + j]  BY <1>1, <2>1, Concatenated
  <2>3. QED  BY <2>2 DEF Filled
<1>5. a + l <= Len(s \o e)  BY <1>2
<1>6. QED  BY <1>2, <1>3, <1>4, <1>5 DEF Filled

(* The first segment of a file fills in its subsegments.                 *)
LEMMA FirstJoined ==
  ASSUME NEW s, IsSeq(s), NEW url, \A k \in 1 .. Len(s) : s[k].url # url, NEW seg, NEW answer, IsSidx(answer),
         NEW e, ArePieces(e, url), Len(e) = Len(answer.refs),
         \A k \in 1 .. Len(e) : e[k].range = Subsegment(seg, answer, k)
  PROVE  Filled(s \o e, url, Len(s), seg, answer)
<1> DEFINE l == Len(e)
           a == Len(s)
<1>1. IsSeq(e) /\ \A k \in 1 .. l : e[k].url = url  BY DEF ArePieces
<1>2. a \in Nat /\ l \in Nat /\ Len(s \o e) = a + l  BY <1>1, Concatenated DEF IsSeq
<1>3. ASSUME NEW k \in 1 .. Len(s \o e) PROVE (s \o e)[k].url = url <=> k \in a + 1 .. a + l
  <2>1. CASE k \in 1 .. a /\ (s \o e)[k] = s[k]
    <3>1. k \notin a + 1 .. a + l  BY <1>2, <2>1
    <3>2. QED  BY <2>1, <3>1
  <2>2. CASE k \notin 1 .. a /\ k - a \in 1 .. l /\ (s \o e)[k] = e[k - a]
    <3>1. k \in a + 1 .. a + l  BY <1>2, <2>2
    <3>2. QED  BY <1>1, <2>2, <3>1
  <2>3. QED  BY <1>1, <2>1, <2>2, JoinedAt
<1>4. \A j \in 1 .. l : (s \o e)[a + j].range = Subsegment(seg, answer, j)  BY <1>1, Concatenated
<1>5. QED  BY <1>2, <1>3, <1>4 DEF Filled

(* After m segments of st: its file i is in the list once, if its first    *)
(* segment was seen.                                                       *)
ExpandInv(st, index, i, m, segs) ==
  LET url  == st.segs[i].url
      seen == \E j \in 1 .. m : st.segs[j].url = url
  IN IF seen THEN \E a : Filled(segs, url, a, st.segs[i], index[url])
     ELSE \A k \in 1 .. Len(segs) : segs[k].url # url

(* One segment more keeps that.                                          *)
LEMMA ExpandOn ==
  ASSUME NEW st, IsPlan(st.segs), NEW index, \A u \in DOMAIN index : IsSidx(index[u]),
         NEW i \in 1 .. Len(st.segs), st.segs[i].index # NoRange, OneIndex(st, i), Usable(index, st.segs[i].url),
         NEW m \in 1 .. Len(st.segs), NEW segs, IsSeq(segs), ExpandInv(st, index, i, m - 1, segs)
  PROVE  ExpandInv(st, index, i, m, segs \o Expanded(st, m, index))
<1> DEFINE url == st.segs[i].url
           seg == st.segs[m]
           e == Expanded(st, m, index)
           answer == index[url]
<1>1. ArePieces(e, seg.url) /\ IsSidx(answer)  BY ExpandedAre DEF Usable
<1>2. \A j \in 1 .. Len(st.segs) : st.segs[j].url = url => st.segs[j].index = st.segs[i].index
  <2>1. DOMAIN st.segs = 1 .. Len(st.segs)  BY FromIs DEF IsPlan
  <2>2. QED  BY <2>1 DEF OneIndex
<1>3. m \in Nat /\ m - 1 + 1 = m /\ Len(st.segs) \in Nat /\ \A j \in 1 .. m : j \in 1 .. m - 1 \/ j = m
  BY DEF IsPlan, IsSeq
<1>4. m \in 1 .. m /\ \A j \in 1 .. m - 1 : j \in 1 .. m /\ j \in 1 .. Len(st.segs)  BY <1>3
<1> HIDE DEF e
<1>5. CASE seg.url # url
  <2>1. CASE \E j \in 1 .. m - 1 : st.segs[j].url = url
    <3>1. PICK a : Filled(segs, url, a, st.segs[i], answer)  BY <2>1 DEF ExpandInv
    <3>2. Filled(segs \o e, url, a, st.segs[i], answer)  BY <1>1, <1>5, <3>1, OtherJoined
    <3>3. QED  BY <1>4, <2>1, <3>2 DEF ExpandInv, e
  <2>2. CASE \A j \in 1 .. m - 1 : st.segs[j].url # url
    <3>1. \A k \in 1 .. Len(segs) : segs[k].url # url  BY <2>2 DEF ExpandInv
    <3>2. IsSeq(e) /\ \A k \in 1 .. Len(e) : e[k].url # url  BY <1>1, <1>5 DEF ArePieces
    <3>3. \A k \in 1 .. Len(segs \o e) : (segs \o e)[k].url # url  BY <3>1, <3>2, JoinedAt
    <3>4. \A j \in 1 .. m : st.segs[j].url # url  BY <1>3, <1>5, <2>2
    <3>5. QED  BY <3>3, <3>4 DEF ExpandInv, e
  <2>3. QED  BY <2>1, <2>2
<1>6. CASE seg.url = url
  <2>1. seg.index = st.segs[i].index  BY <1>2, <1>6
  <2>2. CASE \E j \in 1 .. m - 1 : st.segs[j].url = url
    <3>1. \E j \in 1 .. m - 1 : st.segs[j].index = seg.index /\ st.segs[j].url = seg.url
      BY <1>2, <1>4, <1>6, <2>1, <2>2
    <3>2. e = <<>>  BY <2>1, <3>1 DEF Expanded, e
    <3>3. segs \o e = segs
      <4>1. \E S : segs \in Seq(S)  BY InSeq
      <4>2. QED  BY <3>2, <4>1, ConcatEmptySeq
    <3>4. \E a : Filled(segs, url, a, st.segs[i], answer)  BY <2>2 DEF ExpandInv
    <3>5. QED  BY <1>4, <2>2, <3>3, <3>4 DEF ExpandInv, e
  <2>3. CASE \A j \in 1 .. m - 1 : st.segs[j].url # url
    <3>1. \A k \in 1 .. Len(segs) : segs[k].url # url  BY <2>3 DEF ExpandInv
    <3>2. e = IndexedSegments(seg, answer)
      BY <1>6, <2>1, <2>3 DEF Expanded, ExpandedEach, e
    <3>3. IsSegment(seg)  BY DEF IsPlan
    <3>4. Len(e) = Len(answer.refs) /\ \A k \in 1 .. Len(e) : e[k].range = Subsegment(seg, answer, k)
      BY <1>1, <3>2, <3>3, IndexedAre
    <3>5. \A k : Subsegment(seg, answer, k) = Subsegment(st.segs[i], answer, k)  BY <2>1 DEF Subsegment
    <3>6. Filled(segs \o e, url, Len(segs), st.segs[i], answer)
      BY <1>1, <1>6, <3>1, <3>4, <3>5, FirstJoined
    <3>7. QED  BY <1>4, <1>6, <3>6 DEF ExpandInv, e
  <2>4. QED  BY <2>2, <2>3
<1>7. QED  BY <1>5, <1>6

(* What is picked at the places of an interval is what is there.         *)
LEMMA IntervalPicked ==
  ASSUME NEW s, NEW a \in Nat, NEW l \in Nat
  PROVE  LET t == Those(s, a + 1 .. a + l)
         IN Len(t) = l /\ DOMAIN t = 1 .. l /\ \A j \in 1 .. l : t[j] = s[a + j]
<1> DEFINE I == a + 1 .. a + l
           t == Those(s, I)
<1>1. I \in SUBSET (1 .. a + l) /\ a + l \in Nat  OBVIOUS
<1>2. PickedFrom(s, I, t)  BY <1>1, ThosePicked
<1>3. Cardinality(I) = l
  <2>1. a + 1 \in Int /\ a + l \in Int  OBVIOUS
  <2>2. Cardinality(I) = IF a + 1 > a + l THEN 0 ELSE a + l - (a + 1) + 1  BY <2>1, FS_Interval
  <2>3. QED  BY <2>2
<1>4. ASSUME NEW j \in 1 .. l PROVE a + j \in I /\ Upto(I, a + j) = j
  <2>1. {q \in I : q <= a + j} = a + 1 .. a + j  OBVIOUS
  <2>2. a + 1 \in Int /\ a + j \in Int  OBVIOUS
  <2>3. Cardinality(a + 1 .. a + j) = IF a + 1 > a + j THEN 0 ELSE a + j - (a + 1) + 1  BY <2>2, FS_Interval
  <2>4. Upto(I, a + j) = Cardinality(a + 1 .. a + j)  BY <2>1 DEF Upto
  <2>5. (IF a + 1 > a + j THEN 0 ELSE a + j - (a + 1) + 1) = j  OBVIOUS
  <2>6. QED  BY <2>3, <2>4, <2>5
<1> HIDE DEF I, t
<1>5. \A j \in 1 .. l : t[j] = s[a + j]
  <2>1. \A i \in I : t[Upto(I, i)] = s[i]  BY <1>2 DEF PickedFrom
  <2>2. QED  BY <1>4, <2>1
<1>6. QED  BY <1>2, <1>3, <1>5 DEF PickedFrom, I, t

(* A file that was filled in is tiled.                                   *)
LEMMA FilledTiles ==
  ASSUME NEW seg, IsSegment(seg), NEW answer, IsSidx(answer), answer.refs # <<>>,
         \A r \in DOMAIN answer.refs : answer.refs[r].size > 0,
         NEW mine, Len(mine) = Len(answer.refs), DOMAIN mine = 1 .. Len(mine),
         \A j \in 1 .. Len(mine) : mine[j].range = Subsegment(seg, answer, j)
  PROVE  LET bytes == RefBytes(answer.refs)[Len(answer.refs)]
             first == seg.index.first + answer.end + answer.offset
         IN Tiles([k \in DOMAIN mine |-> mine[k].range], first, first + bytes - 1)
<1> DEFINE l == Len(mine)
           b == RefBytes(answer.refs)
           first == seg.index.first + answer.end + answer.offset
           range(j) == Subsegment(seg, answer, j)
           ranges == [k \in DOMAIN mine |-> mine[k].range]
<1>1. /\ l \in Nat /\ first \in Int /\ DOMAIN answer.refs = 1 .. l
      /\ \A j \in 1 .. l : answer.refs[j].size \in Nat /\ answer.refs[j].size > 0
  BY DEF IsSidx, IsList, IsSegment
<1>2. b[0] = 0 /\ (\A i \in 0 .. l : b[i] \in Nat) /\ \A i \in 1 .. l : b[i] = b[i - 1] + answer.refs[i].size
  BY RefBytesIs DEF IsSidx
<1>3. \A j : range(j).first = first + b[j - 1] /\ range(j).last = first + b[j] - 1  BY DEF Subsegment, Bytes
<1>4. l > 0
  <2>1. ASSUME l = 0 PROVE FALSE
    <3>1. Len(answer.refs) = 0 /\ DOMAIN answer.refs = {}  BY <1>1, <2>1
    <3>2. QED  BY <3>1 DEF IsSidx
  <2>2. QED  BY <1>1, <2>1
<1>5. ranges = [k \in 1 .. l |-> range(k)]  OBVIOUS
<1> HIDE DEF range, b, first, l, ranges
<1>6. ranges = [k \in 1 .. l |-> ranges[k]] /\ \A k \in 1 .. l : ranges[k] = range(k)  BY <1>5
<1>7. IsSeq(ranges) /\ Len(ranges) = l /\ DOMAIN ranges = 1 .. l  BY <1>1, <1>6, Sequenced
<1>8. 1 \in 1 .. l /\ l \in 1 .. l /\ 1 - 1 = 0  BY <1>1, <1>4
<1>9. ranges # <<>> /\ Head(ranges) = ranges[1] /\ Last(ranges) = ranges[l]
  <2>1. Len(<<>>) = 0  OBVIOUS
  <2>2. \E S : ranges \in Seq(S)  BY <1>7, InSeq
  <2>3. QED  BY <1>4, <1>7, <2>1, <2>2 DEF Last
<1>10. Head(ranges).first = first /\ Last(ranges).last = first + b[l] - 1
  <2>1. first + 0 = first  BY <1>1
  <2>2. ranges[1].first = first + b[0] /\ ranges[l].last = first + b[l] - 1  BY <1>3, <1>6, <1>8
  <2>3. QED  BY <1>2, <1>9, <2>1, <2>2
<1>11. ASSUME NEW i \in 1 .. l PROVE ranges[i].first <= ranges[i].last
  <2>1. b[i] = b[i - 1] + answer.refs[i].size /\ b[i] \in Nat /\ b[i - 1] \in Nat
    <3>1. i \in 0 .. l /\ i - 1 \in 0 .. l  BY <1>1
    <3>2. QED  BY <1>2, <3>1
  <2>2. ranges[i].first = first + b[i - 1] /\ ranges[i].last = first + b[i] - 1  BY <1>3, <1>6
  <2>3. answer.refs[i].size \in Nat /\ answer.refs[i].size > 0  BY <1>1
  <2>4. QED  BY <1>1, <2>1, <2>2, <2>3
<1>12. ASSUME NEW i \in 2 .. l PROVE ranges[i].first = ranges[i - 1].last + 1
  <2>1. i \in 1 .. l /\ i - 1 \in 1 .. l /\ i - 1 \in 0 .. l  BY <1>1
  <2>2. ranges[i].first = first + b[i - 1] /\ ranges[i - 1].last = first + b[i - 1] - 1
    BY <1>3, <1>6, <2>1
  <2>3. b[i - 1] \in Nat  BY <1>2, <2>1
  <2>4. QED  BY <1>1, <2>2, <2>3
<1>13. Tiles(ranges, first, first + b[l] - 1)  BY <1>7, <1>9, <1>10, <1>11, <1>12 DEF Tiles
<1>14. QED  BY <1>13 DEF ranges, b, first, l

(* An expanded stream is tiled by what its indexes name.                 *)
LEMMA ExpandedTiles ==
  ASSUME NEW st, "segs" \in DOMAIN st, IsPlan(st.segs), NEW index, \A u \in DOMAIN index : IsSidx(index[u])
  PROVE  IndexTiled(st, ExpandIndexed(st, index), index)
<1> DEFINE n == Len(st.segs)
           new == ExpandIndexed(st, index)
<1>1. n \in Nat /\ DOMAIN st.segs = 1 .. n  BY FromIs DEF IsPlan, IsSeq
<1>2. CASE \A i \in DOMAIN st.segs : st.segs[i].index = NoRange
  <2>1. new = st  BY <1>2 DEF ExpandIndexed
  <2>2. QED  BY <1>2, <2>1 DEF IndexTiled
<1>3. CASE ~(\A i \in DOMAIN st.segs : st.segs[i].index = NoRange)
  <2>1. PICK f : /\ Expands(st, index, f)
                 /\ LET all == f[Len(st.segs)]
                    IN ExpandIndexed(st, index) =
                         [st EXCEPT !.segs = [k \in DOMAIN all |-> [all[k] EXCEPT !.seq = k - 1]]]
    BY <1>3, ExpandWalks
  <2> DEFINE all == f[n]
             l == Len(all)
             put(k) == [all[k] EXCEPT !.seq = k - 1]
  <2>2. \A m \in 1 .. n : f[m] = f[m - 1] \o Expanded(st, m, index) /\ IsSeq(f[m - 1])
    <3>1. \A m \in 1 .. n : m - 1 \in 0 .. n  BY <1>1
    <3>2. QED  BY <2>1, <3>1 DEF Expands
  <2>3. Bare(all)
    <3> DEFINE T == {m \in 0 .. n : Bare(f[m])}
    <3>1. 0 \in T
      <4>1. <<>> \in Seq({}) /\ Len(<<>>) = 0  OBVIOUS
      <4>2. IsSeq(<<>>)  BY <4>1, SeqIs
      <4>3. \A k \in 1 .. 0 : FALSE  OBVIOUS
      <4>4. Bare(<<>>)  BY <4>1, <4>2, <4>3 DEF Bare
      <4>5. QED  BY <1>1, <2>1, <4>4 DEF Expands
    <3>2. ASSUME NEW k \in 0 .. n - 1, k \in T PROVE k + 1 \in T
      <4>1. k + 1 \in 1 .. n /\ (k + 1) - 1 = k /\ k + 1 \in 0 .. n  BY <1>1
      <4>2. ArePieces(Expanded(st, k + 1, index), st.segs[k + 1].url)  BY <4>1, ExpandedAre
      <4>3. f[k + 1] = f[k] \o Expanded(st, k + 1, index)  BY <2>2, <4>1
      <4>4. Bare(f[k + 1])  BY <3>2, <4>2, <4>3, BareJoined
      <4>5. QED  BY <4>1, <4>4
    <3> HIDE DEF T
    <3>3. 0 .. n \subseteq T  BY <1>1, <3>1, <3>2, UpTo
    <3>4. n \in 0 .. n  BY <1>1
    <3>5. QED  BY <3>3, <3>4 DEF T
  <2>4. new.segs = [k \in DOMAIN all |-> put(k)]  BY <2>1
  <2>5. l \in Nat /\ DOMAIN all = 1 .. l  BY <2>3, FromIs DEF Bare, IsSeq
  <2>6. \A k \in 1 .. l : {"url", "index", "range", "seq"} \subseteq DOMAIN all[k] /\ all[k].index = NoRange
    BY <2>3 DEF Bare, BlankSegment
  <2>7. \A k \in 1 .. l : put(k).seq = k - 1 /\ put(k).index = NoRange /\ put(k).url = all[k].url /\ put(k).range = all[k].range
    BY <2>6
  <2> HIDE DEF put, all, l, new
  <2>8. DOMAIN new.segs = 1 .. l
        /\ \A k \in 1 .. l : /\ new.segs[k].seq = k - 1 /\ new.segs[k].index = NoRange
                             /\ new.segs[k].url = all[k].url /\ new.segs[k].range = all[k].range
    BY <2>4, <2>5, <2>7
  <2>9. ASSUME NEW i \in DOMAIN st.segs, st.segs[i].index # NoRange, OneIndex(st, i), Usable(index, st.segs[i].url),
               \A r \in DOMAIN index[st.segs[i].url].refs : index[st.segs[i].url].refs[r].size > 0
        PROVE  LET seg    == st.segs[i]
                   mine   == Those(new.segs, {k \in DOMAIN new.segs : new.segs[k].url = seg.url})
                   answer == index[seg.url]
                   bytes  == RefBytes(answer.refs)[Len(answer.refs)]
                   first  == seg.index.first + answer.end + answer.offset
               IN Tiles([k \in DOMAIN mine |-> mine[k].range], first, first + bytes - 1)
    <3> DEFINE seg == st.segs[i]
               answer == index[seg.url]
               r == Len(answer.refs)
               I == {k \in DOMAIN new.segs : new.segs[k].url = seg.url}
               mine == Those(new.segs, I)
    <3>1. i \in 1 .. n /\ IsSegment(seg) /\ IsSidx(answer) /\ answer.refs # <<>>  BY <1>1, <2>9 DEF Usable, IsPlan
    <3>2. ExpandInv(st, index, i, n, all)
      <4> DEFINE T == {m \in 0 .. n : ExpandInv(st, index, i, m, f[m])}
      <4>1. 0 \in T
        <5>1. \A j \in 1 .. 0 : FALSE  OBVIOUS
        <5>2. f[0] = <<>> /\ Len(<<>>) = 0  BY <2>1 DEF Expands
        <5>3. ExpandInv(st, index, i, 0, f[0])  BY <5>1, <5>2 DEF ExpandInv
        <5>4. QED  BY <1>1, <5>3
      <4>2. ASSUME NEW k \in 0 .. n - 1, k \in T PROVE k + 1 \in T
        <5>1. k + 1 \in 1 .. n /\ (k + 1) - 1 = k /\ k + 1 \in 0 .. n  BY <1>1
        <5>2. f[k + 1] = f[k] \o Expanded(st, k + 1, index) /\ IsSeq(f[k])  BY <2>2, <5>1
        <5>3. ExpandInv(st, index, i, (k + 1) - 1, f[k])  BY <4>2, <5>1
        <5>4. ExpandInv(st, index, i, k + 1, f[k] \o Expanded(st, k + 1, index))
          BY <2>9, <3>1, <5>1, <5>2, <5>3, ExpandOn
        <5>5. QED  BY <5>1, <5>2, <5>4
      <4> HIDE DEF T
      <4>3. 0 .. n \subseteq T  BY <1>1, <4>1, <4>2, UpTo
      <4>4. n \in 0 .. n  BY <1>1
      <4>5. QED  BY <4>3, <4>4 DEF T, all
    <3>3. PICK a : Filled(all, seg.url, a, seg, answer)  BY <3>1, <3>2 DEF ExpandInv
    <3> HIDE DEF seg, answer
    <3>4. a \in Nat /\ r \in Nat /\ a + r <= l  BY <3>1, <3>3 DEF Filled, IsSidx, IsList, l
    <3>5. I = a + 1 .. a + r
      <4>1. \A k \in 1 .. l : all[k].url = seg.url <=> k \in a + 1 .. a + r  BY <3>3 DEF Filled, l
      <4>2. a + 1 .. a + r \subseteq 1 .. l  BY <2>5, <3>4
      <4>3. QED  BY <2>8, <4>1, <4>2
    <3> HIDE DEF I, r
    <3>6. Len(mine) = r /\ DOMAIN mine = 1 .. r /\ \A j \in 1 .. r : mine[j] = new.segs[a + j]
      BY <3>4, <3>5, IntervalPicked
    <3> USE DEF r
    <3> HIDE DEF mine
    <3>7. \A j \in 1 .. r : mine[j].range = Subsegment(seg, answer, j)
      <4>1. \A j \in 1 .. r : a + j \in 1 .. l  BY <2>5, <3>4
      <4>2. QED  BY <2>8, <3>3, <3>6, <4>1 DEF Filled
    <3>8. \A k \in DOMAIN answer.refs : answer.refs[k].size > 0  BY <2>9 DEF answer, seg
    <3>9. Tiles([k \in DOMAIN mine |-> mine[k].range], seg.index.first + answer.end + answer.offset,
                seg.index.first + answer.end + answer.offset + RefBytes(answer.refs)[Len(answer.refs)] - 1)
      BY <3>1, <3>6, <3>7, <3>8, FilledTiles
    <3>10. QED  BY <3>9 DEF mine, I, answer, seg
  <2>10. QED  BY <2>8, <2>9 DEF IndexTiled, new
<1>4. QED  BY <1>2, <1>3

--------------------------------------------------------------------------------
(* DASH: the segments of a representation, and their keys.               *)

(* The place of a representation, and what an MPD gives it.                *)
IsSource(c) ==
  /\ IsContext(c) /\ IsList(c.rep.list.files) /\ IsList(c.set.list.files)
  /\ c.rep.base.index.first \in Int

(* An MPD gives each of its places a context.                            *)
LEMMA ContextIs ==
  ASSUME NEW doc, IsMPD(doc), NEW x \in Places(doc) PROVE IsSource(Context(doc, x))
<1> DEFINE c == Context(doc, x)
<1>1. PICK p \in DOMAIN doc.periods : \E a \in DOMAIN doc.periods[p].sets :
         \E r \in DOMAIN doc.periods[p].sets[a].reps : x = Place(p, a, r)
  BY PlaceIs
<1>2. PICK a \in DOMAIN doc.periods[p].sets : \E r \in DOMAIN doc.periods[p].sets[a].reps : x = Place(p, a, r)
  BY <1>1
<1>3. PICK r \in DOMAIN doc.periods[p].sets[a].reps : x = Place(p, a, r)  BY <1>2
<1>4. /\ c.live = doc.live /\ c.window = doc.window /\ c.elapsed = doc.elapsed
      /\ c.dur = Lasts(doc, p) /\ c.start = Begins(doc, p) /\ c.timescale = doc.timescale
      /\ c.set = doc.periods[p].sets[a] /\ c.rep = doc.periods[p].sets[a].reps[r]
  BY <1>3 DEF Context, Place
<1> HIDE DEF c
<1>5. c.start \in Nat  BY <1>4, BeginsAt
<1>6. Timed(c) /\ c.timescale \in Nat \ {0}
  <2>1. Lasts(doc, p) \in Durations  BY DEF IsMPD, Lasts
  <2>2. c.rep.float \in Roundings /\ doc.timescale \in Nat \ {0}  BY <1>4 DEF IsMPD, IsSet
  <2>3. QED  BY <1>4, <2>1, <2>2 DEF Timed
<1>7. /\ IsTemplate(c.rep.template) /\ IsTemplate(c.set.template) /\ IsList(c.rep.list.files)
      /\ IsList(c.set.list.files) /\ c.rep.base.index.first \in Int
  BY <1>4 DEF IsMPD, IsSet
<1>8. c.live \in BOOLEAN /\ c.window \in Nat /\ c.elapsed \in Int  BY <1>4 DEF IsMPD
<1>9. QED  BY <1>5, <1>6, <1>7, <1>8 DEF IsContext, IsSource, c

(* A plan without keys.                                                    *)
IsPlain(seg) == IsSegment(seg) /\ seg.key = NoKey
ArePlain(segs) == IsSeq(segs) /\ \A k \in 1 .. Len(segs) : IsPlain(segs[k])

(* A function of plain segments is a list of them.                       *)
LEMMA PlainOnes ==
  ASSUME NEW n \in Nat, NEW s, s = [i \in 1 .. n |-> s[i]], \A i \in 1 .. n : IsPlain(s[i])
  PROVE  ArePlain(s)
<1>1. IsSeq(s) /\ Len(s) = n  BY Sequenced
<1>2. QED  BY <1>1 DEF ArePlain

(* One segment, or none, is a plan.                                      *)
LEMMA PlainFew ==
  /\ ArePlain(<<>>)
  /\ \A seg : IsPlain(seg) => ArePlain(<<seg>>)
<1>1. ArePlain(<<>>)
  <2>1. <<>> \in Seq({}) /\ Len(<<>>) = 0  OBVIOUS
  <2>2. IsSeq(<<>>)  BY <2>1, SeqIs
  <2>3. \A k \in 1 .. 0 : FALSE  OBVIOUS
  <2>4. QED  BY <2>1, <2>2, <2>3 DEF ArePlain
<1>2. ASSUME NEW seg, IsPlain(seg) PROVE ArePlain(<<seg>>)
  <2> DEFINE t == <<seg>>
  <2>1. t \in Seq({seg}) /\ Len(t) = 1 /\ t[1] = seg  OBVIOUS
  <2>2. IsSeq(t)  BY <2>1, SeqIs
  <2> HIDE DEF t
  <2>3. \A k \in 1 .. 1 : k = 1  OBVIOUS
  <2>4. QED  BY <1>2, <2>1, <2>2, <2>3 DEF ArePlain, t
<1>3. QED  BY <1>1, <1>2

(* The blank segment is plain.                                           *)
LEMMA BlankIs ==
  /\ IsPlain(BlankSegment)
  /\ {"url", "dur", "range", "key", "init", "seq", "disc", "index"} \subseteq DOMAIN BlankSegment
<1>1. BlankSegment.key = NoKey /\ BlankSegment.index = NoRange  BY DEF BlankSegment
<1>2. NoRange.first \in Int  BY DEF NoRange, Bytes, None
<1>3. QED  BY <1>1, <1>2 DEF IsPlain, IsSegment, BlankSegment

(* A piece of a template is plain.                                       *)
LEMMA PiecesPlain ==
  ASSUME NEW c, NEW t, NEW p \in Pieces(c, t) PROVE IsPlain(p)
<1>1. PICK x \in [num : Int, time : Int, d : Int] : p = Piece(c, t, x.num, x.time, x.d)  BY DEF Pieces
<1> DEFINE url == [path |-> c.base \o <<t.media, c.rep.id>>, num |-> x.num, time |-> x.time]
           d == x.d
           num == x.num
<1>2. p = [BlankSegment EXCEPT !.url = url, !.dur = d, !.seq = num]  BY <1>1 DEF Piece
<1> HIDE DEF url, d, num
<1> DEFINE blank == BlankSegment
<1>3. IsPlain(blank)  BY BlankIs
<1> HIDE DEF blank
<1>4. p = [blank EXCEPT !.url = url, !.dur = d, !.seq = num]  BY <1>2 DEF blank
<1>5. DOMAIN p = DOMAIN blank /\ p.key = blank.key /\ p.index = blank.index  BY <1>4
<1>6. QED  BY <1>3, <1>5 DEF IsPlain, IsSegment, blank

(* A template gives a plan.                                              *)
LEMMA TemplatePlain ==
  ASSUME NEW c, IsContext(c), NEW t, t = MergeTemplates(c.rep.template, c.set.template)
  PROVE  ArePlain(SegmentsFromTemplate(c, t).segs)
<1> DEFINE segs == SegmentsFromTemplate(c, t).segs
           start == FirstSet(None, <<t.start, 1>>)
<1>1. t.d \in Nat /\ t.start \in Nat \cup {None} /\ t.timeline \in Seq(RunSet)  BY Merged
<1>2. /\ c.live \in BOOLEAN /\ Timed(c) /\ c.window \in Nat /\ c.elapsed \in Int
      /\ c.start \in Nat /\ c.timescale \in Nat \ {0}
  BY DEF IsContext
<1>dur. c.dur \in Nat  BY <1>2, TimedIs
<1>3. start \in Int
  <2>1. start = IF t.start # None THEN t.start ELSE IF 1 # None THEN 1 ELSE None  BY FirstOfTwo
  <2>2. QED  BY <1>1, <2>1 DEF None
<1> HIDE DEF start
<1>4. ASSUME NEW first \in Int, NEW count \in Nat PROVE ArePlain(Numbers(c, t, first, count))
  <2> DEFINE s == Numbers(c, t, first, count)
  <2>1. s = [i \in 1 .. count |-> Piece(c, t, first + i - 1, (i - 1) * t.d, t.d)]  BY DEF Numbers
  <2> HIDE DEF s
  <2>2. s = [i \in 1 .. count |-> s[i]]  BY <2>1
  <2>3. ASSUME NEW i \in 1 .. count PROVE IsPlain(s[i])
    <3>1. first + i - 1 \in Int /\ (i - 1) * t.d \in Int /\ t.d \in Int  BY <1>1
    <3>2. Piece(c, t, first + i - 1, (i - 1) * t.d, t.d) \in Pieces(c, t)  BY <3>1, PieceIs
    <3>3. s[i] = Piece(c, t, first + i - 1, (i - 1) * t.d, t.d)  BY <2>1
    <3>4. QED  BY <3>2, <3>3, PiecesPlain
  <2>4. QED  BY <2>2, <2>3, PlainOnes DEF s
<1>5. CASE t.timeline # <<>>
  <2>1. segs = FromTimeline(c, t, start)  BY <1>5 DEF SegmentsFromTemplate, Listing, start
  <2>2. PICK f : Walks(c, t, start, f) /\ FromTimeline(c, t, start) = f[Len(t.timeline)].segs
    BY <1>1, <1>2, <1>3, FromTimelineWalks
  <2>3. Len(t.timeline) \in 0 .. Len(t.timeline)  BY <1>1
  <2>4. segs \in Seq(Pieces(c, t))  BY <2>1, <2>2, <2>3 DEF Walks, Lists
  <2> HIDE DEF segs
  <2>5. IsSeq(segs) /\ \A k \in 1 .. Len(segs) : segs[k] \in Pieces(c, t)  BY <2>4, SeqIs
  <2>6. QED  BY <2>5, PiecesPlain DEF ArePlain, segs
<1>6. CASE t.timeline = <<>> /\ (t.d = 0 \/ (~c.live /\ c.dur <= 0))
  <2>1. segs = <<>>  BY <1>6 DEF SegmentsFromTemplate, Failure
  <2>2. QED  BY <2>1, PlainFew
<1>7. CASE t.timeline = <<>> /\ ~(t.d = 0 \/ (~c.live /\ c.dur <= 0))
  <2>1. t.d > 0 /\ (~c.live => c.dur > 0)  BY <1>1, <1>2, <1>dur, <1>7
  <2>2. CASE c.live
    <3> DEFINE count == Covering(c, t, LiveWindow(c))
               edge == start + Behind(c, t)
    <3>1. LiveWindow(c) \in Nat /\ LiveWindow(c) > 0  BY <1>2 DEF LiveWindow
    <3>2. count \in Nat  BY <1>1, <1>2, <2>1, <3>1, CoveringIs
    <3>3. segs = Numbers(c, t, edge, count)
      BY <1>7, <2>2 DEF SegmentsFromTemplate, Listing, start
    <3>4. Behind(c, t) \in Int
      <4>1. Complete(c, t) \in Int  BY <1>1, <1>2, <2>1, CompleteIs
      <4>2. QED  BY <3>2, <4>1, Largest DEF Behind
    <3> HIDE DEF count
    <3>5. edge \in Int  BY <1>3, <3>4
    <3>6. QED  BY <1>4, <3>2, <3>3, <3>5
  <2>3. CASE ~c.live
    <3> DEFINE count == Covering(c, t, c.dur)
    <3>1. c.dur \in Nat /\ c.dur > 0  BY <1>dur, <2>1, <2>3
    <3>2. count \in Nat  BY <1>1, <1>2, <2>1, <3>1, CoveringIs
    <3>3. segs = Numbers(c, t, start, count)
      BY <1>7, <2>3 DEF SegmentsFromTemplate, Listing, start
    <3> HIDE DEF count
    <3>4. QED  BY <1>3, <1>4, <3>2, <3>3
  <2>4. QED  BY <2>2, <2>3
<1>8. QED  BY <1>5, <1>6, <1>7

(* So does a list of files.                                              *)
LEMMA ListPlain ==
  ASSUME NEW c, NEW l, IsList(l.files) PROVE ArePlain(SegmentsFromList(c, l).segs)
<1> DEFINE segs == SegmentsFromList(c, l).segs
           n == Len(l.files)
           blank == BlankSegment
           url(i) == URL(IF l.files[i].media = "" THEN c.base ELSE Append(c.base, l.files[i].media))
           d == l.d
           range(i) == l.files[i].range
           cut(i) == [blank EXCEPT !.url = url(i), !.dur = d, !.range = range(i), !.seq = i - 1]
<1>1. segs = [i \in DOMAIN l.files |-> cut(i)]  BY DEF SegmentsFromList, Listing
<1>2. n \in Nat /\ DOMAIN l.files = 1 .. n  BY DEF IsList
<1> HIDE DEF n, url, d, range
<1>3. IsPlain(blank)  BY BlankIs
<1> HIDE DEF blank, segs
<1>4. \A i : DOMAIN cut(i) = DOMAIN blank /\ cut(i).key = blank.key /\ cut(i).index = blank.index  OBVIOUS
<1> HIDE DEF cut
<1>5. segs = [i \in 1 .. n |-> segs[i]] /\ \A i \in 1 .. n : segs[i] = cut(i)  BY <1>1, <1>2
<1>6. \A i \in 1 .. n : IsPlain(segs[i])  BY <1>3, <1>4, <1>5 DEF IsPlain, IsSegment, blank
<1>7. QED  BY <1>2, <1>5, <1>6, PlainOnes DEF segs

(* And so does one file.                                                 *)
LEMMA BasePlain ==
  ASSUME NEW c, NEW b, b.index.first \in Int PROVE ArePlain(SegmentsFromBase(c, b).segs)
<1> DEFINE blank == BlankSegment
           url == URL(c.base)
           d == c.dur
           index == b.index
           range == Bytes(b.init.last + 1, None)
           whole == [blank EXCEPT !.url = url, !.dur = d, !.index = index]
           rest == [whole EXCEPT !.range = range]
<1>1. \/ SegmentsFromBase(c, b).segs = <<whole>>
      \/ SegmentsFromBase(c, b).segs = <<rest>>
  BY DEF SegmentsFromBase, Listing
<1>2. index.first \in Int  OBVIOUS
<1> HIDE DEF url, d, index, range
<1>3. IsPlain(blank) /\ "index" \in DOMAIN blank  BY BlankIs
<1> HIDE DEF blank
<1>4. DOMAIN whole = DOMAIN blank /\ whole.key = blank.key /\ whole.index = index  BY <1>3
<1> HIDE DEF whole
<1>5. DOMAIN rest = DOMAIN whole /\ rest.key = whole.key /\ rest.index = whole.index  OBVIOUS
<1> HIDE DEF rest
<1>6. IsPlain(whole) /\ IsPlain(rest)  BY <1>2, <1>3, <1>4, <1>5 DEF IsPlain, IsSegment, blank
<1>7. QED  BY <1>1, <1>6, PlainFew

(* A representation is listed without keys.                              *)
LEMMA BuiltPlain ==
  ASSUME NEW c, IsSource(c) PROVE ArePlain(BuildSegments(c).segs)
<1> DEFINE t == MergeTemplates(c.rep.template, c.set.template)
           l == FirstSet(NoList, <<c.rep.list, c.set.list>>)
<1>1. IsContext(c) /\ IsList(c.rep.list.files) /\ IsList(c.set.list.files) /\ c.rep.base.index.first \in Int
  BY DEF IsSource
<1>2. ArePlain(SegmentsFromTemplate(c, t).segs)  BY <1>1, TemplatePlain
<1>3. l # NoList => IsList(l.files)  BY <1>1, FirstOfTwo
<1> HIDE DEF t, l
<1>4. l # NoList => ArePlain(SegmentsFromList(c, l).segs)  BY <1>3, ListPlain
<1>5. ArePlain(SegmentsFromBase(c, c.rep.base).segs)  BY <1>1, BasePlain
<1>6. BuildSegments(c) = IF t # NoTemplate THEN SegmentsFromTemplate(c, t)
                         ELSE IF l # NoList THEN SegmentsFromList(c, l) ELSE SegmentsFromBase(c, c.rep.base)
  BY DEF BuildSegments, t, l
<1>7. QED  BY <1>2, <1>4, <1>5, <1>6

(* What is added of a representation: its segments, encrypted as the       *)
(* manifest says.                                                          *)
Coded(c) == FirstSet("", <<c.rep.codecs, c.set.codecs>>)
Protected(c) == Protect(c.rep, c.set, BuildSegments(c).segs)
SameUrls(segs, listed) ==
  Len(segs) = Len(listed) /\ \A k \in 1 .. Len(listed) : segs[k].url = listed[k].url
AllOfKey(segs, kid) == \A k \in 1 .. Len(segs) : segs[k].key.kid = kid

(* A representation without kids has the key that is unknown.              *)
LEMMA NoKids ==
  ASSUME NEW rep, NEW set, rep.kids \o set.kids = <<>> PROVE DefaultKID(rep, set) = "zero"
<1>1. DOMAIN <<>> = {}  OBVIOUS
<1>2. QED  BY <1>1 DEF DefaultKID, FirstSet

(* Protection leaves the URLs, and every segment with the one key id.    *)
LEMMA ProtectedAre ==
  ASSUME NEW c, IsSource(c)
  PROVE  /\ IsPlan(Protected(c)) /\ SameUrls(Protected(c), BuildSegments(c).segs)
         /\ AllOfKey(Protected(c), DefaultKID(c.rep, c.set))
<1> DEFINE listed == BuildSegments(c).segs
           n == Len(listed)
           kid == DefaultKID(c.rep, c.set)
           key == [NoKey EXCEPT !.method = "CENC", !.kid = kid]
           segs == Protected(c)
           put(i) == [listed[i] EXCEPT !.key = key]
<1>1. ArePlain(listed)  BY BuiltPlain
<1>2. segs = IF c.rep.kids \o c.set.kids = <<>> THEN listed ELSE [i \in DOMAIN listed |-> put(i)]
  BY DEF Protected, Protect
<1>3. c.rep.kids \o c.set.kids = <<>> => kid = NoKey.kid
  <2>1. NoKey.kid = "zero"  BY DEF NoKey
  <2>2. QED  BY <2>1, NoKids
<1>4. key.kid = kid  BY DEF NoKey
<1> HIDE DEF listed, kid, segs
<1>5. n \in Nat /\ DOMAIN listed = 1 .. n /\ \A k \in 1 .. n : IsPlain(listed[k])  BY <1>1, FromIs DEF ArePlain
<1> HIDE DEF n, key
<1>6. CASE c.rep.kids \o c.set.kids = <<>>
  <2>1. segs = listed  BY <1>2, <1>6
  <2>2. IsPlan(segs)  BY <1>1, <2>1 DEF IsPlan, ArePlain, IsPlain
  <2>3. AllOfKey(segs, kid)  BY <1>3, <1>5, <1>6, <2>1 DEF AllOfKey, IsPlain, n
  <2>4. QED  BY <2>1, <2>2, <2>3 DEF SameUrls, segs, kid, listed
<1>7. CASE c.rep.kids \o c.set.kids # <<>>
  <2>1. segs = [i \in 1 .. n |-> put(i)]  BY <1>2, <1>5, <1>7
  <2>2. \A i \in 1 .. n : {"key", "url", "index"} \subseteq DOMAIN listed[i]
    BY <1>5, BlankIs DEF IsPlain, IsSegment
  <2>3. \A i \in 1 .. n : /\ DOMAIN put(i) = DOMAIN listed[i] /\ put(i).key = key /\ put(i).url = listed[i].url
                          /\ put(i).index = listed[i].index
    BY <2>2
  <2> HIDE DEF put
  <2>4. segs = [i \in 1 .. n |-> segs[i]] /\ \A i \in 1 .. n : segs[i] = put(i)  BY <2>1
  <2>5. IsSeq(segs) /\ Len(segs) = n  BY <1>5, <2>4, Sequenced
  <2>6. IsPlan(segs)  BY <1>5, <2>3, <2>4, <2>5 DEF IsPlan, IsPlain, IsSegment
  <2>7. AllOfKey(segs, kid)  BY <1>4, <2>3, <2>4, <2>5 DEF AllOfKey
  <2>8. SameUrls(segs, listed)  BY <2>3, <2>4, <2>5 DEF SameUrls, n
  <2>9. QED  BY <2>6, <2>7, <2>8 DEF segs, kid, listed
<1>8. QED  BY <1>6, <1>7

--------------------------------------------------------------------------------
(* DASH: the track a representation is in, over the periods.             *)

(* The id a place gives a track, and how a track is added for it or        *)
(* another is continued.                                                   *)
TrackId(doc, x) == LET c == Context(doc, x) IN BuildStream(c.set, c.rep, x.a, x.r).id
IsOwn(doc, x, s, own) ==
  LET c == Context(doc, x)
  IN /\ own.segs = Protected(c) /\ own.codecs = Coded(c) /\ own.init = BuildSegments(c).init
     /\ own.id = IF \A j \in 1 .. Len(s) : s[j].id # TrackId(doc, x) THEN TrackId(doc, x)
                 ELSE OwnID(TrackId(doc, x), x.p)
Joins(doc, x, old, new) ==
  LET c    == Context(doc, x)
      segs == Protected(c)
  IN /\ segs # <<>> /\ new.id = old.id /\ new.codecs = old.codecs /\ new.init = old.init
     /\ new.segs = old.segs \o Continued(segs, Len(old.segs))
     /\ old.codecs = Coded(c) /\ old.init.url = BuildSegments(c).init.url
     /\ FirstSegKey(old.segs).kid = FirstSegKey(segs).kid
Added(doc, x, s, t) ==
  \/ \E own : Extended(s, own, t) /\ IsOwn(doc, x, s, own)
  \/ \E i \in 1 .. Len(s) : /\ IsSeq(t) /\ Len(t) = Len(s) /\ Joins(doc, x, s[i], t[i])
                            /\ \A j \in 1 .. Len(s) : j # i => t[j] = s[j]

(* A representation read without an error adds a track or continues one. *)
LEMMA AddedIs ==
  ASSUME NEW doc, IsMPD(doc), NEW x \in Places(doc), NEW acc, Tracked(acc), ~AddTrack(doc, acc, x).err
  PROVE  ~acc.err /\ Added(doc, x, acc.streams, AddTrack(doc, acc, x).streams)
<1> DEFINE c == Context(doc, x)
           built == BuildSegments(c)
           segs == Protected(c)
           st == BuildStream(c.set, c.rep, x.a, x.r)
           namesakes == {i \in DOMAIN acc.streams : acc.streams[i].id = st.id}
           id == IF namesakes = {} THEN st.id ELSE OwnID(st.id, x.p)
           live == doc.live
           url == URL(doc.urls)
           refresh == Refresh(doc)
           init == built.init
           full == TRUE
           own == [st EXCEPT !.id = id, !.live = live, !.url = url, !.refresh = refresh, !.init = init,
                             !.segs = segs, !.full = full]
           continues == {i \in namesakes :
                           segs # <<>> /\ MergeCompatible(acc.streams[i], st, built.init, FirstSegKey(segs))}
           the == CHOOSE i \in continues : TRUE
           new == AddTrack(doc, acc, x)
           failed == TRUE
           more == Append(acc.streams, own)
           added == acc.streams[the].segs \o Continued(segs, Len(acc.streams[the].segs))
           longer == [acc.streams EXCEPT ![the].segs = added]
           R(a, b) == [err |-> a, streams |-> b]
<1>1. new = IF acc.err \/ built.err THEN [acc EXCEPT !.err = failed]
            ELSE IF continues = {} THEN [acc EXCEPT !.streams = more]
            ELSE [acc EXCEPT !.streams[the].segs = added]
  BY DEF AddTrack, Protected
<1>2. /\ st.codecs = Coded(c) /\ st.id = TrackId(doc, x)
      /\ {"id", "segs", "codecs", "init"} \subseteq DOMAIN st
  BY DEF BuildStream, Coded, TrackId, BlankStream
<1>3. id = IF \A j \in DOMAIN acc.streams : acc.streams[j].id # TrackId(doc, x) THEN TrackId(doc, x)
           ELSE OwnID(TrackId(doc, x), x.p)
  BY <1>2
<1> HIDE DEF c, st, id, live, url, refresh, full, segs
<1>4. acc = R(acc.err, acc.streams) /\ IsSeq(acc.streams) /\ DOMAIN acc.streams = 1 .. Len(acc.streams)
  BY FromIs DEF AreTracks, Tracked
<1>5. IsOwn(doc, x, acc.streams, own)
  <2> HIDE DEF built, init
  <2>1. own.id = id /\ own.segs = segs /\ own.init = init /\ own.codecs = st.codecs  BY <1>2
  <2> HIDE DEF own
  <2>2. QED  BY <1>2, <1>3, <1>4, <2>1 DEF IsOwn, segs, init, built, c
<1>6. continues # {} =>
        /\ the \in 1 .. Len(acc.streams) /\ segs # <<>>
        /\ MergeCompatible(acc.streams[the], st, built.init, FirstSegKey(segs))
  <2>1. continues # {} => the \in continues  OBVIOUS
  <2> HIDE DEF the, built
  <2>2. QED  BY <1>4, <2>1
<1> HIDE DEF own, continues, the, failed, new, built
<1>7. failed = TRUE  BY DEF failed
<1>8. CASE acc.err \/ built.err
  <2>1. new = R(failed, acc.streams)  BY <1>1, <1>4, <1>8
  <2>2. QED  BY <1>7, <2>1 DEF new
<1>9. CASE ~(acc.err \/ built.err) /\ continues = {}
  <2>1. new = [acc EXCEPT !.streams = more]  BY <1>1, <1>9
  <2>2. Extended(acc.streams, own, more)  BY <1>4, Appended
  <2> HIDE DEF more
  <2>3. new = R(acc.err, more)  BY <1>4, <2>1
  <2>4. new.streams = more  BY <2>3
  <2>5. QED  BY <1>5, <1>9, <2>2, <2>4 DEF Added, new
<1>10. CASE ~(acc.err \/ built.err) /\ continues # {}
  <2> DEFINE old == acc.streams[the]
             e == [old EXCEPT !.segs = added]
  <2>1. longer = [acc.streams EXCEPT ![the] = e]  OBVIOUS
  <2>2. new = [acc EXCEPT !.streams = longer]  BY <1>1, <1>10
  <2>3. added = old.segs \o Continued(segs, Len(old.segs))  OBVIOUS
  <2>4. IsTrack(old)  BY <1>6, <1>10 DEF AreTracks, Tracked
  <2>5. MergeCompatible(old, st, built.init, FirstSegKey(segs)) /\ segs # <<>>  BY <1>6, <1>10
  <2> HIDE DEF added, longer
  <2>6. new.streams = longer
    <3>1. new = R(acc.err, longer)  BY <1>4, <2>2
    <3>2. QED  BY <3>1
  <2>7. IsSeq(longer) /\ Len(longer) = Len(acc.streams) /\ longer[the] = e
        /\ \A j \in 1 .. Len(acc.streams) : j # the => longer[j] = acc.streams[j]
    <3> HIDE DEF e
    <3>1. \A d : LET t == [acc.streams EXCEPT ![the] = d]
                 IN IsSeq(t) /\ Len(t) = Len(acc.streams) /\ t[the] = d
                    /\ \A j \in 1 .. Len(acc.streams) : j # the => t[j] = acc.streams[j]
      BY <1>4, <1>6, <1>10, Replaced
    <3>2. QED  BY <2>1, <3>1
  <2> HIDE DEF old
  <2>8. e.id = old.id /\ e.codecs = old.codecs /\ e.init = old.init /\ e.segs = added
    <3>1. "segs" \in DOMAIN old  BY <2>4 DEF IsTrack, BlankStream
    <3>2. QED  BY <3>1
  <2> HIDE DEF e
  <2>9. Joins(doc, x, old, e)
    <3>1. /\ old.codecs = st.codecs /\ old.init.url = built.init.url
          /\ FirstSegKey(old.segs).kid = FirstSegKey(segs).kid
      BY <2>5 DEF MergeCompatible
    <3>2. QED  BY <1>2, <2>3, <2>5, <2>8, <3>1 DEF Joins, segs, built, c
  <2>10. Added(doc, x, acc.streams, longer)
    <3>1. Joins(doc, x, acc.streams[the], longer[the])  BY <2>7, <2>9 DEF old
    <3>2. QED  BY <1>6, <1>10, <2>7, <3>1 DEF Added
  <2>11. QED  BY <1>10, <2>6, <2>10 DEF new
<1>11. QED  BY <1>8, <1>9, <1>10

(* The ids of two places are apart, and a place's own is not another's.  *)
LEMMA IdsApart ==
  ASSUME NEW doc, IsMPD(doc), NEW x \in Places(doc), NEW y \in Places(doc)
  PROVE  /\ TrackId(doc, y) # OwnID(TrackId(doc, x), x.p)
         /\ OwnID(TrackId(doc, y), y.p) = OwnID(TrackId(doc, x), x.p) => x = y
<1> DEFINE name(z) == FirstSet("", <<Context(doc, z).rep.id, "r">>)
<1>1. \A z : TrackId(doc, z) = <<name(z), z.a, z.r>>
  BY DEF TrackId, BuildStream, BlankStream
<1>2. x = Place(x.p, x.a, x.r) /\ y = Place(y.p, y.a, y.r)  BY DashPlaces DEF ArePlaces, Place
<1> DEFINE S == {name(x), x.a, x.r, x.p, name(y), y.a, y.r, y.p}
           s == <<name(x), x.a, x.r>>
           t == <<name(y), y.a, y.r>>
           xp == x.p
           yp == y.p
<1>3. s \in Seq(S) /\ t \in Seq(S) /\ xp \in S /\ yp \in S
  <2>1. name(x) \in S /\ x.a \in S /\ x.r \in S /\ name(y) \in S /\ y.a \in S /\ y.r \in S /\ x.p \in S /\ y.p \in S  OBVIOUS
  <2> HIDE DEF S, name
  <2>2. QED  BY <2>1
<1>4. Len(s) = 3 /\ s[2] = x.a /\ s[3] = x.r /\ Len(t) = 3 /\ t[2] = y.a /\ t[3] = y.r
  <2> HIDE DEF name
  <2>1. QED  OBVIOUS
<1> HIDE DEF S, s, t
<1>5. /\ Len(Append(s, xp)) = 4 /\ Append(s, xp)[2] = s[2] /\ Append(s, xp)[3] = s[3] /\ Append(s, xp)[4] = xp
      /\ Append(t, yp)[2] = t[2] /\ Append(t, yp)[3] = t[3] /\ Append(t, yp)[4] = yp
  <2>1. Extended(s, xp, Append(s, xp)) /\ Extended(t, yp, Append(t, yp))  BY <1>3, SeqIs, Appended
  <2>2. 2 \in 1 .. 3 /\ 3 \in 1 .. 3 /\ 3 + 1 = 4  OBVIOUS
  <2>3. QED  BY <1>4, <2>1, <2>2 DEF Extended
<1>6. t # Append(s, xp)
  <2>1. 3 # 4  OBVIOUS
  <2>2. QED  BY <1>4, <1>5, <2>1
<1>7. Append(t, yp) = Append(s, xp) => x.p = y.p /\ x.a = y.a /\ x.r = y.r  BY <1>4, <1>5
<1>8. TrackId(doc, x) = s /\ TrackId(doc, y) = t  BY <1>1 DEF s, t
<1>9. QED  BY <1>2, <1>6, <1>7, <1>8 DEF OwnID

(* Continuing segments keeps their URLs and keys.                        *)
LEMMA ContinuedAre ==
  ASSUME NEW segs, IsPlan(segs), NEW base
  PROVE  /\ IsPlan(Continued(segs, base)) /\ Len(Continued(segs, base)) = Len(segs)
         /\ \A k \in 1 .. Len(segs) : /\ Continued(segs, base)[k].url = segs[k].url
                                      /\ Continued(segs, base)[k].key = segs[k].key
<1> DEFINE n == Len(segs)
           new == Continued(segs, base)
           disc(i) == segs[i].disc \/ i = 1
           put(i) == [segs[i] EXCEPT !.seq = base + i - 1, !.disc = disc(i)]
<1>1. n \in Nat /\ DOMAIN segs = 1 .. n  BY FromIs DEF IsPlan
<1>2. new = [i \in DOMAIN segs |-> put(i)]  BY DEF Continued
<1> HIDE DEF new, disc
<1>3. \A i : DOMAIN put(i) = DOMAIN segs[i] /\ put(i).url = segs[i].url /\ put(i).key = segs[i].key
             /\ put(i).index = segs[i].index
  OBVIOUS
<1> HIDE DEF put
<1>4. new = [i \in 1 .. n |-> new[i]] /\ \A i \in 1 .. n : new[i] = put(i)  BY <1>1, <1>2
<1>5. IsSeq(new) /\ Len(new) = n  BY <1>1, <1>4, Sequenced
<1>6. IsPlan(new)  BY <1>3, <1>4, <1>5 DEF IsPlan, IsSegment
<1>7. QED  BY <1>3, <1>4, <1>5, <1>6 DEF new

(* All segments of one key id have the first one's.                      *)
LEMMA FirstKeyOf ==
  ASSUME NEW segs, IsSeq(segs), NEW kid, AllOfKey(segs, kid)
  PROVE  AllOfKey(segs, FirstSegKey(segs).kid) /\ (segs # <<>> => FirstSegKey(segs).kid = kid)
<1>1. CASE segs = <<>>
  <2>1. \A k \in 1 .. Len(<<>>) : FALSE
    <3>1. Len(<<>>) = 0  OBVIOUS
    <3>2. \A k \in 1 .. 0 : FALSE  OBVIOUS
    <3>3. QED  BY <3>1, <3>2
  <2>2. QED  BY <1>1, <2>1 DEF AllOfKey
<1>2. CASE segs # <<>>
  <2>1. \E S : segs \in Seq(S)  BY InSeq
  <2>2. Head(segs) = segs[1] /\ 1 \in 1 .. Len(segs)
    <3>1. Len(segs) > 0 /\ Len(segs) \in Nat  BY <1>2, FromIs
    <3>2. QED  BY <1>2, <2>1, <3>1
  <2>3. FirstSegKey(segs).kid = kid  BY <1>2, <2>2 DEF FirstSegKey, AllOfKey
  <2>4. QED  BY <2>3
<1>3. QED  BY <1>1, <1>2

(* What a representation lists, and what is added of it, are of the same   *)
(* URLs.                                                                   *)
LEMMA AddsUrls ==
  ASSUME NEW doc, IsMPD(doc), NEW x \in Places(doc)
  PROVE  LET c == Context(doc, x)
             segs == Protected(c)
             listed == PartOf(doc, x).segs
         IN /\ IsPlan(segs) /\ IsSeq(listed) /\ Len(listed) = Len(segs)
            /\ \A k \in 1 .. Len(segs) : segs[k].url = listed[k].url /\ segs[k].url \in Urls(doc, x)
            /\ AllOfKey(segs, DefaultKID(c.rep, c.set)) /\ AllOfKey(segs, FirstSegKey(segs).kid)
            /\ segs # <<>> => FirstSegKey(segs).kid = DefaultKID(c.rep, c.set)
<1> DEFINE c == Context(doc, x)
           segs == Protected(c)
           listed == PartOf(doc, x).segs
<1>1. IsSource(c)  BY ContextIs
<1>2. listed = BuildSegments(c).segs  BY DEF PartOf
<1> HIDE DEF c
<1>3. IsPlan(segs) /\ SameUrls(segs, listed) /\ AllOfKey(segs, DefaultKID(c.rep, c.set))
  BY <1>1, <1>2, ProtectedAre
<1>4. IsSeq(listed)  BY <1>1, <1>2, BuiltPlain DEF ArePlain
<1> HIDE DEF listed
<1>5. DOMAIN listed = 1 .. Len(listed)  BY <1>4, FromIs
<1>6. \A k \in 1 .. Len(listed) : listed[k].url \in Urls(doc, x)  BY <1>5 DEF Urls, listed
<1>7. AllOfKey(segs, FirstSegKey(segs).kid) /\ (segs # <<>> => FirstSegKey(segs).kid = DefaultKID(c.rep, c.set))
  BY <1>3, FirstKeyOf DEF IsPlan
<1>8. QED  BY <1>3, <1>4, <1>6, <1>7 DEF SameUrls, c, listed

(* Where a representation is: in the track h says, which is only of such   *)
(* representations, and suits them.                                        *)
Homed(doc, x, st) ==
  LET c == Context(doc, x)
      listed == PartOf(doc, x).segs
  IN /\ st.codecs = Coded(c) /\ st.init.url = PartOf(doc, x).init.url
     /\ AllOfKey(st.segs, DefaultKID(c.rep, c.set))
     /\ \E k \in 0 .. Len(st.segs) - Len(listed) : \A j \in 1 .. Len(listed) : st.segs[k + j].url = listed[j].url
Within(doc, D, h, i, st) ==
  /\ IsPlan(st.segs) /\ AllOfKey(st.segs, FirstSegKey(st.segs).kid)
  /\ \E x \in D : st.id \in {TrackId(doc, x), OwnID(TrackId(doc, x), x.p)}
  /\ \A k \in 1 .. Len(st.segs) : \E x \in D : h[x] = i /\ st.segs[k].url \in Urls(doc, x)
Apart(doc, D, h, s) ==
  /\ IsSeq(s) /\ h \in [D -> 1 .. Len(s)]
  /\ \A i \in 1 .. Len(s) : Within(doc, D, h, i, s[i])
  /\ \A i, j \in 1 .. Len(s) : s[i].id = s[j].id => i = j
  /\ \A x \in D : PartOf(doc, x).segs # <<>> => Homed(doc, x, s[h[x]])

(* A representation in a track of its own keeps the others apart.        *)
LEMMA OwnApart ==
  ASSUME NEW doc, IsMPD(doc), NEW D \in SUBSET Places(doc), NEW x \in Places(doc), x \notin D,
         NEW h, NEW s, Apart(doc, D, h, s), NEW own, NEW t, Extended(s, own, t), IsOwn(doc, x, s, own)
  PROVE  \E g : Apart(doc, D \cup {x}, g, t)
<1> DEFINE n == Len(s)
           E == D \cup {x}
           g == [y \in E |-> IF y = x THEN n + 1 ELSE h[y]]
           c == Context(doc, x)
           segs == Protected(c)
           listed == PartOf(doc, x).segs
<1>1. n \in Nat /\ IsSeq(t) /\ Len(t) = n + 1 /\ t[n + 1] = own /\ \A k \in 1 .. n : t[k] = s[k]
  BY DEF Extended, Apart, IsSeq
<1>2. h \in [D -> 1 .. n]  BY DEF Apart
<1>3. g[x] = n + 1 /\ \A y \in D : g[y] = h[y]  OBVIOUS
<1>4. g \in [E -> 1 .. n + 1]
  <2>1. \A y \in E : g[y] \in 1 .. n + 1  BY <1>1, <1>2
  <2>2. QED  BY <2>1
<1> HIDE DEF g
<1>5. /\ own.segs = segs /\ own.codecs = Coded(c) /\ own.init = PartOf(doc, x).init
      /\ own.id = IF \A j \in 1 .. n : s[j].id # TrackId(doc, x) THEN TrackId(doc, x)
                  ELSE OwnID(TrackId(doc, x), x.p)
  BY DEF IsOwn, PartOf
<1>6. /\ IsPlan(segs) /\ IsSeq(listed) /\ Len(listed) = Len(segs)
      /\ \A k \in 1 .. Len(segs) : segs[k].url = listed[k].url /\ segs[k].url \in Urls(doc, x)
      /\ AllOfKey(segs, DefaultKID(c.rep, c.set)) /\ AllOfKey(segs, FirstSegKey(segs).kid)
  BY AddsUrls
<1> HIDE DEF n, segs, listed, c, E
<1>7. E = D \cup {x}  BY DEF E
<1>8. Within(doc, E, g, n + 1, own)  BY <1>3, <1>5, <1>6, <1>7 DEF Within
<1>9. ASSUME NEW i \in 1 .. n PROVE Within(doc, E, g, i, s[i])
  <2>1. Within(doc, D, h, i, s[i])  BY DEF Apart, n
  <2>2. QED  BY <1>3, <1>7, <2>1 DEF Within
<1>10. \A i \in 1 .. n + 1 : Within(doc, E, g, i, t[i])
  <2>1. \A i \in 1 .. n + 1 : i \in 1 .. n \/ i = n + 1  BY <1>1
  <2>2. QED  BY <1>1, <1>8, <1>9, <2>1
<1>11. \A i \in 1 .. n : s[i].id # own.id
  <2> SUFFICES ASSUME NEW i \in 1 .. n, s[i].id = own.id PROVE FALSE  OBVIOUS
  <2>1. own.id = OwnID(TrackId(doc, x), x.p)  BY <1>5
  <2>2. PICK y \in D : s[i].id \in {TrackId(doc, y), OwnID(TrackId(doc, y), y.p)}  BY DEF Apart, Within, n
  <2>3. y \in Places(doc) /\ y # x  OBVIOUS
  <2>4. QED  BY <2>1, <2>2, <2>3, IdsApart
<1>12. ASSUME NEW i \in 1 .. n + 1, NEW j \in 1 .. n + 1, t[i].id = t[j].id PROVE i = j
  <2>1. (i \in 1 .. n \/ i = n + 1) /\ (j \in 1 .. n \/ j = n + 1)  BY <1>1
  <2>2. CASE i \in 1 .. n /\ j \in 1 .. n  BY <1>1, <1>12, <2>2 DEF Apart, n
  <2>3. CASE i = n + 1 /\ j \in 1 .. n  BY <1>1, <1>11, <1>12, <2>3
  <2>4. CASE i \in 1 .. n /\ j = n + 1  BY <1>1, <1>11, <1>12, <2>4
  <2>5. QED  BY <2>1, <2>2, <2>3, <2>4
<1>13. Homed(doc, x, own)
  <2>1. 0 \in 0 .. Len(segs) - Len(listed) /\ \A j \in 1 .. Len(listed) : 0 + j = j
    <3>1. Len(segs) \in Nat  BY <1>6 DEF IsPlan, IsSeq
    <3>2. QED  BY <1>6, <3>1
  <2>2. \A j \in 1 .. Len(listed) : segs[0 + j].url = listed[j].url  BY <1>6, <2>1
  <2>3. QED  BY <1>5, <1>6, <2>1, <2>2 DEF Homed, c, listed
<1>14. ASSUME NEW y \in E, PartOf(doc, y).segs # <<>> PROVE Homed(doc, y, t[g[y]])
  <2>1. CASE y = x  BY <1>1, <1>3, <1>13, <2>1
  <2>2. CASE y \in D
    <3>1. t[g[y]] = s[h[y]]  BY <1>1, <1>2, <1>3, <2>2
    <3>2. QED  BY <1>14, <2>2, <3>1 DEF Apart
  <2>3. QED  BY <1>7, <2>1, <2>2
<1>15. Apart(doc, E, g, t)  BY <1>1, <1>4, <1>10, <1>12, <1>14 DEF Apart
<1>16. QED  BY <1>15 DEF E

(* A track that is continued: what was there, then what is added, all of   *)
(* one key.                                                                *)
LEMMA JoinedTrack ==
  ASSUME NEW doc, IsMPD(doc), NEW x \in Places(doc), NEW old, NEW new,
         IsPlan(old.segs), AllOfKey(old.segs, FirstSegKey(old.segs).kid), Joins(doc, x, old, new)
  PROVE  LET c == Context(doc, x)
             listed == PartOf(doc, x).segs
             l == Len(old.segs)
         IN /\ IsPlan(new.segs) /\ l \in Nat /\ Len(listed) \in Nat /\ Len(new.segs) = l + Len(listed)
            /\ \A k \in 1 .. l : new.segs[k].url = old.segs[k].url
            /\ \A k \in 1 .. Len(listed) : /\ new.segs[l + k].url = listed[k].url
                                           /\ new.segs[l + k].url \in Urls(doc, x)
            /\ AllOfKey(new.segs, DefaultKID(c.rep, c.set)) /\ AllOfKey(new.segs, FirstSegKey(new.segs).kid)
            /\ FirstSegKey(old.segs).kid = DefaultKID(c.rep, c.set)
<1> DEFINE c == Context(doc, x)
           kid == DefaultKID(c.rep, c.set)
           segs == Protected(c)
           listed == PartOf(doc, x).segs
           l == Len(old.segs)
           more == Continued(segs, l)
<1>1. /\ IsPlan(segs) /\ IsSeq(listed) /\ Len(listed) = Len(segs)
      /\ \A k \in 1 .. Len(segs) : segs[k].url = listed[k].url /\ segs[k].url \in Urls(doc, x)
      /\ AllOfKey(segs, kid) /\ (segs # <<>> => FirstSegKey(segs).kid = kid)
  BY AddsUrls
<1>2. new.segs = old.segs \o more /\ segs # <<>> /\ FirstSegKey(old.segs).kid = FirstSegKey(segs).kid
  BY DEF Joins
<1> HIDE DEF segs, listed, kid, c
<1>3. /\ IsPlan(more) /\ Len(more) = Len(segs)
      /\ \A k \in 1 .. Len(segs) : more[k].url = segs[k].url /\ more[k].key = segs[k].key
  BY <1>1, ContinuedAre
<1>4. FirstSegKey(old.segs).kid = kid  BY <1>1, <1>2
<1>5. IsSeq(old.segs) /\ IsSeq(more) /\ l \in Nat /\ Len(more) \in Nat  BY <1>3 DEF IsPlan, IsSeq
<1> HIDE DEF more
<1>6. /\ IsSeq(new.segs) /\ Len(new.segs) = l + Len(more)
      /\ \A k \in 1 .. l : new.segs[k] = old.segs[k]
      /\ \A k \in 1 .. Len(more) : new.segs[l + k] = more[k]
  BY <1>2, <1>5, Concatenated
<1>7. \A k \in 1 .. Len(new.segs) : IsSegment(new.segs[k]) /\ new.segs[k].key.kid = kid
  <2> SUFFICES ASSUME NEW k \in 1 .. Len(old.segs \o more)
               PROVE  IsSegment((old.segs \o more)[k]) /\ (old.segs \o more)[k].key.kid = kid
    BY <1>2
  <2>1. CASE k \in 1 .. l /\ (old.segs \o more)[k] = old.segs[k]  BY <1>4, <2>1 DEF IsPlan, AllOfKey
  <2>2. CASE k - l \in 1 .. Len(more) /\ (old.segs \o more)[k] = more[k - l]
    BY <1>1, <1>3, <2>2 DEF IsPlan, AllOfKey
  <2>3. QED  BY <1>5, <2>1, <2>2, JoinedAt
<1>8. IsPlan(new.segs) /\ AllOfKey(new.segs, kid)  BY <1>6, <1>7 DEF IsPlan, AllOfKey
<1>9. AllOfKey(new.segs, FirstSegKey(new.segs).kid)  BY <1>6, <1>8, FirstKeyOf
<1>10. Len(listed) = Len(more) /\ Len(new.segs) = l + Len(listed)  BY <1>1, <1>3, <1>6
<1>11. ASSUME NEW k \in 1 .. Len(listed)
       PROVE  new.segs[l + k].url = listed[k].url /\ new.segs[l + k].url \in Urls(doc, x)
  <2>1. k \in 1 .. Len(segs) /\ k \in 1 .. Len(more)  BY <1>1, <1>10
  <2>2. new.segs[l + k] = more[k] /\ more[k].url = segs[k].url  BY <1>3, <1>6, <2>1
  <2>3. QED  BY <1>1, <2>1, <2>2
<1>12. \A k \in 1 .. l : new.segs[k].url = old.segs[k].url  BY <1>6
<1>13. QED  BY <1>4, <1>5, <1>8, <1>9, <1>10, <1>11, <1>12 DEF kid, c, listed

(* A representation that continues a track keeps the others apart.       *)
LEMMA JoinApart ==
  ASSUME NEW doc, IsMPD(doc), NEW D \in SUBSET Places(doc), NEW x \in Places(doc), x \notin D,
         NEW h, NEW s, Apart(doc, D, h, s), NEW i \in 1 .. Len(s), NEW t, IsSeq(t), Len(t) = Len(s),
         Joins(doc, x, s[i], t[i]), \A j \in 1 .. Len(s) : j # i => t[j] = s[j]
  PROVE  \E g : Apart(doc, D \cup {x}, g, t)
<1> DEFINE n == Len(s)
           E == D \cup {x}
           g == [y \in E |-> IF y = x THEN i ELSE h[y]]
           c == Context(doc, x)
           listed == PartOf(doc, x).segs
           old == s[i]
           new == t[i]
           l == Len(old.segs)
<1>1. h \in [D -> 1 .. n] /\ Within(doc, D, h, i, old)  BY DEF Apart
<1>2. g[x] = i /\ \A y \in D : g[y] = h[y]  OBVIOUS
<1>3. g \in [E -> 1 .. n]
  <2>1. \A y \in E : g[y] \in 1 .. n  BY <1>1
  <2>2. QED  BY <2>1
<1> HIDE DEF g
<1>4. /\ IsPlan(new.segs) /\ l \in Nat /\ Len(listed) \in Nat /\ Len(new.segs) = l + Len(listed)
      /\ \A k \in 1 .. l : new.segs[k].url = old.segs[k].url
      /\ \A k \in 1 .. Len(listed) : new.segs[l + k].url = listed[k].url /\ new.segs[l + k].url \in Urls(doc, x)
      /\ AllOfKey(new.segs, DefaultKID(c.rep, c.set)) /\ AllOfKey(new.segs, FirstSegKey(new.segs).kid)
      /\ FirstSegKey(old.segs).kid = DefaultKID(c.rep, c.set)
  BY <1>1, JoinedTrack, ZenonT(40) DEF Within
<1>5. /\ new.id = old.id /\ new.codecs = old.codecs /\ new.init = old.init
      /\ old.codecs = Coded(c) /\ old.init.url = PartOf(doc, x).init.url
  BY DEF Joins, PartOf
<1> HIDE DEF n, c, listed, old, new, E
<1>6. E = D \cup {x}  BY DEF E
<1>7. ASSUME NEW k \in 1 .. Len(new.segs)
      PROVE  \E y \in E : g[y] = i /\ new.segs[k].url \in Urls(doc, y)
  <2>1. CASE k \in 1 .. l
    <3>1. \E y \in D : h[y] = i /\ old.segs[k].url \in Urls(doc, y)  BY <1>1, <2>1 DEF Within
    <3>2. QED  BY <1>2, <1>4, <1>6, <2>1, <3>1
  <2>2. CASE k \notin 1 .. l
    <3>1. k - l \in 1 .. Len(listed) /\ k = l + (k - l)  BY <1>4, <2>2
    <3>2. new.segs[k].url \in Urls(doc, x)  BY <1>4, <3>1
    <3>3. QED  BY <1>2, <1>6, <3>2
  <2>3. QED  BY <2>1, <2>2
<1>8. Within(doc, E, g, i, new)
  <2>1. \E y \in E : new.id \in {TrackId(doc, y), OwnID(TrackId(doc, y), y.p)}  BY <1>1, <1>5, <1>6 DEF Within
  <2>2. QED  BY <1>4, <1>7, <2>1 DEF Within
<1>9. ASSUME NEW j \in 1 .. n, j # i PROVE Within(doc, E, g, j, t[j])
  <2>1. t[j] = s[j] /\ Within(doc, D, h, j, s[j])  BY <1>9 DEF Apart, n
  <2>2. QED  BY <1>2, <1>6, <2>1 DEF Within
<1>10. \A j \in 1 .. n : Within(doc, E, g, j, t[j])  BY <1>8, <1>9 DEF new
<1>11. \A j \in 1 .. n : t[j].id = s[j].id  BY <1>5 DEF new, old, n
<1>12. \A j, k \in 1 .. n : t[j].id = t[k].id => j = k  BY <1>11 DEF Apart, n
<1>13. Homed(doc, x, new)
  <2>1. l \in 0 .. Len(new.segs) - Len(listed)  BY <1>4
  <2>2. QED  BY <1>4, <1>5, <2>1 DEF Homed, c, listed
<1>14. ASSUME NEW y \in D, h[y] = i, PartOf(doc, y).segs # <<>> PROVE Homed(doc, y, new)
  <2> DEFINE b == Context(doc, y)
             part == PartOf(doc, y).segs
  <2>1. Homed(doc, y, old)  BY <1>14 DEF Apart, old
  <2>2. IsSeq(part) /\ Len(part) \in Nat /\ Len(part) > 0
    <3>1. y \in Places(doc)  OBVIOUS
    <3>2. IsSeq(part)  BY <3>1, AddsUrls
    <3> HIDE DEF part
    <3>3. part # <<>>  BY <1>14 DEF part
    <3>4. QED  BY <3>2, <3>3, FromIs
  <2>3. PICK k \in 0 .. l - Len(part) : \A j \in 1 .. Len(part) : old.segs[k + j].url = part[j].url
    BY <2>1 DEF Homed
  <2>4. AllOfKey(old.segs, DefaultKID(b.rep, b.set)) /\ IsSeq(old.segs)  BY <1>1, <2>1 DEF Homed, Within, IsPlan
  <2>5. old.codecs = Coded(b) /\ old.init.url = PartOf(doc, y).init.url  BY <2>1 DEF Homed
  <2> HIDE DEF b, part
  <2>6. old.segs # <<>>
    <3>1. Len(<<>>) = 0  OBVIOUS
    <3>2. l > 0  BY <1>4, <2>2, <2>3
    <3>3. QED  BY <3>1, <3>2
  <2>7. DefaultKID(b.rep, b.set) = DefaultKID(c.rep, c.set)  BY <1>4, <2>4, <2>6, FirstKeyOf
  <2>8. k \in 0 .. Len(new.segs) - Len(part)  BY <1>4, <2>2, <2>3
  <2>9. \A j \in 1 .. Len(part) : new.segs[k + j].url = part[j].url
    <3>1. \A j \in 1 .. Len(part) : k + j \in 1 .. l  BY <1>4, <2>2, <2>3
    <3>2. QED  BY <1>4, <2>3, <3>1
  <2>10. QED  BY <1>4, <1>5, <2>5, <2>7, <2>8, <2>9 DEF Homed, b, part
<1>15. ASSUME NEW y \in E, PartOf(doc, y).segs # <<>> PROVE Homed(doc, y, t[g[y]])
  <2>1. CASE y = x  BY <1>2, <1>13, <2>1 DEF new
  <2>2. CASE y \in D /\ h[y] = i  BY <1>2, <1>14, <1>15, <2>2 DEF new
  <2>3. CASE y \in D /\ h[y] # i
    <3>1. t[g[y]] = s[h[y]]  BY <1>1, <1>2, <2>3 DEF n
    <3>2. QED  BY <1>15, <2>3, <3>1 DEF Apart
  <2>4. QED  BY <1>6, <2>1, <2>2, <2>3
<1>16. Apart(doc, E, g, t)  BY <1>3, <1>10, <1>12, <1>15 DEF Apart, n
<1>17. QED  BY <1>16 DEF E

(* An MPD becomes tracks that are apart.                                 *)
LEMMA DashApart ==
  ASSUME NEW doc, IsMPD(doc), ~ParseDASH(doc).err
  PROVE  \E h : Apart(doc, Places(doc), h, ParseDASH(doc).streams)
<1> DEFINE n == Cardinality(Places(doc))
           places == InOrder(Places(doc))
           D(m) == {places[k] : k \in 1 .. m}
<1>1. /\ n \in Nat /\ \A k \in 1 .. n : places[k] \in Places(doc)
      /\ \A j, k \in 1 .. n : places[j] = places[k] => j = k
      /\ \A x \in Places(doc) : \E k \in 1 .. n : places[k] = x
  BY DashPlaces, OrderedPlaces
<1>2. PICK read : DashWalk(doc, read) /\ ParseDASH(doc) = read[n]  BY DashWalks
<1>3. \A m \in 0 .. n : Tracked(read[m])  BY <1>2, TracksRead
<1>4. read[0] = NoneAdded /\ \A i \in 1 .. n : read[i] = AddTrack(doc, read[i - 1], places[i])
  BY <1>2 DEF DashWalk
<1> HIDE DEF n, places
<1>5. \A m \in 0 .. n : D(m) \in SUBSET Places(doc)
  <2>1. \A m \in 0 .. n : \A k \in 1 .. m : k \in 1 .. n  BY <1>1
  <2>2. QED  BY <1>1, <2>1
<1> DEFINE T == {m \in 0 .. n : ~read[m].err => \E h : Apart(doc, D(m), h, read[m].streams)}
<1>6. 0 \in T
  <2> DEFINE none == [x \in {} |-> 1]
  <2>1. read[0].streams = <<>>  BY <1>4 DEF NoneAdded
  <2>2. D(0) = {}
    <3>1. \A k \in 1 .. 0 : FALSE  OBVIOUS
    <3>2. QED  BY <3>1
  <2>3. Apart(doc, {}, none, <<>>)
    <3>1. <<>> \in Seq({}) /\ Len(<<>>) = 0  OBVIOUS
    <3>2. IsSeq(<<>>)  BY <3>1, SeqIs
    <3>3. \A k \in 1 .. 0 : FALSE  OBVIOUS
    <3>4. none \in [{} -> 1 .. 0]  OBVIOUS
    <3> HIDE DEF none
    <3>5. QED  BY <3>1, <3>2, <3>3, <3>4 DEF Apart
  <2> HIDE DEF none, D
  <2>4. Apart(doc, D(0), none, read[0].streams)  BY <2>1, <2>2, <2>3
  <2>5. 0 \in 0 .. n  BY <1>1
  <2> HIDE DEF T
  <2>6. QED  BY <2>4, <2>5 DEF T
<1>7. ASSUME NEW m \in 0 .. n - 1, m \in T PROVE m + 1 \in T
  <2>1. m + 1 \in 1 .. n /\ (m + 1) - 1 = m /\ m + 1 \in 0 .. n /\ m \in 0 .. n  BY <1>1
  <2> DEFINE acc == read[m]
             x == places[m + 1]
             s == acc.streams
             t == AddTrack(doc, acc, x).streams
  <2>2. read[m + 1] = AddTrack(doc, acc, x)  BY <1>4, <2>1
  <2>3. x \in Places(doc) /\ D(m) \in SUBSET Places(doc)  BY <1>1, <1>5, <2>1
  <2>4. x \notin D(m)
    <3> SUFFICES ASSUME NEW k \in 1 .. m, places[k] = x PROVE FALSE  OBVIOUS
    <3>1. k \in 1 .. n /\ k # m + 1  BY <1>1
    <3>2. QED  BY <1>1, <2>1, <3>1
  <2>5. D(m + 1) = D(m) \cup {x}
    <3>1. \A k : k \in 1 .. m + 1 <=> (k \in 1 .. m \/ k = m + 1)  BY <1>1
    <3> HIDE DEF places
    <3>2. QED  BY <3>1
  <2>6. Tracked(acc)  BY <1>3, <2>1
  <2> HIDE DEF D, x
  <2>7. SUFFICES ASSUME ~AddTrack(doc, acc, x).err
                 PROVE  \E g : Apart(doc, D(m + 1), g, t)
    BY <2>1, <2>2
  <2>8. ~acc.err /\ Added(doc, x, s, t)  BY <2>3, <2>6, <2>7, AddedIs
  <2>9. PICK h : Apart(doc, D(m), h, s)  BY <1>7, <2>8
  <2> HIDE DEF acc, t, s, T
  <2>10. CASE \E own : Extended(s, own, t) /\ IsOwn(doc, x, s, own)
    <3>1. \E g : Apart(doc, D(m) \cup {x}, g, t)  BY <2>3, <2>4, <2>9, <2>10, OwnApart
    <3>2. QED  BY <2>5, <3>1
  <2>11. CASE \E i \in 1 .. Len(s) : /\ IsSeq(t) /\ Len(t) = Len(s) /\ Joins(doc, x, s[i], t[i])
                                     /\ \A j \in 1 .. Len(s) : j # i => t[j] = s[j]
    <3>1. \E g : Apart(doc, D(m) \cup {x}, g, t)  BY <2>3, <2>4, <2>9, <2>11, JoinApart
    <3>2. QED  BY <2>5, <3>1
  <2>12. QED  BY <2>8, <2>10, <2>11 DEF Added
<1> HIDE DEF T
<1>8. 0 .. n \subseteq T  BY <1>1, <1>6, <1>7, UpTo
<1>9. n \in T  BY <1>1, <1>8
<1>10. D(n) = Places(doc)
  <2>1. D(n) \subseteq Places(doc)  BY <1>1
  <2>2. Places(doc) \subseteq D(n)  BY <1>1
  <2> HIDE DEF D
  <2>3. QED  BY <2>1, <2>2
<1> HIDE DEF D
<1>11. QED  BY <1>2, <1>9, <1>10 DEF T

(* Tracks that are apart are what PeriodsApart says.                     *)
LEMMA ApartIs ==
  ASSUME NEW doc, IsMPD(doc), NEW h, NEW s, Apart(doc, Places(doc), h, s)
  PROVE  PeriodsApart(doc, s)
<1>1. IsSeq(s) /\ DOMAIN s = 1 .. Len(s)  BY FromIs DEF Apart
<1>2. \A i, j \in DOMAIN s : s[i].id = s[j].id => i = j  BY <1>1 DEF Apart
<1> SUFFICES ASSUME NEW x \in Places(doc), PartOf(doc, x).segs # <<>>
             PROVE  /\ \E i \in Homes(doc, x, s) : Suits(doc, x, s[i])
                    /\ (\A y \in Places(doc) \ {x} : Urls(doc, y) \intersect Urls(doc, x) = {}) =>
                         Cardinality(Homes(doc, x, s)) = 1
  BY <1>2 DEF PeriodsApart
<1> DEFINE listed == PartOf(doc, x).segs
           st == s[h[x]]
           c == Context(doc, x)
<1>3. h[x] \in 1 .. Len(s)  BY DEF Apart
<1>4. IsSeq(listed) /\ DOMAIN listed = 1 .. Len(listed) /\ Len(listed) \in Nat /\ Len(listed) > 0
  <2>1. IsSeq(listed)  BY AddsUrls
  <2> HIDE DEF listed
  <2>2. listed # <<>>  BY DEF listed
  <2>3. QED  BY <2>1, <2>2, FromIs
<1>5. Homed(doc, x, st)  BY DEF Apart
<1>6. IsPlan(st.segs) /\ DOMAIN st.segs = 1 .. Len(st.segs)
  <2>1. Within(doc, Places(doc), h, h[x], st)  BY <1>3 DEF Apart
  <2> HIDE DEF st
  <2>2. IsPlan(st.segs)  BY <2>1 DEF Within
  <2>3. IsSeq(st.segs)  BY <2>2 DEF IsPlan
  <2>4. QED  BY <2>2, <2>3, FromIs
<1>7. h[x] \in Homes(doc, x, s)  BY <1>1, <1>3, <1>4, <1>5 DEF Homed, Homes
<1>8. Suits(doc, x, st)  BY <1>5, <1>6 DEF Homed, Suits, AllOfKey, Coded
<1>9. ASSUME \A y \in Places(doc) \ {x} : Urls(doc, y) \intersect Urls(doc, x) = {}
      PROVE  Cardinality(Homes(doc, x, s)) = 1
  <2>1. ASSUME NEW i \in Homes(doc, x, s) PROVE i = h[x]
    <3> DEFINE a == s[i].segs
    <3>1. PICK k \in 0 .. Len(a) - Len(listed) : \A j \in DOMAIN listed : a[k + j].url = listed[j].url
      BY DEF Homes
    <3>2. i \in 1 .. Len(s)  BY <1>1 DEF Homes
    <3>3. Within(doc, Places(doc), h, i, s[i])  BY <3>2 DEF Apart
    <3>4. Len(a) \in Nat  BY <3>3 DEF Within, IsPlan, IsSeq
    <3>5. 1 \in DOMAIN listed  BY <1>4
    <3>6. k + 1 \in 1 .. Len(a)  BY <1>4, <3>4
    <3>7. PICK y \in Places(doc) : h[y] = i /\ a[k + 1].url \in Urls(doc, y)  BY <3>3, <3>6 DEF Within
    <3>8. a[k + 1].url = listed[1].url /\ listed[1].url \in Urls(doc, x)  BY <3>1, <3>5 DEF Urls
    <3>9. y = x
      <4>1. a[k + 1].url \in Urls(doc, y) \intersect Urls(doc, x)  BY <3>7, <3>8
      <4>2. QED  BY <1>9, <4>1
    <3>10. QED  BY <3>7, <3>9
  <2>2. Homes(doc, x, s) = {h[x]}  BY <1>7, <2>1
  <2>3. QED  BY <2>2, FS_Singleton
<1>10. QED  BY <1>7, <1>8, <1>9

--------------------------------------------------------------------------------
(* The tracks of a DASH title are apart, and what is downloaded are tracks *)
(* of it, expanded.                                                        *)
Parted == IsMPD(Doc) /\ (\E h : Apart(Doc, Places(Doc), h, tracks)) /\ AreTracks(tracks)
IsExpanded(st) == \E j \in 1 .. Len(tracks) : st = ExpandIndexed(tracks[j], input.index)
IsOfTracks(st) == \E j \in 1 .. Len(tracks) : st = tracks[j]
DashInv ==
  /\ ChosenInv
  /\ phase = "file" => tracks = <<FileMaster(URL(Base), input.size, input.probe)>>
  /\ phase \in {"select", "expand", "open"} /\ kind = "dash" => Parted
  /\ phase = "expand" /\ kind = "dash" =>
       /\ IsSeq(chosen)
       /\ \A i \in 1 .. Len(chosen) : IF i < at THEN IsExpanded(chosen[i]) ELSE IsOfTracks(chosen[i])
  /\ phase = "open" /\ kind = "dash" => \A i \in DOMAIN chosen : IsExpanded(chosen[i])

(* The answers to the requests of an index are as the decoder makes them. *)
LEMMA IndexIs == KindInv => input.size \in Int /\ \A u \in DOMAIN input.index : IsSidx(input.index[u])
<1> SUFFICES ASSUME KindInv PROVE input.size \in Int /\ \A u \in DOMAIN input.index : IsSidx(input.index[u])
  OBVIOUS
<1>1. PICK f \in DOMAIN Inputs : input \in Inputs[f]  BY DEF KindInv
<1>2. QED  BY <1>1, InputsAssumption

(* A DASH manifest that is loaded becomes tracks that are apart, and a     *)
(* file one track.                                                         *)
LEMMA DashLoaded ==
  ASSUME KindInv, Load
  PROVE  /\ phase' = "select" /\ kind' = "dash" => IsMPD(Doc) /\ \E h : Apart(Doc, Places(Doc), h, tracks')
         /\ phase' = "file" => tracks' = <<FileMaster(URL(Base), input.size, input.probe)>>
<1> DEFINE m == LoadManifest
           file == FileMaster(URL(Base), input.size, input.probe)
<1>1. /\ kind' = m.kind /\ tracks' = m.streams
      /\ phase' = IF m.err THEN "refused" ELSE IF m.kind \in {"playlist", "file"} THEN m.kind ELSE "select"
  BY DEF Load
<1> HIDE DEF file
<1>2. m = Listed("file", <<file>>) \/ m = ParseManifest(Source)  BY DEF LoadManifest, file
<1> HIDE DEF m
<1>3. CASE m = Listed("file", <<file>>)
  <2>1. m.kind = "file" /\ m.streams = <<file>>  BY <1>3 DEF Listed
  <2>2. QED  BY <1>1, <2>1 DEF file
<1>4. CASE m = ParseManifest(Source)
  <2>1. WellFormed(Source)  BY InputIs
  <2>2. CASE Source.format = "mpd"
    <3>1. m = Loaded("dash", ParseDASH(Doc))  BY <1>4, <2>2 DEF ParseManifest, Doc
    <3>2. m.kind = "dash" /\ m.err = ParseDASH(Doc).err /\ m.streams = ParseDASH(Doc).streams  BY <3>1 DEF Loaded
    <3>3. IsMPD(Doc)  BY <2>1, <2>2 DEF WellFormed, Doc
    <3>4. QED  BY <1>1, <3>2, <3>3, DashApart
  <2>3. CASE Source.format # "mpd"
    <3>1. m.kind \in {"playlist", "hls", "mss", ""}
      BY <1>4, <2>3 DEF ParseManifest, Listed, Loaded
    <3>2. QED  BY <1>1, <3>1
  <2>4. QED  BY <2>2, <2>3
<1>5. QED  BY <1>2, <1>3, <1>4

(* Every step keeps the tracks of a DASH title apart, and what is          *)
(* downloaded of it expanded.                                              *)
LEMMA DashStep == OpenInv /\ DashInv /\ [Next]_titleVars => DashInv'
<1> SUFFICES ASSUME OpenInv, DashInv, [Next]_titleVars PROVE DashInv'  OBVIOUS
<1>1. ChosenInv' /\ KindInv /\ at \in Nat \ {0}  BY ChosenStep DEF DashInv, ChosenInv, HlsInv, OpenInv
<1>2. input' = input /\ Doc' = Doc
  <2>1. input' = input  BY DEF Next, Load, List, Choose, Expand, Settle, Open, Take, titleVars
  <2>2. QED  BY <2>1 DEF Source, Doc
<1>3. tracks' = tracks => /\ Parted' = Parted
                          /\ \A st : IsExpanded(st)' = IsExpanded(st) /\ IsOfTracks(st)' = IsOfTracks(st)
  BY <1>2 DEF Parted, IsExpanded, IsOfTracks
<1>4. CASE Load
  <2>1. phase' \in {"refused", "playlist", "file", "select"}  BY <1>4 DEF Load
  <2>2. phase' = "file" => (tracks = <<FileMaster(URL(Base), input.size, input.probe)>>)'
    BY <1>1, <1>2, <1>4, DashLoaded
  <2>3. phase' = "select" /\ kind' = "dash" => Parted'
    BY <1>1, <1>2, <1>4, DashLoaded DEF Parted, ChosenInv
  <2>4. QED  BY <1>1, <2>1, <2>2, <2>3 DEF DashInv
<1>5. CASE List
  <2>1. phase' = "listed"  BY <1>5 DEF List
  <2>2. QED  BY <1>1, <2>1 DEF DashInv
<1>6. CASE Choose
  <2>1. /\ phase = "select" /\ phase' \in {"refused", "expand"}
        /\ kind' = kind /\ tracks' = tracks /\ at' = at
    BY <1>6 DEF Choose
  <2>2. CASE kind = "dash" /\ phase' = "expand"
    <3>1. Parted  BY <2>1, <2>2 DEF DashInv
    <3>2. From(chosen', tracks)  BY <1>1, <1>6, <3>1, ChosenFrom DEF Parted
    <3>3. IsSeq(chosen') /\ \A i \in 1 .. Len(chosen') : IsOfTracks(chosen'[i])
      BY <3>2 DEF From, Holds, IsOfTracks
    <3>4. at = 1  BY <2>1 DEF DashInv, ChosenInv, HlsInv
    <3>5. \A i \in 1 .. Len(chosen') : ~(i < at')  BY <2>1, <3>4
    <3>6. QED  BY <1>1, <1>3, <2>1, <2>2, <3>1, <3>3, <3>5 DEF DashInv
  <2>3. QED  BY <1>1, <2>1, <2>2 DEF DashInv
<1>7. CASE Expand
  <2>1. phase = "expand" /\ phase' \in {"refused", "expand"} /\ kind' = kind /\ tracks' = tracks
    BY <1>7 DEF Expand
  <2>2. CASE kind = "dash" /\ phase' = "expand"
    <3> DEFINE st == chosen[at]
               new == ExpandIndexed(st, input.index)
    <3>1. at \in 1 .. Len(chosen) /\ IsSeq(chosen) /\ Len(chosen) \in Nat
      BY <1>1, <1>7, <2>1, <2>2 DEF DashInv, Expand, IsSeq
    <3>2. IsOfTracks(st)  BY <1>1, <2>1, <2>2, <3>1 DEF DashInv
    <3>3. chosen' = [chosen EXCEPT ![at] = new] /\ at' = at + 1  BY <1>7, <2>1, <2>2 DEF Expand, ExpandStream
    <3>4. IsExpanded(new)  BY <3>2 DEF IsExpanded, IsOfTracks
    <3> HIDE DEF st, new
    <3>5. IsSeq(chosen') /\ Len(chosen') = Len(chosen) /\ chosen'[at] = new
          /\ \A j \in 1 .. Len(chosen) : j # at => chosen'[j] = chosen[j]
      <4>1. \A e : LET t == [chosen EXCEPT ![at] = e]
                   IN IsSeq(t) /\ Len(t) = Len(chosen) /\ t[at] = e
                      /\ \A j \in 1 .. Len(chosen) : j # at => t[j] = chosen[j]
        BY <3>1, Replaced
      <4>2. QED  BY <3>3, <4>1
    <3>6. ASSUME NEW i \in 1 .. Len(chosen')
          PROVE  IF i < at' THEN IsExpanded(chosen'[i]) ELSE IsOfTracks(chosen'[i])
      <4>1. CASE i = at
        <5>1. i < at'  BY <1>1, <3>3, <4>1
        <5>2. QED  BY <3>4, <3>5, <4>1, <5>1
      <4>2. CASE i # at
        <5>1. i \in 1 .. Len(chosen) /\ chosen'[i] = chosen[i]  BY <3>5, <4>2
        <5>2. i < at' <=> i < at  BY <1>1, <3>1, <3>3, <4>2, <5>1
        <5>3. QED  BY <2>1, <2>2, <5>1, <5>2 DEF DashInv
      <4>3. QED  BY <4>1, <4>2
    <3>7. Parted  BY <2>1, <2>2 DEF DashInv
    <3>8. QED  BY <1>1, <1>3, <2>1, <2>2, <3>5, <3>6, <3>7 DEF DashInv
  <2>3. QED  BY <1>1, <2>1, <2>2 DEF DashInv
<1>8. CASE Settle
  <2>1. /\ phase = "expand" /\ at > Len(chosen) /\ phase' \in {"skipped", "serve", "open"}
        /\ kind' = kind /\ tracks' = tracks /\ chosen' = chosen
    BY <1>8 DEF Settle
  <2>2. CASE kind = "dash"
    <3>1. IsSeq(chosen) /\ \A i \in 1 .. Len(chosen) : IF i < at THEN IsExpanded(chosen[i]) ELSE IsOfTracks(chosen[i])
      BY <2>1, <2>2 DEF DashInv
    <3>2. DOMAIN chosen = 1 .. Len(chosen) /\ Len(chosen) \in Nat  BY <3>1, FromIs
    <3>3. \A i \in 1 .. Len(chosen) : i < at  BY <1>1, <2>1, <3>2
    <3>4. \A i \in DOMAIN chosen : IsExpanded(chosen[i])  BY <3>1, <3>2, <3>3
    <3>5. Parted  BY <2>1, <2>2 DEF DashInv
    <3>6. QED  BY <1>1, <1>3, <2>1, <3>4, <3>5 DEF DashInv
  <2>3. QED  BY <1>1, <2>1, <2>2 DEF DashInv
<1>9. CASE Open
  <2>1. /\ phase = "open" /\ phase' \in {"refused", "open"}
        /\ kind' = kind /\ tracks' = tracks /\ chosen' = chosen
    BY <1>9 DEF Open
  <2>2. QED  BY <1>1, <1>3, <2>1 DEF DashInv
<1>10. CASE Take
  <2>1. phase' = "taken"  BY <1>10 DEF Take
  <2>2. QED  BY <1>1, <2>1 DEF DashInv
<1>11. CASE UNCHANGED titleVars
  <2>1. tracks' = tracks /\ input' = input /\ chosen' = chosen /\ phase' = phase /\ kind' = kind /\ at' = at
    BY <1>11 DEF titleVars
  <2>2. QED  BY <1>1, <1>3, <2>1 DEF DashInv
<1>12. QED  BY <1>4, <1>5, <1>6, <1>7, <1>8, <1>9, <1>10, <1>11 DEF Next

(* In every reachable state the tracks of a DASH title are apart, and what *)
(* is downloaded of it are tracks, expanded.                               *)
LEMMA DashInvariance == Spec => []DashInv
<1>1. Init => DashInv  BY KindStarts DEF Init, DashInv, ChosenInv, HlsInv
<1>2. QED  BY <1>1, DashStep, OpenInvariance, PTL DEF Spec

(* Whatever MPD is loaded, every representation of it that lists anything  *)
(* is whole and in its place in one track of one init, codec and key, and  *)
(* in no other: what the decryptor of the track relies on (dash.go Parse,  *)
(* mergeCompatible).                                                       *)
THEOREM PeriodsAreApart == Spec => []NothingSpliced
<1>1. DashInv => NothingSpliced
  <2> SUFFICES ASSUME DashInv, phase = "select", kind = "dash" PROVE PeriodsApart(Doc, tracks)
    BY DEF NothingSpliced
  <2>1. Parted  BY DEF DashInv
  <2>2. QED  BY <2>1, ApartIs DEF Parted
<1>2. QED  BY <1>1, DashInvariance, PTL

(* Whatever the size, the sidx and the server's answers, the ranges a file *)
(* is cut into tile it, and the ranges of an expanded index tile what it   *)
(* indexes: no byte is fetched twice and none is left out (file.go         *)
(* planChunks, sidx.go ExpandIndexed).                                     *)
THEOREM BytesAreTiled == Spec => []BytesTiled
<1>1. DashInv => BytesTiled
  <2> SUFFICES ASSUME DashInv PROVE BytesTiled  OBVIOUS
  <2>1. input.size \in Int /\ \A u \in DOMAIN input.index : IsSidx(input.index[u])
    BY IndexIs DEF DashInv, ChosenInv, HlsInv
  <2>2. ASSUME phase = "file" PROVE FileTiled(tracks[1], input.size)
    <3>1. tracks = <<FileMaster(URL(Base), input.size, input.probe)>>  BY <2>2 DEF DashInv
    <3>2. tracks[1] = FileMaster(URL(Base), input.size, input.probe)  BY <3>1
    <3>3. QED  BY <2>1, <3>2, FileIsTiled
  <2>3. ASSUME phase = "open", kind = "dash", NEW i \in DOMAIN chosen, NEW j \in DOMAIN tracks,
               tracks[j].id = chosen[i].id
        PROVE  IndexTiled(tracks[j], chosen[i], input.index)
    <3>1. Parted /\ IsExpanded(chosen[i])  BY <2>3 DEF DashInv
    <3>2. PICK h : Apart(Doc, Places(Doc), h, tracks)  BY <3>1 DEF Parted
    <3>3. PICK k \in 1 .. Len(tracks) : chosen[i] = ExpandIndexed(tracks[k], input.index)
      BY <3>1 DEF IsExpanded
    <3>4. DOMAIN tracks = 1 .. Len(tracks)  BY <3>1, FromIs DEF Parted, AreTracks
    <3>5. "segs" \in DOMAIN tracks[k] /\ ExpandIndexed(tracks[k], input.index).id = tracks[k].id
      <4>1. IsTrack(tracks[k])  BY <3>1 DEF Parted, AreTracks
      <4>2. "segs" \in DOMAIN tracks[k]  BY <4>1 DEF IsTrack, BlankStream
      <4> DEFINE st == tracks[k]
      <4> HIDE DEF st
      <4>3. \A e : [st EXCEPT !.segs = e].id = st.id  OBVIOUS
      <4>4. ExpandIndexed(st, input.index).id = st.id  BY <4>3 DEF ExpandIndexed
      <4>5. QED  BY <4>2, <4>4 DEF st
    <3>6. k = j  BY <2>3, <3>2, <3>3, <3>4, <3>5 DEF Apart
    <3>7. IsPlan(tracks[k].segs)  BY <3>2 DEF Apart, Within
    <3>8. QED  BY <2>1, <3>3, <3>5, <3>6, <3>7, ExpandedTiles
  <2>4. QED  BY <2>2, <2>3 DEF BytesTiled
<1>2. QED  BY <1>1, DashInvariance, PTL
================================================================================
