---------------------------- MODULE TSBroadcastProofs ----------------------------
(***************************************************************************)
(* Proofs about TSBroadcast, for any viewers, units, sizes, budget and     *)
(* slots: a viewer's stream has no gap, and its tail is delivered.         *)
(***************************************************************************)
EXTENDS TSBroadcast, SequenceTheorems, FiniteSetTheorems, WellFoundedInduction, TLAPS

(* Units the handler has in hand.                                          *)
Held(v) == IF viewer[v] \in {"taken", "writing"} THEN 1 ELSE 0

(* The stream of a viewer ends with unit e: counted back from it, the      *)
(* channel, the hand and the response hold successive units.               *)
EndsWith(v, e) ==
  /\ \A i \in 1 .. Len(data[v]) : data[v][i] = e - Len(data[v]) + i
  /\ viewer[v] \in {"taken", "writing"} => hand[v] = e - Len(data[v])
  /\ \A i \in 1 .. Len(got[v]) :
       got[v][i] = e - Len(data[v]) - Held(v) - Len(got[v]) + i

(* The unit a subscriber was offered last.                                 *)
Offered(v) == IF v \in todo THEN published - 1 ELSE published

StreamInv(v) ==
  IF viewer[v] = "gone"
  THEN \E c \in Int : \A i \in 1 .. Len(got[v]) : got[v][i] = c + i
  ELSE \E e \in Int : EndsWith(v, e) /\ (v \in subs => e = Offered(v))

(* A subscriber is there for as long as it is served and not kicked, and   *)
(* has something once there is something.                                  *)
MemberInv(v) ==
  /\ viewer[v] \in {"out", "join", "refused"} =>
       v \notin subs /\ data[v] = <<>> /\ got[v] = <<>>
  /\ viewer[v] \notin {"out", "join"} \cup Left => v \in subs \cup kicked
  /\ viewer[v] # "gone" /\ v \in subs /\ Offered(v) > 0 =>
       got[v] # <<>> \/ Held(v) = 1 \/ data[v] # <<>>

(* What a served viewer has.                                               *)
TailInv(v) ==
  viewer[v] = "served" /\ v \notin kicked /\ ~canceled =>
    /\ producer = "finished" /\ v \notin todo
    /\ published > 0 => Len(got[v]) > 0 /\ got[v][Len(got[v])] = published

(* Without a cancel only the run loop ends the stream, after its producer. *)
EndInv ==
  /\ done /\ ~canceled => producer = "finished"
  /\ ender["runloop"] # "idle" => producer = "finished"
  /\ ender["watcher"] # "idle" => canceled
  /\ \A v \in Viewers : v \in draining \/ viewer[v] = "drain" => done

LoopInv ==
  /\ todo \subseteq subs
  /\ Unlocked => todo = {}
  /\ producer = "count" => published > 0 /\ sending \notin todo
  /\ producer = "fanout" => published > 0

(* The types the proof needs.                                              *)
Typed ==
  /\ published \in 0 .. Units
  /\ producer \in {"idle", "fanout", "count", "finished"}
  /\ subs \subseteq Viewers /\ todo \subseteq Viewers
  /\ data \in [Viewers -> Seq(Int)]
  /\ viewer \in [Viewers -> Left \cup
                   {"out", "join", "look", "wait", "drain", "taken", "writing"}]
  /\ hand \in [Viewers -> Int]
  /\ got \in [Viewers -> Seq(Int)]
  /\ ender \in [Enders -> {"idle", "called", "closing", "returned"}]

BroadcastInv ==
  /\ Typed /\ LoopInv /\ EndInv
  /\ \A v \in Viewers : StreamInv(v) /\ MemberInv(v) /\ TailInv(v)

--------------------------------------------------------------------------------
LEMMA BroadcastInit == Init => BroadcastInv
<1> SUFFICES ASSUME Init PROVE BroadcastInv  OBVIOUS
<1> USE BroadcastAssumption DEF Init
<1>1. Typed  BY DEF Typed, Left
<1>2. LoopInv  BY DEF LoopInv
<1>3. EndInv  BY DEF EndInv, Enders
<1>4. ASSUME NEW v \in Viewers PROVE StreamInv(v) /\ MemberInv(v) /\ TailInv(v)
  <2>1. data[v] = <<>> /\ got[v] = <<>> /\ viewer[v] = "out" /\ v \notin subs  OBVIOUS
  <2>2. EndsWith(v, 0)  BY <2>1 DEF EndsWith
  <2>3. QED  BY <2>1, <2>2 DEF StreamInv, MemberInv, TailInv, Left
<1>5. QED  BY <1>1, <1>2, <1>3, <1>4 DEF BroadcastInv

(* A viewer that a step leaves alone.                                      *)
LEMMA Same ==
  ASSUME NEW v \in Viewers,
         viewer'[v] = viewer[v], hand'[v] = hand[v], got'[v] = got[v], data'[v] = data[v],
         v \in subs' => v \in subs /\ Offered(v)' = Offered(v),
         v \in subs => v \in subs' \cup kicked', kicked \subseteq kicked',
         StreamInv(v), MemberInv(v)
  PROVE  StreamInv(v)' /\ MemberInv(v)'
<1>1. Held(v)' = Held(v)  BY DEF Held
<1>2. \A e : EndsWith(v, e)' <=> EndsWith(v, e)  BY <1>1 DEF EndsWith
<1>3. StreamInv(v)'  BY <1>2 DEF StreamInv
<1>4. MemberInv(v)'  BY <1>1 DEF MemberInv
<1>5. QED  BY <1>3, <1>4

(* Types, the loop of publish and the ends.                                *)
LEMMA Frame == BroadcastInv /\ Next => Typed' /\ LoopInv' /\ EndInv'
<1> SUFFICES ASSUME BroadcastInv, Next PROVE Typed' /\ LoopInv' /\ EndInv'  OBVIOUS
<1> USE BroadcastAssumption DEF BroadcastInv, produce, shared, handler, ending
<1>1. CASE \E v \in Viewers : Offer(v)
  <2>1. PICK v \in Viewers : Offer(v)  BY <1>1
  <2>2. published \in 1 .. Units /\ v \in todo /\ v \in subs
    BY <2>1 DEF Offer, LoopInv, Typed
  <2>3. data' \in [Viewers -> Seq(Int)]
    <3>1. Append(data[v], published) \in Seq(Int)  BY <2>2 DEF Typed
    <3>2. data' \in {data, [data EXCEPT ![v] = Append(data[v], published)]}  BY <2>1 DEF Offer
    <3>3. QED  BY <3>1, <3>2 DEF Typed
  <2>4. Typed'  BY <2>1, <2>3 DEF Offer, Typed
  <2>5. LoopInv'  BY <2>1, <2>2 DEF Offer, LoopInv, Unlocked
  <2>6. EndInv'  BY <2>1 DEF Offer, EndInv
  <2>7. QED  BY <2>4, <2>5, <2>6
<1>2. CASE PublishBegins \/ Count \/ PublishReturns \/ Finish
  <2>1. Typed'  BY <1>2 DEF PublishBegins, Count, PublishReturns, Finish, Typed
  <2>2. LoopInv'
    BY <1>2 DEF PublishBegins, Count, PublishReturns, Finish, LoopInv, Unlocked, Typed
  <2>3. EndInv'  BY <1>2 DEF PublishBegins, Count, PublishReturns, Finish, EndInv
  <2>4. QED  BY <2>1, <2>2, <2>3
<1>3. ASSUME NEW v \in Viewers, Subscribe(v) PROVE Typed' /\ LoopInv' /\ EndInv'
  <2>1. (IF published > 0 THEN <<published>> ELSE <<>>) \in Seq(Int)  BY DEF Typed
  <2>2. Typed'  BY <1>3, <2>1 DEF Subscribe, Typed
  <2>3. LoopInv'  BY <1>3 DEF Subscribe, LoopInv, Unlocked
  <2>4. EndInv'  BY <1>3 DEF Subscribe, EndInv, Typed
  <2>5. QED  BY <2>2, <2>3, <2>4
<1>4. ASSUME NEW v \in Viewers, Receive(v) PROVE Typed' /\ LoopInv' /\ EndInv'
  <2>1. data[v] \in Seq(Int) /\ data[v] # <<>>  BY <1>4 DEF Receive, Typed
  <2>2. Head(data[v]) \in Int /\ Tail(data[v]) \in Seq(Int)  BY <2>1
  <2>3. Typed'  BY <1>4, <2>2 DEF Receive, Typed
  <2>4. LoopInv'  BY <1>4 DEF Receive, LoopInv, Unlocked
  <2>5. EndInv'  BY <1>4 DEF Receive, EndInv, Typed
  <2>6. QED  BY <2>3, <2>4, <2>5
<1>5. ASSUME NEW v \in Viewers, Write(v) PROVE Typed' /\ LoopInv' /\ EndInv'
  <2>2. Append(got[v], hand[v]) \in Seq(Int)  BY DEF Typed
  <2>3. Typed'  BY <1>5, <2>2, ZenonT(60) DEF Write, Typed, Left
  <2>4. LoopInv'  BY <1>5 DEF Write, LoopInv, Unlocked
  <2>5. EndInv'  BY <1>5 DEF Write, EndInv, Typed
  <2>6. QED  BY <2>3, <2>4, <2>5
<1>6. ASSUME NEW v \in Viewers,
             \/ Request(v) \/ Look(v) \/ Leave(v) \/ SeeDone(v) \/ Drained(v)
             \/ Uncount(v) \/ Unsubscribe(v)
      PROVE  Typed' /\ LoopInv' /\ EndInv'
  <2>1. Typed'
    BY <1>6 DEF Request, Look, Leave, SeeDone, Drained, Uncount, Unsubscribe, Typed, Left
  <2>2. LoopInv'
    BY <1>6 DEF Request, Look, Leave, SeeDone, Drained, Uncount, Unsubscribe, LoopInv, Unlocked
  <2>3. EndInv'
    BY <1>6 DEF Request, Look, Leave, SeeDone, Drained, Uncount, Unsubscribe, EndInv, Typed
  <2>4. QED  BY <2>1, <2>2, <2>3
<1>7. CASE Cancel \/ \E e \in Enders : End(e)
  <2>1. Typed'  BY <1>7 DEF Cancel, End, CallEnd, CheckDone, CloseDone, Typed
  <2>2. LoopInv'  BY <1>7 DEF Cancel, End, CallEnd, CheckDone, CloseDone, LoopInv, Unlocked
  <2>3. EndInv'
    BY <1>7 DEF Cancel, End, CallEnd, CheckDone, CloseDone, EndInv, Enders, Typed
  <2>4. QED  BY <2>1, <2>2, <2>3
<1>8. QED  BY <1>1, <1>2, <1>3, <1>4, <1>5, <1>6, <1>7 DEF Next, Produce, Serve

--------------------------------------------------------------------------------
(* Streams and members, one lemma per action that moves units.             *)

LEMMA OfferKeeps ==
  ASSUME BroadcastInv, NEW v \in Viewers, Offer(v), NEW k \in Viewers
  PROVE  StreamInv(k)' /\ MemberInv(k)'
<1> USE DEF BroadcastInv
<1>1. /\ v \in todo /\ v \in subs /\ todo' = todo \ {v} /\ published' = published
      /\ published \in Nat /\ published > 0
      /\ viewer' = viewer /\ hand' = hand /\ got' = got
      /\ todo \subseteq subs
  BY BroadcastAssumption DEF Offer, LoopInv, Typed, handler
<1>2. CASE k # v
  <2>1. data'[k] = data[k] /\ (k \in subs' <=> k \in subs) /\ kicked \subseteq kicked'
    BY <1>2 DEF Offer, Typed
  <2>2. Offered(k)' = Offered(k)  BY <1>1, <1>2 DEF Offered
  <2>3. QED  BY <1>1, <2>1, <2>2, Same
<1>3. CASE k = v /\ ~Fits(v)
  <2>1. data' = data /\ subs' = subs \ {v} /\ kicked' = kicked \cup {v}  BY <1>3 DEF Offer
  <2>2. QED  BY <1>1, <1>3, <2>1, Same
<1>4. CASE k = v /\ Fits(v)
  <2>1. data' = [data EXCEPT ![v] = Append(@, published)] /\ subs' = subs /\ kicked' = kicked
    BY <1>4 DEF Offer
  <2>2. /\ data[v] \in Seq(Int) /\ got[v] \in Seq(Int)
        /\ data'[v] = Append(data[v], published)
    BY <2>1 DEF Typed
  <2>3. Len(data'[v]) = Len(data[v]) + 1  BY <2>2
  <2>4. Held(v)' = Held(v) /\ Held(v) \in Nat  BY <1>1 DEF Held
  <2>5. Offered(v) = published - 1 /\ Offered(v)' = published  BY <1>1 DEF Offered
  <2>6. MemberInv(v)'
    <3>1. data'[v] # <<>>  BY <2>2
    <3>2. viewer[v] \notin {"out", "join", "refused"}  BY <1>1 DEF MemberInv
    <3>3. QED  BY <1>1, <2>1, <2>4, <3>1, <3>2 DEF MemberInv
  <2>7. CASE viewer[v] = "gone"  BY <1>1, <1>4, <2>6, <2>7 DEF StreamInv
  <2>8. CASE viewer[v] # "gone"
    <3>1. EndsWith(v, published - 1)  BY <1>1, <2>5, <2>8 DEF StreamInv
    <3>2. ASSUME NEW i \in 1 .. Len(data'[v])
          PROVE  data'[v][i] = published - Len(data'[v]) + i
      <4>1. CASE i <= Len(data[v])
        <5>1. i \in 1 .. Len(data[v]) /\ data'[v][i] = data[v][i]  BY <2>2, <2>3, <4>1
        <5>2. data[v][i] = published - 1 - Len(data[v]) + i  BY <3>1, <5>1 DEF EndsWith
        <5>3. Len(data[v]) \in Nat /\ i \in Int  BY <2>2, <5>1
        <5>4. published - 1 - Len(data[v]) + i = published - Len(data'[v]) + i
          BY <1>1, <2>3, <5>3
        <5>5. QED  BY <5>1, <5>2, <5>4
      <4>2. CASE i = Len(data[v]) + 1  BY <1>1, <2>2, <2>3, <4>2
      <4>3. QED  BY <2>2, <2>3, <4>1, <4>2
    <3>3. EndsWith(v, published)'
      <4>1. published - 1 - Len(data[v]) = published - Len(data'[v])  BY <1>1, <2>2, <2>3
      <4>2. viewer[v] \in {"taken", "writing"} => hand[v] = published - Len(data'[v])
        BY <3>1, <4>1 DEF EndsWith
      <4>3. \A i \in 1 .. Len(got[v]) :
              got[v][i] = published - Len(data'[v]) - Held(v) - Len(got[v]) + i
        BY <3>1, <4>1 DEF EndsWith
      <4>4. QED  BY <1>1, <2>4, <3>2, <4>2, <4>3 DEF EndsWith
    <3>4. published' \in Int  BY <1>1
    <3>5. QED  BY <1>1, <1>4, <2>5, <2>6, <2>8, <3>3, <3>4 DEF StreamInv
  <2>9. QED  BY <2>7, <2>8
<1>5. QED  BY <1>2, <1>3, <1>4

LEMMA SubscribeKeeps ==
  ASSUME BroadcastInv, NEW v \in Viewers, Subscribe(v), NEW k \in Viewers
  PROVE  StreamInv(k)' /\ MemberInv(k)'
<1> USE DEF BroadcastInv
<1>1. /\ viewer[v] = "join" /\ todo = {} /\ todo' = {} /\ published' = published
      /\ published \in Nat /\ subs' = subs \cup {v} /\ kicked' = kicked
      /\ hand' = hand /\ got' = got
      /\ data' = [data EXCEPT ![v] = IF published > 0 THEN <<published>> ELSE <<>>]
      /\ viewer' = [viewer EXCEPT ![v] = "look"]
  BY BroadcastAssumption DEF Subscribe, LoopInv, Typed, produce
<1>2. CASE k # v
  <2>1. data'[k] = data[k] /\ viewer'[k] = viewer[k] /\ (k \in subs' <=> k \in subs)
    BY <1>1, <1>2 DEF Typed
  <2>2. Offered(k)' = Offered(k)  BY <1>1 DEF Offered
  <2>3. QED  BY <1>1, <2>1, <2>2, Same
<1>3. CASE k = v
  <2>1. /\ got'[v] = <<>> /\ viewer'[v] = "look" /\ Offered(v)' = published
        /\ data'[v] = IF published > 0 THEN <<published>> ELSE <<>>
    BY <1>1 DEF MemberInv, Typed, Offered
  <2>2. /\ Len(got'[v]) = 0 /\ Held(v)' = 0
        /\ Len(data'[v]) = IF published > 0 THEN 1 ELSE 0
    BY <2>1 DEF Held
  <2>3. \A i \in 1 .. Len(data'[v]) : data'[v][i] = published - Len(data'[v]) + i
    BY <1>1, <2>1, <2>2
  <2>4. EndsWith(v, published)'
    <3>1. \A i \in 1 .. Len(got'[v]) : FALSE  BY <2>2
    <3>2. QED  BY <1>1, <2>1, <2>3, <3>1 DEF EndsWith
  <2>5. published > 0 => data'[v] # <<>>  BY <2>1
  <2>6. MemberInv(v)'
    <3>1. v \in subs'  BY <1>1
    <3>2. viewer'[v] \notin {"out", "join", "refused"}  BY <2>1
    <3>3. QED  BY <2>1, <2>5, <3>1, <3>2 DEF MemberInv
  <2>7. QED  BY <1>1, <1>3, <2>1, <2>4, <2>6 DEF StreamInv
<1>4. QED  BY <1>2, <1>3

LEMMA ReceiveKeeps ==
  ASSUME BroadcastInv, NEW v \in Viewers, Receive(v), NEW k \in Viewers
  PROVE  StreamInv(k)' /\ MemberInv(k)'
<1> USE DEF BroadcastInv
<1>1. /\ viewer[v] \in {"wait", "drain"} /\ todo' = todo /\ published' = published
      /\ published \in Nat /\ subs' = subs /\ kicked' = kicked /\ got' = got
      /\ hand' = [hand EXCEPT ![v] = Head(data[v])]
      /\ data' = [data EXCEPT ![v] = Tail(data[v])]
      /\ viewer' = [viewer EXCEPT ![v] = "taken"]
      /\ data[v] \in Seq(Int) /\ data[v] # <<>> /\ got[v] \in Seq(Int)
  BY BroadcastAssumption DEF Receive, Typed, produce
<1>2. Offered(k)' = Offered(k)  BY <1>1 DEF Offered
<1>3. CASE k # v
  <2>1. data'[k] = data[k] /\ viewer'[k] = viewer[k] /\ hand'[k] = hand[k]
    BY <1>1, <1>3 DEF Typed
  <2>2. QED  BY <1>1, <1>2, <2>1, Same
<1>4. CASE k = v
  <2>1. /\ viewer'[v] = "taken" /\ data'[v] = Tail(data[v]) /\ hand'[v] = data[v][1]
    BY <1>1 DEF Typed
  <2>2. /\ Len(data[v]) \in Nat /\ Len(data[v]) > 0 /\ Len(data'[v]) = Len(data[v]) - 1
        /\ \A i \in 1 .. Len(data'[v]) : data'[v][i] = data[v][i + 1]
    <3>1. ASSUME NEW q \in Seq(Int), q # <<>>
          PROVE  /\ Len(q) \in Nat /\ Len(q) > 0 /\ Len(Tail(q)) = Len(q) - 1
                 /\ \A i \in 1 .. Len(Tail(q)) : Tail(q)[i] = q[i + 1]
      BY <3>1
    <3>2. QED  BY <1>1, <2>1, <3>1
  <2>3. Held(v) = 0 /\ Held(v)' = 1  BY <1>1, <2>1 DEF Held
  <2>4. PICK e \in Int : EndsWith(v, e) /\ (v \in subs => e = Offered(v))
    BY <1>1 DEF StreamInv
  <2>5. \A i \in 1 .. Len(data'[v]) : data'[v][i] = e - Len(data'[v]) + i
    <3>1. TAKE i \in 1 .. Len(data'[v])
    <3>2. i + 1 \in 1 .. Len(data[v]) /\ i \in Int  BY <2>2
    <3>3. data[v][i + 1] = e - Len(data[v]) + (i + 1)  BY <2>4, <3>2 DEF EndsWith
    <3>4. e - Len(data[v]) + (i + 1) = e - Len(data'[v]) + i  BY <2>2, <3>2
    <3>5. QED  BY <2>2, <3>3, <3>4
  <2>6. hand'[v] = e - Len(data'[v])
    <3>1. 1 \in 1 .. Len(data[v])  BY <2>2
    <3>2. data[v][1] = e - Len(data[v]) + 1  BY <2>4, <3>1 DEF EndsWith
    <3>3. QED  BY <2>1, <2>2, <3>2
  <2>7. \A i \in 1 .. Len(got[v]) :
          got[v][i] = e - Len(data'[v]) - 1 - Len(got[v]) + i
    <3>1. e - Len(data[v]) - 0 = e - Len(data'[v]) - 1  BY <2>2
    <3>2. QED  BY <2>3, <2>4, <3>1 DEF EndsWith
  <2>8. EndsWith(v, e)'  BY <1>1, <2>3, <2>5, <2>6, <2>7 DEF EndsWith
  <2>9. StreamInv(v)'  BY <1>1, <1>2, <1>4, <2>1, <2>4, <2>8 DEF StreamInv
  <2>10. MemberInv(v)'
    <3>1. v \in subs' \cup kicked'  BY <1>1 DEF MemberInv, Left
    <3>2. QED  BY <2>1, <2>3, <3>1 DEF MemberInv
  <2>11. QED  BY <1>4, <2>9, <2>10
<1>5. QED  BY <1>3, <1>4

LEMMA WriteKeeps ==
  ASSUME BroadcastInv, NEW v \in Viewers, Write(v), NEW k \in Viewers
  PROVE  StreamInv(k)' /\ MemberInv(k)'
<1> USE DEF BroadcastInv
<1>1. /\ viewer[v] = "writing" /\ todo' = todo /\ published' = published
      /\ subs' = subs /\ kicked' = kicked /\ hand' = hand /\ data' = data
      /\ data[v] \in Seq(Int) /\ got[v] \in Seq(Int) /\ hand[v] \in Int
  BY DEF Write, Typed, produce, shared
<1>2. Offered(k)' = Offered(k)  BY <1>1 DEF Offered
<1>3. CASE k # v
  <2>1. viewer'[k] = viewer[k] /\ got'[k] = got[k]  BY <1>3 DEF Write, Typed
  <2>2. QED  BY <1>1, <1>2, <2>1, Same
<1>4. PICK e \in Int : EndsWith(v, e) /\ (v \in subs => e = Offered(v))
  BY <1>1 DEF StreamInv
<1>5. /\ Held(v) = 1 /\ Len(data[v]) \in Nat /\ Len(got[v]) \in Nat
      /\ hand[v] = e - Len(data[v])
  BY <1>1, <1>4 DEF Held, EndsWith
<1>6. \A i \in 1 .. Len(got[v]) : got[v][i] = e - Len(data[v]) - 1 - Len(got[v]) + i
  BY <1>4, <1>5 DEF EndsWith
<1>7. v \in subs \cup kicked  BY <1>1 DEF MemberInv, Left
<1>8. CASE k = v /\ viewer' = [viewer EXCEPT ![v] = "gone"] /\ got' = got
  <2>1. viewer'[v] = "gone"  BY <1>8 DEF Typed
  <2>2. e - Len(data[v]) - 1 - Len(got[v]) \in Int  BY <1>5
  <2>3. StreamInv(v)'  BY <1>6, <1>8, <2>1, <2>2 DEF StreamInv
  <2>4. MemberInv(v)'  BY <1>1, <1>7, <2>1 DEF MemberInv, Left
  <2>5. QED  BY <1>8, <2>3, <2>4
<1>9. CASE /\ k = v /\ got' = [got EXCEPT ![v] = Append(got[v], hand[v])]
           /\ viewer' = [viewer EXCEPT ![v] = IF v \in draining THEN "drain" ELSE "look"]
  <2>1. /\ viewer'[v] \in {"drain", "look"} /\ got'[v] = Append(got[v], hand[v])
    BY <1>9 DEF Typed
  <2>2. /\ Len(got'[v]) = Len(got[v]) + 1
        /\ \A i \in 1 .. Len(got[v]) : got'[v][i] = got[v][i]
        /\ got'[v][Len(got[v]) + 1] = hand[v]
    BY <1>1, <2>1
  <2>3. Held(v)' = 0  BY <2>1 DEF Held
  <2>4. \A i \in 1 .. Len(got'[v]) :
          got'[v][i] = e - Len(data[v]) - 0 - Len(got'[v]) + i
    <3>1. TAKE i \in 1 .. Len(got'[v])
    <3>2. CASE i \in 1 .. Len(got[v])
      <4>1. got[v][i] = e - Len(data[v]) - 1 - Len(got[v]) + i  BY <1>6, <3>2
      <4>2. i \in Int  OBVIOUS
      <4>3. e - Len(data[v]) - 1 - Len(got[v]) + i
              = e - Len(data[v]) - 0 - Len(got'[v]) + i
        BY <1>5, <2>2, <4>2
      <4>4. QED  BY <2>2, <3>2, <4>1, <4>3
    <3>3. CASE i = Len(got[v]) + 1
      <4>1. Len(data[v]) \in Int /\ e \in Int /\ Len(got'[v]) = i /\ i \in Int
        BY <1>5, <2>2, <3>3
      <4>2. e - Len(data[v]) = e - Len(data[v]) - 0 - Len(got'[v]) + i  BY <4>1
      <4>3. QED  BY <1>5, <2>2, <3>3, <4>2
    <3>4. i \in 1 .. Len(got[v]) \/ i = Len(got[v]) + 1  BY <1>5, <2>2
    <3>5. QED  BY <3>2, <3>3, <3>4
  <2>5. EndsWith(v, e)'  BY <1>1, <1>4, <2>1, <2>3, <2>4 DEF EndsWith
  <2>6. StreamInv(v)'  BY <1>1, <1>2, <1>4, <1>9, <2>1, <2>5 DEF StreamInv
  <2>7. got'[v] # <<>>
    <3>1. ASSUME NEW q \in Seq(Int), NEW u PROVE Append(q, u) # <<>>  OBVIOUS
    <3>2. QED  BY <1>1, <2>1, <3>1
  <2>8. MemberInv(v)'  BY <1>1, <1>7, <2>1, <2>7 DEF MemberInv, Left
  <2>9. QED  BY <1>9, <2>6, <2>8
<1>10. QED  BY <1>3, <1>8, <1>9 DEF Write

(* The steps that move no unit.                                            *)
LEMMA OthersKeep ==
  ASSUME BroadcastInv, NEW k \in Viewers,
         \/ PublishBegins \/ Count \/ PublishReturns \/ Finish
         \/ \E e \in Enders : End(e)
         \/ Cancel
  PROVE  StreamInv(k)' /\ MemberInv(k)'
<1> USE DEF BroadcastInv, shared, handler, produce
<1>1. viewer' = viewer /\ hand' = hand /\ got' = got /\ data' = data
      /\ subs' = subs /\ kicked' = kicked
  BY DEF PublishBegins, Count, PublishReturns, Finish, End, CallEnd, CheckDone, CloseDone, Cancel
<1>2. k \in subs => Offered(k)' = Offered(k)
  <2>1. CASE PublishBegins
    BY <2>1, BroadcastAssumption DEF PublishBegins, LoopInv, Unlocked, Offered, Typed
  <2>2. CASE ~PublishBegins
    <3>1. published' = published /\ todo' = todo
      BY <2>2 DEF Count, PublishReturns, Finish, End, CallEnd, CheckDone, CloseDone, Cancel
    <3>2. QED  BY <3>1 DEF Offered
  <2>3. QED  BY <2>1, <2>2
<1>3. QED  BY <1>1, <1>2, Same

(* The steps that move only the place of a handler.                        *)
LEMMA MovesKeep ==
  ASSUME BroadcastInv, NEW v \in Viewers, NEW k \in Viewers,
         \/ Request(v) \/ Look(v) \/ Leave(v) \/ SeeDone(v) \/ Drained(v)
         \/ Uncount(v) \/ Unsubscribe(v)
  PROVE  StreamInv(k)' /\ MemberInv(k)'
<1> USE DEF BroadcastInv, produce, shared, handler
<1>1. /\ published' = published /\ todo' = todo /\ hand' = hand /\ got' = got
      /\ data' = data /\ kicked' = kicked /\ subs' \subseteq subs
      /\ \A w \in Viewers \ {v} : viewer'[w] = viewer[w] /\ (w \in subs' <=> w \in subs)
  BY DEF Request, Look, Leave, SeeDone, Drained, Uncount, Unsubscribe, Typed
<1>2. Offered(k)' = Offered(k)  BY <1>1 DEF Offered
<1>3. CASE k # v  BY <1>1, <1>2, <1>3, Same
<1>4. CASE k = v /\ Unsubscribe(v)
  <2>1. viewer' = viewer /\ v \notin subs' /\ viewer[v] \in Left  BY <1>4 DEF Unsubscribe
  <2>2. Held(v)' = Held(v) /\ \A e : EndsWith(v, e)' <=> EndsWith(v, e)
    BY <1>1, <2>1 DEF Held, EndsWith
  <2>3. StreamInv(v)'  BY <1>1, <2>1, <2>2 DEF StreamInv
  <2>4. MemberInv(v)'  BY <1>1, <2>1 DEF MemberInv, Left
  <2>5. QED  BY <1>4, <2>3, <2>4
<1>5. CASE k = v /\ ~Unsubscribe(v)
  <2>1. subs' = subs
    BY <1>5 DEF Request, Look, Leave, SeeDone, Drained, Uncount
  <2>2. \/ viewer[v] = "taken" /\ viewer'[v] = "writing"
        \/ viewer[v] = "out" /\ viewer'[v] \in {"refused", "join"}
        \/ viewer[v] \in {"look", "wait", "drain"} /\ viewer'[v] \in {"wait", "drain", "served"}
        \/ viewer[v] \in {"look", "wait"} /\ viewer'[v] = "gone"
    BY <1>5 DEF Request, Look, Leave, SeeDone, Drained, Uncount, Typed
  <2>3. Held(v)' = Held(v)  BY <2>2 DEF Held
  <2>4. \A e : EndsWith(v, e) => EndsWith(v, e)'  BY <1>1, <2>2, <2>3 DEF EndsWith
  <2>5. MemberInv(v)'
    <3>1. viewer'[v] \in {"out", "join", "refused"} =>
            v \notin subs' /\ data'[v] = <<>> /\ got'[v] = <<>>
      BY <1>1, <2>1, <2>2 DEF MemberInv
    <3>2. viewer'[v] \notin {"out", "join"} \cup Left => v \in subs' \cup kicked'
      BY <1>1, <2>1, <2>2 DEF MemberInv, Left
    <3>3. v \in subs /\ Offered(v) > 0 /\ viewer[v] # "gone" =>
            got[v] # <<>> \/ Held(v) = 1 \/ data[v] # <<>>
      BY DEF MemberInv
    <3>4. viewer'[v] # "gone" /\ v \in subs' /\ Offered(v)' > 0 =>
            got'[v] # <<>> \/ Held(v)' = 1 \/ data'[v] # <<>>
      BY <1>1, <1>2, <1>5, <2>1, <2>2, <2>3, <3>3
    <3>5. QED  BY <3>1, <3>2, <3>4 DEF MemberInv
  <2>6. PICK e \in Int : EndsWith(v, e) /\ (v \in subs => e = Offered(v))
    BY <2>2 DEF StreamInv
  <2>7. CASE viewer'[v] # "gone"
    BY <1>1, <1>2, <1>5, <2>1, <2>4, <2>5, <2>6, <2>7 DEF StreamInv
  <2>8. CASE viewer'[v] = "gone"
    <3>1. Held(v) = 0 /\ Len(data[v]) \in Nat /\ Len(got[v]) \in Nat
      BY <2>2, <2>8 DEF Held, Typed
    <3>2. e - Len(data[v]) - 0 - Len(got[v]) \in Int  BY <3>1
    <3>3. \A i \in 1 .. Len(got[v]) :
            got[v][i] = (e - Len(data[v]) - 0 - Len(got[v])) + i
      BY <2>6, <3>1 DEF EndsWith
    <3>4. StreamInv(v)'  BY <1>1, <2>8, <3>2, <3>3 DEF StreamInv
    <3>5. QED  BY <1>5, <2>5, <3>4
  <2>9. QED  BY <2>7, <2>8
<1>6. QED  BY <1>3, <1>4, <1>5

(* A viewer becomes "served" when the stream is done and its queue empty,  *)
(* and then nothing is published any more.                                 *)
LEMMA TailKeeps ==
  ASSUME BroadcastInv, Next, NEW v \in Viewers
  PROVE  TailInv(v)'
<1> SUFFICES ASSUME viewer'[v] = "served", v \notin kicked', ~canceled'
             PROVE  /\ producer' = "finished" /\ v \notin todo'
                    /\ published' > 0 =>
                         Len(got'[v]) > 0 /\ got'[v][Len(got'[v])] = published'
  BY DEF TailInv
<1> USE DEF BroadcastInv
<1>1. v \notin kicked /\ ~canceled
  BY DEF Next, Produce, Serve, End, PublishBegins, Offer, Count, PublishReturns, Finish,
         Request, Subscribe, Look, Receive, Leave, SeeDone, Drained, Uncount, Write,
         Unsubscribe, Cancel, CallEnd, CheckDone, CloseDone, shared
<1>2. ASSUME producer = "finished"
      PROVE  producer' = "finished" /\ todo' = {} /\ published' = published
  <2>1. todo = {}  BY <1>2 DEF LoopInv, Unlocked
  <2>2. QED
    BY <1>2, <2>1 DEF Next, Produce, Serve, End, PublishBegins, Offer, Count, PublishReturns,
           Finish, Request, Subscribe, Look, Receive, Leave, SeeDone, Drained, Uncount, Write,
           Unsubscribe, Cancel, CallEnd, CheckDone, CloseDone, produce
<1>3. \/ viewer[v] = "served" /\ got'[v] = got[v]
      \/ Drained(v)
  <2>1. ASSUME NEW w \in Viewers, Write(w)
        PROVE  viewer[v] = "served" /\ got'[v] = got[v]
    <3>1. w # v  BY <2>1 DEF Write, Typed
    <3>2. QED  BY <2>1, <3>1 DEF Write, Typed
  <2>2. ASSUME NEW w \in Viewers,
               \/ Request(w) \/ Subscribe(w) \/ Look(w) \/ Receive(w) \/ Leave(w)
               \/ SeeDone(w) \/ Uncount(w) \/ Unsubscribe(w)
        PROVE  viewer[v] = "served" /\ got'[v] = got[v]
    BY <2>2 DEF Request, Subscribe, Look, Receive, Leave, SeeDone, Uncount, Unsubscribe,
                Typed, handler
  <2>3. ASSUME NEW w \in Viewers, Drained(w)
        PROVE  (viewer[v] = "served" /\ got'[v] = got[v]) \/ Drained(v)
    BY <2>3 DEF Drained, Typed
  <2>4. ASSUME Produce \/ Cancel \/ \E e \in Enders : End(e)
        PROVE  viewer[v] = "served" /\ got'[v] = got[v]
    BY <2>4 DEF Produce, End, PublishBegins, Offer, Count, PublishReturns, Finish, Cancel,
                CallEnd, CheckDone, CloseDone, handler
  <2>5. QED  BY <2>1, <2>2, <2>3, <2>4 DEF Next, Serve
<1>4. CASE viewer[v] = "served" /\ got'[v] = got[v]  BY <1>1, <1>2, <1>4 DEF TailInv
<1>5. CASE Drained(v)
  <2>1. viewer[v] = "drain" /\ data[v] = <<>> /\ got' = got  BY <1>5 DEF Drained
  <2>2. producer = "finished" /\ todo = {}  BY <1>1, <2>1 DEF EndInv, LoopInv, Unlocked
  <2>3. v \in subs  BY <1>1, <2>1 DEF MemberInv, Left
  <2>4. Offered(v) = published  BY <2>2 DEF Offered
  <2>5. EndsWith(v, published)  BY <2>1, <2>3, <2>4 DEF StreamInv
  <2>6. ASSUME published > 0 PROVE Len(got[v]) > 0 /\ got[v][Len(got[v])] = published
    <3>1. Held(v) = 0 /\ Len(data[v]) = 0  BY <2>1 DEF Held
    <3>2. got[v] # <<>> /\ got[v] \in Seq(Int)
      <4>1. Held(v) # 1 /\ viewer[v] # "gone"  BY <2>1 DEF Held
      <4>2. got[v] # <<>>  BY <2>1, <2>3, <2>4, <2>6, <4>1 DEF MemberInv
      <4>3. QED  BY <4>2 DEF Typed
    <3>3. Len(got[v]) \in 1 .. Len(got[v]) /\ Len(got[v]) \in Nat  BY <3>2
    <3>4. published \in Int  BY BroadcastAssumption DEF Typed
    <3>5. got[v][Len(got[v])] = published - 0 - 0 - Len(got[v]) + Len(got[v])
      BY <2>5, <3>1, <3>3 DEF EndsWith
    <3>6. QED  BY <3>3, <3>4, <3>5
  <2>7. QED  BY <1>2, <2>1, <2>2, <2>6
<1>6. QED  BY <1>3, <1>4, <1>5

(* BroadcastInv holds in every reachable state.                            *)
THEOREM BroadcastInvariance == Spec => []BroadcastInv
<1>1. ASSUME BroadcastInv, Next PROVE BroadcastInv'
  <2>1. Typed' /\ LoopInv' /\ EndInv'  BY <1>1, Frame
  <2>2. ASSUME NEW k \in Viewers PROVE StreamInv(k)' /\ MemberInv(k)'
    BY <1>1, OfferKeeps, SubscribeKeeps, ReceiveKeeps, WriteKeeps, OthersKeep, MovesKeep
       DEF Next, Produce, Serve
  <2>3. ASSUME NEW k \in Viewers PROVE TailInv(k)'  BY <1>1, TailKeeps
  <2>4. QED  BY <2>1, <2>2, <2>3 DEF BroadcastInv
<1>2. BroadcastInv /\ UNCHANGED vars => BroadcastInv'
  BY DEF vars, BroadcastInv, Typed, LoopInv, Unlocked, EndInv, StreamInv, EndsWith, Held,
         Offered, MemberInv, TailInv
<1>3. BroadcastInv /\ [Next]_vars => BroadcastInv'  BY <1>1, <1>2
<1>4. QED  BY BroadcastInit, <1>3, PTL DEF Spec

--------------------------------------------------------------------------------
(* Sequences that count up from c + 1, and their joins.                    *)
LEMMA Joined ==
  ASSUME NEW p \in Seq(Int), NEW q \in Seq(Int), NEW c \in Int,
         \A i \in 1 .. Len(p) : p[i] = c + i,
         \A i \in 1 .. Len(q) : q[i] = c + Len(p) + i
  PROVE  /\ p \o q \in Seq(Int) /\ Len(p \o q) = Len(p) + Len(q)
         /\ \A i \in 1 .. Len(p \o q) : (p \o q)[i] = c + i
<1>1. p \o q \in Seq(Int) /\ Len(p \o q) = Len(p) + Len(q)  OBVIOUS
<1>2. ASSUME NEW i \in 1 .. Len(p \o q) PROVE (p \o q)[i] = c + i
  <2>1. CASE i <= Len(p)
    <3>1. (p \o q)[i] = p[i]  BY <1>1, <2>1
    <3>2. i \in 1 .. Len(p)  BY <2>1
    <3>3. QED  BY <3>1, <3>2
  <2>2. CASE i > Len(p)
    <3>1. (p \o q)[i] = q[i - Len(p)]  BY <1>1, <2>2
    <3>2. i - Len(p) \in 1 .. Len(q)  BY <1>1, <2>2
    <3>3. q[i - Len(p)] = c + Len(p) + (i - Len(p))  BY <3>2
    <3>4. QED  BY <3>1, <3>3
  <2>3. QED  BY <2>1, <2>2
<1>3. QED  BY <1>1, <1>2

LEMMA RunIsConsecutive ==
  ASSUME NEW p \in Seq(Int), NEW c \in Int, \A i \in 1 .. Len(p) : p[i] = c + i
  PROVE  Consecutive(p)
<1> SUFFICES ASSUME NEW k \in 1 .. Len(p) - 1 PROVE p[k + 1] = p[k] + 1
  BY DEF Consecutive
<1>1. k \in 1 .. Len(p) /\ k + 1 \in 1 .. Len(p)  OBVIOUS
<1>2. QED  BY <1>1

(* ViewerGapless: what a viewer was, is being and will be sent is a run of *)
(* units without a gap (publish and serveTS, restream/ts.go).              *)
THEOREM NoGap == Spec => []ViewerGapless
<1>1. BroadcastInv => ViewerGapless
  <2> SUFFICES ASSUME BroadcastInv, NEW v \in Viewers PROVE Consecutive(Stream(v))
    BY DEF ViewerGapless
  <2>1. data[v] \in Seq(Int) /\ got[v] \in Seq(Int) /\ hand[v] \in Int
    BY DEF BroadcastInv, Typed
  <2>2. CASE viewer[v] = "gone"
    <3>1. PICK c \in Int : \A i \in 1 .. Len(got[v]) : got[v][i] = c + i
      BY <2>2 DEF BroadcastInv, StreamInv
    <3>2. QED  BY <2>1, <2>2, <3>1, RunIsConsecutive DEF Stream
  <2>3. CASE viewer[v] # "gone"
    <3>1. PICK e \in Int : EndsWith(v, e)  BY <2>3 DEF BroadcastInv, StreamInv
    <3> DEFINE c == e - Len(data[v]) - Held(v) - Len(got[v])
    <3>2. /\ Taken(v) \in Seq(Int) /\ Len(Taken(v)) = Held(v) /\ Held(v) \in Nat
          /\ Len(data[v]) \in Nat /\ Len(got[v]) \in Nat /\ c \in Int
      BY <2>1 DEF Taken, Held
    <3>3. \A i \in 1 .. Len(got[v]) : got[v][i] = c + i  BY <3>1 DEF EndsWith
    <3>4. \A i \in 1 .. Len(Taken(v)) : Taken(v)[i] = c + Len(got[v]) + i
      <4>1. CASE viewer[v] \in {"taken", "writing"}
        <5>1. Taken(v) = <<hand[v]>> /\ Held(v) = 1 /\ hand[v] = e - Len(data[v])
          BY <3>1, <4>1 DEF Taken, Held, EndsWith
        <5>2. e - Len(data[v]) = c + Len(got[v]) + 1  BY <3>2, <5>1
        <5>3. \A i \in 1 .. Len(Taken(v)) : i = 1 /\ Taken(v)[i] = hand[v]  BY <5>1
        <5>4. QED  BY <5>1, <5>2, <5>3
      <4>2. CASE viewer[v] \notin {"taken", "writing"}  BY <3>2, <4>2 DEF Held
      <4>3. QED  BY <4>1, <4>2
    <3> DEFINE d == c + Len(got[v]) + Held(v)
    <3>5. d = e - Len(data[v])  BY <3>2
    <3>6. \A i \in 1 .. Len(data[v]) : data[v][i] = d + i  BY <3>1, <3>5 DEF EndsWith
    <3> HIDE DEF c, d
    <3>7. /\ got[v] \o Taken(v) \in Seq(Int) /\ Len(got[v] \o Taken(v)) = Len(got[v]) + Held(v)
          /\ \A i \in 1 .. Len(got[v] \o Taken(v)) : (got[v] \o Taken(v))[i] = c + i
      <4> HIDE DEF c
      <4> DEFINE g == got[v]
      <4> DEFINE t == Taken(v)
      <4>1. /\ g \in Seq(Int) /\ t \in Seq(Int) /\ c \in Int
            /\ \A i \in 1 .. Len(g) : g[i] = c + i
            /\ \A i \in 1 .. Len(t) : t[i] = c + Len(g) + i
        BY <2>1, <3>2, <3>3, <3>4
      <4> HIDE DEF g, t
      <4>2. /\ g \o t \in Seq(Int) /\ Len(g \o t) = Len(g) + Len(t)
            /\ \A i \in 1 .. Len(g \o t) : (g \o t)[i] = c + i
        BY <4>1, Joined
      <4>3. QED  BY <3>2, <4>2 DEF g, t
    <3>8. c + Len(got[v] \o Taken(v)) = d  BY <3>2, <3>7 DEF d
    <3> DEFINE p == got[v] \o Taken(v)
    <3> HIDE DEF p
    <3>9. /\ p \in Seq(Int) /\ c \in Int /\ \A i \in 1 .. Len(p) : p[i] = c + i
          /\ \A i \in 1 .. Len(data[v]) : data[v][i] = c + Len(p) + i
      BY <3>2, <3>6, <3>7, <3>8 DEF p
    <3>10. /\ p \o data[v] \in Seq(Int)
           /\ \A i \in 1 .. Len(p \o data[v]) : (p \o data[v])[i] = c + i
      BY <2>1, <3>9, Joined
    <3>11. Consecutive(p \o data[v])  BY <3>9, <3>10, RunIsConsecutive
    <3>12. QED  BY <2>3, <3>11 DEF Stream, p
  <2>4. QED  BY <2>2, <2>3
<1>2. QED  BY <1>1, BroadcastInvariance, PTL

(* TailDelivered: a viewer served until the end of a broadcast that was    *)
(* not canceled, and not kicked, has the last unit (serveTS and End).      *)
THEOREM TailIsSent == Spec => []TailDelivered
<1>1. BroadcastInv => TailDelivered
  <2> SUFFICES ASSUME BroadcastInv, NEW v \in Viewers, viewer[v] = "served",
                      v \notin kicked, ~canceled, published > 0
               PROVE  got[v] # <<>> /\ Last(got[v]) = published
    BY DEF TailDelivered
  <2>1. Len(got[v]) > 0 /\ got[v][Len(got[v])] = published  BY DEF BroadcastInv, TailInv
  <2>2. got[v] # <<>>  BY <2>1
  <2>3. QED  BY <2>1, <2>2 DEF Last
<1>2. QED  BY <1>1, BroadcastInvariance, PTL
--------------------------------------------------------------------------------
(***************************************************************************)
(* The bytes of a queue are a sum over a sequence.  The library's theorems *)
(* of induction take a predicate; UpTo takes a set, and rests on the least *)
(* number principle, which finite subsets have by their well-founded order.*)
(***************************************************************************)

(* A set of numbers that has one has a least one.                          *)
LEMMA Least ==
  ASSUME NEW T, T \subseteq Nat, T # {} PROVE \E m \in T : \A k \in T : m <= k
<1>1. PICK n \in T : TRUE  OBVIOUS
<1> DEFINE U == {0 .. k : k \in {k \in T : k <= n}}
           R == StrictSubsetOrdering(0 .. n)
           S == SUBSET (0 .. n)
<1>2. IsFiniteSet(0 .. n)  BY <1>1, FS_Interval
<1>3. IsWellFoundedOn(R, S)
  BY <1>2, FS_StrictSubsetOrderingWellFounded, FS_FiniteSubsetsOfFinite
<1>4. U \subseteq S /\ U # {}  BY <1>1
<1>5. \E x \in U : \A y \in U : ~(<<y, x>> \in R)
  <2> HIDE DEF R, S, U
  <2>1. QED  BY <1>3, <1>4, WFMin
<1>6. PICK m \in T : m <= n /\ \A y \in U : ~(<<y, 0 .. m>> \in R)  BY <1>5
<1>7. ASSUME NEW k \in T, k < m PROVE FALSE
  <2>1. 0 .. k \in U
    <3> HIDE DEF R, S
    <3>1. n \in Nat /\ m \in Nat /\ k \in Nat /\ m <= n /\ k < m  BY <1>1, <1>6, <1>7
    <3>2. k <= n  BY <3>1
    <3>3. QED  BY <1>7, <3>2
  <2>2. <<0 .. k, 0 .. m>> \in R  BY <1>1, <1>4, <1>6, <1>7, <2>1 DEF StrictSubsetOrdering
  <2>3. QED  BY <1>6, <2>1, <2>2
<1>8. QED  BY <1>6, <1>7

(* Induction up to n, over a set.                                          *)
LEMMA UpTo ==
  ASSUME NEW n \in Nat, NEW T, 0 \in T, \A k \in 0 .. n - 1 : k \in T => k + 1 \in T
  PROVE  0 .. n \subseteq T
<1> DEFINE F == (0 .. n) \ T
<1>1. ASSUME F # {} PROVE FALSE
  <2>1. F \subseteq Nat  OBVIOUS
  <2> HIDE DEF F
  <2>2. PICK m \in F : \A k \in F : m <= k  BY <1>1, <2>1, Least
  <2> USE DEF F
  <2>3. m \in 1 .. n /\ m - 1 \in 0 .. n - 1 /\ m - 1 \notin F  BY <2>2
  <2>4. m - 1 \in T /\ (m - 1) + 1 = m  BY <2>3
  <2>5. QED  BY <2>2, <2>3, <2>4
<1>2. QED  BY <1>1

(* The sums of the units before each place.                                *)
Sums(units, n, f) ==
  /\ f \in [0 .. n -> Nat] /\ f[0] = 0
  /\ \A k \in 1 .. n : f[k] = f[k - 1] + Size[units[k]]

LEMMA SumsExist ==
  ASSUME NEW s \in Seq(1 .. Units) PROVE \E f : Sums(s, Len(s), f)
<1> DEFINE T == {k \in 0 .. Len(s) : \E f : Sums(s, k, f)}
<1>1. 0 \in T
  <2>1. Sums(s, 0, [k \in 0 .. 0 |-> 0])  BY DEF Sums
  <2>2. QED  BY <2>1
<1>2. ASSUME NEW k \in 0 .. Len(s) - 1, k \in T PROVE k + 1 \in T
  <2>1. PICK f : Sums(s, k, f)  BY <1>2
  <2> DEFINE g == [i \in 0 .. k + 1 |-> IF i <= k THEN f[i] ELSE f[k] + Size[s[k + 1]]]
  <2>2. Sums(s, k + 1, g)
    <3>1. k \in Nat /\ k + 1 \in 1 .. Len(s) /\ Size[s[k + 1]] \in Nat  BY BroadcastAssumption
    <3>2. \A i \in 0 .. k + 1 :
            IF i <= k THEN i \in 0 .. k /\ g[i] = f[i]
                      ELSE i = k + 1 /\ g[i] = f[k] + Size[s[k + 1]]
      BY <3>1
    <3>3. g \in [0 .. k + 1 -> Nat]  BY <2>1, <3>1 DEF Sums
    <3> HIDE DEF g
    <3>4. g[0] = 0  BY <2>1, <3>1, <3>2 DEF Sums
    <3>5. ASSUME NEW i \in 1 .. k + 1 PROVE g[i] = g[i - 1] + Size[s[i]]
      <4>1. i - 1 \in 0 .. k /\ i \in 0 .. k + 1 /\ i - 1 \in 0 .. k + 1  BY <3>1
      <4>2. g[i - 1] = f[i - 1]  BY <3>2, <4>1
      <4>3. CASE i <= k
        <5>1. i \in 1 .. k /\ i \in 0 .. k /\ g[i] = f[i]  BY <3>1, <3>2, <4>1, <4>3
        <5>2. f[i] = f[i - 1] + Size[s[i]]  BY <2>1, <5>1 DEF Sums
        <5>3. QED  BY <4>2, <5>1, <5>2
      <4>4. CASE i = k + 1  BY <3>1, <3>2, <4>1, <4>2, <4>4
      <4>5. QED  BY <3>1, <4>3, <4>4
    <3>6. QED  BY <3>3, <3>4, <3>5 DEF Sums
  <2>3. k + 1 \in 0 .. Len(s)  OBVIOUS
  <2>4. QED  BY <2>2, <2>3
<1>3. Len(s) \in Nat  OBVIOUS
<1> HIDE DEF T
<1>4. 0 .. Len(s) \subseteq T  BY <1>1, <1>2, <1>3, UpTo
<1>5. QED  BY <1>3, <1>4 DEF T

LEMMA BytesSum ==
  ASSUME NEW s \in Seq(1 .. Units) PROVE \E f : Sums(s, Len(s), f) /\ Bytes(s) = f[Len(s)]
<1> DEFINE D(f) == [k \in 0 .. Len(s) |-> IF k = 0 THEN 0 ELSE f[k - 1] + Size[s[k]]]
           sum == CHOOSE f : f = D(f)
<1>1. PICK f : Sums(s, Len(s), f)  BY SumsExist
<1>2. f = D(f)  BY <1>1 DEF Sums
<1>3. sum = D(sum)  BY <1>2
<1>4. Bytes(s) = sum[Len(s)]  BY DEF Bytes
<1>5. Sums(s, Len(s), sum)
  <2> DEFINE n == Len(s)
  <2> HIDE DEF sum
  <2>1. n \in Nat /\ DOMAIN sum = 0 .. n /\ sum[0] = 0
    BY <1>3
  <2>2. \A k \in 1 .. n : sum[k] = sum[k - 1] + Size[s[k]]
    BY <1>3
  <2> DEFINE T == {k \in 0 .. n : sum[k] \in Nat}
  <2>3. 0 \in T  BY <2>1
  <2>4. ASSUME NEW k \in 0 .. n - 1, k \in T PROVE k + 1 \in T
    <3>1. k + 1 \in 1 .. n /\ Size[s[k + 1]] \in Nat /\ (k + 1) - 1 = k  BY BroadcastAssumption
    <3>2. sum[k + 1] = sum[k] + Size[s[k + 1]]  BY <2>2, <3>1
    <3> QED  BY <2>4, <3>1, <3>2
  <2> HIDE DEF n, T
  <2>5. 0 .. n \subseteq T  BY <2>1, <2>3, <2>4, UpTo
  <2>6. sum = [k \in 0 .. Len(s) |-> sum[k]]  BY <1>3
  <2>7. QED  BY <2>1, <2>2, <2>5, <2>6 DEF n, T, Sums
<1>6. QED  BY <1>4, <1>5

(* Sums of a part are the differences of the sums.                         *)
LEMMA SumsOfPart ==
  ASSUME NEW s \in Seq(1 .. Units), NEW t \in Seq(1 .. Units), NEW f, NEW g,
         Sums(s, Len(s), f), Sums(t, Len(t), g),
         NEW o \in Nat, NEW n \in Nat, o + n <= Len(s), n <= Len(t),
         \A k \in 1 .. n : t[k] = s[o + k]
  PROVE  g[n] = f[o + n] - f[o]
<1> DEFINE T == {k \in 0 .. n : g[k] = f[o + k] - f[o]}
<1>1. 0 \in T
  <2>1. f[o] \in Nat /\ g[0] = 0 /\ o + 0 = o  BY DEF Sums
  <2>2. QED  BY <2>1
<1>2. ASSUME NEW k \in 0 .. n - 1, k \in T PROVE k + 1 \in T
  <2>1. k + 1 \in 1 .. Len(t) /\ o + k + 1 \in 1 .. Len(s) /\ k + 1 \in 1 .. n  OBVIOUS
  <2>2. g[k + 1] = g[k] + Size[t[k + 1]]  BY <2>1 DEF Sums
  <2>3. f[o + k + 1] = f[o + k] + Size[s[o + k + 1]]  BY <2>1 DEF Sums
  <2>4. t[k + 1] = s[o + k + 1]  BY <2>1
  <2>5. Size[t[k + 1]] \in Nat
    <3>1. t[k + 1] \in 1 .. Units  BY <2>1, ElementOfSeq
    <3>2. QED  BY <3>1, BroadcastAssumption
  <2>6. f[o] \in Nat /\ f[o + k] \in Nat
    <3>1. o \in 0 .. Len(s) /\ o + k \in 0 .. Len(s)  OBVIOUS
    <3>2. QED  BY <3>1 DEF Sums
  <2>7. g[k] = f[o + k] - f[o]  BY <1>2
  <2>8. g[k + 1] = f[o + k + 1] - f[o]  BY <2>2, <2>3, <2>4, <2>5, <2>6, <2>7, SMTT(30)
  <2>9. QED  BY <2>8
<1> HIDE DEF T
<1>3. 0 .. n \subseteq T  BY <1>1, <1>2, UpTo
<1>4. QED  BY <1>3 DEF T

LEMMA BytesNat == ASSUME NEW s \in Seq(1 .. Units) PROVE Bytes(s) \in Nat
<1>1. PICK f : Sums(s, Len(s), f) /\ Bytes(s) = f[Len(s)]  BY BytesSum
<1>2. QED  BY <1>1 DEF Sums

LEMMA BytesEmpty == Bytes(<<>>) = 0
<1>1. <<>> \in Seq(1 .. Units) /\ Len(<<>>) = 0  OBVIOUS
<1>2. PICK f : Sums(<<>>, 0, f) /\ Bytes(<<>>) = f[0]  BY <1>1, BytesSum
<1>3. QED  BY <1>2 DEF Sums

(* What the bytes of a queue are after each of its operations.             *)
LEMMA BytesOf ==
  ASSUME NEW s \in Seq(1 .. Units), NEW u \in 1 .. Units
  PROVE  /\ Bytes(<<u>>) = Size[u]
         /\ Bytes(Append(s, u)) = Bytes(s) + Size[u]
         /\ s # <<>> => Bytes(Tail(s)) = Bytes(s) - Size[Head(s)]
<1>1. Bytes(s) \in Nat  BY BytesNat
<1>2. Bytes(<<>>) = 0  BY BytesEmpty
<1>3. ASSUME NEW t \in Seq(1 .. Units) PROVE Bytes(Append(t, u)) = Bytes(t) + Size[u]
  <2>1. PICK f : Sums(t, Len(t), f) /\ Bytes(t) = f[Len(t)]  BY BytesSum
  <2> DEFINE a == Append(t, u)
  <2>2. /\ a \in Seq(1 .. Units) /\ Len(a) = Len(t) + 1 /\ a[Len(t) + 1] = u
        /\ \A k \in 1 .. Len(t) : t[k] = a[0 + k]
    OBVIOUS
  <2> HIDE DEF a
  <2>3. PICK g : Sums(a, Len(a), g) /\ Bytes(a) = g[Len(a)]  BY <2>2, BytesSum
  <2>4. f[Len(t)] = g[0 + Len(t)] - g[0]
    <3> DEFINE o == 0
               n == Len(t)
    <3>1. /\ o \in Nat /\ n \in Nat /\ o + n <= Len(a) /\ n <= Len(t)
          /\ \A k \in 1 .. n : t[k] = a[o + k]
      BY <2>2
    <3>2. a \in Seq(1 .. Units)  BY <2>2
    <3> HIDE DEF o, n
    <3>3. f[n] = g[o + n] - g[o]  BY <2>1, <2>3, <3>1, <3>2, SumsOfPart
    <3>4. QED  BY <3>3 DEF o, n
  <2>5. g[0] = 0 /\ g[Len(t)] \in Nat /\ g[Len(t) + 1] = g[Len(t)] + Size[u]
    <3>1. 0 \in 0 .. Len(a) /\ Len(t) \in 0 .. Len(a)  BY <2>2
    <3>2. Len(t) + 1 \in 1 .. Len(a) /\ (Len(t) + 1) - 1 = Len(t)  BY <2>2
    <3>3. QED  BY <2>2, <2>3, <3>1, <3>2 DEF Sums
  <2>6. Bytes(a) = g[Len(t) + 1]  BY <2>2, <2>3
  <2>7. QED  BY <2>1, <2>4, <2>5, <2>6 DEF a
<1>4. Bytes(<<u>>) = Size[u]
  <2>1. <<>> \in Seq(1 .. Units) /\ Append(<<>>, u) = <<u>> /\ Size[u] \in Nat
    BY BroadcastAssumption
  <2>2. Bytes(Append(<<>>, u)) = Bytes(<<>>) + Size[u]  BY <1>3, <2>1
  <2>3. QED  BY <1>2, <2>1, <2>2
<1>5. ASSUME s # <<>> PROVE Bytes(Tail(s)) = Bytes(s) - Size[Head(s)]
  <2> DEFINE t == Tail(s)
  <2>1. /\ t \in Seq(1 .. Units) /\ Len(s) = Len(t) + 1 /\ Head(s) = s[1]
        /\ \A k \in 1 .. Len(t) : t[k] = s[1 + k]
    BY <1>5
  <2> HIDE DEF t
  <2>2. PICK f, g : /\ Sums(s, Len(s), f) /\ Bytes(s) = f[Len(s)]
                    /\ Sums(t, Len(t), g) /\ Bytes(t) = g[Len(t)]
    BY <2>1, BytesSum
  <2>3. g[Len(t)] = f[1 + Len(t)] - f[1]
    <3> DEFINE o == 1
               n == Len(t)
    <3>1. /\ o \in Nat /\ n \in Nat /\ o + n <= Len(s) /\ n <= Len(t)
          /\ \A k \in 1 .. n : t[k] = s[o + k]
      BY <2>1
    <3> HIDE DEF o, n
    <3>2. g[n] = f[o + n] - f[o]  BY <2>1, <2>2, <3>1, SumsOfPart
    <3>3. QED  BY <3>2 DEF o, n
  <2>4. f[1] = Size[s[1]]  BY <2>1, <2>2, BroadcastAssumption DEF Sums
  <2>5. QED  BY <2>1, <2>2, <2>3, <2>4 DEF t
<1>6. QED  BY <1>1, <1>2, <1>3, <1>4, <1>5

--------------------------------------------------------------------------------
(***************************************************************************)
(* The budget.  The byte count of a subscriber is what its queue holds,    *)
(* plus the unit the handler took and has not uncounted, minus the one the *)
(* producer sent and has not counted.  While the producer decides nothing  *)
(* is uncounted, so that the count is at least the bytes that wait.        *)
(***************************************************************************)

Uncounted(v) == IF viewer[v] = "taken" THEN Size[hand[v]] ELSE 0
Unsent(v) == IF producer = "count" /\ sending = v THEN Size[published] ELSE 0

CountInv(v) ==
  /\ queued[v] = Bytes(data[v]) + Uncounted(v) - Unsent(v)
  /\ Bytes(data[v]) <= Budget \/ Len(data[v]) = 1

QueueTyped ==
  /\ data \in [Viewers -> Seq(1 .. Units)]
  /\ queued \in [Viewers -> Int]
  /\ \A v \in Viewers : viewer[v] = "taken" => hand[v] \in 1 .. Units
  /\ sending \in Viewers
  /\ producer = "count" => viewer[sending] \notin {"out", "join"}

QueueInv == QueueTyped /\ \A v \in Viewers : CountInv(v)

LEMMA QueueInit == Init => QueueInv
<1> SUFFICES ASSUME Init PROVE QueueInv  OBVIOUS
<1>1. <<>> \in Seq(1 .. Units)  OBVIOUS
<1>2. QueueTyped  BY <1>1 DEF Init, QueueTyped
<1>3. ASSUME NEW v \in Viewers PROVE CountInv(v)
  <2>1. data[v] = <<>> /\ queued[v] = 0 /\ viewer[v] = "out" /\ producer = "idle"
    BY DEF Init
  <2>2. Bytes(<<>>) = 0  BY BytesEmpty
  <2>3. QED  BY <2>1, <2>2, BroadcastAssumption DEF CountInv, Uncounted, Unsent
<1>4. QED  BY <1>2, <1>3 DEF QueueInv

(* What the count of a viewer is made of.                                  *)
LEMMA Parts ==
  ASSUME BroadcastInv, QueueInv, NEW v \in Viewers
  PROVE  /\ data[v] \in Seq(1 .. Units) /\ Bytes(data[v]) \in Nat /\ queued[v] \in Int
         /\ Uncounted(v) \in Nat /\ Unsent(v) \in Nat /\ CountInv(v)
         /\ producer = "count" => published \in 1 .. Units /\ Size[published] \in Nat
<1> USE BroadcastAssumption DEF QueueInv, QueueTyped
<1>1. data[v] \in Seq(1 .. Units) /\ queued[v] \in Int /\ CountInv(v)  OBVIOUS
<1>2. Uncounted(v) \in Nat  BY DEF Uncounted
<1>3. producer = "count" => published \in 1 .. Units /\ Size[published] \in Nat
  BY DEF BroadcastInv, LoopInv, Typed
<1>4. Unsent(v) \in Nat  BY <1>3 DEF Unsent
<1>5. Bytes(data[v]) \in Nat  BY <1>1, BytesNat
<1>6. QED  BY <1>1, <1>2, <1>3, <1>4, <1>5

(* A viewer whose queue, count and hand a step leaves alone.               *)
LEMMA SameCount ==
  ASSUME NEW v \in Viewers, CountInv(v),
         data'[v] = data[v], queued'[v] = queued[v],
         Uncounted(v)' = Uncounted(v), Unsent(v)' = Unsent(v)
  PROVE  CountInv(v)'
BY DEF CountInv

LEMMA OfferCounts ==
  ASSUME BroadcastInv, QueueInv, NEW v \in Viewers, Offer(v)
  PROVE  QueueInv'
<1>1. /\ producer = "fanout" /\ v \in subs /\ viewer' = viewer /\ hand' = hand
      /\ queued' = queued /\ published' = published /\ published \in 1 .. Units
  BY DEF Offer, handler, BroadcastInv, LoopInv, Typed
<1>2. viewer[v] \notin {"out", "join"}  BY <1>1 DEF BroadcastInv, MemberInv
<1>3. CASE Fits(v)
  <2>1. /\ data' = [data EXCEPT ![v] = Append(data[v], published)]
        /\ producer' = "count" /\ sending' = v
    BY <1>3 DEF Offer
  <2>2. Append(data[v], published) \in Seq(1 .. Units)
    BY <1>1 DEF QueueInv, QueueTyped
  <2>3. QueueTyped'
    BY <1>1, <1>2, <2>1, <2>2 DEF QueueInv, QueueTyped
  <2>4. ASSUME NEW k \in Viewers PROVE CountInv(k)'
    <3>1. CASE k # v
      <4>1. Uncounted(k)' = Uncounted(k) /\ Unsent(k)' = Unsent(k)
        BY <1>1, <2>1, <3>1 DEF Uncounted, Unsent
      <4>2. data'[k] = data[k] /\ CountInv(k)
        BY <2>1, <3>1 DEF QueueInv, QueueTyped
      <4>3. QED  BY <1>1, <4>1, <4>2, SameCount
    <3>2. CASE k = v
      <4>1. Bytes(data'[v]) = Bytes(data[v]) + Size[published]
        BY <1>1, <2>1, BytesOf DEF QueueInv, QueueTyped
      <4>2. Unsent(v) = 0 /\ Unsent(v)' = Size[published] /\ Uncounted(v)' = Uncounted(v)
        BY <1>1, <2>1 DEF Unsent, Uncounted
      <4>3. Size[published] \in Nat /\ Budget \in Nat /\ queued'[v] = queued[v]
        BY <1>1, BroadcastAssumption
      <4>4. queued[v] = Bytes(data[v]) + Uncounted(v) /\ queued[v] + Size[published] <= Budget
        BY <1>3, <4>2, Parts DEF CountInv, Fits
      <4>5. Bytes(data'[v]) <= Budget  BY <4>1, <4>3, <4>4, Parts, SMTT(30)
      <4>6. queued'[v] = Bytes(data'[v]) + Uncounted(v)' - Unsent(v)'
        BY <4>1, <4>2, <4>3, <4>4, Parts
      <4>7. QED  BY <3>2, <4>5, <4>6 DEF CountInv
    <3>3. QED  BY <3>1, <3>2
  <2>5. QED  BY <2>3, <2>4 DEF QueueInv
<1>4. CASE ~Fits(v)
  <2>1. UNCHANGED <<data, producer, sending>>  BY <1>4 DEF Offer
  <2>2. QueueTyped'  BY <1>1, <2>1 DEF QueueInv, QueueTyped
  <2>3. ASSUME NEW k \in Viewers PROVE CountInv(k)'
    BY <1>1, <2>1 DEF QueueInv, CountInv, Uncounted, Unsent
  <2>4. QED  BY <2>2, <2>3 DEF QueueInv
<1>5. QED  BY <1>3, <1>4

LEMMA CountCounts == BroadcastInv /\ QueueInv /\ Count => QueueInv'
<1> SUFFICES ASSUME BroadcastInv, QueueInv, Count PROVE QueueInv'  OBVIOUS
<1>1. /\ producer = "count" /\ producer' = "fanout" /\ sending \in Viewers
      /\ queued' = [queued EXCEPT ![sending] = queued[sending] + Size[published]]
      /\ data' = data /\ viewer' = viewer /\ hand' = hand /\ sending' = sending
  BY DEF Count, handler, QueueInv, QueueTyped
<1>2. Size[published] \in Nat  BY <1>1, Parts
<1>3. QueueTyped'  BY <1>1, <1>2 DEF QueueInv, QueueTyped
<1>4. ASSUME NEW k \in Viewers PROVE CountInv(k)'
  <2>1. Uncounted(k)' = Uncounted(k) /\ Unsent(k)' = 0  BY <1>1 DEF Uncounted, Unsent
  <2>2. CountInv(k) /\ queued \in [Viewers -> Int]  BY DEF QueueInv, QueueTyped
  <2>3. CASE k # sending
    <3>1. Unsent(k) = 0 /\ queued'[k] = queued[k]  BY <1>1, <2>2, <2>3 DEF Unsent
    <3>2. QED  BY <1>1, <2>1, <2>2, <3>1, SameCount
  <2>4. CASE k = sending
    <3>1. Unsent(k) = Size[published] /\ queued'[k] = queued[k] + Size[published]
      BY <1>1, <2>2, <2>4 DEF Unsent
    <3>2. queued[k] = Bytes(data[k]) + Uncounted(k) - Size[published]
      BY <2>2, <3>1 DEF CountInv
    <3>3. Bytes(data[k]) \in Nat /\ Uncounted(k) \in Nat /\ queued[k] \in Int  BY Parts
    <3>4. queued'[k] = Bytes(data'[k]) + Uncounted(k)' - Unsent(k)'
      BY <1>1, <1>2, <2>1, <3>1, <3>2, <3>3
    <3>5. QED  BY <1>1, <2>2, <3>4 DEF CountInv
  <2>5. QED  BY <2>3, <2>4
<1>5. QED  BY <1>3, <1>4 DEF QueueInv

LEMMA SubscribeCounts ==
  ASSUME BroadcastInv, QueueInv, NEW v \in Viewers, Subscribe(v)
  PROVE  QueueInv'
<1> DEFINE primed == IF published > 0 THEN <<published>> ELSE <<>>
           bytes  == IF published > 0 THEN Size[published] ELSE 0
<1>1. /\ viewer[v] = "join" /\ producer # "count" /\ viewer' = [viewer EXCEPT ![v] = "look"]
      /\ data' = [data EXCEPT ![v] = primed] /\ queued' = [queued EXCEPT ![v] = bytes]
      /\ producer' = producer /\ sending' = sending /\ published' = published /\ hand' = hand
  BY DEF Subscribe, Unlocked, produce
<1>2. primed \in Seq(1 .. Units) /\ bytes \in Nat /\ bytes = Bytes(primed)
  <2>1. CASE published > 0
    <3>1. published \in 1 .. Units  BY <2>1, BroadcastAssumption DEF BroadcastInv, Typed
    <3>2. Bytes(<<published>>) = Size[published]
      <4>1. <<>> \in Seq(1 .. Units)  OBVIOUS
      <4>2. QED  BY <3>1, <4>1, BytesOf
    <3>3. <<published>> \in Seq(1 .. Units) /\ Size[published] \in Nat
      BY <3>1, BroadcastAssumption
    <3>4. QED  BY <2>1, <3>2, <3>3
  <2>2. CASE ~(published > 0)
    <3>1. <<>> \in Seq(1 .. Units)  OBVIOUS
    <3>2. QED  BY <2>2, <3>1, BytesEmpty
  <2>3. QED  BY <2>1, <2>2
<1>3. bytes = 0 \/ Len(primed) = 1  OBVIOUS
<1> HIDE DEF primed, bytes
<1>4. QueueTyped'
  BY <1>1, <1>2 DEF QueueInv, QueueTyped, BroadcastInv, Typed
<1>5. ASSUME NEW k \in Viewers PROVE CountInv(k)'
  <2>1. Unsent(k) = 0 /\ Unsent(k)' = 0  BY <1>1 DEF Unsent
  <2>2. CountInv(k) /\ queued \in [Viewers -> Int] /\ data \in [Viewers -> Seq(1 .. Units)]
    BY DEF QueueInv, QueueTyped
  <2>3. CASE k # v
    <3>1. Uncounted(k)' = Uncounted(k) /\ queued'[k] = queued[k] /\ data'[k] = data[k]
      BY <1>1, <2>2, <2>3 DEF Uncounted, BroadcastInv, Typed
    <3>2. QED  BY <2>1, <2>2, <3>1, SameCount
  <2>4. CASE k = v
    <3>1. Uncounted(k)' = 0 /\ queued'[k] = bytes /\ data'[k] = primed
      BY <1>1, <2>2, <2>4 DEF Uncounted, BroadcastInv, Typed
    <3>2. QED  BY <1>2, <1>3, <2>1, <3>1, BroadcastAssumption DEF CountInv
  <2>5. QED  BY <2>3, <2>4
<1>6. QED  BY <1>4, <1>5 DEF QueueInv

LEMMA ReceiveCounts ==
  ASSUME BroadcastInv, QueueInv, NEW v \in Viewers, Receive(v)
  PROVE  QueueInv'
<1>1. /\ viewer[v] \in {"wait", "drain"} /\ data[v] # <<>>
      /\ viewer' = [viewer EXCEPT ![v] = "taken"]
      /\ data' = [data EXCEPT ![v] = Tail(data[v])]
      /\ hand' = [hand EXCEPT ![v] = Head(data[v])]
      /\ producer' = producer /\ sending' = sending /\ published' = published
      /\ queued' = queued
  BY DEF Receive, produce
<1>2. data \in [Viewers -> Seq(1 .. Units)] /\ data[v] \in Seq(1 .. Units)
  BY DEF QueueInv, QueueTyped
<1>3. Head(data[v]) \in 1 .. Units /\ Tail(data[v]) \in Seq(1 .. Units)
      /\ (Len(data[v]) = 1 => Tail(data[v]) = <<>>)
  <2> DEFINE q == data[v]
  <2>1. q \in Seq(1 .. Units) /\ q # <<>>  BY <1>1, <1>2
  <2> HIDE DEF q
  <2>2. Head(q) \in 1 .. Units /\ Tail(q) \in Seq(1 .. Units) /\ Len(Tail(q)) = Len(q) - 1
    BY <2>1, HeadTailProperties
  <2>3. Len(q) = 1 => Tail(q) = <<>>
    <3>1. \A t \in Seq(1 .. Units) : Len(t) = 0 => t = <<>>  BY EmptySeq
    <3>2. ASSUME Len(q) = 1 PROVE Len(Tail(q)) = 0  BY <2>2, <3>2
    <3>3. QED  BY <2>2, <3>1, <3>2
  <2>4. QED  BY <2>2, <2>3 DEF q
<1>4. QueueTyped'
  BY <1>1, <1>2, <1>3 DEF QueueInv, QueueTyped, BroadcastInv, Typed
<1>5. ASSUME NEW k \in Viewers PROVE CountInv(k)'
  <2>1. Unsent(k)' = Unsent(k) /\ CountInv(k)  BY <1>1 DEF Unsent, QueueInv
  <2>2. CASE k # v
    <3>1. Uncounted(k)' = Uncounted(k) /\ queued'[k] = queued[k] /\ data'[k] = data[k]
      BY <1>1, <1>2, <2>2 DEF Uncounted, BroadcastInv, Typed
    <3>2. QED  BY <2>1, <3>1, SameCount
  <2>3. CASE k = v
    <3>1. /\ Uncounted(k) = 0 /\ Uncounted(k)' = Size[Head(data[v])]
          /\ queued'[k] = queued[k] /\ data'[k] = Tail(data[v])
      BY <1>1, <1>2, <2>3 DEF Uncounted, BroadcastInv, Typed
    <3>2. /\ Bytes(Tail(data[v])) = Bytes(data[v]) - Size[Head(data[v])]
          /\ Size[Head(data[v])] \in Nat
      BY <1>1, <1>2, <1>3, BytesOf, BroadcastAssumption
    <3>3. queued'[k] = Bytes(data'[k]) + Uncounted(k)' - Unsent(k)'
      BY <2>1, <2>3, <3>1, <3>2, Parts DEF CountInv
    <3>4. Bytes(data'[k]) <= Budget
      <4>1. CASE Bytes(data[v]) <= Budget
        BY <1>2, <3>1, <3>2, <4>1, Parts, BroadcastAssumption, SMTT(30)
      <4>2. CASE Len(data[v]) = 1
        <5>1. data'[k] = <<>>  BY <1>3, <3>1, <4>2
        <5>2. QED  BY <5>1, BytesEmpty, BroadcastAssumption
      <4>3. QED  BY <2>1, <2>3, <4>1, <4>2 DEF CountInv
    <3>5. QED  BY <3>3, <3>4 DEF CountInv
  <2>4. QED  BY <2>2, <2>3
<1>6. QED  BY <1>4, <1>5 DEF QueueInv

LEMMA UncountCounts ==
  ASSUME BroadcastInv, QueueInv, NEW v \in Viewers, Uncount(v)
  PROVE  QueueInv'
<1>1. /\ viewer[v] = "taken" /\ viewer' = [viewer EXCEPT ![v] = "writing"]
      /\ queued' = [queued EXCEPT ![v] = queued[v] - Size[hand[v]]]
      /\ producer' = producer /\ sending' = sending /\ published' = published
      /\ data' = data /\ hand' = hand
  BY DEF Uncount, produce
<1>2. queued \in [Viewers -> Int] /\ Size[hand[v]] \in Nat
  BY <1>1, BroadcastAssumption DEF QueueInv, QueueTyped
<1>3. QueueTyped'
  BY <1>1, <1>2 DEF QueueInv, QueueTyped, BroadcastInv, Typed
<1>4. ASSUME NEW k \in Viewers PROVE CountInv(k)'
  <2>1. Unsent(k)' = Unsent(k) /\ CountInv(k)  BY <1>1 DEF Unsent, QueueInv
  <2>2. CASE k # v
    <3>1. Uncounted(k)' = Uncounted(k) /\ queued'[k] = queued[k]
      BY <1>1, <1>2, <2>2 DEF Uncounted, BroadcastInv, Typed
    <3>2. QED  BY <1>1, <2>1, <3>1, SameCount
  <2>3. CASE k = v
    <3>1. /\ Uncounted(k) = Size[hand[v]] /\ Uncounted(k)' = 0
          /\ queued'[k] = queued[k] - Size[hand[v]]
      BY <1>1, <1>2, <2>3 DEF Uncounted, BroadcastInv, Typed
    <3>2. queued[k] = Bytes(data[k]) + Uncounted(k) - Unsent(k)  BY <2>1 DEF CountInv
    <3>3. Bytes(data[k]) \in Nat /\ Unsent(k) \in Nat  BY Parts
    <3>4. queued'[k] = Bytes(data'[k]) + Uncounted(k)' - Unsent(k)'
      BY <1>1, <1>2, <2>1, <3>1, <3>2, <3>3
    <3>5. QED  BY <1>1, <2>1, <3>4 DEF CountInv
  <2>4. QED  BY <2>2, <2>3
<1>5. QED  BY <1>3, <1>4 DEF QueueInv

(* The steps that move no bytes.                                           *)
LEMMA OthersCount ==
  ASSUME BroadcastInv, QueueInv,
         \/ PublishBegins \/ PublishReturns \/ Finish \/ Cancel
         \/ \E e \in Enders : End(e)
         \/ \E v \in Viewers : \/ Request(v) \/ Look(v) \/ Leave(v) \/ SeeDone(v)
                               \/ Drained(v) \/ Write(v) \/ Unsubscribe(v)
  PROVE  QueueInv'
<1>1. UNCHANGED <<data, queued, hand, sending>>
  BY DEF PublishBegins, PublishReturns, Finish, Cancel, End, CallEnd, CheckDone, CloseDone,
         Request, Look, Leave, SeeDone, Drained, Write, Unsubscribe, produce, shared, handler
<1>2. \A k \in Viewers :
        /\ viewer'[k] = "taken" <=> viewer[k] = "taken"
        /\ viewer'[k] \in {"out", "join"} => viewer[k] \in {"out", "join"}
  <2>1. CASE \/ PublishBegins \/ PublishReturns \/ Finish \/ Cancel
             \/ \E e \in Enders : End(e)
    BY <2>1 DEF PublishBegins, PublishReturns, Finish, Cancel, End, CallEnd, CheckDone,
                CloseDone, handler
  <2>2. ASSUME NEW v \in Viewers,
               \/ Request(v) \/ Look(v) \/ Leave(v) \/ SeeDone(v) \/ Drained(v)
               \/ Write(v) \/ Unsubscribe(v)
        PROVE  \A k \in Viewers :
                 /\ viewer'[k] = "taken" <=> viewer[k] = "taken"
                 /\ viewer'[k] \in {"out", "join"} => viewer[k] \in {"out", "join"}
    BY <2>2 DEF Request, Look, Leave, SeeDone, Drained, Write, Unsubscribe, handler,
                BroadcastInv, Typed
  <2>3. QED  BY <2>1, <2>2
<1>3. \/ UNCHANGED <<producer, published>>
      \/ producer # "count" /\ producer' # "count"
  BY DEF PublishBegins, PublishReturns, Finish, Cancel, End, CallEnd, CheckDone, CloseDone,
         Request, Look, Leave, SeeDone, Drained, Write, Unsubscribe, produce
<1>4. QueueTyped'  BY <1>1, <1>2, <1>3 DEF QueueInv, QueueTyped
<1>5. ASSUME NEW k \in Viewers PROVE CountInv(k)'
  <2>1. Uncounted(k)' = Uncounted(k)  BY <1>1, <1>2 DEF Uncounted
  <2>2. Unsent(k)' = Unsent(k)  BY <1>1, <1>3 DEF Unsent
  <2>3. QED  BY <1>1, <2>1, <2>2, SameCount DEF QueueInv
<1>6. QED  BY <1>4, <1>5 DEF QueueInv

(* BudgetHolds: what waits in the queue of a subscriber is within the      *)
(* budget, or the one unit it was primed with, however its handler and the *)
(* producer interleave around the byte count they share (restream/ts.go).  *)
THEOREM BudgetIsKept == Spec => []BudgetHolds
<1>1. ASSUME BroadcastInv, QueueInv, [Next]_vars PROVE QueueInv'
  <2>1. CASE Next
    BY <1>1, <2>1, OfferCounts, CountCounts, SubscribeCounts, ReceiveCounts, UncountCounts,
       OthersCount DEF Next, Produce, Serve
  <2>2. CASE UNCHANGED vars
    BY <1>1, <2>2 DEF vars, QueueInv, QueueTyped, CountInv, Uncounted, Unsent
  <2>3. QED  BY <1>1, <2>1, <2>2
<1>2. QueueInv => BudgetHolds  BY DEF QueueInv, CountInv, BudgetHolds
<1>3. QED  BY <1>1, <1>2, QueueInit, BroadcastInvariance, PTL DEF Spec
================================================================================
