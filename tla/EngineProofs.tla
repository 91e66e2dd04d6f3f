----------------------------- MODULE EngineProofs -----------------------------
(***************************************************************************)
(* Proofs about the two parts of the engine that stand before and beside   *)
(* the pipeline: the limiter, for any number of workers and any bounds,    *)
(* and the feeder, for any window, any inits and any caches.               *)
(***************************************************************************)
EXTENDS Limiter, LiveFeeder, SequenceTheorems, FiniteSetTheorems, WellFoundedInduction, TLAPS

Places == {"idle", "enter", "sleep", "woken", "fetch", "left"}

(* The workers that f has in a place: At of a function that is not wpc.    *)
Holds(f, place) == {w \in Workers : f[w] = place}

(* Any set of workers can be counted.                                      *)
LEMMA Countable ==
  ASSUME NEW f, NEW place
  PROVE  IsFiniteSet(Holds(f, place)) /\ Cardinality(Holds(f, place)) \in Nat
<1>1. IsFiniteSet(Holds(f, place))
  <2>1. Holds(f, place) \in SUBSET Workers  BY DEF Holds
  <2>2. QED  BY <2>1, FS_Subset, LimiterAssumption
<1>2. QED  BY <1>1, FS_CardinalityType

(* A worker that moves is counted in its new place and no longer in the    *)
(* old one (every step of Limiter that moves one worker).                  *)
LEMMA Moved ==
  ASSUME NEW f \in [Workers -> Places], NEW w \in Workers, NEW b \in Places,
         f[w] # b, NEW place
  PROVE  LET g == [f EXCEPT ![w] = b]
         IN  Cardinality(Holds(g, place)) =
               IF place = f[w] THEN Cardinality(Holds(f, place)) - 1
               ELSE IF place = b THEN Cardinality(Holds(f, place)) + 1
               ELSE Cardinality(Holds(f, place))
<1> DEFINE g == [f EXCEPT ![w] = b]
<1>1. IsFiniteSet(Holds(f, place))  BY Countable
<1>2. CASE place = f[w]
  <2>1. Holds(g, place) = Holds(f, place) \ {w} /\ w \in Holds(f, place)  BY <1>2 DEF Holds
  <2>2. QED  BY <1>1, <1>2, <2>1, FS_RemoveElement
<1>3. CASE place = b
  <2>1. Holds(g, place) = Holds(f, place) \cup {w} /\ w \notin Holds(f, place)  BY <1>3 DEF Holds
  <2>2. QED  BY <1>1, <1>3, <2>1, FS_AddElement
<1>4. CASE place # f[w] /\ place # b
  <2>1. Holds(g, place) = Holds(f, place)  BY <1>4 DEF Holds
  <2>2. QED  BY <1>4, <2>1
<1>5. QED  BY <1>2, <1>3, <1>4

(* When every sleeper is woken nobody else changes place (Broadcast).      *)
LEMMA Woken ==
  ASSUME wpc \in [Workers -> Places]
  PROVE  /\ Broadcast \in [Workers -> Places]
         /\ Holds(Broadcast, "sleep") = {}
         /\ Holds(Broadcast, "fetch") = Holds(wpc, "fetch")
BY DEF Broadcast, Holds, Places

--------------------------------------------------------------------------------
LEMMA LimiterStarts == LimiterInit => LimiterInv
<1> SUFFICES ASSUME LimiterInit PROVE LimiterInv  OBVIOUS
<1> USE LimiterAssumption
<1>1. PICK t \in Threads :
        /\ fixed = (t > 0)
        /\ maxC = IF t > 0 THEN t ELSE AdaptiveMax
        /\ minC = Least(AdaptiveMin, maxC)
        /\ limit = IF t > 0 THEN maxC ELSE Least(AdaptiveStart, maxC)
  BY DEF LimiterInit
<1>2. \A w \in Workers : wpc[w] \in {"idle", "left"}  BY DEF LimiterInit
<1>3. LimiterTypeOK
  <2>1. wpc \in [Workers -> {"idle", "enter", "sleep", "woken", "fetch", "left"}]  BY DEF LimiterInit
  <2>2. minC \in Nat /\ maxC \in Nat /\ limit \in Nat /\ fixed \in BOOLEAN  BY <1>1 DEF Least
  <2>3. inflight \in Int /\ cooldown \in 0 .. 2 /\ prevTP \in Nat  BY DEF LimiterInit
  <2>4. closed \in BOOLEAN /\ canceled \in BOOLEAN  BY DEF LimiterInit
  <2>5. trouble \in BOOLEAN /\ ticking \in BOOLEAN /\ slowStart \in BOOLEAN  BY DEF LimiterInit
  <2>6. fixed \in BOOLEAN /\ closed \in BOOLEAN /\ canceled \in BOOLEAN  BY <2>2, <2>4
  <2>7. QED  BY ONLY <2>1, <2>2, <2>3, <2>5, <2>6, Zenon DEF LimiterTypeOK
<1>4. LimitWithinBounds  BY <1>1 DEF LimitWithinBounds, Least
<1>5. At("sleep") = {} /\ At("fetch") = {}  BY <1>2 DEF At
<1>6. Accounted  BY <1>5, FS_EmptySet DEF LimiterInit, Accounted
<1>7. QED  BY <1>3, <1>4, <1>5, <1>6 DEF LimiterInv, NoLostWakeup, LimiterInit

(* The limit a tick resizes to is between the floor and the ceiling: the   *)
(* arithmetic of decide and decideFixed.                                   *)
LEMMA Targets ==
  ASSUME LimiterTypeOK, LimitWithinBounds
  PROVE  LET in(n) == n \in Nat /\ minC <= n /\ n <= maxC
         IN  /\ in(Floored)
             /\ in(Least(maxC, limit * 2))
             /\ in(Least(maxC, limit + Step))
             /\ in(Most(minC, limit - Step))
<1> USE DEF LimiterTypeOK, LimitWithinBounds, Least, Most
<1>1. Step \in Nat /\ Step >= 1  BY DEF Step
<1>2. limit \div 2 \in Nat /\ limit \div 2 <= limit  OBVIOUS
<1>3. limit * 2 \in Nat /\ limit <= limit * 2  OBVIOUS
<1>4. QED  BY <1>1, <1>2, <1>3 DEF Floored

(* Resize to a number within the bounds.                                   *)
LEMMA Resized ==
  ASSUME LimiterInv, NEW n \in Nat, Resize(n), minC <= n, n <= maxC,
         UNCHANGED <<bounds, inflight, closed, canceled>>
  PROVE  /\ limit' \in Nat
         /\ wpc' \in [Workers -> Places]
         /\ LimitWithinBounds' /\ NoLostWakeup' /\ Accounted'
<1> USE DEF LimiterInv, LimiterTypeOK, bounds
<1>1. limit' = n  BY DEF Resize
<1>2. wpc \in [Workers -> Places]  BY DEF Places
<1>3. LimitWithinBounds'  BY <1>1 DEF LimitWithinBounds
<1>4. CASE n > limit
  <2>1. wpc' = Broadcast  BY <1>4 DEF Resize
  <2>2. At("sleep")' = {} /\ At("fetch")' = At("fetch")  BY <1>2, <2>1, Woken DEF At, Holds
  <2>3. QED  BY <1>1, <1>2, <1>3, <2>1, <2>2, Woken DEF NoLostWakeup, Accounted
<1>5. CASE ~(n > limit)
  <2>1. wpc' = wpc  BY <1>5 DEF Resize
  <2>2. At("sleep")' = At("sleep") /\ At("fetch")' = At("fetch") /\ At("woken")' = At("woken")
    BY <2>1 DEF At
  <2>3. Cardinality(At("woken")) \in Nat  BY Countable DEF At, Holds
  <2>4. NoLostWakeup'  BY <1>1, <1>5, <2>2, <2>3 DEF NoLostWakeup
  <2>5. QED  BY <1>1, <1>2, <1>3, <2>1, <2>2, <2>4 DEF Accounted
<1>6. QED  BY <1>4, <1>5

(* A tick.                                                                 *)
LEMMA Ticked == LimiterInv /\ Tick => LimiterInv'
<1> SUFFICES ASSUME LimiterInv, Tick PROVE LimiterInv'  OBVIOUS
<1> USE DEF LimiterInv
<1>1. UNCHANGED <<bounds, inflight, closed, canceled, ticking>> /\ trouble' = FALSE
  BY DEF Tick, BackOff, CoolDown, RampUp, RampEnds, Probe, Ease, Hold, Climb, Tuned, Sample
<1>2. cooldown' \in 0 .. 2 /\ prevTP' \in Nat
  BY LimiterAssumption DEF LimiterTypeOK, Tick, BackOff, CoolDown, RampUp, RampEnds, Probe, Ease, Hold, Climb, Tuned, carried
<1> slowStart' \in BOOLEAN
  <2>1. slowStart \in BOOLEAN  BY DEF LimiterTypeOK
  <2>2. (slowStart /\ fixed) \in BOOLEAN  OBVIOUS
  <2>3. \/ slowStart' = (slowStart /\ fixed) \/ slowStart' = slowStart \/ slowStart' = FALSE
    BY Zenon DEF Tick, BackOff, CoolDown, RampUp, RampEnds, Probe, Ease, Hold, Climb, carried
  <2>4. QED  BY <2>1, <2>2, <2>3, Zenon
<1>3. CASE \E n \in Nat : minC <= n /\ n <= maxC /\ Resize(n)
  BY <1>1, <1>2, <1>3, Resized DEF LimiterTypeOK, bounds, Places
<1>4. CASE UNCHANGED <<limit, wpc>>
  BY <1>1, <1>2, <1>4 DEF LimiterTypeOK, bounds, LimitWithinBounds, NoLostWakeup, Accounted, At
<1>5. CASE BackOff   BY <1>3, <1>5, Targets DEF BackOff
<1>6. CASE CoolDown  BY <1>4, <1>6 DEF CoolDown
<1>7. CASE RampUp    BY <1>3, <1>7, Targets DEF RampUp
<1>8. CASE RampEnds  BY <1>4, <1>8 DEF RampEnds
<1>9. CASE Probe     BY <1>3, <1>9, Targets DEF Probe
<1>10. CASE Ease     BY <1>3, <1>10, Targets DEF Ease
<1>11. CASE Hold     BY <1>4, <1>11 DEF Hold
<1>12. CASE Climb    BY <1>3, <1>12, Targets DEF Climb
<1>13. QED
  BY <1>5, <1>6, <1>7, <1>8, <1>9, <1>10, <1>11, <1>12 DEF Tick

(* A step of a worker.                                                     *)
LEMMA Worked == ASSUME NEW w \in Workers PROVE LimiterInv /\ WorkerStep(w) => LimiterInv'
<1> SUFFICES ASSUME LimiterInv, WorkerStep(w) PROVE LimiterInv'  OBVIOUS
<1>1. /\ LimiterTypeOK /\ LimitWithinBounds /\ NoLostWakeup /\ Accounted /\ (closed => canceled)
      /\ wpc \in [Workers -> Places]
  BY DEF LimiterInv, LimiterTypeOK, Places
<1>2. /\ limit \in Nat /\ inflight \in Int
      /\ \A place : Cardinality(At(place)) \in Nat /\ IsFiniteSet(At(place))
  BY <1>1, Countable DEF LimiterTypeOK, At, Holds
<1>3. UNCHANGED <<bounds, limit, closed, canceled, ticking, carried>>
  BY DEF WorkerStep, Enter, Quit, Sleep, Acquire, AcquireCanceled, Release, bounds, lock, carried
<1>4. LimitWithinBounds' /\ (closed' => canceled')  BY <1>1, <1>3 DEF LimitWithinBounds, bounds
<1> DEFINE Counted(b) == \A place : Cardinality(At(place)') =
               IF place = wpc[w] THEN Cardinality(At(place)) - 1
               ELSE IF place = b THEN Cardinality(At(place)) + 1
               ELSE Cardinality(At(place))
<1>5. ASSUME NEW b \in Places, wpc[w] # b, wpc' = [wpc EXCEPT ![w] = b]
      PROVE  Counted(b)
  BY <1>1, <1>5, Moved, SMTT(30) DEF At, Holds
<1>6. CASE Enter(w) \/ Quit(w)
  <2>1. PICK b \in {"enter", "left"} : wpc[w] = "idle" /\ wpc' = [wpc EXCEPT ![w] = b]
    BY <1>6 DEF Enter, Quit
  <2>2. inflight' = inflight /\ trouble' = trouble  BY <1>6 DEF Enter, Quit, lock
  <2>3. Counted(b)  BY <1>5, <2>1 DEF Places
  <2>4. Cardinality(At("fetch")') = Cardinality(At("fetch")) /\ Cardinality(At("woken")') = Cardinality(At("woken"))
    BY <2>1, <2>3
  <2>5. At("sleep")' = At("sleep")  BY <1>1, <2>1 DEF At
  <2>6. LimiterTypeOK'  BY <1>1, <1>3, <2>1, <2>2 DEF LimiterTypeOK, bounds, carried
  <2>7. QED  BY <1>1, <1>3, <1>4, <2>2, <2>4, <2>5, <2>6 DEF LimiterInv, NoLostWakeup, Accounted
<1>7. CASE Sleep(w)
  <2>1. wpc[w] \in {"enter", "woken"} /\ wpc' = [wpc EXCEPT ![w] = "sleep"] /\ inflight >= limit
    BY <1>7 DEF Sleep
  <2>2. inflight' = inflight /\ trouble' = trouble  BY <1>7 DEF Sleep, lock
  <2>3. Counted("sleep")  BY <1>5, <2>1 DEF Places
  <2>4. Cardinality(At("fetch")') = Cardinality(At("fetch"))  BY <2>1, <2>3
  <2>5. Cardinality(At("woken")') \in Nat  BY Countable DEF At, Holds
  <2>6. LimiterTypeOK'  BY <1>1, <1>3, <2>1, <2>2 DEF LimiterTypeOK, bounds, carried
  <2>7. NoLostWakeup'  BY <1>2, <1>3, <2>1, <2>2, <2>5 DEF NoLostWakeup
  <2>8. QED  BY <1>1, <1>4, <2>2, <2>4, <2>6, <2>7 DEF LimiterInv, Accounted
<1>8. CASE Acquire(w)
  <2>1. /\ wpc[w] \in {"enter", "woken"} /\ wpc' = [wpc EXCEPT ![w] = "fetch"]
        /\ inflight < limit \/ closed
        /\ ~canceled /\ inflight' = inflight + 1 /\ trouble' = trouble
    BY <1>8 DEF Acquire
  <2>2. Counted("fetch")  BY <1>5, <2>1 DEF Places
  <2>3. Cardinality(At("fetch")') = Cardinality(At("fetch")) + 1  BY <2>1, <2>2
  <2>4. Cardinality(At("woken")') >= Cardinality(At("woken")) - 1  BY <1>2, <2>1, <2>2
  <2>5. At("sleep")' = At("sleep")  BY <1>1, <2>1 DEF At
  <2>6. LimiterTypeOK'  BY <1>1, <1>3, <2>1 DEF LimiterTypeOK, bounds, carried
  <2>7. Cardinality(At("woken")') \in Nat  BY Countable DEF At, Holds
  <2>8. NoLostWakeup'  BY <1>1, <1>2, <1>3, <2>1, <2>4, <2>5, <2>7 DEF NoLostWakeup
  <2>9. Accounted'  BY <1>1, <2>1, <2>3 DEF Accounted
  <2>10. QED  BY <1>4, <2>6, <2>8, <2>9 DEF LimiterInv
<1>9. CASE AcquireCanceled(w)
  <2>1. wpc[w] \in {"enter", "woken"} /\ wpc' = [wpc EXCEPT ![w] = "left"] /\ canceled
    BY <1>9 DEF AcquireCanceled
  <2>2. inflight' = inflight /\ trouble' = trouble  BY <1>9 DEF AcquireCanceled, lock
  <2>3. Counted("left")  BY <1>5, <2>1 DEF Places
  <2>4. Cardinality(At("fetch")') = Cardinality(At("fetch"))  BY <2>1, <2>3
  <2>5. LimiterTypeOK'  BY <1>1, <1>3, <2>1, <2>2 DEF LimiterTypeOK, bounds, carried
  <2>6. QED  BY <1>1, <1>3, <1>4, <2>1, <2>2, <2>4, <2>5 DEF LimiterInv, NoLostWakeup, Accounted
<1>10. CASE Release(w)
  <2>1. wpc[w] = "fetch" /\ inflight' = inflight - 1  BY <1>10 DEF Release
  <2> trouble' \in BOOLEAN
    <3>1. trouble \in BOOLEAN /\ trouble' \in {trouble, TRUE}  BY <1>1, <1>10, Zenon DEF Release, LimiterTypeOK
    <3>2. QED  BY <3>1, Zenon
  <2>2. CASE At("sleep") = {} /\ wpc' = [wpc EXCEPT ![w] = "idle"]
    <3>1. Counted("idle")  BY <1>5, <2>1, <2>2 DEF Places
    <3>2. Cardinality(At("fetch")') = Cardinality(At("fetch")) - 1  BY <2>1, <3>1
    <3>3. At("sleep")' = {}  BY <1>1, <2>1, <2>2 DEF At
    <3>4. LimiterTypeOK'  BY <1>1, <1>3, <2>1, <2>2 DEF LimiterTypeOK, bounds, carried
    <3>5. QED  BY <1>1, <1>4, <2>1, <3>2, <3>3, <3>4 DEF LimiterInv, NoLostWakeup, Accounted
  <2>3. ASSUME NEW s \in At("sleep"), wpc' = [wpc EXCEPT ![w] = "idle", ![s] = "woken"]
        PROVE  LimiterInv'
    <3> DEFINE g == [wpc EXCEPT ![w] = "idle"]
    <3>1. s \in Workers /\ wpc[s] = "sleep" /\ s # w  BY <2>1 DEF At
    <3>2. g \in [Workers -> Places] /\ g[s] = "sleep" /\ wpc' = [g EXCEPT ![s] = "woken"]
      BY <1>1, <2>3, <3>1 DEF Places
    <3>3. /\ Cardinality(Holds(g, "fetch")) = Cardinality(Holds(wpc, "fetch")) - 1
          /\ Cardinality(Holds(g, "woken")) = Cardinality(Holds(wpc, "woken"))
      <4>1. "idle" \in Places /\ wpc[w] # "idle"  BY <2>1 DEF Places
      <4>2. \A place : Cardinality(Holds(g, place)) =
               IF place = wpc[w] THEN Cardinality(Holds(wpc, place)) - 1
               ELSE IF place = "idle" THEN Cardinality(Holds(wpc, place)) + 1
               ELSE Cardinality(Holds(wpc, place))
        BY <1>1, <4>1, Moved
      <4> HIDE DEF g
      <4>3. QED  BY <2>1, <4>2
    <3>4. /\ Cardinality(Holds(wpc', "fetch")) = Cardinality(Holds(g, "fetch"))
          /\ Cardinality(Holds(wpc', "woken")) = Cardinality(Holds(g, "woken")) + 1
      <4> HIDE DEF g
      <4>1. "woken" \in Places /\ g[s] # "woken"  BY <3>2 DEF Places
      <4>2. \A place : Cardinality(Holds([g EXCEPT ![s] = "woken"], place)) =
               IF place = g[s] THEN Cardinality(Holds(g, place)) - 1
               ELSE IF place = "woken" THEN Cardinality(Holds(g, place)) + 1
               ELSE Cardinality(Holds(g, place))
        BY <3>1, <3>2, <4>1, Moved, ZenonT(60)
      <4>3. QED  BY <3>2, <4>2
    <3>5. /\ Cardinality(At("fetch")') = Cardinality(At("fetch")) - 1
          /\ Cardinality(At("woken")') = Cardinality(At("woken")) + 1
      BY <1>2, <3>3, <3>4 DEF At, Holds
    <3>6. NoLostWakeup'  BY <1>1, <1>2, <1>3, <2>1, <2>3, <3>5 DEF NoLostWakeup
    <3>7. Accounted'  BY <1>1, <1>2, <2>1, <3>5 DEF Accounted
    <3>8. LimiterTypeOK'
      <4>1. wpc' \in [Workers -> Places]  BY <3>1, <3>2 DEF Places
      <4>2. QED  BY <1>1, <1>3, <2>1, <4>1 DEF LimiterTypeOK, bounds, carried, Places
    <3>9. QED  BY <1>4, <3>6, <3>7, <3>8 DEF LimiterInv
  <2>4. QED  BY <1>10, <2>2, <2>3 DEF Release
<1>11. QED  BY <1>6, <1>7, <1>8, <1>9, <1>10 DEF WorkerStep

(* Every step.                                                             *)
LEMMA LimiterStepwise == LimiterInv /\ [LimiterNext]_limiterVars => LimiterInv'
<1> SUFFICES ASSUME LimiterInv, [LimiterNext]_limiterVars PROVE LimiterInv'  OBVIOUS
<1>1. CASE \E w \in Workers : WorkerStep(w)  BY <1>1, Worked
<1>2. CASE Tick  BY <1>2, Ticked
<1>3. CASE Cancel \/ TickerStops
  <2>1. UNCHANGED <<bounds, lock, wpc, trouble, carried>> /\ (canceled => canceled')
        /\ canceled' \in BOOLEAN /\ ticking' \in BOOLEAN
    BY <1>3 DEF LimiterInv, LimiterTypeOK, Cancel, TickerStops
  <2>2. QED
    BY <2>1 DEF LimiterInv, LimiterTypeOK, LimitWithinBounds, NoLostWakeup, Accounted, At, bounds, lock, carried
<1>4. CASE Unblock
  <2>1. canceled' /\ closed' = TRUE /\ wpc' = Broadcast
        /\ UNCHANGED <<bounds, limit, inflight, canceled, trouble, ticking, carried>>
    BY <1>4 DEF Unblock
  <2>2. wpc \in [Workers -> Places]  BY DEF LimiterInv, LimiterTypeOK, Places
  <2>3. wpc' \in [Workers -> Places] /\ At("fetch")' = At("fetch")
    BY <2>1, <2>2, Woken DEF At, Holds
  <2>4. QED
    BY <2>1, <2>3 DEF LimiterInv, LimiterTypeOK, LimitWithinBounds, NoLostWakeup, Accounted, bounds, carried, Places
<1>5. CASE UNCHANGED limiterVars
  BY <1>5 DEF LimiterInv, LimiterTypeOK, LimitWithinBounds, NoLostWakeup, Accounted, At, limiterVars
<1>6. QED  BY <1>1, <1>2, <1>3, <1>4, <1>5 DEF LimiterNext

--------------------------------------------------------------------------------
(* The invariant of the limiter: types, bounds, wakeups and the counter.   *)
THEOREM LimiterInvariance == LimiterSpec => []LimiterInv
BY LimiterStarts, LimiterStepwise, PTL DEF LimiterSpec

(* The limit stays between the floor and the ceiling, for every floor,     *)
(* start and ceiling and every -t (decide, decideFixed, setLimit).         *)
THEOREM LimitBounded == LimiterSpec => []LimitWithinBounds
<1>1. LimiterInv => LimitWithinBounds  BY DEF LimiterInv
<1>2. QED  BY <1>1, LimiterInvariance, PTL

(* No wakeup is lost, for any number of workers (acquire, release,         *)
(* setLimit).                                                              *)
THEOREM WakeupsKept == LimiterSpec => []NoLostWakeup
<1>1. LimiterInv => NoLostWakeup  BY DEF LimiterInv
<1>2. QED  BY <1>1, LimiterInvariance, PTL

(* The counter is the number of workers between acquire and release.       *)
THEOREM SlotsAccounted == LimiterSpec => []Accounted
<1>1. LimiterInv => Accounted  BY DEF LimiterInv
<1>2. QED  BY <1>1, LimiterInvariance, PTL

--------------------------------------------------------------------------------
(***************************************************************************)
(* The feeder: every segment is sent behind its init, and, as long as no   *)
(* refresh goes back, once and in order.                                   *)
(*                                                                         *)
(* The walk over a listing is a recursive function: Walk says what it is,  *)
(* WalkExists that there is one, and what holds of the batch follows by    *)
(* induction over the places of the listing.                               *)
(***************************************************************************)

Urls == {""} \cup {InitOf[n] : n \in 1 .. Newest}
ItemSet == [idx : Nat, seg : 0 .. Newest, init : Urls]
Batches == [init : Urls, next : Nat, items : Seq(ItemSet)]
Windows == {w \in [lo : 1 .. Newest, hi : 1 .. Newest, more : BOOLEAN] : w.lo <= w.hi}

(* What was sent before place i is where an init item of u comes last.     *)
Behind(s, i, u) ==
  \E j \in 1 .. i - 1 : s[j].init = u /\ \A k \in j + 1 .. i - 1 : s[k].init = ""

(* Items each behind its init, of which u is the last one.                 *)
Inits(s, u) ==
  /\ \A i \in SegmentsOf(s) : InitOf[s[i].seg] # "" => Behind(s, i, InitOf[s[i].seg])
  /\ u # "" => Behind(s, Len(s) + 1, u)

(* The segments of s, which are in order, are those of S.                  *)
Sends(s, S) ==
  /\ {s[i].seg : i \in SegmentsOf(s)} = S
  /\ \A i, j \in SegmentsOf(s) : i < j => s[i].seg < s[j].seg

TypeOK ==
  /\ live \in BOOLEAN /\ fromStart \in BOOLEAN
  /\ origin \in Windows /\ prior \in Windows /\ cur \in Windows
  /\ stale \in Nat /\ nextIdx \in Nat
  /\ phase \in {"start", "emit", "wait", "done"}
  /\ seen \subseteq 1 .. Newest /\ backlog \subseteq 1 .. Newest /\ offered \subseteq 1 .. Newest
  /\ lastInit \in Urls /\ idx \in Nat
  /\ batch \in Seq(ItemSet) /\ items \in Seq(ItemSet)

(* Nothing is sent before the start, and all of a batch before the wait.   *)
PhaseInv ==
  /\ phase \in {"start", "wait"} => batch = <<>>
  /\ phase = "start" =>
       /\ items = <<>> /\ lastInit = "" /\ idx = 0
       /\ seen = {} /\ offered = {} /\ backlog = {}

InitInv == Inits(Sent, lastInit)

(* While no refresh went back: the listing at hand is not ahead of the     *)
(* origin, nothing beyond it was offered, and seen is what it lists, or    *)
(* more until it is cut.                                                   *)
OrderInv ==
  stale = 0 =>
    /\ cur.lo <= origin.lo /\ cur.hi <= origin.hi
    /\ \A n \in offered : n <= cur.hi
    /\ backlog \subseteq offered
    /\ phase # "start" => Listed(cur) \subseteq offered
    /\ phase = "wait" => seen = Listed(cur)
    /\ phase = "emit" => Listed(cur) \subseteq seen
    /\ Sends(Sent, offered \ (backlog \cup Ads))

IInv == TypeOK /\ PhaseInv /\ InitInv /\ OrderInv

--------------------------------------------------------------------------------
(* A set of numbers that has one has a least one.                          *)
LEMMA LeastMember ==
  ASSUME NEW T, T \subseteq Nat, T # {} PROVE \E m \in T : \A k \in T : m <= k
<1>1. PICK n \in T : TRUE  OBVIOUS
<1> DEFINE U == {0 .. k : k \in {k \in T : k <= n}}
           R == StrictSubsetOrdering(0 .. n)
           S == SUBSET (0 .. n)
<1>2. IsFiniteSet(0 .. n)  BY <1>1, FS_Interval
<1>3. IsWellFoundedOn(R, S)
  BY <1>2, FS_StrictSubsetOrderingWellFounded, FS_FiniteSubsetsOfFinite
<1>4. U \subseteq S /\ U # {}  BY <1>1
<1>5. \E x \in U : \A y \in U : ~(<<y, x>> \in R)
  <2> HIDE DEF R, S, U
  <2>1. QED  BY <1>3, <1>4, WFMin
<1>6. PICK m \in T : m <= n /\ \A y \in U : ~(<<y, 0 .. m>> \in R)  BY <1>5
<1>7. ASSUME NEW k \in T, k < m PROVE FALSE
  <2>1. 0 .. k \in U
    <3> HIDE DEF R, S
    <3>1. n \in Nat /\ m \in Nat /\ k \in Nat /\ m <= n /\ k < m  BY <1>1, <1>6, <1>7
    <3>2. k <= n  BY <3>1
    <3>3. QED  BY <1>7, <3>2
  <2>2. <<0 .. k, 0 .. m>> \in R  BY <1>1, <1>4, <1>6, <1>7, <2>1 DEF StrictSubsetOrdering
  <2>3. QED  BY <1>6, <2>1, <2>2
<1>8. QED  BY <1>6, <1>7

(* Induction up to n, over a set.                                          *)
LEMMA UpTo ==
  ASSUME NEW n \in Nat, NEW T, 0 \in T, \A k \in 0 .. n - 1 : k \in T => k + 1 \in T
  PROVE  0 .. n \subseteq T
<1> DEFINE F == (0 .. n) \ T
<1>1. ASSUME F # {} PROVE FALSE
  <2>1. F \subseteq Nat  OBVIOUS
  <2> HIDE DEF F
  <2>2. PICK m \in F : \A k \in F : m <= k  BY <1>1, <2>1, LeastMember
  <2> USE DEF F
  <2>3. m \in 1 .. n /\ m - 1 \in 0 .. n - 1 /\ m - 1 \notin F  BY <2>2
  <2>4. m - 1 \in T /\ (m - 1) + 1 = m  BY <2>3
  <2>5. QED  BY <2>2, <2>3, <2>4
<1>2. QED  BY <1>1

--------------------------------------------------------------------------------
(* f is the walk over w up to place k.                                     *)
Begin(init, next) == [init |-> init, next |-> next, items |-> <<>>]
Walk(w, known, b, k, f) ==
  /\ f = [n \in w.lo - 1 .. k |-> f[n]]
  /\ f[w.lo - 1] = b
  /\ \A n \in w.lo .. k : f[n] = IF n \in known THEN f[n - 1] ELSE StepSegment(f[n - 1], n)

LEMMA WalkExists ==
  ASSUME NEW w \in Windows, NEW known, NEW b
  PROVE  \E f : Walk(w, known, b, w.hi, f)
<1> DEFINE n == w.hi - w.lo + 1
           T == {k \in 0 .. n : \E f : Walk(w, known, b, w.lo - 1 + k, f)}
<1>1. w.lo \in Nat /\ w.hi \in Nat /\ n \in Nat /\ w.lo - 1 + n = w.hi /\ w.lo - 1 + 0 = w.lo - 1
  BY DEF Windows
<1>2. 0 \in T
  <2> DEFINE f == [i \in w.lo - 1 .. w.lo - 1 |-> b]
  <2>1. Walk(w, known, b, w.lo - 1, f)  BY <1>1 DEF Walk
  <2>2. QED  BY <1>1, <2>1
<1>3. ASSUME NEW k \in 0 .. n - 1, k \in T PROVE k + 1 \in T
  <2> DEFINE p == w.lo - 1 + k
  <2>1. p \in Int /\ p + 1 = w.lo - 1 + (k + 1) /\ w.lo - 1 <= p /\ k + 1 \in 0 .. n
    <3> HIDE DEF n
    <3>1. k \in Nat /\ k + 1 \in 0 .. n  BY <1>1
    <3>2. QED  BY <1>1, <3>1
  <2>2. PICK f : Walk(w, known, b, p, f)  BY <1>3
  <2> DEFINE last == IF p + 1 \in known THEN f[p] ELSE StepSegment(f[p], p + 1)
             g == [i \in w.lo - 1 .. p + 1 |-> IF i <= p THEN f[i] ELSE last]
  <2> HIDE DEF p, n, T, last
  <2>3. /\ g = [i \in w.lo - 1 .. p + 1 |-> g[i]]
        /\ g[p + 1] = last /\ \A i \in w.lo - 1 .. p : g[i] = f[i]
    BY <1>1, <2>1
  <2>4. g[w.lo - 1] = b  BY <1>1, <2>1, <2>2, <2>3 DEF Walk
  <2> HIDE DEF g
  <2>5. ASSUME NEW i \in w.lo .. p + 1
        PROVE  g[i] = IF i \in known THEN g[i - 1] ELSE StepSegment(g[i - 1], i)
    <3>1. i - 1 \in w.lo - 1 .. p /\ g[i - 1] = f[i - 1]
      <4>1. i - 1 \in w.lo - 1 .. p  BY <1>1, <2>1
      <4>2. QED  BY <2>3, <4>1
    <3>2. CASE i = p + 1  BY <2>1, <2>3, <3>1, <3>2 DEF last
    <3>3. CASE i # p + 1
      <4>1. i \in w.lo .. p /\ i \in w.lo - 1 .. p  BY <1>1, <2>1, <3>3
      <4>2. g[i] = f[i]  BY <2>3, <4>1
      <4>3. f[i] = IF i \in known THEN f[i - 1] ELSE StepSegment(f[i - 1], i)
        BY <2>2, <4>1 DEF Walk
      <4>4. QED  BY <3>1, <4>2, <4>3
    <3>4. QED  BY <3>2, <3>3
  <2>6. Walk(w, known, b, p + 1, g)  BY <2>3, <2>4, <2>5 DEF Walk
  <2>7. QED  BY <2>1, <2>6 DEF T
<1> HIDE DEF n, T
<1>4. 0 .. n \subseteq T  BY <1>1, <1>2, <1>3, UpTo
<1>5. n \in T  BY <1>1, <1>4
<1>6. QED  BY <1>1, <1>5 DEF T

LEMMA BatchWalks ==
  ASSUME NEW w \in Windows, NEW known, NEW init, NEW next
  PROVE  \E f : Walk(w, known, Begin(init, next), w.hi, f) /\ Batch(w, known, init, next) = f[w.hi]
<1> DEFINE b == Begin(init, next)
           D(f) == [n \in w.lo - 1 .. w.hi |->
                      IF n < w.lo THEN [init |-> init, next |-> next, items |-> <<>>]
                      ELSE IF n \in known THEN f[n - 1]
                      ELSE StepSegment(f[n - 1], n)]
           walk == CHOOSE f : f = D(f)
<1>1. w.lo \in Nat /\ w.hi \in Nat /\ w.lo <= w.hi  BY DEF Windows
<1>2. PICK f : Walk(w, known, b, w.hi, f)  BY WalkExists
<1>3. f = D(f)
  <2>1. ASSUME NEW n \in w.lo - 1 .. w.hi PROVE f[n] = D(f)[n]
    <3>1. CASE n = w.lo - 1  BY <1>1, <1>2, <3>1 DEF Walk, Begin
    <3>2. CASE n # w.lo - 1
      <4>1. n \in w.lo .. w.hi /\ ~(n < w.lo)  BY <1>1, <3>2
      <4>2. QED  BY <1>2, <4>1 DEF Walk
    <3>3. QED  BY <3>1, <3>2
  <2>2. f = [n \in w.lo - 1 .. w.hi |-> f[n]]  BY <1>2 DEF Walk
  <2>3. QED  BY <2>1, <2>2
<1>4. walk = D(walk)  BY <1>3
<1>5. Batch(w, known, init, next) = walk[w.hi]  BY DEF Batch
<1> HIDE DEF walk
<1>6. Walk(w, known, b, w.hi, walk)
  <2>1. walk = [n \in w.lo - 1 .. w.hi |-> walk[n]]  BY <1>4
  <2>2. walk[w.lo - 1] = b  BY <1>1, <1>4 DEF Begin
  <2>3. ASSUME NEW n \in w.lo .. w.hi
        PROVE  walk[n] = IF n \in known THEN walk[n - 1] ELSE StepSegment(walk[n - 1], n)
    <3>1. n \in w.lo - 1 .. w.hi /\ ~(n < w.lo)  BY <1>1
    <3>2. QED  BY <1>4, <3>1
  <2>4. QED  BY <2>1, <2>2, <2>3 DEF Walk
<1>7. QED  BY <1>5, <1>6

--------------------------------------------------------------------------------
(* What an item at the end of s changes.                                   *)
LEMMA AppendItem ==
  ASSUME NEW s \in Seq(ItemSet), NEW x \in ItemSet
  PROVE  /\ Append(s, x) \in Seq(ItemSet) /\ Len(s) \in Nat
         /\ Len(Append(s, x)) = Len(s) + 1 /\ Append(s, x)[Len(s) + 1] = x
         /\ \A i \in 1 .. Len(s) : Append(s, x)[i] = s[i]
         /\ DOMAIN s = 1 .. Len(s) /\ DOMAIN Append(s, x) = 1 .. Len(s) + 1
BY AppendProperties

LEMMA AppendBehind ==
  ASSUME NEW s \in Seq(ItemSet), NEW x \in ItemSet, NEW u, NEW i \in 1 .. Len(s) + 1,
         Behind(s, i, u)
  PROVE  Behind(Append(s, x), i, u)
<1> DEFINE t == Append(s, x)
<1>1. Len(s) \in Nat /\ \A k \in 1 .. Len(s) : t[k] = s[k]  BY AppendItem
<1> HIDE DEF t
<1>2. PICK j \in 1 .. i - 1 : s[j].init = u /\ \A k \in j + 1 .. i - 1 : s[k].init = ""
  BY DEF Behind
<1>3. \A k \in 1 .. i - 1 : k \in 1 .. Len(s)  BY <1>1
<1>4. t[j] = s[j] /\ \A k \in j + 1 .. i - 1 : k \in 1 .. i - 1  BY <1>1, <1>3
<1>5. \A k \in j + 1 .. i - 1 : t[k] = s[k]  BY <1>1, <1>3, <1>4
<1>6. t[j].init = u /\ \A k \in j + 1 .. i - 1 : t[k].init = ""  BY <1>2, <1>4, <1>5
<1>7. QED  BY <1>6 DEF Behind, t

LEMMA Items ==
  ASSUME NEW i \in Nat, NEW n \in 1 .. Newest, NEW u \in Urls
  PROVE  /\ InitItem(i, u) \in ItemSet /\ InitItem(i, u).seg = 0 /\ InitItem(i, u).init = u
         /\ Item(i, n) \in ItemSet /\ Item(i, n).seg = n /\ Item(i, n).init = "" /\ n # 0
         /\ InitOf[n] \in Urls
<1>1. Newest \in Nat  BY FeederAssumption
<1>2. 0 \in 0 .. Newest /\ n \in 0 .. Newest /\ n # 0  BY <1>1
<1>3. "" \in Urls /\ InitOf[n] \in Urls  BY DEF Urls
<1> HIDE DEF Urls
<1>4. InitItem(i, u) \in ItemSet  BY <1>2 DEF InitItem, ItemSet
<1>5. Item(i, n) \in ItemSet  BY <1>2, <1>3 DEF Item, ItemSet
<1>6. QED  BY <1>2, <1>3, <1>4, <1>5 DEF InitItem, Item

(* Where x, after s, leaves the segments and the inits of s.               *)
LEMMA AppendKeeps ==
  ASSUME NEW s \in Seq(ItemSet), NEW x \in ItemSet
  PROVE  /\ SegmentsOf(s) \subseteq 1 .. Len(s)
         /\ \A k \in SegmentsOf(s) : Append(s, x)[k] = s[k]
         /\ x.seg = 0 => SegmentsOf(Append(s, x)) = SegmentsOf(s)
         /\ x.seg # 0 => SegmentsOf(Append(s, x)) = SegmentsOf(s) \cup {Len(s) + 1}
<1> DEFINE t == Append(s, x)
           l == Len(s)
<1>1. l \in Nat /\ t[l + 1] = x /\ \A k \in 1 .. l : t[k] = s[k]
  BY AppendItem
<1>2. DOMAIN s = 1 .. l /\ DOMAIN t = 1 .. l + 1  BY AppendItem
<1> HIDE DEF t, l
<1>3. 1 .. l + 1 = (1 .. l) \cup {l + 1}  BY <1>1
<1>4. SegmentsOf(s) = {k \in 1 .. l : s[k].seg # 0}  BY <1>2 DEF SegmentsOf
<1>5. SegmentsOf(t) = {k \in (1 .. l) \cup {l + 1} : t[k].seg # 0}
  BY <1>2, <1>3 DEF SegmentsOf
<1>6. \A k \in 1 .. l : t[k] = s[k]  BY <1>1
<1>7. x.seg = 0 => SegmentsOf(t) = SegmentsOf(s)  BY <1>1, <1>4, <1>5, <1>6, Zenon
<1>8. x.seg # 0 => SegmentsOf(t) = SegmentsOf(s) \cup {l + 1}
  BY <1>1, <1>4, <1>5, <1>6, Zenon
<1>9. SegmentsOf(s) \subseteq 1 .. l  BY <1>4
<1>10. QED  BY <1>4, <1>6, <1>7, <1>8, <1>9 DEF t, l

LEMMA PlacesOf ==
  ASSUME NEW l \in Nat
  PROVE  /\ l + 1 \in Nat \ {0} /\ l + 1 \in 1 .. l + 1 /\ 1 .. l \subseteq 1 .. l + 1
         /\ l + 1 \in 1 .. ((l + 1) + 1) - 1
         /\ (l + 1) + 1 .. ((l + 1) + 1) - 1 = {}
         /\ \A k \in 1 .. l : k < l + 1 /\ ~(l + 1 < k)
         /\ ~(l + 1 < l + 1)
         /\ \A j \in 1 .. (l + 1) - 1 :
              /\ j \in 1 .. ((l + 1) + 1) - 1
              /\ \A k \in j + 1 .. ((l + 1) + 1) - 1 : k = l + 1 \/ k \in j + 1 .. (l + 1) - 1
OBVIOUS

LEMMA AppendInit ==
  ASSUME NEW s \in Seq(ItemSet), NEW v, NEW x \in ItemSet, x.seg = 0, Inits(s, v)
  PROVE  /\ Inits(Append(s, x), x.init)
         /\ \A S : Sends(s, S) => Sends(Append(s, x), S)
<1> DEFINE t == Append(s, x)
           u == x.init
           l == Len(s)
<1>1. SegmentsOf(s) \subseteq 1 .. l /\ \A k \in SegmentsOf(s) : t[k] = s[k]
  BY AppendKeeps
<1>2. SegmentsOf(t) = SegmentsOf(s)  BY AppendKeeps
<1>3. \A k \in 1 .. l + 1 : \A y : Behind(s, k, y) => Behind(t, k, y)  BY AppendBehind
<1>4. l \in Nat /\ Len(t) = l + 1 /\ t[l + 1] = x  BY AppendItem
<1> HIDE DEF l, t
<1>5. Inits(t, u)
  <2>1. ASSUME NEW k \in SegmentsOf(t), InitOf[t[k].seg] # ""
        PROVE  Behind(t, k, InitOf[t[k].seg])
    <3>1. k \in SegmentsOf(s) /\ t[k] = s[k] /\ k \in 1 .. l  BY <1>1, <1>2
    <3>2. Behind(s, k, InitOf[s[k].seg])  BY <2>1, <3>1 DEF Inits
    <3>3. k \in 1 .. l + 1  BY <1>4, <3>1, PlacesOf
    <3>4. QED  BY <1>3, <3>1, <3>2, <3>3
  <2>2. Behind(t, (l + 1) + 1, u)
    <3>1. l + 1 \in 1 .. ((l + 1) + 1) - 1 /\ (l + 1) + 1 .. ((l + 1) + 1) - 1 = {}
      BY <1>4, PlacesOf
    <3>2. t[l + 1].init = u  BY <1>4
    <3>3. QED  BY <3>1, <3>2 DEF Behind
  <2>3. QED  BY <1>4, <2>1, <2>2 DEF Inits
<1>6. \A S : Sends(s, S) => Sends(t, S)
  <2>1. {t[k].seg : k \in SegmentsOf(t)} = {s[k].seg : k \in SegmentsOf(s)}  BY <1>1, <1>2
  <2>2. QED  BY <1>1, <1>2, <2>1 DEF Sends
<1>7. QED  BY <1>5, <1>6 DEF t

LEMMA AppendSegment ==
  ASSUME NEW s \in Seq(ItemSet), NEW u, NEW x \in ItemSet, x.seg # 0, x.init = "",
         Inits(s, u), InitOf[x.seg] \in {"", u}
  PROVE  /\ Inits(Append(s, x), u)
         /\ \A S : Sends(s, S) /\ (\A m \in S : m < x.seg) =>
                     Sends(Append(s, x), S \cup {x.seg})
<1> DEFINE t == Append(s, x)
           n == x.seg
           l == Len(s)
           last == l + 1
<1>1. SegmentsOf(s) \subseteq 1 .. l /\ \A k \in SegmentsOf(s) : t[k] = s[k]
  BY AppendKeeps
<1>2. SegmentsOf(t) = SegmentsOf(s) \cup {last}  BY AppendKeeps
<1>3. \A k \in 1 .. last : \A y : Behind(s, k, y) => Behind(t, k, y)  BY AppendBehind
<1>4. l \in Nat /\ Len(t) = last /\ t[last] = x  BY AppendItem
<1>5. l \in Nat  BY <1>4
<1> HIDE DEF l, t
<1>6. /\ last \in 1 .. last /\ 1 .. l \subseteq 1 .. last
      /\ \A k \in 1 .. l : ~(last < k)
      /\ ~(last < last)
      /\ \A j \in 1 .. last - 1 :
           /\ j \in 1 .. (last + 1) - 1
           /\ \A k \in j + 1 .. (last + 1) - 1 : k = last \/ k \in j + 1 .. last - 1
  BY <1>5, PlacesOf
<1> HIDE DEF last
<1>7. ASSUME u # "" PROVE Behind(t, last, u)
  <2>1. Behind(s, last, u)  BY <1>7 DEF Inits, last, l
  <2>2. QED  BY <1>3, <1>6, <2>1
<1>8. Inits(t, u)
  <2>1. ASSUME NEW k \in SegmentsOf(t), InitOf[t[k].seg] # ""
        PROVE  Behind(t, k, InitOf[t[k].seg])
    <3>1. CASE k \in SegmentsOf(s)
      <4>1. t[k] = s[k] /\ k \in 1 .. last  BY <1>1, <1>6, <3>1
      <4>2. Behind(s, k, InitOf[s[k].seg])  BY <2>1, <3>1, <4>1 DEF Inits
      <4>3. QED  BY <1>3, <4>1, <4>2
    <3>2. CASE k = last
      <4>1. t[k] = x /\ InitOf[x.seg] = u /\ u # ""  BY <1>4, <2>1, <3>2
      <4>2. QED  BY <1>7, <3>2, <4>1
    <3>3. QED  BY <1>2, <2>1, <3>1, <3>2
  <2>2. ASSUME u # "" PROVE Behind(t, last + 1, u)
    <3>1. PICK j \in 1 .. last - 1 :
            t[j].init = u /\ \A k \in j + 1 .. last - 1 : t[k].init = ""
      BY <1>7, <2>2 DEF Behind
    <3>2. j \in 1 .. (last + 1) - 1  BY <1>6
    <3>3. ASSUME NEW k \in j + 1 .. (last + 1) - 1 PROVE t[k].init = ""
      <4>1. k = last \/ k \in j + 1 .. last - 1  BY <1>6
      <4>2. CASE k = last  BY <1>4, <4>2
      <4>3. CASE k \in j + 1 .. last - 1  BY <3>1, <4>3
      <4>4. QED  BY <4>1, <4>2, <4>3
    <3>4. QED  BY <3>1, <3>2, <3>3 DEF Behind
  <2>3. QED  BY <1>4, <2>1, <2>2 DEF Inits
<1>9. ASSUME NEW S, Sends(s, S), \A m \in S : m < n PROVE Sends(t, S \cup {n})
  <2> DEFINE I == SegmentsOf(s)
  <2>1. {t[k].seg : k \in SegmentsOf(t)} = {s[k].seg : k \in I} \cup {n}
    <3> HIDE DEF I, n
    <3>1. \A k \in I : t[k].seg = s[k].seg  BY <1>1 DEF I
    <3>2. SegmentsOf(t) = I \cup {last} /\ t[last].seg = n  BY <1>2, <1>4 DEF I, n
    <3>3. QED  BY <3>1, <3>2, ZenonT(40)
  <2>2. ASSUME NEW i \in SegmentsOf(t), NEW k \in SegmentsOf(t), i < k
        PROVE  t[i].seg < t[k].seg
    <3>1. i \in SegmentsOf(s)
      <4>1. i # last  BY <1>1, <1>2, <1>6, <2>2
      <4>2. QED  BY <1>2, <4>1
    <3>2. t[i] = s[i] /\ s[i].seg \in S  BY <1>1, <1>9, <3>1 DEF Sends
    <3>3. CASE k \in SegmentsOf(s)
      <4>1. t[k] = s[k] /\ s[i].seg < s[k].seg  BY <1>1, <1>9, <2>2, <3>1, <3>3 DEF Sends
      <4>2. QED  BY <3>2, <4>1
    <3>4. CASE k = last
      <4>1. t[k].seg = n  BY <1>4, <3>4
      <4>2. QED  BY <1>9, <3>2, <4>1
    <3>5. QED  BY <1>2, <2>2, <3>3, <3>4
  <2>3. QED  BY <1>9, <2>1, <2>2 DEF Sends
<1>10. QED  BY <1>8, <1>9 DEF t

(* Behind what was sent, one item and two.                                 *)
LEMMA ThenOne ==
  ASSUME NEW S, NEW s \in Seq(S), NEW q \in Seq(S), NEW x \in S
  PROVE  Append(q, x) \in Seq(S) /\ s \o Append(q, x) = Append(s \o q, x)
<1>1. s \o q \in Seq(S) /\ <<x>> \in Seq(S) /\ Append(q, x) \in Seq(S)
  BY ConcatProperties, AppendProperties
<1>2. Append(q, x) = q \o <<x>>  BY AppendIsConcat
<1>3. Append(s \o q, x) = (s \o q) \o <<x>>  BY <1>1, AppendIsConcat
<1>4. (s \o q) \o <<x>> = s \o (q \o <<x>>)  BY <1>1, ConcatAssociative
<1>5. QED  BY <1>1, <1>2, <1>3, <1>4, Zenon

Pair(x, y) == <<x, y>>
Two(q, x, y) == Append(Append(q, x), y)

LEMMA ThenTwo ==
  ASSUME NEW S, NEW q \in Seq(S), NEW x \in S, NEW y \in S
  PROVE  q \o Pair(x, y) = Two(q, x, y)
<1>1. <<x>> \in Seq(S) /\ <<x, y>> \in Seq(S)  OBVIOUS
<1>2. Append(<<x>>, y) = <<x, y>>
  <2> DEFINE a == Append(<<x>>, y)
             t == <<x, y>>
  <2>1. Len(<<x>>) = 1 /\ <<x>>[1] = x /\ Len(t) = 2 /\ t[1] = x /\ t[2] = y  OBVIOUS
  <2>2. a \in Seq(S) /\ Len(a) = 1 + 1 /\ a[1 + 1] = y /\ \A i \in 1 .. 1 : a[i] = <<x>>[i]
    BY <1>1, <2>1, AppendProperties
  <2> HIDE DEF a, t
  <2>3. Len(a) = 2 /\ a[1] = x /\ a[2] = y  BY <2>1, <2>2
  <2>4. \A i \in 1 .. 2 : i = 1 \/ i = 2  OBVIOUS
  <2>5. \A i \in 1 .. Len(a) : a[i] = t[i]  BY <2>1, <2>3, <2>4
  <2>6. t \in Seq(S)  BY <1>1 DEF t
  <2>7. a = t  BY <2>1, <2>2, <2>3, <2>5, <2>6, SeqEqual
  <2>8. QED  BY <2>7 DEF a, t
<1>3. q \o Append(<<x>>, y) = Append(q \o <<x>>, y)  BY <1>1, ThenOne
<1>4. q \o <<x>> = Append(q, x)  BY AppendIsConcat
<1>5. QED  BY <1>2, <1>3, <1>4 DEF Pair, Two

(* One segment of a listing, behind what was sent.                         *)
LEMMA StepSends ==
  ASSUME NEW s \in Seq(ItemSet), NEW b \in Batches, NEW n \in 1 .. Newest
  PROVE  /\ StepSegment(b, n) \in Batches
         /\ Inits(s \o b.items, b.init) =>
              /\ Inits(s \o StepSegment(b, n).items, StepSegment(b, n).init)
              /\ \A S : Sends(s \o b.items, S) /\ (\A m \in S : m < n) =>
                          Sends(s \o StepSegment(b, n).items, S \cup ({n} \ Ads))
<1> DEFINE c == StepSegment(b, n)
           p == s \o b.items
<1>1. /\ b.items \in Seq(ItemSet) /\ p \in Seq(ItemSet)
      /\ b.init \in Urls /\ b.next \in Nat /\ b.next + 1 \in Nat
  BY DEF Batches
<1>2. CASE n \in Ads
  <2>1. c = b  BY <1>2 DEF StepSegment
  <2>2. \A S : S \cup ({n} \ Ads) = S  BY <1>2
  <2>3. QED  BY <2>1, <2>2
<1>3. CASE n \notin Ads /\ InitOf[n] \notin {"", b.init}
  <2> DEFINE x == InitItem(b.next, InitOf[n])
             y == Item(b.next + 1, n)
  <2>1. /\ InitOf[n] \in Urls /\ x \in ItemSet /\ x.seg = 0 /\ x.init = InitOf[n]
        /\ y \in ItemSet /\ y.seg = n /\ y.init = "" /\ n # 0
    <3>1. InitOf[n] \in Urls  BY DEF Urls
    <3>2. x \in ItemSet /\ x.seg = 0 /\ x.init = InitOf[n]  BY <1>1, <3>1, Items
    <3>3. y \in ItemSet /\ y.seg = n /\ y.init = "" /\ n # 0  BY <1>1, <3>1, Items
    <3> HIDE DEF x, y
    <3>4. QED  BY <3>1, <3>2, <3>3
  <2>2. c = [init |-> InitOf[n], next |-> b.next + 2, items |-> b.items \o Pair(x, y)]
    <3> DEFINE t == <<x, y>>
    <3>1. c = [init |-> InitOf[n], next |-> b.next + 2, items |-> b.items \o t]
      BY <1>3, Zenon DEF StepSegment
    <3>2. t = Pair(x, y)  BY DEF Pair
    <3> HIDE DEF t
    <3>3. QED  BY <3>1, <3>2
  <2> HIDE DEF x, y
  <2> DEFINE r == Append(b.items, x)
  <2>3. r \in Seq(ItemSet) /\ s \o r = Append(p, x)
    <3>1. ASSUME NEW q \in Seq(ItemSet)
          PROVE  Append(q, x) \in Seq(ItemSet) /\ s \o Append(q, x) = Append(s \o q, x)
      <4>1. x \in ItemSet  BY <2>1
      <4>2. QED  BY <4>1, ThenOne
    <3>2. QED  BY <1>1, <3>1, Zenon
  <2>4. b.items \o Pair(x, y) = Append(r, y)
    <3>1. ASSUME NEW q \in Seq(ItemSet) PROVE q \o Pair(x, y) = Two(q, x, y)
      <4>1. x \in ItemSet /\ y \in ItemSet  BY <2>1
      <4>2. QED  BY <4>1, ThenTwo, Zenon
    <3>2. b.items \o Pair(x, y) = Two(b.items, x, y)  BY <1>1, <3>1, Zenon
    <3>3. QED  BY <3>2 DEF Two
  <2>5. c \in Batches
    <3>1. b.next + 2 \in Nat  BY <1>1
    <3>2. r \in Seq(ItemSet)  BY <2>3
    <3>3. Append(r, y) \in Seq(ItemSet)
      <4> HIDE DEF r
      <4>1. QED  BY <2>1, <3>2, ThenOne
    <3>4. c = [init |-> InitOf[n], next |-> b.next + 2, items |-> Append(r, y)]
      BY <2>2, <2>4, Zenon
    <3> HIDE DEF c, r
    <3>5. QED  BY <2>1, <3>1, <3>3, <3>4 DEF Batches
  <2>6. s \o c.items = Append(Append(p, x), y)
    <3>1. c.items = Append(r, y)  BY <2>2, <2>4
    <3> HIDE DEF c, r
    <3>2. s \o Append(r, y) = Append(s \o r, y)
      <4>1. y \in ItemSet /\ r \in Seq(ItemSet)  BY <2>1, <2>3
      <4>2. QED  BY <4>1, ThenOne
    <3>3. QED  BY <2>3, <3>1, <3>2, Zenon
  <2>7. ASSUME Inits(p, b.init)
        PROVE  /\ Inits(s \o c.items, c.init)
               /\ \A S : Sends(p, S) /\ (\A m \in S : m < n) =>
                           Sends(s \o c.items, S \cup ({n} \ Ads))
    <3> HIDE DEF p, c
    <3>1. Inits(Append(p, x), InitOf[n]) /\ \A S : Sends(p, S) => Sends(Append(p, x), S)
      BY <1>1, <1>3, <2>1, <2>7, AppendInit
    <3>2. Append(p, x) \in Seq(ItemSet)  BY <1>1, <2>1, AppendItem
    <3>3. /\ Inits(Append(Append(p, x), y), InitOf[n])
          /\ \A S : Sends(Append(p, x), S) /\ (\A m \in S : m < n) =>
                      Sends(Append(Append(p, x), y), S \cup {n})
      BY <2>1, <3>1, <3>2, AppendSegment
    <3>4. \A S : S \cup ({n} \ Ads) = S \cup {n}  BY <1>3
    <3>5. QED  BY <2>2, <2>6, <3>1, <3>3, <3>4
  <2>8. QED  BY <2>5, <2>7
<1>4. CASE n \notin Ads /\ InitOf[n] \in {"", b.init}
  <2> DEFINE y == Item(b.next, n)
  <2>1. y \in ItemSet /\ y.seg = n /\ y.init = "" /\ n # 0  BY <1>1, Items
  <2>2. c = [init |-> b.init, next |-> b.next + 1, items |-> Append(b.items, y)]
    BY <1>1, <1>4 DEF StepSegment, Batches
  <2> HIDE DEF y
  <2>3. Append(b.items, y) \in Seq(ItemSet)  BY <1>1, <2>1, ThenOne
  <2>4. c \in Batches  BY <1>1, <2>2, <2>3 DEF Batches
  <2>5. s \o c.items = Append(p, y)
    <3>1. c.items = Append(b.items, y)  BY <2>2
    <3> HIDE DEF c
    <3>2. \A q \in Seq(ItemSet) : s \o Append(q, y) = Append(s \o q, y)
      <4>1. y \in ItemSet  BY <2>1
      <4>2. QED  BY <4>1, ThenOne
    <3>3. QED  BY <1>1, <3>1, <3>2, Zenon
  <2>6. ASSUME Inits(p, b.init)
        PROVE  /\ Inits(s \o c.items, c.init)
               /\ \A S : Sends(p, S) /\ (\A m \in S : m < n) =>
                           Sends(s \o c.items, S \cup ({n} \ Ads))
    <3> HIDE DEF p, c
    <3>1. /\ Inits(Append(p, y), b.init)
          /\ \A S : Sends(p, S) /\ (\A m \in S : m < n) => Sends(Append(p, y), S \cup {n})
      BY <1>1, <1>4, <2>1, <2>6, AppendSegment
    <3>2. \A S : S \cup ({n} \ Ads) = S \cup {n}  BY <1>4
    <3>3. QED  BY <2>2, <2>5, <3>1, <3>2
  <2>7. QED  BY <2>4, <2>6
<1>5. QED  BY <1>2, <1>3, <1>4

(* A whole listing, behind what was sent: what it lists and was not known. *)
LEMMA BatchSends ==
  ASSUME NEW s \in Seq(ItemSet), NEW w \in Windows, NEW known,
         NEW init \in Urls, NEW next \in Nat, Inits(s, init)
  PROVE  /\ Batch(w, known, init, next) \in Batches
         /\ Inits(s \o Batch(w, known, init, next).items, Batch(w, known, init, next).init)
         /\ \A S : Sends(s, S) /\ (\A n \in Listed(w) \ known : \A m \in S : m < n) =>
              Sends(s \o Batch(w, known, init, next).items, S \cup ((Listed(w) \ known) \ Ads))
<1> DEFINE lo == w.lo
           hi == w.hi
           z == hi - lo + 1
           New(k) == (lo .. k) \ known
           Below(S) == \A n \in Listed(w) \ known : \A m \in S : m < n
<1>1. /\ lo \in 1 .. Newest /\ hi \in 1 .. Newest /\ lo <= hi /\ Newest \in Nat
      /\ Listed(w) = lo .. hi
  BY FeederAssumption DEF Windows, Listed
<1>2. PICK f : Walk(w, known, Begin(init, next), hi, f) /\ Batch(w, known, init, next) = f[hi]
  BY BatchWalks
<1>3. /\ f[lo - 1] = Begin(init, next)
      /\ \A n \in lo .. hi : f[n] = IF n \in known THEN f[n - 1] ELSE StepSegment(f[n - 1], n)
  BY <1>2 DEF Walk
<1> DEFINE P(k) == /\ f[k] \in Batches /\ Inits(s \o f[k].items, f[k].init)
                   /\ \A S : Sends(s, S) /\ Below(S) =>
                              Sends(s \o f[k].items, S \cup (New(k) \ Ads))
           T == {k \in 0 .. z : P(lo - 1 + k)}
<1> HIDE DEF lo, hi
<1>4. z \in Nat /\ lo - 1 + z = hi /\ lo - 1 + 0 = lo - 1 /\ New(lo - 1) = {}  BY <1>1
<1>5. P(lo - 1)
  <2> DEFINE b == Begin(init, next)
  <2>1. b \in Batches /\ b.items = <<>> /\ b.init = init
    <3>1. <<>> \in Seq(ItemSet)  OBVIOUS
    <3>2. QED  BY <3>1 DEF Begin, Batches
  <2>2. s \o <<>> = s  BY ConcatEmptySeq
  <2> HIDE DEF b
  <2>3. f[lo - 1] = b  BY <1>3 DEF b
  <2>4. s \o f[lo - 1].items = s  BY <2>1, <2>2, <2>3
  <2>5. \A S : S \cup (New(lo - 1) \ Ads) = S  BY <1>4
  <2>6. QED  BY <2>1, <2>3, <2>4, <2>5
<1> HIDE DEF New, Below
<1>6. ASSUME NEW n \in lo .. hi, P(n - 1) PROVE P(n)
  <2>1. n \in 1 .. Newest /\ n \in Int /\ lo \in Int  BY <1>1
  <2>2. CASE n \in known
    <3>1. f[n] = f[n - 1]  BY <1>3, <2>2
    <3>2. New(n) = New(n - 1)
      <4>1. lo .. n = (lo .. n - 1) \cup {n}  BY <2>1, <1>6
      <4>2. QED  BY <2>2, <4>1 DEF New
    <3>3. QED  BY <1>6, <3>1, <3>2
  <2>3. CASE n \notin known
    <3>1. f[n] = StepSegment(f[n - 1], n)  BY <1>3, <2>3
    <3>2. New(n) = New(n - 1) \cup {n}
      <4>1. lo .. n = (lo .. n - 1) \cup {n}  BY <2>1, <1>6
      <4>2. QED  BY <2>3, <4>1 DEF New
    <3> DEFINE b == f[n - 1]
               c == StepSegment(b, n)
    <3>3. b \in Batches /\ Inits(s \o b.items, b.init)  BY <1>6
    <3>4. \A S : Sends(s, S) /\ Below(S) => Sends(s \o b.items, S \cup (New(n - 1) \ Ads))
      BY <1>6
    <3> HIDE DEF b, P
    <3>5. /\ c \in Batches /\ Inits(s \o c.items, c.init)
          /\ \A S : Sends(s \o b.items, S) /\ (\A m \in S : m < n) =>
                      Sends(s \o c.items, S \cup ({n} \ Ads))
      BY <2>1, <3>3, StepSends
    <3>6. f[n] = c  BY <3>1 DEF b
    <3> HIDE DEF c
    <3>7. ASSUME NEW S, Sends(s, S), Below(S)
          PROVE  Sends(s \o c.items, S \cup (New(n) \ Ads))
      <4> DEFINE V == S \cup (New(n - 1) \ Ads)
      <4>1. Sends(s \o b.items, V)  BY <3>4, <3>7
      <4>2. ASSUME NEW m \in V PROVE m < n
        <5>1. CASE m \in S
          <6>1. n \in Listed(w) \ known  BY <1>1, <2>3
          <6>2. QED  BY <3>7, <5>1, <6>1 DEF Below
        <5>2. CASE m \in lo .. n - 1  BY <2>1, <5>2
        <5>3. QED  BY <5>1, <5>2 DEF New
      <4>3. V \cup ({n} \ Ads) = S \cup (New(n) \ Ads)  BY <3>2
      <4> HIDE DEF V
      <4>4. Sends(s \o c.items, V \cup ({n} \ Ads))  BY <3>5, <4>1, <4>2
      <4>5. QED  BY <4>3, <4>4
    <3>8. QED  BY <3>5, <3>6, <3>7 DEF P
  <2>4. QED  BY <2>2, <2>3
<1> HIDE DEF P
<1>7. 0 \in T  BY <1>4, <1>5
<1>8. ASSUME NEW k \in 0 .. z - 1, k \in T PROVE k + 1 \in T
  <2>1. k \in Nat /\ k + 1 \in 0 .. z  BY <1>4
  <2>2. lo - 1 + (k + 1) \in lo .. hi /\ (lo - 1 + (k + 1)) - 1 = lo - 1 + k
    BY <1>1, <1>4, <1>8
  <2>3. P(lo - 1 + k)  BY <1>8
  <2>4. P(lo - 1 + (k + 1))  BY <1>6, <2>2, <2>3
  <2>5. QED  BY <2>1, <2>4
<1> HIDE DEF T, z
<1>9. 0 .. z \subseteq T  BY <1>4, <1>7, <1>8, UpTo
<1>10. P(hi)  BY <1>4, <1>9 DEF T
<1>11. QED  BY <1>1, <1>2, <1>10 DEF P, New, Below

--------------------------------------------------------------------------------
LEMMA Nothing == Inits(<<>>, "") /\ Sends(<<>>, {})
<1>1. SegmentsOf(<<>>) = {}  BY DEF SegmentsOf
<1>2. QED  BY <1>1 DEF Inits, Sends

(* Pushing a listing when all of the last batch was sent.                  *)
LEMMA PushSends ==
  ASSUME IInv, batch = <<>>, items' = items,
         NEW w \in Windows, NEW known \in SUBSET (1 .. Newest), Push(w, known)
  PROVE  /\ cur' = w /\ phase' = "emit" /\ seen' = known \cup Listed(w)
         /\ offered' = offered \cup Listed(w)
         /\ Listed(w) \subseteq 1 .. Newest
         /\ lastInit' \in Urls /\ idx' \in Nat /\ batch' \in Seq(ItemSet)
         /\ Inits(items \o batch', lastInit')
         /\ \A S : Sends(Sent, S) /\ (\A n \in Listed(w) \ known : \A m \in S : m < n) =>
              Sends(items \o batch', S \cup ((Listed(w) \ known) \ Ads))
<1> DEFINE b == Batch(w, known, lastInit, idx)
<1>1. /\ cur' = w /\ phase' = "emit" /\ seen' = known \cup Listed(w)
      /\ offered' = offered \cup Listed(w)
      /\ lastInit' = b.init /\ idx' = b.next /\ batch' = b.items
  BY DEF Push
<1>2. items \in Seq(ItemSet) /\ lastInit \in Urls /\ idx \in Nat  BY DEF IInv, TypeOK
<1>3. Sent = items  BY <1>2, ConcatEmptySeq DEF Sent
<1>4. Inits(items, lastInit)  BY <1>3 DEF IInv, InitInv
<1>5. /\ b \in Batches /\ Inits(items \o b.items, b.init)
      /\ \A S : Sends(items, S) /\ (\A n \in Listed(w) \ known : \A m \in S : m < n) =>
              Sends(items \o b.items, S \cup ((Listed(w) \ known) \ Ads))
  BY <1>2, <1>4, BatchSends
<1> HIDE DEF b
<1>6. b.init \in Urls /\ b.next \in Nat /\ b.items \in Seq(ItemSet)  BY <1>5 DEF Batches
<1>7. Listed(w) \subseteq 1 .. Newest  BY FeederAssumption DEF Windows, Listed
<1>8. QED  BY <1>1, <1>3, <1>5, <1>6, <1>7

(* Sending one leaves what is sent and to be sent as it was.               *)
LEMMA SendOne ==
  ASSUME IInv, batch # <<>>, items' = Append(items, Head(batch)), batch' = Tail(batch)
  PROVE  items' \in Seq(ItemSet) /\ batch' \in Seq(ItemSet) /\ Sent' = Sent
<1>1. items \in Seq(ItemSet) /\ batch \in Seq(ItemSet)  BY DEF IInv, TypeOK
<1> DEFINE x == Head(batch)
           q == Tail(batch)
<1>2. x \in ItemSet /\ q \in Seq(ItemSet) /\ <<x>> \in Seq(ItemSet)
  BY <1>1, HeadTailProperties
<1>3. batch = <<x>> \o q
  <2>1. /\ Len(q) = Len(batch) - 1 /\ \A i \in 1 .. Len(q) : q[i] = batch[i + 1]
        /\ x = batch[1]
    BY <1>1, HeadTailProperties
  <2>2. Len(<<x>>) = 1 /\ <<x>>[1] = x  OBVIOUS
  <2> DEFINE a == <<x>>
             r == a \o q
             l == Len(q)
  <2>3. /\ a \in Seq(ItemSet) /\ Len(a) = 1 /\ a[1] = x  BY <1>2, <2>2
  <2>4. l \in Nat /\ Len(batch) \in Nat /\ Len(batch) = 1 + l
    <3>1. l \in Nat /\ Len(batch) \in Nat  BY <1>1, <1>2, LenProperties
    <3>2. QED  BY <2>1, <3>1
  <2> HIDE DEF a, q, x
  <2>5. /\ r \in Seq(ItemSet) /\ Len(r) = 1 + l
        /\ \A i \in 1 .. 1 + l : r[i] = IF i <= 1 THEN a[i] ELSE q[i - 1]
    <3>1. a \in Seq(ItemSet) /\ q \in Seq(ItemSet)  BY <1>2, <2>3
    <3>2. /\ a \o q \in Seq(ItemSet) /\ Len(a \o q) = Len(a) + Len(q)
          /\ \A i \in 1 .. Len(a) + Len(q) :
               (a \o q)[i] = IF i <= Len(a) THEN a[i] ELSE q[i - Len(a)]
      BY <3>1, ConcatProperties
    <3> HIDE DEF l
    <3>3. Len(a) = 1 /\ Len(q) = l  BY <2>3 DEF l
    <3>4. QED  BY <3>2, <3>3
  <2> HIDE DEF r, l
  <2>6. ASSUME NEW i \in 1 .. 1 + l PROVE batch[i] = r[i]
    <3>1. CASE i = 1  BY <2>1, <2>3, <2>4, <2>5, <3>1
    <3>2. CASE i # 1
      <4>1. i - 1 \in 1 .. l /\ (i - 1) + 1 = i /\ ~(i <= 1)  BY <2>4, <3>2
      <4>2. QED  BY <2>1, <2>5, <4>1 DEF l
    <3>3. QED  BY <3>1, <3>2
  <2>7. batch = r  BY <1>1, <2>4, <2>5, <2>6, SeqEqual
  <2>8. QED  BY <2>7 DEF r, a
<1> HIDE DEF x, q
<1>4. Append(items, x) = items \o <<x>> /\ Append(items, x) \in Seq(ItemSet)
  BY <1>1, <1>2, AppendIsConcat, AppendProperties
<1>5. (items \o <<x>>) \o q = items \o (<<x>> \o q)  BY <1>1, <1>2, ConcatAssociative
<1>6. items' = items \o <<x>> /\ batch' = q  BY <1>4 DEF x, q
<1>7. Sent' = (items \o <<x>>) \o q  BY <1>6 DEF Sent
<1>8. Sent = items \o (<<x>> \o q)  BY <1>3 DEF Sent
<1>9. QED  BY <1>2, <1>4, <1>5, <1>6, <1>7, <1>8

LEMMA InitHolds == Init => IInv
<1> SUFFICES ASSUME Init PROVE IInv  OBVIOUS
<1>1. Window \in Nat \ {0} /\ Newest \in Nat /\ Window < Newest  BY FeederAssumption
<1>2. PICK w \in {[lo |-> 1, hi |-> Window, more |-> TRUE], [lo |-> 2, hi |-> 2, more |-> TRUE]} :
         /\ origin = w /\ prior = w /\ cur = w
         /\ \/ nextIdx = 0
            \/ \E k \in DOMAIN Whole(w) : nextIdx = k
            \/ nextIdx = 2
  BY DEF Init
<1>3. w \in Windows
  <2>1. 1 \in 1 .. Newest /\ Window \in 1 .. Newest /\ 2 \in 1 .. Newest /\ 1 <= Window /\ 2 <= 2
    BY <1>1
  <2>2. CASE w = [lo |-> 1, hi |-> Window, more |-> TRUE]  BY <2>1, <2>2 DEF Windows
  <2>3. CASE w = [lo |-> 2, hi |-> 2, more |-> TRUE]  BY <2>1, <2>3 DEF Windows
  <2>4. QED  BY <1>2, <2>2, <2>3
<1>4. "" \in Urls /\ <<>> \in Seq(ItemSet)  BY DEF Urls
<1>5. nextIdx \in Nat
  <2>1. Batch(w, {}, "", 0) \in Batches  BY <1>3, <1>4, Nothing, BatchSends
  <2>2. Whole(w) \in Seq(ItemSet)  BY <2>1 DEF Whole, Batches
  <2>3. DOMAIN Whole(w) = 1 .. Len(Whole(w)) /\ Len(Whole(w)) \in Nat
    BY <2>2, LenProperties
  <2>4. DOMAIN Whole(w) \subseteq Nat  BY <2>3
  <2>5. QED  BY <1>2, <2>4
<1>6. /\ live \in BOOLEAN /\ fromStart \in BOOLEAN /\ phase = "start" /\ stale = 0
      /\ seen = {} /\ lastInit = "" /\ idx = 0 /\ batch = <<>> /\ items = <<>>
      /\ backlog = {} /\ offered = {}
  BY DEF Init
<1>7. TypeOK  BY <1>2, <1>3, <1>4, <1>5, <1>6 DEF TypeOK
<1>8. PhaseInv  BY <1>6 DEF PhaseInv
<1>9. Sent = <<>>  BY <1>4, <1>6, ConcatEmptySeq DEF Sent
<1>10. InitInv  BY <1>6, <1>9, Nothing DEF InitInv
<1>11. OrderInv
  <2>1. offered \ (backlog \cup Ads) = {}  BY <1>6
  <2>2. w.lo \in Int /\ w.hi \in Int  BY <1>3 DEF Windows
  <2>3. Sends(Sent, offered \ (backlog \cup Ads))  BY <1>9, <2>1, Nothing
  <2>4. cur.lo <= origin.lo /\ cur.hi <= origin.hi  BY <1>2, <2>2
  <2>5. QED  BY <1>6, <2>3, <2>4 DEF OrderInv
<1>12. QED  BY <1>7, <1>8, <1>10, <1>11 DEF IInv

LEMMA StartStep == IInv /\ Start => IInv'
<1> SUFFICES ASSUME IInv, Start PROVE IInv'  OBVIOUS
<1>1. /\ phase = "start" /\ batch = <<>> /\ items = <<>> /\ offered = {} /\ backlog = {}
  BY DEF IInv, PhaseInv, Start
<1>2. /\ Push(origin, Edge) /\ backlog' = Edge /\ items' = items /\ origin' = origin
      /\ UNCHANGED <<live, fromStart, prior, stale, nextIdx>>
  BY DEF Start, source, history
<1>3. origin \in Windows  BY DEF IInv, TypeOK
<1>4. Listed(origin) \subseteq 1 .. Newest /\ Edge \subseteq Listed(origin)
  BY <1>3, FeederAssumption DEF Windows, Listed, Edge
<1> HIDE DEF Edge
<1>5. /\ cur' = origin /\ phase' = "emit" /\ seen' = Edge \cup Listed(origin)
      /\ offered' = offered \cup Listed(origin)
      /\ lastInit' \in Urls /\ idx' \in Nat /\ batch' \in Seq(ItemSet)
      /\ Inits(items \o batch', lastInit')
      /\ \A S : Sends(Sent, S) /\ (\A n \in Listed(origin) \ Edge : \A m \in S : m < n) =>
           Sends(items \o batch', S \cup ((Listed(origin) \ Edge) \ Ads))
  BY <1>1, <1>2, <1>3, <1>4, PushSends
<1>6. TypeOK'  BY <1>2, <1>3, <1>4, <1>5, <1>1 DEF IInv, TypeOK
<1>7. PhaseInv'  BY <1>5 DEF PhaseInv
<1>8. Sent' = items \o batch'  BY <1>2 DEF Sent
<1>9. InitInv'  BY <1>5, <1>8 DEF InitInv
<1>10. OrderInv'
  <2>1. Sends(Sent, {})
    <3>1. Sent = <<>>  BY <1>1, ConcatEmptySeq DEF Sent, IInv, TypeOK
    <3>2. QED  BY <3>1, Nothing
  <2>2. Sends(items \o batch', {} \cup ((Listed(origin) \ Edge) \ Ads))  BY <1>5, <2>1
  <2>3. {} \cup ((Listed(origin) \ Edge) \ Ads) = offered' \ (backlog' \cup Ads)
    BY <1>1, <1>2, <1>5
  <2>4. Sends(Sent', offered' \ (backlog' \cup Ads))  BY <1>8, <2>2, <2>3
  <2>5. cur'.lo <= origin'.lo /\ cur'.hi <= origin'.hi  BY <1>2, <1>3, <1>5 DEF Windows
  <2>6. \A n \in offered' : n <= cur'.hi  BY <1>1, <1>3, <1>5 DEF Listed, Windows
  <2>7. backlog' \subseteq offered' /\ Listed(cur') \subseteq offered' /\ Listed(cur') \subseteq seen'
    BY <1>2, <1>4, <1>5
  <2>8. QED  BY <1>5, <2>4, <2>5, <2>6, <2>7 DEF OrderInv, Listed
<1>11. QED  BY <1>6, <1>7, <1>9, <1>10 DEF IInv

LEMMA SendStep == IInv /\ (Skip \/ Emit) => IInv'
<1> SUFFICES ASSUME IInv, Skip \/ Emit PROVE IInv'  OBVIOUS
<1>1. /\ phase = "emit" /\ batch # <<>>
      /\ items' = Append(items, Head(batch)) /\ batch' = Tail(batch)
      /\ UNCHANGED <<live, fromStart, origin, prior, stale, nextIdx, phase, cur, seen,
                     lastInit, idx, backlog, offered>>
  BY DEF Skip, Emit, source, feeder
<1>2. items' \in Seq(ItemSet) /\ batch' \in Seq(ItemSet) /\ Sent' = Sent  BY <1>1, SendOne
<1>3. TypeOK'  BY <1>1, <1>2 DEF IInv, TypeOK
<1>4. PhaseInv'  BY <1>1 DEF PhaseInv
<1>5. InitInv'  BY <1>1, <1>2 DEF IInv, InitInv
<1>6. OrderInv'  BY <1>1, <1>2 DEF IInv, OrderInv, Listed
<1>7. QED  BY <1>3, <1>4, <1>5, <1>6 DEF IInv

LEMMA PushedStep == IInv /\ Pushed => IInv'
<1> SUFFICES ASSUME IInv, Pushed PROVE IInv'  OBVIOUS
<1>1. /\ phase = "emit" /\ batch = <<>> /\ seen' = seen \cap Listed(cur)
      /\ phase' \in {"wait", "done"}
      /\ UNCHANGED <<live, fromStart, origin, prior, stale, nextIdx, cur, lastInit, idx,
                     backlog, offered, batch, items>>
  BY DEF Pushed, source, history
<1>2. Sent' = Sent  BY <1>1 DEF Sent
<1>3. TypeOK'  BY <1>1 DEF IInv, TypeOK
<1>4. PhaseInv'  BY <1>1 DEF PhaseInv
<1>5. InitInv'  BY <1>1, <1>2 DEF IInv, InitInv
<1>6. OrderInv'  BY <1>1, <1>2 DEF IInv, OrderInv, Listed
<1>7. QED  BY <1>3, <1>4, <1>5, <1>6 DEF IInv

LEMMA RefreshStep == IInv /\ Refresh => IInv'
<1> SUFFICES ASSUME IInv, Refresh PROVE IInv'  OBVIOUS
<1>1. phase = "wait" /\ batch = <<>>  BY DEF IInv, PhaseInv, Refresh
<1>2. /\ Push(origin, seen) /\ items' = items
      /\ UNCHANGED <<live, fromStart, origin, prior, stale, nextIdx, backlog>>
  BY DEF Refresh, source, history
<1>3. origin \in Windows /\ seen \in SUBSET (1 .. Newest)  BY DEF IInv, TypeOK
<1>4. /\ cur' = origin /\ phase' = "emit" /\ seen' = seen \cup Listed(origin)
      /\ offered' = offered \cup Listed(origin)
      /\ Listed(origin) \subseteq 1 .. Newest
      /\ lastInit' \in Urls /\ idx' \in Nat /\ batch' \in Seq(ItemSet)
      /\ Inits(items \o batch', lastInit')
      /\ \A S : Sends(Sent, S) /\ (\A n \in Listed(origin) \ seen : \A m \in S : m < n) =>
           Sends(items \o batch', S \cup ((Listed(origin) \ seen) \ Ads))
  BY <1>1, <1>2, <1>3, PushSends
<1>5. TypeOK'  BY <1>2, <1>3, <1>4 DEF IInv, TypeOK
<1>6. PhaseInv'  BY <1>4 DEF PhaseInv
<1>7. Sent' = items \o batch'  BY <1>2 DEF Sent
<1>8. InitInv'  BY <1>4, <1>7 DEF InitInv
<1>9. ASSUME stale = 0
      PROVE  /\ cur'.lo <= origin'.lo /\ cur'.hi <= origin'.hi
             /\ \A n \in offered' : n <= cur'.hi
             /\ backlog' \subseteq offered' /\ Listed(cur') \subseteq offered'
             /\ Listed(cur') \subseteq seen'
             /\ Sends(Sent', offered' \ (backlog' \cup Ads))
  <2> DEFINE S == offered \ (backlog \cup Ads)
  <2>1. /\ cur.lo <= origin.lo /\ cur.hi <= origin.hi
        /\ \A n \in offered : n <= cur.hi
        /\ backlog \subseteq offered /\ Listed(cur) \subseteq offered /\ seen = Listed(cur)
        /\ Sends(Sent, S)
    BY <1>1, <1>9 DEF IInv, OrderInv
  <2>2. /\ cur.lo \in Nat /\ cur.hi \in Nat /\ origin.lo \in Nat /\ origin.hi \in Nat
        /\ offered \subseteq Nat
    BY DEF IInv, TypeOK, Windows
  <2>3. \A n \in Listed(origin) \ seen : n \in Nat /\ cur.hi < n  BY <2>1, <2>2 DEF Listed
  <2>4. \A n \in Listed(origin) \ seen : \A m \in offered : m < n  BY <2>1, <2>2, <2>3
  <2>5. Sends(items \o batch', S \cup ((Listed(origin) \ seen) \ Ads))  BY <1>4, <2>1, <2>4
  <2>6. \A n \in Listed(origin) \ seen : n \notin backlog
    <3>1. \A n \in offered : ~(n < n)  BY <2>2
    <3>2. QED  BY <2>1, <2>4, <3>1
  <2>7. S \cup ((Listed(origin) \ seen) \ Ads) = offered' \ (backlog' \cup Ads)
    <3>1. seen \subseteq offered  BY <2>1
    <3> HIDE DEF Listed
    <3>2. QED  BY <1>2, <1>4, <2>6, <3>1
  <2>8. \A n \in offered' : n <= cur'.hi
    <3>1. \A n \in Listed(origin) : n <= origin.hi  BY <2>2 DEF Listed
    <3>2. \A n \in offered : n <= origin.hi  BY <2>1, <2>2
    <3>3. QED  BY <1>4, <3>1, <3>2
  <2>9. cur'.lo <= origin'.lo /\ cur'.hi <= origin'.hi  BY <1>2, <1>4, <2>2
  <2>10. backlog' \subseteq offered' /\ Listed(cur') \subseteq offered' /\ Listed(cur') \subseteq seen'
    BY <1>2, <1>4, <2>1
  <2> HIDE DEF S
  <2>11. QED  BY <1>7, <2>5, <2>7, <2>8, <2>9, <2>10
<1>10. OrderInv'  BY <1>2, <1>4, <1>9 DEF OrderInv, Listed
<1>11. QED  BY <1>5, <1>6, <1>8, <1>10 DEF IInv

LEMMA StaleStep == IInv /\ RefreshStale => IInv'
<1> SUFFICES ASSUME IInv, RefreshStale PROVE IInv'  OBVIOUS
<1>1. phase = "wait" /\ batch = <<>>  BY DEF IInv, PhaseInv, RefreshStale
<1>2. /\ Push(prior, seen) /\ items' = items /\ stale' = stale + 1
      /\ UNCHANGED <<live, fromStart, origin, prior, nextIdx, backlog>>
  BY DEF RefreshStale, source, history
<1>3. prior \in Windows /\ seen \in SUBSET (1 .. Newest) /\ stale \in Nat  BY DEF IInv, TypeOK
<1>4. /\ cur' = prior /\ phase' = "emit" /\ seen' = seen \cup Listed(prior)
      /\ offered' = offered \cup Listed(prior)
      /\ Listed(prior) \subseteq 1 .. Newest
      /\ lastInit' \in Urls /\ idx' \in Nat /\ batch' \in Seq(ItemSet)
      /\ Inits(items \o batch', lastInit')
  BY <1>1, <1>2, <1>3, PushSends
<1>5. stale' \in Nat /\ stale' # 0  BY <1>2, <1>3
<1>6. TypeOK'  BY <1>2, <1>3, <1>4, <1>5 DEF IInv, TypeOK
<1>7. PhaseInv'  BY <1>4 DEF PhaseInv
<1>8. InitInv'  BY <1>2, <1>4 DEF InitInv, Sent
<1>9. OrderInv'  BY <1>5 DEF OrderInv
<1>10. QED  BY <1>6, <1>7, <1>8, <1>9 DEF IInv

LEMMA MoveStep == IInv /\ Move => IInv'
<1> SUFFICES ASSUME IInv, Move PROVE IInv'  OBVIOUS
<1>1. PICK lo \in origin.lo .. Newest, hi \in origin.hi .. Newest, more \in BOOLEAN :
        lo <= hi /\ origin' = [lo |-> lo, hi |-> hi, more |-> more]
  BY DEF Move
<1>2. /\ prior' = origin
      /\ UNCHANGED <<live, fromStart, stale, nextIdx, phase, cur, seen, lastInit, idx, batch,
                     items, backlog, offered>>
  BY DEF Move, source, feeder, history
<1>3. /\ origin.lo \in 1 .. Newest /\ origin.hi \in 1 .. Newest /\ Newest \in Nat
      /\ cur.lo \in Nat /\ cur.hi \in Nat
  BY FeederAssumption DEF IInv, TypeOK, Windows
<1>4. lo \in 1 .. Newest /\ hi \in 1 .. Newest /\ origin.lo <= lo /\ origin.hi <= hi
  BY <1>1, <1>3
<1>5. origin' \in Windows  BY <1>1, <1>4 DEF Windows
<1>6. TypeOK'  BY <1>2, <1>5 DEF IInv, TypeOK
<1>7. PhaseInv'  BY <1>2 DEF IInv, PhaseInv
<1>8. Sent' = Sent  BY <1>2 DEF Sent
<1>9. InitInv'  BY <1>2, <1>8 DEF IInv, InitInv
<1>10. ASSUME stale = 0 PROVE cur.lo <= origin'.lo /\ cur.hi <= origin'.hi
  <2>1. cur.lo <= origin.lo /\ cur.hi <= origin.hi  BY <1>10 DEF IInv, OrderInv
  <2>2. origin'.lo = lo /\ origin'.hi = hi  BY <1>1
  <2>3. QED  BY <1>3, <1>4, <2>1, <2>2
<1>11. OrderInv'  BY <1>2, <1>8, <1>10 DEF IInv, OrderInv, Listed
<1>12. QED  BY <1>6, <1>7, <1>9, <1>11 DEF IInv

LEMMA EndStep == IInv /\ (StopWaiting \/ CancelEmit \/ UNCHANGED vars) => IInv'
<1> SUFFICES ASSUME IInv, StopWaiting \/ CancelEmit \/ UNCHANGED vars PROVE IInv'  OBVIOUS
<1>1. /\ phase' \in {phase, "done"}
      /\ UNCHANGED <<live, fromStart, origin, prior, stale, nextIdx, cur, seen, lastInit, idx,
                     batch, items, backlog, offered>>
      /\ phase' = "done" => phase # "start" \/ phase = "done"
  BY DEF StopWaiting, CancelEmit, vars, source, feeder, history
<1>2. Sent' = Sent  BY <1>1 DEF Sent
<1>3. TypeOK'  BY <1>1 DEF IInv, TypeOK
<1>4. PhaseInv'  BY <1>1 DEF IInv, PhaseInv
<1>5. InitInv'  BY <1>1, <1>2 DEF IInv, InitInv
<1>6. OrderInv'  BY <1>1, <1>2 DEF IInv, OrderInv, Listed
<1>7. QED  BY <1>3, <1>4, <1>5, <1>6 DEF IInv

(* What the feeder keeps, for every window, ads and inits.                 *)
THEOREM FeederInvariance == Spec => []IInv
<1>1. IInv /\ [Next]_vars => IInv'
  BY StartStep, SendStep, PushedStep, RefreshStep, StaleStep, MoveStep, EndStep DEF Next
<1>2. QED  BY InitHolds, <1>1, PTL DEF Spec

(* As long as no refresh went back, every segment from the live edge on,   *)
(* but for the ads, is sent exactly once and in playlist order: what       *)
(* engine.feed keeps with seen, which it cuts after every batch.           *)
THEOREM OnceAndInOrder == Spec => []OnceInOrder
<1>1. IInv => OnceInOrder  BY DEF IInv, OrderInv, OnceInOrder, Sends
<1>2. QED  BY FeederInvariance, <1>1, PTL

(* Every segment is sent behind the init it needs, also when a cache sends *)
(* the playlist back: what engine.feed keeps with lastInit.                *)
THEOREM InitFirst == Spec => []InitPrecedes
<1>1. IInv => InitPrecedes  BY DEF IInv, InitInv, Inits, Behind, InitPrecedes
<1>2. QED  BY FeederInvariance, <1>1, PTL

--------------------------------------------------------------------------------
(* A run that finds a NextIdx is one of a VOD, which is pushed once: what  *)
(* is skipped is what the run before sent and, below NextIdx, wrote.       *)
SkipInv ==
  /\ skipped \subseteq written
  /\ nextIdx # 0 =>
       /\ ~live /\ written = WrittenBy(nextIdx, origin) /\ phase # "wait"
       /\ phase # "start" =>
            \A i \in DOMAIN batch : \E j \in DOMAIN Whole(origin) : batch[i] = Whole(origin)[j]

LEMMA SkipInit == ASSUME ~RerunsLive PROVE Init => SkipInv
BY DEF Init, SkipInv

LEMMA SkipStep == IInv /\ SkipInv /\ [Next]_vars => SkipInv'
<1> SUFFICES ASSUME IInv, SkipInv, [Next]_vars PROVE SkipInv'  OBVIOUS
<1> DEFINE Sub(q) ==
      \A i \in DOMAIN q : \E j \in DOMAIN Whole(origin) : q[i] = Whole(origin)[j]
<1>1. batch \in Seq(ItemSet) /\ nextIdx \in Nat  BY DEF IInv, TypeOK
<1>2. CASE Start
  <2>1. /\ Push(origin, Edge) /\ phase = "start"
        /\ UNCHANGED <<live, origin, nextIdx, skipped, written>>
    BY <1>2 DEF Start, source, history
  <2>2. phase' = "emit"  BY <2>1 DEF Push
  <2>3. nextIdx # 0 => batch' = Whole(origin)
    <3>1. lastInit = "" /\ idx = 0  BY <2>1 DEF IInv, PhaseInv
    <3>2. nextIdx # 0 => Edge = {}  BY DEF Edge
    <3>3. batch' = Batch(origin, Edge, lastInit, idx).items  BY <2>1 DEF Push
    <3>4. QED  BY <3>1, <3>2, <3>3 DEF Whole
  <2>4. QED  BY <2>1, <2>2, <2>3 DEF SkipInv
<1>3. CASE Skip \/ Emit
  <2>1. /\ phase = "emit" /\ phase' = phase /\ batch # <<>> /\ batch' = Tail(batch)
        /\ UNCHANGED <<live, origin, nextIdx, written>>
    BY <1>3 DEF Skip, Emit, source, feeder
  <2>2. Head(batch) = batch[1] /\ 1 \in DOMAIN batch
    BY <1>1, <2>1, EmptySeq, LenProperties
  <2>3. Sub(batch) => Sub(Tail(batch))
    <3> DEFINE q == Tail(batch)
    <3>1. /\ q \in Seq(ItemSet) /\ Len(q) = Len(batch) - 1
          /\ \A i \in 1 .. Len(q) : q[i] = batch[i + 1]
      BY <1>1, <2>1, HeadTailProperties
    <3>2. /\ DOMAIN q = 1 .. Len(q) /\ DOMAIN batch = 1 .. Len(batch)
          /\ Len(q) \in Nat /\ Len(batch) \in Nat
      BY <1>1, <3>1, LenProperties
    <3> HIDE DEF q
    <3>3. \A i \in 1 .. Len(q) : i + 1 \in 1 .. Len(batch)  BY <3>1, <3>2
    <3>4. Sub(batch) => Sub(q)  BY <3>1, <3>2, <3>3
    <3>5. QED  BY <3>4 DEF q
  <2>4. skipped' \subseteq written
    <3>1. CASE Emit  BY <3>1 DEF Emit, SkipInv
    <3>2. CASE Skip
      <4> DEFINE x == Head(batch)
      <4>1. x.idx < nextIdx /\ skipped' = skipped \cup ({x.seg} \ {0})  BY <3>2 DEF Skip
      <4>2. x.idx \in Nat
        <5>1. x \in ItemSet  BY <1>1, <2>1, HeadTailProperties
        <5>2. QED  BY <5>1 DEF ItemSet
      <4>3. nextIdx # 0  BY <1>1, <4>1, <4>2
      <4>4. PICK j \in DOMAIN Whole(origin) : x = Whole(origin)[j]
        BY <2>1, <2>2, <4>3 DEF SkipInv
      <4>5. {x.seg} \ {0} \subseteq WrittenBy(nextIdx, origin)
        <5> HIDE DEF x
        <5>1. QED  BY <4>1, <4>4 DEF WrittenBy
      <4>6. QED  BY <4>1, <4>3, <4>5 DEF SkipInv
    <3>3. QED  BY <1>3, <3>1, <3>2
  <2>5. QED  BY <2>1, <2>3, <2>4 DEF SkipInv
<1>4. CASE Pushed
  <2>1. /\ UNCHANGED <<live, origin, nextIdx, skipped, written, batch>>
        /\ phase' = "wait" => live
        /\ phase = "emit"
    BY <1>4 DEF Pushed, source, history
  <2>2. QED  BY <2>1 DEF SkipInv
<1>5. CASE Refresh \/ RefreshStale
  <2>1. phase = "wait" /\ UNCHANGED <<nextIdx, skipped, written>>
    BY <1>5 DEF Refresh, RefreshStale, history
  <2>2. QED  BY <2>1 DEF SkipInv
<1>6. CASE Move
  <2>1. live /\ UNCHANGED <<nextIdx, skipped, written>>  BY <1>6 DEF Move, history
  <2>2. QED  BY <2>1 DEF SkipInv
<1>7. CASE StopWaiting \/ CancelEmit \/ UNCHANGED vars
  <2>1. /\ UNCHANGED <<live, origin, nextIdx, skipped, written, batch>>
        /\ phase' \in {phase, "done"} /\ (phase' = "done" => phase # "start" \/ phase = "done")
    BY <1>7 DEF StopWaiting, CancelEmit, vars, source, history
  <2>2. QED  BY <2>1 DEF SkipInv
<1>8. QED  BY <1>2, <1>3, <1>4, <1>5, <1>6, <1>7 DEF Next

(* Unless a live recording that was killed is run again, an item is only   *)
(* skipped when the run before wrote its segment: engine.feed's test of an *)
(* index against state.NextIdx.                                            *)
THEOREM SkipsAreWritten == ASSUME ~RerunsLive PROVE Spec => []SkipsOnlyWritten
<1>1. Spec => []SkipInv  BY SkipInit, SkipStep, FeederInvariance, PTL DEF Spec
<1>2. SkipInv => SkipsOnlyWritten  BY DEF SkipInv, SkipsOnlyWritten
<1>3. QED  BY <1>1, <1>2, PTL
================================================================================
