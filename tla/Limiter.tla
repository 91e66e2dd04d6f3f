-------------------------------- MODULE Limiter --------------------------------
(***************************************************************************)
(* The adaptive concurrency of one download: the limiter, a counter behind *)
(* a mutex and a condition variable that every worker passes before a      *)
(* fetch, and the controller that resizes it twice a second.               *)
(*                                                                         *)
(* A critical section is one step; what a worker does between acquire and  *)
(* release is one fetch.  Bytes per tick are a number of Rates, and what   *)
(* the workers report between two ticks is whether there was an error or   *)
(* rate-limit pressure.                                                    *)
(***************************************************************************)
EXTENDS Integers, FiniteSets

CONSTANTS
  Workers,       (* Worker goroutines there can be.                        *)
  AdaptiveMin, AdaptiveStart, AdaptiveMax,
  Threads,       (* Values of -t to try; 0 means that it was not given.    *)
  Rates          (* Throughputs a tick may measure.                        *)

ASSUME LimiterAssumption ==
  /\ IsFiniteSet(Workers)
  /\ AdaptiveMin \in Nat \ {0}
  /\ AdaptiveStart \in Nat /\ AdaptiveMin <= AdaptiveStart
  /\ AdaptiveMax \in Nat /\ AdaptiveStart <= AdaptiveMax
  /\ Threads \subseteq Nat
  /\ Rates \subseteq Nat

VARIABLES
  minC, maxC,    (* The floor and the ceiling of the limit.                *)
  fixed,         (* -t was given.                                          *)
  limit,         (* l.limit                                                *)
  inflight,      (* l.inflight                                             *)
  closed,        (* l.closed                                               *)
  canceled,      (* ctx is done.                                           *)
  wpc,           (* Where each worker is: "idle", "enter" (calls acquire), *)
                 (* "sleep" (in cond.Wait), "woken" (to look again),       *)
                 (* "fetch" or "left".                                     *)
  trouble,       (* Errors or pressure were reported since the last tick.  *)
  ticking,       (* controller.run has not returned.                       *)
  slowStart, cooldown, prevTP      (* ctlState                             *)

bounds  == <<minC, maxC, fixed>>
lock    == <<limit, inflight, closed>>
carried == <<slowStart, cooldown, prevTP>>
limiterVars == <<minC, maxC, fixed, limit, inflight, closed, canceled, wpc, trouble,
          ticking, slowStart, cooldown, prevTP>>

Least(a, b) == IF a < b THEN a ELSE b
Most(a, b) == IF a > b THEN a ELSE b

At(place) == {w \in Workers : wpc[w] = place}

(***************************************************************************)
(* The workers.                                                            *)
(***************************************************************************)

(* An item was received, or the last one was and the worker returns.       *)
Enter(w) ==
  /\ wpc[w] = "idle"
  /\ wpc' = [wpc EXCEPT ![w] = "enter"]
  /\ UNCHANGED <<bounds, lock, canceled, trouble, ticking, carried>>

Quit(w) ==
  /\ wpc[w] = "idle"
  /\ wpc' = [wpc EXCEPT ![w] = "left"]
  /\ UNCHANGED <<bounds, lock, canceled, trouble, ticking, carried>>

(* acquire goes round its loop: no room, so it waits.                      *)
Sleep(w) ==
  /\ wpc[w] \in {"enter", "woken"}
  /\ inflight >= limit /\ ~closed /\ ~canceled
  /\ wpc' = [wpc EXCEPT ![w] = "sleep"]
  /\ UNCHANGED <<bounds, lock, canceled, trouble, ticking, carried>>

(* acquire succeeds.                                                       *)
Acquire(w) ==
  /\ wpc[w] \in {"enter", "woken"}
  /\ inflight < limit \/ closed
  /\ ~canceled
  /\ inflight' = inflight + 1
  /\ wpc' = [wpc EXCEPT ![w] = "fetch"]
  /\ UNCHANGED <<bounds, limit, closed, canceled, trouble, ticking, carried>>

(* acquire sees the context done, with or without room.                    *)
AcquireCanceled(w) ==
  /\ wpc[w] \in {"enter", "woken"}
  /\ canceled
  /\ wpc' = [wpc EXCEPT ![w] = "left"]
  /\ UNCHANGED <<bounds, lock, canceled, trouble, ticking, carried>>

(* The fetch is over: release wakes one waiter if there is any, and the    *)
(* worker reports how it went.                                             *)
Release(w) ==
  /\ wpc[w] = "fetch"
  /\ inflight' = inflight - 1
  /\ \/ /\ At("sleep") = {}
        /\ wpc' = [wpc EXCEPT ![w] = "idle"]
     \/ \E s \in At("sleep") : wpc' = [wpc EXCEPT ![w] = "idle", ![s] = "woken"]
  /\ trouble' \in {trouble, TRUE}
  /\ UNCHANGED <<bounds, limit, closed, canceled, ticking, carried>>

(***************************************************************************)
(* The controller.  A tick is an action per case of decide or decideFixed, *)
(* and Resize is the setLimit that follows.                                *)
(***************************************************************************)

Broadcast == [w \in Workers |-> IF wpc[w] = "sleep" THEN "woken" ELSE wpc[w]]

\* Mutant: a higher limit wakes one waiter.
ResizeSignals(n) ==
  /\ limit' = n
  /\ \/ n > limit /\ \E s \in At("sleep") : wpc' = [wpc EXCEPT ![s] = "woken"]
     \/ (n <= limit \/ At("sleep") = {}) /\ UNCHANGED wpc

(* setLimit: a higher limit wakes every waiter.                            *)
Resize(n) ==
  /\ limit' = n
  /\ wpc' = IF n > limit THEN Broadcast ELSE wpc

(* The sampling of a tick: what was reported is taken and reset.           *)
Sample ==
  /\ ticking
  /\ trouble' = FALSE
  /\ UNCHANGED <<bounds, inflight, closed, canceled, ticking>>

Step == Most(1, limit \div 8)

(* tp against prevTP, in percent.                                          *)
Over(tp, percent) == tp * 100 > prevTP * percent
Under(tp, percent) == tp * 100 < prevTP * percent

\* Mutant: the floor is forgotten.
Halved == limit \div 2

(* Both rules: errors or pressure halve the limit and start a cooldown.    *)
Floored == Most(minC, limit \div 2)

BackOff ==
  /\ Sample /\ trouble
  /\ Resize(Floored)
  /\ cooldown' = 2
  /\ slowStart' = (slowStart /\ fixed)
  /\ \E tp \in Rates : prevTP' = IF fixed THEN prevTP ELSE tp

CoolDown ==
  /\ Sample /\ ~trouble
  /\ cooldown > 0
  /\ cooldown' = cooldown - 1
  /\ \E tp \in Rates : prevTP' = IF fixed THEN prevTP ELSE tp
  /\ UNCHANGED <<limit, wpc, slowStart>>

(* What the cases of decide below have in common.                          *)
Tuned(tp) ==
  /\ Sample /\ ~trouble /\ cooldown = 0 /\ ~fixed
  /\ prevTP' = tp
  /\ UNCHANGED cooldown

RampUp == \E tp \in Rates :
  /\ Tuned(tp) /\ slowStart /\ Over(tp, 105)
  /\ Resize(Least(maxC, limit * 2))
  /\ UNCHANGED slowStart

RampEnds == \E tp \in Rates :
  /\ Tuned(tp) /\ slowStart /\ ~Over(tp, 105)
  /\ slowStart' = FALSE
  /\ UNCHANGED <<limit, wpc>>

Probe == \E tp \in Rates :
  /\ Tuned(tp) /\ ~slowStart /\ Over(tp, 110)
  /\ Resize(Least(maxC, limit + Step))
  /\ UNCHANGED slowStart

Ease == \E tp \in Rates :
  /\ Tuned(tp) /\ ~slowStart /\ Under(tp, 90)
  /\ Resize(Most(minC, limit - Step))
  /\ UNCHANGED slowStart

Hold == \E tp \in Rates :
  /\ Tuned(tp) /\ ~slowStart /\ ~Over(tp, 110) /\ ~Under(tp, 90)
  /\ UNCHANGED <<limit, wpc, slowStart>>

(* decideFixed: back up to the pinned count.                               *)
Climb ==
  /\ Sample /\ ~trouble /\ cooldown = 0 /\ fixed
  /\ limit < maxC
  /\ Resize(Least(maxC, limit + Step))
  /\ UNCHANGED carried

(* At the pinned count decideFixed changes nothing, which is no step.      *)
Tick == BackOff \/ CoolDown \/ RampUp \/ RampEnds \/ Probe \/ Ease \/ Hold \/ Climb

(***************************************************************************)
(* The context.                                                            *)
(***************************************************************************)

Cancel ==
  /\ ~canceled
  /\ canceled' = TRUE
  /\ UNCHANGED <<bounds, lock, wpc, trouble, ticking, carried>>

\* Mutant: one waiter is woken.
UnblockOne ==
  /\ canceled /\ ~closed
  /\ closed' = TRUE
  /\ \/ At("sleep") = {} /\ UNCHANGED wpc
     \/ \E s \in At("sleep") : wpc' = [wpc EXCEPT ![s] = "woken"]
  /\ UNCHANGED <<bounds, limit, inflight, canceled, trouble, ticking, carried>>

(* The goroutine that waits for the context wakes everyone.                *)
Unblock ==
  /\ canceled /\ ~closed
  /\ closed' = TRUE
  /\ wpc' = Broadcast
  /\ UNCHANGED <<bounds, limit, inflight, canceled, trouble, ticking, carried>>

TickerStops ==
  /\ canceled /\ ticking
  /\ ticking' = FALSE
  /\ UNCHANGED <<bounds, lock, canceled, wpc, trouble, carried>>

--------------------------------------------------------------------------------

(* newController without -t, newFixedController with it; a worker per unit *)
(* of the ceiling.                                                         *)
LimiterInit ==
  /\ \E t \in Threads :
       /\ fixed = (t > 0)
       /\ maxC = IF t > 0 THEN t ELSE AdaptiveMax
       /\ minC = Least(AdaptiveMin, maxC)
       /\ limit = IF t > 0 THEN maxC ELSE Least(AdaptiveStart, maxC)
  /\ LET pool == CHOOSE p \in SUBSET Workers : Cardinality(p) = maxC
     IN  wpc = [w \in Workers |-> IF w \in pool THEN "idle" ELSE "left"]
  /\ inflight = 0
  /\ closed = FALSE /\ canceled = FALSE
  /\ trouble = FALSE /\ ticking = TRUE
  /\ slowStart = TRUE /\ cooldown = 0 /\ prevTP = 0

WorkerStep(w) ==
  \/ Enter(w) \/ Quit(w) \/ Sleep(w) \/ Acquire(w) \/ AcquireCanceled(w) \/ Release(w)

LimiterNext ==
  \/ \E w \in Workers : WorkerStep(w)
  \/ Tick \/ Cancel \/ Unblock \/ TickerStops

LimiterSpec == LimiterInit /\ [][LimiterNext]_limiterVars

(* Fetches end, the ticker ticks and the goroutines are scheduled; nobody  *)
(* need cancel.                                                            *)
Fairness ==
  /\ \A w \in Workers : WF_limiterVars(WorkerStep(w))
  /\ WF_limiterVars(Tick) /\ WF_limiterVars(Unblock)

FairLimiterSpec == LimiterSpec /\ Fairness

--------------------------------------------------------------------------------

LimiterTypeOK ==
  /\ minC \in Nat /\ maxC \in Nat /\ limit \in Nat
  /\ inflight \in Int
  /\ fixed \in BOOLEAN /\ closed \in BOOLEAN /\ canceled \in BOOLEAN
  /\ wpc \in [Workers -> {"idle", "enter", "sleep", "woken", "fetch", "left"}]
  /\ trouble \in BOOLEAN /\ ticking \in BOOLEAN /\ slowStart \in BOOLEAN
  /\ cooldown \in 0 .. 2
  /\ prevTP \in Nat

(* However errors, plateaus and ticks follow each other, the limit stays   *)
(* between the floor and the ceiling, and the floor is never zero: decide  *)
(* and decideFixed with small ceilings.                                    *)
LimitWithinBounds == 1 <= minC /\ minC <= limit /\ limit <= maxC

(* No wakeup is lost: as long as nothing is canceled, when a worker sleeps *)
(* in acquire there is a worker on its way for every slot that is free.    *)
(* Signals are not kept, a woken worker may find its slot taken, and the   *)
(* limit moves under the waiters.                                          *)
NoLostWakeup ==
  ~canceled /\ At("sleep") # {} => limit - inflight <= Cardinality(At("woken"))

(* What makes the three invariants above inductive: the counter is the     *)
(* number of workers that hold a slot, and only a cancel closes.           *)
Accounted == inflight = Cardinality(At("fetch"))
LimiterInv ==
  /\ LimiterTypeOK /\ LimitWithinBounds /\ NoLostWakeup
  /\ Accounted
  /\ closed => canceled

(* A cancel reaches every worker that waits for a slot, also one that goes *)
(* to sleep while the waiters are being woken.                             *)
CancelReleases == canceled ~> (At("sleep") = {} /\ At("enter") = {} /\ At("woken") = {})
================================================================================
