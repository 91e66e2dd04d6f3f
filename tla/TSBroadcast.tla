---------------------------- MODULE TSBroadcast ----------------------------
(***************************************************************************)
(* restream.TSBroadcaster and its users: the one producer that publishes   *)
(* units to every subscriber without ever waiting for one, the handler of  *)
(* GET /live.ts that serves a viewer, and the two goroutines of a restream *)
(* that call End, the run loop and the watcher of its context.             *)
(*                                                                         *)
(* A unit is its number in the order of publishing and Size its length.    *)
(* The broadcaster's mutex is held while the producer is not idle;         *)
(* Subscribe and Unsubscribe hold it for one step.                         *)
(***************************************************************************)
EXTENDS Integers, Sequences, SequencesExt

CONSTANTS
  Viewers,      (* Connections; each asks for the stream once.             *)
  Units,        (* Bound: the units the source has are 1 .. Units.         *)
  Size,         (* [1 .. Units -> Nat], the bytes of each.                 *)
  Budget,       (* maxSubQueuedBytes                                       *)
  Slots         (* tsSubChanCap                                            *)

ASSUME BroadcastAssumption ==
  /\ Units \in Nat
  /\ Size \in [1 .. Units -> Nat \ {0}]
  /\ Budget \in Nat
  /\ Slots \in Nat \ {0}

VARIABLES
  published,    (* Units published; the last one is b.last.                *)
  producer,     (* "idle", "fanout" (in the loop of publish), "count" (sent*)
                (* but not counted yet) or "finished".                     *)
  todo,         (* Subscribers the loop has not come to.                   *)
  sending,      (* The subscriber it is at, when producer = "count".       *)
  subs,         (* b.subs                                                  *)
  data,         (* [Viewers -> the units in the subscriber's channel]      *)
  queued,       (* [Viewers -> the subscriber's byte count]                *)
  kicked,       (* The viewers whose kicked channel is closed.             *)
  viewer,       (* [Viewers -> where the handler is]                       *)
  draining,     (* Viewers whose handler is in the loop that drains.       *)
  hand,         (* [Viewers -> the unit the handler took last]             *)
  got,          (* [Viewers -> the units written to the response]          *)
  done,         (* b.done is closed.                                       *)
  ender,        (* [Enders -> where the goroutine is with End]             *)
  panicked,     (* A closed channel was closed again; the process is gone. *)
  canceled      (* The context of the restream is done.                    *)

produce == <<published, producer, todo, sending>>
shared  == <<subs, data, queued, kicked>>
handler == <<viewer, draining, hand, got>>
ending  == <<done, ender, panicked>>
vars    == <<published, producer, todo, sending, subs, data, queued, kicked,
             viewer, draining, hand, got, done, ender, panicked, canceled>>

Enders == {"runloop", "watcher"}
Left == {"refused", "served", "gone"}
Unlocked == producer \in {"idle", "finished"}
Bytes(units) ==
  LET sum[k \in 0 .. Len(units)] == IF k = 0 THEN 0 ELSE sum[k - 1] + Size[units[k]]
  IN  sum[Len(units)]

TypeOK ==
  /\ published \in 0 .. Units
  /\ producer \in {"idle", "fanout", "count", "finished"}
  /\ todo \subseteq Viewers
  /\ sending \in Viewers
  /\ subs \subseteq Viewers
  /\ data \in [Viewers -> Seq(1 .. Units)]
  /\ \A v \in Viewers : Len(data[v]) <= Slots
  /\ queued \in [Viewers -> Int]
  /\ kicked \subseteq Viewers
  /\ viewer \in [Viewers -> Left \cup
                   {"out", "join", "look", "wait", "drain", "taken", "writing"}]
  /\ draining \subseteq Viewers
  /\ hand \in [Viewers -> 0 .. Units]
  /\ got \in [Viewers -> Seq(1 .. Units)]
  /\ done \in BOOLEAN
  /\ ender \in [Enders -> {"idle", "called", "closing", "returned"}]
  /\ panicked \in BOOLEAN
  /\ canceled \in BOOLEAN

(***************************************************************************)
(* The producer: publish, called by the sink once per segment.             *)
(***************************************************************************)

(* The lock is taken, b.last set, and the loop over the subscribers begins.*)
PublishBegins ==
  /\ producer = "idle" /\ published < Units
  /\ published' = published + 1
  /\ producer' = "fanout"
  /\ todo' = subs
  /\ UNCHANGED <<sending, shared, handler, ending, canceled>>

(* There is room for the unit at hand, in bytes and in slots.              *)
Fits(v) == queued[v] + Size[published] <= Budget /\ Len(data[v]) < Slots

\* Mutant: the producer waits for a free slot.
OfferWaits(v) ==
  /\ producer = "fanout" /\ v \in todo
  /\ Fits(v)
  /\ todo' = todo \ {v}
  /\ data' = [data EXCEPT ![v] = Append(@, published)]
  /\ producer' = "count"
  /\ sending' = v
  /\ UNCHANGED <<published, subs, queued, kicked, handler, ending, canceled>>

\* Mutant: the viewer that is kicked stays subscribed.
OfferKeepsKicked(v) ==
  /\ producer = "fanout" /\ v \in todo
  /\ todo' = todo \ {v}
  /\ IF Fits(v)
       THEN /\ data' = [data EXCEPT ![v] = Append(@, published)]
            /\ producer' = "count"
            /\ sending' = v
            /\ UNCHANGED kicked
       ELSE /\ kicked' = kicked \cup {v}
            /\ UNCHANGED <<data, producer, sending>>
  /\ UNCHANGED <<published, subs, queued, handler, ending, canceled>>

(* One subscriber's turn: the unit is sent to its channel if it fits, or   *)
(* the subscriber is kicked.                                               *)
Offer(v) ==
  /\ producer = "fanout" /\ v \in todo
  /\ todo' = todo \ {v}
  /\ IF Fits(v)
       THEN /\ data' = [data EXCEPT ![v] = Append(@, published)]
            /\ producer' = "count"
            /\ sending' = v
            /\ UNCHANGED <<subs, kicked>>
       ELSE /\ kicked' = kicked \cup {v}
            /\ subs' = subs \ {v}
            /\ UNCHANGED <<data, producer, sending>>
  /\ UNCHANGED <<published, queued, handler, ending, canceled>>

\* Mutant: units are counted instead of bytes.
CountUnits ==
  /\ producer = "count"
  /\ queued' = [queued EXCEPT ![sending] = @ + 1]
  /\ producer' = "fanout"
  /\ UNCHANGED <<published, todo, sending, subs, data, kicked, handler, ending,
                 canceled>>

(* The sent bytes are counted; the handler may have taken them already.    *)
Count ==
  /\ producer = "count"
  /\ queued' = [queued EXCEPT ![sending] = @ + Size[published]]
  /\ producer' = "fanout"
  /\ UNCHANGED <<published, todo, sending, subs, data, kicked, handler, ending,
                 canceled>>

PublishReturns ==
  /\ producer = "fanout" /\ todo = {}
  /\ producer' = "idle"
  /\ UNCHANGED <<published, todo, sending, shared, handler, ending, canceled>>

(* The source has no more units, its download failed or saw the cancel.    *)
Finish ==
  /\ producer = "idle"
  /\ producer' = "finished"
  /\ UNCHANGED <<published, todo, sending, shared, handler, ending, canceled>>

(***************************************************************************)
(* A viewer's handler.                                                     *)
(***************************************************************************)

(* A broadcast that ended is not joined.                                   *)
Request(v) ==
  /\ viewer[v] = "out"
  /\ viewer' = [viewer EXCEPT ![v] = IF done THEN "refused" ELSE "join"]
  /\ UNCHANGED <<produce, shared, draining, hand, got, ending, canceled>>

(* Subscribe primes the queue with the last unit and registers it, both    *)
(* under the lock.                                                         *)
Subscribe(v) ==
  /\ viewer[v] = "join" /\ Unlocked
  /\ subs' = subs \cup {v}
  /\ data' = [data EXCEPT ![v] = IF published > 0 THEN <<published>> ELSE <<>>]
  /\ queued' = [queued EXCEPT ![v] = IF published > 0 THEN Size[published] ELSE 0]
  /\ viewer' = [viewer EXCEPT ![v] = "look"]
  /\ UNCHANGED <<produce, kicked, draining, hand, got, ending, canceled>>

(* The select before every wait sees only whether it was kicked.           *)
Look(v) ==
  /\ viewer[v] = "look"
  /\ viewer' = [viewer EXCEPT ![v] = IF v \in kicked THEN "gone" ELSE "wait"]
  /\ UNCHANGED <<produce, shared, draining, hand, got, ending, canceled>>

(* A unit is received, in the select or in the loop that drains.           *)
Receive(v) ==
  /\ viewer[v] \in {"wait", "drain"} /\ data[v] # <<>>
  /\ hand' = [hand EXCEPT ![v] = Head(data[v])]
  /\ data' = [data EXCEPT ![v] = Tail(@)]
  /\ viewer' = [viewer EXCEPT ![v] = "taken"]
  /\ UNCHANGED <<produce, subs, queued, kicked, draining, got, ending, canceled>>

(* The other cases of the select: kicked, the client gone, or the end, of  *)
(* which any that is ready may be taken.                                   *)
Leave(v) ==
  /\ viewer[v] = "wait"
  /\ viewer' = [viewer EXCEPT ![v] = "gone"]
  /\ UNCHANGED <<produce, shared, draining, hand, got, ending, canceled>>

\* Mutant: the viewer is cut off at the end.
SeeDoneCuts(v) ==
  /\ viewer[v] = "wait" /\ done
  /\ viewer' = [viewer EXCEPT ![v] = "served"]
  /\ UNCHANGED <<produce, shared, draining, hand, got, ending, canceled>>

(* The end is seen; what is queued is still delivered.                     *)
SeeDone(v) ==
  /\ viewer[v] = "wait" /\ done
  /\ viewer' = [viewer EXCEPT ![v] = "drain"]
  /\ draining' = draining \cup {v}
  /\ UNCHANGED <<produce, shared, hand, got, ending, canceled>>

\* Mutant: the loop that drains waits for more.
DrainedByKick(v) ==
  /\ viewer[v] = "drain" /\ data[v] = <<>> /\ v \in kicked
  /\ viewer' = [viewer EXCEPT ![v] = "served"]
  /\ UNCHANGED <<produce, shared, draining, hand, got, ending, canceled>>

(* The loop that drains ends with the queue.                               *)
Drained(v) ==
  /\ viewer[v] = "drain" /\ data[v] = <<>>
  /\ viewer' = [viewer EXCEPT ![v] = "served"]
  /\ UNCHANGED <<produce, shared, draining, hand, got, ending, canceled>>

(* write: the bytes are off the queue before they are sent.                *)
Uncount(v) ==
  /\ viewer[v] = "taken"
  /\ queued' = [queued EXCEPT ![v] = @ - Size[hand[v]]]
  /\ viewer' = [viewer EXCEPT ![v] = "writing"]
  /\ UNCHANGED <<produce, subs, data, kicked, draining, hand, got, ending, canceled>>

(* The response takes the unit, or the client is gone.                     *)
Write(v) ==
  /\ viewer[v] = "writing"
  /\ \/ /\ got' = [got EXCEPT ![v] = Append(@, hand[v])]
        /\ viewer' = [viewer EXCEPT ![v] = IF v \in draining THEN "drain" ELSE "look"]
     \/ /\ viewer' = [viewer EXCEPT ![v] = "gone"]
        /\ UNCHANGED got
  /\ UNCHANGED <<produce, shared, draining, hand, ending, canceled>>

(* The deferred Unsubscribe.                                               *)
Unsubscribe(v) ==
  /\ viewer[v] \in Left /\ v \in subs /\ Unlocked
  /\ subs' = subs \ {v}
  /\ UNCHANGED <<produce, data, queued, kicked, handler, ending, canceled>>

(***************************************************************************)
(* The end.                                                                *)
(***************************************************************************)

(* The operator interrupts.                                                *)
Cancel ==
  /\ ~canceled
  /\ canceled' = TRUE
  /\ UNCHANGED <<produce, shared, handler, ending>>

(* The run loop calls End when the download is over, the watcher when the  *)
(* context is.                                                             *)
CallEnd(e) ==
  /\ ender[e] = "idle"
  /\ \/ e = "runloop" /\ producer = "finished"
     \/ e = "watcher" /\ canceled
  /\ ender' = [ender EXCEPT ![e] = "called"]
  /\ UNCHANGED <<produce, shared, handler, done, panicked, canceled>>

(* End looks whether done is closed.                                       *)
CheckDone(e) ==
  /\ ender[e] = "called"
  /\ ender' = [ender EXCEPT ![e] = IF done THEN "returned" ELSE "closing"]
  /\ UNCHANGED <<produce, shared, handler, done, panicked, canceled>>

(* If not, it closes it; a channel that is closed twice panics.            *)
CloseDone(e) ==
  /\ ender[e] = "closing"
  /\ ender' = [ender EXCEPT ![e] = "returned"]
  /\ done' = TRUE
  /\ panicked' = done
  /\ UNCHANGED <<produce, shared, handler, canceled>>

-----------------------------------------------------------------------------

Init ==
  /\ published = 0 /\ producer = "idle" /\ todo = {} /\ sending \in Viewers
  /\ subs = {} /\ kicked = {}
  /\ data = [v \in Viewers |-> <<>>] /\ queued = [v \in Viewers |-> 0]
  /\ viewer = [v \in Viewers |-> "out"] /\ draining = {}
  /\ hand = [v \in Viewers |-> 0] /\ got = [v \in Viewers |-> <<>>]
  /\ done = FALSE /\ ender = [e \in Enders |-> "idle"]
  /\ panicked = FALSE /\ canceled = FALSE

Produce ==
  \/ PublishBegins \/ Count \/ PublishReturns \/ Finish
  \/ \E v \in Viewers : Offer(v)

Serve(v) ==
  \/ Subscribe(v) \/ Look(v) \/ Receive(v) \/ SeeDone(v) \/ Drained(v)
  \/ Uncount(v) \/ Write(v) \/ Unsubscribe(v)

End(e) == CallEnd(e) \/ CheckDone(e) \/ CloseDone(e)

Next ==
  /\ ~panicked
  /\ \/ Produce
     \/ \E v \in Viewers : Request(v) \/ Serve(v) \/ Leave(v)
     \/ \E e \in Enders : End(e)
     \/ Cancel

Spec == Init /\ [][Next]_vars

(* The producer and the goroutines that end the stream run on; no handler  *)
(* has to, for its client may stop reading.                                *)
ProducerFairness ==
  /\ WF_vars(Produce /\ ~panicked)
  /\ \A e \in Enders : WF_vars(End(e) /\ ~panicked)

(* Every client reads or goes away.                                        *)
ClientFairness == \A v \in Viewers : WF_vars(Serve(v) /\ ~panicked)

FairSpec == Spec /\ ProducerFairness

-----------------------------------------------------------------------------
(***************************************************************************)
(* Properties.                                                             *)
(***************************************************************************)

Taken(v) == IF viewer[v] \in {"taken", "writing"} THEN <<hand[v]>> ELSE <<>>
Stream(v) == IF viewer[v] = "gone" THEN got[v] ELSE got[v] \o Taken(v) \o data[v]
Consecutive(units) == \A k \in 1 .. Len(units) - 1 : units[k + 1] = units[k] + 1

(* A transport stream with a hole is corrupt: what a viewer was, is being  *)
(* and will be sent is a run of units without a gap, however the producer  *)
(* and the handler interleave and whenever it is kicked.                   *)
ViewerGapless == \A v \in Viewers : Consecutive(Stream(v))

(* A stuck client cannot make memory grow: at most Budget bytes wait in a  *)
(* subscriber's channel, or the one unit it was primed with.               *)
BudgetHolds == \A v \in Viewers : Bytes(data[v]) <= Budget \/ Len(data[v]) = 1

(* A stream that ran to its end is delivered to the end: a viewer served   *)
(* until done and not kicked got the last unit.                            *)
TailDelivered ==
  \A v \in Viewers :
    viewer[v] = "served" /\ v \notin kicked /\ ~canceled /\ published > 0 =>
      got[v] # <<>> /\ Last(got[v]) = published

(* "The producer never waits": whatever the clients do, stop reading among *)
(* it, each publish returns and the producer comes to its end.             *)
ProducerNeverWaits == <>(producer = "finished" \/ panicked)

(* When the broadcast ends, every viewer whose client reads or goes away   *)
(* has its response closed and its subscription removed, so that the       *)
(* server can shut down.                                                   *)
ViewersReleased ==
  ClientFairness =>
    \A v \in Viewers :
      done /\ viewer[v] # "out" ~> (viewer[v] \in Left /\ v \notin subs) \/ panicked

(* The comment in serve: "End is idempotent, so the post-Wait End below is *)
(* harmless".                                                              *)
EndIsIdempotent == ~panicked
=============================================================================
