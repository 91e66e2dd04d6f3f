------------------------------ MODULE LiveFeeder ------------------------------
(***************************************************************************)
(* engine.feed against a playlist that moves: what a refresh lists, what   *)
(* the feeder remembers of it (seen, lastInit, idx), the batch it builds   *)
(* and the items it sends on.  Pipeline takes over at the channel of       *)
(* items.                                                                  *)
(*                                                                         *)
(* A segment is its number, which stands for the key URL + range.  The     *)
(* playlist is a window of numbers that only moves forward at its origin;  *)
(* a refresh may be answered from a cache that holds the window before the *)
(* last move.                                                              *)
(***************************************************************************)
EXTENDS Integers, Sequences

CONSTANTS
  Newest,       (* Bound: the highest number the origin ever lists.        *)
  Window,       (* Segments a live playlist lists at most.                 *)
  Keep,         (* How many segments from the edge a recording starts.     *)
  InitOf,       (* [1 .. Newest -> URL of its init segment, "" for none]    *)
  Ads,          (* Numbers whose URL an -ad-filter matches.                *)
  MaxStale,     (* Bound: how often a cache answers a refresh.             *)
  RerunsLive    (* A live recording that was killed may be run again.      *)

ASSUME FeederAssumption ==
  /\ Window \in Nat \ {0} /\ Newest \in Nat /\ Window < Newest
  /\ Keep \in Nat
  /\ Ads \subseteq 1 .. Newest
  /\ MaxStale \in Nat
  /\ RerunsLive \in BOOLEAN

VARIABLES
  \* the source
  live,         (* st.Live: not a VOD.                                     *)
  fromStart,    (* -live-from-start                                        *)
  origin,       (* [lo, hi, more]: what the origin lists, and whether more *)
                (* will come.                                              *)
  prior,        (* The same before its last move: what a cache may hold.   *)
  stale,        (* How often a cache answered.                             *)
  \* the feeder
  nextIdx,      (* state.NextIdx as an earlier run left it.                *)
  phase,        (* "start", "emit", "wait" or "done"                       *)
  cur,          (* The listing being pushed.                               *)
  seen, lastInit, idx,
  batch,        (* Items built and not yet sent.                           *)
  \* history
  items,        (* Every item sent or skipped, in order.                   *)
  skipped,      (* Segments skipped as written by an earlier run.          *)
  written,      (* Segments an earlier run wrote.                          *)
  backlog,      (* Segments before the live edge.                          *)
  offered       (* Segments of every listing pushed so far.                *)

source  == <<live, fromStart>>
feeder  == <<seen, lastInit, idx, backlog, offered>>
history == <<items, skipped>>
vars == <<live, fromStart, origin, prior, stale, nextIdx, phase, cur, seen, lastInit,
          idx, batch, items, skipped, written, backlog, offered>>

Listed(w) == w.lo .. w.hi
Item(i, n) == [idx |-> i, seg |-> n, init |-> ""]
InitItem(i, u) == [idx |-> i, seg |-> 0, init |-> u]

(***************************************************************************)
(* push: the batch of a listing.                                           *)
(***************************************************************************)

\* Mutant: the init is sent once, with the first segment.
StepInitOnce(b, n) ==
  IF n \in Ads THEN b
  ELSE IF InitOf[n] # "" /\ b.init = ""
    THEN [init  |-> InitOf[n], next |-> b.next + 2,
          items |-> b.items \o <<InitItem(b.next, InitOf[n]), Item(b.next + 1, n)>>]
    ELSE [b EXCEPT !.next = @ + 1, !.items = Append(@, Item(b.next, n))]

(* One segment that was not seen before: an ad is skipped, and an init     *)
(* item goes first when there is one and its URL is not the last one sent. *)
StepSegment(b, n) ==
  IF n \in Ads THEN b
  ELSE IF InitOf[n] \notin {"", b.init}
    THEN [init  |-> InitOf[n], next |-> b.next + 2,
          items |-> b.items \o <<InitItem(b.next, InitOf[n]), Item(b.next + 1, n)>>]
    ELSE [b EXCEPT !.next = @ + 1, !.items = Append(@, Item(b.next, n))]

(* The walk over a listing, from the init sent last and the next index.    *)
Batch(w, known, init, next) ==
  LET walk[n \in w.lo - 1 .. w.hi] ==
        IF n < w.lo THEN [init |-> init, next |-> next, items |-> <<>>]
        ELSE IF n \in known THEN walk[n - 1]
        ELSE StepSegment(walk[n - 1], n)
  IN  walk[w.hi]

Push(w, known) ==
  LET b == Batch(w, known, lastInit, idx)
  IN  /\ cur' = w
      /\ seen' = known \cup Listed(w)
      /\ lastInit' = b.init /\ idx' = b.next /\ batch' = b.items
      /\ offered' = offered \cup Listed(w)
      /\ phase' = "emit"

(* The live edge: the backlog but for the last Keep counts as seen.  Not   *)
(* when there is no refresh, and not when an earlier run left a checkpoint.*)
Edge ==
  IF live /\ ~fromStart /\ nextIdx = 0
    THEN {n \in Listed(origin) : n <= origin.hi - Keep}
    ELSE {}

Start ==
  /\ phase = "start"
  /\ backlog' = Edge
  /\ Push(origin, Edge)
  /\ UNCHANGED <<source, origin, prior, stale, nextIdx, history, written>>

\* Mutant: the index of NextIdx itself counts as written.
SkipPast ==
  /\ phase = "emit" /\ batch # <<>>
  /\ Head(batch).idx <= nextIdx
  /\ items' = Append(items, Head(batch))
  /\ skipped' = skipped \cup ({Head(batch).seg} \ {0})
  /\ batch' = Tail(batch)
  /\ UNCHANGED <<source, origin, prior, stale, nextIdx, phase, cur, feeder, written>>

(* emit: an index below NextIdx was written by an earlier run.             *)
Skip ==
  /\ phase = "emit" /\ batch # <<>>
  /\ Head(batch).idx < nextIdx
  /\ items' = Append(items, Head(batch))
  /\ skipped' = skipped \cup ({Head(batch).seg} \ {0})
  /\ batch' = Tail(batch)
  /\ UNCHANGED <<source, origin, prior, stale, nextIdx, phase, cur, feeder, written>>

Emit ==
  /\ phase = "emit" /\ batch # <<>>
  /\ Head(batch).idx >= nextIdx
  /\ items' = Append(items, Head(batch))
  /\ batch' = Tail(batch)
  /\ UNCHANGED <<source, origin, prior, stale, nextIdx, phase, cur, feeder, skipped, written>>

\* Mutant: the end of the stream is not looked at.
PushedDeaf ==
  /\ phase = "emit" /\ batch = <<>>
  /\ seen' = seen \cap Listed(cur)
  /\ phase' = IF live THEN "wait" ELSE "done"
  /\ UNCHANGED <<source, origin, prior, stale, nextIdx, cur, lastInit, idx, backlog,
                 offered, batch, history, written>>

(* push returns: seen is cut to what the source lists, and a stream that   *)
(* has ended is done.  A VOD is pushed once.                               *)
Pushed ==
  /\ phase = "emit" /\ batch = <<>>
  /\ seen' = seen \cap Listed(cur)
  /\ phase' = IF live /\ cur.more THEN "wait" ELSE "done"
  /\ UNCHANGED <<source, origin, prior, stale, nextIdx, cur, lastInit, idx, backlog,
                 offered, batch, history, written>>

\* Mutant: every listing is cut at its live edge.
RefreshAtEdge ==
  /\ phase = "wait"
  /\ Push(origin, seen \cup {n \in Listed(origin) : n <= origin.hi - Keep})
  /\ UNCHANGED <<source, origin, prior, stale, nextIdx, history, written, backlog>>

(* A refresh that answers.  One that fails changes nothing.                *)
Refresh ==
  /\ phase = "wait"
  /\ Push(origin, seen)
  /\ UNCHANGED <<source, origin, prior, stale, nextIdx, history, written, backlog>>

(* The same, answered by a cache that is one move behind.                  *)
RefreshStale ==
  /\ phase = "wait"
  /\ prior # origin /\ stale < MaxStale
  /\ stale' = stale + 1
  /\ Push(prior, seen)
  /\ UNCHANGED <<source, origin, prior, nextIdx, history, written, backlog>>

(* The recording limit, cfg.Stop, or the context.                          *)
StopWaiting ==
  /\ phase = "wait"
  /\ phase' = "done"
  /\ UNCHANGED <<source, origin, prior, stale, nextIdx, cur, feeder, batch, history, written>>

CancelEmit ==
  /\ phase = "emit" /\ batch # <<>>
  /\ phase' = "done"
  /\ UNCHANGED <<source, origin, prior, stale, nextIdx, cur, feeder, batch, history, written>>

(* The origin lists more, forgets some, or ends the stream.                *)
Move ==
  /\ live /\ origin.more
  /\ \E lo \in origin.lo .. Newest, hi \in origin.hi .. Newest, more \in BOOLEAN :
       /\ lo <= hi /\ hi - lo < Window
       /\ origin' = [lo |-> lo, hi |-> hi, more |-> more]
  /\ prior' = origin
  /\ UNCHANGED <<source, stale, nextIdx, phase, cur, feeder, batch, history, written>>

--------------------------------------------------------------------------------

(* What an earlier run of a VOD sends, and what it wrote when it was       *)
(* killed with k as its NextIdx.                                           *)
Whole(w) == Batch(w, {}, "", 0).items
WrittenBy(k, w) ==
  {Whole(w)[i].seg : i \in {j \in DOMAIN Whole(w) : Whole(w)[j].idx < k}} \ {0}

Init ==
  /\ live \in BOOLEAN
  /\ fromStart \in BOOLEAN /\ (~live => ~fromStart)
  /\ \E w \in {[lo |-> 1, hi |-> Window, more |-> TRUE], [lo |-> 2, hi |-> 2, more |-> TRUE]} :
       /\ origin = w /\ prior = w /\ cur = w
       /\ \/ nextIdx = 0 /\ written = {}
          \/ ~live /\ \E k \in DOMAIN Whole(w) : nextIdx = k /\ written = WrittenBy(k, w)
          \/ /\ live /\ RerunsLive
             /\ nextIdx = 2 /\ written = {1}      \* an init and the first segment
  /\ phase = "start" /\ stale = 0
  /\ seen = {} /\ lastInit = "" /\ idx = 0
  /\ batch = <<>> /\ items = <<>>
  /\ skipped = {} /\ backlog = {} /\ offered = {}

Next ==
  \/ Start \/ Skip \/ Emit \/ Pushed \/ Refresh \/ RefreshStale
  \/ StopWaiting \/ CancelEmit \/ Move

Spec == Init /\ [][Next]_vars

(* The source is polled, and its answers reach the feeder as long as the   *)
(* recording is not stopped.                                               *)
FairSpec ==
  Spec /\ WF_vars(Start) /\ WF_vars(Skip) /\ WF_vars(Emit) /\ WF_vars(Pushed)
       /\ SF_vars(Refresh)

--------------------------------------------------------------------------------

Sent == items \o batch
SegmentsOf(s) == {i \in DOMAIN s : s[i].seg # 0}

(* Whatever the refreshes list, as long as they never go back, every       *)
(* segment from the live edge on goes down the pipeline exactly once and   *)
(* in playlist order: the keys in seen, which is cut after every batch.    *)
OnceInOrder ==
  stale = 0 =>
    /\ {Sent[i].seg : i \in SegmentsOf(Sent)} = offered \ (backlog \cup Ads)
    /\ \A i, j \in SegmentsOf(Sent) : i < j => Sent[i].seg < Sent[j].seg

(* Every segment is sent behind the init it needs: the last init item      *)
(* before it is its own, across refreshes, skipped ads and repeats.        *)
InitPrecedes ==
  \A i \in SegmentsOf(Sent) :
    InitOf[Sent[i].seg] # "" =>
      \E j \in 1 .. i - 1 :
        /\ Sent[j].init = InitOf[Sent[i].seg]
        /\ \A k \in j + 1 .. i - 1 : Sent[k].init = ""

(* An item is skipped only when the run before, which was killed, wrote    *)
(* its segment: the indices of two runs of the same source are the same.   *)
SkipsOnlyWritten == skipped \subseteq written

(* When the source has ended the recording ends.                           *)
FeedEnds == ~origin.more ~> phase = "done"
================================================================================
