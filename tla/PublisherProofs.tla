---------------------------- MODULE PublisherProofs ----------------------------
(***************************************************************************)
(* Proofs about the publisher, for any number of tracks and requests, any  *)
(* window and tail, and any durations.                                     *)
(*                                                                         *)
(* Publishing is what makes a listing old, and it bumps the version in the *)
(* same critical section: a body whose version is not older than Since was *)
(* rendered after the last segment.  Since is the version, or, once an End *)
(* that found every download done has bumped it, the one before, because   *)
(* nothing is published any more.                                          *)
(***************************************************************************)
EXTENDS Publisher, SequenceTheorems, TLAPS

Listing == [from : Nat, to : Nat]

(* A listing of t that a client can have been shown.                       *)
Possible(t, L) ==
  /\ L \in Listing
  /\ 1 <= L.from /\ L.to <= seq[t]
  /\ live => L.to < L.from + WindowSize

Shown(t, L) == Possible(t, L) /\ L.from <= L.to

(* A body a manifest may have.                                             *)
Full(body) == body \in [Tracks -> Listing] /\ \A t \in Tracks : Shown(t, body[t])

Since == IF end = "done" /\ ~canceled THEN ver - 1 ELSE ver

(* End found every download done.                                          *)
Complete == end # "no" /\ ~canceled

Settled == end # "marking" /\ \A t \in Tracks : sink[t] # "bump"

--------------------------------------------------------------------------------
(* The inductive invariant.                                                *)

Types ==
  /\ live \in BOOLEAN /\ ver \in Nat
  /\ seq \in [Tracks -> Nat] /\ oldest \in [Tracks -> Nat] /\ spooled \in [Tracks -> Nat]
  /\ init \in [Tracks -> BOOLEAN] /\ ended \in [Tracks -> BOOLEAN]
  /\ sink \in [Tracks -> {"ready", "spool", "bump", "done"}]
  /\ end \in {"no", "marking", "done"} /\ canceled \in BOOLEAN
  /\ rpc \in [Requests -> {"new", "asked", "header", "body", "render", "done"}]
  /\ DOMAIN playlist = Tracks /\ playlist = [t \in Tracks |-> playlist[t]]
  /\ DOMAIN form = Requests /\ form = [r \in Requests |-> form[r]]
  /\ DOMAIN answer = Requests /\ answer = [r \in Requests |-> answer[r]]

TrackInv(t) ==
  /\ oldest[t] = IF live /\ seq[t] > Kept THEN seq[t] - Kept + 1 ELSE 1
  /\ ~live => spooled[t] = seq[t]
  /\ sink[t] = "spool" => ~live
  /\ ended[t] \/ canceled => end # "no"
  /\ Complete => sink[t] = "done"

PlaylistInv(t) ==
  LET c == playlist[t]
  IN  /\ c.ver \in -1 .. ver
      /\ c.ver >= 0 => Possible(t, c.body.list)
      /\ Settled /\ c.ver = ver => c.body = Rendered(t)

DashInv ==
  /\ dash.ver \in -1 .. ver
  /\ dash.ver >= 0 => Full(dash.body)
  /\ dash.ver >= 0 /\ dash.ver >= Since => dash.body = [t \in Tracks |-> Visible(t)]

FormInv(r) ==
  LET f == form[r]
  IN  /\ rpc[r] \in {"header", "body", "render"} => Ready
      /\ rpc[r] = "header" /\ f.done => end # "no"
      /\ rpc[r] \in {"body", "render"} =>
           /\ f.ver \in 0 .. ver
           /\ f.static => ~live /\ end # "no" /\ (canceled \/ f.ver >= Since)
      /\ rpc[r] = "render" =>
           /\ f = [static |-> f.static, ver |-> f.ver, body |-> f.body]
           /\ DOMAIN f.body \subseteq Tracks
           /\ f.body \in [DOMAIN f.body -> Listing]
           /\ \A t \in DOMAIN f.body :
                Shown(t, f.body[t]) /\ (f.ver >= Since => f.body[t] = Visible(t))

AnswerInv(r) ==
  LET a == answer[r]
  IN  /\ a.kind = "m3u8" =>
           /\ DOMAIN a.lists \subseteq Tracks
           /\ \A t \in DOMAIN a.lists : Possible(t, a.lists[t])
      /\ a.kind = "mpd" =>
           /\ Full(a.lists)
           /\ a.static /\ ~canceled =>
                /\ ~live /\ end # "no"
                /\ \A t \in Tracks : a.lists[t] = [from |-> 1, to |-> seq[t]]

IInv ==
  /\ Types
  /\ \A t \in Tracks : TrackInv(t) /\ PlaylistInv(t)
  /\ DashInv
  /\ \A r \in Requests : FormInv(r) /\ AnswerInv(r)
--------------------------------------------------------------------------------
(* What listings there can be.                                             *)

LEMMA KeptIs ==
  Kept \in Nat /\ Kept >= WindowSize /\ Kept >= 1 /\ Kept = WindowSize + TailExtra
BY PublisherAssumption DEF Kept

LEMMA VisibleIsPossible ==
  ASSUME NEW t \in Tracks, Types, TrackInv(t)
  PROVE  Possible(t, Visible(t)) /\ (seq[t] >= oldest[t] => Shown(t, Visible(t)))
<1>1. seq[t] \in Nat /\ oldest[t] \in Nat /\ live \in BOOLEAN  BY DEF Types
<1>2. WindowSize \in Nat \ {0}  BY PublisherAssumption
<1>3. 1 <= oldest[t] /\ oldest[t] <= seq[t] + 1  BY <1>1, KeptIs DEF TrackInv
<1>4. CASE live /\ seq[t] - oldest[t] + 1 > WindowSize
  BY <1>1, <1>2, <1>3, <1>4 DEF Visible, Possible, Shown, Listing
<1>5. CASE ~(live /\ seq[t] - oldest[t] + 1 > WindowSize)
  BY <1>1, <1>2, <1>3, <1>5 DEF Visible, Possible, Shown, Listing
<1>6. QED  BY <1>4, <1>5

--------------------------------------------------------------------------------
(* The initial states.                                                     *)

LEMMA InitInv == Init => IInv
<1> SUFFICES ASSUME Init PROVE IInv  OBVIOUS
<1> USE DEF Init
<1>1. Types  BY DEF Types
<1>2. ASSUME NEW t \in Tracks PROVE TrackInv(t)  BY KeptIs DEF TrackInv, Complete
<1>3. ASSUME NEW t \in Tracks PROVE PlaylistInv(t)  BY DEF PlaylistInv, Absent
<1>4. DashInv  BY DEF DashInv, Absent
<1>5. ASSUME NEW r \in Requests PROVE FormInv(r) /\ AnswerInv(r)  BY DEF FormInv, AnswerInv
<1>6. QED  BY <1>1, <1>2, <1>3, <1>4, <1>5 DEF IInv

--------------------------------------------------------------------------------
(* The tracks.                                                             *)

LEMMA TypesStep == IInv /\ [Next]_vars => Types'
<1> SUFFICES ASSUME IInv, [Next]_vars PROVE Types'  OBVIOUS
<1> USE DEF IInv, Types
<1>1. ASSUME NEW t \in Tracks, SinkStep(t) PROVE Types'
  <2>1. CASE PutInit(t)  BY <2>1, SMTT(30) DEF PutInit, track, ending, caches, serving
  <2>2. CASE BumpVer(t)  BY <2>2, SMTT(30) DEF BumpVer, track, ending, caches, serving
  <2>3. CASE Spool(t) \/ SinkDone(t)
    BY <2>3, SMTT(30) DEF Spool, SinkDone, track, ending, caches, serving
  <2>4. CASE PublishLive(t) \/ PublishSpooled(t)
    <3>1. Kept \in Nat /\ seq[t] \in Nat /\ oldest[t] \in Nat  BY KeptIs
    <3>2. /\ live' = live /\ ver' = ver + 1
          /\ seq' = [seq EXCEPT ![t] = @ + 1]
          /\ oldest' = IF live /\ seq[t] + 1 - oldest[t] + 1 > Kept
                         THEN [oldest EXCEPT ![t] = seq[t] + 1 - Kept + 1] ELSE oldest
          /\ spooled' = spooled \/ spooled' = [spooled EXCEPT ![t] = seq[t] + 1]
          /\ sink' = sink \/ sink' = [sink EXCEPT ![t] = "ready"]
          /\ UNCHANGED <<init, ending, playlist, serving>>
      BY <2>4 DEF PublishLive, PublishSpooled, Publish, caches
    <3>3. oldest' \in [Tracks -> Nat]
      <4>1. oldest[t] <= seq[t] + 1  BY <3>1, KeptIs DEF TrackInv
      <4>2. CASE seq[t] + 1 - oldest[t] + 1 > Kept
        <5>1. seq[t] + 1 - Kept + 1 \in Nat  BY <3>1, <4>2
        <5>2. QED  BY <3>2, <5>1
      <4>3. QED  BY <3>2, <4>2
    <3>4. seq' \in [Tracks -> Nat] /\ spooled' \in [Tracks -> Nat]  BY <3>1, <3>2
    <3>5. QED  BY <3>2, <3>3, <3>4 DEF ending, serving
  <2>5. QED  BY <1>1, <2>1, <2>2, <2>3, <2>4 DEF SinkStep
<1>2. ASSUME NEW t \in Tracks, MarkEnded(t) PROVE Types'
  BY <1>2 DEF MarkEnded, track, caches, serving
<1>3. ASSUME NEW r \in Requests, RequestStep(r) PROVE Types'
  <2>1. UNCHANGED <<live, seq, oldest, init, spooled, sink, end, canceled, ended, ver>>
    BY <1>3 DEF RequestStep, AskManifest, Refuse, Admit, Header, BodyCached, BodyStale,
       BodyDone, GetPlaylist, RenderTrack, track, ending
  <2>2. CASE AskManifest(r) \/ Refuse(r)
    BY <2>1, <2>2 DEF AskManifest, Refuse, caches
  <2>3. CASE Admit(r)  BY <2>1, <2>3 DEF Admit, caches
  <2>4. CASE Header(r)  BY <2>1, <2>4 DEF Header, caches
  <2>5. CASE BodyCached(r)  BY <2>1, <2>5 DEF BodyCached, caches
  <2>6. CASE BodyStale(r)  BY <2>1, <2>6 DEF BodyStale
  <2>7. CASE BodyDone(r)  BY <2>1, <2>7 DEF BodyDone
  <2>8. CASE \E t \in Tracks : GetPlaylist(r, t) \/ RenderTrack(r, t)
    BY <2>1, <2>8 DEF GetPlaylist, RenderTrack, caches
  <2>9. QED  BY <1>3, <2>2, <2>3, <2>4, <2>5, <2>6, <2>7, <2>8 DEF RequestStep
<1>4. CASE CallEnd
  <2>1. canceled' \in BOOLEAN  BY <1>4, Zenon DEF CallEnd
  <2>2. end' = "marking" /\ UNCHANGED <<live, seq, oldest, init, ended, spooled, sink, ver>>
    BY <1>4 DEF CallEnd, track
  <2>3. UNCHANGED <<playlist, rpc, form, answer>>  BY <1>4 DEF CallEnd, caches, serving
  <2>4. QED  BY <2>1, <2>2, <2>3
<1>5. CASE EndBumps \/ Elapse \/ UNCHANGED vars
  BY <1>5 DEF EndBumps, Elapse, vars, track, ending, caches, serving
<1>6. QED  BY <1>1, <1>2, <1>3, <1>4, <1>5 DEF Next

(* How a step moves the version and the tracks.  A segment is published    *)
(* only while the end has not found every download done, and what was read *)
(* before counts as old from then on.                                      *)
Still == UNCHANGED <<seq, oldest>> /\ ver' >= ver /\ Since' >= Since

Moved ==
  /\ ~Complete /\ ver' = ver + 1 /\ Since' > ver
  /\ \A t \in Tracks :
       seq'[t] >= seq[t] /\ (seq[t] >= oldest[t] => seq'[t] >= oldest'[t])

LEMMA StepMoves ==
  IInv /\ [Next]_vars =>
    /\ live' = live /\ (end # "no" => end' # "no" /\ canceled' = canceled)
    /\ Still \/ Moved
<1> SUFFICES ASSUME IInv, [Next]_vars
             PROVE  /\ live' = live /\ (end # "no" => end' # "no" /\ canceled' = canceled)
                    /\ Still \/ Moved
  OBVIOUS
<1> USE DEF IInv, Types, Since
<1>1. ASSUME NEW t \in Tracks, PutInit(t) \/ Spool(t) \/ SinkDone(t) \/ MarkEnded(t)
      PROVE  /\ UNCHANGED <<live, end, canceled>>
             /\ Still
  BY <1>1 DEF PutInit, Spool, SinkDone, MarkEnded, Still, track, ending
<1>2. ASSUME NEW t \in Tracks, BumpVer(t)
      PROVE  /\ UNCHANGED <<live, end, canceled>>
             /\ Still
  BY <1>2 DEF BumpVer, Still, track, ending
<1>3. ASSUME NEW t \in Tracks, PublishLive(t) \/ PublishSpooled(t)
      PROVE  /\ UNCHANGED <<live, end, canceled>>
             /\ Moved
  <2>1. /\ UNCHANGED <<live, end, canceled>> /\ ver' = ver + 1
        /\ sink[t] # "done"
        /\ seq' = [seq EXCEPT ![t] = @ + 1]
        /\ oldest' = IF live /\ seq[t] + 1 - oldest[t] + 1 > Kept
                       THEN [oldest EXCEPT ![t] = seq[t] + 1 - Kept + 1] ELSE oldest
    BY <1>3 DEF PublishLive, PublishSpooled, Publish, ending
  <2>2. ~Complete  BY <2>1 DEF TrackInv
  <2>3. Since' > ver  BY <2>1, <2>2 DEF Complete
  <2>4. ASSUME NEW u \in Tracks
        PROVE  seq'[u] >= seq[u] /\ (seq[u] >= oldest[u] => seq'[u] >= oldest'[u])
    <3>1. seq[u] \in Nat /\ oldest[u] \in Nat /\ seq[t] \in Nat  OBVIOUS
    <3>2. QED  BY <2>1, <3>1, KeptIs
  <2>5. QED  BY <2>1, <2>2, <2>3, <2>4 DEF Moved
<1>4. ASSUME NEW r \in Requests, RequestStep(r)
      PROVE  /\ UNCHANGED <<live, end, canceled>>
             /\ Still
  <2>1. UNCHANGED <<live, seq, oldest, ver, end, canceled>>
    BY <1>4 DEF RequestStep, AskManifest, Refuse, Admit, Header, BodyCached, BodyStale,
       BodyDone, GetPlaylist, RenderTrack, track, ending
  <2>2. QED  BY <2>1 DEF Still
<1>5. ASSUME CallEnd PROVE live' = live /\ end = "no" /\ Still
  <2>1. end = "no" /\ end' = "marking"  BY <1>5 DEF CallEnd
  <2>2. UNCHANGED <<live, seq, oldest, ver>>  BY <1>5 DEF CallEnd, track
  <2>3. Since' >= Since  BY <2>1, <2>2
  <2>4. QED  BY <2>1, <2>2, <2>3 DEF Still
<1>6. ASSUME Elapse \/ UNCHANGED vars
      PROVE  UNCHANGED <<live, end, canceled>> /\ Still
  BY <1>6 DEF Elapse, vars, track, ending, Still
<1>7. ASSUME EndBumps PROVE UNCHANGED <<live, canceled>> /\ end' # "no" /\ Still
  BY <1>7 DEF EndBumps, track, Still
<1>8. QED  BY <1>1, <1>2, <1>3, <1>4, <1>5, <1>6, <1>7 DEF Next, SinkStep

(* What a client was shown stays possible, and a body that is not older    *)
(* than Since stays what would be rendered.                                *)
LEMMA PossibleStays ==
  ASSUME IInv, [Next]_vars
  PROVE  /\ \A t \in Tracks : \A L :
              (Possible(t, L) => Possible(t, L)') /\ (Shown(t, L) => Shown(t, L)')
         /\ \A body : Full(body) => Full(body)'
         /\ Ready => Ready'
<1>1. seq \in [Tracks -> Nat] /\ live' = live  BY StepMoves DEF IInv, Types
<1>2. ASSUME NEW t \in Tracks
      PROVE  /\ seq'[t] \in Nat /\ seq'[t] >= seq[t]
             /\ seq[t] >= oldest[t] => seq'[t] >= oldest'[t]
  BY <1>1, StepMoves, TypesStep DEF Still, Moved, IInv, Types
<1>3. ASSUME NEW t \in Tracks, NEW L, Possible(t, L) PROVE Possible(t, L)'
  BY <1>1, <1>2, <1>3 DEF Possible, Listing
<1>4. ASSUME NEW t \in Tracks, NEW L, Shown(t, L) PROVE Shown(t, L)'
  BY <1>3, <1>4 DEF Shown
<1>5. ASSUME NEW body, Full(body) PROVE Full(body)'  BY <1>4, <1>5 DEF Full
<1>6. Ready => Ready'  BY <1>2 DEF Ready
<1>7. QED  BY <1>3, <1>4, <1>5, <1>6

LEMMA ViewStays ==
  ASSUME IInv, [Next]_vars, NEW v \in Int, v <= ver, v >= Since', NEW t \in Tracks
  PROVE  v >= Since /\ Visible(t)' = Visible(t)
<1>1. ver \in Nat /\ Since \in Int  BY DEF IInv, Types, Since
<1>2. Still /\ Since' \in Int
  BY <1>1, StepMoves, TypesStep DEF Moved, Since, Types
<1>3. QED  BY <1>1, <1>2, StepMoves DEF Still, Visible

(* Nothing is published after an End that found every download done.       *)
LEMMA SinceStays == IInv /\ [Next]_vars /\ Complete => Since' = Since
<1> SUFFICES ASSUME IInv, [Next]_vars, Complete PROVE Since' = Since  OBVIOUS
<1> USE DEF IInv, Types, Complete, Since, TrackInv
<1>1. ASSUME NEW t \in Tracks, SinkStep(t) PROVE Since' = Since
  <2>1. sink[t] = "done"  OBVIOUS
  <2>2. QED
    BY <1>1, <2>1 DEF SinkStep, PutInit, BumpVer, Spool, PublishLive, PublishSpooled,
       SinkDone
<1>2. ASSUME NEW t \in Tracks, MarkEnded(t) PROVE Since' = Since  BY <1>2 DEF MarkEnded
<1>3. ASSUME NEW r \in Requests, RequestStep(r) PROVE Since' = Since
  <2>1. UNCHANGED <<end, canceled, ver>>
    BY <1>3 DEF RequestStep, AskManifest, Refuse, Admit, Header, BodyCached, BodyStale,
       BodyDone, GetPlaylist, RenderTrack, ending
  <2>2. QED  BY <2>1
<1>4. CASE CallEnd  BY <1>4 DEF CallEnd
<1>5. CASE EndBumps  BY <1>5 DEF EndBumps
<1>6. CASE Elapse \/ UNCHANGED vars  BY <1>6 DEF Elapse, vars, ending
<1>7. QED  BY <1>1, <1>2, <1>3, <1>4, <1>5, <1>6 DEF Next

LEMMA TracksStep == IInv /\ [Next]_vars => \A t \in Tracks : TrackInv(t)'
<1> SUFFICES ASSUME IInv, [Next]_vars, NEW t \in Tracks PROVE TrackInv(t)'  OBVIOUS
<1> USE DEF IInv, Types, TrackInv
<1>1. ASSUME NEW u \in Tracks, PutInit(u) \/ BumpVer(u) \/ Spool(u) \/ SinkDone(u)
      PROVE  TrackInv(t)'
  <2>1. /\ UNCHANGED <<live, seq, oldest, spooled, end, canceled, ended>>
        /\ sink[u] # "done"
        /\ sink' = [sink EXCEPT ![u] = sink'[u]] /\ (sink'[u] = "spool" => ~live)
    BY <1>1 DEF PutInit, BumpVer, Spool, SinkDone, track, ending
  <2>2. QED  BY <2>1 DEF Complete
<1>2. ASSUME NEW u \in Tracks, PublishLive(u) \/ PublishSpooled(u) PROVE TrackInv(t)'
  <2>1. /\ UNCHANGED <<live, end, canceled, ended>>
        /\ sink[u] # "done"
        /\ \/ live /\ UNCHANGED <<sink, spooled>>
           \/ /\ ~live /\ sink' = [sink EXCEPT ![u] = "ready"]
              /\ spooled' = [spooled EXCEPT ![u] = seq[u] + 1]
        /\ seq' = [seq EXCEPT ![u] = @ + 1]
        /\ oldest' = IF live /\ seq[u] + 1 - oldest[u] + 1 > Kept
                       THEN [oldest EXCEPT ![u] = seq[u] + 1 - Kept + 1] ELSE oldest
    BY <1>2 DEF PublishLive, PublishSpooled, Publish, ending
  <2>2. seq[u] \in Nat /\ oldest[u] \in Nat  OBVIOUS
  <2>3. CASE t # u  BY <2>1, <2>3 DEF Complete
  <2>4. CASE t = u
    <3>1. Kept' = Kept  BY DEF Kept
    <3>2. seq'[u] = seq[u] + 1 /\ (~live => spooled'[u] = seq'[u])  BY <2>1
    <3>3. oldest'[u] = IF live /\ seq'[u] > Kept THEN seq'[u] - Kept + 1 ELSE 1
      <4>1. CASE live /\ seq[u] + 1 - oldest[u] + 1 > Kept
        BY <2>1, <2>2, <3>2, <4>1, KeptIs
      <4>2. CASE ~(live /\ seq[u] + 1 - oldest[u] + 1 > Kept)
        BY <2>1, <2>2, <3>2, <4>2, KeptIs
      <4>3. QED  BY <4>1, <4>2
    <3>4. ~Complete'  BY <2>1 DEF Complete
    <3>5. (sink'[u] = "spool" => ~live) /\ (ended'[u] \/ canceled' => end' # "no")  BY <2>1
    <3>6. QED  BY <2>1, <2>4, <3>1, <3>2, <3>3, <3>4, <3>5
  <2>5. QED  BY <2>3, <2>4
<1>3. ASSUME NEW u \in Tracks, MarkEnded(u) PROVE TrackInv(t)'
  BY <1>3 DEF MarkEnded, track, Complete
<1>4. ASSUME NEW r \in Requests, RequestStep(r) PROVE TrackInv(t)'
  <2>1. UNCHANGED <<live, seq, oldest, spooled, sink, end, canceled, ended>>
    BY <1>4 DEF RequestStep, AskManifest, Refuse, Admit, Header, BodyCached, BodyStale,
       BodyDone, GetPlaylist, RenderTrack, track, ending
  <2>2. QED  BY <2>1 DEF Complete
<1>5. CASE CallEnd
  <2>1. canceled' = (\E u \in Tracks : sink[u] # "done")
    BY <1>5 DEF CallEnd
  <2>2. UNCHANGED <<live, seq, oldest, spooled, sink, ended>> /\ end' = "marking"
    BY <1>5 DEF CallEnd, track
  <2>3. Complete' => sink'[t] = "done"  BY <2>1, <2>2, Zenon DEF Complete
  <2>4. QED  BY <2>2, <2>3
<1>6. CASE EndBumps \/ Elapse \/ UNCHANGED vars
  BY <1>6 DEF EndBumps, Elapse, vars, track, ending, Complete
<1>7. QED  BY <1>1, <1>2, <1>3, <1>4, <1>5, <1>6 DEF Next, SinkStep

--------------------------------------------------------------------------------
(* The caches.                                                             *)

(* While the version stands still and nothing is about to bump it, what a  *)
(* playlist prints does not change.                                        *)
LEMMA RenderedStays ==
  ASSUME IInv, [Next]_vars, ver' = ver, Settled'
  PROVE  Settled /\ \A t \in Tracks : Rendered(t)' = Rendered(t)
<1> USE DEF IInv, Types, Settled
<1>1. ASSUME NEW u \in Tracks, PutInit(u) PROVE FALSE  BY <1>1 DEF PutInit
<1>2. ASSUME NEW u \in Tracks, BumpVer(u) \/ PublishLive(u) \/ PublishSpooled(u) PROVE FALSE
  BY <1>2 DEF BumpVer, PublishLive, PublishSpooled, Publish
<1>3. ASSUME NEW u \in Tracks, Spool(u) \/ SinkDone(u)
      PROVE  /\ Settled
             /\ UNCHANGED <<live, seq, oldest, targetDur, init, ended>>
  BY <1>3 DEF Spool, SinkDone, track, ending
<1>4. ASSUME NEW u \in Tracks, MarkEnded(u) PROVE FALSE  BY <1>4 DEF MarkEnded
<1>5. ASSUME NEW r \in Requests, RequestStep(r)
      PROVE  Settled /\ UNCHANGED <<live, seq, oldest, targetDur, init, ended>>
  BY <1>5 DEF RequestStep, AskManifest, Refuse, Admit, Header, BodyCached, BodyStale,
     BodyDone, GetPlaylist, RenderTrack, track, ending
<1>6. ASSUME CallEnd PROVE FALSE
  <2>1. end' = "marking"  BY <1>6 DEF CallEnd
  <2>2. QED  BY <2>1
<1>7. ASSUME EndBumps PROVE FALSE  BY <1>7 DEF EndBumps
<1>8. ASSUME Elapse \/ UNCHANGED vars
      PROVE  Settled /\ UNCHANGED <<live, seq, oldest, targetDur, init, ended>>
  BY <1>8 DEF Elapse, vars, track, ending
<1>9. Settled /\ UNCHANGED <<live, seq, oldest, targetDur, init, ended>>
  BY <1>1, <1>2, <1>3, <1>4, <1>5, <1>6, <1>7, <1>8 DEF Next, SinkStep
<1>10. QED  BY <1>9 DEF Rendered, Visible

(* Only GetPlaylist changes what is cached of a track.                     *)
LEMMA PlaylistStep == IInv /\ [Next]_vars => \A t \in Tracks : PlaylistInv(t)'
<1> SUFFICES ASSUME IInv, [Next]_vars, NEW t \in Tracks PROVE PlaylistInv(t)'  OBVIOUS
<1>1. ver \in Nat /\ ver' \in Nat /\ ver' >= ver
  BY StepMoves, TypesStep DEF IInv, Types, Still, Moved
<1>2. CASE playlist'[t] = playlist[t]
  <2>1. PlaylistInv(t)  BY DEF IInv
  <2>2. playlist[t].ver \in -1 .. ver'  BY <1>1, <2>1 DEF PlaylistInv
  <2>3. PICK L : L = playlist[t].body.list  OBVIOUS
  <2>4. playlist[t].ver >= 0 => Possible(t, L)'
    BY <2>1, <2>3, PossibleStays DEF PlaylistInv
  <2>5. ASSUME Settled', playlist[t].ver = ver' PROVE playlist[t].body = Rendered(t)'
    <3>1. ver' = ver  BY <1>1, <2>1, <2>5 DEF PlaylistInv
    <3>2. QED  BY <2>1, <2>5, <3>1, RenderedStays DEF PlaylistInv
  <2>6. QED  BY <1>2, <2>2, <2>3, <2>4, <2>5 DEF PlaylistInv, Possible
<1>3. ASSUME NEW r \in Requests, GetPlaylist(r, t), playlist[t].ver # ver
      PROVE  PlaylistInv(t)'
  <2>1. /\ playlist'[t].ver = ver /\ playlist'[t].body = Rendered(t)
        /\ UNCHANGED <<live, ver, seq, oldest, targetDur, init, ended>>
    BY <1>3 DEF GetPlaylist, IInv, Types, track, ending
  <2>2. Rendered(t)' = Rendered(t) /\ Rendered(t).list = Visible(t)
    BY <2>1 DEF Rendered, Visible
  <2>3. PICK L : L = Visible(t)  OBVIOUS
  <2>4. Possible(t, L)'  BY <2>3, VisibleIsPossible, PossibleStays DEF IInv
  <2>5. QED  BY <1>1, <2>1, <2>2, <2>3, <2>4 DEF PlaylistInv, Possible
<1>4. \/ playlist'[t] = playlist[t]
      \/ \E r \in Requests : GetPlaylist(r, t) /\ playlist[t].ver # ver
  <2>1. ASSUME NEW r \in Requests, NEW u \in Tracks, GetPlaylist(r, u)
        PROVE  playlist'[t] = playlist[t] \/ (u = t /\ playlist[t].ver # ver)
    BY <2>1 DEF GetPlaylist, IInv, Types
  <2>2. ASSUME NEW u \in Tracks, SinkStep(u) \/ MarkEnded(u) PROVE playlist' = playlist
    BY <2>2 DEF SinkStep, PutInit, BumpVer, Spool, PublishLive, PublishSpooled, SinkDone,
       MarkEnded, caches
  <2>3. ASSUME NEW r \in Requests, RequestStep(r),
               ~\E u \in Tracks : GetPlaylist(r, u)
        PROVE  playlist' = playlist
    BY <2>3 DEF RequestStep, AskManifest, Refuse, Admit, Header, BodyCached, BodyStale,
       BodyDone, RenderTrack, caches
  <2>4. CASE CallEnd \/ EndBumps \/ Elapse \/ UNCHANGED vars
    BY <2>4 DEF CallEnd, EndBumps, Elapse, vars, caches
  <2>5. QED  BY <2>1, <2>2, <2>3, <2>4 DEF Next
<1>5. QED  BY <1>2, <1>3, <1>4

(* What has been rendered of every track is a body.                        *)
LEMMA FormIsFull ==
  ASSUME IInv, NEW r \in Requests, rpc[r] = "render", DOMAIN form[r].body = Tracks
  PROVE  /\ form[r].ver \in 0 .. ver /\ Full(form[r].body)
         /\ form[r].ver >= Since => form[r].body = [t \in Tracks |-> Visible(t)]
<1> DEFINE B == form[r].body
<1>1. /\ form[r].ver \in 0 .. ver /\ B \in [Tracks -> Listing]
      /\ \A t \in Tracks : Shown(t, B[t]) /\ (form[r].ver >= Since => B[t] = Visible(t))
  BY DEF IInv, FormInv
<1>2. Full(B)  BY <1>1 DEF Full
<1>3. form[r].ver >= Since => B = [t \in Tracks |-> Visible(t)]  BY <1>1
<1>4. QED  BY <1>1, <1>2, <1>3

(* Only BodyDone changes what is cached of the manifest.                   *)
LEMMA DashStep == IInv /\ [Next]_vars => DashInv'
<1> SUFFICES ASSUME IInv, [Next]_vars PROVE DashInv'  OBVIOUS
<1>1. ver \in Nat /\ ver' \in Nat /\ ver' >= ver /\ Since' \in Int
  BY StepMoves, TypesStep DEF IInv, Types, Still, Moved, Since
<1>2. CASE dash' = dash
  <2>1. DashInv  BY DEF IInv
  <2>2. PICK B : B = dash.body  OBVIOUS
  <2>3. dash.ver >= 0 => Full(B)'  BY <2>1, <2>2, PossibleStays DEF DashInv
  <2>4. ASSUME dash.ver >= 0, dash.ver >= Since'
        PROVE  dash.body = [t \in Tracks |-> Visible(t)']
    <3>1. PICK v \in Int : v = dash.ver /\ v <= ver  BY <1>1, <2>1 DEF DashInv
    <3>2. v >= Since /\ \A t \in Tracks : Visible(t)' = Visible(t)
      <4>1. Tracks # {}  BY PublisherAssumption
      <4>2. QED  BY <2>4, <3>1, <4>1, ViewStays
    <3>3. dash.body = [t \in Tracks |-> Visible(t)]  BY <2>1, <2>4, <3>1, <3>2 DEF DashInv
    <3>4. QED  BY <3>2, <3>3
  <2>5. dash.ver \in -1 .. ver'  BY <1>1, <2>1 DEF DashInv
  <2>6. QED  BY <1>2, <2>2, <2>3, <2>4, <2>5 DEF DashInv, Full
<1>3. ASSUME NEW r \in Requests, BodyDone(r) PROVE DashInv'
  <2>1. /\ rpc[r] = "render" /\ DOMAIN form[r].body = Tracks
        /\ dash' = [ver |-> form[r].ver, body |-> form[r].body]
        /\ UNCHANGED <<live, ver, seq, oldest, end, canceled>>
    BY <1>3 DEF BodyDone, track, ending
  <2>2. PICK B : B = form[r].body  OBVIOUS
  <2>3. /\ form[r].ver \in 0 .. ver /\ Full(B)
        /\ form[r].ver >= Since => B = [t \in Tracks |-> Visible(t)]
    BY <2>1, <2>2, FormIsFull
  <2>4. Full(B)'  BY <2>3, PossibleStays
  <2>5. Since' = Since /\ \A t \in Tracks : Visible(t)' = Visible(t)
    BY <2>1 DEF Since, Visible
  <2>6. form[r].ver >= Since => B = [t \in Tracks |-> Visible(t)']
    BY <2>3, <2>5
  <2>7. dash'.ver = form[r].ver /\ dash'.body = B  BY <2>1, <2>2
  <2>8. QED  BY <1>1, <2>1, <2>3, <2>4, <2>5, <2>6, <2>7 DEF DashInv, Full
<1>4. dash' = dash \/ \E r \in Requests : BodyDone(r)
  <2>1. ASSUME NEW u \in Tracks, SinkStep(u) \/ MarkEnded(u) PROVE dash' = dash
    BY <2>1 DEF SinkStep, PutInit, BumpVer, Spool, PublishLive, PublishSpooled, SinkDone,
       MarkEnded, caches
  <2>2. ASSUME NEW r \in Requests, RequestStep(r), ~BodyDone(r) PROVE dash' = dash
    BY <2>2 DEF RequestStep, AskManifest, Refuse, Admit, Header, BodyCached, BodyStale,
       GetPlaylist, RenderTrack, caches
  <2>3. CASE CallEnd \/ EndBumps \/ Elapse \/ UNCHANGED vars
    BY <2>3 DEF CallEnd, EndBumps, Elapse, vars, caches
  <2>4. QED  BY <2>1, <2>2, <2>3 DEF Next
<1>5. QED  BY <1>2, <1>3, <1>4

--------------------------------------------------------------------------------
(* The requests.                                                           *)

(* A request does not touch the form or the answer of another.             *)
LEMMA OthersRequests ==
  ASSUME IInv, NEW r \in Requests, NEW q \in Requests, RequestStep(q), q # r
  PROVE  UNCHANGED <<rpc[r], form[r], answer[r]>>
<1> USE DEF IInv, Types
<1>1. CASE AskManifest(q) \/ Refuse(q) \/ Admit(q) \/ Header(q)
  BY <1>1 DEF AskManifest, Refuse, Admit, Header
<1>2. CASE BodyCached(q) \/ BodyStale(q) \/ BodyDone(q)
  BY <1>2 DEF BodyCached, BodyStale, BodyDone
<1>3. CASE \E t \in Tracks : GetPlaylist(q, t) \/ RenderTrack(q, t)
  BY <1>3 DEF GetPlaylist, RenderTrack
<1>4. QED  BY <1>1, <1>2, <1>3 DEF RequestStep

LEMMA NoRequests ==
  ASSUME Next, NEW r \in Requests, \A q \in Requests : ~RequestStep(q)
  PROVE  UNCHANGED <<rpc, form, answer>>
<1>1. ASSUME NEW u \in Tracks, SinkStep(u) \/ MarkEnded(u)
      PROVE  UNCHANGED <<rpc, form, answer>>
  BY <1>1 DEF SinkStep, PutInit, BumpVer, Spool, PublishLive, PublishSpooled, SinkDone,
     MarkEnded, serving
<1>2. CASE CallEnd \/ EndBumps \/ Elapse
  BY <1>2 DEF CallEnd, EndBumps, Elapse, serving
<1>3. QED  BY <1>1, <1>2 DEF Next

LEMMA FormKeeps ==
  ASSUME IInv, [Next]_vars, NEW r \in Requests, UNCHANGED <<rpc[r], form[r]>>
  PROVE  FormInv(r)'
<1>1. /\ FormInv(r) /\ ver \in Nat /\ ver' \in Nat /\ ver' >= ver
      /\ Since \in Int /\ Since' \in Int
  BY StepMoves, TypesStep DEF IInv, Types, Still, Moved, Since
<1>2. rpc'[r] \in {"header", "body", "render"} => Ready'  BY <1>1, PossibleStays DEF FormInv
<1>3. rpc'[r] = "header" /\ form'[r].done => end' # "no"  BY <1>1, StepMoves DEF FormInv
<1>4. ASSUME rpc[r] \in {"body", "render"}
      PROVE  /\ form[r].ver \in 0 .. ver'
             /\ form[r].static =>
                  ~live' /\ end' # "no" /\ (canceled' \/ form[r].ver >= Since')
  <2>1. form[r].ver \in 0 .. ver  BY <1>1, <1>4 DEF FormInv
  <2>2. ASSUME form[r].static
        PROVE  ~live' /\ end' # "no" /\ (canceled' \/ form[r].ver >= Since')
    <3>1. ~live /\ end # "no" /\ (canceled \/ form[r].ver >= Since)
      BY <1>1, <1>4, <2>2 DEF FormInv
    <3>2. Complete => Since' = Since  BY SinceStays
    <3>3. QED  BY <3>1, <3>2, StepMoves DEF Complete
  <2>3. QED  BY <1>1, <2>1, <2>2
<1>5. ASSUME rpc[r] = "render", NEW t \in DOMAIN form[r].body
      PROVE  /\ Shown(t, form[r].body[t])'
             /\ form[r].ver >= Since' => form[r].body[t] = Visible(t)'
  <2>1. form[r].ver \in 0 .. ver /\ t \in Tracks  BY <1>1, <1>5 DEF FormInv
  <2>2. PICK L : L = form[r].body[t]  OBVIOUS
  <2>3. Shown(t, L)'  BY <1>1, <1>5, <2>1, <2>2, PossibleStays DEF FormInv
  <2>4. ASSUME form[r].ver >= Since' PROVE L = Visible(t)'
    <3>1. PICK v \in Int : v = form[r].ver  BY <2>1
    <3>2. v >= Since /\ Visible(t)' = Visible(t)  BY <2>1, <2>4, <3>1, ViewStays
    <3>3. QED  BY <1>1, <1>5, <2>2, <3>1, <3>2 DEF FormInv
  <2>5. QED  BY <2>2, <2>3, <2>4 DEF Shown, Possible
<1>6. QED  BY <1>1, <1>2, <1>3, <1>4, <1>5 DEF FormInv

LEMMA FormStep == IInv /\ [Next]_vars => \A r \in Requests : FormInv(r)'
<1> SUFFICES ASSUME IInv, [Next]_vars, NEW r \in Requests PROVE FormInv(r)'  OBVIOUS
<1>1. CASE UNCHANGED <<rpc[r], form[r]>>  BY <1>1, FormKeeps
<1>2. ASSUME RequestStep(r), rpc'[r] \in {"asked", "done"} PROVE FormInv(r)'
  BY <1>2 DEF FormInv
<1>3. CASE Admit(r)
  <2>1. rpc'[r] = "header" /\ Ready' /\ form'[r] = [done |-> AllEnded] /\ end' = end
    BY <1>3, PossibleStays DEF Admit, IInv, Types, ending
  <2>2. AllEnded => end # "no"  BY PublisherAssumption DEF AllEnded, IInv, TrackInv
  <2>3. form'[r].done => AllEnded  BY <2>1
  <2>4. QED  BY <2>1, <2>2, <2>3 DEF FormInv
<1>4. CASE Header(r)
  <2> DEFINE over == ~live /\ form[r].done /\ clock >= TotalDur
  <2>1. /\ rpc[r] = "header" /\ rpc'[r] = "body" /\ Ready'
        /\ form'[r] = [static |-> over, ver |-> ver]
        /\ UNCHANGED <<live, end, canceled, ver>>
    BY <1>4, PossibleStays DEF Header, IInv, Types, ending, FormInv
  <2>2. over => ~live /\ form[r].done  OBVIOUS
  <2> HIDE DEF over
  <2>3. (form'[r].static <=> over) /\ form'[r].ver = ver  BY <2>1
  <2>4. (form[r].done => end # "no") /\ ver \in Nat /\ ver >= Since'
    BY <2>1 DEF IInv, FormInv, Types, Since
  <2>5. QED  BY <2>1, <2>2, <2>3, <2>4 DEF FormInv
<1>5. CASE BodyStale(r)
  <2>1. /\ rpc[r] = "body" /\ rpc'[r] = "render" /\ Ready'
        /\ form'[r] = [static |-> form[r].static, ver |-> form[r].ver, body |-> <<>>]
        /\ UNCHANGED <<live, end, canceled, ver>>
    BY <1>5, PossibleStays DEF BodyStale, IInv, Types, ending, FormInv
  <2>2. form'[r].static = form[r].static /\ form'[r].ver = form[r].ver /\ Since' = Since
    BY <2>1 DEF Since
  <2>3. form'[r].body = <<>> /\ DOMAIN <<>> = {}  BY <2>1
  <2>4. <<>> \in [{} -> Listing]  BY EmptySeq
  <2>5. QED  BY <2>1, <2>2, <2>3, <2>4 DEF FormInv, IInv
<1>6. ASSUME NEW u \in Tracks, RenderTrack(r, u) PROVE FormInv(r)'
  <2> DEFINE f == form[r]
             B == [x \in DOMAIN f.body \cup {u} |-> IF x = u THEN Visible(u) ELSE f.body[x]]
  <2>1. /\ rpc[r] = "render" /\ rpc' = rpc /\ Ready /\ Ready'
        /\ form'[r] = [f EXCEPT !.body = B]
        /\ UNCHANGED <<live, seq, oldest, end, canceled, ver>>
    BY <1>6, PossibleStays DEF RenderTrack, IInv, Types, track, ending, FormInv
  <2>2. FormInv(r)  BY DEF IInv
  <2>3. form'[r] = [static |-> f.static, ver |-> f.ver, body |-> B]
    BY <2>1, <2>2 DEF FormInv
  <2>4. Shown(u, Visible(u))  BY <2>1, VisibleIsPossible DEF IInv, Ready
  <2>5. ASSUME NEW t \in DOMAIN B
        PROVE  Shown(t, B[t]) /\ (f.ver >= Since => B[t] = Visible(t))
    BY <2>1, <2>2, <2>4 DEF FormInv
  <2>6. Since' = Since /\ \A t \in Tracks : Visible(t)' = Visible(t)
    BY <2>1 DEF Since, Visible
  <2>7. PICK C : C = B  OBVIOUS
  <2>8. \A t \in DOMAIN C : Shown(t, C[t])'
    <3>1. ASSUME NEW t \in DOMAIN C, NEW L, L = C[t] PROVE Shown(t, L)'
      <4>1. t \in Tracks /\ Shown(t, L)  BY <2>1, <2>2, <2>5, <2>7, <3>1 DEF FormInv
      <4>2. QED  BY <4>1, PossibleStays
    <3>2. QED  BY <3>1 DEF Shown, Possible
  <2>9. /\ DOMAIN C \subseteq Tracks /\ C \in [DOMAIN C -> Listing]
        /\ \A t \in DOMAIN C : f.ver >= Since => C[t] = Visible(t)
    BY <2>1, <2>2, <2>4, <2>5, <2>7 DEF FormInv, Shown, Possible
  <2>10. /\ form'[r].body = C /\ form'[r].ver = f.ver /\ form'[r].static = f.static
         /\ form'[r] = [static |-> form'[r].static, ver |-> form'[r].ver,
                        body |-> form'[r].body]
    BY <2>3, <2>7
  <2>11. \A t \in DOMAIN C : Visible(t)' = Visible(t)  BY <2>6, <2>9
  <2>12. /\ DOMAIN form'[r].body \subseteq Tracks
         /\ form'[r].body \in [DOMAIN form'[r].body -> Listing]
         /\ \A t \in DOMAIN form'[r].body :
              /\ Shown(t, C[t])' /\ C[t] = form'[r].body[t]
              /\ form'[r].ver >= Since' => form'[r].body[t] = Visible(t)'
    BY <2>6, <2>8, <2>9, <2>10, <2>11
  <2> HIDE DEF B
  <2>13. QED  BY <2>1, <2>2, <2>6, <2>10, <2>12 DEF FormInv, Shown, Possible
<1>7. \/ UNCHANGED <<rpc[r], form[r]>>
      \/ RequestStep(r) /\ rpc'[r] \in {"asked", "done"}
      \/ Admit(r) \/ Header(r) \/ BodyStale(r) \/ \E u \in Tracks : RenderTrack(r, u)
  <2>1. CASE UNCHANGED vars  BY <2>1 DEF vars
  <2>2. CASE Next /\ ~\E q \in Requests : RequestStep(q)  BY <2>2, NoRequests
  <2>3. ASSUME NEW q \in Requests, RequestStep(q), q # r PROVE UNCHANGED <<rpc[r], form[r]>>
    BY <2>3, OthersRequests
  <2>4. ASSUME RequestStep(r), ~Admit(r), ~Header(r), ~BodyStale(r),
               ~\E u \in Tracks : RenderTrack(r, u)
        PROVE  rpc'[r] \in {"asked", "done"}
    BY <2>4 DEF RequestStep, AskManifest, Refuse, BodyCached, BodyDone, GetPlaylist,
       IInv, Types
  <2>5. QED  BY <2>1, <2>2, <2>3, <2>4
<1>8. QED  BY <1>1, <1>2, <1>3, <1>4, <1>5, <1>6, <1>7

LEMMA AnswerKeeps ==
  ASSUME IInv, [Next]_vars, NEW r \in Requests, UNCHANGED answer[r]
  PROVE  AnswerInv(r)'
<1>1. AnswerInv(r)  BY DEF IInv
<1>2. PICK lists : lists = answer[r].lists  OBVIOUS
<1>3. answer[r].kind = "m3u8" => \A t \in DOMAIN lists : Possible(t, lists[t])'
  <2>1. ASSUME answer[r].kind = "m3u8", NEW t \in DOMAIN lists, NEW L, L = lists[t]
        PROVE  Possible(t, L)'
    BY <1>1, <1>2, <2>1, PossibleStays DEF AnswerInv
  <2>2. QED  BY <2>1 DEF Possible
<1>4. answer[r].kind = "mpd" => Full(lists)'
  BY <1>1, <1>2, PossibleStays DEF AnswerInv
<1>5. ASSUME answer[r].kind = "mpd", answer[r].static, ~canceled'
      PROVE  /\ ~live' /\ end' # "no"
             /\ \A t \in Tracks : lists[t] = [from |-> 1, to |-> seq'[t]]
  <2>1. CASE ~canceled
    <3>1. ~live /\ end # "no" /\ \A t \in Tracks : lists[t] = [from |-> 1, to |-> seq[t]]
      BY <1>1, <1>2, <1>5, <2>1 DEF AnswerInv
    <3>2. ~Moved  BY <2>1, <3>1 DEF Moved, Complete
    <3>3. QED  BY <3>1, <3>2, StepMoves DEF Still
  <2>2. CASE canceled
    <3>1. end # "no"  BY <2>2, PublisherAssumption DEF IInv, TrackInv
    <3>2. QED  BY <1>5, <2>2, <3>1, StepMoves
  <2>3. QED  BY <2>1, <2>2 DEF IInv, Types
<1>6. QED  BY <1>1, <1>2, <1>3, <1>4, <1>5 DEF AnswerInv, Full

(* What a request that reached the body is answered with.                  *)
LEMMA ManifestStep ==
  ASSUME IInv, [Next]_vars, NEW r \in Requests, rpc[r] \in {"body", "render"},
         NEW B, Full(B), form[r].ver >= Since => B = [t \in Tracks |-> Visible(t)],
         answer'[r] = Manifest(r, B), UNCHANGED <<live, seq, end, canceled>>
  PROVE  AnswerInv(r)'
<1>1. FormInv(r) /\ live \in BOOLEAN /\ seq \in [Tracks -> Nat]  BY DEF IInv, Types
<1>2. /\ answer'[r].kind = "mpd" /\ answer'[r].lists = B
      /\ answer'[r].static = form[r].static
  BY DEF Manifest
<1>3. Full(B)'  BY PossibleStays
<1>4. ASSUME form[r].static, ~canceled, NEW t \in Tracks
      PROVE  ~live /\ end # "no" /\ B[t] = [from |-> 1, to |-> seq[t]]
  <2>1. ~live /\ end # "no" /\ form[r].ver >= Since  BY <1>1, <1>4 DEF FormInv
  <2>2. B[t] = Visible(t)  BY <2>1
  <2>3. oldest[t] = 1  BY <2>1 DEF IInv, TrackInv
  <2>4. QED  BY <2>1, <2>2, <2>3 DEF Visible
<1>5. QED  BY <1>2, <1>3, <1>4, PublisherAssumption DEF AnswerInv, Full

LEMMA AnswerStep == IInv /\ [Next]_vars => \A r \in Requests : AnswerInv(r)'
<1> SUFFICES ASSUME IInv, [Next]_vars, NEW r \in Requests PROVE AnswerInv(r)'  OBVIOUS
<1>1. CASE UNCHANGED answer[r]  BY <1>1, AnswerKeeps
<1>2. CASE Refuse(r)
  <2>1. answer'[r].kind = "503"  BY <1>2 DEF Refuse, IInv, Types
  <2>2. QED  BY <2>1 DEF AnswerInv
<1>3. ASSUME NEW u \in Tracks, GetPlaylist(r, u) PROVE AnswerInv(r)'
  <2>1. /\ answer'[r] = [kind |-> "m3u8", lists |-> [x \in {u} |-> playlist'[u].body.list]]
        /\ \/ playlist'[u].ver = ver /\ playlist[u].ver = ver /\ playlist' = playlist
           \/ playlist'[u] = [ver |-> ver, body |-> Rendered(u)]
        /\ ver' = ver
    BY <1>3 DEF GetPlaylist, IInv, Types
  <2>2. playlist'[u].ver = ver /\ ver \in Nat  BY <2>1 DEF IInv, Types
  <2>3. PlaylistInv(u)'  BY PlaylistStep
  <2>4. PICK L : L = playlist'[u].body.list  OBVIOUS
  <2>5. Possible(u, L)'  BY <2>1, <2>2, <2>3, <2>4 DEF PlaylistInv, Possible
  <2>6. answer'[r].kind = "m3u8" /\ answer'[r].lists = [x \in {u} |-> L]  BY <2>1, <2>4
  <2>7. QED  BY <2>5, <2>6 DEF AnswerInv, Possible
<1>4. CASE BodyCached(r)
  <2>1. /\ rpc[r] = "body" /\ dash.ver = form[r].ver
        /\ answer'[r] = Manifest(r, dash.body)
        /\ UNCHANGED <<live, seq, end, canceled>>
    BY <1>4 DEF BodyCached, IInv, Types, track, ending
  <2>2. form[r].ver >= 0
    <3>1. FormInv(r) /\ ver \in Nat  BY DEF IInv, Types
    <3>2. QED  BY <2>1, <3>1 DEF FormInv
  <2>3. PICK B : B = dash.body  OBVIOUS
  <2>4. Full(B) /\ (form[r].ver >= Since => B = [t \in Tracks |-> Visible(t)])
    BY <2>1, <2>2, <2>3 DEF IInv, DashInv
  <2>5. QED  BY <2>1, <2>3, <2>4, ManifestStep
<1>5. CASE BodyDone(r)
  <2>1. /\ rpc[r] = "render" /\ DOMAIN form[r].body = Tracks
        /\ answer'[r] = Manifest(r, form[r].body)
        /\ UNCHANGED <<live, seq, end, canceled>>
    BY <1>5 DEF BodyDone, IInv, Types, track, ending
  <2>2. PICK B : B = form[r].body  OBVIOUS
  <2>3. Full(B) /\ (form[r].ver >= Since => B = [t \in Tracks |-> Visible(t)])
    BY <2>1, <2>2, FormIsFull
  <2>4. QED  BY <2>1, <2>2, <2>3, ManifestStep
<1>6. \/ UNCHANGED answer[r] \/ Refuse(r) \/ BodyCached(r) \/ BodyDone(r)
      \/ \E u \in Tracks : GetPlaylist(r, u)
  <2>1. CASE UNCHANGED vars  BY <2>1 DEF vars
  <2>2. CASE Next /\ ~\E q \in Requests : RequestStep(q)  BY <2>2, NoRequests
  <2>3. ASSUME NEW q \in Requests, RequestStep(q), q # r PROVE UNCHANGED answer[r]
    BY <2>3, OthersRequests
  <2>4. ASSUME RequestStep(r), ~Refuse(r), ~BodyCached(r), ~BodyDone(r),
               ~\E u \in Tracks : GetPlaylist(r, u)
        PROVE  UNCHANGED answer[r]
    BY <2>4 DEF RequestStep, AskManifest, Admit, Header, BodyStale, RenderTrack
  <2>5. QED  BY <2>1, <2>2, <2>3, <2>4
<1>7. QED  BY <1>1, <1>2, <1>3, <1>4, <1>5, <1>6

--------------------------------------------------------------------------------
(* The theorems.                                                           *)

(* The caches, what is being rendered and what was answered are as the     *)
(* tracks and the version say, for any interleaving of the downloads, End, *)
(* and the requests.                                                       *)
THEOREM PublisherInvariance == Spec => []IInv
<1>1. IInv /\ [Next]_vars => IInv'
  BY TypesStep, TracksStep, PlaylistStep, DashStep, FormStep, AnswerStep DEF IInv
<1>2. QED  BY InitInv, <1>1, PTL DEF Spec

(* Whatever a client was shown it can fetch until the track has published  *)
(* TailExtra more segments; for ever, if it is no live run.                *)
THEOREM ShownIsServed == Spec => []ListedStaysFetchable
<1>1. IInv => ListedStaysFetchable
  <2> SUFFICES ASSUME IInv, NEW r \in Requests, answer[r].kind \in {"m3u8", "mpd"},
                      NEW t \in DOMAIN answer[r].lists,
                      ~live \/ seq[t] <= answer[r].lists[t].to + TailExtra,
                      NEW n \in answer[r].lists[t].from .. answer[r].lists[t].to
               PROVE  Found(t, n)
    BY DEF ListedStaysFetchable
  <2> DEFINE L == answer[r].lists[t]
  <2>1. t \in Tracks /\ Possible(t, L)  BY DEF IInv, AnswerInv, Full, Shown
  <2>2. seq[t] \in Nat /\ TrackInv(t) /\ live \in BOOLEAN  BY <2>1 DEF IInv, Types
  <2>3. WindowSize \in Nat /\ TailExtra \in Nat  BY PublisherAssumption
  <2>4. L.from \in Nat /\ L.to \in Nat /\ n \in Int /\ 1 <= n /\ n <= seq[t]
    BY <2>1, <2>2 DEF Possible, Listing
  <2>5. oldest[t] <= n
    <3>1. CASE live /\ seq[t] > Kept
      <4>1. oldest[t] = seq[t] - Kept + 1 /\ L.to < L.from + WindowSize
        BY <2>1, <2>2, <3>1 DEF TrackInv, Possible
      <4>2. QED  BY <2>2, <2>3, <2>4, <3>1, <4>1, KeptIs
    <3>2. CASE ~(live /\ seq[t] > Kept)  BY <2>2, <2>4, <3>2 DEF TrackInv
    <3>3. QED  BY <3>1, <3>2
  <2>6. oldest[t] \in Nat /\ (~live => spooled[t] = seq[t])
    BY <2>1, <2>2 DEF IInv, Types, TrackInv
  <2>7. QED  BY <2>2, <2>4, <2>5, <2>6 DEF Found
<1>2. QED  BY <1>1, PublisherInvariance, PTL

(* A cached body whose version is the current one is what would be printed *)
(* now, whenever no track and no End is between a change and its bump.     *)
THEOREM CachesAreFresh == Spec => []CacheFresh
<1>1. IInv => CacheFresh
  <2> SUFFICES ASSUME IInv, Settled
               PROVE  /\ \A t \in Tracks :
                           playlist[t].ver = ver => playlist[t].body = Rendered(t)
                      /\ dash.ver = ver => dash.body = [t \in Tracks |-> Visible(t)]
    BY DEF CacheFresh, Settled
  <2>1. ver \in Nat /\ ver >= Since  BY DEF IInv, Types, Since
  <2>2. QED  BY <2>1 DEF IInv, PlaylistInv, DashInv
<1>2. QED  BY <1>1, PublisherInvariance, PTL

(* No manifest is served with an empty timeline.                           *)
THEOREM ManifestsPlay == Spec => []MpdPlayable
<1>1. IInv => MpdPlayable
  <2> SUFFICES ASSUME IInv, NEW r \in Requests, answer[r].kind = "mpd", NEW t \in Tracks
               PROVE  answer[r].lists[t].from <= answer[r].lists[t].to
    BY DEF MpdPlayable
  <2>1. Shown(t, answer[r].lists[t])  BY DEF IInv, AnswerInv, Full
  <2>2. QED  BY <2>1 DEF Shown
<1>2. QED  BY <1>1, PublisherInvariance, PTL

(* A manifest that says it is complete is.                                 *)
THEOREM StaticManifests == Spec => []StaticIsWhole
<1>1. IInv => StaticIsWhole
  <2> SUFFICES ASSUME IInv, NEW r \in Requests, answer[r].kind = "mpd", answer[r].static,
                      ~canceled, NEW t \in Tracks
               PROVE  answer[r].lists[t] = [from |-> 1, to |-> seq[t]] /\ sink[t] = "done"
    BY DEF StaticIsWhole
  <2>1. end # "no" /\ answer[r].lists[t] = [from |-> 1, to |-> seq[t]]
    BY DEF IInv, AnswerInv
  <2>2. QED  BY <2>1 DEF IInv, TrackInv, Complete
<1>2. QED  BY <1>1, PublisherInvariance, PTL
================================================================================
