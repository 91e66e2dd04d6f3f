------------------------------- MODULE Publisher -------------------------------
(***************************************************************************)
(* restream.Publisher and the HTTP handlers that serve it: tracks that a   *)
(* download feeds segment by segment, a rolling window in memory (live) or *)
(* a growing spool on disk (VOD), media playlists and the body of the DASH *)
(* manifest cached under one version counter.                              *)
(*                                                                         *)
(* A critical section is one step.  Segment n of a track is the n-th it    *)
(* published, so its name is n; of a segment only its duration matters,    *)
(* which DurationOf gives, and a listing is the first and the last segment *)
(* it shows.                                                               *)
(***************************************************************************)
EXTENDS Integers, Sequences, FiniteSets, FiniteSetsExt

CONSTANTS
  Tracks,
  Fragmented,   (* Tracks that come with an init segment.                  *)
  Requests,     (* Requests for playlists and manifests there will be.     *)
  WindowSize,   (* Segments a live playlist shows.                         *)
  TailExtra,    (* Segments kept beyond them.                              *)
  DurationOf,   (* [Tracks -> what its download brings: a sequence of      *)
                (* durations, zero where the source gives none]            *)
  MaxClock      (* Bound: seconds since the run started.                   *)

ASSUME PublisherAssumption ==
  /\ Tracks # {} /\ IsFiniteSet(Tracks)
  /\ WindowSize \in Nat \ {0} /\ TailExtra \in Nat
  /\ DurationOf \in [Tracks -> Seq(Nat)]

VARIABLES
  live,         (* Every track rolls a window; if not, it spools.          *)
  clock,
  \* a track
  seq,          (* Segments it has published: t.seq, t.published.          *)
  oldest,       (* The oldest one in t.segs and t.byName.                  *)
  targetDur, nextStart,
  init,         (* t.init is there.                                        *)
  ended,
  spooled,      (* Segments whose spool file is complete.                  *)
  sink,         (* Where its download is: "ready", "spool" (the file is    *)
                (* written), "bump" (after Init, before bumpVer), "done".  *)
  \* End
  end,          (* "no", "marking" or "done"                               *)
  canceled,     (* End was called while downloads were running.            *)
  \* the caches
  ver,
  playlist,     (* [Tracks -> t.plCache with t.plVer as .ver]              *)
  dash,         (* p.dashCache with p.dashVer                              *)
  cacheMu,      (* The request in dashBody's critical section, or nobody.  *)
  \* the requests
  rpc,          (* Where each is.                                          *)
  form,         (* What it has gathered so far.                            *)
  answer        (* What it was answered last.                              *)

track   == <<seq, oldest, targetDur, nextStart>>
ending  == <<end, canceled, ended>>
caches  == <<playlist, dash, cacheMu>>
serving == <<rpc, form, answer>>
vars == <<live, clock, seq, oldest, targetDur, nextStart, init, ended, spooled, sink,
          end, canceled, ver, playlist, dash, cacheMu, rpc, form, answer>>

Nobody == "nobody"
Absent == [ver |-> -1]

(* visibleLocked                                                           *)
Visible(t) ==
  [from |-> IF live /\ seq[t] - oldest[t] + 1 > WindowSize
              THEN seq[t] - WindowSize + 1 ELSE oldest[t],
   to   |-> seq[t]]

(* segmentByName: what is in the table; for a VOD the file serves it.      *)
Found(t, n) == n \in oldest[t] .. seq[t] /\ (live \/ n <= spooled[t])

(* What mediaPlaylist prints.                                              *)
Rendered(t) ==
  [list |-> Visible(t), init |-> init[t], ended |-> ended[t], target |-> targetDur[t]]

(* A segment without a duration counts as long as the longest so far.      *)
Duration(t) ==
  LET d == DurationOf[t][seq[t] + 1]
  IN  IF d > 0 THEN d ELSE IF targetDur[t] > 0 THEN targetDur[t] ELSE 2

Ready == \A t \in Tracks : seq[t] >= oldest[t]
AllEnded == \A t \in Tracks : ended[t]
TotalDur == Max({nextStart[t] : t \in Tracks})

(***************************************************************************)
(* The sinks.                                                              *)
(***************************************************************************)

(* Init stores the bytes and bumps the version after the unlock.           *)
PutInit(t) ==
  /\ sink[t] = "ready" /\ t \in Fragmented /\ ~init[t]
  /\ init' = [init EXCEPT ![t] = TRUE]
  /\ sink' = [sink EXCEPT ![t] = "bump"]
  /\ UNCHANGED <<live, clock, track, spooled, ending, ver, caches, serving>>

BumpVer(t) ==
  /\ sink[t] = "bump"
  /\ ver' = ver + 1
  /\ sink' = [sink EXCEPT ![t] = "ready"]
  /\ UNCHANGED <<live, clock, track, init, spooled, ending, caches, serving>>

(* Segment, for a VOD: the file is written before the lock is taken.       *)
Spool(t) ==
  /\ sink[t] = "ready" /\ ~live /\ seq[t] < Len(DurationOf[t])
  /\ sink' = [sink EXCEPT ![t] = "spool"]
  /\ UNCHANGED <<live, clock, track, init, spooled, ending, ver, caches, serving>>

\* Mutant: the window is cut to what it shows.
KeptOnlyVisible == WindowSize

(* How many segments a live window keeps.                                  *)
Kept == WindowSize + TailExtra

(* Segment's critical section: append, bump the version, evict.            *)
Publish(t) ==
  /\ LET d == Duration(t)
     IN  /\ targetDur' = [targetDur EXCEPT ![t] = IF d > @ THEN d ELSE @]
         /\ nextStart' = [nextStart EXCEPT ![t] = @ + d]
  /\ seq' = [seq EXCEPT ![t] = @ + 1]
  /\ oldest' = IF live /\ seq[t] + 1 - oldest[t] + 1 > Kept
                 THEN [oldest EXCEPT ![t] = seq[t] + 1 - Kept + 1] ELSE oldest
  /\ ver' = ver + 1

PublishLive(t) ==
  /\ sink[t] = "ready" /\ live /\ seq[t] < Len(DurationOf[t])
  /\ Publish(t)
  /\ UNCHANGED <<live, clock, init, spooled, sink, ending, caches, serving>>

PublishSpooled(t) ==
  /\ sink[t] = "spool"
  /\ spooled' = [spooled EXCEPT ![t] = seq[t] + 1]
  /\ Publish(t)
  /\ sink' = [sink EXCEPT ![t] = "ready"]
  /\ UNCHANGED <<live, clock, init, ending, caches, serving>>

(* The source ends, or the download fails, the write of a spool file       *)
(* included.                                                               *)
SinkDone(t) ==
  /\ sink[t] \in {"ready", "spool"}
  /\ sink' = [sink EXCEPT ![t] = "done"]
  /\ UNCHANGED <<live, clock, track, init, spooled, ending, ver, caches, serving>>

(***************************************************************************)
(* End: called when every download is done, or as soon as the context is.  *)
(***************************************************************************)

CallEnd ==
  /\ end = "no"
  /\ end' = "marking"
  /\ canceled' = \E t \in Tracks : sink[t] # "done"
  /\ UNCHANGED <<live, clock, track, init, ended, spooled, sink, ver, caches, serving>>

MarkEnded(t) ==
  /\ end = "marking" /\ ~ended[t]
  /\ ended' = [ended EXCEPT ![t] = TRUE]
  /\ UNCHANGED <<live, clock, track, init, spooled, sink, end, canceled, ver, caches, serving>>

EndBumps ==
  /\ end = "marking" /\ AllEnded
  /\ end' = "done"
  /\ ver' = ver + 1
  /\ UNCHANGED <<live, clock, track, init, ended, spooled, sink, canceled, caches, serving>>

(***************************************************************************)
(* The requests.                                                           *)
(***************************************************************************)

(* media: mediaPlaylist runs under the track's lock.                       *)
GetPlaylist(r, t) ==
  /\ rpc[r] = "new"
  /\ playlist' = IF playlist[t].ver = ver THEN playlist
                 ELSE [playlist EXCEPT ![t] = [ver |-> ver, body |-> Rendered(t)]]
  /\ answer' = [answer EXCEPT ![r] = [kind |-> "m3u8", lists |-> [x \in {t} |->
                  playlist'[t].body.list]]]
  /\ rpc' = [rpc EXCEPT ![r] = "done"]
  /\ UNCHANGED <<live, clock, track, init, spooled, sink, ending, ver, dash, cacheMu,
                 form>>

(* mpd: WaitReady comes back when every track has a segment, when all have *)
(* ended, or after eight seconds, which is at any time.                    *)
AskManifest(r) ==
  /\ rpc[r] = "new"
  /\ rpc' = [rpc EXCEPT ![r] = "asked"]
  /\ UNCHANGED <<live, clock, track, init, spooled, sink, ending, ver, caches, form, answer>>

Refuse(r) ==
  /\ rpc[r] = "asked" /\ ~Ready
  /\ rpc' = [rpc EXCEPT ![r] = "done"]
  /\ answer' = [answer EXCEPT ![r] = [kind |-> "503"]]
  /\ UNCHANGED <<live, clock, track, init, spooled, sink, ending, ver, caches, form>>

\* Mutant: the time WaitReady gives is taken for readiness.
AdmitLate(r) ==
  /\ rpc[r] = "asked"
  /\ rpc' = [rpc EXCEPT ![r] = "header"]
  /\ form' = [form EXCEPT ![r] = [done |-> AllEnded]]
  /\ UNCHANGED <<live, clock, track, init, spooled, sink, ending, ver, caches, answer>>

(* DASHManifest reads whether all tracks have ended first ...              *)
Admit(r) ==
  /\ rpc[r] = "asked" /\ Ready
  /\ rpc' = [rpc EXCEPT ![r] = "header"]
  /\ form' = [form EXCEPT ![r] = [done |-> AllEnded]]
  /\ UNCHANGED <<live, clock, track, init, spooled, sink, ending, ver, caches, answer>>

\* Mutant: the clock alone decides.
HeaderLate(r) ==
  /\ rpc[r] = "header"
  /\ rpc' = [rpc EXCEPT ![r] = "body"]
  /\ form' = [form EXCEPT ![r] =
                [static |-> ~live /\ clock >= TotalDur, ver |-> ver]]
  /\ UNCHANGED <<live, clock, track, init, spooled, sink, ending, ver, caches, answer>>

(* ... and then the clock and the length: a VOD whose broadcast is over is *)
(* static.  dashBody reads the version before it takes its lock.           *)
Header(r) ==
  /\ rpc[r] = "header"
  /\ rpc' = [rpc EXCEPT ![r] = "body"]
  /\ form' = [form EXCEPT ![r] =
                [static |-> ~live /\ form[r].done /\ clock >= TotalDur, ver |-> ver]]
  /\ UNCHANGED <<live, clock, track, init, spooled, sink, ending, ver, caches, answer>>

Manifest(r, body) == [kind |-> "mpd", static |-> form[r].static, lists |-> body]

BodyCached(r) ==
  /\ rpc[r] = "body" /\ cacheMu = Nobody
  /\ dash.ver = form[r].ver
  /\ answer' = [answer EXCEPT ![r] = Manifest(r, dash.body)]
  /\ rpc' = [rpc EXCEPT ![r] = "done"]
  /\ UNCHANGED <<live, clock, track, init, spooled, sink, ending, ver, caches, form>>

BodyStale(r) ==
  /\ rpc[r] = "body" /\ cacheMu = Nobody
  /\ dash.ver # form[r].ver
  /\ cacheMu' = r
  /\ form' = [form EXCEPT ![r] = [static |-> @.static, ver |-> @.ver, body |-> <<>>]]
  /\ rpc' = [rpc EXCEPT ![r] = "render"]
  /\ UNCHANGED <<live, clock, track, init, spooled, sink, ending, ver, playlist, dash, answer>>

(* writeAdaptationSet: a track at a time, each under its own lock.         *)
RenderTrack(r, t) ==
  /\ rpc[r] = "render" /\ t \notin DOMAIN form[r].body
  /\ form' = [form EXCEPT ![r].body = [x \in DOMAIN @ \cup {t} |->
                                          IF x = t THEN Visible(t) ELSE @[x]]]
  /\ UNCHANGED <<live, clock, track, init, spooled, sink, ending, ver, caches, rpc, answer>>

\* Mutant: the version is read when the body is stored.
BodyDoneLate(r) ==
  /\ rpc[r] = "render" /\ DOMAIN form[r].body = Tracks
  /\ dash' = [ver |-> ver, body |-> form[r].body]
  /\ cacheMu' = Nobody
  /\ answer' = [answer EXCEPT ![r] = Manifest(r, form[r].body)]
  /\ rpc' = [rpc EXCEPT ![r] = "done"]
  /\ UNCHANGED <<live, clock, track, init, spooled, sink, ending, ver, playlist, form>>

BodyDone(r) ==
  /\ rpc[r] = "render" /\ DOMAIN form[r].body = Tracks
  /\ dash' = [ver |-> form[r].ver, body |-> form[r].body]
  /\ cacheMu' = Nobody
  /\ answer' = [answer EXCEPT ![r] = Manifest(r, form[r].body)]
  /\ rpc' = [rpc EXCEPT ![r] = "done"]
  /\ UNCHANGED <<live, clock, track, init, spooled, sink, ending, ver, playlist, form>>

Elapse ==
  /\ clock < MaxClock
  /\ clock' = clock + 1
  /\ UNCHANGED <<live, track, init, spooled, sink, ending, ver, caches, serving>>

--------------------------------------------------------------------------------

Init ==
  /\ live \in BOOLEAN
  /\ clock = 0
  /\ seq = [t \in Tracks |-> 0] /\ oldest = [t \in Tracks |-> 1]
  /\ targetDur = [t \in Tracks |-> 0] /\ nextStart = [t \in Tracks |-> 0]
  /\ init = [t \in Tracks |-> FALSE] /\ ended = [t \in Tracks |-> FALSE]
  /\ spooled = [t \in Tracks |-> 0]
  /\ sink = [t \in Tracks |-> "ready"]
  /\ end = "no" /\ canceled = FALSE
  /\ ver = 0
  /\ playlist = [t \in Tracks |-> Absent] /\ dash = Absent /\ cacheMu = Nobody
  /\ rpc = [r \in Requests |-> "new"]
  /\ form = [r \in Requests |-> <<>>]
  /\ answer = [r \in Requests |-> [kind |-> "none"]]

SinkStep(t) ==
  \/ PutInit(t) \/ BumpVer(t) \/ Spool(t) \/ PublishLive(t) \/ PublishSpooled(t)
  \/ SinkDone(t)

RequestStep(r) ==
  \/ AskManifest(r) \/ Refuse(r) \/ Admit(r) \/ Header(r)
  \/ BodyCached(r) \/ BodyStale(r) \/ BodyDone(r)
  \/ \E t \in Tracks : GetPlaylist(r, t) \/ RenderTrack(r, t)

Next ==
  \/ \E t \in Tracks : SinkStep(t) \/ MarkEnded(t)
  \/ \E r \in Requests : RequestStep(r)
  \/ CallEnd \/ EndBumps \/ Elapse

Spec == Init /\ [][Next]_vars

--------------------------------------------------------------------------------

(* A segment a client was shown, in a playlist or a manifest, can still be *)
(* fetched until the track has published TailExtra more; for a VOD for     *)
(* ever, and from a file that is complete.                                 *)
ListedStaysFetchable ==
  \A r \in Requests : answer[r].kind \in {"m3u8", "mpd"} =>
    \A t \in DOMAIN answer[r].lists :
      LET shown == answer[r].lists[t]
      IN  ~live \/ seq[t] <= shown.to + TailExtra =>
            \A n \in shown.from .. shown.to : Found(t, n)

(* A cached body that counts as current is what would be rendered now,     *)
(* whatever was published while it was rendered.                           *)
CacheFresh ==
  LET settled == end # "marking" /\ \A t \in Tracks : sink[t] # "bump"
  IN  settled =>
        /\ \A t \in Tracks : playlist[t].ver = ver => playlist[t].body = Rendered(t)
        /\ dash.ver = ver => dash.body = [t \in Tracks |-> Visible(t)]

(* A manifest that is served shows at least a segment of every track:      *)
(* players do not recover from an empty timeline.                          *)
MpdPlayable ==
  \A r \in Requests : answer[r].kind = "mpd" =>
    \A t \in Tracks : answer[r].lists[t].from <= answer[r].lists[t].to

(* A manifest goes static only with the whole of the presentation in it,   *)
(* unless the run was interrupted: the order in which End, the clock, the  *)
(* length and the tracks are read.                                         *)
StaticIsWhole ==
  \A r \in Requests : answer[r].kind = "mpd" /\ answer[r].static /\ ~canceled =>
    \A t \in Tracks : answer[r].lists[t] = [from |-> 1, to |-> seq[t]] /\ sink[t] = "done"
================================================================================
