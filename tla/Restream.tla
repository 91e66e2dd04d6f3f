------------------------------- MODULE Restream -------------------------------
(***************************************************************************)
(* Restream mode (-serve): the download of every selected stream into its  *)
(* sink (RunJobs), the paced sink writer, the FFmpeg remux with its pipes  *)
(* and its pump, the end of the presentation and the shutdown of serve.    *)
(*                                                                         *)
(* A job hands its sink one segment after the other; fetching them is      *)
(* Pipeline's.  A segment lasts one tick of the clock, or the playlist     *)
(* gives it no duration.  A pipe and FFmpeg's progress count segments.     *)
(***************************************************************************)
EXTENDS Integers, FiniteSets, Sequences

CONSTANTS
  Formats,      (* -serve-format, with or without -serve-transcode.        *)
  Selections,   (* Selected streams: sequences of stream records.          *)
  Units,        (* Segments of a stream.                                   *)
  Prime,        (* pacePrimeSegments                                       *)
  PipeCap,      (* Segments an FFmpeg input pipe takes.                    *)
  Lead,         (* How far FFmpeg reads one input ahead of another.        *)
  MaxClock      (* Bound of the clock.                                     *)

ASSUME RestreamAssumption ==
  /\ Units \in Nat \ {0} /\ Prime \in Nat
  /\ PipeCap \in Nat \ {0} /\ Lead \in Nat \ {0}

VARIABLES
  mode,         (* The output: "publisher", "copy" or "remux".             *)
  jobs,         (* The streams downloaded.                                 *)
  finite,       (* They are no live streams.                               *)
  clock,
  \* the jobs
  jpc,          (* "next", "write" (to the sink), "pace", "ok" or "failed" *)
  written,      (* Segments the sink took.                                 *)
  paceStart,    (* -1 before pacing began                                  *)
  gctx,         (* The errgroup's context is done.                         *)
  err,          (* The group's error.                                      *)
  \* FFmpeg
  pipe,         (* Segments in each input pipe.                            *)
  closed,       (* End closed the write ends.                              *)
  read,         (* Segments FFmpeg read of each input.                     *)
  opened,       (* How many inputs it has opened, one after the other.     *)
  ffmpeg,       (* "none", "running", "crashed" or "exited"                *)
  \* serve
  ctx,          (* Done: the operator's signal.                            *)
  watcher,      (* It waits for ctx to end the presentation.               *)
  presEnded,    (* What viewers get has ended.                             *)
  main          (* "jobs", "end", "serving", "shutdown", "nil" or "error"  *)

choice == <<mode, jobs, finite>>
group  == <<jpc, written, paceStart, gctx, err>>
remux  == <<pipe, closed, read, opened, ffmpeg>>
server == <<ctx, watcher, presEnded, main>>
vars == <<mode, jobs, finite, clock, jpc, written, paceStart, gctx, err, pipe, closed,
          read, opened, ffmpeg, ctx, watcher, presEnded, main>>

Jobs == DOMAIN jobs
Over == {"ok", "failed"}

(***************************************************************************)
(* BuildOutputs.  A stream is [type, fragmented, untimed]; fragmented is   *)
(* an Init or the name of its first segment, and untimed are the segments  *)
(* without a duration.                                                     *)
(***************************************************************************)

Published(selected) == SelectSeq(selected, LAMBDA st : st.type # "subtitles")

(* What is published of a selection is a sequence.                         *)
ASSUME SelectionsAssumption ==
  \A s \in Selections :
    /\ Len(Published(s)) \in Nat
    /\ DOMAIN Published(s) = 1 .. Len(Published(s))

SingleMuxedTS(streams) ==
  Len(streams) = 1 /\ streams[1].type = "video" /\ ~streams[1].fragmented

(* The packager, or "error" when nothing is left or DASH meets a TS track. *)
BuildOutputs(format, streams) ==
  IF streams = <<>> THEN "error" ELSE
  CASE format = "ts" -> IF SingleMuxedTS(streams) THEN "copy" ELSE "remux"
    [] format = "ts+transcode" -> "remux"
    [] format = "dash" -> IF \A i \in DOMAIN streams : streams[i].fragmented
                            THEN "publisher" ELSE "error"
    [] OTHER -> "publisher"

(* Only what has a live edge to overrun is paced.                          *)
Paced == finite /\ mode # "publisher"

(***************************************************************************)
(* The jobs: engine.DownloadStream with a sink.                            *)
(***************************************************************************)

(* The next segment is fetched and decrypted.  After a cancel the writer    *)
(* still commits what is fetched.                                          *)
Fetched(j) ==
  /\ jpc[j] = "next" /\ written[j] < Units
  /\ jpc' = [jpc EXCEPT ![j] = "write"]
  /\ UNCHANGED <<choice, clock, written, paceStart, gctx, err, remux, server>>

(* The stream ends.                                                        *)
StreamEnds(j) ==
  /\ jpc[j] = "next" /\ (written[j] = Units \/ ~finite)
  /\ jpc' = [jpc EXCEPT ![j] = "ok"]
  /\ UNCHANGED <<choice, clock, written, paceStart, gctx, err, remux, server>>

(* A download fails, or sees the context done, also while it is paced.     *)
Fail(j) ==
  /\ \/ jpc[j] = "next"
     \/ jpc[j] = "pace" /\ gctx
  /\ jpc' = [jpc EXCEPT ![j] = "failed"]
  /\ gctx' = TRUE /\ err' = TRUE
  /\ UNCHANGED <<choice, clock, written, paceStart, remux, server>>

(* The segments up to n that have a duration: emitted.                     *)
Timed(st, n) == Cardinality({k \in 1 .. n : k \notin st.untimed})

(* The sink takes the segment.  Past the prime burst, a paced job holds it *)
(* to its own duration, counted from where pacing began, if it has one.    *)
Taken(j) ==
  LET n == written[j] + 1
  IN  /\ written' = [written EXCEPT ![j] = n]
      /\ IF Paced /\ n \notin jobs[j].untimed /\ Timed(jobs[j], n) > Prime
           THEN /\ paceStart' = [paceStart EXCEPT ![j] = IF @ = -1 THEN clock ELSE @]
                /\ jpc' = [jpc EXCEPT ![j] = "pace"]
           ELSE /\ jpc' = [jpc EXCEPT ![j] = "next"]
                /\ UNCHANGED paceStart

(* The publisher and the broadcaster never make the writer wait.           *)
WriteSink(j) ==
  /\ jpc[j] = "write" /\ mode # "remux"
  /\ Taken(j)
  /\ UNCHANGED <<choice, clock, gctx, err, remux, server>>

(* A pipe makes it wait while it is full ...                               *)
WritePipe(j) ==
  /\ jpc[j] = "write" /\ mode = "remux"
  /\ ~closed /\ ffmpeg = "running" /\ pipe[j] < PipeCap
  /\ pipe' = [pipe EXCEPT ![j] = @ + 1]
  /\ Taken(j)
  /\ UNCHANGED <<choice, clock, gctx, err, closed, read, opened, ffmpeg, server>>

(* ... until it is closed on this side, or broken on the other.            *)
PipeBroken(j) ==
  /\ jpc[j] = "write" /\ mode = "remux"
  /\ closed \/ ffmpeg # "running"
  /\ jpc' = [jpc EXCEPT ![j] = "failed"]
  /\ gctx' = TRUE /\ err' = TRUE
  /\ UNCHANGED <<choice, clock, written, paceStart, remux, server>>

\* Mutant: the duration of a segment is not waited for.
PacedAtOnce(j) ==
  /\ jpc[j] = "pace" /\ clock >= paceStart[j]
  /\ jpc' = [jpc EXCEPT ![j] = "next"]
  /\ UNCHANGED <<choice, clock, written, paceStart, gctx, err, remux, server>>

(* The media emitted past the prime burst has been played.                 *)
PaceOver(j) ==
  /\ jpc[j] = "pace" /\ clock >= paceStart[j] + (Timed(jobs[j], written[j]) - Prime)
  /\ jpc' = [jpc EXCEPT ![j] = "next"]
  /\ UNCHANGED <<choice, clock, written, paceStart, gctx, err, remux, server>>

(***************************************************************************)
(* FFmpeg, which opens its inputs one after the other, each with its first *)
(* data, and then reads them in step.                                      *)
(***************************************************************************)

OpenInput ==
  /\ ffmpeg = "running" /\ opened < Len(jobs)
  /\ LET j == opened + 1
     IN  /\ pipe[j] > 0
         /\ pipe' = [pipe EXCEPT ![j] = @ - 1]
         /\ read' = [read EXCEPT ![j] = @ + 1]
         /\ opened' = j
  /\ UNCHANGED <<choice, clock, group, closed, ffmpeg, server>>

AtEOF(j) == closed /\ pipe[j] = 0

ReadInput(j) ==
  /\ ffmpeg = "running" /\ opened = Len(jobs)
  /\ pipe[j] > 0
  /\ \A k \in Jobs : AtEOF(k) \/ read[j] < read[k] + Lead
  /\ pipe' = [pipe EXCEPT ![j] = @ - 1]
  /\ read' = [read EXCEPT ![j] = @ + 1]
  /\ UNCHANGED <<choice, clock, group, closed, opened, ffmpeg, server>>

(* It exits at the end of its inputs, or when one has nothing to open.     *)
FFmpegExits ==
  /\ ffmpeg = "running"
  /\ IF opened = Len(jobs) THEN \A j \in Jobs : AtEOF(j) ELSE AtEOF(opened + 1)
  /\ ffmpeg' = "exited"
  /\ UNCHANGED <<choice, clock, group, pipe, closed, read, opened, server>>

FFmpegCrashes ==
  /\ ffmpeg = "running"
  /\ ffmpeg' = "crashed"
  /\ UNCHANGED <<choice, clock, group, pipe, closed, read, opened, server>>

(* pump: the output of FFmpeg ended, so the broadcast does.                *)
PumpEnds ==
  /\ ffmpeg \in {"exited", "crashed"} /\ ~presEnded
  /\ presEnded' = TRUE
  /\ UNCHANGED <<choice, clock, group, remux, ctx, watcher, main>>

(***************************************************************************)
(* serve.                                                                  *)
(***************************************************************************)

\* Mutant: End leaves the pipes to FFmpeg.
EndSoftly ==
  /\ presEnded' = (presEnded \/ mode # "remux")
  /\ UNCHANGED closed

(* pres.End: idempotent.  A remux closes its pipes and leaves the rest to  *)
(* pump.                                                                   *)
End ==
  /\ closed' = (closed \/ mode = "remux")
  /\ presEnded' = (presEnded \/ mode # "remux")

(* The first signal.  The second one exits the process on the spot.        *)
Interrupt ==
  /\ ~ctx
  /\ ctx' = TRUE /\ gctx' = TRUE
  /\ UNCHANGED <<choice, clock, jpc, written, paceStart, err, remux, watcher, presEnded, main>>

WatcherEnds ==
  /\ watcher /\ ctx
  /\ watcher' = FALSE
  /\ End
  /\ UNCHANGED <<choice, clock, group, pipe, read, opened, ffmpeg, ctx, main>>

\* Mutant: the first download to end is enough.
JobsDoneEarly ==
  /\ main = "jobs" /\ \E j \in Jobs : jpc[j] \in Over
  /\ main' = "end"
  /\ UNCHANGED <<choice, clock, group, remux, ctx, watcher, presEnded>>

(* g.Wait returns.                                                         *)
JobsDone ==
  /\ main = "jobs" /\ \A j \in Jobs : jpc[j] \in Over
  /\ main' = "end"
  /\ UNCHANGED <<choice, clock, group, remux, ctx, watcher, presEnded>>

(* An error that is no interrupt is fatal; a source that ended is served   *)
(* until the interrupt.                                                    *)
MainEnds ==
  /\ main = "end"
  /\ End
  /\ main' = IF err /\ ~ctx THEN "error" ELSE "serving"
  /\ UNCHANGED <<choice, clock, group, pipe, read, opened, ffmpeg, ctx, watcher>>

(* Shutdown, two seconds at most, and the return.                          *)
Shutdown ==
  /\ main = "serving" /\ ctx
  /\ main' = "nil"
  /\ UNCHANGED <<choice, clock, group, remux, ctx, watcher, presEnded>>

Elapse ==
  /\ clock < MaxClock
  /\ clock' = clock + 1
  /\ UNCHANGED <<choice, group, remux, server>>

--------------------------------------------------------------------------------

Init ==
  /\ \E f \in Formats, s \in Selections :
       /\ jobs = Published(s)
       /\ mode = BuildOutputs(f, jobs) /\ mode # "error"
  /\ finite \in BOOLEAN
  /\ clock = 0
  /\ jpc = [j \in Jobs |-> "next"] /\ written = [j \in Jobs |-> 0]
  /\ paceStart = [j \in Jobs |-> -1]
  /\ gctx = FALSE /\ err = FALSE
  /\ pipe = [j \in Jobs |-> 0] /\ read = [j \in Jobs |-> 0]
  /\ closed = FALSE /\ opened = 0
  /\ ffmpeg = IF mode = "remux" THEN "running" ELSE "none"
  /\ ctx = FALSE /\ watcher = TRUE /\ presEnded = FALSE /\ main = "jobs"

JobStep(j) ==
  \/ Fetched(j) \/ StreamEnds(j) \/ Fail(j) \/ WriteSink(j) \/ WritePipe(j)
  \/ PipeBroken(j) \/ PaceOver(j)

ServeStep == JobsDone \/ MainEnds \/ Shutdown

Next ==
  \/ \E j \in Jobs : JobStep(j) \/ ReadInput(j)
  \/ OpenInput \/ FFmpegExits \/ FFmpegCrashes \/ PumpEnds
  \/ Interrupt \/ WatcherEnds \/ ServeStep \/ Elapse

Spec == Init /\ [][Next]_vars

(* Downloads get on, FFmpeg reads what it can, goroutines are scheduled and*)
(* time passes.  Nobody need interrupt, fail or crash.                     *)
FairSpec ==
  /\ Spec
  /\ \A j \in 1 .. 2 :
       /\ WF_vars(j \in Jobs /\ (JobStep(j) /\ (jpc'[j] # "failed" \/ gctx \/ PipeBroken(j))))
       /\ WF_vars(j \in Jobs /\ ReadInput(j))
  /\ WF_vars(OpenInput) /\ WF_vars(FFmpegExits) /\ WF_vars(PumpEnds)
  /\ WF_vars(WatcherEnds) /\ WF_vars(ServeStep) /\ WF_vars(Elapse)

--------------------------------------------------------------------------------

Returned == main \in {"nil", "error"}

(* An interrupt ends the run, also with a writer that waits for an FFmpeg  *)
(* which reads nothing: the watcher closes the pipes under it.  So does a  *)
(* download error, which is fatal (serve.go:256), unless there is a remux. *)
ServeEnds == (ctx \/ (mode # "remux" /\ err)) ~> Returned

(* "A real download error (not an interrupt) is fatal" (serve.go:256),     *)
(* with a remux as without one.                                            *)
RemuxErrorEnds == err ~> Returned

(* What a paced source has emitted that lasts is never further ahead of    *)
(* the clock than the prime burst and the segment in hand, however its     *)
(* downloads stall and whatever comes without a duration in between.       *)
PacedToClock ==
  Paced => \A j \in Jobs : Timed(jobs[j], written[j]) <= Prime + 1 + clock

(* A finite source that completes is broadcast whole: nothing stays in a   *)
(* pipe when the presentation ends.                                        *)
CompleteIsBroadcast ==
  presEnded /\ ffmpeg = "exited" /\ ~ctx /\ ~err /\ finite => \A j \in Jobs : read[j] = Units
================================================================================
