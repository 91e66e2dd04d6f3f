---------------------------- MODULE RestreamProofs ----------------------------
(***************************************************************************)
(* The pacing of restream mode, and what a complete source leaves FFmpeg   *)
(* to do.  ServeEnds is a liveness property and is left to TLC.            *)
(*                                                                         *)
(* Pacing: outside its wait a paced job has written no more that lasts     *)
(* than the prime burst and the clock allow, and a wait ends only once the *)
(* media past the prime burst has been played from paceStart on, which is  *)
(* no later than now.                                                      *)
(*                                                                         *)
(* Completeness: what is written is in the pipe or read.  A pipe closed    *)
(* without an interrupt was closed by the main goroutine, after g.Wait:    *)
(* every job is over, and without an error it is complete.  So FFmpeg,     *)
(* which exits at the end of its inputs, has read them whole, and it       *)
(* cannot have met an input with nothing to open.                          *)
(***************************************************************************)
EXTENDS Restream, FiniteSetTheorems, TLAPS

TypeOK ==
  /\ mode \in {"publisher", "copy", "remux"} /\ finite \in BOOLEAN /\ clock \in Nat
  /\ Len(jobs) \in Nat /\ DOMAIN jobs = 1 .. Len(jobs)
  /\ jpc \in [Jobs -> {"next", "write", "pace"} \cup Over]
  /\ written \in [Jobs -> Nat] /\ paceStart \in [Jobs -> Int]
  /\ gctx \in BOOLEAN /\ err \in BOOLEAN
  /\ pipe \in [Jobs -> Nat] /\ read \in [Jobs -> Nat]
  /\ closed \in BOOLEAN /\ opened \in 0 .. Len(jobs)
  /\ ffmpeg \in {"none", "running", "crashed", "exited"}
  /\ ctx \in BOOLEAN /\ watcher \in BOOLEAN /\ presEnded \in BOOLEAN
  /\ main \in {"jobs", "end", "serving", "shutdown", "nil", "error"}

(* How far a paced job is, waiting or not.                                 *)
PaceOf(j) ==
  /\ paceStart[j] >= -1 /\ paceStart[j] <= clock
  /\ jpc[j] = "pace" => paceStart[j] >= 0
  /\ Timed(jobs[j], written[j]) <= Prime + 1 + clock
  /\ jpc[j] \in {"next", "write"} => Timed(jobs[j], written[j]) <= Prime + clock

PaceInv ==
  Paced => \A j \in Jobs : PaceOf(j)

(* What a job wrote, and how it ended.                                     *)
JobOf(j) ==
  /\ jpc[j] = "write" => written[j] < Units
  /\ written[j] <= Units
  /\ finite /\ jpc[j] = "ok" => written[j] = Units
  /\ jpc[j] = "failed" => err

JobInv == \A j \in Jobs : JobOf(j)

(* The bytes of a pipe: nothing is lost, nothing is read before it opens.  *)
PipeOf(j) ==
  /\ written[j] = pipe[j] + read[j]
  /\ j > opened => read[j] = 0

PipeInv ==
  /\ ffmpeg # "none" => mode = "remux"
  /\ mode = "remux" => \A j \in Jobs : PipeOf(j)

(* Who closed the pipes.                                                   *)
CloseInv ==
  /\ main # "jobs" => \A j \in Jobs : jpc[j] \in Over
  /\ closed => ctx \/ main \notin {"jobs", "end"}

(* FFmpeg that exited on its own has read everything.                      *)
ExitInv ==
  ffmpeg = "exited" /\ ~ctx /\ ~err /\ finite => \A j \in Jobs : read[j] = Units

(* What the sink takes, and whether the job waits: Taken, job by job.      *)
Takes(j) ==
  /\ written' \in [Jobs -> Nat] /\ paceStart' \in [Jobs -> Int]
  /\ jpc' \in [Jobs -> {"next", "write", "pace"} \cup Over]
  /\ \A k \in Jobs \ {j} :
       jpc'[k] = jpc[k] /\ written'[k] = written[k] /\ paceStart'[k] = paceStart[k]
  /\ written'[j] = written[j] + 1
  /\ \/ /\ Paced /\ jpc'[j] = "pace"
        /\ \/ paceStart'[j] = clock
           \/ paceStart'[j] = paceStart[j] /\ paceStart[j] # -1
     \/ /\ Paced => written[j] + 1 \in jobs[j].untimed \/ Timed(jobs[j], written[j] + 1) <= Prime
        /\ jpc'[j] = "next" /\ paceStart'[j] = paceStart[j]

(* A job, FFmpeg, or the server moves.                                     *)
JobMoves == \E j \in Jobs : JobStep(j)
RemuxMoves == (\E j \in Jobs : ReadInput(j)) \/ OpenInput \/ FFmpegExits \/ FFmpegCrashes
ServerMoves == PumpEnds \/ Interrupt \/ WatcherEnds \/ ServeStep \/ Elapse

IInv == TypeOK /\ PaceInv /\ JobInv /\ PipeInv /\ CloseInv /\ ExitInv
--------------------------------------------------------------------------------

(* A segment more is one timed segment more, or none.                      *)
LEMMA TimedOn ==
  ASSUME NEW st
  PROVE  /\ Timed(st, 0) = 0
         /\ \A n \in Nat : Timed(st, n) \in Nat /\ Timed(st, n + 1) \in Nat
         /\ \A n \in Nat : Timed(st, n + 1) = IF n + 1 \in st.untimed THEN Timed(st, n) ELSE Timed(st, n) + 1
<1> DEFINE S(n) == {k \in 1 .. n : k \notin st.untimed}
<1>1. ASSUME NEW n \in Nat PROVE IsFiniteSet(S(n)) /\ Cardinality(S(n)) \in Nat
  <2>1. IsFiniteSet(1 .. n)
    BY FS_Interval
  <2>2. S(n) \subseteq 1 .. n
    OBVIOUS
  <2> QED
    BY <2>1, <2>2, FS_Subset, FS_CardinalityType
<1>2. S(0) = {}
  OBVIOUS
<1>3. ASSUME NEW n \in Nat
      PROVE  S(n + 1) = IF n + 1 \in st.untimed THEN S(n) ELSE S(n) \cup {n + 1}
  OBVIOUS
<1>4. ASSUME NEW n \in Nat PROVE n + 1 \notin S(n)
  OBVIOUS
<1>5. \A n : Timed(st, n) = Cardinality(S(n))
  BY DEF Timed
<1> HIDE DEF S
<1>6. ASSUME NEW n \in Nat
      PROVE  Timed(st, n + 1) = IF n + 1 \in st.untimed THEN Timed(st, n) ELSE Timed(st, n) + 1
  <2>1. CASE n + 1 \in st.untimed
    BY <1>3, <1>5, <2>1
  <2>2. CASE n + 1 \notin st.untimed
    <3>1. S(n + 1) = S(n) \cup {n + 1}
      BY <1>3, <2>2
    <3>2. Cardinality(S(n) \cup {n + 1}) = Cardinality(S(n)) + 1
      BY <1>1, <1>4, FS_AddElement
    <3> QED
      BY <1>5, <2>2, <3>1, <3>2
  <2> QED
    BY <2>1, <2>2
<1>7. Timed(st, 0) = 0
  BY <1>2, <1>5, FS_EmptySet
<1>8. ASSUME NEW n \in Nat PROVE Timed(st, n) \in Nat /\ Timed(st, n + 1) \in Nat
  BY <1>1, <1>5
<1> QED
  BY <1>6, <1>7, <1>8

LEMMA InitHolds == Init => IInv
<1> SUFFICES ASSUME Init PROVE IInv
  OBVIOUS
<1> USE RestreamAssumption DEF Init, Jobs
<1>1. mode \in {"publisher", "copy", "remux"} /\ Len(jobs) \in Nat /\ DOMAIN jobs = 1 .. Len(jobs)
  <2>1. PICK f \in Formats, s \in Selections :
          /\ jobs = Published(s)
          /\ mode = BuildOutputs(f, jobs) /\ mode # "error"
    OBVIOUS
  <2>2. BuildOutputs(f, jobs) \in {"publisher", "copy", "remux", "error"}
    BY DEF BuildOutputs
  <2> QED
    BY <2>1, <2>2, SelectionsAssumption
<1>2. TypeOK
  <2>1. opened \in 0 .. Len(jobs)
    BY <1>1
  <2>2. ffmpeg \in {"none", "running"}
    OBVIOUS
  <2>3. jpc \in [Jobs -> {"next"}] /\ paceStart \in [Jobs -> Int]
    OBVIOUS
  <2>4. written \in [Jobs -> Nat] /\ pipe \in [Jobs -> Nat] /\ read \in [Jobs -> Nat]
    OBVIOUS
  <2> HIDE DEF Jobs
  <2> QED
    BY <1>1, <2>1, <2>2, <2>3, <2>4 DEF TypeOK, Over
<1>3. PaceInv
  <2> SUFFICES ASSUME NEW j \in Jobs PROVE PaceOf(j)
    BY DEF PaceInv
  <2>1. Timed(jobs[j], written[j]) = 0
    <3>1. written[j] = 0
      OBVIOUS
    <3> QED
      BY <3>1, TimedOn
  <2> QED
    BY <2>1 DEF PaceOf
<1>4. JobInv /\ PipeInv /\ CloseInv /\ ExitInv
  BY <1>1 DEF JobInv, JobOf, PipeInv, PipeOf, CloseInv, ExitInv
<1> QED
  BY <1>2, <1>3, <1>4 DEF IInv

LEMMA TakenTakes ==
  ASSUME TypeOK, NEW j \in Jobs, Taken(j)
  PROVE  Takes(j)
<1> USE RestreamAssumption DEF TypeOK, Jobs, Takes
<1> DEFINE p == IF paceStart[j] = -1 THEN clock ELSE paceStart[j]
<1> DEFINE held == /\ Paced /\ written[j] + 1 \notin jobs[j].untimed
                   /\ Timed(jobs[j], written[j] + 1) > Prime
<1>0. Timed(jobs[j], written[j] + 1) \in Nat
  BY TimedOn
<1>1. CASE held
  <2>1. p \in Int /\ paceStart' = [paceStart EXCEPT ![j] = p]
    BY <1>1 DEF Taken
  <2>2. p = clock \/ (p = paceStart[j] /\ paceStart[j] # -1)
    <3>1. CASE paceStart[j] = -1
      BY <3>1
    <3>2. CASE paceStart[j] # -1
      BY <3>2
    <3> QED
      BY <3>1, <3>2
  <2> HIDE DEF p
  <2>3. jpc' = [jpc EXCEPT ![j] = "pace"] /\ written' = [written EXCEPT ![j] = written[j] + 1]
    BY <1>1 DEF Taken
  <2> QED
    BY <1>1, <2>1, <2>2, <2>3
<1>2. CASE ~held
  <2>1. jpc' = [jpc EXCEPT ![j] = "next"] /\ written' = [written EXCEPT ![j] = written[j] + 1]
        /\ paceStart' = paceStart
    BY <1>2 DEF Taken
  <2> QED
    BY <1>0, <1>2, <2>1
<1> QED
  BY <1>1, <1>2

(* Every step keeps the types.                                             *)
LEMMA TypeStep == TypeOK /\ [Next]_vars => TypeOK'
<1> SUFFICES ASSUME TypeOK, [Next]_vars PROVE TypeOK'
  OBVIOUS
<1> USE RestreamAssumption DEF TypeOK, Over, choice, group, remux, server, Jobs
<1>1. ASSUME NEW j \in Jobs, Fetched(j) PROVE TypeOK'
  BY <1>1 DEF Fetched
<1>2. ASSUME NEW j \in Jobs, StreamEnds(j) PROVE TypeOK'
  BY <1>2 DEF StreamEnds
<1>3. ASSUME NEW j \in Jobs, Fail(j) PROVE TypeOK'
  BY <1>3 DEF Fail
<1>4. ASSUME NEW j \in Jobs, WriteSink(j) PROVE TypeOK'
  <2>1. Takes(j)
    BY <1>4, TakenTakes DEF WriteSink
  <2> QED
    BY <1>4, <2>1 DEF WriteSink, Takes
<1>5. ASSUME NEW j \in Jobs, WritePipe(j) PROVE TypeOK'
  <2>1. Takes(j)
    BY <1>5, TakenTakes DEF WritePipe
  <2> QED
    BY <1>5, <2>1 DEF WritePipe, Takes
<1>6. ASSUME NEW j \in Jobs, PipeBroken(j) PROVE TypeOK'
  BY <1>6 DEF PipeBroken
<1>7. ASSUME NEW j \in Jobs, PaceOver(j) PROVE TypeOK'
  BY <1>7 DEF PaceOver
<1>8. ASSUME NEW j \in Jobs, ReadInput(j) PROVE TypeOK'
  BY <1>8 DEF ReadInput
<1>9. CASE OpenInput
  <2>1. opened' = opened + 1 /\ opened' \in Jobs /\ opened' \in 0 .. Len(jobs)
    BY <1>9 DEF OpenInput
  <2>2. pipe[opened'] > 0 /\ pipe' = [pipe EXCEPT ![opened'] = pipe[opened'] - 1]
    BY <1>9, <2>1 DEF OpenInput
  <2>3. read' = [read EXCEPT ![opened'] = read[opened'] + 1]
    BY <1>9, <2>1 DEF OpenInput
  <2>4. UNCHANGED <<choice, clock, group, closed, ffmpeg, server>>
    BY <1>9 DEF OpenInput
  <2> QED
    BY <2>1, <2>2, <2>3, <2>4
<1>10. CASE FFmpegExits
  <2>1. ffmpeg' = "exited"
        /\ UNCHANGED <<choice, clock, group, pipe, closed, read, opened, server>>
    BY <1>10 DEF FFmpegExits
  <2> QED
    BY <2>1
<1>11. CASE FFmpegCrashes
  BY <1>11 DEF FFmpegCrashes
<1>12. CASE PumpEnds
  BY <1>12 DEF PumpEnds
<1>13. CASE Interrupt
  BY <1>13 DEF Interrupt
<1>14. CASE WatcherEnds
  BY <1>14 DEF WatcherEnds, End
<1>15. CASE JobsDone
  BY <1>15 DEF JobsDone
<1>16. CASE MainEnds
  BY <1>16 DEF MainEnds, End
<1>17. CASE Shutdown
  BY <1>17 DEF Shutdown
<1>18. CASE Elapse
  BY <1>18 DEF Elapse
<1>19. CASE UNCHANGED vars
  BY <1>19 DEF vars
<1>20. QED
  BY <1>1, <1>2, <1>3, <1>4, <1>5, <1>6, <1>7, <1>8, <1>9, <1>10, <1>11,
     <1>12, <1>13, <1>14, <1>15, <1>16, <1>17, <1>18, <1>19 DEF Next, JobStep, ServeStep

(* A segment taken waits, or is no more than the prime burst, or lasts     *)
(* nothing.                                                                *)
LEMMA TakenKeepsPace ==
  ASSUME TypeOK, Paced, NEW j \in Jobs, PaceOf(j), Takes(j), jpc[j] = "write",
         UNCHANGED <<jobs, clock>>
  PROVE  PaceOf(j)'
<1> DEFINE a == Timed(jobs[j], written[j])
<1> DEFINE b == Timed(jobs[j], written[j] + 1)
<1>1. written[j] \in Nat
  BY DEF TypeOK
<1>2. /\ a \in Nat /\ b \in Nat
      /\ b = IF written[j] + 1 \in jobs[j].untimed THEN a ELSE a + 1
  BY <1>1, TimedOn
<1>3. Timed(jobs[j], written[j])' = b
  BY DEF Takes
<1>4. a <= Prime + clock
  BY DEF PaceOf
<1> HIDE DEF a, b
<1>5. /\ clock \in Nat /\ Prime \in Nat /\ b <= Prime + 1 + clock
      /\ paceStart[j] \in Int /\ paceStart[j] >= -1 /\ paceStart[j] <= clock
  BY <1>2, <1>4, RestreamAssumption DEF PaceOf, TypeOK
<1>6. CASE jpc'[j] = "pace" /\ (paceStart'[j] = clock \/ (paceStart'[j] = paceStart[j] /\ paceStart[j] # -1))
  BY <1>3, <1>5, <1>6 DEF PaceOf
<1>7. CASE /\ written[j] + 1 \in jobs[j].untimed \/ b <= Prime
           /\ jpc'[j] = "next" /\ paceStart'[j] = paceStart[j]
  <2>1. b <= Prime + clock
    BY <1>2, <1>4, <1>5, <1>7
  <2> QED
    BY <1>3, <1>5, <1>7, <2>1 DEF PaceOf
<1> QED
  BY <1>6, <1>7 DEF Takes, b

(* Every step keeps the pace.                                              *)
LEMMA PaceStep == TypeOK /\ PaceInv /\ [Next]_vars => PaceInv'
<1> SUFFICES ASSUME TypeOK /\ PaceInv, [Next]_vars PROVE PaceInv'
  OBVIOUS
<1> USE RestreamAssumption DEF TypeOK, PaceInv, PaceOf, Paced, choice, group, remux, server, Jobs
<1>0. \A k \in Jobs : LET now == Timed(jobs[k], written[k])
                          on  == Timed(jobs[k], written[k] + 1)
                      IN now \in Nat /\ on = IF written[k] + 1 \in jobs[k].untimed THEN now ELSE now + 1
  BY TimedOn
<1>1. ASSUME NEW j \in Jobs, Fetched(j) PROVE PaceInv'
  BY <1>1 DEF Fetched
<1>2. ASSUME NEW j \in Jobs, StreamEnds(j) PROVE PaceInv'
  BY <1>2 DEF StreamEnds
<1>3. ASSUME NEW j \in Jobs, Fail(j) PROVE PaceInv'
  BY <1>3 DEF Fail
<1>4. ASSUME NEW j \in Jobs, WriteSink(j) PROVE PaceInv'
  <2>1. Takes(j)
    BY <1>4, TakenTakes DEF WriteSink
  <2>2. ASSUME NEW k \in Jobs, Paced PROVE PaceOf(k)'
    <3>1. CASE k = j
      BY <1>4, <2>1, <2>2, <3>1, TakenKeepsPace DEF WriteSink
    <3>2. CASE k # j
      BY <1>4, <2>1, <2>2, <3>2 DEF WriteSink, Takes
    <3> QED
      BY <3>1, <3>2
  <2> QED
    BY <1>4, <2>2 DEF WriteSink
<1>5. ASSUME NEW j \in Jobs, WritePipe(j) PROVE PaceInv'
  <2>1. Takes(j)
    BY <1>5, TakenTakes DEF WritePipe
  <2>2. ASSUME NEW k \in Jobs, Paced PROVE PaceOf(k)'
    <3>1. CASE k = j
      BY <1>5, <2>1, <2>2, <3>1, TakenKeepsPace DEF WritePipe
    <3>2. CASE k # j
      BY <1>5, <2>1, <2>2, <3>2 DEF WritePipe, Takes
    <3> QED
      BY <3>1, <3>2
  <2> QED
    BY <1>5, <2>2 DEF WritePipe
<1>6. ASSUME NEW j \in Jobs, PipeBroken(j) PROVE PaceInv'
  BY <1>6 DEF PipeBroken
<1>7. ASSUME NEW j \in Jobs, PaceOver(j) PROVE PaceInv'
  BY <1>0, <1>7 DEF PaceOver
<1>8. ASSUME NEW j \in Jobs, ReadInput(j) PROVE PaceInv'
  BY <1>8 DEF ReadInput
<1>9. CASE OpenInput
  BY <1>9 DEF OpenInput
<1>10. CASE FFmpegExits
  BY <1>10 DEF FFmpegExits
<1>11. CASE FFmpegCrashes
  BY <1>11 DEF FFmpegCrashes
<1>12. CASE PumpEnds
  BY <1>12 DEF PumpEnds
<1>13. CASE Interrupt
  BY <1>13 DEF Interrupt
<1>14. CASE WatcherEnds
  BY <1>14 DEF WatcherEnds, End
<1>15. CASE JobsDone
  BY <1>15 DEF JobsDone
<1>16. CASE MainEnds
  BY <1>16 DEF MainEnds, End
<1>17. CASE Shutdown
  BY <1>17 DEF Shutdown
<1>18. CASE Elapse
  BY <1>0, <1>18 DEF Elapse
<1>19. CASE UNCHANGED vars
  BY <1>19 DEF vars
<1>20. QED
  BY <1>1, <1>2, <1>3, <1>4, <1>5, <1>6, <1>7, <1>8, <1>9, <1>10, <1>11,
     <1>12, <1>13, <1>14, <1>15, <1>16, <1>17, <1>18, <1>19 DEF Next, JobStep, ServeStep

(* Every step keeps what a job wrote.                                      *)
LEMMA JobInvStep == TypeOK /\ JobInv /\ [Next]_vars => JobInv'
<1> SUFFICES ASSUME TypeOK /\ JobInv, [Next]_vars PROVE JobInv'
  OBVIOUS
<1> USE RestreamAssumption DEF TypeOK, JobInv, JobOf, choice, group, remux, server, Jobs
<1>1. ASSUME NEW j \in Jobs, Fetched(j) PROVE JobInv'
  BY <1>1 DEF Fetched
<1>2. ASSUME NEW j \in Jobs, StreamEnds(j) PROVE JobInv'
  BY <1>2 DEF StreamEnds
<1>3. ASSUME NEW j \in Jobs, Fail(j) PROVE JobInv'
  BY <1>3 DEF Fail
<1>4. ASSUME NEW j \in Jobs, WriteSink(j) PROVE JobInv'
  <2>1. Takes(j)
    BY <1>4, TakenTakes DEF WriteSink
  <2>2. ASSUME NEW k \in Jobs PROVE JobOf(k)'
    <3>1. CASE k = j
      BY <1>4, <2>1, <2>2, <3>1 DEF WriteSink, Takes
    <3>2. CASE k # j
      BY <1>4, <2>1, <2>2, <3>2 DEF WriteSink, Takes
    <3> QED
      BY <3>1, <3>2
  <2> QED
    BY <1>4, <2>2 DEF WriteSink
<1>5. ASSUME NEW j \in Jobs, WritePipe(j) PROVE JobInv'
  <2>1. Takes(j)
    BY <1>5, TakenTakes DEF WritePipe
  <2>2. ASSUME NEW k \in Jobs PROVE JobOf(k)'
    <3>1. CASE k = j
      BY <1>5, <2>1, <2>2, <3>1 DEF WritePipe, Takes
    <3>2. CASE k # j
      BY <1>5, <2>1, <2>2, <3>2 DEF WritePipe, Takes
    <3> QED
      BY <3>1, <3>2
  <2> QED
    BY <1>5, <2>2 DEF WritePipe
<1>6. ASSUME NEW j \in Jobs, PipeBroken(j) PROVE JobInv'
  BY <1>6 DEF PipeBroken
<1>7. ASSUME NEW j \in Jobs, PaceOver(j) PROVE JobInv'
  BY <1>7 DEF PaceOver
<1>8. ASSUME NEW j \in Jobs, ReadInput(j) PROVE JobInv'
  BY <1>8 DEF ReadInput
<1>9. CASE OpenInput
  BY <1>9 DEF OpenInput
<1>10. CASE FFmpegExits
  BY <1>10 DEF FFmpegExits
<1>11. CASE FFmpegCrashes
  BY <1>11 DEF FFmpegCrashes
<1>12. CASE PumpEnds
  BY <1>12 DEF PumpEnds
<1>13. CASE Interrupt
  BY <1>13 DEF Interrupt
<1>14. CASE WatcherEnds
  BY <1>14 DEF WatcherEnds, End
<1>15. CASE JobsDone
  BY <1>15 DEF JobsDone
<1>16. CASE MainEnds
  BY <1>16 DEF MainEnds, End
<1>17. CASE Shutdown
  BY <1>17 DEF Shutdown
<1>18. CASE Elapse
  BY <1>18 DEF Elapse
<1>19. CASE UNCHANGED vars
  BY <1>19 DEF vars
<1>20. QED
  BY <1>1, <1>2, <1>3, <1>4, <1>5, <1>6, <1>7, <1>8, <1>9, <1>10, <1>11,
     <1>12, <1>13, <1>14, <1>15, <1>16, <1>17, <1>18, <1>19 DEF Next, JobStep, ServeStep

(* Every step keeps the bytes of the pipes.                                *)
LEMMA PipeStep == TypeOK /\ PipeInv /\ [Next]_vars => PipeInv'
<1> SUFFICES ASSUME TypeOK /\ PipeInv, [Next]_vars PROVE PipeInv'
  OBVIOUS
<1> USE RestreamAssumption DEF TypeOK, PipeInv, PipeOf, choice, group, remux, server, Jobs
<1>1. ASSUME NEW j \in Jobs, Fetched(j) PROVE PipeInv'
  BY <1>1 DEF Fetched
<1>2. ASSUME NEW j \in Jobs, StreamEnds(j) PROVE PipeInv'
  BY <1>2 DEF StreamEnds
<1>3. ASSUME NEW j \in Jobs, Fail(j) PROVE PipeInv'
  BY <1>3 DEF Fail
<1>4. ASSUME NEW j \in Jobs, WriteSink(j) PROVE PipeInv'
  <2>1. Takes(j)
    BY <1>4, TakenTakes DEF WriteSink
  <2> QED
    BY <1>4, <2>1 DEF WriteSink, Takes
<1>5. ASSUME NEW j \in Jobs, WritePipe(j) PROVE PipeInv'
  <2>1. Takes(j)
    BY <1>5, TakenTakes DEF WritePipe
  <2>2. ASSUME NEW k \in Jobs, mode = "remux" PROVE PipeOf(k)'
    <3>1. CASE k = j
      BY <1>5, <2>1, <2>2, <3>1 DEF WritePipe, Takes
    <3>2. CASE k # j
      BY <1>5, <2>1, <2>2, <3>2 DEF WritePipe, Takes
    <3> QED
      BY <3>1, <3>2
  <2> QED
    BY <1>5, <2>2 DEF WritePipe
<1>6. ASSUME NEW j \in Jobs, PipeBroken(j) PROVE PipeInv'
  BY <1>6 DEF PipeBroken
<1>7. ASSUME NEW j \in Jobs, PaceOver(j) PROVE PipeInv'
  BY <1>7 DEF PaceOver
<1>8. ASSUME NEW j \in Jobs, ReadInput(j) PROVE PipeInv'
  <2>1. ffmpeg = "running" /\ opened = Len(jobs) /\ pipe[j] > 0
        /\ pipe' = [pipe EXCEPT ![j] = pipe[j] - 1] /\ read' = [read EXCEPT ![j] = read[j] + 1]
    BY <1>8 DEF ReadInput
  <2>2. UNCHANGED <<choice, clock, group, closed, opened, ffmpeg, server>>
    BY <1>8 DEF ReadInput
  <2> QED
    BY <2>1, <2>2
<1>9. CASE OpenInput
  BY <1>9 DEF OpenInput
<1>10. CASE FFmpegExits
  BY <1>10 DEF FFmpegExits
<1>11. CASE FFmpegCrashes
  BY <1>11 DEF FFmpegCrashes
<1>12. CASE PumpEnds
  BY <1>12 DEF PumpEnds
<1>13. CASE Interrupt
  BY <1>13 DEF Interrupt
<1>14. CASE WatcherEnds
  BY <1>14 DEF WatcherEnds, End
<1>15. CASE JobsDone
  BY <1>15 DEF JobsDone
<1>16. CASE MainEnds
  BY <1>16 DEF MainEnds, End
<1>17. CASE Shutdown
  BY <1>17 DEF Shutdown
<1>18. CASE Elapse
  BY <1>18 DEF Elapse
<1>19. CASE UNCHANGED vars
  BY <1>19 DEF vars
<1>20. QED
  BY <1>1, <1>2, <1>3, <1>4, <1>5, <1>6, <1>7, <1>8, <1>9, <1>10, <1>11,
     <1>12, <1>13, <1>14, <1>15, <1>16, <1>17, <1>18, <1>19 DEF Next, JobStep, ServeStep

(* Every step keeps who closed the pipes.                                  *)
LEMMA CloseStep == TypeOK /\ CloseInv /\ [Next]_vars => CloseInv'
<1> SUFFICES ASSUME TypeOK /\ CloseInv, [Next]_vars PROVE CloseInv'
  OBVIOUS
<1> USE RestreamAssumption DEF TypeOK, CloseInv, Over, choice, group, remux, server, Jobs
<1>1. ASSUME NEW j \in Jobs, Fetched(j) PROVE CloseInv'
  BY <1>1 DEF Fetched
<1>2. ASSUME NEW j \in Jobs, StreamEnds(j) PROVE CloseInv'
  BY <1>2 DEF StreamEnds
<1>3. ASSUME NEW j \in Jobs, Fail(j) PROVE CloseInv'
  BY <1>3 DEF Fail
<1>4. ASSUME NEW j \in Jobs, WriteSink(j) PROVE CloseInv'
  <2>1. Takes(j)
    BY <1>4, TakenTakes DEF WriteSink
  <2> QED
    BY <1>4, <2>1 DEF WriteSink, Takes
<1>5. ASSUME NEW j \in Jobs, WritePipe(j) PROVE CloseInv'
  <2>1. Takes(j)
    BY <1>5, TakenTakes DEF WritePipe
  <2> QED
    BY <1>5, <2>1 DEF WritePipe, Takes
<1>6. ASSUME NEW j \in Jobs, PipeBroken(j) PROVE CloseInv'
  BY <1>6 DEF PipeBroken
<1>7. ASSUME NEW j \in Jobs, PaceOver(j) PROVE CloseInv'
  BY <1>7 DEF PaceOver
<1>8. ASSUME NEW j \in Jobs, ReadInput(j) PROVE CloseInv'
  BY <1>8 DEF ReadInput
<1>9. CASE OpenInput
  BY <1>9 DEF OpenInput
<1>10. CASE FFmpegExits
  BY <1>10 DEF FFmpegExits
<1>11. CASE FFmpegCrashes
  BY <1>11 DEF FFmpegCrashes
<1>12. CASE PumpEnds
  BY <1>12 DEF PumpEnds
<1>13. CASE Interrupt
  BY <1>13 DEF Interrupt
<1>14. CASE WatcherEnds
  BY <1>14 DEF WatcherEnds, End
<1>15. CASE JobsDone
  BY <1>15 DEF JobsDone
<1>16. CASE MainEnds
  BY <1>16 DEF MainEnds, End
<1>17. CASE Shutdown
  BY <1>17 DEF Shutdown
<1>18. CASE Elapse
  BY <1>18 DEF Elapse
<1>19. CASE UNCHANGED vars
  BY <1>19 DEF vars
<1>20. QED
  BY <1>1, <1>2, <1>3, <1>4, <1>5, <1>6, <1>7, <1>8, <1>9, <1>10, <1>11,
     <1>12, <1>13, <1>14, <1>15, <1>16, <1>17, <1>18, <1>19 DEF Next, JobStep, ServeStep

(* FFmpeg exits by itself at the end of inputs that are whole.             *)
LEMMA ExitReads ==
  ASSUME TypeOK, JobInv, PipeInv, CloseInv, FFmpegExits, ~ctx, ~err, finite
  PROVE  \A j \in Jobs : read[j] = Units
<1> USE RestreamAssumption DEF TypeOK, Jobs
<1>1. mode = "remux" /\ \A j \in Jobs : PipeOf(j)
  BY DEF FFmpegExits, PipeInv
<1>2. ASSUME closed PROVE \A j \in Jobs : written[j] = Units
  BY <1>2 DEF CloseInv, JobInv, JobOf, Over
<1>3. CASE opened = Len(jobs)
  BY <1>1, <1>2, <1>3 DEF FFmpegExits, AtEOF, PipeOf
<1>4. CASE opened # Len(jobs)
  <2>1. opened + 1 \in Jobs /\ opened + 1 > opened
    <3>1. \A n \in Nat : \A k \in 0 .. n : k # n => k + 1 \in 1 .. n /\ k + 1 > k
      OBVIOUS
    <3> QED
      BY <1>4, <3>1
  <2>2. AtEOF(opened + 1)
    BY <1>4 DEF FFmpegExits
  <2>3. written[opened + 1] = 0
    BY <1>1, <2>1, <2>2 DEF PipeOf, AtEOF
  <2> QED
    BY <1>2, <2>1, <2>2, <2>3 DEF AtEOF
<1> QED
  BY <1>3, <1>4

(* Every step keeps what an exit of FFmpeg means.                          *)
LEMMA ExitStep == IInv /\ [Next]_vars => ExitInv'
<1> SUFFICES ASSUME IInv, [Next]_vars PROVE ExitInv'
  OBVIOUS
<1> USE DEF IInv, ExitInv, choice, group, remux, server, Jobs
<1>1. CASE JobMoves
  <2>1. PICK j \in Jobs : JobStep(j)
    BY <1>1 DEF JobMoves
  <2>2. UNCHANGED <<jobs, finite, ffmpeg, ctx>> /\ (err => err')
    BY <2>1 DEF JobStep, Fetched, StreamEnds, Fail, WriteSink, WritePipe,
     PipeBroken, PaceOver
  <2>3. UNCHANGED read
    BY <2>1 DEF JobStep, Fetched, StreamEnds, Fail, WriteSink, WritePipe,
     PipeBroken, PaceOver
  <2> QED
    BY <2>2, <2>3
<1>2. CASE FFmpegExits
  <2>1. UNCHANGED <<ctx, err, finite, jobs, read>>
    BY <1>2 DEF FFmpegExits
  <2> QED
    BY <1>2, <2>1, ExitReads
<1>3. CASE RemuxMoves /\ ~FFmpegExits
  BY <1>3 DEF RemuxMoves, OpenInput, ReadInput, FFmpegCrashes
<1>4. CASE ServerMoves
  BY <1>4 DEF ServerMoves, ServeStep, PumpEnds, Interrupt, WatcherEnds,
     JobsDone, MainEnds,
              Shutdown, Elapse
<1>5. CASE UNCHANGED vars
  BY <1>5 DEF vars
<1> QED
  BY <1>1, <1>2, <1>3, <1>4, <1>5 DEF Next, JobMoves, RemuxMoves, ServerMoves

(* The inductive invariant of the run.                                     *)
THEOREM RestreamInvariance == Spec => []IInv
<1>1. IInv /\ [Next]_vars => IInv'
  BY TypeStep, PaceStep, JobInvStep, PipeStep, CloseStep, ExitStep DEF IInv
<1> QED
  BY InitHolds, <1>1, PTL DEF Spec

(* serve never hands FFmpeg or a broadcast more timed segments of a finite *)
(* source than the prime burst, the segment in hand and the clock allow,   *)
(* whatever its downloads do (engine.go, the pace of DownloadStream's      *)
(* writer).                                                                *)
THEOREM NeverAheadOfClock == Spec => []PacedToClock
<1>1. IInv => PacedToClock
  BY DEF IInv, PaceInv, PaceOf, PacedToClock
<1> QED
  BY <1>1, RestreamInvariance, PTL

(* A finite source that is neither interrupted nor in error has been read  *)
(* whole when FFmpeg exits, whatever the number of its tracks, the size of *)
(* the pipes and the order FFmpeg opens them in (remux.go, serve.go).      *)
THEOREM CompleteIsRead == Spec => []CompleteIsBroadcast
<1>1. IInv => CompleteIsBroadcast
  BY DEF IInv, ExitInv, CompleteIsBroadcast
<1> QED
  BY <1>1, RestreamInvariance, PTL
================================================================================
