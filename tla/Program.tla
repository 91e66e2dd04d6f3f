-------------------------------- MODULE Program --------------------------------
(***************************************************************************)
(* The command: run in main.go looks at the flags and the URLs and becomes *)
(* a job server, a channel worker or the download of titles.  The modes    *)
(* share no state; each is a module of its own.                            *)
(***************************************************************************)
EXTENDS Integers, Sequences, FiniteSets

CONSTANTS
  Entries, Par, RetryPick, MaxRuns,              \* see Titles
  Requests, Ids, Remux, MaxChannels, MaxCrashes, \* see ChannelWorker
  Jobs, MaxJobs, MaxRetain, Retain, MaxClock     \* see JobServer

ASSUME TitlesAssumption ==
  /\ Par \in Nat \ {0} /\ MaxRuns \in Nat \ {0}
  /\ Len(Entries) \in Nat /\ DOMAIN Entries = 1 .. Len(Entries)
ASSUME WorkerAssumption ==
  Remux \subseteq Requests /\ "none" \notin Requests /\ MaxChannels \in Nat
ASSUME JobsAssumption ==
  /\ IsFiniteSet(Jobs) /\ Jobs = 1 .. Cardinality(Jobs)
  /\ {MaxJobs, MaxRetain, Retain} \subseteq Nat /\ MaxClock \in Nat \ {0}

VARIABLES
  mode,                                                     \* rpc | worker | titles | usage
  picked, next, stage, path, subtitle, disk, raw, stopped, signals, runs,
  id, pc, table, handed, canceled, presEnded, outcome, spool, worker, crashes,
  child, waiter, state, ended, jobs, running, nextID, snapshot, server, clock

T == INSTANCE Titles WITH canceled <- stopped
W == INSTANCE ChannelWorker WITH ended <- presEnded, server <- worker
J == INSTANCE JobServer

titlesVars == <<picked, next, stage, path, subtitle, disk, raw, stopped, signals, runs>>
workerVars == <<id, pc, table, handed, canceled, presEnded, outcome, spool, worker, crashes>>
jobsVars   == <<child, waiter, state, ended, jobs, running, nextID, snapshot, server, clock>>
vars == <<mode, titlesVars, workerVars, jobsVars>>

(* run: -rpc and -worker take no URL, and -rpc goes first; anything else   *)
(* takes exactly one.                                                      *)
ModeOf(flags, urls) ==
  IF "rpc" \in flags THEN IF urls = 0 THEN "rpc" ELSE "usage"
  ELSE IF "worker" \in flags THEN IF urls = 0 THEN "worker" ELSE "usage"
  ELSE IF urls = 1 THEN "titles" ELSE "usage"

(* Nobody asks a worker that does not run for a channel: the ids of its    *)
(* requests do not matter.                                                 *)
Init ==
  /\ \E flags \in SUBSET {"rpc", "worker"}, urls \in 0 .. 2 : mode = ModeOf(flags, urls)
  /\ T!Init /\ W!Init /\ J!Init
  /\ mode # "worker" => \A r \in Requests : id[r] = CHOOSE i \in Ids : TRUE

TitlesNext    == mode = "titles" /\ T!Next /\ UNCHANGED <<mode, workerVars, jobsVars>>
WorkerNext    == mode = "worker" /\ W!Next /\ UNCHANGED <<mode, titlesVars, jobsVars>>
RPCNext       == mode = "rpc" /\ J!Next /\ UNCHANGED <<mode, titlesVars, workerVars>>

Next == TitlesNext \/ WorkerNext \/ RPCNext

Spec == Init /\ [][Next]_vars
FairSpec ==
  /\ Spec
  /\ mode = "titles" => T!Fairness
  /\ mode = "worker" => W!Fairness

--------------------------------------------------------------------------------
(* The properties of the modules, of the program in any of its modes.      *)

(* See Titles: what is reported is on disk under a path of its own, and    *)
(* the tracks of an output that is cut, or the subtitle that is not in it, *)
(* can still be read from their raw files.                                 *)
TitlesKept == T!ReportedIsOnDisk /\ T!SubtitleRecoverable /\ T!CutMuxKeepsRaw

(* See ChannelWorker: no channel and no staged directory is without an     *)
(* owner, however starts, stops and deaths of the process interleave.      *)
ChannelsOwned == W!NoChannelLost /\ W!SpoolOwned

(* See Titles and ChannelWorker: a run of titles gives every slot back and *)
(* ends, and a stopped channel gives its disk back.                        *)
EveryModeSettles ==
  /\ mode = "titles" => T!RunsEnd
  /\ mode = "worker" => W!StoppedReclaimed

(* See JobServer: the cap counts processes.                                *)
CapCountsChildren == J!CapCountsChildren

(* See JobServer: the reaper drops finished jobs, the oldest first.        *)
ReapsOldestFinished == J!ReapsOldestFinished
================================================================================
