----------------------------- MODULE ChannelWorker -----------------------------
(***************************************************************************)
(* The channel server (-worker): internal/worker/worker.go.                *)
(*                                                                         *)
(* A POST to /api/channels is one request r: it checks the table under a   *)
(* read lock, loads the source without a lock, stages a directory, builds  *)
(* the output (an FFmpeg for a muxed format) and only then registers       *)
(* under the write lock, where the table may have changed.  Every request  *)
(* builds at most one channel, so r also names that channel.  The          *)
(* downloads of a channel are one step from running to over; what a        *)
(* restream does in between is in Restream.                                *)
(***************************************************************************)
EXTENDS Naturals, FiniteSets

CONSTANTS
  Requests,     \* requests to start a channel, over the life of the process
  Ids,          \* channel ids
  Remux,        \* the requests for a format muxed by FFmpeg
  MaxChannels,  \* -worker-max, 0: unlimited
  MaxCrashes    \* bound of the model: how often the process dies

NoChannel == "none"

VARIABLES
  id,        \* id[r]: the channel id a request asks for
  pc,        \* where the goroutine of a request or of its channel is
  table,     \* w.channels: id -> channel
  handed,    \* taken out of the table, not canceled yet
  canceled,  \* channels whose context is canceled
  ended,     \* channels whose presentation has ended
  outcome,   \* ch.state of a channel
  spool,     \* channels whose staging directory is on disk
  server,    \* up | stopping | exited
  crashes

vars == <<id, pc, table, handed, canceled, ended, outcome, spool, server, crashes>>

Places == {"absent", "loading", "built", "running", "over", "gone", "refused"}

Init ==
  /\ id \in [Requests -> Ids]
  /\ pc = [r \in Requests |-> "absent"]
  /\ table = [i \in Ids |-> NoChannel]
  /\ handed = {} /\ canceled = {} /\ ended = {} /\ spool = {}
  /\ outcome = [r \in Requests |-> "none"]
  /\ server = "up"
  /\ crashes = 0

Alive == server # "exited"
Registered == {i \in Ids : table[i] # NoChannel}
Exists(r) == table[id[r]] # NoChannel
AtCap == MaxChannels > 0 /\ Cardinality(Registered) >= MaxChannels
Goto(r, place) == pc' = [pc EXCEPT ![r] = place]

--------------------------------------------------------------------------------
(* Starting a channel.                                                     *)

(* apiStart: the table is looked at under the read lock.                   *)
Ask(r) ==
  /\ Alive /\ pc[r] = "absent"
  /\ Goto(r, IF Exists(r) \/ AtCap THEN "refused" ELSE "loading")
  /\ UNCHANGED <<id, table, handed, canceled, ended, outcome, spool, server, crashes>>

(* startChannel up to the staging directory: keys, manifest and selection  *)
(* may each be refused.  BuildOutputs may fail after it: the directory is  *)
(* removed again.                                                          *)
Load(r) ==
  /\ Alive /\ pc[r] = "loading"
  /\ \/ /\ Goto(r, "built") /\ spool' = spool \cup {r}
        /\ UNCHANGED canceled
     \/ /\ Goto(r, "refused") /\ canceled' = canceled \cup {r}
        /\ UNCHANGED spool
  /\ UNCHANGED <<id, table, handed, ended, outcome, server, crashes>>

\* Mutant: the registration trusts the look before the manifest loaded.
TakenChecked(r) == FALSE

(* The registration, guarded against a racing start of the same id and a   *)
(* full table.                                                             *)
Taken(r) == Exists(r) \/ AtCap

Register(r) ==
  /\ Alive /\ pc[r] = "built"
  /\ IF Taken(r)
       THEN /\ Goto(r, "refused")
            /\ canceled' = canceled \cup {r}
            /\ spool' = spool \ {r}
            /\ UNCHANGED <<table, outcome>>
       ELSE /\ Goto(r, "running")
            /\ table' = [table EXCEPT ![id[r]] = r]
            /\ outcome' = [outcome EXCEPT ![r] = "running"]
            /\ UNCHANGED <<canceled, spool>>
  /\ UNCHANGED <<id, handed, ended, server, crashes>>

--------------------------------------------------------------------------------
(* runChannel.                                                             *)

\* Mutant: the presentation is ended only after the downloads.
EndAfterJobs(r) ==
  /\ Alive /\ pc[r] \in {"over", "gone"} /\ r \in canceled \ ended
  /\ ended' = ended \cup {r}
  /\ UNCHANGED <<id, pc, table, handed, canceled, outcome, spool, server, crashes>>

(* The goroutine that waits for the cancel and ends the presentation.      *)
EndOnCancel(r) ==
  /\ Alive /\ pc[r] \in {"running", "over", "gone"} /\ r \in canceled \ ended
  /\ ended' = ended \cup {r}
  /\ UNCHANGED <<id, pc, table, handed, canceled, outcome, spool, server, crashes>>

(* RunJobs returns: the source ended, a track failed, or the channel was   *)
(* canceled.  The writer of a muxed channel may be blocked on the pipe of  *)
(* an FFmpeg nobody reads: only the end of the presentation frees it.      *)
JobsReturn(r) == r \in canceled => (r \in Remux => r \in ended)

JobsOver(r) ==
  /\ Alive /\ pc[r] = "running" /\ JobsReturn(r)
  /\ Goto(r, "over")
  /\ ended' = ended \cup {r}
  /\ outcome' = [outcome EXCEPT ![r] = IF r \in canceled THEN "stopped" ELSE "done"]
  /\ UNCHANGED <<id, table, handed, canceled, spool, server, crashes>>

JobsFail(r) ==
  /\ Alive /\ pc[r] = "running" /\ r \notin canceled
  /\ Goto(r, "over")
  /\ ended' = ended \cup {r}
  /\ outcome' = [outcome EXCEPT ![r] = "error"]
  /\ UNCHANGED <<id, table, handed, canceled, spool, server, crashes>>

(* A finished channel is still served from its directory, which goes only  *)
(* with the channel: <-ctx.Done(), then RemoveAll.                         *)
MayRemove(r) == r \in canceled

RemoveSpool(r) ==
  /\ Alive /\ pc[r] = "over" /\ MayRemove(r)
  /\ Goto(r, "gone")
  /\ spool' = spool \ {r}
  /\ UNCHANGED <<id, table, handed, canceled, ended, outcome, server, crashes>>

--------------------------------------------------------------------------------
(* Stopping a channel, the server, the process.                            *)

(* apiStop: out of the table under the lock, canceled after it.            *)
Stop(i) ==
  /\ Alive /\ table[i] # NoChannel
  /\ handed' = handed \cup {table[i]}
  /\ table' = [table EXCEPT ![i] = NoChannel]
  /\ UNCHANGED <<id, pc, canceled, ended, outcome, spool, server, crashes>>

CancelHanded(r) ==
  /\ Alive /\ r \in handed
  /\ handed' = handed \ {r}
  /\ canceled' = canceled \cup {r}
  /\ UNCHANGED <<id, pc, table, ended, outcome, spool, server, crashes>>

(* stopAll on a signal: the table is swapped for an empty one.             *)
StopAll ==
  /\ server = "up"
  /\ handed' = handed \cup {table[i] : i \in Registered}
  /\ table' = [i \in Ids |-> NoChannel]
  /\ server' = "stopping"
  /\ UNCHANGED <<id, pc, canceled, ended, outcome, spool, crashes>>

(* srv.Shutdown makes ListenAndServe return and the process exits without  *)
(* a wait for the channels; a kill does so at any moment.  Its goroutines  *)
(* end with it, the directories stay.                                      *)
Exit ==
  /\ \/ server = "stopping" /\ handed = {} /\ crashes' = crashes
     \/ Alive /\ crashes < MaxCrashes /\ crashes' = crashes + 1
  /\ server' = "exited"
  /\ table' = [i \in Ids |-> NoChannel]
  /\ handed' = {} /\ canceled' = {} /\ ended' = {}
  /\ pc' = [r \in Requests |-> IF pc[r] = "absent" THEN "absent" ELSE "refused"]
  /\ UNCHANGED <<id, outcome, spool>>

(* useSpool at the next start clears what a previous process left.         *)
Restart ==
  /\ server = "exited"
  /\ server' = "up"
  /\ spool' = {}
  /\ UNCHANGED <<id, pc, table, handed, canceled, ended, outcome, crashes>>

Next ==
  \/ \E r \in Requests :
       \/ Ask(r) \/ Load(r) \/ Register(r) \/ EndOnCancel(r) \/ JobsOver(r)
       \/ JobsFail(r) \/ RemoveSpool(r) \/ CancelHanded(r)
  \/ \E i \in Ids : Stop(i)
  \/ StopAll \/ Exit \/ Restart

(* Goroutines that can go on do; that a source ends, a request arrives or  *)
(* an operator stops anything is not assumed.                              *)
Fairness ==
  \A r \in Requests :
    /\ WF_vars(EndOnCancel(r)) /\ WF_vars(RemoveSpool(r)) /\ WF_vars(CancelHanded(r))
    /\ WF_vars(r \in canceled /\ JobsOver(r))

Spec == Init /\ [][Next]_vars
FairSpec == Spec /\ Fairness

--------------------------------------------------------------------------------
TypeOK ==
  /\ id \in [Requests -> Ids]
  /\ pc \in [Requests -> Places]
  /\ table \in [Ids -> Requests \cup {NoChannel}]
  /\ handed \subseteq Requests /\ canceled \subseteq Requests
  /\ ended \subseteq Requests /\ spool \subseteq Requests
  /\ outcome \in [Requests -> {"none", "running", "stopped", "done", "error"}]
  /\ server \in {"up", "stopping", "exited"}
  /\ crashes \in 0 .. MaxCrashes

(* However starts of one id or of a full table race, no channel that runs  *)
(* is lost: it is the one its id names, or a stop has it in hand, or it is *)
(* canceled; and there are never more of them than -worker-max.            *)
NoChannelLost ==
  /\ MaxChannels > 0 => Cardinality(Registered) <= MaxChannels
  /\ \A r \in Requests :
       pc[r] \in {"running", "over"} /\ r \notin canceled \cup handed => table[id[r]] = r

(* What is staged has an owner and what is served is staged: a directory   *)
(* on disk belongs to a channel that is built, running or over, whatever   *)
(* died before, and a channel in the table still has its directory,        *)
(* finished downloads included (worker.go:399).                            *)
SpoolOwned ==
  Alive =>
    /\ \A r \in spool : pc[r] \in {"built", "running", "over"}
    /\ \A i \in Registered : table[i] \in spool \ canceled

(* A stopped channel gives its disk back, a muxed one whose writer is      *)
(* blocked on its FFmpeg as well (worker.go:378), unless the process ends. *)
StoppedReclaimed ==
  \A r \in Requests : r \in canceled ~> (r \notin spool \/ server = "exited")

================================================================================
