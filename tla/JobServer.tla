------------------------------- MODULE JobServer -------------------------------
(***************************************************************************)
(* The job server (-rpc): internal/rpc/rpc.go, rpc_linux.go.               *)
(*                                                                         *)
(* A job is a child process.  The goroutine that waits for it moves from   *)
(* waited (the child is reaped, the state is set) to stamped (endedNano    *)
(* is set) to released (running is decremented).  Whether the arguments of *)
(* a request are well formed and what the log holds is left out.           *)
(***************************************************************************)
EXTENDS Naturals, FiniteSets

CONSTANTS
  Jobs,        \* the numbers of the jobs a run may start: 1 .. n
  MaxJobs,     \* -rpc-max-jobs, 0: unlimited
  MaxRetain,   \* rpcMaxRetain, the ceiling on the jobs kept
  Retain,      \* -rpc-retain, in ticks of the clock
  MaxClock     \* bound of the model: how far the clock goes

VARIABLES
  child,     \* child[j]: none | alive | dead
  waiter,    \* the waiting goroutine: none | waiting | waited | stamped | released
  state,     \* j.state: none | running | done | error
  ended,     \* j.endedNano, 0 while it runs
  jobs,      \* s.jobs: the numbers of the jobs kept
  running,   \* s.running
  nextID,    \* s.nextID
  snapshot,  \* the jobs stopAll still has to signal
  server,    \* up | closing (Shutdown called) | stopping (in stopAll) | exited
  clock

vars == <<child, waiter, state, ended, jobs, running, nextID, snapshot, server, clock>>

Init ==
  /\ child = [j \in Jobs |-> "none"]
  /\ waiter = [j \in Jobs |-> "none"]
  /\ state = [j \in Jobs |-> "none"]
  /\ ended = [j \in Jobs |-> 0]
  /\ jobs = {} /\ snapshot = {}
  /\ running = 0 /\ nextID = 0
  /\ server = "up"
  /\ clock = 1

Children == {j \in Jobs : child[j] = "alive"}
Full == MaxJobs > 0 /\ running >= MaxJobs

(* add: admission, spawn and registration under one lock.  Shutdown lets   *)
(* a request that was accepted before finish.                              *)
Add ==
  LET j == nextID + 1
  IN  /\ server # "exited" /\ j \in Jobs
      /\ ~Full
      /\ nextID' = j
      /\ child' = [child EXCEPT ![j] = "alive"]
      /\ waiter' = [waiter EXCEPT ![j] = "waiting"]
      /\ state' = [state EXCEPT ![j] = "running"]
      /\ jobs' = jobs \cup {j}
      /\ running' = running + 1
      /\ UNCHANGED <<ended, snapshot, server, clock>>

(* The child ends, by itself or because it was asked to.                   *)
ChildExits(j) ==
  /\ child[j] = "alive"
  /\ child' = [child EXCEPT ![j] = "dead"]
  /\ UNCHANGED <<waiter, state, ended, jobs, running, nextID, snapshot, server, clock>>

(* cmd.Wait returns, then finish: the state, then the time it ended.       *)
Waited(j) ==
  /\ server # "exited" /\ waiter[j] = "waiting" /\ child[j] = "dead"
  /\ waiter' = [waiter EXCEPT ![j] = "waited"]
  /\ \E s \in {"done", "error"} : state' = [state EXCEPT ![j] = s]
  /\ UNCHANGED <<child, ended, jobs, running, nextID, snapshot, server, clock>>

Stamp(j) ==
  /\ server # "exited" /\ waiter[j] = "waited"
  /\ waiter' = [waiter EXCEPT ![j] = "stamped"]
  /\ ended' = [ended EXCEPT ![j] = clock]
  /\ UNCHANGED <<child, state, jobs, running, nextID, snapshot, server, clock>>

\* Mutant: a job that was asked to stop gives its slot back at once.
ReleaseEarly(j) ==
  /\ server # "exited" /\ waiter[j] = "waiting"
  /\ waiter' = [waiter EXCEPT ![j] = "released"]
  /\ running' = running - 1
  /\ UNCHANGED <<child, state, ended, jobs, nextID, snapshot, server, clock>>

Release(j) ==
  /\ server # "exited" /\ waiter[j] = "stamped"
  /\ waiter' = [waiter EXCEPT ![j] = "released"]
  /\ running' = running - 1
  /\ UNCHANGED <<child, state, ended, jobs, nextID, snapshot, server, clock>>

(* reap, every rpcReapPeriod: what finished longer than retain ago goes;   *)
(* over the ceiling the oldest finished jobs go until it holds.            *)
Expired == {j \in jobs : ended[j] > 0 /\ ended[j] + Retain < clock}

Oldest(S, n) ==
  {X \in SUBSET S : /\ Cardinality(X) = n
                    /\ \A x \in X, y \in S \ X : ended[x] <= ended[y]}

\* Mutant: over the ceiling the oldest jobs go, whether finished or not.
OverCeilingAny(kept) ==
  IF Cardinality(kept) <= MaxRetain THEN {{}}
  ELSE Oldest(kept, Cardinality(kept) - MaxRetain)

Least(m, n) == IF m < n THEN m ELSE n

OverCeiling(kept) ==
  LET finished == {j \in kept : ended[j] > 0}
  IN  IF Cardinality(kept) <= MaxRetain THEN {{}}
      ELSE Oldest(finished, Least(Cardinality(finished), Cardinality(kept) - MaxRetain))

Reap ==
  /\ server = "up"
  /\ \E dropped \in OverCeiling(jobs \ Expired) : jobs' = jobs \ (Expired \cup dropped)
  /\ UNCHANGED <<child, waiter, state, ended, running, nextID, snapshot, server, clock>>

(* Shutdown makes ListenAndServe return: from here on the process may exit *)
(* at any moment, before stopAll has signalled the children as well.       *)
Close ==
  /\ server = "up"
  /\ server' = "closing"
  /\ UNCHANGED <<child, waiter, state, ended, jobs, running, nextID, snapshot, clock>>

StopAll ==
  /\ server = "closing"
  /\ server' = "stopping"
  /\ snapshot' = {j \in jobs : ended[j] = 0}
  /\ UNCHANGED <<child, waiter, state, ended, jobs, running, nextID, clock>>

Signal(j) ==
  /\ server = "stopping" /\ j \in snapshot
  /\ snapshot' = snapshot \ {j}
  /\ UNCHANGED <<child, waiter, state, ended, jobs, running, nextID, server, clock>>

(* hardenCmd: the kernel kills the children of a server that is gone.      *)
Exit ==
  /\ server \in {"closing", "stopping"}
  /\ server' = "exited"
  /\ child' = [j \in Jobs |-> IF child[j] = "alive" THEN "dead" ELSE child[j]]
  /\ UNCHANGED <<waiter, state, ended, jobs, running, nextID, snapshot, clock>>

Elapse ==
  /\ server = "up" /\ clock < MaxClock
  /\ clock' = clock + 1
  /\ UNCHANGED <<child, waiter, state, ended, jobs, running, nextID, snapshot, server>>

Next ==
  \/ Add \/ Reap \/ Close \/ StopAll \/ Exit \/ Elapse
  \/ \E j \in Jobs : ChildExits(j) \/ Waited(j) \/ Stamp(j) \/ Release(j) \/ Signal(j)

Spec == Init /\ [][Next]_vars

--------------------------------------------------------------------------------
TypeOK ==
  /\ child \in [Jobs -> {"none", "alive", "dead"}]
  /\ waiter \in [Jobs -> {"none", "waiting", "waited", "stamped", "released"}]
  /\ state \in [Jobs -> {"none", "running", "done", "error"}]
  /\ ended \in [Jobs -> 0 .. MaxClock]
  /\ jobs \subseteq Jobs /\ snapshot \subseteq Jobs
  /\ running \in Nat /\ nextID \in Nat
  /\ server \in {"up", "closing", "stopping", "exited"}
  /\ clock \in 1 .. MaxClock

(* The cap counts processes: never more children alive than running says,  *)
(* and never more than -rpc-max-jobs, however the goroutines that wait for *)
(* them are late (rpc.go:170).                                             *)
CapCountsChildren ==
  /\ Cardinality(Children) <= running
  /\ MaxJobs > 0 => running <= MaxJobs

(* What the reaper drops has finished, and over the ceiling no job goes    *)
(* before one that finished earlier: a running job can always be listed    *)
(* and stopped.                                                            *)
ReapsOldestFinished ==
  [][\A j \in jobs \ jobs' :
       /\ state[j] # "running" /\ child[j] = "dead"
       /\ \A k \in jobs' : ended[k] > 0 => ended[j] <= ended[k]]_vars
================================================================================
