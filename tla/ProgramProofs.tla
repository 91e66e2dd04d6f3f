------------------------------ MODULE ProgramProofs ------------------------------
(***************************************************************************)
(* Proofs about the program as a job server, for any number of jobs, any   *)
(* cap and any retention.                                                  *)
(***************************************************************************)
EXTENDS Program, FiniteSetTheorems, SequenceTheorems, TLAPS

(* A job is counted from add until the goroutine that waited for it has    *)
(* decremented running.                                                    *)
Counted(w) == {j \in Jobs : w[j] \in {"waiting", "waited", "stamped"}}

(* What is true of a job depends on how far its goroutine is.              *)
JobInv(j) ==
  /\ j > nextID => waiter[j] = "none"
  /\ child[j] = "alive" => waiter[j] = "waiting"
  /\ waiter[j] \in {"waited", "stamped", "released"} =>
       child[j] = "dead" /\ state[j] \in {"done", "error"}
  /\ ended[j] > 0 => waiter[j] \in {"stamped", "released"}

JobsInv ==
  /\ J!TypeOK
  /\ \A j \in Jobs : JobInv(j)
  /\ running = Cardinality(Counted(waiter))
  /\ MaxJobs > 0 => running <= MaxJobs

(* The instance counts as this module does.                                *)
LEMMA SameCount == \A S : J!Cardinality(S) = Cardinality(S)
BY DEF J!Cardinality, Cardinality

LEMMA JobNumbers == Jobs \subseteq Nat \ {0}
<1>1. Cardinality(Jobs) \in Nat  BY JobsAssumption, FS_CardinalityType
<1>2. QED  BY <1>1, JobsAssumption

LEMMA CountedFinite ==
  ASSUME NEW w
  PROVE  IsFiniteSet(Counted(w)) /\ Cardinality(Counted(w)) \in Nat
<1>1. IsFiniteSet(Counted(w))
  <2>1. Counted(w) \in SUBSET Jobs  BY DEF Counted
  <2>2. QED  BY <2>1, FS_Subset, JobsAssumption
<1>2. QED  BY <1>1, FS_CardinalityType

--------------------------------------------------------------------------------
LEMMA JobsInit == Init => JobsInv
<1> SUFFICES ASSUME Init PROVE JobsInv  OBVIOUS
<1> USE DEF Init, J!Init
<1>1. J!TypeOK  BY JobsAssumption DEF J!TypeOK
<1>2. \A j \in Jobs : JobInv(j)  BY DEF JobInv
<1>3. Counted(waiter) = {}  BY DEF Counted
<1>4. running = Cardinality(Counted(waiter))  BY <1>3, FS_EmptySet
<1>5. QED  BY <1>1, <1>2, <1>4, JobsAssumption DEF JobsInv

(* add: the new job is counted, and only if there is room.                 *)
LEMMA JobsAdd == JobsInv /\ J!Add => JobsInv'
<1> SUFFICES ASSUME JobsInv, J!Add PROVE JobsInv'  OBVIOUS
<1> USE DEF JobsInv, J!TypeOK
<1> DEFINE j == nextID + 1
<1>1. /\ j \in Jobs /\ ~J!Full /\ nextID' = j
      /\ child' = [child EXCEPT ![j] = "alive"]
      /\ waiter' = [waiter EXCEPT ![j] = "waiting"]
      /\ state' = [state EXCEPT ![j] = "running"]
      /\ jobs' = jobs \cup {j}
      /\ running' = running + 1
      /\ UNCHANGED <<ended, snapshot, server, clock>>
  BY DEF J!Add
<1>2. waiter[j] = "none"  BY <1>1, JobNumbers DEF JobInv
<1>3. J!TypeOK'  BY <1>1
<1>4. ASSUME NEW k \in Jobs PROVE JobInv(k)'  BY <1>1, <1>2, <1>4, JobNumbers DEF JobInv
<1>5. Counted(waiter') = Counted(waiter) \cup {j} /\ j \notin Counted(waiter)
  BY <1>1, <1>2 DEF Counted
<1>6. running' = Cardinality(Counted(waiter'))
  BY <1>1, <1>5, CountedFinite, FS_AddElement
<1>7. MaxJobs > 0 => running' <= MaxJobs  BY <1>1, JobsAssumption DEF J!Full
<1>8. QED  BY <1>1, <1>3, <1>4, <1>6, <1>7

(* The goroutine of a job goes on; Release gives up the place.             *)
LEMMA JobsGoOn ==
  ASSUME NEW j \in Jobs
  PROVE  JobsInv /\ (J!ChildExits(j) \/ J!Waited(j) \/ J!Stamp(j) \/ J!Release(j)) => JobsInv'
<1> SUFFICES ASSUME JobsInv, J!ChildExits(j) \/ J!Waited(j) \/ J!Stamp(j) \/ J!Release(j)
             PROVE  JobsInv'
  OBVIOUS
<1> USE DEF JobsInv, J!TypeOK
<1>1. CASE J!ChildExits(j)
  <2>1. /\ child[j] = "alive" /\ child' = [child EXCEPT ![j] = "dead"]
        /\ UNCHANGED <<waiter, state, ended, jobs, running, nextID, snapshot, server, clock>>
    BY <1>1 DEF J!ChildExits
  <2>2. ASSUME NEW k \in Jobs PROVE JobInv(k)'  BY <2>1, <2>2 DEF JobInv
  <2>3. QED  BY <2>1, <2>2
<1>2. CASE J!Waited(j) \/ J!Stamp(j)
  <2>1. PICK b \in {"waited", "stamped"} :
          /\ waiter[j] \in {"waiting", "waited"}
          /\ waiter' = [waiter EXCEPT ![j] = b]
          /\ b = "waited" => waiter[j] = "waiting"
    BY <1>2 DEF J!Waited, J!Stamp
  <2>2. UNCHANGED <<child, jobs, running, nextID, snapshot, server, clock>>
    BY <1>2 DEF J!Waited, J!Stamp
  <2>3. J!TypeOK'  BY <1>2, <2>1, <2>2 DEF J!Waited, J!Stamp
  <2>4. ASSUME NEW k \in Jobs PROVE JobInv(k)'
    BY <1>2, <2>2, <2>4 DEF JobInv, J!Waited, J!Stamp
  <2>5. Counted(waiter') = Counted(waiter)  BY <2>1 DEF Counted
  <2>6. QED  BY <2>2, <2>3, <2>4, <2>5
<1>3. CASE J!Release(j)
  <2>1. /\ waiter[j] = "stamped" /\ waiter' = [waiter EXCEPT ![j] = "released"]
        /\ running' = running - 1
        /\ UNCHANGED <<child, state, ended, jobs, nextID, snapshot, server, clock>>
    BY <1>3 DEF J!Release
  <2>2. Counted(waiter') = Counted(waiter) \ {j} /\ j \in Counted(waiter)
    BY <2>1 DEF Counted
  <2>3. running' = Cardinality(Counted(waiter'))
    BY <2>1, <2>2, CountedFinite, FS_RemoveElement, ZenonT(60)
  <2>4. running' \in Nat  BY <2>3, CountedFinite
  <2>5. ASSUME NEW k \in Jobs PROVE JobInv(k)'  BY <2>1, <2>5 DEF JobInv
  <2>6. MaxJobs > 0 => running' <= MaxJobs  BY <2>1, JobsAssumption
  <2>7. QED  BY <2>1, <2>3, <2>4, <2>5, <2>6
<1>4. QED  BY <1>1, <1>2, <1>3

(* What changes neither a child nor the goroutine that waits for it.       *)
LEMMA JobsRest ==
  JobsInv /\ (\/ J!Reap \/ J!Close \/ J!StopAll \/ J!Elapse \/ UNCHANGED jobsVars
              \/ \E j \in Jobs : J!Signal(j)) => JobsInv'
<1> SUFFICES ASSUME JobsInv,
                    \/ J!Reap \/ J!Close \/ J!StopAll \/ J!Elapse \/ UNCHANGED jobsVars
                    \/ \E j \in Jobs : J!Signal(j)
             PROVE  JobsInv'
  OBVIOUS
<1> USE DEF JobsInv, J!TypeOK
<1>1. UNCHANGED <<child, waiter, state, ended, running, nextID>>
  BY DEF J!Reap, J!Close, J!StopAll, J!Elapse, J!Signal, jobsVars
<1>2. /\ jobs' \subseteq Jobs /\ snapshot' \subseteq Jobs
      /\ server' \in {"up", "closing", "stopping", "exited"}
      /\ clock' \in 1 .. MaxClock
  BY JobsAssumption DEF J!Reap, J!Close, J!StopAll, J!Elapse, J!Signal, jobsVars
<1>3. ASSUME NEW k \in Jobs PROVE JobInv(k)'  BY <1>1, <1>3 DEF JobInv
<1>4. QED  BY <1>1, <1>2, <1>3

LEMMA JobsExit == JobsInv /\ J!Exit => JobsInv'
<1> SUFFICES ASSUME JobsInv, J!Exit PROVE JobsInv'  OBVIOUS
<1> USE DEF JobsInv, J!TypeOK, J!Exit
<1>1. ASSUME NEW k \in Jobs PROVE JobInv(k)'  BY <1>1 DEF JobInv
<1>2. J!TypeOK'  OBVIOUS
<1>3. QED  BY <1>1, <1>2

LEMMA JobsStep == JobsInv /\ [Next]_vars => JobsInv'
<1> SUFFICES ASSUME JobsInv, [Next]_vars PROVE JobsInv'  OBVIOUS
<1>1. J!Next \/ UNCHANGED jobsVars
  BY DEF Next, TitlesNext, WorkerNext, RPCNext, vars, jobsVars
<1>2. QED  BY <1>1, JobsAdd, JobsGoOn, JobsRest, JobsExit DEF J!Next

(* What is true of the jobs of the server, whatever the program runs as.   *)
THEOREM JobsInvariance == Spec => []JobsInv
BY JobsInit, JobsStep, PTL DEF Spec

(* The cap counts processes: a child is alive only while its job is        *)
(* counted, and the count is exact (add and its goroutine in rpc.go).      *)
THEOREM CapIsExact == Spec => []CapCountsChildren
<1>1. JobsInv => CapCountsChildren
  <2> SUFFICES ASSUME JobsInv PROVE CapCountsChildren  OBVIOUS
  <2>1. J!Children \in SUBSET Counted(waiter)  BY DEF JobsInv, JobInv, J!Children, Counted
  <2>2. Cardinality(J!Children) <= running  BY <2>1, CountedFinite, FS_Subset DEF JobsInv
  <2>3. QED  BY <2>2, SameCount DEF CapCountsChildren, J!CapCountsChildren, JobsInv
<1>2. QED  BY <1>1, JobsInvariance, PTL

(* The reaper drops finished jobs only, over the ceiling the oldest first  *)
(* (reap in rpc.go).                                                       *)
LEMMA ReapStep ==
  ASSUME JobsInv, J!Reap, NEW j \in jobs \ jobs'
  PROVE  /\ state[j] # "running" /\ child[j] = "dead"
         /\ \A k \in jobs' : ended[k] > 0 => ended[j] <= ended[k]
<1> USE DEF JobsInv, J!TypeOK
<1>1. PICK dropped \in J!OverCeiling(jobs \ J!Expired) : jobs' = jobs \ (J!Expired \cup dropped)
  BY DEF J!Reap
<1> DEFINE kept == jobs \ J!Expired
           finished == {k \in kept : ended[k] > 0}
<1>2. /\ dropped \subseteq finished
      /\ \A x \in dropped, y \in finished \ dropped : ended[x] <= ended[y]
  <2>1. CASE Cardinality(kept) <= MaxRetain  BY <1>1, <2>1, SameCount DEF J!OverCeiling
  <2>2. CASE ~(Cardinality(kept) <= MaxRetain)  BY <1>1, <2>2, SameCount DEF J!OverCeiling, J!Oldest
  <2>3. QED  BY <2>1, <2>2
<1>3. j \in Jobs /\ ended[j] > 0 /\ j \in J!Expired \cup dropped  BY <1>1, <1>2 DEF J!Expired
<1>4. state[j] # "running" /\ child[j] = "dead"  BY <1>3 DEF JobInv
<1>5. ASSUME NEW k \in jobs', ended[k] > 0 PROVE ended[j] <= ended[k]
  <2>1. k \in Jobs /\ k \in finished \ dropped /\ ~(ended[k] + Retain < clock)
    BY <1>1, <1>5 DEF J!Expired
  <2>2. ended[j] \in Nat /\ ended[k] \in Nat /\ clock \in Nat /\ Retain \in Nat
    BY <1>3, <2>1, JobsAssumption
  <2>3. CASE j \in dropped  BY <1>2, <2>1, <2>3
  <2>4. CASE j \in J!Expired  BY <2>1, <2>2, <2>4 DEF J!Expired
  <2>5. QED  BY <1>3, <2>3, <2>4
<1>6. QED  BY <1>4, <1>5

THEOREM OldestGoFirst == Spec => ReapsOldestFinished
<1> DEFINE Fair == \A j \in jobs \ jobs' :
             /\ state[j] # "running" /\ child[j] = "dead"
             /\ \A k \in jobs' : ended[k] > 0 => ended[j] <= ended[k]
<1>1. JobsInv /\ [Next]_vars => [Fair]_(J!vars)
  <2> SUFFICES ASSUME JobsInv, Next PROVE Fair \/ UNCHANGED J!vars
    BY DEF vars, jobsVars, J!vars
  <2>1. J!Next \/ UNCHANGED jobsVars
    BY DEF Next, TitlesNext, WorkerNext, RPCNext
  <2>2. CASE J!Reap  BY <2>2, ReapStep
  <2>3. CASE UNCHANGED jobsVars  BY <2>3 DEF jobsVars, J!vars
  <2>4. CASE jobs \subseteq jobs'  BY <2>4
  <2>5. QED
    BY <2>1, <2>2, <2>3, <2>4
    DEF J!Next, J!Add, J!Close, J!StopAll, J!Exit, J!Elapse, J!ChildExits, J!Waited,
        J!Stamp, J!Release, J!Signal
<1>2. QED  BY <1>1, JobsInvariance, PTL DEF Spec, ReapsOldestFinished, J!ReapsOldestFinished

--------------------------------------------------------------------------------
(* The channel worker.                                                     *)

(* What is true of a request and of the channel it starts.  In the table a *)
(* channel is running or finished, stopped by nobody and staged; every     *)
(* other one that runs is in the hands of a stop or canceled.              *)
ChannelInv(r) ==
  LET served == pc[r] \in {"running", "over"}
  IN  /\ r \in handed => served /\ r \notin canceled
      /\ r \in canceled => pc[r] \in {"running", "over", "gone", "refused"}
      /\ served /\ r \notin canceled \cup handed => table[id[r]] = r
      /\ W!Alive => (r \in spool <=> pc[r] \in {"built", "running", "over"})
      /\ ~W!Alive => pc[r] \in {"absent", "refused"} /\ r \notin handed

SlotInv(i) ==
  LET r == table[i]
  IN  r # "none" =>
        /\ W!Alive /\ id[r] = i /\ pc[r] \in {"running", "over"}
        /\ r \notin canceled \cup handed

WorkerTypes ==
  /\ id \in [Requests -> Ids] /\ pc \in [Requests -> W!Places]
  /\ table \in [Ids -> Requests \cup {"none"}]
  /\ handed \subseteq Requests /\ canceled \subseteq Requests /\ spool \subseteq Requests
  /\ worker \in {"up", "stopping", "exited"}

(* The table of an infinite set of ids would still be filled one by one.   *)
TableInv ==
  /\ IsFiniteSet(W!Registered)
  /\ MaxChannels > 0 => Cardinality(W!Registered) <= MaxChannels

WorkerInv ==
  /\ WorkerTypes
  /\ \A r \in Requests : ChannelInv(r)
  /\ \A i \in Ids : SlotInv(i)
  /\ TableInv

LEMMA SameChannelCount == \A S : W!Cardinality(S) = Cardinality(S)
BY DEF W!Cardinality, Cardinality

LEMMA WorkerInit == Init => WorkerInv
<1> SUFFICES ASSUME Init PROVE WorkerInv  OBVIOUS
<1> USE DEF Init, W!Init, W!NoChannel, W!Alive
<1>1. WorkerTypes  BY DEF WorkerTypes, W!Places
<1>2. ASSUME NEW r \in Requests PROVE ChannelInv(r)  BY DEF ChannelInv
<1>3. ASSUME NEW i \in Ids PROVE SlotInv(i)  BY DEF SlotInv
<1>4. W!Registered = {}  BY DEF W!Registered
<1>5. TableInv  BY <1>4, FS_EmptySet, WorkerAssumption DEF TableInv
<1>6. QED  BY <1>1, <1>2, <1>3, <1>5 DEF WorkerInv

(* A request finds its channel on the way: the table is left alone.        *)
LEMMA RequestGoesOn ==
  ASSUME NEW r \in Requests, WorkerInv, W!Ask(r) \/ W!Load(r)
  PROVE  WorkerInv'
<1> USE DEF WorkerInv, WorkerTypes, W!Alive
<1>1. /\ W!Alive /\ UNCHANGED <<id, table, handed, worker>>
      /\ \/ pc[r] = "absent" /\ UNCHANGED <<canceled, spool>>
            /\ \E p \in {"refused", "loading"} : pc' = [pc EXCEPT ![r] = p]
         \/ pc[r] = "loading" /\ pc' = [pc EXCEPT ![r] = "built"]
            /\ spool' = spool \cup {r} /\ canceled' = canceled
         \/ pc[r] = "loading" /\ pc' = [pc EXCEPT ![r] = "refused"]
            /\ spool' = spool /\ canceled' = canceled \cup {r}
  BY DEF W!Ask, W!Load, W!Goto
<1>2. WorkerTypes'  BY <1>1 DEF W!Places
<1>3. ASSUME NEW q \in Requests PROVE ChannelInv(q)'  BY <1>1, <1>3 DEF ChannelInv
<1>4. ASSUME NEW i \in Ids PROVE SlotInv(i)'  BY <1>1, <1>4 DEF SlotInv
<1>5. TableInv'  BY <1>1 DEF TableInv, W!Registered
<1>6. QED  BY <1>2, <1>3, <1>4, <1>5

LEMMA RequestRegisters ==
  ASSUME NEW r \in Requests, WorkerInv, W!Register(r)
  PROVE  WorkerInv'
<1> USE DEF WorkerInv, WorkerTypes, W!Alive, W!NoChannel
<1>1. CASE W!Taken(r)
  <2>1. /\ W!Alive /\ pc[r] = "built" /\ UNCHANGED <<id, table, handed, worker>>
        /\ pc' = [pc EXCEPT ![r] = "refused"]
        /\ canceled' = canceled \cup {r} /\ spool' = spool \ {r}
    BY <1>1 DEF W!Register, W!Goto
  <2>2. WorkerTypes'  BY <2>1 DEF W!Places
  <2>3. ASSUME NEW q \in Requests PROVE ChannelInv(q)'  BY <2>1, <2>3 DEF ChannelInv
  <2>4. ASSUME NEW i \in Ids PROVE SlotInv(i)'  BY <2>1, <2>4 DEF SlotInv
  <2>5. TableInv'  BY <2>1 DEF TableInv, W!Registered
  <2>6. QED  BY <2>2, <2>3, <2>4, <2>5
<1>2. CASE ~W!Taken(r)
  <2>1. /\ W!Alive /\ pc[r] = "built" /\ UNCHANGED <<id, canceled, spool, handed, worker>>
        /\ pc' = [pc EXCEPT ![r] = "running"]
        /\ table' = [table EXCEPT ![id[r]] = r] /\ table[id[r]] = "none"
        /\ ~W!AtCap
    BY <1>2 DEF W!Register, W!Goto, W!Taken, W!Exists
  <2>2. WorkerTypes'  BY <2>1 DEF W!Places
  <2>3. ASSUME NEW q \in Requests PROVE ChannelInv(q)'
    BY <2>1, <2>3, WorkerAssumption DEF ChannelInv
  <2>4. ASSUME NEW i \in Ids PROVE SlotInv(i)'  BY <2>1, <2>4 DEF SlotInv, ChannelInv
  <2>5. TableInv'
    <3>1. /\ W!Registered' = W!Registered \cup {id[r]} /\ id[r] \notin W!Registered
      BY <2>1, WorkerAssumption DEF W!Registered
    <3>2. /\ IsFiniteSet(W!Registered')
          /\ Cardinality(W!Registered') = Cardinality(W!Registered) + 1
      BY <3>1, FS_AddElement DEF TableInv
    <3>3. MaxChannels > 0 => Cardinality(W!Registered) < MaxChannels
      BY <2>1, SameChannelCount, FS_CardinalityType, WorkerAssumption DEF W!AtCap, TableInv
    <3>4. QED
      BY <3>2, <3>3, FS_CardinalityType, WorkerAssumption DEF TableInv
  <2>6. QED  BY <2>2, <2>3, <2>4, <2>5
<1>3. QED  BY <1>1, <1>2

(* A registered channel plays out, is canceled or goes.                    *)
LEMMA ChannelGoesOn ==
  ASSUME NEW r \in Requests, WorkerInv,
         W!EndOnCancel(r) \/ W!JobsOver(r) \/ W!JobsFail(r) \/ W!RemoveSpool(r)
           \/ W!CancelHanded(r)
  PROVE  WorkerInv'
<1> USE DEF WorkerInv, WorkerTypes, W!Alive
<1>1. /\ W!Alive /\ UNCHANGED <<id, table, worker>>
      /\ \/ UNCHANGED <<pc, handed, canceled, spool>>
         \/ /\ pc[r] = "running" /\ pc' = [pc EXCEPT ![r] = "over"]
            /\ UNCHANGED <<handed, canceled, spool>>
         \/ /\ pc[r] = "over" /\ r \in canceled /\ pc' = [pc EXCEPT ![r] = "gone"]
            /\ spool' = spool \ {r} /\ UNCHANGED <<handed, canceled>>
         \/ /\ r \in handed /\ handed' = handed \ {r} /\ canceled' = canceled \cup {r}
            /\ UNCHANGED <<pc, spool>>
  BY DEF W!EndOnCancel, W!JobsOver, W!JobsFail, W!RemoveSpool, W!MayRemove, W!CancelHanded,
     W!Goto
<1>2. WorkerTypes'  BY <1>1 DEF W!Places
<1>3. ASSUME NEW q \in Requests PROVE ChannelInv(q)'  BY <1>1, <1>3 DEF ChannelInv
<1>4. ASSUME NEW i \in Ids PROVE SlotInv(i)'  BY <1>1, <1>4 DEF SlotInv
<1>5. TableInv'  BY <1>1 DEF TableInv, W!Registered
<1>6. QED  BY <1>2, <1>3, <1>4, <1>5

(* Who takes channels out of the table has them in hand.                   *)
TakenOut(out) ==
  /\ W!Alive /\ W!Alive' /\ worker' \in {"up", "stopping"}
  /\ out \subseteq W!Registered
  /\ handed' = handed \cup {table[i] : i \in out}
  /\ table' = [i \in Ids |-> IF i \in out THEN "none" ELSE table[i]]
  /\ UNCHANGED <<id, pc, canceled, spool>>

LEMMA TableIsEmptied ==
  ASSUME WorkerInv, W!StopAll \/ \E i \in Ids : W!Stop(i)
  PROVE  WorkerInv'
<1> USE DEF WorkerInv, WorkerTypes, W!Alive, W!NoChannel
<1>1. PICK out \in SUBSET Ids : TakenOut(out)
  <2>1. CASE W!StopAll
    <3>1. table' = [i \in Ids |-> IF i \in W!Registered THEN "none" ELSE table[i]]
      BY <2>1 DEF W!StopAll, W!Registered
    <3>2. TakenOut(W!Registered)  BY <2>1, <3>1 DEF W!StopAll, TakenOut
    <3>3. W!Registered \in SUBSET Ids  BY DEF W!Registered
    <3>4. QED  BY <3>2, <3>3
  <2>2. ASSUME NEW i \in Ids, W!Stop(i) PROVE TakenOut({i})
    <3>1. table' = [k \in Ids |-> IF k \in {i} THEN "none" ELSE table[k]]
      BY <2>2 DEF W!Stop
    <3>2. {i} \subseteq W!Registered  BY <2>2 DEF W!Stop, W!Registered
    <3>3. {table[k] : k \in {i}} = {table[i]}  OBVIOUS
    <3>4. handed' = handed \cup {table[k] : k \in {i}}  BY <2>2, <3>3 DEF W!Stop
    <3>5. QED  BY <2>2, <3>1, <3>2, <3>4 DEF W!Stop, TakenOut
  <2>3. QED  BY <2>1, <2>2
<1> USE DEF TakenOut
<1>2. WorkerTypes'  BY <1>1 DEF W!Registered
<1>3. ASSUME NEW q \in Requests PROVE ChannelInv(q)'
  <2>1. q \in handed' => q \in handed \/ \E i \in out : q = table[i]  BY <1>1
  <2>2. ASSUME NEW i \in out, q = table[i]
        PROVE  pc[q] \in {"running", "over"} /\ q \notin canceled
    BY <1>1, <2>2 DEF SlotInv, W!Registered
  <2>3. pc[q] \in {"running", "over"} /\ q \notin canceled \cup handed' => table'[id[q]] = q
    <3>1. SUFFICES ASSUME pc[q] \in {"running", "over"}, q \notin canceled \cup handed'
                   PROVE  table'[id[q]] = q
      OBVIOUS
    <3>2. table[id[q]] = q  BY <1>1, <3>1 DEF ChannelInv
    <3>3. id[q] \notin out  BY <1>1, <3>1, <3>2
    <3>4. QED  BY <1>1, <3>2, <3>3
  <2>4. QED  BY <1>1, <2>1, <2>2, <2>3 DEF ChannelInv
<1>4. ASSUME NEW i \in Ids PROVE SlotInv(i)'
  <2>1. SUFFICES ASSUME table'[i] # "none"
                 PROVE  /\ id'[table'[i]] = i /\ pc'[table'[i]] \in {"running", "over"}
                        /\ table'[i] \notin canceled' \cup handed'
    BY <1>1 DEF SlotInv
  <2>2. i \notin out /\ table'[i] = table[i]  BY <1>1, <2>1
  <2>3. SlotInv(i) /\ \A k \in out : SlotInv(k) /\ table[k] # "none"
    BY <1>1 DEF W!Registered
  <2>4. ASSUME NEW k \in out, table[k] = table[i] PROVE FALSE
    BY <2>1, <2>2, <2>3, <2>4 DEF SlotInv
  <2>5. QED  BY <1>1, <2>1, <2>2, <2>3, <2>4 DEF SlotInv
<1>5. TableInv'
  <2>1. W!Registered' \in SUBSET W!Registered  BY <1>1 DEF W!Registered
  <2>2. /\ IsFiniteSet(W!Registered')
        /\ Cardinality(W!Registered') <= Cardinality(W!Registered)
    BY <2>1, FS_Subset DEF TableInv
  <2>3. QED
    BY <2>2, FS_CardinalityType, WorkerAssumption DEF TableInv
<1>6. QED  BY <1>2, <1>3, <1>4, <1>5

(* A process that died left directories; the next one clears them.         *)
LEMMA ProcessChanges ==
  ASSUME WorkerInv, W!Exit \/ W!Restart \/ UNCHANGED workerVars
  PROVE  WorkerInv'
<1> USE DEF WorkerInv, WorkerTypes, W!Alive, W!NoChannel
<1>1. CASE W!Exit
  <2>1. WorkerTypes'  BY <1>1 DEF W!Exit, W!Places
  <2>2. ASSUME NEW q \in Requests PROVE ChannelInv(q)'  BY <1>1, <2>2 DEF ChannelInv, W!Exit
  <2>3. ASSUME NEW i \in Ids PROVE SlotInv(i)'  BY <1>1, <2>3 DEF SlotInv, W!Exit
  <2>4. W!Registered' = {}  BY <1>1 DEF W!Exit, W!Registered
  <2>5. TableInv'  BY <2>4, FS_EmptySet, WorkerAssumption DEF TableInv
  <2>6. QED  BY <2>1, <2>2, <2>3, <2>5
<1>2. CASE W!Restart
  <2>1. UNCHANGED <<id, pc, table, handed, canceled>> /\ spool' = {} /\ worker' = "up"
        /\ worker = "exited"
    BY <1>2 DEF W!Restart
  <2>2. ASSUME NEW q \in Requests PROVE ChannelInv(q)'  BY <2>1, <2>2 DEF ChannelInv
  <2>3. ASSUME NEW i \in Ids PROVE SlotInv(i)'  BY <2>1, <2>3 DEF SlotInv
  <2>4. TableInv'  BY <2>1 DEF TableInv, W!Registered
  <2>5. QED  BY <2>1, <2>2, <2>3, <2>4
<1>3. CASE UNCHANGED workerVars
  BY <1>3 DEF workerVars, ChannelInv, SlotInv, TableInv, W!Registered
<1>4. QED  BY <1>1, <1>2, <1>3

(* Channels, table and directories fit each other in every state of every  *)
(* process that ran, for any number of requests, ids and crashes.          *)
THEOREM WorkerInvariance == Spec => []WorkerInv
<1>1. WorkerInv /\ [Next]_vars => WorkerInv'
  <2> SUFFICES ASSUME WorkerInv, [Next]_vars PROVE WorkerInv'  OBVIOUS
  <2>1. W!Next \/ UNCHANGED workerVars
    BY DEF Next, TitlesNext, WorkerNext, RPCNext, vars, workerVars
  <2>2. QED
    BY <2>1, RequestGoesOn, RequestRegisters, ChannelGoesOn, TableIsEmptied, ProcessChanges
    DEF W!Next
<1>2. QED  BY WorkerInit, <1>1, PTL DEF Spec

(* No channel runs that nobody can stop, there are never more than         *)
(* -worker-max, and what is staged and what is served belong together      *)
(* (apiStart, apiStop, stopAll and runChannel in worker.go).               *)
THEOREM ChannelsAreOwned == Spec => []ChannelsOwned
<1>1. WorkerInv => ChannelsOwned
  <2> SUFFICES ASSUME WorkerInv PROVE ChannelsOwned  OBVIOUS
  <2> USE DEF WorkerInv, WorkerTypes, W!NoChannel
  <2>1. W!NoChannelLost  BY SameChannelCount DEF W!NoChannelLost, TableInv, ChannelInv
  <2>2. W!SpoolOwned
    <3>1. SUFFICES ASSUME W!Alive
                   PROVE  /\ \A r \in spool : pc[r] \in {"built", "running", "over"}
                          /\ \A i \in W!Registered : table[i] \in spool \ canceled
      BY DEF W!SpoolOwned
    <3>2. \A r \in spool : pc[r] \in {"built", "running", "over"}  BY <3>1 DEF ChannelInv
    <3>3. ASSUME NEW i \in W!Registered PROVE table[i] \in spool \ canceled
      <4>1. i \in Ids /\ table[i] # "none" /\ table[i] \in Requests  BY DEF W!Registered
      <4>2. QED  BY <3>1, <4>1 DEF SlotInv, ChannelInv
    <3>4. QED  BY <3>2, <3>3
  <2>3. QED  BY <2>1, <2>2 DEF ChannelsOwned
<1>2. QED  BY <1>1, WorkerInvariance, PTL

--------------------------------------------------------------------------------
(* The titles.                                                             *)

(* The path of an entry depends on the list alone: without a -pick, every  *)
(* run gives it the same one.                                              *)
Named(e) == T!Kind(e) # "channel"
SameTitle(d, e) == Named(d) /\ Entries[d].title = Entries[e].title
FirstOf(e) == \A d \in T!All : d < e => ~SameTitle(d, e)
Canon(e) == <<Entries[e].title, IF FirstOf(e) THEN 0 ELSE e, T!Ext(e)>>
HasFirst(e) == \E d \in T!All : d <= e /\ SameTitle(d, e) /\ FirstOf(d)

Started(e) == stage[e] \in {"loading", "video", "rest", "muxing", "writing", "file"}
OnDisk(e) == stage[e] = "done" \/ (stage[e] = "skipped" /\ T!Kind(e) = "manifest")
Muxed(e) == stage[e] = "done" /\ T!Kind(e) = "manifest"

Results == [of : {0} \cup T!All, whole : BOOLEAN, subtitle : BOOLEAN, open : BOOLEAN]
Settled == {"refused", "cut", "converted", "unreadable"}

TitleTypes ==
  /\ picked = T!All /\ next \in Nat \ {0}
  /\ stage \in [T!All -> {"idle", "loading", "video", "rest", "muxing", "writing", "file",
                          "done", "skipped", "failed", "canceled"}]
  /\ path \in [T!All -> T!Paths \cup {T!NoPath}]
  /\ subtitle \in [T!All -> {"todo", "fetched", "refused", "cut",
                             "converted", "unreadable"}]
  /\ disk \in [T!Paths -> Results]

EntryInv(e) ==
  /\ path[e] = T!NoPath \/ (Named(e) /\ path[e] = Canon(e) /\ HasFirst(e))
  /\ next \in T!All /\ Named(e) => (e < next <=> path[e] # T!NoPath)
  /\ Started(e) \/ OnDisk(e) \/ subtitle[e] # "todo" => path[e] # T!NoPath
  /\ stage[e] \in {"video", "rest", "muxing", "writing"} => T!Kind(e) = "manifest"
  /\ stage[e] = "file" => T!Kind(e) = "file"
  /\ stage[e] \in {"loading", "video", "rest"} => subtitle[e] # "converted"
  /\ stage[e] = "done" => disk[path[e]].whole
  /\ OnDisk(e) \/ stage[e] = "writing" => disk[path[e]].of = e
  /\ stage[e] \in {"muxing", "writing"} \/ Muxed(e) => subtitle[e] \in Settled
  /\ stage[e] = "writing" \/ Muxed(e) =>
       (disk[path[e]].subtitle <=> subtitle[e] = "converted")
  /\ \/ subtitle[e] \in {"fetched", "unreadable"}
     \/ stage[e] = "muxing" /\ subtitle[e] = "converted"
     => <<path[e], "subtitle">> \in raw
  /\ stage[e] \in {"rest", "muxing"} => <<path[e], "video">> \in raw

(* What is on disk, whole or cut, was written by the entry whose path it   *)
(* is, and the tracks of what is cut are there too.                        *)
FileInv(p) ==
  disk[p] # T!NoFile =>
    /\ disk[p].of \in T!All /\ Named(disk[p].of) /\ p = Canon(disk[p].of)
    /\ disk[p].open => ~disk[p].whole
    /\ T!Kind(disk[p].of) = "manifest" /\ ~disk[p].whole =>
         <<p, "video">> \in raw /\ (disk[p].subtitle => <<p, "subtitle">> \in raw)

TitleInv ==
  /\ TitleTypes
  /\ \A e \in T!All : EntryInv(e)
  /\ \A p \in T!Paths : FileInv(p)

LEMMA CanonIsPath ==
  ASSUME NEW e \in T!All
  PROVE  Canon(e) \in T!Paths /\ Canon(e) # T!NoPath
<1>1. \E x \in {0, e} : Canon(e) = <<Entries[e].title, x, T!Ext(e)>>  BY DEF Canon
<1>2. Canon(e) \in T!Paths  BY <1>1 DEF T!Paths
<1>3. Canon(e) # T!NoPath  BY DEF Canon, T!NoPath, T!Ext
<1>4. QED  BY <1>2, <1>3

(* Two entries never share a path.                                         *)
LEMMA CanonDiffers ==
  ASSUME NEW d \in T!All, NEW e \in T!All, Named(d), Named(e), Canon(d) = Canon(e)
  PROVE  d = e
<1>1. d \in Nat \ {0} /\ e \in Nat \ {0}  BY TitlesAssumption DEF T!All
<1>2. /\ Entries[d].title = Entries[e].title
      /\ (IF FirstOf(d) THEN 0 ELSE d) = (IF FirstOf(e) THEN 0 ELSE e)
  BY DEF Canon
<1>3. CASE FirstOf(d) /\ FirstOf(e)
  BY <1>1, <1>2, <1>3 DEF FirstOf, SameTitle
<1>4. CASE ~(FirstOf(d) /\ FirstOf(e))  BY <1>1, <1>2, <1>4
<1>5. QED  BY <1>3, <1>4

LEMMA AppendedTriple == ASSUME NEW a, NEW b, NEW c PROVE Append(<<a, b>>, c) = <<a, b, c>>
<1> DEFINE S == {a, b, c}
           s == Append(<<a, b>>, c)
           t == <<a, b, c>>
<1>1. <<a, b>> \in Seq(S) /\ t \in Seq(S) /\ Len(<<a, b>>) = 2 /\ Len(t) = 3  OBVIOUS
<1>2. s \in Seq(S) /\ Len(s) = 3 /\ s[3] = c /\ s[1] = <<a, b>>[1] /\ s[2] = <<a, b>>[2]
  BY <1>1, AppendProperties
<1>3. \A i \in 1 .. 3 : s[i] = t[i]  BY <1>2
<1>4. QED  BY <1>1, <1>2, <1>3, SeqEqual

(* What the dispatch loop names an entry.                                  *)
LEMMA PathIsCanon ==
  ASSUME TitleInv, NEW e \in T!All, next = e, Named(e)
  PROVE  T!PathOf(e) = Canon(e) /\ HasFirst(e)
<1> DEFINE base == <<Entries[e].title, 0>>
           used == {<<path[d][1], path[d][2]>> : d \in T!Dispatched}
<1> USE DEF TitleInv, TitleTypes
<1>1. T!All \subseteq Nat \ {0}  BY TitlesAssumption DEF T!All
<1>2. ASSUME NEW d \in T!All
      PROVE  d \in T!Dispatched <=> d < e /\ Named(d)
  <2>1. EntryInv(d) /\ next = e /\ e \in T!All /\ picked = T!All  BY <1>2
  <2>2. path[d] # T!NoPath => Named(d)  BY <2>1 DEF EntryInv
  <2>3. Named(d) => (d < e <=> path[d] # T!NoPath)  BY <2>1 DEF EntryInv
  <2>4. d \in T!Dispatched <=> d < e /\ path[d] # T!NoPath  BY <2>1 DEF T!Dispatched
  <2>5. QED  BY <2>2, <2>3, <2>4
<1>3. ASSUME NEW d \in T!Dispatched
      PROVE  <<path[d][1], path[d][2]>> = <<Entries[d].title, IF FirstOf(d) THEN 0 ELSE d>>
  <2>1. d \in T!All /\ path[d] = Canon(d)  BY <1>3 DEF T!Dispatched, EntryInv
  <2>2. QED  BY <2>1 DEF Canon
<1>4. CASE FirstOf(e)
  <2>1. base \notin used
    <3>1. SUFFICES ASSUME NEW d \in T!Dispatched, base = <<path[d][1], path[d][2]>>
                   PROVE  FALSE
      OBVIOUS
    <3>2. d \in T!All /\ Entries[d].title = Entries[e].title
      BY <1>3, <3>1 DEF T!Dispatched
    <3>3. QED  BY <1>2, <1>4, <3>1, <3>2 DEF FirstOf, SameTitle
  <2>2. T!Base(e) = base  BY <2>1 DEF T!Base
  <2>3. T!PathOf(e) = <<Entries[e].title, 0, T!Ext(e)>>
    BY <2>2, AppendedTriple DEF T!PathOf
  <2>4. HasFirst(e)  BY <1>1, <1>4 DEF HasFirst, SameTitle
  <2>5. QED  BY <1>4, <2>3, <2>4 DEF Canon
<1>5. CASE ~FirstOf(e)
  <2>1. PICK d \in T!All : d < e /\ SameTitle(d, e)  BY <1>5 DEF FirstOf
  <2>2. HasFirst(d)  BY <1>2, <2>1 DEF EntryInv, SameTitle, T!Dispatched
  <2>3. PICK f \in T!All : f <= d /\ SameTitle(f, d) /\ FirstOf(f)  BY <2>2 DEF HasFirst
  <2>4. f \in T!Dispatched  BY <1>1, <1>2, <2>1, <2>3 DEF SameTitle
  <2>5. base \in used
    <3>1. <<path[f][1], path[f][2]>> = base  BY <1>3, <2>1, <2>3, <2>4 DEF SameTitle
    <3>2. QED  BY <2>4, <3>1
  <2>6. T!Base(e) = <<Entries[e].title, e>>  BY <2>5 DEF T!Base
  <2>7. T!PathOf(e) = <<Entries[e].title, e, T!Ext(e)>>
    BY <2>6, AppendedTriple DEF T!PathOf
  <2>8. HasFirst(e)  BY <1>1, <2>1, <2>3 DEF HasFirst, SameTitle
  <2>9. QED  BY <1>5, <2>7, <2>8 DEF Canon
<1>6. QED  BY <1>4, <1>5

LEMMA TitleInit == Init => TitleInv
<1> SUFFICES ASSUME Init PROVE TitleInv  OBVIOUS
<1> USE DEF Init, T!Init
<1>1. TitleTypes  BY DEF TitleTypes, T!NoFile, Results
<1>2. ASSUME NEW e \in T!All PROVE EntryInv(e)
  <2>1. ~(e < 1)  BY TitlesAssumption DEF T!All
  <2>2. QED  BY <2>1 DEF EntryInv, Started, OnDisk, Muxed
<1>3. ASSUME NEW p \in T!Paths PROVE FileInv(p)  BY DEF FileInv, T!NoFile
<1>4. QED  BY <1>1, <1>2, <1>3 DEF TitleInv

(* The dispatch loop.                                                      *)
LEMMA TitleDispatch ==
  ASSUME TitleInv,
         \/ \E e \in T!All : T!Pass(e) \/ T!SkipChannel(e) \/ T!Dispatch(e)
         \/ T!BreakDispatch
  PROVE  TitleInv'
<1> USE DEF TitleInv, TitleTypes
<1>1. T!All \subseteq Nat \ {0} /\ Len(Entries) + 1 \notin T!All
  BY TitlesAssumption DEF T!All
<1>2. /\ UNCHANGED <<picked, subtitle, disk, raw>>
      /\ \A p \in T!Paths : FileInv(p)'
  BY DEF T!Pass, T!SkipChannel, T!Dispatch, T!BreakDispatch, FileInv
<1>3. ASSUME NEW e \in T!All, T!Pass(e) PROVE FALSE  BY <1>3 DEF T!Pass
<1>4. ASSUME NEW e \in T!All, T!SkipChannel(e) PROVE TitleInv'
  <2>1. /\ next = e /\ next' = e + 1 /\ ~Named(e) /\ path' = path
        /\ stage' = [stage EXCEPT ![e] = "skipped"]
    BY <1>4 DEF T!SkipChannel, T!Goto, Named
  <2>2. ASSUME NEW d \in T!All PROVE EntryInv(d)'
    BY <1>1, <1>2, <2>1, <2>2 DEF EntryInv, Started, OnDisk, Muxed, Named
  <2>3. QED  BY <1>1, <1>2, <2>1, <2>2
<1>5. ASSUME NEW e \in T!All, T!Dispatch(e) PROVE TitleInv'
  <2>1. /\ next = e /\ next' = e + 1 /\ Named(e)
        /\ path' = [path EXCEPT ![e] = Canon(e)] /\ HasFirst(e)
        /\ stage' = [stage EXCEPT ![e] = "loading"]
    <3>1. next = e /\ Named(e)  BY <1>5 DEF T!Dispatch, Named
    <3>2. QED  BY <1>5, <3>1, PathIsCanon DEF T!Dispatch, T!Goto
  <2>2. path[e] = T!NoPath
    <3>1. EntryInv(e) /\ e \in Nat /\ next = e  BY <1>1, <2>1
    <3>2. ~(e < next)  BY <3>1
    <3>3. QED  BY <2>1, <3>1, <3>2 DEF EntryInv
  <2>3. ASSUME NEW d \in T!All PROVE EntryInv(d)'
    <3>1. CASE d = e
      <4>1. stage'[e] = "loading" /\ path'[e] = Canon(e) /\ path'[e] # T!NoPath
        BY <2>1, CanonIsPath
      <4>2. subtitle'[e] = "todo" /\ e < next'
        <5>1. EntryInv(e) /\ e \in Nat  BY <1>1
        <5>2. QED  BY <1>2, <2>1, <2>2, <5>1 DEF EntryInv
      <4>3. QED  BY <2>1, <3>1, <4>1, <4>2 DEF EntryInv, Started, OnDisk, Muxed
    <3>2. CASE d # e
      BY <1>1, <1>2, <2>1, <3>2 DEF EntryInv, Started, OnDisk, Muxed
    <3>3. QED  BY <3>1, <3>2
  <2>4. path' \in [T!All -> T!Paths \cup {T!NoPath}]  BY <2>1, CanonIsPath
  <2>5. QED  BY <1>1, <1>2, <2>1, <2>3, <2>4
<1>6. ASSUME T!BreakDispatch PROVE TitleInv'
  <2>1. UNCHANGED <<stage, path>> /\ next' = Len(Entries) + 1  BY <1>6 DEF T!BreakDispatch
  <2>2. ASSUME NEW d \in T!All PROVE EntryInv(d)'
    BY <1>1, <1>2, <2>1, <2>2 DEF EntryInv, Started, OnDisk, Muxed
  <2>3. next' \in Nat \ {0}  BY <2>1, TitlesAssumption
  <2>4. QED  BY <1>2, <2>1, <2>2, <2>3
<1>7. QED  BY <1>3, <1>4, <1>5, <1>6

(* A title that is fetched and converted: nothing is written to its path.  *)
LEMMA TitleFetch ==
  ASSUME TitleInv, NEW e \in T!All,
         T!Load(e) \/ T!FetchSubtitle(e) \/ T!FetchVideo(e) \/ T!Convert(e)
  PROVE  TitleInv'
<1> USE DEF TitleInv, TitleTypes
<1>1. UNCHANGED <<picked, next, path, disk>> /\ raw \subseteq raw'
  BY DEF T!Load, T!FetchSubtitle, T!FetchVideo, T!Convert
<1>2. \A p \in T!Paths : FileInv(p)'  BY <1>1 DEF FileInv
<1>3. ASSUME NEW d \in T!All, stage'[d] = stage[d], subtitle'[d] = subtitle[d]
      PROVE  EntryInv(d)'
  <2>1. EntryInv(d)  BY <1>3
  <2>2. QED  BY <1>1, <1>3, <2>1, SMTT(30) DEF EntryInv, Started, OnDisk, Muxed
<1>4. CASE T!Load(e)
  <2>1. PICK s : /\ stage[e] = "loading" /\ stage' = [stage EXCEPT ![e] = s]
                 /\ subtitle' = subtitle
                 /\ \/ s \in {"failed", "canceled"}
                    \/ s = "skipped" /\ T!Kind(e) = "live"
                    \/ s = "skipped" /\ T!Kind(e) = "manifest" /\ T!Exists(e)
                    \/ s = "video" /\ T!Kind(e) = "manifest"
                    \/ s = "file" /\ T!Kind(e) = "file"
    BY <1>4 DEF T!Load, T!Goto, T!Failed
  <2>2. path[e] = Canon(e) /\ Named(e)  BY <2>1 DEF EntryInv, Started
  <2>3. T!Exists(e) => disk[path[e]].of = e
    BY <2>2, CanonIsPath, CanonDiffers DEF T!Exists, FileInv
  <2>4. stage'[e] = s /\ s \notin {"done", "rest", "muxing", "writing"}  BY <2>1
  <2>5. EntryInv(e)'
    BY <1>1, <2>1, <2>2, <2>3, <2>4 DEF EntryInv, Started, OnDisk, Muxed
  <2>6. QED  BY <1>1, <1>2, <1>3, <2>1, <2>5
<1>5. CASE T!FetchSubtitle(e)
  <2>1. /\ stage' = stage /\ stage[e] \in {"video", "rest"}
        /\ <<path[e], "subtitle">> \in raw'
        /\ \E s \in {"fetched", "refused", "cut"} : subtitle' = [subtitle EXCEPT ![e] = s]
    BY <1>5 DEF T!FetchSubtitle
  <2>2. EntryInv(e) /\ stage'[e] = stage[e] /\ stage[e] \in {"video", "rest"}
        /\ subtitle'[e] \in {"fetched", "refused", "cut"}
    BY <2>1
  <2>3. EntryInv(e)'  BY <1>1, <2>1, <2>2, SMTT(30) DEF EntryInv, Started, OnDisk, Muxed
  <2>4. QED  BY <1>1, <1>2, <1>3, <2>1, <2>3
<1>6. CASE T!FetchVideo(e)
  <2>1. /\ subtitle' = subtitle /\ stage[e] = "video" /\ <<path[e], "video">> \in raw'
        /\ \E s \in {"video", "rest", "failed", "canceled"} :
             stage' = [stage EXCEPT ![e] = s]
    BY <1>6 DEF T!FetchVideo, T!Goto, T!Failed
  <2>2. EntryInv(e) /\ stage'[e] \in {"video", "rest", "failed", "canceled"}  BY <2>1
  <2>3. EntryInv(e)'  BY <1>1, <2>1, <2>2, SMTT(30) DEF EntryInv, Started, OnDisk, Muxed
  <2>4. QED  BY <1>1, <1>2, <1>3, <2>1, <2>3
<1>7. CASE T!Convert(e)
  <2>1. PICK s : /\ subtitle' = [subtitle EXCEPT ![e] = s]
                 /\ \/ subtitle[e] = "fetched" /\ s \in {"converted", "unreadable"}
                    \/ subtitle[e] # "fetched" /\ s = subtitle[e]
                 /\ stage[e] = "rest" /\ subtitle[e] # "todo"
                 /\ stage' = [stage EXCEPT ![e] = "muxing"]
    BY <1>7 DEF T!Convert, T!Goto
  <2>2. EntryInv(e) /\ stage'[e] = "muxing" /\ subtitle'[e] = s  BY <2>1
  <2>3. s \in Settled  BY <2>1 DEF Settled
  <2>4. EntryInv(e)'
    BY <1>1, <1>7, <2>1, <2>2, <2>3, SMTT(30)
    DEF EntryInv, Started, OnDisk, Muxed, Settled, T!Convert
  <2>5. QED  BY <1>1, <1>2, <1>3, <2>1, <2>3, <2>4
<1>8. QED  BY <1>4, <1>5, <1>6, <1>7

(* What the end of a title does: it writes to the path of the title, and   *)
(* removes raw files of a whole output only, and none that a subtitle      *)
(* could still be read from.                                               *)
Ends == {"writing", "file", "done", "failed", "canceled"}
RawStays(e, f) ==
  \A p \in T!Paths, k \in {"video", "subtitle"} :
    (/\ <<p, k>> \in raw
     /\ \/ p # path[e] \/ ~f.whole
        \/ k = "subtitle" /\ subtitle[e] \in {"fetched", "unreadable"})
    => <<p, k>> \in raw'
Written(e, s, f) ==
  /\ UNCHANGED <<picked, next, path, subtitle>>
  /\ stage' = [stage EXCEPT ![e] = s]
  /\ disk' = [disk EXCEPT ![path[e]] = f]
  /\ RawStays(e, f)
  /\ f = disk[path[e]] \/ (f.of = e /\ (f.open => ~f.whole))
  /\ s \in {"done", "writing"} => f.of = e
  /\ s = "done" => f.whole
  /\ s = "file" => T!Kind(e) = "file"
  /\ s = "writing" => T!Kind(e) = "manifest"
  /\ T!Kind(e) = "manifest" => subtitle[e] \in Settled
  /\ T!Kind(e) = "manifest" /\ s \in {"done", "writing"} =>
       (f.subtitle <=> subtitle[e] = "converted")
  /\ T!Kind(e) = "manifest" /\ f # disk[path[e]] =>
       <<path[e], "video">> \in raw /\ (f.subtitle => <<path[e], "subtitle">> \in raw)

LEMMA MuxWrites ==
  ASSUME TitleInv, NEW e \in T!All, T!MuxBegins(e) \/ T!MuxEnds(e)
  PROVE  \E s \in Ends, f \in Results : Written(e, s, f)
<1> USE DEF TitleInv, TitleTypes, Ends
<1>1. /\ stage[e] \in {"muxing", "writing"} /\ UNCHANGED <<picked, next, path, subtitle>>
      /\ T!Kind(e) = "manifest" /\ path[e] \in T!Paths /\ subtitle[e] \in Settled
  <2>1. stage[e] \in {"muxing", "writing"} /\ UNCHANGED <<picked, next, path, subtitle>>
    BY DEF T!MuxBegins, T!MuxEnds
  <2>2. EntryInv(e) /\ path[e] \in T!Paths \cup {T!NoPath}  OBVIOUS
  <2>3. QED  BY <2>1, <2>2 DEF EntryInv, Started
<1>2. disk[path[e]] \in Results /\ subtitle[e] # "fetched"  BY <1>1 DEF Settled
<1>3. ASSUME stage[e] = "muxing",
             T!FileAt(path[e], [of |-> e, whole |-> FALSE, open |-> TRUE,
                                subtitle |-> subtitle[e] = "converted"]),
             raw' = raw, T!Goto(e, "writing")
      PROVE  \E s \in Ends, f \in Results : Written(e, s, f)
  <2> DEFINE converted == subtitle[e] = "converted"
  <2>1. PICK f \in Results :
          /\ disk' = [disk EXCEPT ![path[e]] = f]
          /\ ~f.whole /\ f.open /\ f.of = e /\ (f.subtitle <=> converted)
    <3>1. converted \in BOOLEAN  OBVIOUS
    <3>2. disk' = [disk EXCEPT ![path[e]] =
                     [of |-> e, whole |-> FALSE, open |-> TRUE, subtitle |-> converted]]
      BY <1>3 DEF T!FileAt
    <3> HIDE DEF converted
    <3>3. [of |-> e, whole |-> FALSE, open |-> TRUE, subtitle |-> converted] \in Results
      BY <3>1 DEF Results
    <3>4. QED  BY <3>2, <3>3
  <2>2. /\ <<path[e], "video">> \in raw
        /\ f.subtitle => <<path[e], "subtitle">> \in raw
    BY <1>3, <2>1 DEF EntryInv
  <2>3. Written(e, "writing", f)
    BY <1>1, <1>3, <2>1, <2>2 DEF Written, RawStays, T!Goto
  <2>4. QED  BY <2>3
<1>4. ASSUME NEW s \in {"failed", "canceled"}, T!Goto(e, s), UNCHANGED <<disk, raw>>
      PROVE  Written(e, s, disk[path[e]])
  BY <1>1, <1>4 DEF Written, RawStays, T!Goto
<1>5. CASE T!MuxBegins(e)
  <2>1. \/ /\ T!FileAt(path[e], [of |-> e, whole |-> FALSE, open |-> TRUE,
                                 subtitle |-> subtitle[e] = "converted"])
           /\ T!Goto(e, "writing")
        \/ T!Goto(e, T!Failed) /\ UNCHANGED disk
    BY <1>5 DEF T!MuxBegins
  <2>2. stage[e] = "muxing" /\ raw' = raw /\ T!Failed \in {"failed", "canceled"}
    BY <1>5 DEF T!MuxBegins, T!Failed
  <2>3. QED  BY <1>2, <1>3, <1>4, <2>1, <2>2
<1>6. CASE T!MuxEnds(e)
  <2>1. /\ stage[e] = "writing" /\ UNCHANGED disk
        /\ T!Failed \in {"failed", "canceled"}
    BY <1>6 DEF T!MuxEnds, T!Failed
  <2>2. CASE disk[path[e]].whole
    <3>1. T!Goto(e, "done") /\ raw' = raw \ T!Temporary(e)  BY <1>6, <2>2 DEF T!MuxEnds
    <3>2. RawStays(e, disk[path[e]])  BY <1>2, <2>2, <3>1 DEF RawStays, T!Temporary
    <3>3. /\ disk[path[e]].of = e
          /\ disk[path[e]].subtitle <=> subtitle[e] = "converted"
      BY <2>1 DEF EntryInv
    <3>4. Written(e, "done", disk[path[e]])
      BY <1>1, <2>1, <2>2, <3>1, <3>2, <3>3 DEF Written, T!Goto
    <3>5. QED  BY <1>2, <3>4
  <2>3. CASE ~disk[path[e]].whole
    <3>1. T!Goto(e, T!Failed) /\ raw' = raw  BY <1>6, <2>3 DEF T!MuxEnds
    <3>2. QED  BY <1>2, <1>4, <2>1, <3>1
  <2>4. QED  BY <2>2, <2>3
<1>7. QED  BY <1>5, <1>6

LEMMA FileWrites ==
  ASSUME TitleInv, NEW e \in T!All, T!FetchFile(e)
  PROVE  \E s \in Ends, f \in Results : Written(e, s, f)
<1> USE DEF TitleInv, TitleTypes, Ends
<1>1. /\ stage[e] = "file" /\ UNCHANGED <<picked, next, path, subtitle, raw>>
      /\ T!Kind(e) = "file" /\ path[e] \in T!Paths
  <2>1. stage[e] = "file" /\ UNCHANGED <<picked, next, path, subtitle, raw>>
    BY DEF T!FetchFile
  <2>2. EntryInv(e) /\ path[e] \in T!Paths \cup {T!NoPath}  OBVIOUS
  <2>3. QED  BY <2>1, <2>2 DEF EntryInv, Started
<1>2. CASE T!Complete(e)
  <2>1. T!Goto(e, "done") /\ UNCHANGED disk  BY <1>2 DEF T!FetchFile
  <2>2. Written(e, "done", disk[path[e]])
    BY <1>1, <1>2, <2>1 DEF Written, RawStays, T!Goto, T!Complete
  <2>3. QED  BY <1>1, <2>2
<1>3. CASE ~T!Complete(e)
  <2>1. PICK s \in {"file", "done", "failed", "canceled"}, whole \in BOOLEAN :
          /\ T!Goto(e, s) /\ (s = "done" => whole)
          /\ T!FileAt(path[e], T!Copied(e, whole))
    BY <1>3 DEF T!FetchFile, T!Failed
  <2>2. T!Copied(e, whole) \in Results  BY DEF T!Copied, Results
  <2>3. Written(e, s, T!Copied(e, whole))
    BY <1>1, <2>1 DEF Written, RawStays, T!Goto, T!FileAt, T!Copied
  <2>4. QED  BY <2>2, <2>3
<1>4. QED  BY <1>2, <1>3

(* No other entry has the path that is written to.                         *)
LEMMA TitleWritten ==
  ASSUME TitleInv, NEW e \in T!All, T!MuxBegins(e) \/ T!MuxEnds(e) \/ T!FetchFile(e)
  PROVE  TitleInv'
<1> USE DEF TitleInv, TitleTypes
<1>1. path[e] = Canon(e) /\ Named(e) /\ Canon(e) \in T!Paths /\ Canon(e) # T!NoPath
  BY CanonIsPath DEF T!MuxBegins, T!MuxEnds, T!FetchFile, EntryInv, Started
<1>2. PICK s \in Ends, f \in Results : Written(e, s, f)
  BY MuxWrites, FileWrites
<1>3. ASSUME NEW d \in T!All, d # e PROVE EntryInv(d)'
  <2>1. path[d] # path[e] /\ (path[d] \in T!Paths \/ path[d] = T!NoPath)
    <3>1. path[d] = T!NoPath \/ (Named(d) /\ path[d] = Canon(d))  BY DEF EntryInv
    <3>2. QED  BY <1>1, <1>3, <3>1, CanonDiffers
  <2>2. path[d] \in T!Paths => disk'[path[d]] = disk[path[d]]  BY <1>2, <2>1 DEF Written
  <2>3. /\ EntryInv(d)
        /\ \A k \in {"video", "subtitle"} :
             <<path[d], k>> \in raw /\ path[d] \in T!Paths => <<path[d], k>> \in raw'
    BY <1>2, <2>1 DEF Written, RawStays
  <2>4. /\ UNCHANGED <<next, path>> /\ stage'[d] = stage[d] /\ subtitle'[d] = subtitle[d]
    BY <1>2, <1>3 DEF Written
  <2>5. QED
    BY <2>1, <2>2, <2>3, <2>4, SMTT(30) DEF EntryInv, Started, OnDisk, Muxed
<1>4. EntryInv(e)'
  <2>1. /\ UNCHANGED <<next, path, subtitle>> /\ stage'[e] = s /\ disk'[path[e]] = f
        /\ EntryInv(e) /\ s \notin {"rest", "muxing", "video", "loading", "skipped"}
    BY <1>1, <1>2 DEF Written, Ends
  <2>2. subtitle[e] \in {"fetched", "unreadable"} => <<path[e], "subtitle">> \in raw'
    BY <1>1, <1>2 DEF Written, RawStays, EntryInv
  <2>3. QED
    BY <1>1, <1>2, <2>1, <2>2, SMTT(30) DEF EntryInv, Started, OnDisk, Muxed, Written
<1>5. ASSUME NEW p \in T!Paths PROVE FileInv(p)'
  <2>1. FileInv(p) /\ (p # path[e] => disk'[p] = disk[p]) /\ (p = path[e] => disk'[p] = f)
    BY <1>1, <1>2 DEF Written
  <2>2. \A k \in {"video", "subtitle"} :
          <<p, k>> \in raw /\ (p # path[e] \/ ~f.whole) => <<p, k>> \in raw'
    BY <1>2 DEF Written, RawStays
  <2>3. CASE p # path[e] \/ f = disk[path[e]]  BY <2>1, <2>2, <2>3 DEF FileInv
  <2>4. CASE p = path[e] /\ f # disk[path[e]]
    BY <1>1, <1>2, <2>1, <2>2, <2>4 DEF FileInv, Written
  <2>5. QED  BY <2>3, <2>4
<1>6. TitleTypes'  BY <1>1, <1>2 DEF Written, Ends
<1>7. QED  BY <1>3, <1>4, <1>5, <1>6

(* FFmpeg finishes or leaves a file that is open, of a run or of one that  *)
(* was aborted: no title that is done has such a file.                     *)
LEMMA TitleFinished ==
  ASSUME TitleInv, NEW p \in T!Paths, T!FFmpegExits(p)
  PROVE  TitleInv'
<1> USE DEF TitleInv, TitleTypes
<1>1. PICK whole \in BOOLEAN :
        disk' = [disk EXCEPT ![p] = [disk[p] EXCEPT !.whole = whole, !.open = FALSE]]
  BY DEF T!FFmpegExits, T!FileAt
<1>2. UNCHANGED <<picked, next, stage, path, subtitle, raw>> /\ disk[p].open
  BY DEF T!FFmpegExits
<1>3. disk[p] \in Results /\ disk[p] # T!NoFile /\ FileInv(p) /\ ~disk[p].whole
  BY <1>2 DEF FileInv, T!NoFile
<1>4. /\ disk'[p] \in Results /\ disk'[p].of = disk[p].of /\ ~disk'[p].open
      /\ disk'[p].subtitle = disk[p].subtitle
  BY <1>1, <1>3 DEF Results
<1>5. \A q \in T!Paths : q # p => disk'[q] = disk[q]  BY <1>1
<1>6. ASSUME NEW q \in T!Paths PROVE FileInv(q)'
  <2>1. CASE q # p  BY <1>2, <1>5, <2>1 DEF FileInv
  <2>2. CASE q = p  BY <1>2, <1>3, <1>4, <2>2 DEF FileInv
  <2>3. QED  BY <2>1, <2>2
<1>7. ASSUME NEW d \in T!All PROVE EntryInv(d)'
  <2>1. EntryInv(d) /\ (path[d] \in T!Paths \/ path[d] = T!NoPath)  OBVIOUS
  <2>2. stage[d] = "done" => path[d] # p /\ path[d] \in T!Paths
    BY <1>3, <2>1 DEF EntryInv, OnDisk
  <2>3. path[d] \in T!Paths => /\ disk'[path[d]].of = disk[path[d]].of
                               /\ disk'[path[d]].subtitle = disk[path[d]].subtitle
    BY <1>4, <1>5
  <2>4. QED
    BY <1>2, <1>5, <2>1, <2>2, <2>3, SMTT(30) DEF EntryInv, Started, OnDisk, Muxed
<1>8. TitleTypes'  BY <1>1, <1>2, <1>4, <1>5
<1>9. QED  BY <1>6, <1>7, <1>8

(* The next run finds what is on disk and gives every entry the same path. *)
LEMMA TitleReruns ==
  ASSUME ~RetryPick, TitleInv, T!Interrupt \/ T!Rerun \/ UNCHANGED titlesVars
  PROVE  TitleInv'
<1> USE DEF TitleInv, TitleTypes
<1>1. CASE T!Interrupt \/ UNCHANGED titlesVars
  <2>1. UNCHANGED <<picked, next, stage, path, subtitle, disk, raw>>
    BY <1>1 DEF T!Interrupt, titlesVars
  <2>2. QED  BY <2>1 DEF EntryInv, FileInv, Started, OnDisk, Muxed
<1>2. CASE T!Rerun
  <2>1. /\ picked' = picked /\ next' = 1 /\ UNCHANGED <<disk, raw>>
        /\ stage' = [e \in T!All |-> "idle"] /\ path' = [e \in T!All |-> T!NoPath]
        /\ subtitle' = [e \in T!All |-> "todo"]
    BY <1>2 DEF T!Rerun
  <2>2. ASSUME NEW e \in T!All PROVE EntryInv(e)'
    <3>1. ~(e < 1)  BY TitlesAssumption DEF T!All
    <3>2. QED  BY <2>1, <3>1 DEF EntryInv, Started, OnDisk, Muxed
  <2>3. ASSUME NEW p \in T!Paths PROVE FileInv(p)'  BY <2>1 DEF FileInv
  <2>4. QED  BY <2>1, <2>2, <2>3
<1>3. QED  BY <1>1, <1>2

(* An entry's path is its own in every run, what is on disk was written by *)
(* the entry whose path it is, and a muxed output that is cut, by an       *)
(* FFmpeg that failed or was left behind, still has its tracks beside it,  *)
(* if no run is a "-pick" of the one before; for any list, any number of   *)
(* runs and any interrupts.                                                *)
THEOREM TitlesInvariance == ASSUME ~RetryPick PROVE Spec => []TitleInv
<1>1. TitleInv /\ [Next]_vars => TitleInv'
  <2> SUFFICES ASSUME TitleInv, [Next]_vars PROVE TitleInv'  OBVIOUS
  <2>1. T!Next \/ UNCHANGED titlesVars
    BY DEF Next, TitlesNext, WorkerNext, RPCNext, vars, titlesVars
  <2>2. QED
    BY <2>1, TitleDispatch, TitleFetch, TitleWritten, TitleFinished, TitleReruns
    DEF T!Next, T!TitleStep
<1>2. QED  BY TitleInit, <1>1, PTL DEF Spec

(* What a run reports as done is whole on disk under a path no other entry *)
(* writes, what it skips as there is the entry's own output, and what that *)
(* output lacks, a subtitle that did not convert or all that FFmpeg left   *)
(* out when it was cut, can still be read from the raw files               *)
(* (downloadPlaylist in playlist.go, download in main.go).  That a skipped *)
(* output is whole is not so: TitlesCutMux.cfg is the counterexample; nor  *)
(* does the theorem hold with the "-pick" that a run with failures         *)
(* advises, RetryPick = TRUE.                                              *)
THEOREM TitlesAreKept == ASSUME ~RetryPick PROVE Spec => []TitlesKept
<1>1. TitleInv => TitlesKept
  <2> SUFFICES ASSUME TitleInv PROVE TitlesKept  OBVIOUS
  <2>1. T!ReportedIsOnDisk
    BY DEF T!ReportedIsOnDisk, TitleInv, TitleTypes, EntryInv, OnDisk
  <2>2. T!SubtitleRecoverable
    <3> SUFFICES ASSUME NEW e \in T!All, Muxed(e), ~disk[path[e]].subtitle
                 PROVE  \/ subtitle[e] \in {"refused", "cut"}
                        \/ <<path[e], "subtitle">> \in raw
      BY DEF T!SubtitleRecoverable, Muxed
    <3>1. QED  BY DEF TitleInv, EntryInv, Settled
  <2>3. T!CutMuxKeepsRaw  BY DEF T!CutMuxKeepsRaw, TitleInv, FileInv
  <2>4. QED  BY <2>1, <2>2, <2>3 DEF TitlesKept
<1>2. QED  BY <1>1, TitlesInvariance, PTL
================================================================================
