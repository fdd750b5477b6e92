-------------------------- MODULE AcceptLoopProofs --------------------------
(***************************************************************************)
(* Proofs about AcceptLoop, for any number of connections, any cap and any *)
(* number of workers.                                                      *)
(*                                                                         *)
(* The bound on the JoinSet rests on where the loop is: accept is polled   *)
(* only when join_next had nothing to hand out, so at that point every     *)
(* tracked task holds a permit or is being dropped by a worker (AtAccept), *)
(* and a task that has finished is in the queue of join_next (Queue).      *)
(***************************************************************************)
EXTENDS AcceptLoop, FiniteSetTheorems, TLAPS

\* The queue of join_next: each finished task once.
Queue ==
  /\ \A i \in 1 .. Len(done) : conn[done[i]] = "finished"
  /\ \A i, j \in 1 .. Len(done) : done[i] = done[j] => i = j
  /\ \A c \in Conns : conn[c] = "finished" => \E i \in 1 .. Len(done) : done[i] = c

\* Nothing is left of a process that has ended, and no worker drops two futures.
Counts ==
  /\ Ended => \A c \in Conns : conn[c] = "absent"
  /\ Cardinality(In("unwinding")) <= Workers

\* Accept is polled when nothing that has finished is still tracked.
AtAccept == pc = "accept" => Cardinality(Tasks) <= MaxConnections + Workers

\* After a late accept the loop can only break.
LateBreaks == late <= 1 /\ (late = 1 => signal /\ pc \notin {"join", "accept", "parked"})

\* Tasks are aborted after the drain budget only, unless accept fails.
AbortAfterDrain == pc \in {"abort", "leaving"} => "drain" \in elapsed

LoopInv ==
  TypeOK /\ Queue /\ Counts /\ AtAccept /\ TrackedBounded /\ LateBreaks /\ AbortAfterDrain
    /\ DrainHonoured

-----------------------------------------------------------------------------
(* Sets of connections and the queue.                                       *)

\* The connections in some states are finitely many.
LEMMA SubsetsFinite ==
  ASSUME NEW S \in SUBSET Conns PROVE IsFiniteSet(S) /\ Cardinality(S) \in Nat
<1>1. IsFiniteSet(S)
  BY AcceptAssumption, FS_Subset
<1> QED BY <1>1, FS_CardinalityType

\* What Tail leaves of a sequence.
LEMMA TailOf ==
  ASSUME NEW S, NEW q \in Seq(S), q # << >>
  PROVE  /\ Head(q) = q[1] /\ Head(q) \in S /\ 1 \in 1 .. Len(q)
         /\ Tail(q) \in Seq(S) /\ Len(Tail(q)) = Len(q) - 1
         /\ \A i \in 1 .. Len(Tail(q)) : Tail(q)[i] = q[i + 1] /\ i + 1 \in 1 .. Len(q)
OBVIOUS

\* What Append makes of a sequence.
LEMMA AppendTo ==
  ASSUME NEW S, NEW q \in Seq(S), NEW x \in S
  PROVE  /\ Append(q, x) \in Seq(S) /\ Len(Append(q, x)) = Len(q) + 1
         /\ \A i \in 1 .. Len(q) : Append(q, x)[i] = q[i]
         /\ Append(q, x)[Len(q) + 1] = x
OBVIOUS

-----------------------------------------------------------------------------
(* The queue of join_next.                                                  *)

\* Reaping takes the first of the queue out of both.
LEMMA QueueAfterReap == ASSUME TypeOK, Queue, Reap PROVE Queue'
<1> USE DEF TypeOK
<1>1. /\ done \in Seq(Conns) /\ done # << >>
      /\ conn' = [conn EXCEPT ![Head(done)] = "absent"] /\ done' = Tail(done)
  BY DEF Reap
<1>2. /\ Head(done) = done[1] /\ Head(done) \in Conns /\ 1 \in 1 .. Len(done)
      /\ Len(done') = Len(done) - 1
      /\ \A i \in 1 .. Len(done') : done'[i] = done[i + 1] /\ i + 1 \in 1 .. Len(done)
  BY <1>1, TailOf
<1>3. ASSUME NEW i \in 1 .. Len(done') PROVE conn'[done'[i]] = "finished"
  <2>1. done[i + 1] # done[1]
    BY <1>2, <1>3 DEF Queue
  <2>2. conn[done[i + 1]] = "finished" /\ done[i + 1] \in Conns
    BY <1>1, <1>2, <1>3 DEF Queue
  <2> QED BY <1>1, <1>2, <1>3, <2>1, <2>2
<1>4. ASSUME NEW i \in 1 .. Len(done'), NEW j \in 1 .. Len(done'), done'[i] = done'[j] PROVE i = j
  <2>1. done[i + 1] = done[j + 1] /\ i + 1 \in 1 .. Len(done) /\ j + 1 \in 1 .. Len(done)
    BY <1>2, <1>4
  <2>2. i + 1 = j + 1
    BY <2>1 DEF Queue
  <2> QED BY <2>2
<1>5. ASSUME NEW c \in Conns, conn'[c] = "finished" PROVE \E i \in 1 .. Len(done') : done'[i] = c
  <2>1. conn[c] = "finished" /\ c # done[1]
    BY <1>1, <1>2, <1>5
  <2>2. PICK i \in 1 .. Len(done) : done[i] = c
    BY <2>1 DEF Queue
  <2>3. i - 1 \in 1 .. Len(done') /\ (i - 1) + 1 = i
    BY <1>2, <2>1, <2>2
  <2> QED BY <1>2, <2>2, <2>3
<1> QED BY <1>3, <1>4, <1>5 DEF Queue

\* A task that finishes goes to the end.
LEMMA QueueAfterFinished ==
  ASSUME TypeOK, Queue, NEW c \in Conns, TaskFinished(c) PROVE Queue'
<1> USE DEF TypeOK
<1>1. /\ conn[c] = "unwinding" /\ conn' = [conn EXCEPT ![c] = "finished"]
      /\ done' = Append(done, c)
  BY DEF TaskFinished
<1>2. /\ Len(done') = Len(done) + 1 /\ Len(done) \in Nat
      /\ \A i \in 1 .. Len(done) : done'[i] = done[i]
      /\ done'[Len(done) + 1] = c
  BY <1>1, AppendTo
<1>3. \A i \in 1 .. Len(done) : done[i] \in Conns /\ conn[done[i]] = "finished" /\ done[i] # c
  BY <1>1 DEF Queue
<1>4. \A i \in 1 .. Len(done') : i \in 1 .. Len(done) \/ i = Len(done) + 1
  BY <1>2
<1>5. ASSUME NEW i \in 1 .. Len(done') PROVE conn'[done'[i]] = "finished"
  BY <1>1, <1>2, <1>3, <1>4, <1>5
<1>6. ASSUME NEW i \in 1 .. Len(done'), NEW j \in 1 .. Len(done'), done'[i] = done'[j] PROVE i = j
  BY <1>2, <1>3, <1>4, <1>6 DEF Queue
<1>7. ASSUME NEW d \in Conns, conn'[d] = "finished" PROVE \E i \in 1 .. Len(done') : done'[i] = d
  <2>1. CASE d = c
    BY <1>2, <2>1
  <2>2. CASE d # c
    <3>1. PICK i \in 1 .. Len(done) : done[i] = d
      BY <1>1, <1>7, <2>2 DEF Queue
    <3>2. i \in 1 .. Len(done')
      BY <1>2, <3>1
    <3> QED BY <1>2, <3>1, <3>2
  <2> QED BY <2>1, <2>2
<1> QED BY <1>5, <1>6, <1>7 DEF Queue

-----------------------------------------------------------------------------
(* What a step does to connections, queue and permits.                      *)

\* serve returns with tasks left: the listener's backlog is gone.
BacklogDropped == DropListener /\ UNCHANGED <<done, permits>>

\* The steps of Next, by what they change of conn, done and permits.
LEMMA Effects ==
  ASSUME [Next]_vars
  PROVE  \/ UNCHANGED <<conn, done, permits>>
         \/ Reap /\ UNCHANGED permits
         \/ Exit("exited") \/ Exit("failed")
         \/ BacklogDropped
         \/ \E c \in Conns :
              Accept(c) \/ Reject(c) \/ Connect(c) \/ TaskEnds(c) \/ TaskFinished(c)
<1>1. CASE MainStep
  BY <1>1
  DEF MainStep, PollShutdown, Break, PollJoin, Park, Wake, JoinOne, DrainTimeout, GraceTimeout, RuntimeGone,
      BacklogDropped
<1>2. CASE AcceptFails \/ Signal \/ Tick
  BY <1>2 DEF AcceptFails, Signal, Tick, BacklogDropped
<1>3. CASE UNCHANGED vars
  BY <1>3 DEF vars
<1> QED BY <1>1, <1>2, <1>3 DEF Next

\* A process that has ended does nothing more.
LEMMA EndedStays == ASSUME Counts, Ended, [Next]_vars PROVE UNCHANGED vars
<1>1. /\ \A c \in Conns : conn[c] = "absent"
      /\ pc \notin Polls \cup Drains \cup Leaves
  BY DEF Counts, Ended, Polls, Drains, Leaves
<1>2. ~MainStep
  BY <1>1
  DEF MainStep, PollShutdown, Break, PollJoin, Park, Wake, Accept, Reject, JoinOne, DrainTimeout,
      GraceTimeout, RuntimeGone, Polls, Drains, Leaves
<1>3. ~AcceptFails /\ ~Signal /\ ~Tick
  BY <1>1 DEF AcceptFails, Signal, Tick, Ended, Polls, Drains
<1>4. \A c \in Conns : ~Connect(c) /\ ~TaskEnds(c) /\ ~TaskFinished(c)
  BY <1>1 DEF Connect, TaskEnds, TaskFinished
<1> QED BY <1>2, <1>3, <1>4 DEF Next

\* The queue holds the finished tasks after every step.
LEMMA QueueStep == TypeOK /\ Queue /\ [Next]_vars => Queue'
<1>1. SUFFICES ASSUME TypeOK, Queue, [Next]_vars PROVE Queue'
  OBVIOUS
<1>2. CASE Reap
  BY <1>1, <1>2, QueueAfterReap
<1>3. ASSUME NEW c \in Conns, TaskFinished(c) PROVE Queue'
  BY <1>1, <1>3, QueueAfterFinished
<1>4. CASE Exit("exited") \/ Exit("failed")
  <2>1. done' = << >> /\ \A c \in Conns : conn'[c] = "absent"
    BY <1>4 DEF Exit
  <2>2. Len(done') = 0
    BY <2>1
  <2> QED BY <2>1, <2>2 DEF Queue
<1>5. ASSUME done' = done, \A c \in Conns : conn'[c] = "finished" <=> conn[c] = "finished"
      PROVE  Queue'
  <2>1. \A i \in 1 .. Len(done) : done[i] \in Conns
    BY <1>1 DEF TypeOK
  <2> QED BY <1>1, <1>5, <2>1 DEF Queue
<1>6. CASE UNCHANGED <<conn, done, permits>>
  BY <1>5, <1>6
<1>7. CASE BacklogDropped
  BY <1>5, <1>7 DEF BacklogDropped, DropListener
<1>8. ASSUME NEW c \in Conns, Accept(c) \/ Reject(c) \/ Connect(c) \/ TaskEnds(c) PROVE Queue'
  BY <1>1, <1>5, <1>8 DEF TypeOK, Accept, Reject, Connect, TaskEnds
<1> QED BY <1>1, <1>2, <1>3, <1>4, <1>6, <1>7, <1>8, Effects

-----------------------------------------------------------------------------
(* Permits and workers.                                                     *)

\* Each permit is in the semaphore or held by a running task.
PermitsAdd ==
  /\ permits \in 0 .. MaxConnections
  /\ permits + Cardinality(In("running")) = MaxConnections

\* A step that leaves permits and running tasks alone keeps their sum.
LEMMA PermitsSame ==
  ASSUME PermitsAdd, permits' = permits, In("running")' = In("running")
  PROVE  PermitsAdd'
BY DEF PermitsAdd

\* The last task to be joined has finished.
LEMMA LastFinished ==
  ASSUME TypeOK, Queue, Cardinality(Tasks) = 1, done # << >> PROVE In("running") = {}
<1>1. Head(done) \in Conns /\ conn[Head(done)] = "finished"
  BY TailOf DEF TypeOK, Queue
<1>2. IsFiniteSet(Tasks)
  BY SubsetsFinite DEF Tasks
<1>3. PICK x : Tasks = {x}
  BY <1>2, FS_Singleton, Zenon
<1>4. Head(done) = x
  BY <1>1, <1>3 DEF Tasks
<1> QED BY <1>1, <1>3, <1>4 DEF Tasks, In

\* The process ends when nothing is served any more.
LEMMA ExitIdle ==
  ASSUME TypeOK, Queue, Counts, [Next]_vars, Ended' PROVE In("running") = {}
<1>1. CASE Ended
  BY <1>1 DEF Counts, In
<1>2. CASE ~Ended
  <2>1. Break \/ JoinOne \/ RuntimeGone
    BY <1>2
    DEF Next, MainStep, PollShutdown, PollJoin, Park, Wake, Accept, Reject, DrainTimeout,
        GraceTimeout, AcceptFails, Connect, TaskEnds, TaskFinished, Signal, Tick, vars, Ended
  <2>2. CASE Break
    BY <1>2, <2>2 DEF Break, Ended, Tasks, In
  <2>3. CASE JoinOne
    <3>1. Cardinality(Tasks) = 1 /\ done # << >>
      BY <1>2, <2>3 DEF JoinOne, Ended
    <3> QED BY <3>1, LastFinished
  <2>4. CASE RuntimeGone
    BY <2>4 DEF RuntimeGone
  <2> QED BY <2>1, <2>2, <2>3, <2>4
<1> QED BY <1>1, <1>2

\* Accept takes a permit for the task it starts, the end of a task gives it back.
LEMMA PermitsStep ==
  ASSUME TypeOK, Queue, Counts, [Next]_vars PROVE PermitsAdd'
<1> USE DEF TypeOK
<1>1. PermitsAdd /\ conn \in [Conns -> ConnStates]
  BY DEF PermitsAdd
<1>2. IsFiniteSet(In("running")) /\ Cardinality(In("running")) \in Nat
  BY SubsetsFinite DEF In
<1>3. ASSUME UNCHANGED <<conn, done, permits>> PROVE PermitsAdd'
  BY <1>1, <1>3, PermitsSame DEF In
<1>4. ASSUME Reap, permits' = permits PROVE PermitsAdd'
  <2>1. Head(done) \in Conns /\ conn[Head(done)] = "finished"
    BY <1>4, TailOf DEF Reap, Queue
  <2>2. In("running")' = In("running")
    BY <1>1, <1>4, <2>1 DEF Reap, In
  <2> QED BY <1>1, <1>4, <2>2, PermitsSame
<1>5. ASSUME Exit("exited") \/ Exit("failed") PROVE PermitsAdd'
  <2>1. In("running") = {}
    BY <1>5, ExitIdle DEF Exit, Ended
  <2>2. In("running")' = {} /\ permits' = permits
    BY <1>5 DEF Exit, In
  <2> QED BY <1>1, <2>1, <2>2, PermitsSame
<1>6. ASSUME BacklogDropped PROVE PermitsAdd'
  <2>1. In("running")' = In("running") /\ permits' = permits
    BY <1>6 DEF BacklogDropped, DropListener, In
  <2> QED BY <1>1, <2>1, PermitsSame
<1>7. ASSUME NEW c \in Conns, Accept(c) PROVE PermitsAdd'
  <2>1. permits > 0 /\ permits' = permits - 1 /\ c \notin In("running")
    BY <1>7 DEF Accept, In
  <2>2. In("running")' = In("running") \cup {c}
    BY <1>1, <1>7 DEF Accept, In
  <2>3. Cardinality(In("running")') = Cardinality(In("running")) + 1
    BY <1>2, <2>1, <2>2, FS_AddElement
  <2> QED BY <1>1, <1>2, <2>1, <2>3, AcceptAssumption DEF PermitsAdd
<1>8. ASSUME NEW c \in Conns, Reject(c) \/ Connect(c) \/ TaskFinished(c) PROVE PermitsAdd'
  <2>1. permits' = permits /\ In("running")' = In("running")
    BY <1>1, <1>8 DEF Reject, Connect, TaskFinished, In
  <2> QED BY <1>1, <2>1, PermitsSame
<1>9. ASSUME NEW c \in Conns, TaskEnds(c) PROVE PermitsAdd'
  <2>1. permits' = permits + 1 /\ c \in In("running")
    BY <1>9 DEF TaskEnds, In
  <2>2. In("running")' = In("running") \ {c}
    BY <1>1, <1>9 DEF TaskEnds, In
  <2>3. Cardinality(In("running")') = Cardinality(In("running")) - 1
    BY <1>2, <2>1, <2>2, FS_RemoveElement
  <2>4. Cardinality(In("running")) > 0
    BY <1>2, <2>1, FS_EmptySet
  <2> QED BY <1>1, <1>2, <2>1, <2>3, <2>4, AcceptAssumption DEF PermitsAdd
<1> QED BY <1>3, <1>4, <1>5, <1>6, <1>7, <1>8, <1>9, Effects

\* No step gives a worker a second future to drop.
LEMMA CountsStep == ASSUME TypeOK, Queue, Counts, [Next]_vars PROVE Counts'
<1> USE DEF TypeOK
<1>1. ASSUME Ended' PROVE \A c \in Conns : conn'[c] = "absent"
  <2>1. CASE Ended
    BY <2>1, EndedStays DEF Counts, vars
  <2>2. CASE ~Ended
    <3>1. Exit("exited") \/ Exit("failed")
      BY <1>1, <2>2
      DEF Next, MainStep, PollShutdown, Break, PollJoin, Park, Wake, Accept, Reject, JoinOne,
          DrainTimeout, GraceTimeout, RuntimeGone, AcceptFails, DropListener, Connect, TaskEnds, TaskFinished, Signal, Tick,
          vars, Ended
    <3> QED BY <3>1 DEF Exit
  <2> QED BY <2>1, <2>2
<1>2. IsFiniteSet(In("unwinding")) /\ Cardinality(In("unwinding")) \in Nat
  BY SubsetsFinite DEF In
<1>3. ASSUME In("unwinding")' \subseteq In("unwinding") PROVE Cardinality(In("unwinding")') <= Workers
  <2>1. /\ Cardinality(In("unwinding")') <= Cardinality(In("unwinding"))
        /\ Cardinality(In("unwinding")') \in Nat
    BY <1>2, <1>3, FS_Subset, FS_CardinalityType
  <2> QED BY <1>2, <2>1, AcceptAssumption DEF Counts
<1>4. ASSUME NEW c \in Conns, TaskEnds(c) PROVE Cardinality(In("unwinding")') <= Workers
  <2>1. Cardinality(In("unwinding")) < Workers /\ In("unwinding")' = In("unwinding") \cup {c}
    BY <1>4 DEF TaskEnds, In
  <2>2. \/ Cardinality(In("unwinding")') = Cardinality(In("unwinding"))
        \/ Cardinality(In("unwinding")') = Cardinality(In("unwinding")) + 1
    BY <1>2, <2>1, FS_AddElement
  <2> QED BY <1>2, <2>1, <2>2, AcceptAssumption
<1>5. ASSUME Reap PROVE In("unwinding")' \subseteq In("unwinding")
  <2>1. Head(done) \in Conns
    BY <1>5, TailOf DEF Reap
  <2> QED BY <1>5, <2>1 DEF Reap, In
<1>6. ASSUME \/ UNCHANGED <<conn, done, permits>>
             \/ Exit("exited") \/ Exit("failed") \/ BacklogDropped
             \/ \E c \in Conns : Accept(c) \/ Reject(c) \/ Connect(c) \/ TaskFinished(c)
      PROVE  In("unwinding")' \subseteq In("unwinding")
  BY <1>6 DEF Exit, BacklogDropped, DropListener, Accept, Reject, Connect, TaskFinished, In
<1>7. Cardinality(In("unwinding")') <= Workers
  BY <1>3, <1>4, <1>5, <1>6, Effects
<1> QED BY <1>1, <1>7 DEF Counts

\* Every step keeps the types.
LEMMA LoopTypeStep == ASSUME TypeOK, Queue, Counts, [Next]_vars PROVE TypeOK'
<1>1. PermitsAdd'
  BY PermitsStep
<1>2. conn' \in [Conns -> ConnStates] /\ done' \in Seq(Conns)
  <2>1. ASSUME Reap PROVE conn' \in [Conns -> ConnStates] /\ done' \in Seq(Conns)
    BY <2>1, TailOf DEF TypeOK, Reap, ConnStates
  <2>2. ASSUME NEW c \in Conns, TaskFinished(c) PROVE conn' \in [Conns -> ConnStates] /\ done' \in Seq(Conns)
    BY <2>2, AppendTo DEF TypeOK, TaskFinished, ConnStates
  <2>3. ASSUME UNCHANGED <<conn, done, permits>> PROVE conn' \in [Conns -> ConnStates] /\ done' \in Seq(Conns)
    BY <2>3 DEF TypeOK
  <2>4. ASSUME Exit("exited") \/ Exit("failed") PROVE conn' \in [Conns -> ConnStates] /\ done' \in Seq(Conns)
    <3>1. conn' = [c \in Conns |-> "absent"] /\ done' = << >>
      BY <2>4 DEF Exit
    <3>2. << >> \in Seq(Conns)
      OBVIOUS
    <3> QED BY <3>1, <3>2 DEF ConnStates
  <2>5. ASSUME BacklogDropped PROVE conn' \in [Conns -> ConnStates] /\ done' \in Seq(Conns)
    BY <2>5 DEF TypeOK, BacklogDropped, DropListener, ConnStates
  <2>6. ASSUME NEW c \in Conns, Accept(c) \/ Reject(c) \/ Connect(c) \/ TaskEnds(c)
        PROVE  conn' \in [Conns -> ConnStates] /\ done' \in Seq(Conns)
    BY <2>6 DEF TypeOK, Accept, Reject, Connect, TaskEnds, ConnStates
  <2> QED BY <2>1, <2>2, <2>3, <2>4, <2>5, <2>6, Effects
<1>3. signal' \in BOOLEAN /\ pc' \in Polls \cup Drains \cup Leaves \cup {"exited", "failed"}
  BY DEF TypeOK, Next, MainStep, PollShutdown, Break, PollJoin, Park, Wake, Accept, Reject, JoinOne,
         DrainTimeout, GraceTimeout, RuntimeGone, AcceptFails, DropListener, Connect, TaskEnds, TaskFinished, Signal, Tick, Exit,
         vars, Polls, Drains, Leaves
<1>4. elapsed' = elapsed \/ Tick
  BY DEF Next, MainStep, PollShutdown, Break, PollJoin, Park, Wake, Accept, Reject, JoinOne,
         DrainTimeout, GraceTimeout, RuntimeGone, AcceptFails, DropListener, Connect, TaskEnds, TaskFinished, Signal, Tick, Exit,
         vars
<1>5. elapsed' \in SUBSET {"drain", "grace"}
  BY <1>4 DEF TypeOK, Tick
<1>6. late' = late \/ late' = late + 1
  BY DEF Next, MainStep, PollShutdown, Break, PollJoin, Park, Wake, Accept, Reject, JoinOne,
         DrainTimeout, GraceTimeout, RuntimeGone, AcceptFails, DropListener, Connect, TaskEnds, TaskFinished, Signal, Tick, Exit,
         vars
<1>7. late' \in Nat
  BY <1>6 DEF TypeOK
<1>8. cut' \in SUBSET Conns
  BY DEF TypeOK, Next, MainStep, PollShutdown, Break, PollJoin, Park, Wake, Accept, Reject, JoinOne,
         DrainTimeout, GraceTimeout, RuntimeGone, AcceptFails, DropListener, Connect, TaskEnds, TaskFinished, Signal, Tick, In,
         vars
<1> QED BY <1>1, <1>2, <1>3, <1>5, <1>7, <1>8 DEF TypeOK, PermitsAdd

-----------------------------------------------------------------------------
(* The size of the JoinSet.                                                 *)

\* The cap holds in every state.
LEMMA CapFromTypes == TypeOK => CapRespected
<1>1. SUFFICES ASSUME TypeOK PROVE CapRespected
  OBVIOUS
<1>2. Cardinality(In("running")) \in Nat
  BY SubsetsFinite DEF In
<1> QED BY <1>1, <1>2, AcceptAssumption DEF TypeOK, CapRespected

\* Without finished tasks the JoinSet tracks what runs and what is dropped.
LEMMA TasksUnfinished ==
  ASSUME TypeOK, Counts, In("finished") = {}
  PROVE  Cardinality(Tasks) <= MaxConnections + Workers
<1>1. Tasks = In("running") \cup In("unwinding")
  BY DEF Tasks, In
<1>2. /\ IsFiniteSet(In("running")) /\ Cardinality(In("running")) \in Nat
      /\ IsFiniteSet(In("unwinding")) /\ Cardinality(In("unwinding")) \in Nat
      /\ Cardinality(In("running") \cap In("unwinding")) \in Nat
      /\ Cardinality(Tasks) \in Nat
  BY SubsetsFinite DEF In, Tasks
<1>3. Cardinality(Tasks) <= Cardinality(In("running")) + Cardinality(In("unwinding"))
  <2>1. Cardinality(In("running") \cup In("unwinding"))
          = Cardinality(In("running")) + Cardinality(In("unwinding"))
              - Cardinality(In("running") \cap In("unwinding"))
    BY <1>2, FS_Union
  <2> QED BY <1>1, <1>2, <2>1
<1>4. Cardinality(In("running")) <= MaxConnections /\ Cardinality(In("unwinding")) <= Workers
  BY CapFromTypes DEF CapRespected, Counts
<1> QED BY <1>2, <1>3, <1>4, AcceptAssumption

\* Accept is the only step that adds a task.
LEMMA TasksShrink ==
  ASSUME TypeOK, [Next]_vars, \A c \in Conns : ~Accept(c) PROVE Tasks' \subseteq Tasks
<1>1. ASSUME Reap PROVE Tasks' \subseteq Tasks
  <2>1. Head(done) \in Conns
    BY <1>1, TailOf DEF TypeOK, Reap
  <2> QED BY <1>1, <2>1 DEF TypeOK, Reap, Tasks
<1>2. ASSUME \/ UNCHANGED <<conn, done, permits>>
             \/ Exit("exited") \/ Exit("failed") \/ BacklogDropped
             \/ \E c \in Conns : Reject(c) \/ Connect(c) \/ TaskEnds(c) \/ TaskFinished(c)
      PROVE  Tasks' \subseteq Tasks
  BY <1>2 DEF TypeOK, Exit, BacklogDropped, DropListener, Reject, Connect, TaskEnds, TaskFinished, Tasks
<1> QED BY <1>1, <1>2, Effects

\* The loop comes to accept with nothing finished, or stays there.
LEMMA ComesToAccept ==
  ASSUME TypeOK, Queue, [Next]_vars, pc' = "accept"
  PROVE  pc = "accept" \/ In("finished") = {}
<1>1. pc = "accept" \/ PollShutdown \/ PollJoin
  BY DEF Next, MainStep, Break, Park, Wake, Accept, Reject, JoinOne, DrainTimeout, GraceTimeout, RuntimeGone,
         AcceptFails, DropListener, Connect, TaskEnds, TaskFinished, Signal, Tick, Exit, vars
<1>2. CASE PollShutdown
  BY <1>2 DEF PollShutdown, Tasks, In
<1>3. CASE PollJoin
  <2>1. done = << >>
    BY <1>3 DEF PollJoin
  <2>2. Len(done) = 0
    BY <2>1
  <2> QED BY <2>2 DEF Queue, In
<1> QED BY <1>1, <1>2, <1>3

\* Both bounds on the tasks are kept.
LEMMA BoundsStep ==
  ASSUME TypeOK, Queue, Counts, AtAccept, TrackedBounded, [Next]_vars
  PROVE  AtAccept' /\ TrackedBounded'
<1>1. IsFiniteSet(Tasks) /\ Cardinality(Tasks) \in Nat
  BY SubsetsFinite DEF Tasks
<1>2. ASSUME NEW c \in Conns, Accept(c) PROVE AtAccept' /\ TrackedBounded'
  <2>1. pc = "accept" /\ pc' = "shutdown" /\ Tasks' = Tasks \cup {c}
    BY <1>2 DEF TypeOK, Accept, Tasks
  <2>2. \/ Cardinality(Tasks') = Cardinality(Tasks)
        \/ Cardinality(Tasks') = Cardinality(Tasks) + 1
    BY <1>1, <2>1, FS_AddElement
  <2> QED BY <1>1, <2>1, <2>2, AcceptAssumption DEF AtAccept, TrackedBounded
<1>3. ASSUME \A c \in Conns : ~Accept(c) PROVE AtAccept' /\ TrackedBounded'
  <2>1. Cardinality(Tasks') <= Cardinality(Tasks) /\ Cardinality(Tasks') \in Nat
    BY <1>1, <1>3, TasksShrink, FS_Subset, FS_CardinalityType
  <2>2. pc' = "accept" => Cardinality(Tasks) <= MaxConnections + Workers
    BY ComesToAccept, TasksUnfinished DEF AtAccept
  <2> QED BY <1>1, <2>1, <2>2, AcceptAssumption DEF AtAccept, TrackedBounded
<1> QED BY <1>2, <1>3

-----------------------------------------------------------------------------
(* Shutdown.                                                                *)

\* A late accept ends the iteration, and the next one breaks.
LEMMA LateStep == ASSUME TypeOK, LateBreaks, [Next]_vars PROVE LateBreaks'
<1>1. CASE \E c \in Conns : Accept(c)
  <2>1. pc = "accept" /\ pc' = "shutdown" /\ signal' = signal
          /\ late' = IF signal THEN late + 1 ELSE late
    BY <1>1 DEF Accept
  <2>2. late = 0
    BY <2>1 DEF TypeOK, LateBreaks
  <2> QED BY <2>1, <2>2 DEF LateBreaks
<1>2. CASE \A c \in Conns : ~Accept(c)
  <2>1. late' = late
    BY <1>2 DEF Next, MainStep, PollShutdown, Break, PollJoin, Park, Wake, Accept, Reject, JoinOne,
         DrainTimeout, GraceTimeout, RuntimeGone, AcceptFails, DropListener, Connect, TaskEnds, TaskFinished, Signal, Tick, Exit,
         vars
  <2>2. signal => signal'
    BY DEF Next, MainStep, PollShutdown, Break, PollJoin, Park, Wake, Accept, Reject, JoinOne,
         DrainTimeout, GraceTimeout, RuntimeGone, AcceptFails, DropListener, Connect, TaskEnds, TaskFinished, Signal, Tick, Exit,
         vars
  <2>3. signal /\ pc \notin {"join", "accept", "parked"} => pc' \notin {"join", "accept", "parked"}
    BY DEF Next, MainStep, PollShutdown, Break, PollJoin, Park, Wake, Accept, Reject, JoinOne,
         DrainTimeout, GraceTimeout, RuntimeGone, AcceptFails, DropListener, Connect, TaskEnds, TaskFinished, Signal, Tick, Exit,
         vars, Drains, Leaves
  <2> QED BY <2>1, <2>2, <2>3 DEF LateBreaks
<1> QED BY <1>1, <1>2

\* Only an abort, which the elapsed budget leads to, or the failure of accept
\* ends a connection that is served.
LEMMA DrainStep ==
  ASSUME TypeOK, AbortAfterDrain, DrainHonoured, [Next]_vars
  PROVE  AbortAfterDrain' /\ DrainHonoured'
<1>1. "drain" \in elapsed => "drain" \in elapsed'
  BY DEF Next, MainStep, PollShutdown, Break, PollJoin, Park, Wake, Accept, Reject, JoinOne,
         DrainTimeout, GraceTimeout, RuntimeGone, AcceptFails, DropListener, Connect, TaskEnds, TaskFinished, Signal, Tick, Exit,
         vars
<1>2. pc' \in {"abort", "leaving"} => pc \in {"abort", "leaving"} \/ DrainTimeout
  BY DEF Next, MainStep, PollShutdown, Break, PollJoin, Park, Wake, Accept, Reject, JoinOne,
         DrainTimeout, GraceTimeout, RuntimeGone, AcceptFails, DropListener, Connect, TaskEnds, TaskFinished, Signal, Tick, Exit,
         vars, Drains, Leaves
<1>3. AbortAfterDrain'
  BY <1>1, <1>2 DEF AbortAfterDrain, DrainTimeout
<1>4. cut' = cut \/ pc \in Aborts
  BY DEF Next, MainStep, PollShutdown, Break, PollJoin, Park, Wake, Accept, Reject, JoinOne,
         DrainTimeout, GraceTimeout, RuntimeGone, AcceptFails, DropListener, Connect, TaskEnds, TaskFinished, Signal, Tick, Exit,
         vars
<1>5. pc \in {"failing", "failed"} => pc' \in {"failing", "failed"}
  BY DEF Next, MainStep, PollShutdown, Break, PollJoin, Park, Wake, Accept, Reject, JoinOne,
         DrainTimeout, GraceTimeout, RuntimeGone, AcceptFails, DropListener, Connect, TaskEnds, TaskFinished, Signal, Tick, Exit,
         vars, Drains, Polls, Leaves, Ended
<1> QED BY <1>1, <1>3, <1>4, <1>5 DEF AbortAfterDrain, DrainHonoured, Aborts, Leaves

-----------------------------------------------------------------------------
(* The invariant and what it implies.                                       *)

\* The invariant holds when serve is entered.
LEMMA LoopInit == Init => LoopInv
<1>1. SUFFICES ASSUME Init PROVE LoopInv
  OBVIOUS
<1>2. In("running") = {} /\ In("unwinding") = {} /\ Tasks = {}
  BY <1>1 DEF Init, In, Tasks
<1>3. Cardinality({}) = 0
  BY FS_EmptySet
<1>4. TypeOK
  <2>1. << >> \in Seq(Conns)
    OBVIOUS
  <2>2. MaxConnections \in 0 .. MaxConnections /\ MaxConnections + 0 = MaxConnections
    BY AcceptAssumption
  <2> QED BY <1>1, <1>2, <1>3, <2>1, <2>2 DEF Init, TypeOK, ConnStates, Polls
<1>5. Queue
  BY <1>1 DEF Init, Queue
<1>6. Counts /\ AtAccept /\ TrackedBounded
  <2>1. Cardinality(In("unwinding")) <= Workers /\ Cardinality(Tasks) <= MaxConnections + Workers + 1
    BY <1>2, <1>3, AcceptAssumption
  <2>2. pc = "shutdown"
    BY <1>1 DEF Init
  <2> QED BY <2>1, <2>2 DEF Counts, Ended, AtAccept, TrackedBounded
<1>7. LateBreaks /\ AbortAfterDrain /\ DrainHonoured
  BY <1>1 DEF Init, LateBreaks, AbortAfterDrain, DrainHonoured
<1> QED BY <1>4, <1>5, <1>6, <1>7 DEF LoopInv

\* The inductive invariant of the accept loop and the drain holds in every
\* reachable state.
THEOREM LoopInvariant == Spec => []LoopInv
<1>1. Init => LoopInv
  BY LoopInit
<1>2. LoopInv /\ [Next]_vars => LoopInv'
  BY LoopTypeStep, QueueStep, CountsStep, BoundsStep, LateStep, DrainStep DEF LoopInv
<1> QED BY <1>1, <1>2, PTL DEF Spec

\* The variables keep their ranges, and every permit is in the semaphore or
\* held by a running task.
THEOREM LoopTypeCorrect == Spec => []TypeOK
<1>1. LoopInv => TypeOK
  BY DEF LoopInv
<1> QED BY <1>1, LoopInvariant, PTL

\* Never more than max_connections connections are served.
THEOREM CapHolds == Spec => []CapRespected
<1>1. LoopInv => CapRespected
  BY CapFromTypes DEF LoopInv
<1> QED BY <1>1, LoopInvariant, PTL

\* The JoinSet never tracks more than the cap, one task per worker and one.
THEOREM TrackedBoundHolds == Spec => []TrackedBounded
<1>1. LoopInv => TrackedBounded
  BY DEF LoopInv
<1> QED BY <1>1, LoopInvariant, PTL

\* At most one connection is accepted after the signal.
THEOREM OneLateAcceptHolds == Spec => []OneLateAccept
<1>1. LoopInv => OneLateAccept
  BY DEF LoopInv, LateBreaks, OneLateAccept
<1> QED BY <1>1, LoopInvariant, PTL

\* The gateway ends no served connection before the drain budget is spent,
\* unless accept fails.
THEOREM DrainHonouredHolds == Spec => []DrainHonoured
<1>1. LoopInv => DrainHonoured
  BY DEF LoopInv
<1> QED BY <1>1, LoopInvariant, PTL
=============================================================================
