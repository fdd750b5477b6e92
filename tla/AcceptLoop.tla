----------------------------- MODULE AcceptLoop -----------------------------
(***************************************************************************)
(* The process around the connections: serve's accept loop with its        *)
(* semaphore and its JoinSet, and main's drain after a signal.             *)
(*                                                                         *)
(* One iteration of the biased select! polls shutdown, join_next and       *)
(* accept one after the other; connections, tasks and signals run on other *)
(* threads and interleave between the polls.  A connection is its socket   *)
(* and its task; names are reused once a task is reaped.                   *)
(***************************************************************************)
EXTENDS Naturals, Sequences, FiniteSets

CONSTANTS
  Conns,           \* connections
  MaxConnections,  \* config.max_connections
  Workers          \* threads of the tokio runtime that poll tasks

ASSUME AcceptAssumption ==
  /\ IsFiniteSet(Conns)
  /\ MaxConnections \in Nat \ {0}
  /\ Workers \in Nat \ {0}

VARIABLES
  conn,      \* connection -> see ConnStates
  done,      \* finished tasks in the order join_next returns them
  permits,   \* permits left in connection_limit
  signal,    \* SIGINT or SIGTERM has arrived
  pc,        \* what main is about to do
  elapsed,   \* timeouts that have run out: drain's budget, the unwind grace
  cut,       \* history: connections the gateway ended itself
  late       \* history: connections accepted after the signal arrived

vars == <<conn, done, permits, signal, pc, elapsed, cut, late>>

\* "unwinding": the task's future is being dropped by a worker; its permit is
\* back, the JoinSet does not know yet.
ConnStates == {"absent", "backlog", "running", "unwinding", "finished"}
In(s) == {c \in Conns : conn[c] = s}
Tasks == {c \in Conns : conn[c] \in {"running", "unwinding", "finished"}}
Polls == {"shutdown", "join", "accept", "parked"}
Drains == {"drain", "abort"}
Leaves == {"leaving", "failing"}
Aborts == {"abort"} \cup Leaves
Ended == pc \in {"exited", "failed"}

\* Every variable ranges over the values its Rust counterpart can hold, and
\* each permit is either in the semaphore or held by a running task.
TypeOK ==
  /\ conn \in [Conns -> ConnStates]
  /\ done \in Seq(Conns)
  /\ permits \in 0 .. MaxConnections
  /\ signal \in BOOLEAN
  /\ pc \in Polls \cup Drains \cup Leaves \cup {"exited", "failed"}
  /\ elapsed \in SUBSET {"drain", "grace"}
  /\ cut \in SUBSET Conns
  /\ late \in Nat
  /\ permits + Cardinality(In("running")) = MaxConnections

Init ==
  /\ conn = [c \in Conns |-> "absent"]
  /\ done = << >>
  /\ permits = MaxConnections
  /\ signal = FALSE
  /\ pc = "shutdown"
  /\ elapsed = {}
  /\ cut = {}
  /\ late = 0

-----------------------------------------------------------------------------
(* The accept loop.                                                         *)

\* The first branch of select!, and the precondition of the second.
PollShutdown ==
  /\ pc = "shutdown" /\ ~signal
  /\ pc' = IF Tasks # {} THEN "join" ELSE "accept"
  /\ UNCHANGED <<conn, done, permits, signal, elapsed, cut, late>>

\* What is left of the process: its listener, tasks and timers are gone.
Exit(how) ==
  /\ pc' = how
  /\ conn' = [c \in Conns |-> "absent"]
  /\ done' = << >>
  /\ UNCHANGED <<permits, signal, elapsed, late>>

\* serve returns: the listener and its backlog are dropped.
DropListener == conn' = [c \in Conns |-> IF conn[c] = "backlog" THEN "absent" ELSE conn[c]]

\* shutdown resolved; drain returns at once if there is nothing to wait for.
Break ==
  /\ pc = "shutdown" /\ signal
  /\ \/ /\ Tasks = {}
        /\ Exit("exited")
        /\ UNCHANGED cut
     \/ /\ Tasks # {}
        /\ pc' = "drain"
        /\ DropListener
        /\ UNCHANGED <<done, permits, signal, elapsed, cut, late>>

\* join_next hands out the oldest finished task.
Reap ==
  /\ done # << >>
  /\ conn' = [conn EXCEPT ![Head(done)] = "absent"]
  /\ done' = Tail(done)

\* Mutant: accept is polled before join_next.
PollJoinAfterAccept ==
  /\ pc = "join"
  /\ \/ Reap /\ In("backlog") = {} /\ pc' = "shutdown"
     \/ (done = << >> \/ In("backlog") # {}) /\ pc' = "accept" /\ UNCHANGED <<conn, done>>
  /\ UNCHANGED <<permits, signal, elapsed, cut, late>>

PollJoin ==
  /\ pc = "join"
  /\ \/ Reap /\ pc' = "shutdown"
     \/ done = << >> /\ pc' = "accept" /\ UNCHANGED <<conn, done>>
  /\ UNCHANGED <<permits, signal, elapsed, cut, late>>

\* Mutant: the permit is not moved into the task.
AcceptDropsPermit(c) ==
  /\ pc = "accept"
  /\ conn[c] = "backlog"
  /\ permits > 0
  /\ conn' = [conn EXCEPT ![c] = "running"]
  /\ late' = IF signal THEN late + 1 ELSE late
  /\ pc' = "shutdown"
  /\ UNCHANGED <<done, permits, signal, elapsed, cut>>

\* Mutant: select! without `biased`: another iteration may start with accept.
AcceptAgain(c) ==
  /\ pc = "accept"
  /\ conn[c] = "backlog"
  /\ permits > 0
  /\ permits' = permits - 1
  /\ conn' = [conn EXCEPT ![c] = "running"]
  /\ late' = IF signal THEN late + 1 ELSE late
  /\ pc' \in {"shutdown", "accept"}
  /\ UNCHANGED <<done, signal, elapsed, cut>>

\* A connection gets a permit and a task of its own.
Accept(c) ==
  /\ pc = "accept"
  /\ conn[c] = "backlog"
  /\ permits > 0
  /\ permits' = permits - 1
  /\ conn' = [conn EXCEPT ![c] = "running"]
  /\ late' = IF signal THEN late + 1 ELSE late
  /\ pc' = "shutdown"
  /\ UNCHANGED <<done, signal, elapsed, cut>>

\* Without a permit the socket is dropped.
Reject(c) ==
  /\ pc = "accept"
  /\ conn[c] = "backlog"
  /\ permits = 0
  /\ conn' = [conn EXCEPT ![c] = "absent"]
  /\ pc' = "shutdown"
  /\ UNCHANGED <<done, permits, signal, elapsed, cut, late>>

\* accept? returns from serve and from main: the JoinSet is dropped, which
\* aborts every task, and the runtime after it.
AcceptFails ==
  /\ pc = "accept"
  /\ pc' = "failing"
  /\ DropListener
  /\ UNCHANGED <<done, permits, signal, elapsed, cut, late>>

\* All three branches are pending; any of their wakers starts a new round.
Park ==
  /\ pc = "accept"
  /\ In("backlog") = {}
  /\ pc' = "parked"
  /\ UNCHANGED <<conn, done, permits, signal, elapsed, cut, late>>

Wake ==
  /\ pc = "parked"
  /\ signal \/ done # << >> \/ In("backlog") # {}
  /\ pc' = "shutdown"
  /\ UNCHANGED <<conn, done, permits, signal, elapsed, cut, late>>

-----------------------------------------------------------------------------
(* drain.                                                                   *)

\* Mutant: one task is joined, not all.
JoinFirst ==
  /\ pc \in Drains /\ done # << >>
  /\ Exit("exited")
  /\ UNCHANGED cut

\* One round of either join loop; the last one ends the process.
JoinOne ==
  /\ pc \in Drains
  /\ \/ /\ Cardinality(Tasks) > 1
        /\ Reap
        /\ UNCHANGED <<pc, permits, signal, elapsed, late>>
     \/ /\ Cardinality(Tasks) = 1 /\ done # << >>
        /\ Exit("exited")
  /\ UNCHANGED cut

\* Mutant: the drain has no limit.
DrainTimeoutWaits ==
  /\ pc = "drain" /\ "drain" \in elapsed
  /\ In("running") = {}
  /\ pc' = "abort"
  /\ UNCHANGED <<conn, done, permits, signal, elapsed, cut, late>>

\* Mutant: the drain budget is ignored.
DrainTimeoutAtOnce ==
  /\ pc = "drain"
  /\ pc' = "abort"
  /\ UNCHANGED <<conn, done, permits, signal, elapsed, cut, late>>

\* timeout(drain) elapsed with tasks left: abort_all, and the grace period.
DrainTimeout ==
  /\ pc = "drain" /\ "drain" \in elapsed
  /\ pc' = "abort"
  /\ UNCHANGED <<conn, done, permits, signal, elapsed, cut, late>>

\* drain stops waiting for the aborted tasks, and main returns.
GraceTimeout ==
  /\ pc = "abort" /\ "grace" \in elapsed
  /\ pc' = "leaving"
  /\ UNCHANGED <<conn, done, permits, signal, elapsed, cut, late>>

\* main has returned and #[tokio::main] drops the runtime.  The drop aborts
\* what is left and waits, without a limit, for each worker to come out of the
\* poll it is in.
RuntimeGone ==
  /\ pc \in Leaves
  /\ In("running") = {} /\ In("unwinding") = {}
  /\ Exit(IF pc = "leaving" THEN "exited" ELSE "failed")
  /\ UNCHANGED cut

-----------------------------------------------------------------------------
(* Clients, tasks, signals and time.                                        *)

Connect(c) ==
  /\ pc \in Polls
  /\ conn[c] = "absent"
  /\ conn' = [conn EXCEPT ![c] = "backlog"]
  /\ UNCHANGED <<done, permits, signal, pc, elapsed, cut, late>>

\* The future of a task is dropped: process_socket returned, it panicked, or an
\* abort reached it.  `_permit` goes back before the task is finished.
TaskEnds(c) ==
  /\ conn[c] = "running"
  /\ Cardinality(In("unwinding")) < Workers
  /\ conn' = [conn EXCEPT ![c] = "unwinding"]
  /\ permits' = permits + 1
  /\ UNCHANGED cut \/ (pc \in Aborts /\ cut' = cut \cup {c})
  /\ UNCHANGED <<done, signal, pc, elapsed, late>>

TaskFinished(c) ==
  /\ conn[c] = "unwinding"
  /\ conn' = [conn EXCEPT ![c] = "finished"]
  /\ done' = Append(done, c)
  /\ UNCHANGED <<permits, signal, pc, elapsed, cut, late>>

Signal ==
  /\ ~Ended /\ ~signal
  /\ signal' = TRUE
  /\ UNCHANGED <<conn, done, permits, pc, elapsed, cut, late>>

Tick ==
  /\ \/ pc = "drain" /\ elapsed' = elapsed \cup {"drain"}
     \/ pc = "abort" /\ elapsed' = elapsed \cup {"grace"}
  /\ UNCHANGED <<conn, done, permits, signal, pc, cut, late>>

MainStep ==
  \/ PollShutdown \/ Break \/ PollJoin \/ Park \/ Wake
  \/ \E c \in Conns : Accept(c) \/ Reject(c)
  \/ JoinOne \/ DrainTimeout \/ GraceTimeout \/ RuntimeGone

Next ==
  \/ MainStep \/ AcceptFails
  \/ \E c \in Conns : Connect(c) \/ TaskEnds(c) \/ TaskFinished(c)
  \/ Signal \/ Tick

Spec == Init /\ [][Next]_vars

\* An aborted task is dropped at its next await.
TaskAborted(c) == pc \in Aborts /\ TaskEnds(c)

\* The runtime polls main when it is woken, timers fire, and a worker that
\* drops a future finishes the task.  TaskAborted is fair if every poll of a
\* connection's task returns, that is, if no handler blocks its thread.
\* Clients, signals and running tasks that nobody aborts owe nothing.
FairSpec ==
  /\ Spec
  /\ WF_vars(MainStep) /\ WF_vars(Tick)
  /\ \A c \in Conns : WF_vars(TaskFinished(c)) /\ WF_vars(TaskAborted(c))

-----------------------------------------------------------------------------
(* Properties.                                                              *)

\* At most max_connections connections are served at a time, although permits
\* come back before tasks are reaped.
CapRespected == Cardinality(In("running")) <= MaxConnections

\* The JoinSet stays bounded under any flood of short connections: the tasks
\* that hold a permit, the ones a worker is dropping, and one more accepted
\* since the last look at join_next.
TrackedBounded == Cardinality(Tasks) <= MaxConnections + Workers + 1

\* "`biased` ensures shutdown is observed before another accept fires": at
\* most the accept that was being polled when the signal arrived.
OneLateAccept == late <= 1

\* A connection that is still served is ended by the gateway only after the
\* drain budget is spent, or with the process when accept fails.
DrainHonoured == cut # {} => "drain" \in elapsed \/ pc \in {"failing", "failed"}

\* "so that we actually reap instead of always accepting new connections": a
\* finished task is reaped even if the backlog never empties.
FinishedReaped == \A c \in Conns : conn[c] = "finished" ~> conn[c] # "finished"

\* "abort whatever is still running so the process can exit instead of
\* hanging": after a signal the process ends although clients keep their
\* connections open.  The two timeouts do not make it so on their own: the
\* drop of the runtime has none, and a poll that does not return would hold it.
ShutdownCompletes == signal ~> Ended
=============================================================================
