------------------------------ MODULE Gateway ------------------------------
(***************************************************************************)
(* The process as a whole: connections get a permit and a task from        *)
(* AcceptLoop, and what runs in a task is either a session or the handler  *)
(* of a CancelRequest of CancelRegistry, which needs a connection, a       *)
(* permit and a task like any other.                                       *)
(*                                                                         *)
(* A task's future owns the connection's state and the permit.  However it *)
(* ends, process_socket is dropped before `_permit`.                       *)
(***************************************************************************)
EXTENDS CancelRegistry, Sequences

CONSTANTS MaxConnections, Workers   \* see AcceptLoop

ASSUME GatewayAssumption ==
  /\ IsFiniteSet(Sessions) /\ IsFiniteSet(Requests)
  /\ MaxConnections \in Nat \ {0}
  /\ Workers \in Nat \ {0}

VARIABLES conn, done, permits, signal, pc, elapsed, cut, late   \* see AcceptLoop

Conns == Sessions \cup Requests

A == INSTANCE AcceptLoop

loopVars == <<conn, done, permits, signal, pc, elapsed, cut, late>>
gatewayVars == <<vars, loopVars>>

GatewayInit == Init /\ A!Init

-----------------------------------------------------------------------------

Running(c) == conn[c] = "running"

\* A connection is a new session or a new request; a rejected one tries again.
Connect(c) ==
  /\ c \in Sessions => session[c] = "new"
  /\ c \in Requests => request[c].at = "unsent"
  /\ A!Connect(c)
  /\ UNCHANGED vars

ServeSession(c) == Running(c) /\ SessionStep(c) /\ UNCHANGED loopVars

ReceiveCancel(r) == Running(r) /\ (\E c \in Sessions : SendCancel(r, c)) /\ UNCHANGED loopVars

HandleCancel(r) == Running(r) /\ HandlerStep(r) /\ UNCHANGED loopVars

\* Mutant: the permit is dropped before process_socket.
EndTaskEarly(c) ==
  /\ A!TaskEnds(c)
  /\ c \in Requests => request[c].at \in {"unsent", "done"} \/ pc \in A!Aborts
  /\ UNCHANGED vars

\* The state of a session is gone before its permit; a handler is cut short
\* only by an abort.
EndTask(c) ==
  /\ A!TaskEnds(c)
  /\ c \in Sessions => session[c] # "open"
  /\ c \in Requests => request[c].at \in {"unsent", "done"} \/ pc \in A!Aborts
  /\ UNCHANGED vars

Process ==
  /\ \/ A!MainStep \/ A!AcceptFails \/ A!Signal \/ A!Tick
     \/ \E c \in Conns : A!TaskFinished(c)
  /\ UNCHANGED vars

GatewayNext ==
  \/ Process
  \/ \E c \in Conns : Connect(c) \/ EndTask(c)
  \/ \E c \in Sessions : ServeSession(c)
  \/ \E r \in Requests : ReceiveCancel(r) \/ HandleCancel(r)

\* Trino answers a DELETE, the runtime polls the task of a handler.
GatewaySpec ==
  /\ GatewayInit /\ [][GatewayNext]_gatewayVars
  /\ \A r \in Requests : WF_gatewayVars(HandleCancel(r))

-----------------------------------------------------------------------------
(* Properties.                                                              *)

\* An entry of the registry belongs to a connection that is being served, so
\* there are never more entries than permits, whichever way tasks end and
\* whichever keys are drawn.
Entries == {k \in Keys : registry[k] # NoSession}
RegisteredServed ==
  /\ \A k \in Entries : Running(registry[k])
  /\ Cardinality(Entries) <= MaxConnections

\* A process that ends within its drain budget has cut nobody off: no session
\* is registered any more, and every CancelRequest it received was handled.
GracefulExit ==
  pc = "exited" /\ elapsed = {} =>
    /\ Entries = {}
    /\ \A r \in Requests : request[r].at \in {"unsent", "done"}

\* A CancelRequest that was received is handled, for an unknown key or an
\* idle connection too, unless the process ends or aborts the task.
CancelHandled ==
  \A r \in Requests :
    request[r].at = "sent" ~> request[r].at = "done" \/ ~Running(r)
=============================================================================
