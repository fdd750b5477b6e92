--------------------------- MODULE CancelRegistry ---------------------------
(***************************************************************************)
(* The process-wide CANCEL_REGISTRY: which connection a CancelRequest      *)
(* reaches.  establish_session draws a key and registers it, the drop of   *)
(* ConnectionState removes it, and on_cancel_request runs on a connection  *)
(* of its own in three steps: look the key up, read the slot, send DELETE. *)
(* Between them the target may close, finish its query, or start the next. *)
(*                                                                         *)
(* A session is one connection, used once.  What happens to the slot while *)
(* a statement runs is the subject of module Connection; here a session    *)
(* records the query it submits and may clear the slot at any time.        *)
(***************************************************************************)
EXTENDS Naturals, FiniteSets

CONSTANTS
  Sessions,     \* connections that get through startup
  NoSession,
  PidSpace,     \* number of values of CONNECTION_PID (2^32)
  Secrets,      \* values of rand::random::<i32>()
  Requests,     \* CancelRequest messages
  MaxQueries    \* bound on the queries submitted in a behaviour

ASSUME RegistryAssumption ==
  /\ NoSession \notin Sessions
  /\ PidSpace \in Nat \ {0}
  /\ MaxQueries \in Nat

VARIABLES
  counter,    \* CONNECTION_PID
  registry,   \* CANCEL_REGISTRY: key -> session whose slot the entry shares
  session,    \* session -> "new", "open" or "closed"
  key,        \* session -> its cancel_key
  slot,       \* session -> active_query_id
  owner,      \* query -> the session that submitted it
  request,    \* request -> what its handler holds
  hit         \* history: <<session the client meant, query DELETEd>>

vars == <<counter, registry, session, key, slot, owner, request, hit>>

Keys == (0 .. PidSpace - 1) \X Secrets
NoKey == << >>
NoQuery == 0
QueryIds == 1 .. MaxQueries

\* on_cancel_request's locals: the session the sender was given the key of,
\* the session found, the query id read.
Sent(c) == [at |-> "sent", for |-> c, found |-> NoSession, qid |-> NoQuery]
Unsent == [at |-> "unsent", for |-> NoSession, found |-> NoSession, qid |-> NoQuery]

\* Every variable ranges over the values its Rust counterpart can hold; a
\* handler that reads a slot has found a session.
TypeOK ==
  /\ counter \in 0 .. PidSpace - 1
  /\ registry \in [Keys -> Sessions \cup {NoSession}]
  /\ session \in [Sessions -> {"new", "open", "closed"}]
  /\ key \in [Sessions -> Keys \cup {NoKey}]
  /\ slot \in [Sessions -> QueryIds \cup {NoQuery}]
  /\ owner \in [QueryIds -> Sessions \cup {NoSession}]
  /\ request \in [Requests -> [at : {"unsent", "sent", "found", "read", "done"},
                               for : Sessions \cup {NoSession},
                               found : Sessions \cup {NoSession},
                               qid : QueryIds \cup {NoQuery}]]
  /\ hit \in SUBSET (Sessions \X QueryIds)
  /\ \A r \in Requests : /\ request[r].at \in {"found", "read"} => request[r].found \in Sessions
                         /\ request[r].at = "read" => request[r].qid \in QueryIds

Init ==
  /\ counter = 1 % PidSpace
  /\ registry = [k \in Keys |-> NoSession]
  /\ session = [c \in Sessions |-> "new"]
  /\ key = [c \in Sessions |-> NoKey]
  /\ slot = [c \in Sessions |-> NoQuery]
  /\ owner = [q \in QueryIds |-> NoSession]
  /\ request = [r \in Requests |-> Unsent]
  /\ hit = {}

-----------------------------------------------------------------------------
(* Sessions.                                                                *)

\* establish_session: fetch_add wraps, insert replaces what the key held.
Establish(c) ==
  /\ session[c] = "new"
  /\ \E secret \in Secrets :
       /\ key' = [key EXCEPT ![c] = <<counter, secret>>]
       /\ registry' = [registry EXCEPT ![<<counter, secret>>] = c]
  /\ counter' = (counter + 1) % PidSpace
  /\ session' = [session EXCEPT ![c] = "open"]
  /\ UNCHANGED <<slot, owner, request, hit>>

\* A query of the session reaches Trino and its id the slot.
RecordQuery(c) ==
  /\ session[c] = "open"
  /\ \E q \in QueryIds :
       /\ owner[q] = NoSession
       /\ owner' = [owner EXCEPT ![q] = c]
       /\ slot' = [slot EXCEPT ![c] = q]
  /\ UNCHANGED <<counter, registry, session, key, request, hit>>

ClearSlot(c) ==
  /\ session[c] = "open" /\ slot[c] # NoQuery
  /\ slot' = [slot EXCEPT ![c] = NoQuery]
  /\ UNCHANGED <<counter, registry, session, key, owner, request, hit>>

\* Mutant: the entry is removed by pid, whatever the secret.
DropStateByPid(c) ==
  /\ session[c] = "open"
  /\ session' = [session EXCEPT ![c] = "closed"]
  /\ registry' = [k \in Keys |-> IF k[1] = key[c][1] THEN NoSession ELSE registry[k]]
  /\ UNCHANGED <<counter, key, slot, owner, request, hit>>

\* Drop for ConnectionState, on every way a connection ends.
DropState(c) ==
  /\ session[c] = "open"
  /\ session' = [session EXCEPT ![c] = "closed"]
  /\ registry' = [registry EXCEPT ![key[c]] = NoSession]
  /\ UNCHANGED <<counter, key, slot, owner, request, hit>>

-----------------------------------------------------------------------------
(* on_cancel_request.                                                       *)

\* A client sends the key of its session, perhaps after the session is gone.
SendCancel(r, c) ==
  /\ request[r].at = "unsent"
  /\ key[c] # NoKey
  /\ request' = [request EXCEPT ![r] = Sent(c)]
  /\ UNCHANGED <<counter, registry, session, key, slot, owner, hit>>

\* Mutant: the secret is not compared.
LookupCancelByPid(r) ==
  /\ request[r].at = "sent"
  /\ \E k \in Keys :
       /\ k[1] = key[request[r].for][1]
       /\ request' = [request EXCEPT ![r].found = registry[k],
                                     ![r].at = IF registry[k] = NoSession THEN "done" ELSE "found"]
  /\ UNCHANGED <<counter, registry, session, key, slot, owner, hit>>

\* Mutant: an unknown key is waited for.
LookupCancelWaits(r) ==
  /\ request[r].at = "sent"
  /\ registry[key[request[r].for]] # NoSession
  /\ request' = [request EXCEPT ![r].found = registry[key[request[r].for]], ![r].at = "found"]
  /\ UNCHANGED <<counter, registry, session, key, slot, owner, hit>>

\* lookup_cancel clones the entry out and releases the registry.
LookupCancel(r) ==
  /\ request[r].at = "sent"
  /\ LET found == registry[key[request[r].for]] IN
       request' = [request EXCEPT ![r].found = found,
                                  ![r].at = IF found = NoSession THEN "done" ELSE "found"]
  /\ UNCHANGED <<counter, registry, session, key, slot, owner, hit>>

ReadSlot(r) ==
  /\ request[r].at = "found"
  /\ LET qid == slot[request[r].found] IN
       request' = [request EXCEPT ![r].qid = qid,
                                  ![r].at = IF qid = NoQuery THEN "done" ELSE "read"]
  /\ UNCHANGED <<counter, registry, session, key, slot, owner, hit>>

\* DELETE /v1/query/{qid}; its result is only logged.
CancelQuery(r) ==
  /\ request[r].at = "read"
  /\ hit' = hit \cup {<<request[r].for, request[r].qid>>}
  /\ request' = [request EXCEPT ![r].at = "done"]
  /\ UNCHANGED <<counter, registry, session, key, slot, owner>>

SessionStep(c) == Establish(c) \/ RecordQuery(c) \/ ClearSlot(c) \/ DropState(c)
HandlerStep(r) == LookupCancel(r) \/ ReadSlot(r) \/ CancelQuery(r)

Next ==
  \/ \E c \in Sessions : SessionStep(c)
  \/ \E r \in Requests : HandlerStep(r) \/ \E c \in Sessions : SendCancel(r, c)

Spec == Init /\ [][Next]_vars

-----------------------------------------------------------------------------
(* Properties.  Keys are drawn, not allocated: two sessions share one when  *)
(* the counter has wrapped between them and the secrets agree.              *)

DistinctKeys ==
  \A c, d \in Sessions : c # d /\ key[c] # NoKey => key[c] # key[d]

\* The registry holds an entry for exactly the sessions that are open: no
\* close leaves one behind or takes another's, also when pids repeat.
RegistryExact ==
  DistinctKeys =>
    \A k \in Keys, c \in Sessions :
      registry[k] = c <=> session[c] = "open" /\ key[c] = k

\* A CancelRequest with a session's key stops queries of that session only,
\* whatever opens, closes or runs while the handler is between two steps.
CancelHitsOwner ==
  DistinctKeys => \A h \in hit : owner[h[2]] = h[1]
=============================================================================
