--------------------------- MODULE GatewayProofs ---------------------------
(***************************************************************************)
(* Proofs about CancelRegistry, for any number of sessions, requests, pids *)
(* and secrets, and about Gateway, which puts it beside the accept loop.   *)
(*                                                                         *)
(* RegistryExact and CancelHitsOwner hold as long as no two sessions draw  *)
(* the same key.  Keys are never given back, so keys that are distinct now *)
(* always were (StaysDistinct), and both properties can be proved along    *)
(* the way.  What CancelHitsOwner needs besides is kept in Routed: what a  *)
(* handler found is what its sender meant, what stands in a slot, and in a *)
(* handler's hand, is a query of the session it was read from.             *)
(*                                                                         *)
(* The composition implements both of its parts, so all that is proved of  *)
(* them holds of the gateway, and what relates them (RegisteredServed,     *)
(* GracefulExit) follows from one more invariant: what a task owns exists  *)
(* only while the task runs, and the process ends when no task runs.       *)
(***************************************************************************)
EXTENDS Gateway, FiniteSetTheorems, TLAPS

\* A session has a key from the moment it is open.
KeyedOnceOpen == \A c \in Sessions : session[c] = "new" <=> key[c] = NoKey

\* What stands in a slot is a query of its session.
SlotOwned == \A c \in Sessions : slot[c] # NoQuery => owner[slot[c]] = c

\* What a handler holds.
Holds(r) ==
  /\ request[r].at # "unsent" => request[r].for \in Sessions /\ key[request[r].for] # NoKey
  /\ request[r].at = "read" => owner[request[r].qid] = request[r].found
  /\ DistinctKeys /\ request[r].at \in {"found", "read"} => request[r].found = request[r].for

Routed == SlotOwned /\ \A r \in Requests : Holds(r)

RegistryInv == TypeOK /\ KeyedOnceOpen /\ RegistryExact /\ Routed /\ CancelHitsOwner

-----------------------------------------------------------------------------

\* NoKey is no key, and NoQuery no query.
LEMMA NoKeyNoQuery == NoKey \notin Keys /\ NoQuery \notin QueryIds
BY RegistryAssumption DEF NoKey, Keys, NoQuery, QueryIds

\* The initial state satisfies the invariant.
LEMMA RegistryInvInit == Init => RegistryInv
<1>1. SUFFICES ASSUME Init PROVE RegistryInv
  OBVIOUS
<1>2. 1 % PidSpace \in 0 .. PidSpace - 1
  BY RegistryAssumption
<1>3. TypeOK
  BY <1>1, <1>2, RegistryAssumption DEF Init, TypeOK, Unsent
<1>4. KeyedOnceOpen
  BY <1>1 DEF Init, KeyedOnceOpen
<1>5. RegistryExact
  BY <1>1, RegistryAssumption DEF Init, RegistryExact
<1>6. Routed
  BY <1>1 DEF Init, Routed, SlotOwned, Holds, Unsent
<1>7. CancelHitsOwner
  BY <1>1 DEF Init, CancelHitsOwner
<1> QED BY <1>3, <1>4, <1>5, <1>6, <1>7 DEF RegistryInv

\* Every step keeps the types.
LEMMA RegistryTypeStep == TypeOK /\ Routed /\ [Next]_vars => TypeOK'
<1>1. SUFFICES ASSUME TypeOK, Routed, [Next]_vars PROVE TypeOK'
  OBVIOUS
<1>2. ASSUME NEW c \in Sessions, Establish(c) PROVE TypeOK'
  <2>1. (counter + 1) % PidSpace \in 0 .. PidSpace - 1
    BY <1>1, RegistryAssumption DEF TypeOK
  <2>2. PICK secret \in Secrets :
          /\ key' = [key EXCEPT ![c] = <<counter, secret>>]
          /\ registry' = [registry EXCEPT ![<<counter, secret>>] = c]
    BY <1>2, Zenon DEF Establish
  <2>3. <<counter, secret>> \in Keys
    BY <1>1 DEF TypeOK, Keys
  <2> QED BY <1>1, <1>2, <2>1, <2>2, <2>3, SMTT(30) DEF TypeOK, Establish
<1>3. ASSUME NEW c \in Sessions, RecordQuery(c) \/ ClearSlot(c) \/ DropState(c) PROVE TypeOK'
  BY <1>1, <1>3 DEF TypeOK, RecordQuery, ClearSlot, DropState
<1>4. ASSUME NEW r \in Requests, NEW c \in Sessions, SendCancel(r, c) PROVE TypeOK'
  BY <1>1, <1>4 DEF TypeOK, SendCancel, Sent
<1>5. ASSUME NEW r \in Requests, LookupCancel(r) PROVE TypeOK'
  BY <1>1, <1>5 DEF TypeOK, LookupCancel
<1>6. ASSUME NEW r \in Requests, ReadSlot(r) PROVE TypeOK'
  BY <1>1, <1>6 DEF TypeOK, ReadSlot
<1>7. ASSUME NEW r \in Requests, CancelQuery(r) PROVE TypeOK'
  <2>1. request[r].for \in Sessions /\ request[r].qid \in QueryIds
    BY <1>1, <1>7 DEF TypeOK, Routed, Holds, CancelQuery
  <2> QED BY <1>1, <1>7, <2>1 DEF TypeOK, CancelQuery
<1>8. CASE UNCHANGED vars
  BY <1>1, <1>8, SMTT(30) DEF TypeOK, vars
<1> QED BY <1>1, <1>2, <1>3, <1>4, <1>5, <1>6, <1>7, <1>8 DEF Next, SessionStep, HandlerStep

\* A session gets its key when it opens and keeps it.
LEMMA KeyedStep == TypeOK /\ KeyedOnceOpen /\ [Next]_vars => KeyedOnceOpen'
<1>1. SUFFICES ASSUME TypeOK, KeyedOnceOpen, [Next]_vars PROVE KeyedOnceOpen'
  OBVIOUS
<1>2. ASSUME NEW c \in Sessions, Establish(c) PROVE KeyedOnceOpen'
  BY <1>1, <1>2 DEF TypeOK, KeyedOnceOpen, Establish, NoKey
<1>3. ASSUME NEW c \in Sessions, DropState(c) PROVE KeyedOnceOpen'
  BY <1>1, <1>3 DEF TypeOK, KeyedOnceOpen, DropState
<1>4. CASE UNCHANGED <<session, key>>
  BY <1>1, <1>4 DEF KeyedOnceOpen
<1> QED
  BY <1>1, <1>2, <1>3, <1>4, Zenon
  DEF Next, SessionStep, HandlerStep, RecordQuery, ClearSlot, SendCancel, LookupCancel, ReadSlot,
      CancelQuery, vars

\* Keys that are distinct after a step were so before it.
LEMMA StaysDistinct ==
  ASSUME TypeOK, KeyedOnceOpen, [Next]_vars, DistinctKeys' PROVE DistinctKeys
<1>1. ASSUME NEW c \in Sessions, Establish(c) PROVE DistinctKeys
  <2>1. key[c] = NoKey /\ \A d \in Sessions \ {c} : key'[d] = key[d]
    BY <1>1 DEF TypeOK, KeyedOnceOpen, Establish
  <2> QED BY <2>1 DEF DistinctKeys
<1>2. CASE UNCHANGED key
  BY <1>2 DEF DistinctKeys
<1> QED
  BY <1>1, <1>2, Zenon
  DEF Next, SessionStep, HandlerStep, RecordQuery, ClearSlot, DropState, SendCancel, LookupCancel,
      ReadSlot, CancelQuery, vars

\* Every step keeps the registry exact: insert finds no entry of another
\* session under a fresh key, remove takes the closing session's own.
LEMMA RegistryExactStep ==
  TypeOK /\ KeyedOnceOpen /\ RegistryExact /\ [Next]_vars => RegistryExact'
<1>1. SUFFICES ASSUME TypeOK, KeyedOnceOpen, RegistryExact, [Next]_vars, DistinctKeys'
               PROVE  (\A k \in Keys, c \in Sessions :
                         registry[k] = c <=> session[c] = "open" /\ key[c] = k)'
  BY DEF RegistryExact
<1>2. \A k \in Keys, c \in Sessions : registry[k] = c <=> session[c] = "open" /\ key[c] = k
  BY <1>1, StaysDistinct DEF RegistryExact
<1>3. ASSUME NEW d \in Sessions, Establish(d),
             NEW k \in Keys, NEW c \in Sessions
      PROVE  registry'[k] = c <=> session'[c] = "open" /\ key'[c] = k
  <2>1. PICK secret \in Secrets :
          /\ key' = [key EXCEPT ![d] = <<counter, secret>>]
          /\ registry' = [registry EXCEPT ![<<counter, secret>>] = d]
    BY <1>3, Zenon DEF Establish
  <2>2. /\ session[d] = "new" /\ key[d] = NoKey
        /\ session' = [session EXCEPT ![d] = "open"]
    BY <1>1, <1>3 DEF Establish, KeyedOnceOpen
  <2>3. <<counter, secret>> \in Keys
    BY <1>1 DEF TypeOK, Keys
  <2>4. CASE c = d
    BY <1>1, <1>2, <2>1, <2>2, <2>3, <2>4 DEF TypeOK
  <2>5. CASE c # d
    <3>1. key'[c] = key[c] /\ session'[c] = session[c]
      BY <1>1, <2>1, <2>2, <2>5 DEF TypeOK
    <3>2. key'[d] = <<counter, secret>> /\ key'[d] # NoKey /\ key'[d] # key'[c]
      BY <1>1, <2>1, <2>3, <2>5, NoKeyNoQuery, Zenon DEF TypeOK, DistinctKeys
    <3> QED BY <1>1, <1>2, <2>1, <2>3, <2>5, <3>1, <3>2 DEF TypeOK
  <2> QED BY <2>4, <2>5
<1>4. ASSUME NEW d \in Sessions, DropState(d),
             NEW k \in Keys, NEW c \in Sessions
      PROVE  registry'[k] = c <=> session'[c] = "open" /\ key'[c] = k
  <2>1. /\ session[d] = "open" /\ key' = key
        /\ session' = [session EXCEPT ![d] = "closed"]
        /\ registry' = [registry EXCEPT ![key[d]] = NoSession]
    BY <1>4 DEF DropState
  <2>2. CASE c = d
    BY <1>1, <1>2, <2>1, <2>2, RegistryAssumption DEF TypeOK
  <2>3. CASE c # d
    <3>1. session'[c] = session[c]
      BY <1>1, <2>1, <2>3 DEF TypeOK
    <3>2. CASE k = key[d]
      <4>1. registry'[k] = NoSession
        BY <1>1, <2>1, <3>2 DEF TypeOK
      <4>2. registry[k] = d
        BY <1>2, <2>1, <3>2
      <4> QED BY <1>2, <2>1, <2>3, <3>1, <4>1, <4>2, RegistryAssumption
    <3>3. CASE k # key[d]
      <4>1. registry'[k] = registry[k]
        BY <1>1, <2>1, <3>3 DEF TypeOK
      <4> QED BY <1>2, <2>1, <3>1, <4>1
    <3> QED BY <3>2, <3>3
  <2> QED BY <2>2, <2>3
<1>5. CASE UNCHANGED <<registry, session, key>>
  BY <1>2, <1>5
<1> QED
  BY <1>1, <1>3, <1>4, <1>5, Zenon
  DEF Next, SessionStep, HandlerStep, RecordQuery, ClearSlot, SendCancel, LookupCancel, ReadSlot,
      CancelQuery, vars

\* A query that has an owner keeps it.
LEMMA OwnerStays ==
  ASSUME TypeOK, [Next]_vars, NEW q \in QueryIds, owner[q] \in Sessions PROVE owner'[q] = owner[q]
<1>1. ASSUME NEW c \in Sessions, RecordQuery(c) PROVE owner'[q] = owner[q]
  BY <1>1, RegistryAssumption DEF TypeOK, RecordQuery
<1> QED
  BY <1>1, Zenon
  DEF Next, SessionStep, HandlerStep, Establish, ClearSlot, DropState, SendCancel, LookupCancel,
      ReadSlot, CancelQuery, vars

\* A session that has a key keeps it.
LEMMA KeyStays ==
  ASSUME TypeOK, KeyedOnceOpen, [Next]_vars, NEW c \in Sessions, key[c] # NoKey
  PROVE  key'[c] = key[c]
<1>1. ASSUME NEW d \in Sessions, Establish(d) PROVE key'[c] = key[c]
  BY <1>1 DEF TypeOK, KeyedOnceOpen, Establish
<1> QED
  BY <1>1, Zenon
  DEF Next, SessionStep, HandlerStep, RecordQuery, ClearSlot, DropState, SendCancel, LookupCancel,
      ReadSlot, CancelQuery, vars

\* Only RecordQuery puts an id into a slot, and it belongs to the session.
LEMMA SlotOwnedStep == TypeOK /\ SlotOwned /\ [Next]_vars => SlotOwned'
<1>1. SUFFICES ASSUME TypeOK, SlotOwned, [Next]_vars, NEW c \in Sessions, slot'[c] # NoQuery
               PROVE  owner'[slot'[c]] = c
  BY DEF SlotOwned
<1>2. CASE slot'[c] = slot[c]
  <2>1. slot[c] \in QueryIds /\ owner[slot[c]] = c
    BY <1>1, <1>2 DEF TypeOK, SlotOwned
  <2> QED BY <1>1, <1>2, <2>1, OwnerStays
<1>3. CASE slot'[c] # slot[c]
  <2>1. PICK d \in Sessions : RecordQuery(d) \/ ClearSlot(d)
    BY <1>1, <1>3, Zenon
    DEF Next, SessionStep, HandlerStep, Establish, DropState, SendCancel, LookupCancel, ReadSlot,
        CancelQuery, vars
  <2>2. ~ClearSlot(d)
    BY <1>1, <1>3 DEF TypeOK, ClearSlot
  <2> QED BY <1>1, <1>3, <2>1, <2>2, SMTT(30) DEF TypeOK, RecordQuery
<1> QED BY <1>2, <1>3

\* A handler's findings stay true while others move.
LEMMA HoldsWhileIdle ==
  ASSUME TypeOK, KeyedOnceOpen, [Next]_vars, NEW r \in Requests, Holds(r), request'[r] = request[r]
  PROVE  Holds(r)'
<1>1. request[r].at # "unsent" => key'[request[r].for] # NoKey
  BY KeyStays DEF Holds
<1>2. request[r].at = "read" => owner'[request[r].qid] = request[r].found
  BY OwnerStays DEF TypeOK, Holds
<1>3. DistinctKeys' => DistinctKeys
  BY StaysDistinct
<1> QED BY <1>1, <1>2, <1>3 DEF Holds

\* Each step of a handler adds a finding that is true.
LEMMA HoldsStep ==
  ASSUME RegistryInv, [Next]_vars, NEW r \in Requests PROVE Holds(r)'
<1>1. TypeOK /\ KeyedOnceOpen /\ RegistryExact /\ SlotOwned /\ Holds(r)
  BY DEF RegistryInv, Routed
<1>2. DistinctKeys' => DistinctKeys
  BY <1>1, StaysDistinct
<1>3. ASSUME NEW c \in Sessions, SendCancel(r, c) PROVE Holds(r)'
  BY <1>1, <1>3 DEF TypeOK, SendCancel, Sent, Holds
<1>4. ASSUME LookupCancel(r) PROVE Holds(r)'
  <2>1. request[r].for \in Sessions /\ key[request[r].for] \in Keys
    BY <1>1, <1>4 DEF TypeOK, LookupCancel, Holds
  <2> DEFINE found == registry[key[request[r].for]]
  <2>2. DistinctKeys /\ found # NoSession => found = request[r].for
    <3>1. SUFFICES ASSUME DistinctKeys, found # NoSession PROVE found = request[r].for
      OBVIOUS
    <3>2. found \in Sessions
      BY <1>1, <2>1, <3>1 DEF TypeOK
    <3>3. key[found] = key[request[r].for] /\ key[found] # NoKey
      BY <1>1, <2>1, <3>1, <3>2, NoKeyNoQuery DEF RegistryExact
    <3> QED BY <2>1, <3>1, <3>2, <3>3 DEF DistinctKeys
  <2>3. /\ request'[r].for = request[r].for
        /\ request'[r].found = found
        /\ request'[r].at = IF found = NoSession THEN "done" ELSE "found"
        /\ key' = key
    BY <1>1, <1>4 DEF TypeOK, LookupCancel
  <2> QED BY <1>1, <1>2, <2>1, <2>2, <2>3, NoKeyNoQuery DEF Holds
<1>5. ASSUME ReadSlot(r) PROVE Holds(r)'
  <2> DEFINE qid == slot[request[r].found]
  <2>1. request[r].at = "found" /\ request[r].found \in Sessions
    BY <1>1, <1>5 DEF TypeOK, ReadSlot
  <2>2. /\ request'[r].for = request[r].for
        /\ request'[r].found = request[r].found
        /\ request'[r].qid = qid
        /\ request'[r].at = IF qid = NoQuery THEN "done" ELSE "read"
        /\ key' = key /\ owner' = owner
    BY <1>1, <1>5 DEF TypeOK, ReadSlot
  <2>3. qid # NoQuery => owner[qid] = request[r].found
    BY <1>1, <2>1 DEF SlotOwned
  <2> QED BY <1>1, <1>2, <2>1, <2>2, <2>3 DEF Holds
<1>6. ASSUME CancelQuery(r) PROVE Holds(r)'
  BY <1>1, <1>6 DEF TypeOK, CancelQuery, Holds
<1>7. CASE request'[r] = request[r]
  BY <1>1, <1>7, HoldsWhileIdle
<1>8. ASSUME NEW s \in Requests \ {r},
             HandlerStep(s) \/ \E c \in Sessions : SendCancel(s, c)
      PROVE  request'[r] = request[r]
  BY <1>1, <1>8 DEF TypeOK, HandlerStep, SendCancel, LookupCancel, ReadSlot, CancelQuery
<1>9. ASSUME NEW c \in Sessions, SessionStep(c) PROVE request'[r] = request[r]
  BY <1>9 DEF SessionStep, Establish, RecordQuery, ClearSlot, DropState
<1>10. CASE UNCHANGED vars
  BY <1>7, <1>10 DEF vars
<1> QED BY <1>3, <1>4, <1>5, <1>6, <1>7, <1>8, <1>9, <1>10 DEF Next, HandlerStep

\* The DELETE a handler sends is for a query of the session its sender meant.
LEMMA CancelHitsOwnerStep == RegistryInv /\ [Next]_vars => CancelHitsOwner'
<1>1. SUFFICES ASSUME RegistryInv, [Next]_vars, DistinctKeys', NEW h \in hit'
               PROVE  owner'[h[2]] = h[1]
  BY DEF CancelHitsOwner
<1>2. TypeOK /\ KeyedOnceOpen /\ CancelHitsOwner /\ DistinctKeys
  BY <1>1, StaysDistinct DEF RegistryInv
<1>3. CASE h \in hit
  <2>1. h[1] \in Sessions /\ h[2] \in QueryIds /\ owner[h[2]] = h[1]
    BY <1>2, <1>3 DEF TypeOK, CancelHitsOwner
  <2> QED BY <1>1, <1>2, <2>1, OwnerStays
<1>4. CASE h \notin hit
  <2>1. PICK r \in Requests : CancelQuery(r)
    BY <1>1, <1>4, Zenon
    DEF Next, SessionStep, HandlerStep, Establish, RecordQuery, ClearSlot, DropState, SendCancel,
        LookupCancel, ReadSlot, vars
  <2>2. h = <<request[r].for, request[r].qid>> /\ owner' = owner /\ request[r].at = "read"
    BY <1>1, <1>4, <2>1 DEF CancelQuery
  <2>3. owner[request[r].qid] = request[r].for
    BY <1>1, <1>2, <2>2 DEF RegistryInv, Routed, Holds
  <2> QED BY <2>2, <2>3, SMTT(30)
<1> QED BY <1>3, <1>4

\* RegistryInv is inductive.
THEOREM RegistryInvariant == Spec => []RegistryInv
<1>1. RegistryInv /\ [Next]_vars => RegistryInv'
  <2>1. SUFFICES ASSUME RegistryInv, [Next]_vars PROVE RegistryInv'
    OBVIOUS
  <2>2. Routed'
    <3>1. SlotOwned'
      BY <2>1, SlotOwnedStep DEF RegistryInv, Routed
    <3>2. \A r \in Requests : Holds(r)'
      BY <2>1, HoldsStep
    <3> QED BY <3>1, <3>2 DEF Routed
  <2> QED
    BY <2>1, <2>2, RegistryTypeStep, KeyedStep, RegistryExactStep, CancelHitsOwnerStep DEF RegistryInv
<1> QED BY <1>1, RegistryInvInit, PTL DEF Spec

\* Every variable of the registry keeps its type.
THEOREM RegistryTypeCorrect == Spec => []TypeOK
BY RegistryInvariant, PTL DEF RegistryInv

\* CANCEL_REGISTRY holds an entry for exactly the open sessions, whatever pids
\* repeat, as long as no two sessions drew the same key.
THEOREM RegistryExactHolds == Spec => []RegistryExact
BY RegistryInvariant, PTL DEF RegistryInv

\* on_cancel_request deletes queries of the session whose key it was sent.
THEOREM CancelHitsOwnerHolds == Spec => []CancelHitsOwner
BY RegistryInvariant, PTL DEF RegistryInv

-----------------------------------------------------------------------------
(* The gateway.                                                             *)

\* What is used of the accept loop.
LoopSafe ==
  /\ conn \in [Conns -> A!ConnStates]
  /\ done \in Seq(Conns)
  /\ \A i \in 1 .. Len(done) : conn[done[i]] = "finished"
  /\ A!Ended => \A c \in Conns : conn[c] = "absent"
  /\ pc \in {"abort", "leaving"} => elapsed # {}
  /\ Cardinality({c \in Conns : Running(c)}) <= MaxConnections

\* An entry is the one of an open session under its own key.
EntryOpen ==
  \A k \in Entries : registry[k] \in Sessions /\ session[registry[k]] = "open" /\ key[registry[k]] = k

\* Tasks may have been aborted: a budget is spent or accept has failed.
MayAbort == elapsed # {} \/ pc \in {"failing", "failed"}

\* A session is open only while its task runs.
OpenServed == \A c \in Sessions : session[c] = "open" => Running(c)

\* A handler is between two steps only while its task runs, or was aborted.
HandlerServed ==
  \A r \in Requests : request[r].at \in {"unsent", "done"} \/ Running(r) \/ MayAbort

GatewayInv ==
  /\ RegistryInv /\ LoopSafe
  /\ EntryOpen /\ OpenServed /\ HandlerServed

-----------------------------------------------------------------------------
(* The parts.                                                               *)

\* There are finitely many connections.
LEMMA ConnsFinite == IsFiniteSet(Conns)
BY GatewayAssumption, FS_Union, Zenon DEF Conns

\* The instance of AcceptLoop counts as this module does.
LEMMA CountsAlike == ASSUME NEW S PROVE A!Cardinality(S) = Cardinality(S)
BY DEF A!Cardinality, Cardinality

\* A step of the gateway is a step of the accept loop or leaves it alone.
LEMMA StepOfLoop == [GatewayNext]_gatewayVars => [A!Next]_(A!vars)
<1>1. SUFFICES ASSUME [GatewayNext]_gatewayVars PROVE [A!Next]_(A!vars)
  OBVIOUS
<1>2. CASE Process
  BY <1>2 DEF Process, A!Next
<1>3. ASSUME NEW c \in Conns, Connect(c) \/ EndTask(c) PROVE A!Next
  BY <1>3 DEF Connect, EndTask, A!Next
<1>4. ASSUME UNCHANGED loopVars PROVE UNCHANGED A!vars
  BY <1>4 DEF loopVars, A!vars
<1> QED
  BY <1>1, <1>2, <1>3, <1>4 DEF GatewayNext, gatewayVars, ServeSession, ReceiveCancel, HandleCancel

\* A step of the gateway is a step of the registry or leaves it alone.
LEMMA StepOfRegistry == [GatewayNext]_gatewayVars => [Next]_vars
BY DEF GatewayNext, gatewayVars, Process, Connect, EndTask, ServeSession, ReceiveCancel,
       HandleCancel, Next

\* The gateway is an accept loop: serve and drain behave as in AcceptLoop,
\* whatever the tasks do.
THEOREM ImplementsLoop == GatewaySpec => A!Spec
<1>1. GatewayInit => A!Init
  BY DEF GatewayInit
<1> QED BY <1>1, StepOfLoop, PTL DEF GatewaySpec, A!Spec

\* The gateway is a registry: sessions and CancelRequests behave as in
\* CancelRegistry when each needs a permit and a task.
THEOREM ImplementsRegistry == GatewaySpec => Spec
<1>1. GatewayInit => Init
  BY DEF GatewayInit
<1> QED BY <1>1, StepOfRegistry, PTL DEF GatewaySpec, Spec

-----------------------------------------------------------------------------
(* Tasks.                                                                   *)

\* join_next hands out no task that runs.
LEMMA ReapLeaves ==
  ASSUME LoopSafe, A!Reap, NEW c \in Conns, Running(c) PROVE Running(c)'
<1>1. done \in Seq(Conns) /\ done # << >> /\ conn \in [Conns -> A!ConnStates]
  BY DEF LoopSafe, A!Reap
<1>2. Head(done) = done[1] /\ 1 \in 1 .. Len(done)
  BY <1>1
<1>3. conn[Head(done)] = "finished"
  BY <1>2 DEF LoopSafe
<1>4. Head(done) # c
  BY <1>3 DEF Running
<1> QED BY <1>1, <1>4 DEF A!Reap, Running

\* The task that ends the drain is the only one, and it has finished.
LEMMA LastIsFinished ==
  ASSUME LoopSafe, A!Cardinality(A!Tasks) = 1, done # << >>, NEW c \in Conns PROVE ~Running(c)
<1>1. done \in Seq(Conns)
  BY DEF LoopSafe
<1>2. done[1] \in Conns /\ conn[done[1]] = "finished"
  <2>1. 1 \in 1 .. Len(done) /\ done[1] \in Conns
    BY <1>1
  <2> QED BY <2>1 DEF LoopSafe
<1>3. IsFiniteSet(A!Tasks) /\ Cardinality(A!Tasks) = 1
  BY ConnsFinite, FS_Subset, CountsAlike DEF A!Tasks
<1>4. PICK x : A!Tasks = {x}
  BY <1>3, FS_Singleton, Zenon
<1>5. done[1] \in A!Tasks /\ (Running(c) => c \in A!Tasks)
  BY <1>2 DEF A!Tasks, Running
<1> QED BY <1>2, <1>4, <1>5 DEF Running

\* A task that runs goes on running: the process ends only when none does.
LEMMA KeepsRunning ==
  ASSUME LoopSafe, NEW c \in Conns, Running(c),
         \/ A!MainStep \/ A!AcceptFails \/ A!Signal \/ A!Tick \/ UNCHANGED conn
         \/ \E d \in Conns : A!Connect(d) \/ A!TaskFinished(d) \/ (d # c /\ A!TaskEnds(d))
  PROVE  Running(c)'
<1>0. conn \in [Conns -> A!ConnStates]
  BY DEF LoopSafe
<1>1. CASE UNCHANGED conn
  BY <1>1 DEF Running
<1>2. CASE A!PollShutdown \/ A!Park \/ A!Wake \/ A!DrainTimeout \/ A!GraceTimeout \/ A!Signal \/ A!Tick
  BY <1>1, <1>2 DEF A!PollShutdown, A!Park, A!Wake, A!DrainTimeout, A!GraceTimeout, A!Signal, A!Tick
<1>3. CASE A!Break
  <2>1. c \in A!Tasks
    BY DEF A!Tasks, Running
  <2> QED BY <1>3, <2>1, Zenon DEF A!Break, A!DropListener, Running
<1>4. CASE A!PollJoin
  BY <1>1, <1>4, ReapLeaves DEF A!PollJoin
<1>5. CASE A!JoinOne
  BY <1>5, ReapLeaves, LastIsFinished DEF A!JoinOne
<1>6. CASE A!RuntimeGone \/ A!AcceptFails
  BY <1>6 DEF A!RuntimeGone, A!In, A!AcceptFails, A!DropListener, Running
<1>7. ASSUME NEW d \in Conns,
             \/ A!Accept(d) \/ A!Reject(d) \/ A!Connect(d) \/ A!TaskFinished(d)
             \/ d # c /\ A!TaskEnds(d)
      PROVE  Running(c)'
  <2>1. d # c
    BY <1>7 DEF A!Accept, A!Reject, A!Connect, A!TaskFinished, Running
  <2> QED BY <1>0, <1>7, <2>1 DEF A!Accept, A!Reject, A!Connect, A!TaskFinished, A!TaskEnds, Running
<1> QED BY <1>1, <1>2, <1>3, <1>4, <1>5, <1>6, <1>7 DEF A!MainStep

\* The budgets stay spent, and a failed accept is final.
LEMMA AbortIsFinal == ASSUME [A!Next]_(A!vars), MayAbort PROVE MayAbort'
<1>1. elapsed # {} => elapsed' # {}
  BY DEF A!Next, A!MainStep, A!PollShutdown, A!Break, A!PollJoin, A!Park, A!Wake, A!Accept, A!Reject,
         A!JoinOne, A!DrainTimeout, A!GraceTimeout, A!RuntimeGone, A!AcceptFails, A!Connect,
         A!TaskEnds, A!TaskFinished, A!Signal, A!Tick, A!Exit, A!vars
<1>2. pc \in {"failing", "failed"} => pc' \in {"failing", "failed"}
  BY DEF A!Next, A!MainStep, A!PollShutdown, A!Break, A!PollJoin, A!Park, A!Wake, A!Accept, A!Reject,
         A!JoinOne, A!DrainTimeout, A!GraceTimeout, A!RuntimeGone, A!AcceptFails, A!Connect,
         A!TaskEnds, A!TaskFinished, A!Signal, A!Tick, A!Exit, A!vars, A!Drains, A!Polls, A!Leaves
<1> QED BY <1>1, <1>2 DEF MayAbort

-----------------------------------------------------------------------------
(* What a task owns.                                                        *)

\* A task of the gateway runs until EndTask.
LEMMA TaskKept ==
  ASSUME LoopSafe, [GatewayNext]_gatewayVars, NEW c \in Conns, Running(c), ~EndTask(c)
  PROVE  Running(c)'
<1>1. CASE Process
  BY <1>1, KeepsRunning DEF Process
<1>2. ASSUME NEW d \in Conns, Connect(d) \/ EndTask(d) PROVE Running(c)'
  BY <1>2, KeepsRunning DEF Connect, EndTask
<1>3. CASE UNCHANGED loopVars
  BY <1>3, KeepsRunning DEF loopVars
<1> QED
  BY <1>1, <1>2, <1>3 DEF GatewayNext, gatewayVars, ServeSession, ReceiveCancel, HandleCancel

\* Only the task of a connection changes the state of its session or of its
\* handler, and the registry; the accept loop does not move meanwhile.
LEMMA OwnTaskOnly ==
  ASSUME TypeOK, [GatewayNext]_gatewayVars
  PROVE  /\ \A c \in Sessions : session'[c] # session[c] => Running(c) /\ UNCHANGED loopVars
         /\ \A r \in Requests : request'[r] # request[r] => Running(r) /\ UNCHANGED loopVars
         /\ registry' # registry => (\E c \in Sessions : Running(c)) /\ UNCHANGED loopVars
<1>1. CASE UNCHANGED vars
  BY <1>1 DEF vars
<1>2. ASSUME NEW d \in Sessions, ServeSession(d)
      PROVE  /\ Running(d) /\ UNCHANGED loopVars /\ request' = request
             /\ \A c \in Sessions : session'[c] # session[c] => c = d
  BY <1>2 DEF TypeOK, ServeSession, SessionStep, Establish, RecordQuery, ClearSlot, DropState
<1>3. ASSUME NEW q \in Requests, ReceiveCancel(q) \/ HandleCancel(q)
      PROVE  /\ Running(q) /\ UNCHANGED loopVars /\ session' = session /\ registry' = registry
             /\ \A r \in Requests : request'[r] # request[r] => r = q
  BY <1>3, SMTT(30) DEF TypeOK, ReceiveCancel, HandleCancel, SendCancel, HandlerStep, LookupCancel, ReadSlot,
              CancelQuery
<1> QED
  BY <1>1, <1>2, <1>3 DEF GatewayNext, gatewayVars, Process, Connect, EndTask

\* Entries stay those of open sessions.
LEMMA EntryOpenStep == ASSUME TypeOK, EntryOpen, [Next]_vars PROVE EntryOpen'
<1> USE DEF Entries, EntryOpen
<1>1. ASSUME NEW c \in Sessions, Establish(c) PROVE EntryOpen'
  <2>1. PICK secret \in Secrets :
             /\ key' = [key EXCEPT ![c] = <<counter, secret>>]
             /\ registry' = [registry EXCEPT ![<<counter, secret>>] = c]
    BY <1>1, Zenon DEF Establish
  <2>2. session[c] = "new" /\ session' = [session EXCEPT ![c] = "open"]
    BY <1>1 DEF Establish
  <2> QED BY <2>1, <2>2 DEF TypeOK
<1>2. ASSUME NEW c \in Sessions, DropState(c) PROVE EntryOpen'
  BY <1>2 DEF TypeOK, DropState
<1>3. CASE UNCHANGED <<registry, session, key>>
  BY <1>3
<1> QED
  BY <1>1, <1>2, <1>3, Zenon DEF Next, SessionStep, RecordQuery, ClearSlot, HandlerStep, SendCancel,
                          LookupCancel, ReadSlot, CancelQuery, vars

\* A session is closed before its task ends.
LEMMA OpenServedStep ==
  ASSUME TypeOK, LoopSafe, OpenServed, [GatewayNext]_gatewayVars PROVE OpenServed'
<1>1. SUFFICES ASSUME NEW c \in Sessions, session'[c] = "open" PROVE Running(c)'
  BY DEF OpenServed
<1>2. c \in Conns
  BY SMTT(30) DEF Conns
<1>3. CASE session'[c] # session[c]
  BY <1>3, OwnTaskOnly DEF Running, loopVars
<1>4. CASE session[c] = "open"
  <2>1. ~EndTask(c)
    BY <1>4 DEF EndTask
  <2> QED BY <1>2, <1>4, <2>1, TaskKept DEF OpenServed
<1> QED BY <1>1, <1>3, <1>4

\* A handler is cut short only by an abort, after the drain budget or a failed
\* accept.
LEMMA HandlerServedStep ==
  ASSUME TypeOK, LoopSafe, HandlerServed, [GatewayNext]_gatewayVars PROVE HandlerServed'
<1>1. SUFFICES ASSUME NEW r \in Requests, request'[r].at \notin {"unsent", "done"}
               PROVE  Running(r)' \/ MayAbort'
  BY DEF HandlerServed
<1>2. r \in Conns
  BY DEF Conns
<1>3. CASE request'[r] # request[r]
  BY <1>3, OwnTaskOnly DEF Running, loopVars
<1>4. CASE request'[r] = request[r]
  <2>1. Running(r) \/ MayAbort
    BY <1>1, <1>4 DEF HandlerServed
  <2>2. EndTask(r) => MayAbort
    BY <1>1, <1>4 DEF EndTask, LoopSafe, MayAbort, A!Aborts, A!Leaves
  <2> QED BY <1>2, <2>1, <2>2, TaskKept, StepOfLoop, AbortIsFinal
<1> QED BY <1>3, <1>4

-----------------------------------------------------------------------------
(* The size of the registry.                                                *)

\* Entries are at most the connections that run.
LEMMA EntriesRun ==
  LoopSafe /\ EntryOpen /\ OpenServed => Cardinality(Entries) <= MaxConnections
<1>1. SUFFICES ASSUME LoopSafe, EntryOpen, OpenServed
               PROVE  Cardinality(Entries) <= MaxConnections
  OBVIOUS
<1> DEFINE Serving == {c \in Conns : Running(c)}
           sessionOf == [k \in Entries |-> registry[k]]
<1>2. IsFiniteSet(Serving)
  BY ConnsFinite, FS_Subset
<1>3. sessionOf \in Injection(Entries, Serving)
  <2>1. ASSUME NEW k \in Entries PROVE registry[k] \in Serving /\ key[registry[k]] = k
    BY <1>1, <2>1 DEF EntryOpen, OpenServed, Running, Conns
  <2> QED BY <2>1 DEF Injection, IsInjective
<1>4. Cardinality(Entries) <= Cardinality(Serving) /\ IsFiniteSet(Entries)
  <2> HIDE DEF Serving, sessionOf
  <2> QED BY <1>2, <1>3, FS_Injection
<1>5. Cardinality(Serving) <= MaxConnections
  BY <1>1 DEF LoopSafe
<1>6. Cardinality(Entries) \in Nat /\ Cardinality(Serving) \in Nat /\ MaxConnections \in Nat
  BY <1>2, <1>4, FS_CardinalityType, GatewayAssumption
<1> QED BY <1>4, <1>5, <1>6

-----------------------------------------------------------------------------
(* The invariant and what it implies.                                       *)

\* The invariant holds when the process starts.
LEMMA GatewayInvInit ==
  GatewayInit => EntryOpen /\ OpenServed /\ HandlerServed
<1>1. SUFFICES ASSUME GatewayInit
               PROVE  EntryOpen /\ OpenServed /\ HandlerServed
  OBVIOUS
<1>2. Entries = {}
  BY <1>1 DEF GatewayInit, Init, Entries
<1>3. OpenServed /\ HandlerServed
  BY <1>1 DEF GatewayInit, Init, OpenServed, HandlerServed, Unsent
<1> QED BY <1>2, <1>3 DEF EntryOpen

\* The invariant is kept by every step, given that the parts keep theirs.
LEMMA GatewayInvStep ==
  ASSUME GatewayInv, RegistryInv', LoopSafe', [GatewayNext]_gatewayVars PROVE GatewayInv'
<1>1. TypeOK
  BY DEF GatewayInv, RegistryInv
<1>2. EntryOpen'
  BY <1>1, StepOfRegistry, EntryOpenStep DEF GatewayInv
<1>3. OpenServed' /\ HandlerServed'
  BY <1>1, OpenServedStep, HandlerServedStep DEF GatewayInv
<1> QED BY <1>2, <1>3 DEF GatewayInv

\* What the invariant says of the registry.
LEMMA InvRegisteredServed == GatewayInv => RegisteredServed
BY EntriesRun DEF GatewayInv, RegisteredServed, EntryOpen, OpenServed

\* What the invariant says of a process that has ended.
LEMMA InvGracefulExit == GatewayInv => GracefulExit
<1>1. SUFFICES ASSUME GatewayInv, pc = "exited", elapsed = {}
               PROVE  Entries = {} /\ \A r \in Requests : request[r].at \in {"unsent", "done"}
  BY DEF GracefulExit
<1>2. ~MayAbort /\ \A c \in Conns : ~Running(c)
  BY <1>1 DEF GatewayInv, LoopSafe, MayAbort, A!Ended, Running
<1> QED BY <1>1, <1>2 DEF GatewayInv, EntryOpen, OpenServed, HandlerServed, Conns

-----------------------------------------------------------------------------
(* What is proved of the accept loop, carried over.                         *)

L == INSTANCE AcceptLoopProofs

\* So does the instance the proofs are about.
LEMMA ProofsCountAlike ==
  ASSUME NEW S PROVE L!IsFiniteSet(S) = IsFiniteSet(S) /\ L!Cardinality(S) = Cardinality(S)
BY SMTT(30) DEF L!IsFiniteSet, IsFiniteSet, L!Cardinality, Cardinality

\* What AcceptLoop assumes of its constants holds here.
LEMMA LoopAssumption == L!AcceptAssumption
BY ConnsFinite, ProofsCountAlike, GatewayAssumption, SMTT(30) DEF L!AcceptAssumption

\* The instance the gateway is made of and the one the proofs are about are
\* the same machine.
LEMMA SameLoop == A!Init = L!Init /\ A!Next = L!Next
<1>1. \A S : A!Cardinality(S) = L!Cardinality(S)
  BY CountsAlike, ProofsCountAlike, SMTT(30)
<1>2. A!JoinOne = L!JoinOne
  BY <1>1, SMTT(30) DEF A!JoinOne, L!JoinOne, A!Exit, L!Exit, A!Reap, L!Reap, A!Tasks, L!Tasks,
              A!Drains, L!Drains
<1>3. \A c : A!TaskEnds(c) = L!TaskEnds(c)
  BY <1>1, SMTT(30) DEF A!TaskEnds, L!TaskEnds, A!In, L!In, A!Aborts, L!Aborts, A!Leaves, L!Leaves
<1>4. A!MainStep = L!MainStep
  BY <1>2, SMTT(30)
  DEF A!MainStep, L!MainStep, A!PollShutdown, L!PollShutdown, A!Break, L!Break, A!PollJoin,
      L!PollJoin, A!Park, L!Park, A!Wake, L!Wake, A!Accept, L!Accept, A!Reject, L!Reject,
      A!DrainTimeout, L!DrainTimeout, A!GraceTimeout, L!GraceTimeout, A!RuntimeGone, L!RuntimeGone,
      A!DropListener, L!DropListener, A!Exit, L!Exit, A!Reap, L!Reap, A!In, L!In, A!Tasks, L!Tasks,
      A!Leaves, L!Leaves
<1>5. A!Next = L!Next
  BY <1>3, <1>4, SMTT(30)
  DEF A!Next, L!Next, A!AcceptFails, L!AcceptFails, A!Connect, L!Connect, A!TaskFinished,
      L!TaskFinished, A!Signal, L!Signal, A!Tick, L!Tick, A!DropListener, L!DropListener,
      A!Ended, L!Ended, A!Polls, L!Polls
<1> QED BY <1>5 DEF A!Init, L!Init

\* The invariants of both parts hold of the gateway.
LEMMA PartsHold == GatewaySpec => [](RegistryInv /\ LoopSafe)
<1>1. A!Spec => L!Spec
  <2>1. A!Init => L!Init
    BY SameLoop, SMTT(30)
  <2>2. [A!Next]_(A!vars) => [L!Next]_(L!vars)
    BY SameLoop, SMTT(30) DEF A!vars, L!vars
  <2> QED BY <2>1, <2>2, PTL DEF A!Spec, L!Spec
<1>2. L!Spec => []L!LoopInv
  BY LoopAssumption, L!LoopInvariant, SMTT(30)
<1>3. L!LoopInv => LoopSafe
  <2>1. SUFFICES ASSUME L!LoopInv PROVE LoopSafe
    OBVIOUS
  <2>2. L!CapRespected
    BY <2>1, LoopAssumption, L!CapFromTypes, SMTT(30) DEF L!LoopInv
  <2>3. Cardinality({c \in Conns : Running(c)}) <= MaxConnections
    BY <2>2, ProofsCountAlike, SMTT(30) DEF L!CapRespected, L!In, Running
  <2> QED
    BY <2>1, <2>3, SMTT(30)
    DEF LoopSafe, L!LoopInv, L!TypeOK, L!Queue, L!Counts, L!AbortAfterDrain, L!ConnStates,
        A!ConnStates, L!Ended, A!Ended
<1> QED BY <1>1, <1>2, <1>3, ImplementsLoop, ImplementsRegistry, RegistryInvariant, PTL

-----------------------------------------------------------------------------
(* Theorems.                                                                *)

\* The invariant of the composition: both parts' invariants, and tasks own
\* what the registry and the handlers hold.
THEOREM GatewayInvariant == GatewaySpec => []GatewayInv
<1>1. GatewayInit /\ RegistryInv /\ LoopSafe => GatewayInv
  BY GatewayInvInit DEF GatewayInv
<1>2. GatewayInv /\ RegistryInv' /\ LoopSafe' /\ [GatewayNext]_gatewayVars => GatewayInv'
  BY GatewayInvStep
<1> QED BY <1>1, <1>2, PartsHold, PTL DEF GatewaySpec

\* CANCEL_REGISTRY has entries of served connections only, and never more
\* than max_connections of them, also when keys collide.
THEOREM RegisteredServedHolds == GatewaySpec => []RegisteredServed
BY InvRegisteredServed, GatewayInvariant, PTL

\* A drain that needs none of its budget leaves no entry and no half-handled
\* CancelRequest behind.
THEOREM GracefulExitHolds == GatewaySpec => []GracefulExit
BY InvGracefulExit, GatewayInvariant, PTL

\* A CancelRequest stops queries of its own session only, in the process as
\* a whole.
THEOREM GatewayCancelHitsOwner == GatewaySpec => []CancelHitsOwner
BY ImplementsRegistry, CancelHitsOwnerHolds, PTL
=============================================================================
