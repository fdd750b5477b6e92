-------------------------- MODULE ConnectionProofs --------------------------
(***************************************************************************)
(* What Connection guarantees for every set of texts and portals, every    *)
(* cap and every number of queries and cancel requests: the inductive      *)
(* invariant, what its pieces need to survive a step, the client's and the *)
(* handler's half of the induction, and what follows from the invariant;   *)
(* then the slot with the id of the active query, the responses that wait  *)
(* to be streamed once, and the describe cache, with Describe and Execute  *)
(* as a pair and its cap.                                                  *)
(***************************************************************************)
EXTENDS Connection, TLAPS

\* A message is in progress exactly when the handler is not idle, and names a
\* text the client sent.
InProgress ==
  /\ pc # "idle" => msg.text \in Texts
  /\ msg.op \in {"describePortal", "execute"} => pc # "idle" /\ msg.portal \in Portals

\* Statements left to run fit under the bound; the one being executed is still
\* the head of `left`; a pipeline that is through has produced a response.
Budget ==
  /\ pc = "pieces" => submitted + Len(left) <= MaxQueries
  /\ pc = "pieces" /\ left = << >> => out # << >>
  /\ pc \in {"posted", "columns"} =>
       left # << >> /\ submitted + Len(left) - 1 <= MaxQueries

\* A response with rows comes from a query submitted for text t.
RanFor(response, t) ==
  response.kind = "rows" =>
    response.q \in 1 .. submitted /\ runs[response.q].text = t

\* Wherever a response waits, it was produced for the text recorded beside it.
Provenance ==
  /\ \A p \in Portals : RanFor(cache[p].response, cache[p].text)
  /\ pc # "idle" => RanFor(cur, msg.text)
  /\ pc # "idle" => \A i \in 1 .. Len(out) : RanFor(out[i], msg.text)

IInv == TypeOK /\ InProgress /\ Budget /\ Provenance

-----------------------------------------------------------------------------
\* Responses without rows are responses.
LEMMA PlainTyped ==
  \A kind \in {"ok", "error", "local", "none"} :
    Plain(kind) \in Responses /\ Plain(kind).kind = kind
  BY BoundAssumption DEF Plain, Responses, QueryOrNone

\* A new connection satisfies the invariant.
LEMMA InitIInv == Init => IInv
  <1> SUFFICES ASSUME Init PROVE IInv
    OBVIOUS
  <1> USE TextAssumption, BoundAssumption
  <1>1. TypeOK
    BY DEF Init, TypeOK, Plain, NoEntry, Unbound, NoMsg, NoRun, Ops, Statuses, Responses,
           QueryOrNone, TextOrNone, FormatOrNone, Queries, Kinds
  <1>2. InProgress /\ Budget /\ Provenance
    BY DEF Init, InProgress, Budget, Provenance, RanFor, Plain, NoEntry, NoMsg
  <1> QED
    BY <1>1, <1>2 DEF IInv

-----------------------------------------------------------------------------
(* The pieces handlers are made of.                                         *)

Run == [status : Statuses, text : TextOrNone, fmt : FormatOrNone, polled : BOOLEAN]
Runs == [Queries -> Run]

\* A step that submits nothing may change what Trino thinks of a query, never
\* which text it ran for.
RunsKept ==
  /\ submitted' = submitted
  /\ runs' \in Runs
  /\ \A q \in Queries : runs'[q].text = runs[q].text

\* What a response stands for survives every step that submits nothing.
RanForNext(response, t) ==
  response.kind = "rows" =>
    response.q \in 1 .. submitted' /\ runs'[response.q].text = t

\* Rows of a query stay rows of it as long as no run is forgotten.
LEMMA RanForKept ==
  ASSUME IInv, RunsKept
  PROVE  \A response \in Responses, t \in TextOrNone :
           RanFor(response, t) => RanForNext(response, t)
  BY DEF RanFor, RanForNext, RunsKept, IInv, TypeOK, QueryOrNone, Queries, Responses

\* A run that changes its status keeps its text, and what was read of it.
LEMMA RunEdited ==
  ASSUME NEW run \in Run, NEW status \in Statuses
  PROVE  /\ [run EXCEPT !.status = status] \in Run
         /\ [run EXCEPT !.status = status].text = run.text
         /\ [run EXCEPT !.status = status].polled = run.polled
  BY DEF Run

\* A query that changes its status is still the one that ran, and as much read.
LEMMA StatusKeepsRuns ==
  ASSUME IInv, submitted' = submitted, NEW q, NEW status \in Statuses,
         Becomes(q, status)
  PROVE  RunsKept /\ \A x \in Queries : runs'[x].polled = runs[x].polled
  <1>1. runs \in Runs
    BY DEF IInv, TypeOK, Runs, Run
  <1>2. \A x \in Queries : runs[x] \in Run
    BY <1>1, Zenon DEF Runs
  <1>3. runs' = [x \in Queries |-> IF x = q THEN [runs[x] EXCEPT !.status = status] ELSE runs[x]]
    BY <1>1, Zenon DEF Becomes, Runs
  <1>4. ASSUME NEW x \in Queries
        PROVE  runs'[x] \in Run /\ runs'[x].text = runs[x].text /\ runs'[x].polled = runs[x].polled
    <2>1. runs'[x] = IF x = q THEN [runs[x] EXCEPT !.status = status] ELSE runs[x]
      BY <1>3, Zenon
    <2>2. CASE x = q
      <3>1. runs'[x] = [runs[x] EXCEPT !.status = status]
        BY <2>1, <2>2, Zenon
      <3>2. runs[x] \in Run
        BY <1>2, Zenon
      <3> QED
        BY <3>1, <3>2, RunEdited
    <2>3. CASE ~(x = q)
      <3>1. runs'[x] = runs[x]
        BY <2>1, <2>3, Zenon
      <3> QED
        BY <1>2, <3>1, Zenon
    <2> QED
      BY <2>2, <2>3, Zenon
  <1>5. runs' \in Runs
    BY <1>3, <1>4, Zenon DEF Runs
  <1> QED
    BY <1>4, <1>5, Zenon DEF RunsKept

\* Nor does a step forget a run that leaves the queries alone.
LEMMA UnchangedKeepsRuns ==
  ASSUME IInv, UNCHANGED <<submitted, runs>>
  PROVE  RunsKept
  BY DEF RunsKept, Runs, Run, IInv, TypeOK

\* A run that is read keeps its text.
LEMMA RunPolled ==
  ASSUME NEW run \in Run
  PROVE  /\ [run EXCEPT !.polled = TRUE] \in Run
         /\ [run EXCEPT !.polled = TRUE].text = run.text
         /\ [run EXCEPT !.polled = TRUE].polled = TRUE
  <1>1. TRUE \in BOOLEAN
    OBVIOUS
  <1> QED
    BY <1>1, Zenon DEF Run

\* A stream that is polled marks its query and no other.
LEMMA PollKeepsRuns ==
  ASSUME IInv, submitted' = submitted, NEW q, runs' = [runs EXCEPT ![q].polled = TRUE]
  PROVE  /\ RunsKept
         /\ \A x \in Queries : x = q => runs'[x].polled = TRUE
         /\ \A x \in Queries : x # q => runs'[x].polled = runs[x].polled
  <1>1. runs \in Runs
    BY DEF IInv, TypeOK, Runs, Run
  <1>2. \A x \in Queries : runs[x] \in Run
    BY <1>1, Zenon DEF Runs
  <1>3. runs' = [x \in Queries |-> IF x = q THEN [runs[x] EXCEPT !.polled = TRUE] ELSE runs[x]]
    BY <1>1, Zenon DEF Runs
  <1>4. ASSUME NEW x \in Queries
        PROVE  /\ runs'[x] \in Run /\ runs'[x].text = runs[x].text
               /\ x = q => runs'[x].polled = TRUE
               /\ x # q => runs'[x].polled = runs[x].polled
    <2>1. runs'[x] = IF x = q THEN [runs[x] EXCEPT !.polled = TRUE] ELSE runs[x]
      BY <1>3, Zenon
    <2>2. runs[x] \in Run
      BY <1>2, Zenon
    <2>3. CASE x = q
      BY <2>1, <2>2, <2>3, RunPolled, Zenon
    <2>4. CASE ~(x = q)
      <3>1. runs'[x] = runs[x]
        BY <2>1, <2>4, Zenon
      <3> QED
        BY <2>2, <2>4, <3>1, Zenon
    <2> QED
      BY <2>3, <2>4, Zenon
  <1>5. runs' \in Runs
    BY <1>3, <1>4, Zenon DEF Runs
  <1> QED
    BY <1>4, <1>5, Zenon DEF RunsKept

\* Types of the variables that describe the session, not the message.
SessionOK ==
  /\ state \in {"ready", "awaitSync", "closed"}
  /\ portals \in [Portals -> [text : TextOrNone, fmt : FormatOrNone]]
  /\ cache \in [Portals -> [text : TextOrNone, response : Responses]]
  /\ slot \in QueryOrNone
  /\ cancels \in [CancelRequests -> QueryOrNone]
  /\ described \in SUBSET Portals
  /\ \A p \in Portals : RanFor(cache[p].response, cache[p].text)

\* An unchanged cache keeps its provenance.
LEMMA CacheKept ==
  ASSUME IInv, RunsKept, cache' = cache
  PROVE  \A p \in Portals : RanFor(cache[p].response, cache[p].text)'
  <1> SUFFICES ASSUME NEW p \in Portals
               PROVE  RanForNext(cache[p].response, cache[p].text)
    BY DEF RanFor, RanForNext
  <1>1. cache[p].response \in Responses /\ cache[p].text \in TextOrNone
    BY DEF IInv, TypeOK
  <1>2. RanFor(cache[p].response, cache[p].text)
    BY DEF IInv, Provenance
  <1> QED
    BY <1>1, <1>2, RanForKept

\* So do the responses the handler holds.
LEMMA HeldKept ==
  ASSUME IInv, RunsKept, pc # "idle"
  PROVE  /\ RanForNext(cur, msg.text)
         /\ \A i \in 1 .. Len(out) : RanForNext(out[i], msg.text)
  <1>1. /\ cur \in Responses
        /\ out \in Seq(Responses)
        /\ msg.text \in TextOrNone
    BY DEF IInv, TypeOK
  <1>2. RanFor(cur, msg.text) /\ \A i \in 1 .. Len(out) : RanFor(out[i], msg.text)
    BY DEF IInv, Provenance
  <1>3. \A i \in 1 .. Len(out) : out[i] \in Responses
    BY <1>1
  <1> QED
    BY <1>1, <1>2, <1>3, RanForKept

\* A handler that returns leaves no trace of its message.
LEMMA FinishIInv ==
  ASSUME IInv, RunsKept, Finish, SessionOK'
  PROVE  IInv'
  <1>1. TypeOK'
    BY PlainTyped DEF Finish, RunsKept, Runs, Run, SessionOK, IInv, TypeOK, NoMsg, Ops,
                      TextOrNone, FormatOrNone
  <1>2. InProgress' /\ Budget' /\ Provenance'
    BY DEF Finish, SessionOK, InProgress, Budget, Provenance, NoMsg, Plain, RanFor
  <1> QED
    BY <1>1, <1>2 DEF IInv

\* Nothing but the message changes: the frame of most handler steps.
Frame == UNCHANGED <<portals, cache, cancels, described>> /\ slot' \in QueryOrNone

\* Such a step keeps what the invariant says of portals, cache and requests.
LEMMA FrameSession ==
  ASSUME IInv, RunsKept, Frame, state' \in {"ready", "awaitSync", "closed"}
  PROVE  SessionOK'
  BY CacheKept DEF Frame, SessionOK, IInv, TypeOK

\* A statement that succeeds adds its response to the output.
LEMMA AnswersIInv ==
  ASSUME IInv, RunsKept, Frame,
         pc \in {"pieces", "columns"}, left # << >>,
         NEW response \in Responses, RanFor(response, msg.text),
         StatementAnswers(response)
  PROVE  IInv'
  <1> USE DEF StatementAnswers
  <1>1. SessionOK'
    BY FrameSession DEF IInv, TypeOK
  <1>2. /\ Tail(left) \in Seq(Kinds)
        /\ Len(left) \in Nat
        /\ Len(Tail(left)) = Len(left) - 1
    <2> left \in Seq(Kinds) /\ left # << >>
      BY DEF IInv, TypeOK
    <2> QED
      OBVIOUS
  <1>3. /\ Append(out, response) \in Seq(Responses)
        /\ Append(out, response) # << >>
        /\ \A i \in 1 .. Len(Append(out, response)) :
             \/ i \in 1 .. Len(out) /\ Append(out, response)[i] = out[i]
             \/ Append(out, response)[i] = response
    <2> out \in Seq(Responses)
      BY DEF IInv, TypeOK
    <2> QED
      OBVIOUS
  <1>4. TypeOK'
    BY <1>1, <1>2, <1>3, PlainTyped DEF RunsKept, Runs, Run, SessionOK, IInv, TypeOK
  <1>5. InProgress'
    BY DEF IInv, InProgress
  <1>6. Budget'
    BY <1>2, <1>3, BoundAssumption DEF RunsKept, IInv, TypeOK, Budget, QueryOrNone
  <1>7. Provenance'
    <2>1. \A i \in 1 .. Len(out) : RanForNext(out[i], msg.text)
      BY RanForKept DEF IInv, TypeOK, Provenance
    <2>2. RanForNext(response, msg.text)
      BY RanForKept DEF IInv, TypeOK
    <2> QED
      BY <1>1, <1>3, <2>1, <2>2 DEF SessionOK, Provenance, RanFor, RanForNext, Plain
  <1> QED
    BY <1>4, <1>5, <1>6, <1>7 DEF IInv

\* A statement that fails ends the message, or the batch it belongs to.
LEMMA FailsIInv ==
  ASSUME IInv, RunsKept, Frame, pc # "idle", StatementFails
  PROVE  IInv'
  <1>1. CASE Fail
    <2>1. SessionOK'
      BY <1>1, FrameSession DEF Fail
    <2> QED
      BY <1>1, <2>1, FinishIInv DEF Fail
  <1>2. CASE /\ out' = Append(out, Plain("error"))
             /\ left' = << >>
             /\ cur' = Plain("none")
             /\ pc' = "pieces"
             /\ UNCHANGED <<state, msg>>
    <2>1. SessionOK'
      BY <1>2, FrameSession DEF IInv, TypeOK
    <2>2. /\ out' \in Seq(Responses)
          /\ out' # << >>
          /\ \A i \in 1 .. Len(out') :
               (i \in 1 .. Len(out) /\ out'[i] = out[i]) \/ out'[i] = Plain("error")
      <3> out \in Seq(Responses) /\ Plain("error") \in Responses
        BY PlainTyped DEF IInv, TypeOK
      <3> QED
        BY <1>2
    <2>3. TypeOK'
      BY <1>2, <2>1, <2>2, PlainTyped DEF RunsKept, Runs, Run, SessionOK, IInv, TypeOK
    <2>4. InProgress' /\ Budget'
      BY <1>2, <2>2, BoundAssumption
      DEF IInv, TypeOK, InProgress, Budget, RunsKept, QueryOrNone
    <2>5. Provenance'
      <3>1. \A i \in 1 .. Len(out) : RanForNext(out[i], msg.text)
        BY RanForKept DEF IInv, TypeOK, Provenance
      <3> QED
        BY <1>2, <2>1, <2>2, <3>1, PlainTyped
        DEF SessionOK, Provenance, RanFor, RanForNext
    <2> QED
      BY <2>3, <2>4, <2>5 DEF IInv
  <1> QED
    BY <1>1, <1>2 DEF StatementFails

\* A new message starts with all the statements of its text and no output.
LEMMA BeginIInv ==
  ASSUME IInv, RunsKept, SessionOK', NEW op \in Ops, NEW p \in Portals \cup {NoPortal},
         NEW t \in Texts, NEW f \in FormatOrNone, WithinBound(t), Begin(op, p, t, f),
         op \in {"describePortal", "execute"} => p \in Portals
  PROVE  IInv'
  <1>1. Pieces[t] \in Seq(Kinds) /\ Pieces[t] # << >>
    BY TextAssumption
  <1>2. TypeOK'
    BY <1>1, PlainTyped DEF Begin, RunsKept, Runs, Run, SessionOK, IInv, TypeOK, TextOrNone
  <1>3. InProgress' /\ Budget'
    BY <1>1 DEF Begin, WithinBound, RunsKept, InProgress, Budget
  <1>4. Provenance'
    BY PlainTyped DEF Begin, SessionOK, Provenance, RanFor
  <1> QED
    BY <1>2, <1>3, <1>4 DEF IInv

\* A bound portal holds a text of the client's and its format.
LEMMA BoundPortal ==
  ASSUME IInv, NEW p \in Portals, portals[p].text # NoText
  PROVE  portals[p].text \in Texts /\ portals[p].fmt \in FormatOrNone
  BY DEF IInv, TypeOK, TextOrNone

-----------------------------------------------------------------------------
(* The client's messages, one step per action.                              *)

\* Every message of the client keeps the invariant.
LEMMA ClientStepIInv == IInv /\ ClientStep => IInv'
  <1> SUFFICES ASSUME IInv, ClientStep PROVE IInv'
    OBVIOUS
  <1> USE DEF trinoVars, jobVars
  <1>1. ASSUME NEW t \in Texts, SimpleQuery(t) PROVE IInv'
    <2>1. RunsKept
      BY <1>1, UnchangedKeepsRuns DEF SimpleQuery
    <2>2. SessionOK'
      BY <1>1, <2>1, FrameSession DEF SimpleQuery, Frame, IInv, TypeOK
    <2> QED
      BY <1>1, <2>1, <2>2, BeginIInv DEF SimpleQuery, Ops, FormatOrNone
  <1>2. ASSUME NEW t \in Texts, DescribeStatement(t) PROVE IInv'
    <2>1. RunsKept
      BY <1>2, UnchangedKeepsRuns DEF DescribeStatement
    <2>2. SessionOK'
      BY <1>2, <2>1, FrameSession DEF DescribeStatement, Frame, IInv, TypeOK
    <2> QED
      BY <1>2, <2>1, <2>2, BeginIInv DEF DescribeStatement, Ops, FormatOrNone
  <1>3. ASSUME NEW p \in Portals, NEW t \in Texts, NEW f \in Formats, Bind(p, t, f)
        PROVE  IInv'
    <2>1. TypeOK'
      BY <1>3, SMTT(30) DEF Bind, IInv, TypeOK, TextOrNone, FormatOrNone
    <2>2. InProgress' /\ Budget' /\ Provenance'
      BY <1>3 DEF Bind, IInv, InProgress, Budget, Provenance, RanFor
    <2> QED
      BY <2>1, <2>2 DEF IInv
  <1>4. ASSUME NEW p \in Portals, ClosePortal(p) PROVE IInv'
    <2>1. TypeOK'
      BY <1>4 DEF ClosePortal, Unbound, IInv, TypeOK, TextOrNone, FormatOrNone
    <2>2. InProgress' /\ Budget' /\ Provenance'
      BY <1>4 DEF ClosePortal, IInv, InProgress, Budget, Provenance, RanFor
    <2> QED
      BY <2>1, <2>2 DEF IInv
  <1>5. ASSUME NEW p \in Portals, DescribePortal(p) PROVE IInv'
    <2>1. RunsKept
      BY <1>5, UnchangedKeepsRuns DEF DescribePortal
    <2>2. SessionOK'
      BY <1>5, <2>1, FrameSession DEF DescribePortal, Frame, IInv, TypeOK
    <2>3. portals[p].text \in Texts /\ portals[p].fmt \in FormatOrNone
      BY <1>5, BoundPortal DEF DescribePortal
    <2> QED
      BY <1>5, <2>1, <2>2, <2>3, BeginIInv DEF DescribePortal, Ops
  <1>6. ASSUME NEW p \in Portals, Execute(p) PROVE IInv'
    <2>1. RunsKept
      BY <1>6, UnchangedKeepsRuns, SMTT(30) DEF Execute
    <2>2. portals[p].text \in Texts /\ portals[p].fmt \in FormatOrNone
      BY <1>6, BoundPortal DEF Execute
    <2>3. /\ cache' \in [Portals -> [text : TextOrNone, response : Responses]]
          /\ \A r \in Portals : cache'[r] = cache[r] \/ cache'[r] = NoEntry
      <3>1. cache \in [Portals -> [text : TextOrNone, response : Responses]]
        BY DEF IInv, TypeOK
      <3>2. cache' = TakeCached(cache, p)
        BY <1>6 DEF Execute
      <3> QED
        BY <3>1, <3>2, PlainTyped DEF TakeCached, NoEntry, TextOrNone
    <2>4. SessionOK'
      <3>1. UNCHANGED <<state, portals, slot, cancels>> /\ described' \in SUBSET Portals
        BY <1>6 DEF Execute, IInv, TypeOK
      <3>2. \A r \in Portals : RanFor(cache[r].response, cache[r].text)'
        <4>1. \A r \in Portals : RanFor(cache[r].response, cache[r].text)
          BY DEF IInv, Provenance
        <4>2. NoEntry.response.kind # "rows"
          BY DEF NoEntry, Plain
        <4>3. UNCHANGED trinoVars
          BY <1>6 DEF Execute
        <4> QED
          BY <2>3, <4>1, <4>2, <4>3 DEF RanFor
      <3> QED
        BY <2>3, <3>1, <3>2 DEF SessionOK, IInv, TypeOK
    <2>5. CASE /\ ServesExecute(cache[p], portals[p].text)
               /\ msg' = [op |-> "execute", portal |-> p, text |-> portals[p].text,
                          fmt |-> portals[p].fmt]
               /\ pc' = "reply"
               /\ out' = <<cache[p].response>>
               /\ UNCHANGED <<left, cur>>
      <3>1. TypeOK'
        BY <1>6, <2>1, <2>2, <2>4, <2>5
        DEF Receiving, Execute, RunsKept, Runs, Run, SessionOK, IInv, TypeOK, TextOrNone, Ops
      <3>2. InProgress' /\ Budget'
        BY <2>2, <2>5 DEF InProgress, Budget
      <3>3. \A r \in Portals : RanFor(cache[r].response, cache[r].text)'
        BY <2>4 DEF SessionOK
      <3>4. RanFor(cur, msg.text)'
        <4>1. cur.kind # "rows"
          BY <1>6 DEF Execute, Receiving, IInv, TypeOK
        <4> QED
          BY <2>5, <4>1 DEF RanFor
      <3>5. \A i \in 1 .. Len(out') : RanFor(out[i], msg.text)'
        <4>1. RanFor(cache[p].response, cache[p].text) /\ cache[p].text = portals[p].text
          BY <2>5, Zenon DEF ServesExecute, IInv, Provenance
        <4>2. RanForNext(cache[p].response, msg'.text)
          BY <1>6, <2>5, <4>1, Zenon DEF Execute, RanFor, RanForNext
        <4> QED
          BY <2>5, <4>2 DEF RanFor, RanForNext
      <3>6. Provenance'
        BY <3>3, <3>4, <3>5 DEF Provenance
      <3> QED
        BY <3>1, <3>2, <3>6 DEF IInv
    <2>6. CASE /\ WithinBound(portals[p].text)
               /\ Begin("execute", p, portals[p].text, portals[p].fmt)
      BY <2>1, <2>2, <2>4, <2>6, BeginIInv DEF Ops
    <2> QED
      BY <1>6, <2>5, <2>6 DEF Execute
  <1>7. CASE Sync
    <2>1. TypeOK'
      BY <1>7 DEF Sync, IInv, TypeOK
    <2>2. InProgress' /\ Budget' /\ Provenance'
      BY <1>7 DEF Sync, IInv, InProgress, Budget, Provenance, RanFor
    <2> QED
      BY <2>1, <2>2 DEF IInv
  <1>8. CASE Close
    <2>1. RunsKept
      BY <1>8, UnchangedKeepsRuns DEF Close
    <2>2. SessionOK'
      BY <1>8, PlainTyped, BoundAssumption
      DEF Close, SessionOK, SlotAfterGuard, Unbound, NoEntry, IInv, TypeOK, TextOrNone,
          FormatOrNone, QueryOrNone, RanFor
    <2> QED
      BY <1>8, <2>1, <2>2, FinishIInv DEF Close
  <1> QED
    BY <1>1, <1>2, <1>3, <1>4, <1>5, <1>6, <1>7, <1>8 DEF ClientStep

\* Every step of a handler keeps the invariant.
LEMMA HandlerStepIInv == IInv /\ HandlerStep => IInv'
  <1> SUFFICES ASSUME IInv, HandlerStep PROVE IInv'
    OBVIOUS
  <1> USE DEF trinoVars, jobVars
  <1>0. slot \in QueryOrNone /\ 0 \in QueryOrNone
    BY BoundAssumption DEF IInv, TypeOK, QueryOrNone
  <1>1. CASE Intercepted
    <2>1. RunsKept
      BY <1>1, UnchangedKeepsRuns DEF Intercepted
    <2> QED
      BY <1>0, <1>1, <2>1, PlainTyped, AnswersIInv DEF Intercepted, Processing, Frame, RanFor
  <1>2. CASE CatalogQuery
    <2>1. RunsKept /\ Frame
      BY <1>0, <1>2, UnchangedKeepsRuns DEF CatalogQuery, Frame
    <2>2. CASE StatementAnswers(Plain("local"))
      BY <1>2, <2>1, <2>2, PlainTyped, AnswersIInv DEF CatalogQuery, Processing, RanFor
    <2>3. CASE Fail
      BY <2>1, <2>3, FrameSession, FinishIInv DEF Fail
    <2> QED
      BY <1>2, <2>2, <2>3 DEF CatalogQuery
  <1>3. CASE Submit
    <2>1. /\ left \in Seq(Kinds) /\ left # << >> /\ submitted \in Nat /\ MaxQueries \in Nat
          /\ submitted + Len(left) <= MaxQueries
      BY <1>3, BoundAssumption
      DEF Submit, Processing, IInv, TypeOK, Budget, QueryOrNone
    <2>2. submitted' = submitted + 1 /\ submitted' \in Queries /\ submitted' \in QueryOrNone
      BY <1>3, <2>1 DEF Submit, Queries, QueryOrNone
    <2>3. /\ runs' \in Runs
          /\ runs'[submitted'].text = msg.text
          /\ \A q \in 1 .. submitted : runs'[q] = runs[q]
      BY <1>3, <2>1, <2>2 DEF Submit, Runs, Run, Statuses, IInv, TypeOK, QueryOrNone, Queries
    <2>4. cur' \in Responses /\ cur'.kind = "rows" /\ cur'.q = submitted'
      BY <1>3, <2>2, SMTT(30) DEF Submit, Rows, Responses
    <2>5. TypeOK'
      BY <1>3, <2>2, <2>3, <2>4, Zenon DEF Submit, Runs, Run, IInv, TypeOK
    <2>6. InProgress' /\ Budget'
      BY <1>3, <2>1 DEF Submit, Processing, IInv, InProgress, Budget
    <2>7. \A response \in Responses, t \in TextOrNone :
            RanFor(response, t) => RanForNext(response, t)
      <3> 1 .. submitted \subseteq 1 .. submitted'
        BY <2>1, <2>2
      <3> QED
        BY <2>3 DEF RanFor, RanForNext
    <2>8. \A p \in Portals : RanForNext(cache[p].response, cache[p].text)
      BY <2>7, Zenon DEF IInv, TypeOK, Provenance
    <2>9. \A i \in 1 .. Len(out) : RanForNext(out[i], msg.text)
      BY <1>3, <2>7 DEF Submit, Processing, IInv, TypeOK, Provenance
    <2>10. RanForNext(cur', msg.text)
      BY <2>1, <2>2, <2>3, <2>4, SMTT(30) DEF RanForNext
    <2>11. Provenance'
      BY <1>3, <2>8, <2>9, <2>10, Zenon DEF Submit, Provenance, RanFor, RanForNext
    <2> QED
      BY <2>5, <2>6, <2>11, SMTT(30) DEF IInv
  <1>4. CASE SubmitFails
    <2>1. RunsKept
      BY <1>4, UnchangedKeepsRuns DEF SubmitFails
    <2> QED
      BY <1>0, <1>4, <2>1, FailsIInv DEF SubmitFails, Processing, Frame
  <1>5. CASE RecordQueryId
    <2>1. RunsKept
      BY <1>5, StatusKeepsRuns DEF RecordQueryId, Statuses
    <2>2. SessionOK'
      BY <1>5, <2>1, FrameSession DEF RecordQueryId, Frame, IInv, TypeOK, Responses
    <2>3. TypeOK'
      BY <1>5, <2>1, <2>2, SMTT(30) DEF RecordQueryId, RunsKept, Runs, Run, SessionOK, IInv, TypeOK
    <2>4. InProgress' /\ Budget'
      BY <1>5, <2>1, Zenon DEF RecordQueryId, RunsKept, IInv, InProgress, Budget
    <2>5. RanForNext(cur, msg.text) /\ \A i \in 1 .. Len(out) : RanForNext(out[i], msg.text)
      BY <1>5, <2>1, HeldKept, SMTT(30) DEF RecordQueryId
    <2>6. Provenance'
      BY <1>5, <2>2, <2>5, Zenon DEF RecordQueryId, SessionOK, Provenance, RanFor, RanForNext
    <2> QED
      BY <2>3, <2>4, <2>6 DEF IInv
  <1>6. CASE ColumnsArrive
    <2>1. RunsKept
      BY <1>6, StatusKeepsRuns, UnchangedKeepsRuns, Zenon DEF ColumnsArrive, Statuses
    <2>2. Frame
      BY <1>0, <1>6, Zenon DEF ColumnsArrive, Frame
    <2>3. \A more \in BOOLEAN :
            Rows(cur.q, more) \in Responses /\ RanFor(Rows(cur.q, more), msg.text)
      BY <1>6 DEF ColumnsArrive, Rows, Responses, IInv, TypeOK, Provenance, RanFor
    <2>4. PICK more \in BOOLEAN : StatementAnswers(Rows(cur.q, more))
      BY <1>6, Zenon DEF ColumnsArrive
    <2>5. pc = "columns" /\ left # << >>
      BY <1>6 DEF ColumnsArrive, IInv, Budget
    <2> QED
      BY <2>1, <2>2, <2>3, <2>4, <2>5, AnswersIInv
  <1>7. CASE NoColumns
    <2>1. RunsKept
      BY <1>7, StatusKeepsRuns DEF NoColumns, Statuses
    <2>2. Frame
      BY <1>0, <1>7 DEF NoColumns, Frame
    <2>3. pc = "columns" /\ left # << >>
      BY <1>7 DEF NoColumns, IInv, Budget
    <2>4. Plain("ok") \in Responses /\ RanFor(Plain("ok"), msg.text)
      BY PlainTyped DEF RanFor
    <2> QED
      BY <1>7, <2>1, <2>2, <2>3, <2>4, AnswersIInv DEF NoColumns
  <1>8. CASE ColumnsFail
    <2>1. RunsKept
      BY <1>8, StatusKeepsRuns, UnchangedKeepsRuns DEF ColumnsFail, Statuses
    <2>2. Frame /\ pc # "idle"
      BY <1>0, <1>8 DEF ColumnsFail, Frame
    <2> QED
      BY <1>8, <2>1, <2>2, FailsIInv DEF ColumnsFail
  <1>9. CASE Replies
    <2>1. out \in Seq(Responses) /\ out # << >>
      BY <1>9 DEF Replies, IInv, TypeOK, Budget
    <2>2. /\ out' \in Seq(Responses)
          /\ \A i \in 1 .. Len(out') : i \in 1 .. Len(out) /\ out'[i] = out[i]
      <3> Head(out) \in Responses /\ Head(out) = out[1] /\ Len(out) >= 1 /\ Len(out) \in Nat
        BY <2>1
      <3> QED
        BY <1>9, <2>1 DEF Replies
    <2>3. TypeOK'
      BY <1>9, <2>2, Zenon DEF Replies, IInv, TypeOK
    <2>4. InProgress' /\ Budget' /\ Provenance'
      BY <1>9, <2>2 DEF Replies, IInv, InProgress, Budget, Provenance, RanFor
    <2> QED
      BY <2>3, <2>4 DEF IInv
  <1>10. CASE DescribedStatement
    <2>1. RunsKept
      BY <1>10, UnchangedKeepsRuns DEF DescribedStatement
    <2>2. SessionOK'
      BY <1>0, <1>10, <2>1, FrameSession DEF DescribedStatement, Frame, IInv, TypeOK
    <2> QED
      BY <1>10, <2>1, <2>2, FinishIInv DEF DescribedStatement
  <1>11. CASE DescribedPortal
    <2> DEFINE entry == [text |-> msg.text, response |-> Head(out)]
    <2>1. RunsKept
      BY <1>11, UnchangedKeepsRuns DEF DescribedPortal
    <2>2. out \in Seq(Responses) /\ out # << >> /\ msg.portal \in Portals
      BY <1>11 DEF DescribedPortal, IInv, TypeOK, InProgress, Budget
    <2>3. Head(out) \in Responses /\ RanFor(Head(out), msg.text)
      <3>1. \A i \in 1 .. Len(out) : RanFor(out[i], msg.text)
        BY <1>11 DEF DescribedPortal, IInv, Provenance
      <3>2. Head(out) = out[1] /\ 1 \in 1 .. Len(out) /\ Head(out) \in Responses
        BY <2>2, SMTT(30)
      <3> QED
        BY <3>1, <3>2
    <2>4. /\ cache' \in [Portals -> [text : TextOrNone, response : Responses]]
          /\ \A p \in Portals : cache'[p] = cache[p] \/ cache'[p] = entry
      BY <1>11, <2>2, <2>3, Zenon DEF DescribedPortal, InsertCached, IInv, TypeOK
    <2>5. \A p \in Portals : RanFor(cache'[p].response, cache'[p].text)
      BY <2>3, <2>4 DEF IInv, Provenance
    <2>6. SessionOK'
      <3>1. UNCHANGED <<state, portals, slot, cancels, trinoVars>>
        BY <1>11 DEF DescribedPortal
      <3>2. described' \in SUBSET Portals
        BY <1>11, <2>2, SMTT(30) DEF DescribedPortal, IInv, TypeOK
      <3>3. \A p \in Portals : RanFor(cache[p].response, cache[p].text)'
        BY <2>5, <3>1 DEF RanFor
      <3>4. /\ state' \in {"ready", "awaitSync", "closed"}
            /\ portals' \in [Portals -> [text : TextOrNone, fmt : FormatOrNone]]
            /\ slot' \in QueryOrNone
            /\ cancels' \in [CancelRequests -> QueryOrNone]
        BY <3>1 DEF IInv, TypeOK
      <3> QED
        BY <2>4, <3>2, <3>3, <3>4 DEF SessionOK
    <2> QED
      BY <1>11, <2>1, <2>6, FinishIInv DEF DescribedPortal
  <1>12. CASE ReplyWithoutRows
    <2>1. /\ out' \in Seq(Responses)
          /\ \A i \in 1 .. Len(out') : i + 1 \in 1 .. Len(out) /\ out'[i] = out[i + 1]
      BY <1>12 DEF ReplyWithoutRows, IInv, TypeOK
    <2>2. TypeOK'
      BY <1>12, <2>1, SMTT(30) DEF ReplyWithoutRows, IInv, TypeOK
    <2>3. InProgress' /\ Budget' /\ Provenance'
      BY <1>12, <2>1 DEF ReplyWithoutRows, IInv, InProgress, Budget, Provenance, RanFor
    <2> QED
      BY <2>2, <2>3 DEF IInv
  <1>13. CASE StartStream
    <2>1. /\ out' \in Seq(Responses)
          /\ \A i \in 1 .. Len(out') : i + 1 \in 1 .. Len(out) /\ out'[i] = out[i + 1]
          /\ 1 \in 1 .. Len(out) /\ cur' = out[1] /\ cur' \in Responses
      BY <1>13 DEF StartStream, IInv, TypeOK
    <2>2. RunsKept
      BY <1>13, PollKeepsRuns, Zenon DEF StartStream
    <2>3. TypeOK'
      BY <1>13, <2>1, <2>2, SMTT(30) DEF StartStream, RunsKept, Runs, Run, IInv, TypeOK
    <2>4. InProgress' /\ Budget'
      BY <1>13 DEF StartStream, IInv, InProgress, Budget
    <2>5. \A i \in 1 .. Len(out) : RanForNext(out[i], msg.text)
      BY <1>13, <2>2, HeldKept DEF StartStream
    <2>6. Provenance'
      BY <1>13, <2>1, <2>2, <2>5, CacheKept, SMTT(30)
      DEF StartStream, Provenance, RanFor, RanForNext
    <2> QED
      BY <2>3, <2>4, <2>6 DEF IInv
  <1>14. CASE StreamLastPage
    <2>1. RunsKept
      BY <1>14, StatusKeepsRuns DEF StreamLastPage, Statuses
    <2>2. SessionOK'
      BY <1>0, <1>14, <2>1, FrameSession DEF StreamLastPage, Frame, IInv, TypeOK
    <2>3. cur' \in Responses /\ cur'.kind = cur.kind /\ cur'.q = cur.q
      BY <1>14, Zenon DEF StreamLastPage, Responses, IInv, TypeOK
    <2>4. TypeOK'
      BY <1>14, <2>1, <2>2, <2>3
      DEF StreamLastPage, RunsKept, Runs, Run, SessionOK, IInv, TypeOK
    <2>5. InProgress' /\ Budget'
      BY <1>14 DEF StreamLastPage, IInv, InProgress, Budget
    <2>6. RanForNext(cur, msg.text) /\ \A i \in 1 .. Len(out) : RanForNext(out[i], msg.text)
      BY <1>14, <2>1, RanForKept DEF StreamLastPage, IInv, TypeOK, Provenance
    <2>7. Provenance'
      BY <1>14, <2>2, <2>3, <2>6, SMTT(30)
      DEF StreamLastPage, SessionOK, Provenance, RanFor, RanForNext
    <2> QED
      BY <2>4, <2>5, <2>7 DEF IInv
  <1>15. CASE StreamEnds
    <2>1. TypeOK'
      BY <1>0, <1>15, PlainTyped, SMTT(30) DEF StreamEnds, SlotAfterGuard, IInv, TypeOK
    <2>2. InProgress' /\ Budget' /\ Provenance'
      BY <1>15, PlainTyped
      DEF StreamEnds, IInv, InProgress, Budget, Provenance, RanFor
    <2> QED
      BY <2>1, <2>2 DEF IInv
  <1>16. CASE StreamFails
    <2>1. RunsKept
      BY <1>16, StatusKeepsRuns, UnchangedKeepsRuns DEF StreamFails, Statuses
    <2>2. SessionOK'
      BY <1>0, <1>16, <2>1, FrameSession DEF StreamFails, SlotAfterGuard, Fail, Frame
    <2> QED
      BY <1>16, <2>1, <2>2, FinishIInv DEF StreamFails, Fail
  <1>17. CASE Answered
    <2>1. RunsKept
      BY <1>17, UnchangedKeepsRuns DEF Answered
    <2>2. SessionOK'
      BY <1>0, <1>17, <2>1, FrameSession DEF Answered, Frame, IInv, TypeOK
    <2> QED
      BY <1>17, <2>1, <2>2, FinishIInv DEF Answered
  <1> QED
    BY <1>1, <1>2, <1>3, <1>4, <1>5, <1>6, <1>7, <1>8, <1>9, <1>10, <1>11, <1>12,
       <1>13, <1>14, <1>15, <1>16, <1>17, SMTT(30) DEF HandlerStep, StreamStep

\* Every step keeps the invariant.
LEMMA StepIInv == IInv /\ [Next]_vars => IInv'
  <1> SUFFICES ASSUME IInv, [Next]_vars PROVE IInv'
    OBVIOUS
  <1> USE DEF trinoVars, jobVars
  <1>1. ASSUME NEW k \in CancelRequests, CancelRead(k) PROVE IInv'
    <2>1. TypeOK'
      BY <1>1, Zenon DEF CancelRead, IInv, TypeOK
    <2>2. InProgress' /\ Budget' /\ Provenance'
      BY <1>1 DEF CancelRead, IInv, InProgress, Budget, Provenance, RanFor
    <2> QED
      BY <2>1, <2>2 DEF IInv
  <1>2. ASSUME RunsKept, UNCHANGED <<state, portals, cache, slot, jobVars, pc, described>>,
               cancels' \in [CancelRequests -> QueryOrNone]
        PROVE  IInv'
    <2>1. TypeOK'
      BY <1>2, Zenon DEF RunsKept, Runs, Run, IInv, TypeOK
    <2>2. InProgress' /\ Budget'
      BY <1>2, Zenon DEF RunsKept, IInv, InProgress, Budget
    <2>3. pc # "idle" =>
            /\ RanForNext(cur, msg.text)
            /\ \A i \in 1 .. Len(out) : RanForNext(out[i], msg.text)
      BY <1>2, HeldKept, Zenon
    <2>4. Provenance'
      BY <1>2, <2>3, CacheKept DEF Provenance, RanFor, RanForNext
    <2> QED
      BY <2>1, <2>2, <2>4 DEF IInv
  <1>3. ASSUME NEW k \in CancelRequests, CancelDeliver(k) PROVE IInv'
    <2>1. RunsKept
      BY <1>3, StatusKeepsRuns, UnchangedKeepsRuns DEF CancelDeliver, Statuses
    <2>2. cancels' \in [CancelRequests -> QueryOrNone]
      BY <1>3, BoundAssumption, SMTT(30) DEF CancelDeliver, IInv, TypeOK, QueryOrNone
    <2> QED
      BY <1>2, <1>3, <2>1, <2>2 DEF CancelDeliver
  <1>4. ASSUME NEW q \in Queries, TrinoExpires(q) PROVE IInv'
    <2>1. RunsKept
      BY <1>4, StatusKeepsRuns, Zenon DEF TrinoExpires, Statuses
    <2> QED
      BY <1>2, <1>4, <2>1, Zenon DEF TrinoExpires, IInv, TypeOK
  <1>5. CASE UNCHANGED vars
    <2>1. RunsKept
      BY <1>5, UnchangedKeepsRuns DEF vars
    <2> QED
      BY <1>2, <1>5, <2>1 DEF vars, IInv, TypeOK
  <1> QED
    BY <1>1, <1>3, <1>4, <1>5, ClientStepIInv, HandlerStepIInv DEF Next

\* Every reachable state is well typed, whatever the constants.
THEOREM TypeCorrect == Spec => []TypeOK
  <1>1. Spec => []IInv
    BY InitIInv, StepIInv, PTL DEF Spec
  <1>2. IInv => TypeOK
    BY DEF IInv
  <1> QED
    BY <1>1, <1>2, PTL

\* Execute only ever streams rows of a query that ran for the text its portal
\* is bound to: the text test in do_query makes up for the missing
\* invalidation of the describe cache.
THEOREM ServesBoundTextHolds == Spec => []ServesBoundText
  <1>1. Spec => []IInv
    BY InitIInv, StepIInv, PTL DEF Spec
  <1>2. IInv => ServesBoundText
    BY Zenon DEF IInv, TypeOK, Provenance, RanFor, ServesBoundText
  <1> QED
    BY <1>1, <1>2, PTL

-----------------------------------------------------------------------------
(* The slot that holds the id of the active query.                          *)

\* A simple query of one statement has one response, and from the moment its
\* id is known the slot holds it.
LoneQuery == msg.op = "query" /\ pc # "idle" /\ Len(Pieces[msg.text]) = 1

LoneInv ==
  LoneQuery =>
    /\ left # << >> => Len(left) = 1 /\ out = << >>
    /\ pc \in {"reply", "stream"} => left = << >>
    /\ pc = "columns" => slot = cur.q
    /\ pc \in {"pieces", "reply"} =>
         /\ Len(out) <= 1
         /\ \A i \in 1 .. Len(out) : out[i].kind = "rows" => slot = out[i].q
    /\ pc = "stream" => slot = cur.q /\ out = << >>

\* The steps that write active_query_id.
LEMMA SlotWriters ==
  ASSUME [Next]_vars, slot' # slot
  PROVE  RecordQueryId \/ ColumnsFail \/ StreamEnds \/ StreamFails \/ Close
  BY ZenonT(30)
     DEF Next, vars, ClientStep, HandlerStep, StreamStep, SimpleQuery, Bind, ClosePortal, Sync,
         Execute, DescribeStatement, DescribePortal, Intercepted, CatalogQuery, Submit, SubmitFails,
         ColumnsArrive, NoColumns, Replies, DescribedStatement, DescribedPortal,
         ReplyWithoutRows, StartStream, StreamLastPage, Answered,
         CancelRead, CancelDeliver, TrinoExpires

\* A statement's answer: the one response of a lone query, in the slot if it
\* carries rows.
LEMMA LoneAnswers ==
  ASSUME IInv, LoneInv, pc \in {"pieces", "columns"}, left # << >>,
         NEW response \in Responses, response.kind = "rows" => slot' = response.q,
         StatementAnswers(response)
  PROVE  LoneInv'
  <1> SUFFICES ASSUME LoneQuery' PROVE LoneInv'
    BY Zenon DEF LoneInv
  <1>1. Len(left) = 1 /\ out = << >>
    BY Zenon DEF StatementAnswers, LoneQuery, LoneInv
  <1>2. left \in Seq(Kinds)
    BY Zenon DEF IInv, TypeOK
  <1>3. left' = Tail(left) /\ out' = Append(out, response) /\ pc' = "pieces"
    BY Zenon DEF StatementAnswers
  <1>4. left' = << >> /\ Len(out') = 1 /\ out'[1] = response
    BY <1>1, <1>2, <1>3
  <1> QED
    BY <1>3, <1>4, SMTT(30) DEF LoneInv

\* A failing statement ends a lone query.
LEMMA LoneFails ==
  ASSUME IInv, pc # "idle", StatementFails PROVE LoneInv'
  <1>0. Len(Pieces[msg.text]) \in Nat
    <2> msg.text \in Texts
      BY DEF IInv, InProgress
    <2> Pieces[msg.text] \in Seq(Kinds)
      BY TextAssumption
    <2> QED
      OBVIOUS
  <1>1. pc' = "idle" \/ (Len(Pieces[msg.text]) # 1 /\ msg' = msg)
    <2>1. \A n \in Nat : n > 1 => n # 1
      OBVIOUS
    <2>2. Len(Pieces[msg.text]) > 1 => Len(Pieces[msg.text]) # 1
      BY <1>0, <2>1, Zenon
    <2> QED
      BY <2>2 DEF StatementFails, Fail, Finish
  <1>2. ~LoneQuery'
    BY <1>1 DEF LoneQuery
  <1> QED
    BY <1>2 DEF LoneInv

\* Every step keeps the slot of a lone simple statement right.
LEMMA StepLoneInv == IInv /\ LoneInv /\ [Next]_vars => LoneInv'
  <1> SUFFICES ASSUME IInv, LoneInv, [Next]_vars PROVE LoneInv'
    OBVIOUS
  <1> USE DEF trinoVars, jobVars
  <1>1. ASSUME UNCHANGED <<msg, pc, left, out, cur, slot>> PROVE LoneInv'
    BY <1>1 DEF LoneInv, LoneQuery
  <1>2. ASSUME pc' = "idle" \/ msg'.op # "query" PROVE LoneInv'
    BY <1>2 DEF LoneInv, LoneQuery
  <1>3. ASSUME NEW t \in Texts, SimpleQuery(t) PROVE LoneInv'
    BY <1>3, SMTT(30) DEF SimpleQuery, Begin, LoneInv, LoneQuery
  <1>4. ASSUME ClientStep PROVE LoneInv'
    <2>1. ASSUME NEW t \in Texts, DescribeStatement(t) PROVE msg'.op # "query"
      BY <2>1, Zenon DEF DescribeStatement, Begin
    <2>2. ASSUME NEW p \in Portals, DescribePortal(p) PROVE msg'.op # "query"
      BY <2>2, Zenon DEF DescribePortal, Begin
    <2>3. ASSUME NEW p \in Portals, Execute(p) PROVE msg'.op # "query"
      BY <2>3 DEF Execute, Begin
    <2>4. ASSUME \/ \E p \in Portals, t \in Texts, f \in Formats : Bind(p, t, f)
                 \/ \E p \in Portals : ClosePortal(p)
                 \/ Sync
          PROVE  UNCHANGED <<msg, pc, left, out, cur, slot>>
      BY <2>4, Zenon DEF Bind, ClosePortal, Sync
    <2>5. Close => pc' = "idle"
      BY DEF Close, Finish
    <2> QED
      BY <1>1, <1>2, <1>3, <1>4, <2>1, <2>2, <2>3, <2>4, <2>5, Zenon DEF ClientStep
  <1>5. CASE Intercepted
    BY <1>5, PlainTyped, LoneAnswers DEF Intercepted, Processing
  <1>6. CASE CatalogQuery
    BY <1>2, <1>6, PlainTyped, LoneAnswers, SMTT(30) DEF CatalogQuery, Processing, Fail, Finish
  <1>7. CASE Submit
    BY <1>7 DEF Submit, Processing, LoneInv, LoneQuery
  <1>8. CASE SubmitFails \/ ColumnsFail
    BY <1>8, LoneFails, SMTT(30) DEF SubmitFails, ColumnsFail, Processing
  <1>9. CASE RecordQueryId
    BY <1>9 DEF RecordQueryId, LoneInv, LoneQuery
  <1>10. CASE ColumnsArrive
    <2>1. PICK more \in BOOLEAN : StatementAnswers(Rows(cur.q, more))
      BY <1>10, Zenon DEF ColumnsArrive
    <2>2. Rows(cur.q, more) \in Responses
      BY DEF Rows, Responses, IInv, TypeOK
    <2>3. pc = "columns" /\ left # << >> /\ slot' = slot
      BY <1>10, SMTT(30) DEF ColumnsArrive, IInv, Budget
    <2>4. CASE LoneQuery
      BY <2>1, <2>2, <2>3, <2>4, LoneAnswers, SMTT(30) DEF LoneInv, Rows
    <2>5. CASE ~LoneQuery
      BY <2>1, <2>3, <2>5 DEF StatementAnswers, LoneInv, LoneQuery
    <2> QED
      BY <2>4, <2>5
  <1>11. CASE NoColumns
    BY <1>11, PlainTyped, LoneAnswers, SMTT(30) DEF NoColumns, IInv, Budget
  <1>12. CASE Replies
    BY <1>12 DEF Replies, LoneInv, LoneQuery
  <1>13. CASE ReplyWithoutRows
    <2>1. out \in Seq(Responses) /\ out # << >>
      BY <1>13 DEF ReplyWithoutRows, IInv, TypeOK
    <2>2. Len(out) <= 1 => out' = << >>
      BY <1>13, <2>1 DEF ReplyWithoutRows
    <2> QED
      BY <1>13, <2>2 DEF ReplyWithoutRows, LoneInv, LoneQuery
  <1>14. CASE StartStream
    <2>1. out \in Seq(Responses) /\ out # << >>
      BY <1>14 DEF StartStream, IInv, TypeOK
    <2>2. /\ Len(out) <= 1 => out' = << >>
          /\ 1 \in 1 .. Len(out) /\ cur' = out[1] /\ out[1].kind = "rows"
      BY <1>14, <2>1 DEF StartStream
    <2> QED
      BY <1>14, <2>2 DEF StartStream, LoneInv, LoneQuery
  <1>15. CASE StreamLastPage
    BY <1>15 DEF StreamLastPage, LoneInv, LoneQuery, IInv, TypeOK, Responses
  <1>16. CASE StreamEnds
    BY <1>16, SMTT(30) DEF StreamEnds, LoneInv, LoneQuery
  <1>17. CASE DescribedStatement \/ DescribedPortal \/ StreamFails \/ Answered
    BY <1>2, <1>17, SMTT(30)
    DEF DescribedStatement, DescribedPortal, StreamFails, Answered, Fail, Finish
  <1>18. CASE \/ \E k \in CancelRequests : CancelRead(k) \/ CancelDeliver(k)
              \/ \E q \in Queries : TrinoExpires(q)
              \/ UNCHANGED vars
    BY <1>1, <1>18 DEF CancelRead, CancelDeliver, TrinoExpires, vars
  <1> QED
    BY <1>4, <1>5, <1>6, <1>7, <1>8, <1>9, <1>10, <1>11, <1>12, <1>13, <1>14, <1>15,
       <1>16, <1>17, <1>18, SMTT(30) DEF Next, HandlerStep, StreamStep

\* While the rows of a simple query of one statement are streamed, the slot
\* holds its id, so a cancel request reaches it.
THEOREM SimpleQueryCancellableHolds == Spec => []SimpleQueryCancellable
  <1>1. Init => LoneInv
    BY DEF Init, LoneInv, LoneQuery
  <1>2. Spec => []IInv
    BY InitIInv, StepIInv, PTL DEF Spec
  <1>3. LoneInv => SimpleQueryCancellable
    BY DEF LoneInv, LoneQuery, SimpleQueryCancellable
  <1> QED
    BY <1>1, <1>2, <1>3, StepLoneInv, PTL DEF Spec

-----------------------------------------------------------------------------
(* Rows are streamed once.                                                  *)

\* Queries whose rows nobody has polled.
Unpolled == {q \in 1 .. submitted : ~runs[q].polled}

\* The response of the statement being executed.
InMaking == IF pc \in {"posted", "columns"} THEN cur ELSE Plain("none")

\* Two responses do not share a query.
Differ(r1, r2) == r1.kind = "rows" /\ r2.kind = "rows" => r1.q # r2.q

\* The responses in a cache c, an output o and in making, m, are of queries in
\* U, each of another one.
Apart(c, o, m, U) ==
  /\ \A p \in Portals : c[p].response.kind = "rows" => c[p].response.q \in U
  /\ \A i \in 1 .. Len(o) : o[i].kind = "rows" => o[i].q \in U
  /\ m.kind = "rows" => m.q \in U
  /\ \A p1, p2 \in Portals : p1 # p2 => Differ(c[p1].response, c[p2].response)
  /\ \A p \in Portals : \A i \in 1 .. Len(o) : Differ(c[p].response, o[i])
  /\ \A i, j \in 1 .. Len(o) : i # j => Differ(o[i], o[j])
  /\ \A p \in Portals : Differ(c[p].response, m)
  /\ \A i \in 1 .. Len(o) : Differ(o[i], m)

\* Every response that waits somewhere is the only one of its query, and
\* unread.
OnceInv == Apart(cache, out, InMaking, Unpolled)

\* Other unread queries do no harm.
LEMMA ApartAmongMore ==
  ASSUME NEW c, NEW o, NEW m, NEW U, NEW V, Apart(c, o, m, U), U \subseteq V
  PROVE  Apart(c, o, m, V)
  BY Zenon DEF Apart

\* A new query is apart from all others.
LEMMA ApartNew ==
  ASSUME NEW c, NEW o, NEW m, NEW U, NEW n, Apart(c, o, m, U), n.q \notin U
  PROVE  Apart(c, o, n, U \cup {n.q})
  BY Zenon DEF Apart, Differ

\* The output may be dropped, and the response in making.
LEMMA ApartDropped ==
  ASSUME NEW c, NEW o, NEW m, NEW U, NEW n, Apart(c, o, m, U), n.kind # "rows"
  PROVE  Apart(c, o, n, U) /\ Apart(c, << >>, n, U)
  <1>1. Apart(c, o, n, U)
    BY Zenon DEF Apart, Differ
  <1>2. 1 .. Len(<< >>) = {}
    OBVIOUS
  <1> QED
    BY <1>1, <1>2, Zenon DEF Apart

\* The response in making, or one without rows, joins the output.
LEMMA ApartAppend ==
  ASSUME NEW c, NEW o \in Seq(Responses), NEW m, NEW U, Apart(c, o, m, U),
         NEW x \in Responses, x.kind = "rows" => m.kind = "rows" /\ x.q = m.q,
         NEW n, n.kind # "rows"
  PROVE  Apart(c, Append(o, x), n, U)
  <1> DEFINE a == Append(o, x)
  <1>1. /\ \A i \in 1 .. Len(a) : (i \in 1 .. Len(o) /\ a[i] = o[i]) \/ (i = Len(o) + 1 /\ a[i] = x)
    OBVIOUS
  <1>2. \A p \in Portals : Differ(c[p].response, x)
    BY Zenon DEF Apart, Differ
  <1>3. \A i \in 1 .. Len(o) : Differ(o[i], x) /\ Differ(x, o[i])
    BY Zenon DEF Apart, Differ
  <1>4. x.kind = "rows" => x.q \in U
    BY Zenon DEF Apart
  <1> HIDE DEF a
  <1>5. \A i, j \in 1 .. Len(a) : i # j => Differ(a[i], a[j])
    BY <1>1, <1>3, Zenon DEF Apart
  <1>6. \A p \in Portals : \A i \in 1 .. Len(a) : Differ(c[p].response, a[i])
    BY <1>1, <1>2, Zenon DEF Apart
  <1>7. \A i \in 1 .. Len(a) : a[i].kind = "rows" => a[i].q \in U
    BY <1>1, <1>4, Zenon DEF Apart
  <1>8. (\A p \in Portals : Differ(c[p].response, n)) /\ \A i \in 1 .. Len(a) : Differ(a[i], n)
    BY Zenon DEF Differ
  <1> QED
    BY <1>5, <1>6, <1>7, <1>8, Zenon DEF Apart, a

\* The first response leaves the output, and takes its query along.
LEMMA ApartTail ==
  ASSUME NEW c, NEW o \in Seq(Responses), o # << >>, NEW m, m.kind # "rows", NEW U,
         Apart(c, o, m, U)
  PROVE  /\ Apart(c, Tail(o), m, U)
         /\ Head(o).kind = "rows" => Apart(c, Tail(o), m, U \ {Head(o).q})
  <1> DEFINE a == Tail(o)
  <1>1. /\ \A i \in 1 .. Len(a) : i + 1 \in 1 .. Len(o) /\ a[i] = o[i + 1] /\ i + 1 # 1
        /\ \A i, j \in 1 .. Len(a) : i # j => i + 1 # j + 1
        /\ 1 \in 1 .. Len(o) /\ Head(o) = o[1]
    OBVIOUS
  <1> HIDE DEF a
  <1>2. Apart(c, a, m, U)
    BY <1>1, Zenon DEF Apart
  <1>3. /\ \A i \in 1 .. Len(a) : Differ(a[i], Head(o))
        /\ \A p \in Portals : Differ(c[p].response, Head(o))
    BY <1>1, Zenon DEF Apart
  <1>4. Head(o).kind = "rows" => Apart(c, a, m, U \ {Head(o).q})
    BY <1>2, <1>3, Zenon DEF Apart, Differ
  <1> QED
    BY <1>2, <1>4 DEF a

\* All but the first response are dropped.
LEMMA ApartFirst ==
  ASSUME NEW c, NEW o \in Seq(Responses), o # << >>, NEW m, NEW U, Apart(c, o, m, U)
  PROVE  Apart(c, <<Head(o)>>, m, U)
  <1> DEFINE a == <<Head(o)>>
  <1>1. (\A i \in 1 .. Len(a) : i = 1 /\ a[i] = o[1]) /\ 1 \in 1 .. Len(o)
    OBVIOUS
  <1> HIDE DEF a
  <1>2. Apart(c, a, m, U)
    BY <1>1, Zenon DEF Apart
  <1> QED
    BY <1>2 DEF a

\* An entry leaves the cache for an empty output, or is dropped.
LEMMA ApartTaken ==
  ASSUME NEW c \in [Portals -> [text : TextOrNone, response : Responses]], NEW o, NEW m, NEW U,
         Apart(c, o, m, U), NEW p \in Portals, NEW n, n.kind # "rows"
  PROVE  LET d == [c EXCEPT ![p] = NoEntry]
         IN  Apart(d, <<c[p].response>>, n, U) /\ Apart(d, << >>, n, U)
  <1> DEFINE d == [c EXCEPT ![p] = NoEntry]
             a == <<c[p].response>>
  <1>1. /\ \A x \in Portals : x # p => d[x] = c[x]
        /\ d[p].response = Plain("none")
    BY Zenon DEF NoEntry
  <1>2. d[p].response.kind # "rows"
    BY <1>1, PlainTyped
  <1>3. \A i \in 1 .. Len(a) : i = 1 /\ a[i] = c[p].response
    OBVIOUS
  <1> HIDE DEF d, a
  <1>4. \A x \in Portals : d[x].response.kind = "rows" => x # p /\ d[x] = c[x]
    BY <1>1, <1>2, Zenon
  <1>5. \A x, y \in Portals : x # y => Differ(d[x].response, d[y].response)
    <2> SUFFICES ASSUME NEW x \in Portals, NEW y \in Portals, x # y,
                        d[x].response.kind = "rows", d[y].response.kind = "rows"
                 PROVE  d[x].response.q # d[y].response.q
      BY Zenon DEF Differ
    <2>1. d[x] = c[x] /\ d[y] = c[y]
      BY <1>4, Zenon
    <2>2. Differ(c[x].response, c[y].response)
      BY Zenon DEF Apart
    <2> QED
      BY <2>1, <2>2, Zenon DEF Differ
  <1>6. \A x \in Portals : \A i \in 1 .. Len(a) : Differ(d[x].response, a[i])
    <2> SUFFICES ASSUME NEW x \in Portals, d[x].response.kind = "rows", NEW i \in 1 .. Len(a)
                 PROVE  Differ(d[x].response, a[i])
      BY Zenon DEF Differ
    <2>1. x # p /\ d[x] = c[x] /\ a[i] = c[p].response
      BY <1>3, <1>4, Zenon
    <2>2. Differ(c[x].response, c[p].response)
      BY <2>1, Zenon DEF Apart
    <2> QED
      BY <2>1, <2>2, Zenon
  <1>7. \A i, j \in 1 .. Len(a) : i # j => Differ(a[i], a[j])
    BY <1>3, Zenon
  <1>8. Apart(d, a, n, U)
    BY <1>3, <1>4, <1>5, <1>6, <1>7, ZenonT(30) DEF Apart, Differ
  <1>9. Apart(d, << >>, n, U)
    BY <1>8, ApartDropped
  <1> QED
    BY <1>8, <1>9 DEF d, a

\* The first response of the output goes into the cache, the rest is dropped.
LEMMA ApartCached ==
  ASSUME NEW c \in [Portals -> [text : TextOrNone, response : Responses]],
         NEW o \in Seq(Responses), o # << >>, NEW m, NEW U, Apart(c, o, m, U),
         NEW p \in Portals, NEW e, e.response = Head(o), NEW n, n.kind # "rows"
  PROVE  Apart([c EXCEPT ![p] = e], << >>, n, U)
  <1> DEFINE d == [c EXCEPT ![p] = e]
  <1>1. (\A x \in Portals : x # p => d[x] = c[x]) /\ d[p] = e
    BY Zenon
  <1>2. 1 \in 1 .. Len(o) /\ Head(o) = o[1]
    OBVIOUS
  <1> HIDE DEF d
  <1>3. d[p].response = o[1]
    BY <1>1, <1>2, Zenon
  <1>4. \A x \in Portals : d[x].response.kind = "rows" => d[x].response.q \in U
    BY <1>1, <1>2, <1>3, Zenon DEF Apart
  <1>5. \A x, y \in Portals : x # y => Differ(d[x].response, d[y].response)
    <2> SUFFICES ASSUME NEW x \in Portals, NEW y \in Portals, x # y
                 PROVE  Differ(d[x].response, d[y].response)
      OBVIOUS
    <2>1. CASE x # p /\ y # p
      BY <1>1, <2>1, Zenon DEF Apart
    <2>2. CASE x = p
      <3>1. Differ(c[y].response, o[1]) /\ d[y] = c[y] /\ d[x].response = o[1]
        BY <1>1, <1>2, <1>3, <2>2, Zenon DEF Apart
      <3> QED
        BY <3>1, Zenon DEF Differ
    <2>3. CASE y = p
      <3>1. Differ(c[x].response, o[1]) /\ d[x] = c[x] /\ d[y].response = o[1]
        BY <1>1, <1>2, <1>3, <2>3, Zenon DEF Apart
      <3> QED
        BY <3>1, Zenon DEF Differ
    <2> QED
      BY <2>1, <2>2, <2>3, Zenon
  <1>6. 1 .. Len(<< >>) = {}
    OBVIOUS
  <1>7. Apart(d, << >>, n, U)
    BY <1>4, <1>5, <1>6, Zenon DEF Apart, Differ
  <1> QED
    BY <1>7 DEF d

\* What a query is marked with as read changes when its stream is first polled.
LEMMA PolledWriters ==
  ASSUME IInv, [Next]_vars
  PROVE  \/ StartStream
         \/ Submit
         \/ submitted' = submitted /\ \A q \in Queries : runs'[q].polled = runs[q].polled
  <1>1. \/ StartStream
        \/ Submit
        \/ /\ submitted' = submitted
           /\ \/ runs' = runs
              \/ \E q : \E status \in {"running", "serving", "finished", "cancelled"} :
                    Becomes(q, status)
    BY ZenonT(60)
       DEF Next, vars, trinoVars, ClientStep, HandlerStep, StreamStep, SimpleQuery, Bind,
           ClosePortal, Sync, Execute, DescribeStatement, DescribePortal, Intercepted,
           CatalogQuery, SubmitFails, RecordQueryId, ColumnsArrive, NoColumns, ColumnsFail,
           Replies, DescribedStatement, DescribedPortal, ReplyWithoutRows, StreamLastPage,
           StreamEnds, StreamFails, Answered, Close, CancelRead, CancelDeliver, TrinoExpires
  <1>2. {"running", "serving", "finished", "cancelled"} \subseteq Statuses
    BY DEF Statuses
  <1> QED
    BY <1>1, <1>2, StatusKeepsRuns, Zenon

\* A step that polls no new stream keeps the unread queries, and may add one.
LEMMA UnpolledGrows ==
  ASSUME IInv, [Next]_vars, ~StartStream
  PROVE  /\ Unpolled \subseteq Unpolled'
         /\ Submit => submitted' \in Unpolled' /\ submitted' \notin Unpolled
  <1>1. submitted \in Nat /\ MaxQueries \in Nat /\ 1 .. submitted \subseteq Queries
    BY BoundAssumption DEF IInv, TypeOK, QueryOrNone, Queries
  <1>2. CASE Submit
    <2>0. /\ left \in Seq(Kinds) /\ left # << >> /\ submitted + Len(left) <= MaxQueries
          /\ submitted' = submitted + 1
      BY <1>2, Zenon DEF Submit, Processing, IInv, TypeOK, Budget
    <2>1. submitted + 1 \in Queries /\ submitted' = submitted + 1
      BY <1>1, <2>0, SMTT(30) DEF Queries
    <2>2. /\ \A q \in 1 .. submitted : runs'[q] = runs[q]
          /\ runs'[submitted + 1].polled = FALSE
      <3>1. DOMAIN runs = Queries
        BY Zenon DEF IInv, TypeOK
      <3>2. runs' = [runs EXCEPT ![submitted + 1] =
                       [status |-> "posted", text |-> msg.text, fmt |-> msg.fmt, polled |-> FALSE]]
        BY <1>2, Zenon DEF Submit
      <3> QED
        BY <1>1, <2>1, <3>1, <3>2, SMTT(30)
    <2>3. 1 .. submitted \subseteq 1 .. submitted' /\ submitted' \in 1 .. submitted'
      BY <1>1, <2>1
    <2>4. submitted' \notin 1 .. submitted
      BY <1>1, <2>1
    <2> QED
      BY <2>1, <2>2, <2>3, <2>4, ZenonT(30) DEF Unpolled
  <1>3. CASE ~Submit
    BY <1>1, <1>3, PolledWriters, Zenon DEF Unpolled
  <1> QED
    BY <1>2, <1>3

\* Every step keeps the waiting responses apart and unread.
LEMMA StepOnceInv ==
  ASSUME IInv, OnceInv, [Next]_vars
  PROVE  OnceInv'
  <1> DEFINE Goal == Apart(cache', out', InMaking', Unpolled)
  <1> SUFFICES Apart(cache', out', InMaking', Unpolled')
    BY Zenon DEF OnceInv, Apart
  <1> USE DEF trinoVars, jobVars
  <1>0. /\ Apart(cache, out, InMaking, Unpolled)
        /\ out \in Seq(Responses) /\ cur \in Responses
        /\ cache \in [Portals -> [text : TextOrNone, response : Responses]]
        /\ Plain("none").kind # "rows"
    BY PlainTyped DEF OnceInv, IInv, TypeOK
  <1>1. pc' \notin {"posted", "columns"} => InMaking'.kind # "rows"
    BY <1>0 DEF InMaking
  <1>2. ASSUME cache' = cache, out' = out,
               UNCHANGED <<pc, cur>> \/ pc' \notin {"posted", "columns"}
        PROVE  Goal
    BY <1>0, <1>1, <1>2, ApartDropped, Zenon DEF InMaking
  <1>3. ASSUME cache' = cache, out' = << >>, pc' \notin {"posted", "columns"}
        PROVE  Goal
    BY <1>0, <1>1, <1>3, ApartDropped, Zenon
  <1>4. ASSUME cache' = cache, NEW x \in Responses, out' = Append(out, x),
               x.kind = "rows" => InMaking.kind = "rows" /\ x.q = InMaking.q,
               pc' \notin {"posted", "columns"}
        PROVE  Goal
    BY <1>0, <1>1, <1>4, ApartAppend, Zenon
  <1>5. ASSUME cache' = cache, NEW kind \in {"ok", "error", "local"}, StatementAnswers(Plain(kind))
        PROVE  Goal
    <2>1. Plain(kind) \in Responses /\ Plain(kind).kind # "rows"
      BY <1>5, PlainTyped
    <2>2. out' = Append(out, Plain(kind)) /\ pc' = "pieces"
      BY <1>5, Zenon DEF StatementAnswers
    <2> QED
      BY <1>4, <1>5, <2>1, <2>2, Zenon
  <1>6. ASSUME cache' = cache, Finish PROVE Goal
    BY <1>3, <1>6, Zenon DEF Finish
  <1>7. ASSUME cache' = cache, StatementFails PROVE Goal
    <2>1. CASE Fail
      BY <1>6, <1>7, <2>1, Zenon DEF Fail
    <2>2. CASE out' = Append(out, Plain("error")) /\ pc' = "pieces"
      <3>1. Plain("error") \in Responses /\ Plain("error").kind # "rows"
        BY PlainTyped
      <3> QED
        BY <1>4, <1>7, <2>2, <3>1, Zenon
    <2> QED
      BY <1>7, <2>1, <2>2, Zenon DEF StatementFails
  <1> HIDE DEF Goal
  <1>8. CASE StartStream
    <2>1. /\ pc = "reply" /\ out # << >> /\ Head(out).kind = "rows"
          /\ cache' = cache /\ out' = Tail(out) /\ pc' = "stream"
      BY <1>8, Zenon DEF StartStream
    <2>2. InMaking = Plain("none") /\ InMaking' = Plain("none")
      BY <2>1 DEF InMaking
    <2>3. Apart(cache', out', InMaking', Unpolled \ {Head(out).q})
      BY <1>0, <2>1, <2>2, ApartTail, Zenon
    <2>4. Unpolled \ {Head(out).q} \subseteq Unpolled'
      <3>1. 1 .. submitted \subseteq Queries
        BY BoundAssumption DEF IInv, TypeOK, QueryOrNone, Queries
      <3>2. /\ submitted' = submitted
            /\ \A x \in Queries : x # Head(out).q => runs'[x].polled = runs[x].polled
        BY <1>8, PollKeepsRuns, ZenonT(30) DEF StartStream
      <3> QED
        BY <3>1, <3>2, Zenon DEF Unpolled
    <2> QED
      BY <2>3, <2>4, ApartAmongMore, Zenon
  <1>9. CASE Submit
    <2>1. /\ pc = "pieces" /\ pc' = "posted" /\ cache' = cache /\ out' = out
          /\ cur' = Rows(submitted', TRUE) /\ submitted' = submitted + 1
      BY <1>9 DEF Submit, Processing
    <2>2. InMaking'.q = submitted'
      BY <2>1 DEF InMaking, Rows
    <2>3. submitted' \notin Unpolled /\ Unpolled \cup {submitted'} \subseteq Unpolled'
      <3>1. ~StartStream
        BY <2>1, Zenon DEF StartStream
      <3> QED
        BY <1>9, <3>1, UnpolledGrows, Zenon
    <2>4. Apart(cache, out, InMaking', Unpolled \cup {submitted'})
      BY <1>0, <2>2, <2>3, ApartNew, Zenon
    <2> QED
      BY <2>1, <2>3, <2>4, ApartAmongMore, Zenon
  <1>10. ASSUME NEW p \in Portals, Execute(p) PROVE Goal
    <2>1. /\ cache' = [cache EXCEPT ![p] = NoEntry]
          /\ \/ out' = <<cache[p].response>> /\ pc' = "reply"
             \/ out' = << >> /\ pc' = "pieces"
      BY <1>10, Zenon DEF Execute, TakeCached, Begin
    <2> QED
      BY <1>0, <1>1, <2>1, ApartTaken, ZenonT(30) DEF Goal
  <1>11. ASSUME DescribedPortal PROVE Goal
    <2>1. /\ pc = "pieces" /\ left = << >> /\ out # << >> /\ msg.portal \in Portals
      BY <1>11, Zenon DEF DescribedPortal, IInv, Budget, InProgress
    <2>2. pc' = "idle" /\ out' = << >>
      BY <1>11, Zenon DEF DescribedPortal, Finish
    <2>3. CASE cache' = cache
      BY <1>3, <2>2, <2>3, Zenon
    <2>4. CASE cache' = [cache EXCEPT ![msg.portal] = [text |-> msg.text, response |-> Head(out)]]
      <3>1. [text |-> msg.text, response |-> Head(out)].response = Head(out)
        OBVIOUS
      <3> QED
        BY <1>0, <1>1, <2>1, <2>2, <2>4, <3>1, ApartCached, Zenon DEF Goal
    <2> QED
      BY <1>11, <2>3, <2>4, Zenon DEF DescribedPortal, InsertCached
  <1>12. ASSUME Close PROVE Goal
    <2>1. out' = << >> /\ pc' = "idle" /\ \A p \in Portals : cache'[p].response = Plain("none")
      BY <1>12, Zenon DEF Close, Finish, NoEntry
    <2>2. 1 .. Len(out') = {}
      BY <2>1
    <2>3. InMaking'.kind # "rows"
      BY <1>1, <2>1
    <2> QED
      BY <1>0, <2>1, <2>2, <2>3, Zenon DEF Goal, Apart, Differ
  <1>13. ASSUME ColumnsArrive PROVE Goal
    <2>1. PICK more \in BOOLEAN :
            StatementAnswers(Rows(cur.q, more)) /\ pc = "columns" /\ cache' = cache
      BY <1>13, Zenon DEF ColumnsArrive
    <2>2. InMaking = cur /\ cur.kind = "rows"
      BY <2>1 DEF InMaking, IInv, TypeOK
    <2>3. Rows(cur.q, more) \in Responses /\ Rows(cur.q, more).q = cur.q
      BY <1>0 DEF Rows, Responses
    <2> QED
      BY <1>4, <2>1, <2>2, <2>3, Zenon DEF StatementAnswers
  <1>14. ASSUME Replies \/ ReplyWithoutRows PROVE Goal
    <2>1. /\ pc \in {"pieces", "reply"} /\ out # << >> /\ cache' = cache
          /\ pc' = "reply"
          /\ out' = out \/ out' = <<Head(out)>> \/ out' = Tail(out)
      BY <1>14, Zenon DEF Replies, ReplyWithoutRows, IInv, Budget
    <2>2. InMaking = Plain("none") /\ InMaking' = Plain("none")
      BY <2>1 DEF InMaking
    <2>3. Apart(cache, out, Plain("none"), Unpolled)
      BY <1>0, <2>2, Zenon
    <2>4. /\ Apart(cache, <<Head(out)>>, Plain("none"), Unpolled)
          /\ Apart(cache, Tail(out), Plain("none"), Unpolled)
      BY <1>0, <2>1, <2>3, ApartFirst, ApartTail, Zenon
    <2> QED
      BY <2>1, <2>2, <2>3, <2>4, Zenon DEF Goal
  <1>15. ASSUME \/ \E t \in Texts : SimpleQuery(t) \/ DescribeStatement(t)
                \/ \E p \in Portals : DescribePortal(p)
         PROVE  Goal
    BY <1>3, <1>15, Zenon DEF SimpleQuery, DescribeStatement, DescribePortal, Begin
  <1>16. ASSUME \/ \E p \in Portals, t \in Texts, f \in Formats : Bind(p, t, f)
                \/ \E p \in Portals : ClosePortal(p)
                \/ Sync
                \/ \E k \in CancelRequests : CancelRead(k) \/ CancelDeliver(k)
                \/ \E q \in Queries : TrinoExpires(q)
                \/ UNCHANGED vars
         PROVE  Goal
    BY <1>2, <1>16, Zenon
       DEF Bind, ClosePortal, Sync, CancelRead, CancelDeliver, TrinoExpires, vars
  <1>17. ASSUME Intercepted \/ CatalogQuery \/ NoColumns PROVE Goal
    BY <1>5, <1>6, <1>17, Zenon DEF Intercepted, CatalogQuery, NoColumns, Fail
  <1>18. ASSUME SubmitFails \/ ColumnsFail PROVE Goal
    BY <1>7, <1>18, Zenon DEF SubmitFails, ColumnsFail
  <1>19. ASSUME RecordQueryId PROVE Goal
    <2>1. cache' = cache /\ out' = out /\ cur' = cur /\ pc = "posted" /\ pc' = "columns"
      BY <1>19, Zenon DEF RecordQueryId
    <2>2. InMaking' = InMaking
      BY <2>1 DEF InMaking
    <2> QED
      BY <1>0, <2>1, <2>2, Zenon DEF Goal
  <1>20. ASSUME StreamLastPage \/ StreamEnds PROVE Goal
    <2>1. cache' = cache /\ out' = out /\ pc' \in {"stream", "reply"}
      BY <1>20, Zenon DEF StreamLastPage, StreamEnds
    <2>2. pc' \notin {"posted", "columns"}
      BY <2>1
    <2> QED
      BY <1>2, <2>1, <2>2, Zenon
  <1>21. ASSUME DescribedStatement \/ StreamFails \/ Answered PROVE Goal
    BY <1>6, <1>21, Zenon DEF DescribedStatement, StreamFails, Answered, Fail
  <1>22. StartStream \/ Submit \/ Goal
    BY <1>10, <1>11, <1>12, <1>13, <1>14, <1>15, <1>16, <1>17, <1>18, <1>19, <1>20, <1>21,
       ZenonT(60) DEF Next, ClientStep, HandlerStep, StreamStep
  <1>23. ASSUME Goal, ~StartStream PROVE Apart(cache', out', InMaking', Unpolled')
    BY <1>23, UnpolledGrows, ApartAmongMore, Zenon DEF Goal
  <1> QED
    BY <1>8, <1>9, <1>22, <1>23, ZenonT(30)

\* Only the first poll makes a response a stream.
LEMMA StreamStarts ==
  ASSUME [Next]_vars, pc # "stream", pc' = "stream"
  PROVE  StartStream
  BY ZenonT(60)
     DEF Next, vars, jobVars, ClientStep, HandlerStep, StreamStep, SimpleQuery, Bind, ClosePortal,
         Sync, Execute, DescribeStatement, DescribePortal, Intercepted, CatalogQuery, Submit,
         SubmitFails, RecordQueryId, ColumnsArrive, NoColumns, ColumnsFail, Replies,
         DescribedStatement, DescribedPortal, ReplyWithoutRows, StreamLastPage, StreamEnds,
         StreamFails, Answered, Close, CancelRead, CancelDeliver, TrinoExpires, Begin, Finish,
         Fail, StatementFails, StatementAnswers

\* A stream goes on with its query or empties the slot.
LEMMA StreamGoesOn ==
  ASSUME [Next]_vars, pc = "stream"
  PROVE  (pc' = "stream" /\ cur'.q = cur.q) \/ slot' = 0
  <1>1. \/ UNCHANGED <<pc, cur>>
        \/ StreamLastPage
        \/ slot' = 0
    BY ZenonT(60)
       DEF Next, vars, jobVars, ClientStep, HandlerStep, StreamStep, SimpleQuery, Bind,
           ClosePortal, Sync, Execute, DescribeStatement, DescribePortal, Intercepted,
           CatalogQuery, Submit, SubmitFails, RecordQueryId, ColumnsArrive, NoColumns,
           ColumnsFail, Replies, DescribedStatement, DescribedPortal, ReplyWithoutRows,
           StartStream, StreamEnds, StreamFails, Answered, Close, CancelRead, CancelDeliver,
           TrinoExpires, Receiving, Processing, SlotAfterGuard
  <1>2. ASSUME StreamLastPage PROVE pc' = "stream" /\ cur'.q = cur.q
    BY <1>2 DEF StreamLastPage
  <1> QED
    BY <1>1, <1>2

\* No step lets the slot name a query whose stream is over.
LEMMA StepSlotOutlives ==
  ASSUME IInv, OnceInv, SlotOutlivesNoStream, [Next]_vars
  PROVE  SlotOutlivesNoStream'
  <1> SUFFICES ASSUME slot' # 0, runs'[slot'].polled PROVE pc' = "stream" /\ cur'.q = slot'
    BY Zenon DEF SlotOutlivesNoStream
  <1>1. CASE slot' # slot
    <2>1. RecordQueryId
      BY <1>1, SlotWriters, Zenon DEF ColumnsFail, StreamEnds, StreamFails, Close, SlotAfterGuard
    <2>2. pc = "posted" /\ slot' = cur.q /\ Becomes(cur.q, "running") /\ submitted' = submitted
      BY <2>1, Zenon DEF RecordQueryId
    <2>3. InMaking = cur /\ cur.kind = "rows"
      BY <2>2 DEF InMaking, IInv, TypeOK
    <2>4. cur.q \in Unpolled
      BY <2>3, Zenon DEF OnceInv, Apart
    <2>5. cur.q \in Queries /\ ~runs[cur.q].polled
      BY <2>4, BoundAssumption DEF Unpolled, IInv, TypeOK, QueryOrNone, Queries
    <2>6. runs'[cur.q].polled = runs[cur.q].polled
      BY <2>2, <2>5, StatusKeepsRuns, Zenon DEF Statuses
    <2> QED
      BY <2>2, <2>5, <2>6, Zenon
  <1>2. CASE slot' = slot
    <2>0. slot \in Queries
      BY <1>2, BoundAssumption DEF IInv, TypeOK, QueryOrNone, Queries
    <2>1. CASE runs[slot].polled
      BY <1>2, <2>1, StreamGoesOn, Zenon DEF SlotOutlivesNoStream
    <2>2. CASE ~runs[slot].polled
      <3>1. ~Submit
        <4>1. ASSUME Submit PROVE FALSE
          <5>1. runs'[slot].polled = runs[slot].polled \/ runs'[slot].polled = FALSE
            BY <2>0, <4>1, Zenon DEF Submit, IInv, TypeOK
          <5> QED
            BY <1>2, <2>2, <5>1, Zenon
        <4> QED
          BY <4>1
      <3>2. StartStream
        BY <1>2, <2>0, <2>2, <3>1, PolledWriters, Zenon
      <3>3. pc' = "stream" /\ cur' = Head(out)
        BY <3>2, Zenon DEF StartStream
      <3>4. slot # Head(out).q => runs'[slot].polled = runs[slot].polled
        BY <2>0, <3>2, PollKeepsRuns, ZenonT(30) DEF StartStream
      <3> QED
        BY <1>2, <2>2, <3>3, <3>4, Zenon
    <2> QED
      BY <2>1, <2>2
  <1> QED
    BY <1>1, <1>2

\* A new connection has no responses.
LEMMA InitOnceInv == Init => OnceInv /\ SlotOutlivesNoStream
  <1> SUFFICES ASSUME Init PROVE OnceInv /\ SlotOutlivesNoStream
    OBVIOUS
  <1>1. /\ \A p \in Portals : cache[p].response.kind # "rows"
        /\ 1 .. Len(out) = {} /\ InMaking.kind # "rows" /\ slot = 0
    BY PlainTyped DEF Init, NoEntry, InMaking
  <1> QED
    BY <1>1, Zenon DEF OnceInv, Apart, Differ, SlotOutlivesNoStream

\* The rows of a query are streamed to one message, once, whatever is
\* described, cached, bound or executed again.
THEOREM RowsStreamedOnceHolds == Spec => RowsStreamedOnce
  <1>1. Spec => []IInv
    BY InitIInv, StepIInv, PTL DEF Spec
  <1>2. Spec => []OnceInv
    BY <1>1, InitOnceInv, StepOnceInv, PTL DEF Spec
  <1>3. ASSUME IInv, OnceInv, [Next]_vars, pc # "stream", pc' = "stream"
        PROVE  ~runs[cur'.q].polled
    <2>1. /\ out # << >> /\ Head(out).kind = "rows" /\ cur' = Head(out)
      BY <1>3, StreamStarts, Zenon DEF StartStream
    <2>2. 1 \in 1 .. Len(out) /\ Head(out) = out[1]
      BY <1>3, <2>1 DEF IInv, TypeOK
    <2>3. cur'.q \in Unpolled
      BY <1>3, <2>1, <2>2, Zenon DEF OnceInv, Apart
    <2> QED
      BY <2>3, Zenon DEF Unpolled
  <1>4. IInv /\ OnceInv /\ [Next]_vars =>
          [pc # "stream" /\ pc' = "stream" => ~runs[cur'.q].polled]_vars
    BY <1>3
  <1> QED
    BY <1>1, <1>2, <1>4, PTL DEF Spec, RowsStreamedOnce

\* The slot names a query whose rows were polled only while they are.
THEOREM SlotOutlivesNoStreamHolds == Spec => []SlotOutlivesNoStream
  <1>1. Spec => []IInv
    BY InitIInv, StepIInv, PTL DEF Spec
  <1>2. Spec => []OnceInv
    BY <1>1, InitOnceInv, StepOnceInv, PTL DEF Spec
  <1> QED
    BY <1>1, <1>2, InitOnceInv, StepSlotOutlives, PTL DEF Spec

-----------------------------------------------------------------------------
(* Describe and Execute as a pair.                                          *)

\* A Describe in progress is for what its portal is bound to, and so is what
\* it left in the cache.
PairInv ==
  /\ PairRunsOnce
  /\ msg.op = "describePortal" => portals[msg.portal].text = msg.text

\* insert_cached refuses no portal name.
RoomForEach ==
  \A c : \A p \in Portals \ Cached(c) : ~(Cardinality(Cached(c)) >= MaxCachedPortals)

\* Every step keeps the response of a described portal.
LEMMA StepPairInv ==
  ASSUME RoomForEach, IInv, PairInv, [Next]_vars
  PROVE  PairInv'
  <1> USE DEF trinoVars, jobVars
  <1>0. /\ portals \in [Portals -> [text : TextOrNone, fmt : FormatOrNone]]
        /\ cache \in [Portals -> [text : TextOrNone, response : Responses]]
        /\ described \in SUBSET Portals
    BY DEF IInv, TypeOK
  <1>1. ASSUME UNCHANGED <<portals, cache, described>>,
               msg' = msg \/ msg'.op # "describePortal"
        PROVE  PairInv'
    BY <1>1, SMTT(30) DEF PairInv, PairRunsOnce
  <1>2. ASSUME NEW p \in Portals, DescribePortal(p) PROVE PairInv'
    BY <1>2, Zenon DEF DescribePortal, Begin, PairInv, PairRunsOnce
  <1>3. ASSUME NEW p \in Portals, NEW t \in Texts, NEW f \in Formats, Bind(p, t, f)
        PROVE  PairInv'
    <2>1. msg.op # "describePortal"
      BY <1>3 DEF Bind, Receiving, IInv, InProgress
    <2> QED
      BY <1>0, <1>3, <2>1, Zenon DEF Bind, PairInv, PairRunsOnce
  <1>4. ASSUME NEW p \in Portals, ClosePortal(p) PROVE PairInv'
    <2>1. msg.op # "describePortal"
      BY <1>4, SMTT(30) DEF ClosePortal, Receiving, IInv, InProgress
    <2> QED
      BY <1>0, <1>4, <2>1 DEF ClosePortal, PairInv, PairRunsOnce
  <1>5. ASSUME NEW p \in Portals, Execute(p) PROVE PairInv'
    <2>1. msg' = [op |-> "execute", portal |-> p, text |-> portals[p].text, fmt |-> portals[p].fmt]
      BY <1>5, Zenon DEF Execute, Begin
    <2>2. msg'.op # "describePortal"
      BY <2>1, SMTT(30)
    <2> QED
      BY <1>0, <1>5, <2>2, ZenonT(30) DEF Execute, TakeCached, PairInv, PairRunsOnce
  <1>6. CASE DescribedPortal
    <2>1. msg.portal \in Portals /\ msg.text = portals[msg.portal].text
      BY <1>6, Zenon DEF DescribedPortal, IInv, InProgress, PairInv
    <2>2. cache' = [cache EXCEPT ![msg.portal] = [text |-> msg.text, response |-> Head(out)]]
      <3>1. ~(Cardinality(Cached(cache)) >= MaxCachedPortals /\ msg.portal \notin Cached(cache))
        BY <2>1, Zenon DEF RoomForEach
      <3> QED
        BY <1>6, <3>1, Zenon DEF DescribedPortal, InsertCached
    <2>3. described' = described \cup {msg.portal} /\ portals' = portals /\ msg' = NoMsg
      BY <1>6 DEF DescribedPortal, Finish
    <2>4. PairRunsOnce'
      <3>1. cache'[msg.portal].text = msg.text
        BY <1>0, <2>1, <2>2
      <3>2. \A p \in Portals : p # msg.portal => cache'[p] = cache[p]
        BY <1>0, <2>2
      <3> QED
        BY <1>0, <2>1, <2>3, <3>1, <3>2, Zenon DEF PairInv, PairRunsOnce
    <2>5. msg'.op # "describePortal"
      BY <2>3 DEF NoMsg
    <2> QED
      BY <2>4, <2>5, Zenon DEF PairInv
  <1>7. CASE Close
    BY <1>7, Zenon DEF Close, Finish, NoMsg, PairInv, PairRunsOnce
  <1>8. ASSUME HandlerStep, ~DescribedPortal PROVE PairInv'
    <2>1. UNCHANGED <<portals, cache, described>>
      BY <1>8, Zenon
      DEF HandlerStep, StreamStep, Intercepted, CatalogQuery, Submit, SubmitFails, RecordQueryId,
          ColumnsArrive, NoColumns, ColumnsFail, Replies, DescribedStatement, ReplyWithoutRows,
          StartStream, StreamLastPage, StreamEnds, StreamFails, Answered
    <2>2. msg' = msg \/ msg' = NoMsg
      BY <1>8, ZenonT(30)
      DEF HandlerStep, StreamStep, Intercepted, CatalogQuery, Submit, SubmitFails, RecordQueryId,
          ColumnsArrive, NoColumns, ColumnsFail, Replies, DescribedStatement, ReplyWithoutRows,
          StartStream, StreamLastPage, StreamEnds, StreamFails, Answered, StatementAnswers,
          StatementFails, Fail, Finish
    <2> QED
      BY <1>1, <2>1, <2>2 DEF NoMsg
  <1>9. CASE \/ \E t \in Texts : SimpleQuery(t) \/ DescribeStatement(t)
             \/ Sync
             \/ \E k \in CancelRequests : CancelRead(k) \/ CancelDeliver(k)
             \/ \E q \in Queries : TrinoExpires(q)
             \/ UNCHANGED vars
    BY <1>1, <1>9 DEF SimpleQuery, DescribeStatement, Begin, Sync, CancelRead, CancelDeliver,
                      TrinoExpires, vars
  <1> QED
    BY <1>2, <1>3, <1>4, <1>5, <1>6, <1>7, <1>8, <1>9 DEF Next, ClientStep

-----------------------------------------------------------------------------
(* The describe cache.                                                      *)

F == INSTANCE FiniteSetTheorems

\* The library counts as Connection does.
LEMMA CountsAlike ==
  ASSUME NEW S PROVE F!IsFiniteSet(S) = IsFiniteSet(S) /\ F!Cardinality(S) = Cardinality(S)
  BY DEF F!IsFiniteSet, IsFiniteSet, F!Cardinality, Cardinality

\* A part of a finite set is finite and has fewer elements, if it is not all of it.
LEMMA PartCounts ==
  ASSUME NEW S, IsFiniteSet(S), NEW T \in SUBSET S
  PROVE  /\ IsFiniteSet(T) /\ Cardinality(T) \in Nat /\ Cardinality(S) \in Nat
         /\ Cardinality(T) <= Cardinality(S)
         /\ Cardinality(T) = Cardinality(S) => T = S
  BY CountsAlike, F!FS_Subset, F!FS_CardinalityType

\* One element more counts for at most one.
LEMMA OneMoreCounts ==
  ASSUME NEW S, IsFiniteSet(S), NEW x
  PROVE  /\ IsFiniteSet(S \cup {x})
         /\ Cardinality(S \cup {x}) <= Cardinality(S) + 1
  BY CountsAlike, F!FS_AddElement, F!FS_CardinalityType

\* The empty set has no element.
LEMMA EmptyCounts == Cardinality({}) = 0
  BY CountsAlike, F!FS_EmptySet

\* The cache has a number of entries.
LEMMA CachedFinite ==
  ASSUME NEW c
  PROVE  IsFiniteSet(Cached(c)) /\ Cardinality(Cached(c)) \in Nat
  <1>1. Cached(c) \subseteq Portals
    BY DEF Cached
  <1> QED
    BY <1>1, BoundAssumption, PartCounts

\* Only three actions touch the cache.
LEMMA CacheWriters ==
  ASSUME [Next]_vars, cache' # cache
  PROVE  (\E p \in Portals : Execute(p)) \/ DescribedPortal \/ Close
  BY ZenonT(30)
     DEF Next, vars, ClientStep, HandlerStep, StreamStep, SimpleQuery, Bind, ClosePortal, Sync,
         DescribeStatement, DescribePortal, Intercepted, CatalogQuery, Submit, SubmitFails,
         RecordQueryId, ColumnsArrive, NoColumns, ColumnsFail, Replies, DescribedStatement,
         ReplyWithoutRows, StartStream, StreamLastPage, StreamEnds, StreamFails, Answered,
         CancelRead, CancelDeliver, TrinoExpires

\* Every step keeps the cache within its cap.
LEMMA StepCacheBounded == IInv /\ CacheBounded /\ [Next]_vars => CacheBounded'
  <1> SUFFICES ASSUME IInv, CacheBounded, [Next]_vars PROVE CacheBounded'
    OBVIOUS
  <1>1. cache \in [Portals -> [text : TextOrNone, response : Responses]]
    BY DEF IInv, TypeOK
  <1>a. CacheBounded' <=> Cardinality(Cached(cache')) <= MaxCachedPortals
    BY DEF CacheBounded, Cached
  <1>b. Cardinality(Cached(cache')) \in Nat /\ Cardinality(Cached(cache)) \in Nat
    BY CachedFinite
  <1>2. ASSUME Cached(cache') \subseteq Cached(cache) PROVE CacheBounded'
    <2>1. Cardinality(Cached(cache')) <= Cardinality(Cached(cache))
      BY <1>2, CachedFinite, PartCounts
    <2> QED
      BY <1>a, <1>b, <2>1, BoundAssumption DEF CacheBounded
  <1>3. ASSUME NEW p \in Portals, Execute(p) PROVE CacheBounded'
    <2>1. Cached(cache') \subseteq Cached(cache)
      BY <1>1, <1>3, Zenon DEF Execute, TakeCached, Cached, NoEntry
    <2> QED
      BY <1>2, <2>1, Zenon
  <1>4. CASE DescribedPortal
    <2>1. CASE cache' = cache \/ msg.portal \in Cached(cache)
      <3>1. Cached(cache') \subseteq Cached(cache)
        BY <1>1, <1>4, <2>1, Zenon DEF DescribedPortal, InsertCached, Cached
      <3> QED
        BY <1>2, <3>1
    <2>2. CASE ~(Cardinality(Cached(cache)) >= MaxCachedPortals)
      <3>1. Cached(cache') \subseteq Cached(cache) \cup {msg.portal}
        BY <1>1, <1>4 DEF DescribedPortal, InsertCached, Cached
      <3>2. /\ IsFiniteSet(Cached(cache) \cup {msg.portal})
            /\ Cardinality(Cached(cache) \cup {msg.portal}) <= Cardinality(Cached(cache)) + 1
        BY CachedFinite, OneMoreCounts, Zenon
      <3>3. Cardinality(Cached(cache')) <= Cardinality(Cached(cache)) + 1
        BY <3>1, <3>2, <1>b, CachedFinite, PartCounts, SMTT(30)
      <3> QED
        BY <1>a, <1>b, <2>2, <3>3, BoundAssumption, SMTT(30)
    <2> QED
      BY <1>4, <2>1, <2>2 DEF DescribedPortal, InsertCached
  <1>5. CASE Close
    <2>1. Cached(cache') \subseteq Cached(cache)
      BY <1>5 DEF Close, Cached, NoEntry
    <2> QED
      BY <1>2, <2>1
  <1>6. CASE cache' = cache
    BY <1>2, <1>6 DEF Cached
  <1> QED
    BY <1>3, <1>4, <1>5, <1>6, CacheWriters

\* No sequence of Describe, Execute, Bind and Close makes the cache outgrow
\* MAX_CACHED_PORTALS, for any cap and any number of portal names.
THEOREM CacheBoundedHolds == Spec => []CacheBounded
  <1>1. Init => CacheBounded
    <2> SUFFICES ASSUME Init PROVE CacheBounded
      OBVIOUS
    <2>1. Cached(cache) = {}
      BY DEF Init, Cached, NoEntry
    <2> QED
      BY <2>1, EmptyCounts, BoundAssumption DEF CacheBounded
  <1>2. Spec => []IInv
    BY InitIInv, StepIInv, PTL DEF Spec
  <1> QED
    BY <1>1, <1>2, StepCacheBounded, PTL DEF Spec

-----------------------------------------------------------------------------
(* Describe and Execute as a pair, once more.                               *)

\* With room for every portal name, insert_cached never refuses one.
LEMMA RoomForAll ==
  ASSUME Cardinality(Portals) <= MaxCachedPortals
  PROVE  RoomForEach
  <1> SUFFICES ASSUME NEW c, NEW p \in Portals, p \notin Cached(c)
               PROVE  ~(Cardinality(Cached(c)) >= MaxCachedPortals)
    BY Zenon DEF RoomForEach
  <1>1. Cached(c) \subseteq Portals /\ Cached(c) # Portals
    BY DEF Cached
  <1>2. /\ Cardinality(Cached(c)) <= Cardinality(Portals)
        /\ Cardinality(Cached(c)) # Cardinality(Portals)
    BY <1>1, BoundAssumption, PartCounts
  <1> QED
    BY <1>2, CachedFinite, BoundAssumption, PartCounts, SMTT(30)

\* As long as a client uses no more portal names than MAX_CACHED_PORTALS, the
\* Execute after a Describe finds the described response: the statement runs
\* once per pair, side effects included.
THEOREM PairRunsOnceHolds ==
  ASSUME Cardinality(Portals) <= MaxCachedPortals
  PROVE  Spec => []PairRunsOnce
  <1>1. Init => PairInv
    <2> SUFFICES ASSUME Init PROVE PairInv
      OBVIOUS
    <2>1. described = {} /\ msg = NoMsg
      BY Zenon DEF Init
    <2>2. msg.op # "describePortal"
      BY <2>1 DEF NoMsg
    <2> QED
      BY <2>1, <2>2, Zenon DEF PairInv, PairRunsOnce
  <1>2. Spec => []IInv
    BY InitIInv, StepIInv, PTL DEF Spec
  <1>3. IInv /\ PairInv /\ [Next]_vars => PairInv'
    BY RoomForAll, StepPairInv, Zenon
  <1>4. PairInv => PairRunsOnce
    BY Zenon DEF PairInv
  <1> QED
    BY <1>1, <1>2, <1>3, <1>4, PTL DEF Spec
=============================================================================
