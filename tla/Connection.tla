----------------------------- MODULE Connection -----------------------------
(***************************************************************************)
(* One client connection from the end of its startup to its close: the     *)
(* simple and the extended query handlers, the statement pipeline, the     *)
(* describe cache (`portals` in the code), the slot that holds the id of   *)
(* the active Trino query, and the cancel requests that read that slot     *)
(* from other tasks.  pgwire handles the messages of one connection        *)
(* serially, so there is one message in progress at a time; cancel         *)
(* requests and Trino run beside it and interleave at every step.          *)
(*                                                                         *)
(* SQL is abstracted to texts.  Pieces[t] is the list of statements that   *)
(* split_statements finds in t, each reduced to how it is routed:          *)
(*   "command"  answered by try_intercept, not a Statement::Query          *)
(*   "local"    a Statement::Query that try_intercept answers              *)
(*   "catalog"  pg_class / pg_attribute, answered by a Trino query whose   *)
(*              id is never recorded                                       *)
(*   "select"   forwarded, a Statement::Query                              *)
(*   "update"   forwarded, anything else (INSERT, CREATE, ...)             *)
(* Row contents are left to module TrinoStream.                            *)
(***************************************************************************)
EXTENDS Naturals, Sequences, FiniteSets

CONSTANTS
  Texts,            \* SQL texts a client sends
  NoText,           \* "no statement": an unbound portal, an empty cache entry
  Pieces,           \* Texts -> sequence of statement kinds
  Portals,          \* portal names
  NoPortal,         \* the portal of a message that names none
  Formats,          \* result formats a Bind can ask for
  NoFormat,         \* text by default: the format of a message without a Bind
  MaxCachedPortals, \* MAX_CACHED_PORTALS
  CancelRequests,   \* cancel requests that can be in flight at once
  MaxQueries        \* bound: Trino queries submitted in a behaviour

Kinds == {"command", "local", "catalog", "select", "update"}

ASSUME TextAssumption ==
  /\ NoText \notin Texts
  /\ Pieces \in [Texts -> Seq(Kinds)]
  /\ \A t \in Texts : Pieces[t] # << >>

ASSUME BoundAssumption ==
  /\ IsFiniteSet(Portals)
  /\ MaxCachedPortals \in Nat \ {0}
  /\ MaxQueries \in Nat

Queries == 1 .. MaxQueries
QueryOrNone == 0 .. MaxQueries     \* 0 is None
TextOrNone == Texts \cup {NoText}
FormatOrNone == Formats \cup {NoFormat}

\* A pgwire Response: rows of a Trino query (a stream nobody has polled yet),
\* an Execution tag, a Response::Error, or rows the gateway made up itself.
\* `more` says whether the stream still has a nextUri to follow.
Responses == [kind : {"rows", "ok", "error", "local", "none"},
              q : QueryOrNone, more : BOOLEAN]
Plain(kind) == [kind |-> kind, q |-> 0, more |-> FALSE]
Rows(query, hasMore) == [kind |-> "rows", q |-> query, more |-> hasMore]
NoEntry == [text |-> NoText, response |-> Plain("none")]
Unbound == [text |-> NoText, fmt |-> NoFormat]

VARIABLES
  state,      \* pgwire's view: "ready", "awaitSync" or "closed"
  portals,    \* what each portal name is bound to (pgwire's portal store)
  cache,      \* the describe cache: portal name -> text and response
  slot,       \* active_query_id: id of a Trino query, or 0 for None
  submitted,  \* number of Trino queries submitted; the last one's id
  runs,       \* per query id: Trino's status, the text and format it ran for, and
              \* whether its rows were ever polled
  msg,        \* the message in progress
  pc,         \* where its handler is
  left,       \* statements of the text not yet processed
  out,        \* responses produced and not yet consumed
  cur,        \* the response whose query is being executed or streamed
  cancels,    \* query id each cancel request in flight has read, or 0
  described   \* history: portals answered by Describe since Bind / Execute

trinoVars == <<submitted, runs>>
jobVars == <<msg, left, out, cur>>
vars == <<state, portals, cache, slot, submitted, runs, msg, pc, left, out,
          cur, cancels, described>>

Ops == {"none", "query", "describeStatement", "describePortal", "execute"}
NoMsg == [op |-> "none", portal |-> NoPortal, text |-> NoText, fmt |-> NoFormat]
\* "posted": Trino has the query and the gateway does not know its id;
\* "running": the gateway has recorded the id; "serving": it has the columns
\* and further pages of rows wait to be fetched.
Statuses == {"unused", "posted", "running", "serving", "finished", "cancelled"}
Alive == {"posted", "running", "serving"}
NoRun == [status |-> "unused", text |-> NoText, fmt |-> NoFormat, polled |-> FALSE]

\* Every variable ranges over the values its Rust counterpart can hold, and a
\* query is being executed or streamed exactly where the handler says so.
TypeOK ==
  /\ state \in {"ready", "awaitSync", "closed"}
  /\ portals \in [Portals -> [text : TextOrNone, fmt : FormatOrNone]]
  /\ cache \in [Portals -> [text : TextOrNone, response : Responses]]
  /\ slot \in QueryOrNone
  /\ submitted \in QueryOrNone
  /\ runs \in [Queries -> [status : Statuses, text : TextOrNone, fmt : FormatOrNone,
                          polled : BOOLEAN]]
  /\ msg \in [op : Ops, portal : Portals \cup {NoPortal}, text : TextOrNone,
              fmt : FormatOrNone]
  /\ pc \in {"idle", "pieces", "posted", "columns", "reply", "stream"}
  /\ left \in Seq(Kinds)
  /\ out \in Seq(Responses)
  /\ cur \in Responses
  /\ cancels \in [CancelRequests -> QueryOrNone]
  /\ described \in SUBSET Portals
  /\ pc \in {"posted", "columns", "stream"} <=> cur.kind = "rows"

Init ==
  /\ state = "ready"
  /\ portals = [p \in Portals |-> Unbound]
  /\ cache = [p \in Portals |-> NoEntry]
  /\ slot = 0
  /\ submitted = 0
  /\ runs = [q \in Queries |-> NoRun]
  /\ msg = NoMsg
  /\ pc = "idle"
  /\ left = << >>
  /\ out = << >>
  /\ cur = Plain("none")
  /\ cancels = [k \in CancelRequests |-> 0]
  /\ described = {}

-----------------------------------------------------------------------------
(* The describe cache.                                                      *)

Cached(c) == {p \in Portals : c[p].text # NoText}

\* Mutant: one entry too many.
InsertCachedOffByOne(c, p, entry) ==
  IF Cardinality(Cached(c)) > MaxCachedPortals /\ p \notin Cached(c)
  THEN c
  ELSE [c EXCEPT ![p] = entry]

\* Mutant: a full cache refuses to replace an entry, too.
InsertCachedNeverReplaces(c, p, entry) ==
  IF Cardinality(Cached(c)) >= MaxCachedPortals
  THEN c
  ELSE [c EXCEPT ![p] = entry]

\* insert_cached: a full cache refuses a new name, a known name is replaced.
InsertCached(c, p, entry) ==
  IF Cardinality(Cached(c)) >= MaxCachedPortals /\ p \notin Cached(c)
  THEN c
  ELSE [c EXCEPT ![p] = entry]

\* Mutant: the entry is looked at and left where it is.
TakeCachedPeeks(c, p) == c

\* take_cached removes the entry, whatever the caller then does with it.
TakeCached(c, p) == [c EXCEPT ![p] = NoEntry]

\* Mutant: keyed on the portal name alone.
ServesExecuteByName(entry, text) == entry.text # NoText

\* The test do_query makes on the entry it took.
ServesExecute(entry, text) == entry.text = text

-----------------------------------------------------------------------------
(* Messages.  The bound on queries is checked when a message arrives, so a  *)
(* handler that has started always runs to its end.                         *)

Begin(op, p, t, f) ==
  /\ msg' = [op |-> op, portal |-> p, text |-> t, fmt |-> f]
  /\ pc' = "pieces"
  /\ left' = Pieces[t]
  /\ out' = << >>
  /\ cur' = Plain("none")

Receiving == pc = "idle" /\ state = "ready"
WithinBound(t) == submitted + Len(Pieces[t]) <= MaxQueries

\* do_query of the simple protocol: always the text format.
SimpleQuery(t) ==
  /\ Receiving /\ WithinBound(t)
  /\ Begin("query", NoPortal, t, NoFormat)
  /\ UNCHANGED <<state, portals, cache, slot, trinoVars, cancels, described>>

\* Parse and Bind as pgwire handles them: the portal store is overwritten, the
\* gateway is not told.
Bind(p, t, f) ==
  /\ Receiving
  /\ portals' = [portals EXCEPT ![p] = [text |-> t, fmt |-> f]]
  /\ described' = described \ {p}
  /\ UNCHANGED <<state, cache, slot, trinoVars, jobVars, pc, cancels>>

\* Close Portal: pgwire drops the portal, the describe cache keeps its entry.
ClosePortal(p) ==
  /\ Receiving
  /\ portals[p].text # NoText
  /\ portals' = [portals EXCEPT ![p] = Unbound]
  /\ described' = described \ {p}
  /\ UNCHANGED <<state, cache, slot, trinoVars, jobVars, pc, cancels>>

\* After an error in an extended message pgwire skips everything up to Sync.
Sync ==
  /\ pc = "idle" /\ state = "awaitSync"
  /\ state' = "ready"
  /\ UNCHANGED <<portals, cache, slot, trinoVars, jobVars, pc, cancels, described>>

\* returns_rows looks at the first statement only.
ReturnsRows(t) == Head(Pieces[t]) \in {"local", "catalog", "select"}

\* do_describe_statement: no_data (no state change) unless the text returns rows.
DescribeStatement(t) ==
  /\ Receiving /\ WithinBound(t)
  /\ ReturnsRows(t)
  /\ Begin("describeStatement", NoPortal, t, NoFormat)
  /\ UNCHANGED <<state, portals, cache, slot, trinoVars, cancels, described>>

DescribePortal(p) ==
  /\ Receiving
  /\ portals[p].text # NoText
  /\ WithinBound(portals[p].text)
  /\ Begin("describePortal", p, portals[p].text, portals[p].fmt)
  /\ UNCHANGED <<state, portals, cache, slot, trinoVars, cancels, described>>

\* do_query of the extended protocol up to the first await: the cached
\* response if it was made for the same text, else the pipeline.
Execute(p) ==
  LET text == portals[p].text
      entry == cache[p]
  IN
  /\ Receiving
  /\ text # NoText
  /\ cache' = TakeCached(cache, p)
  /\ described' = described \ {p}
  /\ \/ /\ ServesExecute(entry, text)
        /\ msg' = [op |-> "execute", portal |-> p, text |-> text,
                   fmt |-> portals[p].fmt]
        /\ pc' = "reply"
        /\ out' = <<entry.response>>
        /\ UNCHANGED <<left, cur>>
     \/ /\ ~ServesExecute(entry, text)
        /\ WithinBound(text)
        /\ Begin("execute", p, text, portals[p].fmt)
  /\ UNCHANGED <<state, portals, slot, trinoVars, cancels>>

-----------------------------------------------------------------------------
(* How a handler ends.                                                      *)

\* Mutant: the stream that was polled is not let go.
FinishKeepsStream ==
  /\ pc' = "idle"
  /\ msg' = NoMsg
  /\ left' = << >>
  /\ out' = << >>
  /\ cur' = cur

Finish ==
  /\ pc' = "idle"
  /\ msg' = NoMsg
  /\ left' = << >>
  /\ out' = << >>
  /\ cur' = Plain("none")

\* The handler returned Err: the responses it still held are dropped.
Fail ==
  /\ Finish
  /\ state' = IF msg.op = "query" THEN "ready" ELSE "awaitSync"

\* process_single_statement returned a UserError: a text of one statement
\* passes it on, a batch records it and stops.
StatementFails ==
  \/ Len(Pieces[msg.text]) = 1 /\ Fail
  \/ /\ Len(Pieces[msg.text]) > 1
     /\ out' = Append(out, Plain("error"))
     /\ left' = << >>
     /\ cur' = Plain("none")
     /\ pc' = "pieces"
     /\ UNCHANGED <<state, msg>>

StatementAnswers(response) ==
  /\ out' = Append(out, response)
  /\ left' = Tail(left)
  /\ cur' = Plain("none")
  /\ pc' = "pieces"
  /\ UNCHANGED <<state, msg>>

-----------------------------------------------------------------------------
(* process_query: one statement after the other.                            *)

Status(q) == runs[q].status
Becomes(q, status) == runs' = [runs EXCEPT ![q].status = status]

Processing(kinds) == pc = "pieces" /\ left # << >> /\ Head(left) \in kinds
Forwarded == {"select", "update"}

Intercepted ==
  /\ Processing({"command", "local"})
  /\ StatementAnswers(Plain("local"))
  /\ UNCHANGED <<portals, cache, slot, trinoVars, cancels, described>>

\* A catalog query that fails is an ApiError, which no batch survives.
CatalogQuery ==
  /\ Processing({"catalog"})
  /\ StatementAnswers(Plain("local")) \/ Fail
  /\ UNCHANGED <<portals, cache, slot, trinoVars, cancels, described>>

\* execute_trino_query awaits the initial POST: Trino has the query, the
\* gateway does not know its id yet.
Submit ==
  /\ Processing(Forwarded)
  /\ submitted' = submitted + 1
  /\ runs' = [runs EXCEPT ![submitted + 1] =
                [status |-> "posted", text |-> msg.text, fmt |-> msg.fmt, polled |-> FALSE]]
  /\ cur' = Rows(submitted + 1, TRUE)
  /\ pc' = "posted"
  /\ UNCHANGED <<state, portals, cache, slot, msg, left, out, cancels, described>>

\* The POST failed before it reached Trino, or its reply was lost.
SubmitFails ==
  /\ Processing(Forwarded) \/ pc = "posted"
  /\ StatementFails
  /\ UNCHANGED <<portals, cache, slot, trinoVars, cancels, described>>

\* Mutant: an id that is still there is not overwritten.
RecordQueryIdOnce ==
  /\ pc = "posted"
  /\ slot' = IF slot = 0 THEN cur.q ELSE slot
  /\ Becomes(cur.q, "running")
  /\ pc' = "columns"
  /\ UNCHANGED <<state, portals, cache, submitted, jobVars, cancels, described>>

RecordQueryId ==
  /\ pc = "posted"
  /\ slot' = cur.q
  /\ Becomes(cur.q, "running")
  /\ pc' = "columns"
  /\ UNCHANGED <<state, portals, cache, submitted, jobVars, cancels, described>>

\* A page with columns: the stream is built, and not polled yet.  A page
\* without columns only makes the loop go round.
ColumnsArrive ==
  /\ pc = "columns"
  /\ \/ /\ StatementAnswers(Rows(cur.q, TRUE))
        /\ \/ Status(cur.q) = "running" /\ Becomes(cur.q, "serving")
           \/ Status(cur.q) = "cancelled" /\ UNCHANGED runs
     \/ /\ Status(cur.q) = "running"
        /\ StatementAnswers(Rows(cur.q, FALSE))
        /\ Becomes(cur.q, "finished")
  /\ UNCHANGED <<portals, cache, slot, submitted, cancels, described>>

\* nextUri is gone and no columns came: DDL or DML.  The row stream is dropped
\* before its first poll, when its ClearOnDrop guard does not exist yet.
NoColumns ==
  /\ pc = "columns"
  /\ Head(left) = "update"
  /\ Status(cur.q) = "running"
  /\ StatementAnswers(Plain("ok"))
  /\ Becomes(cur.q, "finished")
  /\ UNCHANGED <<portals, cache, slot, submitted, cancels, described>>

\* Trino reports an error (the query has ended) or the GET itself fails (it may
\* still run).  Both clear the slot.
ColumnsFail ==
  /\ pc = "columns"
  /\ slot' = 0
  /\ StatementFails
  /\ UNCHANGED runs \/ (Status(cur.q) = "running" /\ Becomes(cur.q, "finished"))
  /\ UNCHANGED <<portals, cache, submitted, cancels, described>>

\* process_query returned: what each handler does with the responses.
Replies ==
  /\ pc = "pieces" /\ left = << >>
  /\ msg.op \in {"query", "execute"}
  /\ out' = IF msg.op = "query" THEN out ELSE <<Head(out)>>
  /\ pc' = "reply"
  /\ UNCHANGED <<state, portals, cache, slot, trinoVars, msg, left, cur,
                 cancels, described>>

DescribedStatement ==
  /\ pc = "pieces" /\ left = << >>
  /\ msg.op = "describeStatement"
  /\ Finish
  /\ UNCHANGED <<state, portals, cache, slot, trinoVars, cancels, described>>

DescribedPortal ==
  /\ pc = "pieces" /\ left = << >>
  /\ msg.op = "describePortal"
  /\ cache' = InsertCached(cache, msg.portal,
                           [text |-> msg.text, response |-> Head(out)])
  /\ described' = described \cup {msg.portal}
  /\ Finish
  /\ UNCHANGED <<state, portals, slot, trinoVars, cancels>>

-----------------------------------------------------------------------------
(* pgwire consumes the responses in order; polling a stream of rows creates *)
(* its ClearOnDrop guard, which clears the slot when the stream goes away.  *)

\* Mutant: the slot is cleared at the end of the pages, not when the stream is
\* dropped before.
SlotAfterGuardAtEnd == IF cur.more THEN slot ELSE 0

SlotAfterGuard == 0

ReplyWithoutRows ==
  /\ pc = "reply" /\ out # << >>
  /\ Head(out).kind # "rows"
  /\ out' = Tail(out)
  /\ UNCHANGED <<state, portals, cache, slot, trinoVars, msg, pc, left, cur,
                 cancels, described>>

StartStream ==
  /\ pc = "reply" /\ out # << >>
  /\ Head(out).kind = "rows"
  /\ cur' = Head(out)
  /\ out' = Tail(out)
  /\ pc' = "stream"
  /\ runs' = [runs EXCEPT ![Head(out).q].polled = TRUE]
  /\ UNCHANGED <<state, portals, cache, slot, submitted, msg, left, cancels,
                 described>>

\* The page without a nextUri; pages before it only make the loop go round.
StreamLastPage ==
  /\ pc = "stream" /\ cur.more
  /\ Status(cur.q) = "serving"
  /\ Becomes(cur.q, "finished")
  /\ cur' = [cur EXCEPT !.more = FALSE]
  /\ UNCHANGED <<state, portals, cache, slot, submitted, msg, pc, left, out,
                 cancels, described>>

StreamEnds ==
  /\ pc = "stream" /\ ~cur.more
  /\ slot' = SlotAfterGuard
  /\ cur' = Plain("none")
  /\ pc' = "reply"
  /\ UNCHANGED <<state, portals, cache, trinoVars, msg, left, out, cancels,
                 described>>

\* Mutant: the error page of a cancelled query is polled over.
StreamFailsUnlessCancelled ==
  /\ pc = "stream"
  /\ Status(cur.q) # "cancelled"
  /\ slot' = SlotAfterGuard
  /\ Fail
  /\ UNCHANGED runs \/ (cur.more /\ Status(cur.q) = "serving" /\ Becomes(cur.q, "finished"))
  /\ UNCHANGED <<portals, cache, submitted, cancels, described>>

\* A Trino error, a failed GET or a row that cannot be encoded: pgwire gets an
\* Err from the stream, drops it and the responses behind it.
StreamFails ==
  /\ pc = "stream"
  /\ slot' = SlotAfterGuard
  /\ Fail
  /\ UNCHANGED runs \/ (cur.more /\ Status(cur.q) = "serving" /\ Becomes(cur.q, "finished"))
  /\ UNCHANGED <<portals, cache, submitted, cancels, described>>

Answered ==
  /\ pc = "reply" /\ out = << >>
  /\ Finish
  /\ UNCHANGED <<state, portals, cache, slot, trinoVars, cancels, described>>

-----------------------------------------------------------------------------
(* Cancel requests, Trino, and the end of the connection.                   *)

\* on_cancel_request up to its await.  An empty slot is the "idle" return.
CancelRead(k) ==
  /\ state # "closed"
  /\ cancels[k] = 0 /\ slot # 0
  /\ cancels' = [cancels EXCEPT ![k] = slot]
  /\ UNCHANGED <<state, portals, cache, slot, trinoVars, jobVars, pc, described>>

\* trino_client.cancel(id): stops a running query, is a no-op on any other, and
\* may itself fail, which is only logged.
CancelDeliver(k) ==
  LET q == cancels[k] IN
  /\ q # 0
  /\ cancels' = [cancels EXCEPT ![k] = 0]
  /\ \/ Status(q) \in Alive /\ Becomes(q, "cancelled")
     \/ UNCHANGED runs
  /\ UNCHANGED <<state, portals, cache, slot, submitted, jobVars, pc, described>>

\* Trino ends a query nobody polls after its own client timeout.
TrinoExpires(q) ==
  /\ Status(q) \in Alive
  /\ ~(pc \in {"posted", "columns", "stream"} /\ cur.q = q)
  /\ Becomes(q, "finished")
  /\ UNCHANGED <<state, portals, cache, slot, submitted, jobVars, pc, cancels,
                 described>>

\* The client goes away or the task is aborted, at any await.  A stream that
\* was being polled runs its guard; everything else is just dropped.
Close ==
  /\ state # "closed"
  /\ state' = "closed"
  /\ portals' = [p \in Portals |-> Unbound]
  /\ cache' = [p \in Portals |-> NoEntry]
  /\ slot' = IF pc = "stream" THEN SlotAfterGuard ELSE slot
  /\ described' = {}
  /\ Finish
  /\ UNCHANGED <<trinoVars, cancels>>

StreamStep == StreamLastPage \/ StreamEnds \/ StreamFails

HandlerStep ==
  \/ Intercepted \/ CatalogQuery \/ Submit \/ SubmitFails \/ RecordQueryId
  \/ ColumnsArrive \/ NoColumns \/ ColumnsFail
  \/ Replies \/ DescribedStatement \/ DescribedPortal
  \/ ReplyWithoutRows \/ StartStream \/ StreamStep \/ Answered

ClientStep ==
  \/ \E t \in Texts : SimpleQuery(t) \/ DescribeStatement(t)
  \/ \E p \in Portals, t \in Texts, f \in Formats : Bind(p, t, f)
  \/ \E p \in Portals : ClosePortal(p) \/ DescribePortal(p) \/ Execute(p)
  \/ Sync
  \/ Close

Next ==
  \/ HandlerStep
  \/ ClientStep
  \/ \E k \in CancelRequests : CancelRead(k) \/ CancelDeliver(k)
  \/ \E q \in Queries : TrinoExpires(q)

Spec == Init /\ [][Next]_vars

\* A stream that was polled is polled again.  The assumptions are that Trino
\* answers every GET and that the client reads what it is sent or goes away:
\* sends wait for a slow client, and neither has a timeout.  Nobody else owes
\* anything.
FairSpec == Spec /\ WF_vars(StreamStep)

-----------------------------------------------------------------------------
(* What the code guarantees.                                                *)

\* The describe cache never holds more than MAX_CACHED_PORTALS responses,
\* however Describe, Execute and re-Bind are interleaved (insert_cached).
CacheBounded == Cardinality(Cached(cache)) <= MaxCachedPortals

\* Execute never streams the rows of a statement other than the one its portal
\* is bound to now, although nothing invalidates the cache when the portal is
\* bound again or closed (the text test in do_query).
ServesBoundText ==
  msg.op = "execute" /\ pc = "stream" => runs[cur.q].text = msg.text

\* A portal that was described and neither bound nor executed since has its
\* response in the cache, so the Execute that follows submits nothing: "the
\* query runs against Trino exactly once per Describe+Execute pair".
PairRunsOnce ==
  \A p \in described : cache[p].text = portals[p].text

\* While the rows of a simple query of one statement are streamed, a cancel
\* request finds that query in the slot, whatever the connection described,
\* cached, dropped or failed at before.
SimpleQueryCancellable ==
  msg.op = "query" /\ Len(Pieces[msg.text]) = 1 /\ pc = "stream" => slot = cur.q

\* A stream takes its id with it: once rows of a query were polled, the slot
\* names that query only while they still are, however the stream ends
\* (ClearOnDrop).  A cancel request that comes later finds the connection idle
\* or another query.  What was never polled gives no such promise: the id of an
\* update, or of a response that was described and dropped, stays.
SlotOutlivesNoStream ==
  slot # 0 /\ runs[slot].polled => pc = "stream" /\ cur.q = slot

\* The rows of a query are streamed once: a portal that is executed again, or
\* described again, runs its statement again instead of getting the rest of a
\* stream somebody has read (take_cached in do_query).
RowsStreamedOnce ==
  [][pc # "stream" /\ pc' = "stream" => ~runs[cur'.q].polled]_vars

\* While the client reads, a query that Trino has cancelled stops being
\* streamed: the next page is an error, which ends the stream and the message.
CancelTakesEffect ==
  (pc = "stream" /\ cur.more /\ Status(cur.q) = "cancelled") ~> pc # "stream"

-----------------------------------------------------------------------------
(* What comments in the code say and the code does not do.                  *)

\* query_pipeline.rs: "a `CancelRequest` always targets the most-recently-
\* submitted statement", here while that statement's rows are streamed.
CancelTargetsLatest ==
  msg.op = "query" /\ pc = "stream" /\ cur.q = submitted => slot = cur.q

\* query_extended.rs: "For DML/DDL we return `no_data` without running the
\* pipeline", because it "would execute side effects before Bind/Execute".
DescribeStatementHasNoEffect ==
  msg.op = "describeStatement" /\ pc = "posted" => Head(left) # "update"

\* README.md: "The gateway honours the format the client requests for each
\* column".
FormatHonoured ==
  msg.op = "execute" /\ pc = "stream" => runs[cur.q].fmt = msg.fmt
=============================================================================
