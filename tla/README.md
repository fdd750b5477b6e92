# A TLA+ model of the PostgreSQL-Trino gateway

The gateway speaks the PostgreSQL wire protocol to its clients and Trino's
REST protocol to a Trino cluster. This directory holds TLA+ specifications
of the parts of it that have state, configurations that check small instances
of them with TLC, and proofs, checked by TLAPS, of the properties that matter
most. All paths below are relative to the repository's `src/`.

## The system

| part | code | state | operations | module |
|---|---|---|---|---|
| process | `main.rs`, `server.rs` | semaphore, JoinSet, signal, timers | accept, reject, reap, drain, abort | AcceptLoop; Gateway |
| startup | `startup.rs`, `policy.rs`, `config.rs`, `tls.rs` | flags, posture, acceptor, protocol state | validate, bind, TLS upgrade, Startup and Password messages | Startup |
| cancel registry | `session.rs`, `cancel.rs`, `startup.rs` | `CANCEL_REGISTRY`, `CONNECTION_PID` | register, look up, unregister, cancel | CancelRegistry; Gateway |
| connection | `query_simple.rs`, `query_extended.rs`, `query_pipeline.rs`, `session.rs` | portals, describe cache, active query id | simple query, Bind, Describe, Execute, Close, Sync, cancel | Connection |
| result stream | `trino_stream.rs` | page buffer, nextUri, guard, slot | POST, wait for columns, yield, fetch, fail, drop | TrinoStream; ResultSet |
| statements | `query_pipeline.rs`, `query_inspection.rs`, `intercept.rs`, `info_schema.rs`, `catalog/mod.rs`, `rewrite/` | the pieces of a text, responses so far | split, answer locally, answer from information_schema, rewrite and forward | Statement |
| wire types | `types.rs` | none | type mapping, text and binary encoding of a cell | TrinoTypes, WireTypes; ResultSet |
| error mapping | `error_mapping.rs` | none | SQLSTATE, sanitising, truncation | ErrorText; ResultSet |
| catalog contents | `catalog/pg_*.rs` | none | OIDs, pg_class, pg_attribute, the pg_type table | TrinoTypes; ResultSet |

`main` validates the configuration, binds, and runs `serve`. Each accepted
socket becomes a tokio task holding a permit; pgwire drives the handlers in it
and handles the messages of one connection serially. `establish_session`
puts the connection into the registry. A CancelRequest arrives on another
connection, finds the session in the registry, reads its `active_query_id`
slot and sends DELETE to Trino. What makes this hard: the slot is written by
the pipeline, cleared by the guard of a lazily polled stream, and read by
other tasks; responses are cached between Describe and Execute while the
portal may be bound again; permits come back before tasks are reaped; signals,
timeouts and accepts race.

## Modules

**Connection** is one connection after startup. A text is a sequence of
statement kinds, each standing for a route through `process_single_statement`.
An action is what a handler does between two awaits: `Submit` is the POST,
`RecordQueryId` its reply, `ColumnsArrive`, `NoColumns` and `ColumnsFail` end
the wait for columns, `Replies`, `DescribedStatement` and `DescribedPortal` are
the three ways a handler uses the responses, `StartStream` to `StreamFails`
are pgwire consuming them. `Bind`, `ClosePortal` and `Sync` are pgwire's own.
`described` and the field `polled` of a query are history. Cancel requests (`CancelRead`,
`CancelDeliver`), Trino's expiry of abandoned queries and `Close` interleave
everywhere.

**TrinoStream** is `execute_trino_query` and the stream it returns, row by
row. `slot` says whether the slot still holds this query's id.
**ResultDelivery** is what the stream promises: every row once, in order, and
a normal end only after the last. `DeliversResult` states that TrinoStream
implements it, with `sent <- delivered` and `status` computed from the phase.

**CancelRegistry** is the registry shared by all connections. The handler's
lookup, read and DELETE are separate steps. `PidSpace` stands for the 2^32
values of the counter, so that a small instance wraps.

**Gateway** composes AcceptLoop and CancelRegistry into the process. A
connection gets a permit and a task from the accept loop, and in the task runs
either a session or the handler of a CancelRequest, which needs a connection,
a permit and a task like any other. `ServeSession`, `ReceiveCancel` and
`HandleCancel` are the steps of a registry, guarded by "the task runs";
`EndTask` fixes the order in which a future is dropped, `process_socket` with
the connection's state before `_permit`; `Process` is the rest of AcceptLoop.

**AcceptLoop** is `serve` and `drain`. The polls of the three `select!`
branches are separate steps. A task goes from running to unwinding (its future
is being dropped by a worker, the permit is back) to finished (join_next can
return it). When main returns with tasks left, after the grace period
(`leaving`) or because accept failed (`failing`), the process ends once the
runtime is dropped, which waits for every worker (`RuntimeGone`). `cut` and
`late` are history variables.

**Statement** is `process_query` as a function of the SQL: the split, the
routes in the order the code tries them, the rewriters. A statement is a
record of what the code asks of its syntax tree; a nested query is a sequence
of levels with limit, offset and fetch. Connection models the same code as a
sequence of awaits and takes the route of each statement as given.

**Startup** takes every configuration clap accepts through `validate`,
`build_acceptor`, `bind` and the handshake of one connection.

**TrinoTypes**, **WireTypes** and **ErrorText** are the pure functions on the
way of a result. TrinoTypes maps Trino's type names to PostgreSQL types, lists
the types a driver loads, and computes the OIDs that tie `pg_attribute` to
`pg_class`. WireTypes turns one JSON value into the text or binary form of its
column or into an error. Integer and float widths are constants in their real
order, numbers are counted in halves and times in ticks finer than Trino's
nanoseconds, so that overflow, rounding, fractions and sub-microsecond digits
all occur with small numbers. ErrorText classifies and sanitises a message
that is a sequence of tokens. Loops of the code over bytes, tokens and nested
types are recursive functions over the number of rounds.

**ClientReads** is what stands at both ends of a conversion. `Sent` and
`Means` are Trino's side: the JSON values it puts into a column of a type, and
what it means by them. `ReadsText` and `ReadsBinary` are the client's: what a
driver makes of a cell by the announced type and format. `Faithful` compares
the two, `NotCarriedOver` names the exceptions. `BinarySupported` is what
`encode_cell` undertakes to send in binary: the types it lists, unambiguous
instants, integers within the column's width, and decimals rust_decimal can
hold. Its capacity (`DecimalMax`, `MaxScale`) and the magnitude from which a
number is written with an exponent (`ExponentFrom`) are constants.

**ResultSet** extends TrinoStream with these: a behaviour is one SELECT from
one table, whose rows have values, whose schema was announced, and whose
errors reach the client.

MCConnection, MCStatement and MCResultSet give the texts, symmetries, values
and messages for TLC.

## Runs

| run | states | shows |
|---|---|---|
| `connection_session` | 227 949 | the slot names the streamed query of a lone simple statement, and no query whose stream is over; a described portal is executed from the cache; no rows are streamed twice; the stream of a cancelled query ends |
| `connection_cache` | 661 304 (portals symmetric) | the cache cap; Execute serves the bound text |
| `result_set` | 89 118 | refinement of ResultDelivery, slot cleared by every polled or failed query, one page in memory when Trino sends no rows before columns, a polled stream ends; no cell is misread by the client and none refused but by the policy of `encode_cell`, with the exceptions below; announced types can be loaded, and the catalog joins describe the result; errors are classified, cleaned and capped |
| `gateway` | 775 750 | registry entries are exactly the open sessions unless two drew the same key, belong to served connections and number at most the cap; a cancel stops only its session's queries, under the same condition, and is handled once received; a drain within its budget leaves nothing behind |
| `accept_loop` | 5 906 | connection cap, bound on the JoinSet, at most one accept after a signal, no cut before the drain budget is spent, finished tasks reaped, shutdown completes |
| `statement` | 12 371 | responses in the order of the statements; catalog tables stay with the gateway and user tables go to Trino; the limits of what is posted are in Trino's grammar and return the rows asked for |
| `startup` | 1 172 | password prompt only over TLS or loopback, no session without authorisation, a listener that can serve |

Bounds. Two Trino queries suffice for a stale and a current one in the slot;
batches have two statements. Three portals on a cache of two reach the full
cache and the replacement of a known name. Five rows in pages of at most two
give first, middle, last, empty and short pages. Statements name up to three
relations, one more than any route needs; two nested queries with limits
and offsets from 0 to 2 over four rows reach every branch of the rewriter at
both depths; batches of three have a statement before and after a failing one.
The values of `result_set` are, for each type, both sides of every boundary the
conversions test, both formats and NULL; its messages are all short ones over
the tokens and longer ones that the cap cuts. In `gateway` one pid makes every
pid repeat, two secrets make keys collide or differ, and two permits for three
connections let the CancelRequest be refused. With one permit and one worker
in `accept_loop` the JoinSet reaches its bound of three, and a fourth connection waits.
Deadlock checking is off because each of these systems may stop: a closed
connection, an ended stream, an exited process.

Fairness. Connection: only `StreamStep` is weakly fair, the polls of a stream
that was started. It assumes that Trino answers every GET and that the client
reads what it is sent or goes away: a send to a client that stops reading
waits, and neither wait has a timeout in the gateway. TrinoStream: the same,
and Trino does not send empty pages for ever (strong fairness of `Progress`,
an assumption on Trino). AcceptLoop: main is polled when woken, timers fire, a
worker finishes dropping a future, and an aborted task comes to its next await
(`TaskAborted`), that is, no handler blocks its thread; without the last one
the drop of the runtime can wait for ever. Gateway: the task of a
CancelRequest is polled and Trino answers its DELETE. Clients that have
nothing to read, running tasks nobody aborts, signals and cancel requests owe
nothing.

### Where comments and code differ

Five runs have a counterexample to what a comment says:

- `batch_cancel`: in a batch the guard of the first stream clears the slot
  while the last submitted statement is still to be streamed.
- `pair_twice`: with the describe cache full, Describe and Execute of an
  INSERT run it twice.
- `describe_effect`: Describe Statement of `SELECT ...; INSERT ...` executes
  the INSERT, because `returns_rows` looks at the first statement.
- `format`: a portal bound again to the same text with other formats is
  answered in the formats of the earlier Bind.
- `swallowed`: when one statement of a text does not parse, a leading `SET`,
  `SHOW`, `DISCARD` or `START TRANSACTION` answers for the whole text, and the
  other statements are neither run nor refused.

Read from the code and not covered by a run:

- An error of `accept` ends the process without the drain. The timeouts of the
  drain (`main.rs:28`, `main.rs:144`) limit how long `drain` waits, not how
  long the drop of the runtime does.
- `session.rs:29` says the slot is None on an idle connection. An update
  leaves its id there, and so does a response that is described and dropped,
  or a stream dropped before its first poll. Execute of a cached response does
  not record its id again.
- Responses the cache drops, and those behind an error in a batch, stay open
  in Trino until its own timeout. Pages before the one with the columns are
  buffered without a limit.
- The pid counter passes through 0 when it wraps. A CancelRequest is refused
  like any connection when all permits are taken, and nobody accepts one
  during the drain.
- A query without FROM that calls `version()` or another server function is
  answered locally even if a subquery in it reads a table. A `pg_*` table is
  the gateway's whatever schema it is qualified with.
- `CastRewriter` knows eight type names and leaves others as they are;
  `string_agg` becomes LISTAGG without WITHIN GROUP. No property speaks of the
  rewritten expressions, only of limits.

What the properties of `result_set` exclude, or state with an exception:

- `varbinary` in text is Trino's base64, which is not a spelling of `bytea`;
  an array in text is Trino's JSON, which a client refuses to read as an array.
- In text an integer column cuts the fraction of a number that has one, and in
  binary a string just below `i64::MIN` is rounded to it through `f64`. Trino
  sends neither.
- In binary a decimal beyond the digits of rust_decimal, or written with an
  exponent, is refused; in text it passes through.
- A wall time in the fold of a zone's clock change names two instants. In
  binary it is refused, in text it passes through as written. Digits below a
  microsecond are cut, in binary towards the epoch of 2000.
- `_timetz` is announced for an array of `time with time zone` and is not in
  the table of types a driver loads. `relnamespace` of a schema other than
  `public` is not in the static `pg_namespace`.
- `ErrorClean` is stated for messages the sanitiser is written for: white space
  before the exception name, two spellings of stack frames in one message, or
  an `https://` after an `http://` leave something in place.

## Proofs

TLC checks one instance; the theorems hold for all values of the constants.
Every invariant and every safety action property of the passing runs is a
theorem, two of them under a hypothesis: `PairRunsOnce` and
`CatalogDescribesResult`.

**ConnectionProofs.** The inductive invariant is `IInv`: `TypeOK`,
`InProgress` (which variables a handler at each `pc` has set), `Budget` (the
bound tested when a message arrives covers what its handler submits) and
`Provenance` (every rows response, wherever it is held, belongs to a query
that was submitted for the text recorded with it). `TypeOK` alone is not
inductive: without `Budget`, `Submit` could leave the range of ids. The
induction has a half for the client's steps and one for the handler's, and
gives `TypeCorrect` and, from `Provenance`, `ServesBoundTextHolds`.
`CacheBoundedHolds` needs only `InsertCached` and that no other action adds
entries. `PairRunsOnceHolds`, assuming the cache has room for every portal,
rests on `PairInv`, `SimpleQueryCancellableHolds` on `LoneInv`.
`RowsStreamedOnceHolds` and `SlotOutlivesNoStreamHolds` rest on `OnceInv`: the
responses with rows in the cache, in the output and in the making are of
different queries, none of them polled yet. Only `TakeCached` and the pipeline
hand a response on, and `StartStream` takes one out before it marks it.

**TrinoStreamProofs.** `StreamInv` says that delivered rows followed by
buffered rows are exactly the rows produced so far. From it follow
`StreamTypeCorrect`, `DeliversResultHolds` (the refinement) and, with nothing
buffered while columns are awaited, `OnePageBufferedHolds`.
`SlotFollowsQueryHolds` is inductive as it stands. The second half of the
module is about error messages of any length, step by step through
`sanitise_for_client`: `CutTraceIs`, `StripIs`, `MaskIs`, `TrimIs` and
`TruncateIs` say what each step removes and that it brings back nothing a
step before it removed, which is where their order matters; `Sanitised` puts
them together. `MaskIs` is an induction over the rounds of the loop: what is
already written has no host behind a scheme and does not end in a scheme, and
an `https://` that is left stands before every `http://`.

**ValueProofs.** `CellCarried` says of every Trino type, every value Trino
may send for it and both formats: the cell is read as what Trino meant, or
refused by the client's parser, or one of the exceptions; and if the gateway
refuses it, it is outside `BinarySupported`. There is a lemma for every family of types.
Integers rest on `IntegerFound`: `json_to_i64` finds the number or there is no
such i64, because i64::MAX is not an f64 and the test against its rounding is
strict. Times rest on `Cut`: `truncate_fraction` and the later cut to
microseconds together stay within one microsecond, towards the epoch or away
from it; `ShownCut` shows that the first cut never moves a wall time across a
zone's change, so a time is ambiguous after it exactly if it was before.
Arrays of any depth are an induction over `trino_type_to_pg`.

**ResultSetProofs.** `WireInv` ties the wire to the stream: nothing yet; or
Trino's error instead of a stream; or the fields, one whole row for each
delivered row and at most one error behind them, that of Trino or of the next
row. With `StreamInv` it is inductive, and each theorem applies a lemma about
values, types or messages to what it says is on the wire:
`NeverMisreadHolds`, `FailsOnlyByPolicyHolds`, `TypesLoadableHolds`,
`ErrorCleanHolds`, `ErrorClassifiedHolds`. `CatalogDescribesResultHolds` has a
hypothesis, `OidsDistinct`: a 32-bit hash of names collides for some tables,
and the gateway does not notice. TLC checks in `result_set`, without the
hypothesis, names that only the separator keeps apart.

**StatementProofs.** `IInv` says of the loop in `process_query` which pieces
have been answered (`Progress`), with what (`Ends`: an error only as the last
response), and that whatever was posted was declined by both catalogs
(`PostedUnanswered`). `RoutesComplete` shows that together the routes decline
only statements without a served relation, which gives
`CatalogStaysLocalHolds`; that each route answers only for a served relation
gives `UserQueriesReachTrinoHolds`. `LimitsInTrinoGrammarHolds` goes through
the cases of one level of the rewriter. For `MeaningPreservedHolds`,
`LevelMeaning` shows that one rewritten level lets the same rows through, and
an induction over the nesting carries it to the whole statement.

**StartupProofs.** `IInv` records what main has established at each stage and
what the handshake has at each protocol state; `PostureMeans` says what a
posture other than a refusal implies for the flags.

**AcceptLoopProofs.** `LoopInv` adds to the properties where the loop is:
accept is polled only after join_next had nothing to hand out, so at that
point each tracked task holds a permit or is being dropped by a worker
(`AtAccept`), because a finished task is in join_next's queue (`Queue`). That
gives `TrackedBoundHolds`, the bound of cap, workers and one. `CapHolds`
follows from the count of permits, `OneLateAcceptHolds` from `LateBreaks`
(after a late accept the loop can only break), `DrainHonouredHolds` from
`AbortAfterDrain`. When the process has ended, no task runs.

**GatewayProofs.** First the registry alone: `RegistryExactHolds` and
`CancelHitsOwnerHolds` are conditional on distinct keys. Keys are never given
back, so keys that are distinct now always were (`StaysDistinct`), and the
condition can be carried along. `Routed` records what a handler holds between
its steps: the session it found is the one the sender meant, the id it read is
a query of that session. Then the composition: `ImplementsLoop` and
`ImplementsRegistry` show that it implements both parts, so their theorems
hold of it. `GatewayInv` adds that a session is open, and a handler between
two steps, only while its task runs. From it follow `RegisteredServedHolds`
(entries map one to one into running tasks, even when keys collide) and
`GracefulExitHolds` (a process that has ended runs no task, and before its
drain budget is spent, unless accept failed, none was aborted: `MayAbort`).

Recursion and induction. The provers cannot instantiate an induction theorem
that takes a predicate, so inductions are over sets: `NatInductive` says that
a set of naturals with 0 and every successor is all of them, from the least
element of its complement (`LeastNat`). A recursive function is a CHOOSE whose
equation must be shown to have a solution before anything follows from it;
`Recursion` does this for any step function, `IterEquation` for `RowsOf`.

Assumptions: the named ASSUMEs of the modules. Besides distinct model values,
finite sets and positive bounds they are: `WidthAssumption` (an i16 and an i32
are i64s, an f32 is an f64, i64::MIN and 2^63 are floats and i64::MAX rounds to
2^63, as with the real widths), `TimeAssumption` (a microsecond and a second
are whole nanoseconds; zones change on one), `ScenarioAssumption` (Trino sends
values of the column's type, Bind gives a format for each column),
`TextAssumption` (the ellipsis fits under the cap), `InputAssumption` and
`GrammarAssumption` (a text has a statement; PostgreSQL has no LIMIT together
with FETCH). TLC evaluates all of them on the instances of the runs.

Only model-checked: the liveness properties `CancelTakesEffect`,
`PolledStreamEnds`, `FinishedReaped`, `ShutdownCompletes` and `CancelHandled`, since the provers do not handle
fairness, and the catalog join without `OidsDistinct`.

## Not modelled

- SQL text below the level of Statement: parsing and rendering by sqlparser,
  column names of locally answered results (`query_inspection.rs`).
- `catalog/stubs.rs` and the constant tables of the catalog: empty or fixed
  answers without a condition to check.
- pgwire, tokio, the Trino client and rustls: external, modelled by how the
  gateway uses them. PEM parsing is whether it succeeds.
- Name resolution of `listen_addr`, which happens in `validate` and again in
  `bind`: Startup assumes both give the same addresses.
- Leap seconds, and the inner structure of dates, intervals, UUIDs, addresses
  and JSON documents, which the conversions pass on or parse in libraries.
- Logging, tracing and the wording of messages.
