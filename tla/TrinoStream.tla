----------------------------- MODULE TrinoStream -----------------------------
(***************************************************************************)
(* One Trino query at the level of pages and rows: execute_trino_query     *)
(* posts it, polls nextUri until the columns are known and builds a stream;*)
(* pgwire polls the stream, which yields the buffered rows and fetches one *)
(* page after the other.  The query fails, the stream is dropped or a row  *)
(* cannot be encoded at any point.                                         *)
(*                                                                         *)
(* Rows are numbered in Trino's order; their values and types are added by *)
(* module ResultSet.  What Trino answers is external, see TrinoPage.       *)
(***************************************************************************)
EXTENDS Naturals, Sequences

CONSTANTS
  MaxRows,           \* bound: rows of a result
  PageSize           \* most rows Trino puts on one page

ASSUME StreamAssumption ==
  /\ MaxRows \in Nat
  /\ PageSize \in Nat \ {0}

VARIABLES
  total,       \* rows of this result
  isUpdate,    \* a statement without a result set: Trino never sends columns
  early,       \* pages of this result may carry rows before any page had columns
  produced,    \* rows Trino has put on pages so far
  columns,     \* trino_columns is not empty
  buf,         \* initial_rows, later the rows of the current page, not yielded yet
  nextUri,     \* next_uri is Some
  phase,       \* where the query is, see Phases
  slot,        \* active_query_id holds this query's id
  delivered    \* rows handed to pgwire

resultVars == <<total, isUpdate, early>>
vars == <<total, isUpdate, early, produced, columns, buf, nextUri, phase, slot, delivered>>

\* "post", "columns": awaits inside execute_trino_query; "ready": the stream
\* exists, nobody has polled it; "rows": yielding; "fetch": awaiting the next
\* page.  The others are final; "executed" is the DDL / DML reply.
Polled == {"rows", "fetch"}
Unfinished == {"post", "columns", "ready"} \cup Polled
Phases == Unfinished \cup {"executed", "complete", "failed", "dropped"}

\* Every variable ranges over the values the code can give it, and a nextUri
\* is only held where it can still be followed: a GET in flight has taken it.
TypeOK ==
  /\ total \in 0 .. MaxRows
  /\ isUpdate \in BOOLEAN
  /\ early \in BOOLEAN
  /\ produced \in 0 .. total
  /\ columns \in BOOLEAN
  /\ buf \in Seq(Nat)
  /\ nextUri \in BOOLEAN
  /\ phase \in Phases
  /\ slot \in BOOLEAN
  /\ delivered \in Seq(Nat)
  /\ nextUri => phase \in {"columns", "ready", "rows"}

Init ==
  /\ isUpdate \in BOOLEAN
  /\ early \in BOOLEAN
  /\ total \in 0 .. MaxRows
  /\ isUpdate => total = 0
  /\ produced = 0
  /\ columns = FALSE
  /\ buf = << >>
  /\ nextUri = FALSE
  /\ phase = "post"
  /\ slot = FALSE
  /\ delivered = << >>

-----------------------------------------------------------------------------
(* Trino (external).                                                        *)

\* A page without an error: `count` further rows, whether columns come with it
\* and whether a nextUri does.  Columns are repeated once sent; the page
\* without a nextUri completes the result.
TrinoPage(cols, count, more) ==
  /\ produced + count <= total
  /\ columns => cols
  /\ isUpdate => ~cols
  /\ count > 0 => cols \/ early
  /\ ~more => produced + count = total /\ (cols \/ isUpdate)

\* The rows of a page.  Data that is not Direct would have none; Trino sends it
\* only to clients that ask for spooled results, and the gateway does not.
RowsOf(count) == [i \in 1 .. count |-> produced + i]

-----------------------------------------------------------------------------
(* execute_trino_query.                                                     *)

\* Mutant: polls until nextUri is gone, not until columns appear.
AfterReplyBuffersAll(cols, more) ==
  IF more THEN "columns" ELSE IF cols THEN "ready" ELSE "executed"

\* The condition of the polling loop and what follows it.
AfterReply(cols, more) ==
  IF cols THEN "ready" ELSE IF more THEN "columns" ELSE "executed"

\* The POST is answered: the id is recorded, the first page kept.
FirstPage(cols, count, more) ==
  /\ phase = "post"
  /\ TrinoPage(cols, count, more)
  /\ slot' = TRUE
  /\ columns' = cols
  /\ buf' = RowsOf(count)
  /\ produced' = produced + count
  /\ nextUri' = more
  /\ phase' = AfterReply(cols, more)
  /\ UNCHANGED <<resultVars, delivered>>

\* Mutant: the rows of the page replace the ones already there.
ColumnsPageReplaces(cols, count, more) ==
  /\ phase = "columns"
  /\ TrinoPage(cols, count, more)
  /\ columns' = cols
  /\ buf' = RowsOf(count)
  /\ produced' = produced + count
  /\ nextUri' = more
  /\ phase' = AfterReply(cols, more)
  /\ UNCHANGED <<resultVars, slot, delivered>>

\* One round of the loop that looks for columns.
ColumnsPage(cols, count, more) ==
  /\ phase = "columns"
  /\ TrinoPage(cols, count, more)
  /\ columns' = cols
  /\ buf' = buf \o RowsOf(count)
  /\ produced' = produced + count
  /\ nextUri' = more
  /\ phase' = AfterReply(cols, more)
  /\ UNCHANGED <<resultVars, slot, delivered>>

\* Mutant: the error return forgets the slot.
NoStreamKeepsSlot ==
  /\ phase \in {"post", "columns"}
  /\ phase' = "failed"
  /\ buf' = << >>
  /\ nextUri' = FALSE
  /\ UNCHANGED <<resultVars, produced, columns, slot, delivered>>

\* The POST or a GET fails, or a page carries an error: no stream is built and
\* the slot is empty (a POST that fails never filled it).
NoStream ==
  /\ phase \in {"post", "columns"}
  /\ phase' = "failed"
  /\ slot' = FALSE
  /\ buf' = << >>
  /\ nextUri' = FALSE
  /\ UNCHANGED <<resultVars, produced, columns, delivered>>

-----------------------------------------------------------------------------
(* The stream.  pgwire polls it until it ends or yields an error.           *)

\* The first poll: the ClearOnDrop guard exists from here on.
Poll ==
  /\ phase = "ready"
  /\ phase' = "rows"
  /\ UNCHANGED <<resultVars, produced, columns, buf, nextUri, slot, delivered>>

YieldRow ==
  /\ phase = "rows" /\ buf # << >>
  /\ delivered' = Append(delivered, Head(buf))
  /\ buf' = Tail(buf)
  /\ UNCHANGED <<resultVars, produced, columns, nextUri, phase, slot>>

\* Mutant: next_uri is read and not taken.
FetchKeepsUri ==
  /\ phase = "rows" /\ buf = << >> /\ nextUri
  /\ phase' = "fetch"
  /\ UNCHANGED <<resultVars, produced, columns, buf, nextUri, slot, delivered>>

\* next_uri.take(), then the await.
Fetch ==
  /\ phase = "rows" /\ buf = << >> /\ nextUri
  /\ nextUri' = FALSE
  /\ phase' = "fetch"
  /\ UNCHANGED <<resultVars, produced, columns, buf, slot, delivered>>

\* Mutant: a page without rows is not taken as an answer.
NextPageWithRows(cols, count, more) ==
  /\ phase = "fetch"
  /\ TrinoPage(cols, count, more)
  /\ count > 0
  /\ buf' = RowsOf(count)
  /\ produced' = produced + count
  /\ nextUri' = more
  /\ phase' = "rows"
  /\ UNCHANGED <<resultVars, columns, slot, delivered>>

NextPage(cols, count, more) ==
  /\ phase = "fetch"
  /\ TrinoPage(cols, count, more)
  /\ buf' = RowsOf(count)
  /\ produced' = produced + count
  /\ nextUri' = more
  /\ phase' = "rows"
  /\ UNCHANGED <<resultVars, columns, slot, delivered>>

\* An error page, a failed GET, or a row encode_row cannot encode: pgwire gets
\* an Err and lets the stream go, which runs the guard.
StreamFails ==
  /\ phase = "fetch" \/ (phase = "rows" /\ buf # << >>)
  /\ phase' = "failed"
  /\ slot' = FALSE
  /\ buf' = << >>
  /\ nextUri' = FALSE
  /\ UNCHANGED <<resultVars, produced, columns, delivered>>

StreamEnds ==
  /\ phase = "rows" /\ buf = << >> /\ ~nextUri
  /\ phase' = "complete"
  /\ slot' = FALSE
  /\ UNCHANGED <<resultVars, produced, columns, buf, nextUri, delivered>>

\* The future or the stream is dropped: the client closed, the task was
\* aborted, the response was discarded.  Only a polled stream has a guard.
Drop ==
  /\ phase \in Unfinished
  /\ phase' = "dropped"
  /\ slot' = IF phase \in Polled THEN FALSE ELSE slot
  /\ buf' = << >>
  /\ nextUri' = FALSE
  /\ UNCHANGED <<resultVars, produced, columns, delivered>>

PageArrives ==
  \E cols, more \in BOOLEAN, count \in 0 .. PageSize :
    \/ FirstPage(cols, count, more)
    \/ ColumnsPage(cols, count, more)
    \/ NextPage(cols, count, more)

\* Pages that bring the result forward.
Progress ==
  \/ PageArrives /\ produced' > produced
  \/ PageArrives /\ ~nextUri'

Next ==
  \/ PageArrives \/ NoStream
  \/ Poll \/ YieldRow \/ Fetch \/ StreamFails \/ StreamEnds
  \/ Drop

Spec == Init /\ [][Next]_vars

\* pgwire keeps polling a stream it has started on, and Trino answers every
\* GET and does not send empty pages for ever.
FairSpec ==
  /\ Spec
  /\ WF_vars(YieldRow) /\ WF_vars(Fetch) /\ WF_vars(StreamEnds)
  /\ WF_vars(PageArrives) /\ SF_vars(Progress)

-----------------------------------------------------------------------------
(* Properties.                                                              *)

Status ==
  CASE phase \in {"post", "columns"} -> "pending"
    [] phase \in {"ready", "rows", "fetch"} -> "open"
    [] phase \in {"executed", "complete"} -> "complete"
    [] OTHER -> "stopped"

Delivery == INSTANCE ResultDelivery WITH sent <- delivered, status <- Status

\* Every row of the result reaches pgwire exactly once and in order, over any
\* split into pages, and the stream ends normally only after the last one
\* (the append in the column loop, the page loop of the stream).
DeliversResult == Delivery!Spec

\* "Memory usage is bounded by one page at a time": no page is fetched while
\* rows of an earlier one wait.  Rows that come before the columns are the
\* exception: the loop that waits for columns keeps all of them.
OnePageBuffered == ~early => Len(buf) <= PageSize

\* The slot holds the id of a query whose pages are being fetched, from the
\* first reply on, and is empty once the query failed or its rows were read to
\* the end.
SlotFollowsQuery ==
  /\ phase \in {"columns", "ready", "rows", "fetch"} => slot
  /\ phase \in {"failed", "complete"} => ~slot

\* A stream that pgwire polls ends, however the pages are cut and however many
\* of them are empty.
PolledStreamEnds == phase \in Polled ~> phase \notin Polled
=============================================================================
