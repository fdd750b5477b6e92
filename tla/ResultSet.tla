----------------------------- MODULE ResultSet -----------------------------
(***************************************************************************)
(* A result on its way to the client: the pages of TrinoStream, whose rows *)
(* now have values, the conversions of WireTypes that put them on the      *)
(* wire, the errors of ErrorText, and the types TrinoTypes announces.      *)
(*                                                                         *)
(* A behaviour is one SELECT from one table.  What Trino holds and what    *)
(* the client asks for is fixed at the start, see Scenarios.               *)
(***************************************************************************)
EXTENDS TrinoStream, ClientReads, ErrorText

CONSTANTS
  \* [tables: the tables information_schema lists, table: the one selected
  \*  from, rows: its rows, each a JSON value per column, formats: the result
  \*  formats of Bind or {} in the simple protocol, message: the error Trino
  \*  reports if it fails]
  Scenarios

\* A row has a value of its type for every column, Bind a format.
ASSUME ScenarioAssumption ==
  \A s \in Scenarios :
    LET cols == s.table.columns
    IN  /\ s.table \in s.tables
        /\ \A i \in DOMAIN cols : cols[i].arrays \in Nat
        /\ Len(s.rows) \in Nat /\ DOMAIN s.rows = 1 .. Len(s.rows)
        /\ \A r \in DOMAIN s.rows :
             /\ DOMAIN s.rows[r] = DOMAIN cols
             /\ \A i \in DOMAIN cols : s.rows[r][i] = Null \/ Sent(cols[i], s.rows[r][i])
        /\ s.formats = {} \/ \E f \in [DOMAIN cols -> {"text", "binary"}] : s.formats = {f}
        /\ s.message \in Seq(Tokens)

VARIABLES
  scenario,   \* member of Scenarios
  wire        \* messages pgwire has sent for this query

resultSetVars == <<vars, scenario, wire>>

ResultSetInit ==
  /\ Init
  /\ scenario \in Scenarios
  /\ total = Len(scenario.rows)
  /\ wire = << >>

Columns == scenario.table.columns

\* One field per column; without formats every column is text.
build_pg_schema(cols, formats) ==
  [i \in DOMAIN cols |->
     [datatype |-> trino_type_to_pg(cols[i]),
      format |-> IF formats = {} THEN "text" ELSE (CHOOSE f \in formats : TRUE)[i]]]

Schema == build_pg_schema(Columns, scenario.formats)

\* The cells of a row, failed ones included.
encode_row(row) == [i \in DOMAIN row |-> encode_cell(row[i], Schema[i], Columns[i])]

Failed(cells) == {i \in DOMAIN cells : ~cells[i].ok}

RowDescription == [kind |-> "fields", fields |-> Schema]
DataRow(cells) == [kind |-> "row", cells |-> [i \in DOMAIN cells |-> cells[i].cell]]
ErrorResponse(from, e) == [kind |-> "error", from |-> from, error |-> e]

-----------------------------------------------------------------------------
(* The steps of TrinoStream with what they put on the wire.                 *)

Send(message) == wire' = Append(wire, message) /\ UNCHANGED scenario
SendNothing == UNCHANGED <<scenario, wire>>

NextRow == encode_row(scenario.rows[Head(buf)])

StartRows == Poll /\ Send(RowDescription)

SendRow ==
  /\ YieldRow
  /\ Failed(NextRow) = {}
  /\ Send(DataRow(NextRow))

\* The first cell that cannot be encoded ends the row and the result.
RowFails ==
  /\ phase = "rows"
  /\ StreamFails
  /\ Failed(NextRow) # {}
  /\ Send(ErrorResponse("row", [sqlstate |-> NextRow[Min(Failed(NextRow))].sqlstate]))

TrinoError == ErrorResponse("trino", trino_error_to_pg(scenario.message))

QueryFails == NoStream /\ Send(TrinoError)
PageFails == phase = "fetch" /\ StreamFails /\ Send(TrinoError)

ResultSetNext ==
  \/ StartRows \/ SendRow \/ RowFails \/ QueryFails \/ PageFails
  \/ (PageArrives \/ Fetch \/ StreamEnds \/ Drop) /\ SendNothing

ResultSetSafety == ResultSetInit /\ [][ResultSetNext]_resultSetVars

ResultSetSpec ==
  /\ ResultSetSafety
  /\ WF_resultSetVars(SendRow) /\ WF_resultSetVars(RowFails)
  /\ WF_resultSetVars(Fetch /\ SendNothing) /\ WF_resultSetVars(StreamEnds /\ SendNothing)
  /\ WF_resultSetVars(PageArrives /\ SendNothing) /\ SF_resultSetVars(Progress /\ SendNothing)

-----------------------------------------------------------------------------
(* Properties.                                                              *)

\* "rather than emitting bytes the client would misread": whatever a client
\* makes of a cell, by the type and format RowDescription announced, is the
\* value Trino sent, to the microsecond, or it refuses the text itself.
NeverMisread ==
  \A r \in 1 .. Len(delivered), i \in DOMAIN Columns :
    LET j == scenario.rows[r][i]
        field == wire[1].fields[i]
    IN  \/ j # Null /\ NotCarriedOver(Columns[i], j, field.format)
        \/ Faithful(Columns[i], j, field, wire[r + 1].cells[i])

\* Failing closed stays the exception encode_cell says it is: a result fails on
\* a row only if one of its cells is of a type it does not encode in binary, or
\* of a value it cannot, and never for how Trino spelled an integer, a float or
\* a time (42, 42.0 and "42" are the same integer).
FailsOnlyByPolicy ==
  \A k \in DOMAIN wire :
    wire[k].kind = "error" /\ wire[k].from = "row" =>
      \E i \in DOMAIN Columns :
        /\ Schema[i].format = "binary"
        /\ ~BinarySupported(Columns[i], Schema[i].datatype, scenario.rows[k - 1][i])

\* A driver that loaded pg_type knows the type of every column it is then
\* sent, and of an array its element type, listed before it.  The array of
\* timetz is the one type the gateway announces and does not list.
TypesLoadable ==
  \A k \in DOMAIN wire : wire[k].kind = "fields" =>
    \A i \in DOMAIN Columns :
      LET p == wire[k].fields[i].datatype
          types == respond_type_loading
      IN  \/ p = [name |-> "timetz", array |-> TRUE]
          \/ \E n \in DOMAIN types :
               /\ types[n][1] = oid(p)
               /\ p.array => \E e \in 1 .. n - 1 :
                               types[e][1] = types[n][3] /\ types[e][1] = oid(Scalar(p.name))

\* "so they can resolve them in pg_attribute": the join of pg_class and
\* pg_attribute over the OID gives the columns of this table and no other,
\* with the types RowDescription announces for a SELECT from it.
CatalogDescribesResult ==
  \A k \in DOMAIN wire : wire[k].kind = "fields" =>
    LET id == table_oid(scenario.table.schema, scenario.table.name)
        joined == {a \in respond_pg_attribute(scenario.tables) : a.attrelid = id}
    IN  /\ {c.relname : c \in {c \in respond_pg_class(scenario.tables) : c.oid = id}}
             = {scenario.table.name}
        /\ joined = {[attrelid |-> id, attnum |-> i, atttypid |-> oid(wire[k].fields[i].datatype)]
                     : i \in DOMAIN Columns}

\* Messages the sanitiser is written for: no white space in front, stack
\* frames in one spelling, and no https:// after an http://, which would leave
\* the first host as it is.
Regular(m) ==
  /\ Head(m) # "space"
  /\ ~(Has(m, {"frame"}) /\ Has(m, {"frame2"}))
  /\ ~Has(From(m, {"http"}), {"https"})

\* "drop Trino-internal class FQNs, stack traces, hostnames in URLs, and is
\* capped at MAX_CLIENT_ERROR_LEN": none is left in what the client gets, also
\* where the cap cuts through the message.
ErrorClean ==
  \A k \in DOMAIN wire :
    wire[k].kind = "error" /\ wire[k].from = "trino" =>
      LET m == wire[k].error.message
      IN  /\ Length(m) <= MaxClientErrorLen
          /\ Regular(scenario.message) =>
               /\ ~Has(m, {"frame", "frame2"})
               /\ m # << >> => Head(m) # "class"
               /\ \A i \in 2 .. Len(m) : m[i] = "host" => m[i - 1] \notin {"http", "https"}

\* "SQLSTATE classification runs over the full original message": a keyword
\* decides the code also if it stands in a part the client never sees.
ErrorClassified ==
  \A k \in DOMAIN wire :
    wire[k].kind = "error" /\ wire[k].from = "trino" =>
      LET m == scenario.message
          codes == {Sqlstates[n][2] : n \in {n \in DOMAIN Sqlstates : Has(m, Sqlstates[n][1])}}
                     \cup (IF is_syntax_position(m) THEN {"42601"} ELSE {})
      IN  IF codes = {} THEN wire[k].error.sqlstate = "42000" ELSE wire[k].error.sqlstate \in codes
=============================================================================
