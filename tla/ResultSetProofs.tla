-------------------------- MODULE ResultSetProofs --------------------------
(***************************************************************************)
(* What is on the wire at any moment of a result, and what follows from it *)
(* for the client: the rows and error messages of TrinoStreamProofs, with  *)
(* the cells of ValueProofs.                                               *)
(***************************************************************************)
EXTENDS ResultSet, TrinoStreamProofs

-----------------------------------------------------------------------------
(* What is on the wire.                                                     *)

Encoded(r) == encode_row(scenario.rows[r])

RowError(r) == ErrorResponse("row", [sqlstate |-> Encoded(r)[Min(Failed(Encoded(r)))].sqlstate])

\* The fields, and one whole row for every row handed over.
RowsSent ==
  /\ wire[1] = RowDescription
  /\ \A r \in 1 .. Len(delivered) :
       r \in DOMAIN scenario.rows /\ Failed(Encoded(r)) = {} /\ wire[r + 1] = DataRow(Encoded(r))

\* Behind them at most one error, the one that ended the stream: Trino's, or
\* that of the next row.
ErrorSent ==
  /\ Len(wire) = Len(delivered) + 2 /\ phase = "failed"
  /\ \/ wire[Len(delivered) + 2] = TrinoError
     \/ /\ Len(delivered) + 1 \in DOMAIN scenario.rows
        /\ Failed(Encoded(Len(delivered) + 1)) # {}
        /\ wire[Len(delivered) + 2] = RowError(Len(delivered) + 1)

Elements(s) == {s[i] : i \in 1 .. Len(s)}

\* Nothing, an error instead of a stream, or a stream.
WireInv ==
  /\ scenario \in Scenarios /\ total = Len(scenario.rows)
  /\ wire \in Seq(Elements(wire))
  /\ \/ Len(wire) = 0 /\ delivered = << >> /\ phase \notin Polled
     \/ Len(wire) = 1 /\ wire[1] = TrinoError /\ delivered = << >> /\ phase = "failed"
     \/ /\ RowsSent /\ phase \notin {"post", "columns", "ready"}
        /\ Len(wire) = Len(delivered) + 1 \/ ErrorSent

\* The messages are functions of the scenario.
LEMMA SameScenario ==
  ASSUME scenario' = scenario
  PROVE  /\ RowDescription' = RowDescription /\ TrinoError' = TrinoError
         /\ \A r : Encoded(r)' = Encoded(r) /\ RowError(r)' = RowError(r)
  <1>1. Columns' = Columns
    BY DEF Columns
  <1>2. Schema' = Schema
    BY <1>1 DEF Schema
  <1>3. TrinoError' = TrinoError
    BY DEF TrinoError
  <1>4. \A r : Encoded(r)' = Encoded(r)
    BY <1>1, <1>2 DEF Encoded, encode_row
  <1>5. RowDescription' = RowDescription
    BY <1>2 DEF RowDescription
  <1>6. \A r : RowError(r)' = RowError(r)
    BY <1>4 DEF RowError
  <1> QED
    BY <1>3, <1>4, <1>5, <1>6, SMTT(30)

\* One message more.
LEMMA Sending ==
  ASSUME NEW w, w \in Seq(Elements(w)), NEW e
  PROVE  LET v == Append(w, e)
         IN  /\ v \in Seq(Elements(v)) /\ Len(v) = Len(w) + 1 /\ v[Len(w) + 1] = e
             /\ \A i \in 1 .. Len(w) : v[i] = w[i]
  <1> DEFINE S == Elements(w) \cup {e}
             v == Append(w, e)
  <1>1. w \in Seq(S)
    <2> DEFINE R == Elements(w)
    <2>1. w \in Seq(R) /\ R \in SUBSET S
      OBVIOUS
    <2> HIDE DEF R, S
    <2> QED
      BY <2>1, Narrower
  <1>2. e \in S
    OBVIOUS
  <1> HIDE DEF S
  <1>3. /\ v \in Seq(S) /\ Len(v) = Len(w) + 1 /\ v[Len(w) + 1] = e /\ Len(w) \in Nat
        /\ \A i \in 1 .. Len(w) : v[i] = w[i]
    BY <1>1, <1>2
  <1> HIDE DEF v
  <1>4. v \in Seq(Elements(v))
    <2>1. \A i \in 1 .. Len(v) : v[i] \in Elements(v)
      BY DEF Elements
    <2> HIDE DEF Elements
    <2> QED
      BY <1>3, <2>1
  <1> QED
    BY <1>3, <1>4 DEF v

\* A step of the result is a step of its stream.
LEMMA StepOfStream == [ResultSetNext]_resultSetVars => [Next]_vars
  BY DEF ResultSetNext, resultSetVars, StartRows, SendRow, RowFails, QueryFails, PageFails, Next

\* Before the POST nothing is on the wire.
LEMMA InitWireInv == ResultSetInit => WireInv
  <1> SUFFICES ASSUME ResultSetInit PROVE WireInv
    OBVIOUS
  <1>1. wire = << >> /\ Len(wire) = 0
    BY DEF ResultSetInit
  <1>2. wire \in Seq(Elements(wire))
    BY <1>1
  <1> QED
    BY <1>1, <1>2 DEF WireInv, ResultSetInit, Init, Polled

\* While pgwire polls, the wire holds a row for every row handed over.
LEMMA Streaming ==
  ASSUME WireInv, phase \in Polled
  PROVE  RowsSent /\ Len(wire) = Len(delivered) + 1
  BY DEF WireInv, Polled, ErrorSent

\* Before that it holds nothing.
LEMMA NotStreaming ==
  ASSUME WireInv, phase \in {"post", "columns", "ready"}
  PROVE  Len(wire) = 0 /\ delivered = << >>
  BY DEF WireInv

\* The next row is the one after those handed over, and there is one.
LEMMA NextRowIs ==
  ASSUME StreamInv, WireInv, phase = "rows", buf # << >>
  PROVE  /\ Head(buf) = Len(delivered) + 1 /\ Len(delivered) + 1 \in DOMAIN scenario.rows
         /\ Len(Append(delivered, Head(buf))) = Len(delivered) + 1
  <1>1. /\ buf \in Seq(Nat) /\ delivered \in Seq(Nat)
        /\ Follows(delivered, 0) /\ Follows(buf, Len(delivered))
        /\ Len(delivered) + Len(buf) = produced /\ produced \in 0 .. total
    BY DEF StreamInv, TypeOK, Unfinished, Polled
  <1>2. Head(buf) = Len(delivered) + 1 /\ Len(Append(delivered, Head(buf))) = Len(delivered) + 1
    BY <1>1, YieldFollows, SMTT(30)
  <1>3. Len(scenario.rows) \in Nat /\ DOMAIN scenario.rows = 1 .. Len(scenario.rows)
        /\ total = Len(scenario.rows)
    BY ScenarioAssumption DEF WireInv
  <1>4. Len(delivered) \in Nat /\ Len(buf) \in Nat /\ Len(buf) >= 1
    BY <1>1
  <1>5. Len(delivered) + 1 \in 1 .. Len(scenario.rows)
    BY <1>1, <1>3, <1>4, SMTT(30)
  <1> QED
    BY <1>2, <1>3, <1>5, SMTT(30)

\* Every step keeps it.
LEMMA StepWireInv ==
  ASSUME StreamInv, WireInv, [ResultSetNext]_resultSetVars
  PROVE  WireInv'
  <1> USE DEF Polled
  <1>0. /\ scenario' = scenario /\ total' = total /\ scenario' \in Scenarios
        /\ total' = Len(scenario'.rows)
    <2>1. scenario' = scenario
      BY SMTT(30) DEF ResultSetNext, resultSetVars, StartRows, SendRow, RowFails, QueryFails, PageFails,
             Send, SendNothing
    <2>2. total' = total
      <3>1. [Next]_vars
        BY StepOfStream
      <3> QED
        BY <3>1, Zenon DEF Next, vars, resultVars, PageArrives, FirstPage, ColumnsPage, NextPage, NoStream,
                    Poll, YieldRow, Fetch, StreamFails, StreamEnds, Drop
    <2> QED
      BY <2>1, <2>2 DEF WireInv
  <1>1. /\ RowDescription' = RowDescription /\ TrinoError' = TrinoError
        /\ \A r : Encoded(r)' = Encoded(r) /\ RowError(r)' = RowError(r)
    BY <1>0, SameScenario
  <1>2. wire \in Seq(Elements(wire)) /\ Len(wire) \in Nat /\ Len(delivered) \in Nat
    BY DEF WireInv, StreamInv, TypeOK
  <1>3. CASE StartRows
    <2>1. wire' = Append(wire, RowDescription) /\ delivered' = delivered /\ phase = "ready"
          /\ phase' = "rows"
      BY <1>3 DEF StartRows, Send, Poll
    <2>2. Len(wire) = 0 /\ delivered = << >>
      BY <2>1, NotStreaming
    <2>3. wire' \in Seq(Elements(wire')) /\ Len(wire') = 1 /\ wire'[1] = RowDescription
      <3>1. LET v == Append(wire, RowDescription)
            IN  v \in Seq(Elements(v)) /\ Len(v) = Len(wire) + 1 /\ v[Len(wire) + 1] = RowDescription
        BY <1>2, Sending
      <3> QED
        BY <2>1, <2>2, <3>1, SMTT(30)
    <2>4. Len(delivered) = 0
      BY <2>2
    <2>5. RowsSent'
      BY <1>1, <2>1, <2>3, <2>4, SMTT(30) DEF RowsSent
    <2> QED
      BY <1>0, <2>1, <2>3, <2>4, <2>5, SMTT(30) DEF WireInv
  <1>4. CASE SendRow
    <2> DEFINE d == Len(delivered)
    <2>1. /\ wire' = Append(wire, DataRow(NextRow)) /\ Failed(NextRow) = {}
          /\ phase = "rows" /\ phase' = "rows" /\ buf # << >>
          /\ delivered' = Append(delivered, Head(buf))
      BY <1>4 DEF SendRow, Send, YieldRow
    <2>2. RowsSent /\ Len(wire) = d + 1
      BY <2>1, Streaming
    <2>3. Head(buf) = d + 1 /\ Len(delivered') = d + 1 /\ d + 1 \in DOMAIN scenario.rows
      BY <2>1, NextRowIs
    <2>4. NextRow = Encoded(d + 1)
      BY <2>3 DEF NextRow, Encoded
    <2>5. /\ wire' \in Seq(Elements(wire')) /\ Len(wire') = d + 2 /\ wire'[d + 2] = DataRow(Encoded(d + 1))
          /\ \A i \in 1 .. d + 1 : wire'[i] = wire[i]
      <3>1. LET v == Append(wire, DataRow(NextRow))
            IN  /\ v \in Seq(Elements(v)) /\ Len(v) = Len(wire) + 1
                /\ v[Len(wire) + 1] = DataRow(NextRow)
                /\ \A i \in 1 .. Len(wire) : v[i] = wire[i]
        BY <1>2, Sending, SMTT(30)
      <3>2. (d + 1) + 1 = d + 2
        BY <1>2, SMTT(30)
      <3> QED
        BY <2>1, <2>2, <2>4, <3>1, <3>2, Zenon
    <2> HIDE DEF d
    <2>6. RowsSent'
      <3>0. d \in Nat
        BY <1>2 DEF d
      <3>1. wire'[1] = RowDescription
        BY <2>2, <2>5, <3>0, SMTT(30) DEF RowsSent
      <3>2. ASSUME NEW r \in 1 .. d
            PROVE  /\ r \in DOMAIN scenario.rows /\ Failed(Encoded(r)) = {}
                   /\ wire'[r + 1] = DataRow(Encoded(r))
        <4>1. r + 1 \in 1 .. d + 1
          BY <3>0
        <4>2. r \in DOMAIN scenario.rows /\ Failed(Encoded(r)) = {} /\ wire[r + 1] = DataRow(Encoded(r))
          BY <2>2 DEF RowsSent, d
        <4> QED
          BY <2>5, <4>1, <4>2, Zenon
      <3>3. ASSUME NEW r \in 1 .. d + 1
            PROVE  /\ r \in DOMAIN scenario.rows /\ Failed(Encoded(r)) = {}
                   /\ wire'[r + 1] = DataRow(Encoded(r))
        <4>1. CASE r = d + 1
          <5>1. r + 1 = d + 2
            BY <3>0, <4>1, SMTT(30)
          <5> QED
            BY <2>1, <2>3, <2>4, <2>5, <4>1, <5>1, SMTT(30)
        <4>2. CASE r # d + 1
          <5>1. r \in 1 .. d
            BY <3>0, <4>2, SMTT(30)
          <5> QED
            BY <3>2, <5>1, SMTT(30)
        <4> QED
          BY <4>1, <4>2, SMTT(30)
      <3> QED
        BY <1>0, <1>1, <2>3, <3>1, <3>3, SMTT(30) DEF RowsSent, DataRow, Failed
    <2> QED
      BY <1>0, <1>2, <2>1, <2>3, <2>5, <2>6, SMTT(30) DEF WireInv, d
  <1>5. CASE QueryFails
    <2>1. wire' = Append(wire, TrinoError) /\ delivered' = delivered /\ phase \in {"post", "columns"}
          /\ phase' = "failed"
      BY <1>5 DEF QueryFails, Send, NoStream
    <2>2. Len(wire) = 0 /\ delivered = << >>
      BY <2>1, NotStreaming
    <2>3. wire' \in Seq(Elements(wire')) /\ Len(wire') = 1 /\ wire'[1] = TrinoError
      <3>1. LET v == Append(wire, TrinoError)
            IN  v \in Seq(Elements(v)) /\ Len(v) = Len(wire) + 1 /\ v[Len(wire) + 1] = TrinoError
        BY <1>2, Sending
      <3> QED
        BY <2>1, <2>2, <3>1, SMTT(30)
    <2> QED
      BY <1>0, <1>1, <2>1, <2>2, <2>3, SMTT(30) DEF WireInv
  <1>6. CASE RowFails \/ PageFails
    <2> DEFINE d == Len(delivered)
               e == wire'[d + 2]
    <2>1. /\ phase \in Polled /\ phase' = "failed" /\ delivered' = delivered
      BY <1>6 DEF RowFails, PageFails, StreamFails
    <2>2. RowsSent /\ Len(wire) = d + 1
      BY <2>1, Streaming, SMTT(30)
    <2>3. \E x : /\ wire' = Append(wire, x)
                 /\ \/ x = TrinoError
                    \/ /\ d + 1 \in DOMAIN scenario.rows /\ Failed(Encoded(d + 1)) # {}
                       /\ x = RowError(d + 1)
      <3>1. CASE PageFails
        BY <3>1 DEF PageFails, Send
      <3>2. CASE RowFails
        <4>1. /\ phase = "rows" /\ buf # << >> /\ Failed(NextRow) # {}
              /\ wire' = Append(wire, ErrorResponse("row", [sqlstate |-> NextRow[Min(Failed(NextRow))].sqlstate]))
          BY <3>2 DEF RowFails, Send, StreamFails
        <4>2. Head(buf) = d + 1 /\ d + 1 \in DOMAIN scenario.rows
          BY <4>1, NextRowIs
        <4>3. NextRow = Encoded(d + 1)
          BY <4>2 DEF NextRow, Encoded
        <4> QED
          BY <4>1, <4>2, <4>3, SMTT(30) DEF RowError
      <3> QED
        BY <1>6, <3>1, <3>2, SMTT(30)
    <2>4. PICK x : /\ wire' = Append(wire, x)
                   /\ \/ x = TrinoError
                      \/ /\ d + 1 \in DOMAIN scenario.rows /\ Failed(Encoded(d + 1)) # {}
                         /\ x = RowError(d + 1)
      BY <2>3
    <2>5. /\ wire' \in Seq(Elements(wire')) /\ Len(wire') = d + 2 /\ wire'[d + 2] = x
          /\ \A i \in 1 .. d + 1 : wire'[i] = wire[i]
      <3>1. LET v == Append(wire, x)
            IN  /\ v \in Seq(Elements(v)) /\ Len(v) = Len(wire) + 1 /\ v[Len(wire) + 1] = x
                /\ \A i \in 1 .. Len(wire) : v[i] = wire[i]
        BY <1>2, Sending, SMTT(30)
      <3>2. (d + 1) + 1 = d + 2
        BY <1>2
      <3> QED
        BY <2>2, <2>4, <3>1, <3>2, Zenon
    <2>6. RowsSent'
      <3>1. wire'[1] = RowDescription
        BY <1>2, <2>2, <2>5, SMTT(30) DEF RowsSent
      <3>2. ASSUME NEW r \in 1 .. d
            PROVE  /\ r \in DOMAIN scenario.rows /\ Failed(Encoded(r)) = {}
                   /\ wire'[r + 1] = DataRow(Encoded(r))
        <4>1. r + 1 \in 1 .. d + 1
          BY <1>2, SMTT(30)
        <4>2. r \in DOMAIN scenario.rows /\ Failed(Encoded(r)) = {} /\ wire[r + 1] = DataRow(Encoded(r))
          BY <2>2 DEF RowsSent
        <4> QED
          BY <2>5, <4>1, <4>2, Zenon
      <3> QED
        BY <1>0, <1>1, <2>1, <3>1, <3>2, SMTT(30) DEF RowsSent, DataRow, Failed
    <2>7. ErrorSent'
      BY <1>0, <1>1, <2>1, <2>4, <2>5, SMTT(30) DEF ErrorSent, Failed
    <2> QED
      BY <1>0, <2>1, <2>5, <2>6, <2>7, SMTT(30) DEF WireInv
  <1>7. CASE (PageArrives \/ Fetch \/ StreamEnds \/ Drop) /\ SendNothing
    <2>1. /\ wire' = wire /\ delivered' = delivered /\ phase # "failed"
      BY <1>7, Zenon DEF SendNothing, PageArrives, FirstPage, ColumnsPage, NextPage, Fetch, StreamEnds, Drop, Unfinished
    <2>2. phase \in Polled => phase' \notin {"post", "columns", "ready"}
      BY <1>7, Zenon DEF PageArrives, FirstPage, ColumnsPage, NextPage, Fetch, StreamEnds, Drop
    <2>3. phase \notin Polled => phase \in {"post", "columns", "ready"} /\ phase' \notin Polled
      BY <1>7 DEF PageArrives, FirstPage, ColumnsPage, NextPage, Fetch, StreamEnds, Drop, Unfinished, AfterReply
    <2>4. CASE phase \in Polled
      <3>1. RowsSent /\ Len(wire) = Len(delivered) + 1
        BY <2>4, Streaming, SMTT(30)
      <3>2. RowsSent'
        BY <1>0, <1>1, <2>1, <3>1, SMTT(30) DEF RowsSent, DataRow, Failed
      <3> QED
        BY <1>0, <1>2, <2>1, <2>2, <2>4, <3>1, <3>2, SMTT(30) DEF WireInv
    <2>5. CASE phase \notin Polled
      <3>1. Len(wire) = 0 /\ delivered = << >>
        BY <2>3, <2>5, NotStreaming, SMTT(30)
      <3> QED
        BY <1>0, <1>2, <2>1, <2>3, <2>5, <3>1, SMTT(30) DEF WireInv
    <2> QED
      BY <2>4, <2>5, SMTT(30)
  <1>8. CASE UNCHANGED resultSetVars
    <2>1. wire' = wire /\ delivered' = delivered /\ phase' = phase
      BY <1>8 DEF resultSetVars, vars
    <2>2. RowsSent => RowsSent'
      BY <1>0, <1>1, <2>1, SMTT(30) DEF RowsSent, DataRow, Failed
    <2>3. ErrorSent => ErrorSent'
      BY <1>0, <1>1, <2>1, SMTT(30) DEF ErrorSent, Failed
    <2> QED
      BY <1>0, <1>1, <2>1, <2>2, <2>3, Zenon DEF WireInv
  <1> QED
    BY <1>3, <1>4, <1>5, <1>6, <1>7, <1>8, SMTT(30) DEF ResultSetNext

\* Both invariants hold in every state of a result.
LEMMA WireInvariant == ResultSetSafety => [](StreamInv /\ WireInv)
  <1>1. ResultSetInit => StreamInv
    BY InitStreamInv DEF ResultSetInit
  <1>2. StreamInv /\ [ResultSetNext]_resultSetVars => StreamInv'
    BY StepOfStream, StepStreamInv, SMTT(30)
  <1> QED
    BY <1>1, <1>2, InitWireInv, StepWireInv, PTL DEF ResultSetSafety

\* What a message on the wire can be.
LEMMA Messages ==
  ASSUME StreamInv, WireInv, NEW k \in DOMAIN wire
  PROVE  \/ k = 1 /\ wire[k] = RowDescription
         \/ wire[k].kind = "row"
         \/ wire[k] = TrinoError
         \/ /\ k - 1 \in DOMAIN scenario.rows /\ Failed(Encoded(k - 1)) # {}
            /\ wire[k] = RowError(k - 1)
  <1> DEFINE d == Len(delivered)
  <1>1. d \in Nat /\ DOMAIN wire = 1 .. Len(wire) /\ Len(wire) \in Nat
    BY DEF WireInv, StreamInv, TypeOK
  <1>2. ASSUME NEW x PROVE DataRow(x).kind = "row"
    BY DEF DataRow
  <1>3. ASSUME RowsSent, k \in 1 .. d + 1
        PROVE  (k = 1 /\ wire[k] = RowDescription) \/ wire[k].kind = "row"
    <2>1. CASE k = 1
      BY <1>3, <2>1, SMTT(30) DEF RowsSent
    <2>2. CASE k # 1
      <3>1. k - 1 \in 1 .. d /\ (k - 1) + 1 = k
        BY <1>1, <1>3, <2>2, SMTT(30)
      <3>2. wire[(k - 1) + 1] = DataRow(Encoded(k - 1))
        BY <1>3, <3>1, SMTT(30) DEF RowsSent
      <3> QED
        BY <1>2, <3>1, <3>2, SMTT(30)
    <2> QED
      BY <2>1, <2>2, SMTT(30)
  <1>4. CASE Len(wire) = 0
    BY <1>1, <1>4, SMTT(30)
  <1>5. CASE Len(wire) = 1 /\ wire[1] = TrinoError
    BY <1>1, <1>5, SMTT(30)
  <1>6. CASE RowsSent /\ Len(wire) = d + 1
    BY <1>1, <1>3, <1>6, SMTT(30)
  <1>7. CASE RowsSent /\ ErrorSent
    <2>1. CASE k = d + 2
      <3>1. k - 1 = d + 1
        BY <1>1, <2>1, SMTT(30)
      <3> QED
        BY <1>7, <2>1, <3>1, Zenon DEF ErrorSent
    <2>2. CASE k # d + 2
      <3>1. k \in 1 .. d + 1
        BY <1>1, <1>7, <2>2, SMTT(30) DEF ErrorSent
      <3> QED
        BY <1>3, <1>7, <3>1, SMTT(30)
    <2> QED
      BY <2>1, <2>2
  <1> QED
    BY <1>4, <1>5, <1>6, <1>7, SMTT(30) DEF WireInv

\* Who the message is from.
LEMMA Origins ==
  ASSUME StreamInv, WireInv, NEW k \in DOMAIN wire
  PROVE  /\ wire[k].kind = "fields" => k = 1 /\ wire[k] = RowDescription
         /\ wire[k].kind = "error" /\ wire[k].from = "trino" => wire[k] = TrinoError
         /\ wire[k].kind = "error" /\ wire[k].from = "row" =>
              k - 1 \in DOMAIN scenario.rows /\ Failed(Encoded(k - 1)) # {}
  <1>1. RowDescription.kind = "fields"
    BY DEF RowDescription
  <1>2. TrinoError.kind = "error" /\ TrinoError.from = "trino"
    BY DEF TrinoError, ErrorResponse
  <1>3. RowError(k - 1).kind = "error" /\ RowError(k - 1).from = "row"
    BY DEF RowError, ErrorResponse
  <1>4. "fields" # "error" /\ "row" # "error" /\ "row" # "trino" /\ "row" # "fields"
    OBVIOUS
  <1> QED
    BY <1>1, <1>2, <1>3, <1>4, Messages, Zenon

-----------------------------------------------------------------------------
(* Rows.                                                                    *)

\* The field of a column, as announced.
LEMMA FieldIs ==
  ASSUME scenario \in Scenarios, NEW i \in DOMAIN Columns
  PROVE  /\ Schema[i].datatype = trino_type_to_pg(Columns[i])
         /\ Schema[i].format \in {"text", "binary"}
         /\ Columns[i].arrays \in Nat
  <1> DEFINE F == scenario.formats
             f == CHOOSE g \in F : TRUE
  <1>1. /\ F = {} \/ \E g \in [DOMAIN Columns -> {"text", "binary"}] : F = {g}
        /\ Columns[i].arrays \in Nat
    BY ScenarioAssumption, SMTT(30) DEF Columns
  <1>2. Schema[i] = [datatype |-> trino_type_to_pg(Columns[i]),
                     format |-> IF F = {} THEN "text" ELSE f[i]]
    BY DEF Schema, build_pg_schema
  <1>3. CASE F = {}
    BY <1>1, <1>2, <1>3, SMTT(30)
  <1>4. CASE F # {}
    <2>1. PICK g \in [DOMAIN Columns -> {"text", "binary"}] : F = {g}
      BY <1>1, <1>4, Zenon
    <2>2. f = g
      BY <2>1, Zenon
    <2>3. f[i] \in {"text", "binary"}
      BY <2>1, <2>2, SMTT(30)
    <2> HIDE DEF f, F
    <2> QED
      BY <1>1, <1>2, <1>4, <2>3, SMTT(30)
  <1> QED
    BY <1>3, <1>4, SMTT(30)

\* The cells of a row that Trino sent, each of them carried over.
LEMMA RowCarried ==
  ASSUME scenario \in Scenarios, NEW r \in DOMAIN scenario.rows
  PROVE  /\ DOMAIN Encoded(r) = DOMAIN Columns
         /\ \A i \in DOMAIN Columns :
              /\ Encoded(r)[i] = encode_cell(scenario.rows[r][i], Schema[i], Columns[i])
              /\ Carried(Columns[i], scenario.rows[r][i], Schema[i])
  <1>1. /\ DOMAIN scenario.rows[r] = DOMAIN Columns
        /\ \A i \in DOMAIN Columns :
             scenario.rows[r][i] = Null \/ Sent(Columns[i], scenario.rows[r][i])
    BY ScenarioAssumption, SMTT(30) DEF Columns
  <1>2. /\ DOMAIN Encoded(r) = DOMAIN Columns
        /\ \A i \in DOMAIN Columns :
             Encoded(r)[i] = encode_cell(scenario.rows[r][i], Schema[i], Columns[i])
    BY <1>1 DEF Encoded, encode_row
  <1>3. ASSUME NEW i \in DOMAIN Columns PROVE Carried(Columns[i], scenario.rows[r][i], Schema[i])
    <2> DEFINE t == Columns[i]
               j == scenario.rows[r][i]
               field == Schema[i]
    <2>1. /\ t.arrays \in Nat /\ field.datatype = trino_type_to_pg(t)
          /\ field.format \in {"text", "binary"} /\ (j = Null \/ Sent(t, j))
      BY <1>1, FieldIs, SMTT(30)
    <2> HIDE DEF t, j, field
    <2>2. Carried(t, j, field)
      BY <2>1, CellCarried, Zenon
    <2> QED
      BY <2>2, SMTT(30) DEF t, j, field
  <1> QED
    BY <1>2, <1>3, SMTT(30)

\* For every type, value and format: what a client reads out of a row is what
\* Trino sent, or one of the named exceptions (encode_row and the conversions
\* below it).
THEOREM NeverMisreadHolds == ResultSetSafety => []NeverMisread
  <1>1. ASSUME StreamInv, WireInv PROVE NeverMisread
    <2> SUFFICES ASSUME NEW r \in 1 .. Len(delivered), NEW i \in DOMAIN Columns
                 PROVE  LET j == scenario.rows[r][i]
                            field == wire[1].fields[i]
                        IN  \/ j # Null /\ NotCarriedOver(Columns[i], j, field.format)
                            \/ Faithful(Columns[i], j, field, wire[r + 1].cells[i])
      BY DEF NeverMisread
    <2>1. Len(delivered) # 0
      BY <1>1, SMTT(30) DEF StreamInv, TypeOK
    <2>2. RowsSent
      <3>1. delivered # << >>
        BY <2>1
      <3> QED
        BY <1>1, <3>1, SMTT(30) DEF WireInv
    <2>3. r \in DOMAIN scenario.rows /\ Failed(Encoded(r)) = {} /\ wire[r + 1] = DataRow(Encoded(r))
      BY <2>2 DEF RowsSent
    <2>4. scenario \in Scenarios
      BY <1>1 DEF WireInv
    <2>5. /\ i \in DOMAIN Encoded(r)
          /\ Encoded(r)[i] = encode_cell(scenario.rows[r][i], Schema[i], Columns[i])
          /\ Carried(Columns[i], scenario.rows[r][i], Schema[i])
      BY <2>3, <2>4, RowCarried, Zenon
    <2>6. Encoded(r)[i].ok
      BY <2>3, <2>5, Zenon DEF Failed
    <2>7. wire[r + 1].cells[i] = Encoded(r)[i].cell
      BY <2>3, <2>5, SMTT(30) DEF DataRow
    <2>8. wire[1].fields[i] = Schema[i]
      BY <2>2, SMTT(30) DEF RowsSent, RowDescription
    <2> QED
      BY <2>5, <2>6, <2>7, <2>8, Zenon DEF Carried
  <1> QED
    BY <1>1, WireInvariant, PTL

\* A row is refused only for a cell that encode_cell says it does not send in
\* binary.
THEOREM FailsOnlyByPolicyHolds == ResultSetSafety => []FailsOnlyByPolicy
  <1>1. ASSUME StreamInv, WireInv PROVE FailsOnlyByPolicy
    <2> SUFFICES ASSUME NEW k \in DOMAIN wire, wire[k].kind = "error", wire[k].from = "row"
                 PROVE  \E i \in DOMAIN Columns :
                          /\ Schema[i].format = "binary"
                          /\ ~BinarySupported(Columns[i], Schema[i].datatype, scenario.rows[k - 1][i])
      BY DEF FailsOnlyByPolicy
    <2>1. k - 1 \in DOMAIN scenario.rows /\ Failed(Encoded(k - 1)) # {}
      BY <1>1, Origins, Zenon
    <2>2. PICK i \in DOMAIN Encoded(k - 1) : ~Encoded(k - 1)[i].ok
      BY <2>1, Zenon DEF Failed
    <2>3. scenario \in Scenarios
      BY <1>1 DEF WireInv
    <2>4. /\ i \in DOMAIN Columns
          /\ Encoded(k - 1)[i] = encode_cell(scenario.rows[k - 1][i], Schema[i], Columns[i])
          /\ Carried(Columns[i], scenario.rows[k - 1][i], Schema[i])
      BY <2>1, <2>2, <2>3, RowCarried, Zenon
    <2> QED
      BY <2>2, <2>4, Zenon DEF Carried
  <1> QED
    BY <1>1, WireInvariant, PTL

-----------------------------------------------------------------------------
(* Types.                                                                   *)

\* Where respond_type_loading has the base types and the arrays.
LEMMA ListedAre ==
  LET T == respond_type_loading
  IN  /\ DOMAIN T = 1 .. 47
      /\ \A k \in 1 .. 23 : T[k] = BASE_TYPES[k]
      /\ \A k \in 1 .. 21 : T[26 + k] = ARRAY_TYPES[k]
  BY SMTT(30) DEF respond_type_loading, BASE_TYPES, ARRAY_TYPES, PSEUDO_TYPES

\* Every type a scalar is mapped to is one of BASE_TYPES.
LEMMA ScalarListed ==
  ASSUME NEW q \in PgNames
  PROVE  \E k \in 1 .. 23 : BASE_TYPES[k][1] = Oids[q][1]
  BY SMTT(60) DEF PgNames, BASE_TYPES, Oids

\* Every array but that of timetz is one of ARRAY_TYPES, with its element type.
LEMMA ArrayListed ==
  ASSUME NEW q \in PgNames, q # "timetz"
  PROVE  \E k \in 1 .. 21 : ARRAY_TYPES[k][1] = Oids[q][2] /\ ARRAY_TYPES[k][3] = Oids[q][1]
  BY SMTT(60) DEF PgNames, ARRAY_TYPES, Oids

\* A type the gateway announces is listed, an array behind its element type.
LEMMA TypeListed ==
  ASSUME NEW p \in [name : PgNames, array : BOOLEAN], p # [name |-> "timetz", array |-> TRUE]
  PROVE  \E n \in DOMAIN respond_type_loading :
           /\ respond_type_loading[n][1] = oid(p)
           /\ p.array => \E e \in 1 .. n - 1 :
                           /\ respond_type_loading[e][1] = respond_type_loading[n][3]
                           /\ respond_type_loading[e][1] = oid(Scalar(p.name))
  <1> DEFINE T == respond_type_loading
             q == p.name
  <1>1. /\ DOMAIN T = 1 .. 47
        /\ \A k \in 1 .. 23 : T[k] = BASE_TYPES[k]
        /\ \A k \in 1 .. 21 : T[26 + k] = ARRAY_TYPES[k]
    BY ListedAre, SMTT(30)
  <1>2. q \in PgNames /\ p.array \in BOOLEAN
    BY SMTT(30)
  <1>3. PICK k \in 1 .. 23 : BASE_TYPES[k][1] = Oids[q][1]
    BY <1>2, ScalarListed, SMTT(30)
  <1>4. oid(Scalar(q)) = Oids[q][1]
    BY DEF oid, Scalar
  <1> HIDE DEF T
  <1>5. T[k][1] = Oids[q][1]
    BY <1>1, <1>3, Zenon
  <1>6. CASE ~p.array
    <2>1. oid(p) = Oids[q][1]
      BY <1>6, SMTT(30) DEF oid
    <2>2. k \in DOMAIN T
      BY <1>1
    <2> QED
      BY <1>5, <1>6, <2>1, <2>2, Zenon DEF T
  <1>7. CASE p.array
    <2>1. q # "timetz"
      <3>1. p = [name |-> q, array |-> TRUE]
        BY <1>2, <1>7, SMTT(30)
      <3> QED
        BY <3>1, SMTT(30)
    <2>2. PICK l \in 1 .. 21 : ARRAY_TYPES[l][1] = Oids[q][2] /\ ARRAY_TYPES[l][3] = Oids[q][1]
      BY <1>2, <2>1, ArrayListed, SMTT(30)
    <2>3. oid(p) = Oids[q][2]
      BY <1>7, SMTT(30) DEF oid
    <2> DEFINE n == 26 + l
    <2>4. n \in 1 .. 47 /\ k \in 1 .. n - 1
      BY SMTT(30)
    <2>5. T[n] = ARRAY_TYPES[l]
      BY <1>1
    <2> HIDE DEF n, q
    <2>6. n \in DOMAIN T /\ T[n][1] = oid(p) /\ T[k][1] = T[n][3] /\ T[k][1] = oid(Scalar(q))
      BY <1>1, <1>4, <1>5, <2>2, <2>3, <2>4, <2>5, Zenon
    <2> QED
      BY <2>4, <2>6, Zenon DEF T, q
  <1> QED
    BY <1>2, <1>6, <1>7, SMTT(30)

\* Every type that RowDescription announces was in the answer to the driver's
\* type loading query (trino_type_to_pg and respond_type_loading).
THEOREM TypesLoadableHolds == ResultSetSafety => []TypesLoadable
  <1>1. ASSUME StreamInv, WireInv PROVE TypesLoadable
    <2> SUFFICES ASSUME NEW k \in DOMAIN wire, wire[k].kind = "fields", NEW i \in DOMAIN Columns
                 PROVE  LET p == wire[k].fields[i].datatype
                            types == respond_type_loading
                        IN  \/ p = [name |-> "timetz", array |-> TRUE]
                            \/ \E n \in DOMAIN types :
                                 /\ types[n][1] = oid(p)
                                 /\ p.array => \E e \in 1 .. n - 1 :
                                                 types[e][1] = types[n][3] /\ types[e][1] = oid(Scalar(p.name))
      BY Zenon DEF TypesLoadable
    <2>1. scenario \in Scenarios /\ wire[k] = RowDescription
      BY <1>1, Origins, Zenon DEF WireInv
    <2> DEFINE p == wire[k].fields[i].datatype
    <2>2. p = trino_type_to_pg(Columns[i]) /\ Columns[i].arrays \in Nat
      BY <2>1, FieldIs, SMTT(30) DEF RowDescription
    <2>3. p \in [name : PgNames, array : BOOLEAN]
      <3> DEFINE t == Columns[i]
      <3>1. t.arrays \in Nat => trino_type_to_pg(t) \in [name : PgNames, array : BOOLEAN]
        BY TypeToPg, Zenon
      <3> QED
        BY <2>2, <3>1, Zenon
    <2> HIDE DEF p
    <2>4. \/ p = [name |-> "timetz", array |-> TRUE]
          \/ \E n \in DOMAIN respond_type_loading :
               /\ respond_type_loading[n][1] = oid(p)
               /\ p.array => \E e \in 1 .. n - 1 :
                               /\ respond_type_loading[e][1] = respond_type_loading[n][3]
                               /\ respond_type_loading[e][1] = oid(Scalar(p.name))
      BY <2>3, TypeListed, Zenon
    <2> QED
      BY <2>4, Zenon DEF p
  <1> QED
    BY <1>1, WireInvariant, PTL

\* No two of the tables hash to the same OID.
OidsDistinct ==
  \A t, u \in scenario.tables :
    table_oid(t.schema, t.name) = table_oid(u.schema, u.name) => t = u

\* As long as the OIDs of the tables differ, pg_class and pg_attribute describe
\* the result of a SELECT (respond_pg_class, respond_pg_attribute, table_oid).
THEOREM CatalogDescribesResultHolds == ResultSetSafety => [](OidsDistinct => CatalogDescribesResult)
  <1>1. ASSUME StreamInv, WireInv, OidsDistinct PROVE CatalogDescribesResult
    <2> DEFINE s == scenario.table
               id == table_oid(s.schema, s.name)
               C == respond_pg_class(scenario.tables)
               A == respond_pg_attribute(scenario.tables)
    <2> SUFFICES ASSUME NEW k \in DOMAIN wire, wire[k].kind = "fields"
                 PROVE  /\ {c.relname : c \in {c \in C : c.oid = id}} = {s.name}
                        /\ {a \in A : a.attrelid = id}
                             = {[attrelid |-> id, attnum |-> i,
                                 atttypid |-> oid(wire[k].fields[i].datatype)] : i \in DOMAIN Columns}
      BY DEF CatalogDescribesResult
    <2>1. scenario \in Scenarios /\ wire[k] = RowDescription
      BY <1>1, Origins, Zenon DEF WireInv
    <2>2. s \in scenario.tables
      BY <2>1, ScenarioAssumption, SMTT(30)
    <2>3. \A t \in scenario.tables : table_oid(t.schema, t.name) = id => t = s
      BY <1>1, <2>2, Zenon DEF OidsDistinct
    <2>4. \A i \in DOMAIN Columns : wire[k].fields[i].datatype = trino_type_to_pg(s.columns[i])
      BY <2>1, FieldIs, SMTT(30) DEF RowDescription, Columns
    <2>5. Columns = s.columns
      BY SMTT(30) DEF Columns
    <2>6. {c.relname : c \in {c \in C : c.oid = id}} = {s.name}
      <3> DEFINE Entry(t) == [oid |-> table_oid(t.schema, t.name), relname |-> t.name,
                              relnamespace |-> namespace_oid(t.schema), relkind |-> relkind(t)]
      <3>1. C = {Entry(t) : t \in scenario.tables}
        BY SMTT(30) DEF respond_pg_class
      <3>2. \A t \in scenario.tables : Entry(t).oid = table_oid(t.schema, t.name) /\ Entry(t).relname = t.name
        OBVIOUS
      <3> HIDE DEF C, id, Entry, s
      <3> QED
        BY <2>2, <2>3, <3>1, <3>2, SMTT(30) DEF id
    <2>7. {a \in A : a.attrelid = id}
            = {[attrelid |-> id, attnum |-> i,
                atttypid |-> oid(wire[k].fields[i].datatype)] : i \in DOMAIN Columns}
      <3> DEFINE Row(t, i) == [attrelid |-> table_oid(t.schema, t.name), attnum |-> i,
                               atttypid |-> oid(trino_type_to_pg(t.columns[i]))]
                 D == {[attrelid |-> id, attnum |-> i,
                        atttypid |-> oid(wire[k].fields[i].datatype)] : i \in DOMAIN Columns}
      <3>1. A = UNION {{Row(t, i) : i \in DOMAIN t.columns} : t \in scenario.tables}
        BY SMTT(30) DEF respond_pg_attribute
      <3>2. \A t \in scenario.tables : \A i \in DOMAIN t.columns :
              Row(t, i).attrelid = table_oid(t.schema, t.name)
        OBVIOUS
      <3>3. ASSUME NEW i \in DOMAIN Columns
            PROVE  Row(s, i) = [attrelid |-> id, attnum |-> i,
                                atttypid |-> oid(wire[k].fields[i].datatype)]
        BY <2>4, Zenon
      <3>4. D = {Row(s, i) : i \in DOMAIN s.columns}
        BY <2>5, <3>3, Zenon
      <3> HIDE DEF A, Row, D, s, id
      <3>5. ASSUME NEW a PROVE a \in A /\ a.attrelid = id <=> a \in D
        <4>1. ASSUME a \in A, a.attrelid = id PROVE a \in D
          <5>1. PICK t \in scenario.tables : \E i \in DOMAIN t.columns : a = Row(t, i)
            BY <3>1, <4>1, SMTT(30)
          <5>2. t = s
            BY <2>3, <3>2, <4>1, <5>1, Zenon
          <5> QED
            BY <3>4, <5>1, <5>2, SMTT(30)
        <4>2. ASSUME a \in D PROVE a \in A /\ a.attrelid = id
          <5>1. PICK i \in DOMAIN s.columns : a = Row(s, i)
            BY <3>4, <4>2, SMTT(30)
          <5>2. a.attrelid = id
            BY <2>2, <3>2, <5>1, Zenon DEF id
          <5>3. a \in A
            BY <2>2, <3>1, <5>1, SMTT(30)
          <5> QED
            BY <5>2, <5>3, SMTT(30)
        <4> QED
          BY <4>1, <4>2, SMTT(30)
      <3> QED
        BY <3>5, Zenon DEF D
    <2> QED
      BY <2>6, <2>7, SMTT(30)
  <1> QED
    BY <1>1, WireInvariant, PTL

-----------------------------------------------------------------------------
(* Errors.                                                                  *)

\* A message with no https:// behind an http://, as Regular says it.
LEMMA RegularOrdered ==
  ASSUME NEW T, NEW m \in Seq(T), ~Has(From(m, {"http"}), {"https"})
  PROVE  Ordered(m)
  <1> DEFINE f == First(m, {"http"})
             w == From(m, {"http"})
  <1>1. /\ f \in 1 .. Len(m) + 1
        /\ \A i \in 1 .. f - 1 : m[i] \notin {"http"}
    BY FirstIs, SMTT(30)
  <1>2. w = SubSeq(m, f, Len(m))
    BY DEF From
  <1> HIDE DEF f
  <1>0. Len(m) \in Nat
    OBVIOUS
  <1>3. /\ w \in Seq(T) /\ Len(w) = Len(m) - f + 1
        /\ \A i \in 1 .. Len(m) - f + 1 : w[i] = m[f + i - 1]
    <2>1. Len(m) \in f - 1 .. Len(m)
      BY <1>0, <1>1, SMTT(30)
    <2>2. LET v == SubSeq(m, f, Len(m))
          IN  /\ v \in Seq(T) /\ Len(v) = Len(m) - f + 1
              /\ \A i \in 1 .. Len(m) - f + 1 : v[i] = m[f + i - 1]
      BY <1>1, <2>1, Piece, SMTT(30)
    <2> HIDE DEF w
    <2> QED
      BY <1>2, <2>2, SMTT(30)
  <1> HIDE DEF w
  <1> SUFFICES ASSUME NEW i \in 1 .. Len(m), NEW k \in 1 .. Len(m), i < k, m[i] = "http",
                      m[k] = "https"
               PROVE  FALSE
    BY DEF Ordered
  <1>4. ~(i \in 1 .. f - 1)
    BY <1>1, SMTT(30)
  <1>5. f <= i
    BY <1>0, <1>1, <1>4, SMTT(30)
  <1>6. k - f + 1 \in 1 .. Len(w) /\ f + (k - f + 1) - 1 = k
    BY <1>0, <1>1, <1>3, <1>5, SMTT(30)
  <1>7. w[k - f + 1] = "https"
    BY <1>0, <1>1, <1>3, <1>6, Zenon
  <1>8. DOMAIN w = 1 .. Len(w)
    BY <1>3, SMTT(30)
  <1> QED
    BY <1>6, <1>7, <1>8, SMTT(30) DEF Has, w

\* What Trino says of a failed query reaches the client without stack frames,
\* class names and hosts, and under the cap (sanitise_for_client), for
\* messages of any length.
THEOREM ErrorCleanHolds == ResultSetSafety => []ErrorClean
  <1>1. ASSUME StreamInv, WireInv PROVE ErrorClean
    <2> DEFINE o == scenario.message
    <2> SUFFICES ASSUME NEW k \in DOMAIN wire, wire[k].kind = "error", wire[k].from = "trino"
                 PROVE  LET m == wire[k].error.message
                        IN  /\ Length(m) <= MaxClientErrorLen
                            /\ Regular(o) =>
                                 /\ ~Has(m, {"frame", "frame2"})
                                 /\ m # << >> => Head(m) # "class"
                                 /\ \A i \in 2 .. Len(m) :
                                      m[i] = "host" => m[i - 1] \notin {"http", "https"}
      BY DEF ErrorClean
    <2> DEFINE m == wire[k].error.message
    <2>1. scenario \in Scenarios /\ wire[k] = TrinoError
      BY <1>1, Origins, Zenon DEF WireInv
    <2>2. o \in Seq(Tokens)
      BY <2>1, ScenarioAssumption, SMTT(30)
    <2>3. m = sanitise_for_client(o)
      BY <2>1, SMTT(30) DEF TrinoError, ErrorResponse, trino_error_to_pg
    <2> HIDE DEF o, m
    <2>4. LET w == sanitise_for_client(o)
          IN  /\ w \in Seq(Tokens) /\ Length(w) <= MaxClientErrorLen
              /\ Ordered(o) => Safe(w)
              /\ ~(Has(o, {"frame"}) /\ Has(o, {"frame2"})) => w \in Seq(Tokens \ {"frame", "frame2"})
              /\ (o # << >> => o[1] # "space") => Opening(w)
      BY <2>2, Sanitised, SMTT(30)
    <2>5. /\ m \in Seq(Tokens) /\ Length(m) <= MaxClientErrorLen
          /\ Ordered(o) => Safe(m)
          /\ ~(Has(o, {"frame"}) /\ Has(o, {"frame2"})) => m \in Seq(Tokens \ {"frame", "frame2"})
          /\ (o # << >> => o[1] # "space") => Opening(m)
      BY <2>3, <2>4, Zenon
    <2>6. ASSUME Regular(o)
          PROVE  /\ ~Has(m, {"frame", "frame2"})
                 /\ m # << >> => Head(m) # "class"
                 /\ \A i \in 2 .. Len(m) : m[i] = "host" => m[i - 1] \notin {"http", "https"}
      <3>1. o # << >> => o[1] # "space"
        BY <2>2, <2>6, SMTT(30) DEF Regular
      <3>2. Ordered(o)
        BY <2>2, <2>6, RegularOrdered, Zenon DEF Regular
      <3>3. m \in Seq(Tokens \ {"frame", "frame2"}) /\ Safe(m) /\ Opening(m)
        BY <2>5, <2>6, <3>1, <3>2, Zenon DEF Regular
      <3>4. ~Has(m, {"frame", "frame2"})
        BY <3>3, SMTT(30) DEF Has
      <3>5. m # << >> => Head(m) # "class"
        BY <3>3, SMTT(30) DEF Opening
      <3>6. \A i \in 2 .. Len(m) : m[i] = "host" => m[i - 1] \notin {"http", "https"}
        BY <3>3, SMTT(30) DEF Safe, Schemes
      <3> QED
        BY <3>4, <3>5, <3>6, SMTT(30)
    <2> QED
      BY <2>5, <2>6, SMTT(30) DEF m
  <1> QED
    BY <1>1, WireInvariant, PTL

\* The first test that matches decides the SQLSTATE.
LEMMA Classified ==
  ASSUME NEW m
  PROVE  LET codes == {Sqlstates[n][2] : n \in {n \in DOMAIN Sqlstates : Has(m, Sqlstates[n][1])}}
                        \cup (IF is_syntax_position(m) THEN {"42601"} ELSE {})
         IN  IF codes = {} THEN sqlstate(m) = "42000" ELSE sqlstate(m) \in codes
  <1> DEFINE hits == {n \in DOMAIN Sqlstates : Has(m, Sqlstates[n][1])}
             codes == {Sqlstates[n][2] : n \in hits} \cup (IF is_syntax_position(m) THEN {"42601"} ELSE {})
  <1>1. CASE is_syntax_position(m)
    <2>1. sqlstate(m) = "42601"
      BY <1>1, SMTT(30) DEF sqlstate
    <2>2. "42601" \in codes
      BY <1>1
    <2> HIDE DEF codes
    <2>3. IF codes = {} THEN sqlstate(m) = "42000" ELSE sqlstate(m) \in codes
      BY <2>1, <2>2, SMTT(30)
    <2> QED
      BY <2>3, Zenon DEF codes
  <1>2. CASE ~is_syntax_position(m) /\ hits # {}
    <2>1. sqlstate(m) = Sqlstates[Min(hits)][2]
      BY <1>2, Zenon DEF sqlstate
    <2>2. hits \in SUBSET Nat
      BY DEF Sqlstates
    <2>3. Min(hits) \in hits
      <3> HIDE DEF hits
      <3> QED
        BY <1>2, <2>2, MinIs, SMTT(30)
    <2>4. sqlstate(m) \in codes
      <3> HIDE DEF hits
      <3> QED
        BY <2>1, <2>3, Zenon
    <2> HIDE DEF codes
    <2>5. IF codes = {} THEN sqlstate(m) = "42000" ELSE sqlstate(m) \in codes
      BY <2>4, SMTT(30)
    <2> QED
      BY <2>5, Zenon DEF codes
  <1>3. CASE ~is_syntax_position(m) /\ hits = {}
    <2>1. sqlstate(m) = "42000"
      BY <1>3, Zenon DEF sqlstate
    <2>2. codes = {}
      <3> HIDE DEF hits
      <3> QED
        BY <1>3, SMTT(30)
    <2> HIDE DEF codes
    <2>3. IF codes = {} THEN sqlstate(m) = "42000" ELSE sqlstate(m) \in codes
      BY <2>1, <2>2, SMTT(30)
    <2> QED
      BY <2>3, Zenon DEF codes
  <1> QED
    BY <1>1, <1>2, <1>3, SMTT(30)

\* The SQLSTATE of a Trino error is one the whole message stands for
\* (trino_error_to_pg).
THEOREM ErrorClassifiedHolds == ResultSetSafety => []ErrorClassified
  <1>1. ASSUME StreamInv, WireInv PROVE ErrorClassified
    <2>1. ASSUME NEW k \in DOMAIN wire, wire[k].kind = "error", wire[k].from = "trino"
          PROVE  wire[k].error.sqlstate = sqlstate(scenario.message)
      <3>1. wire[k] = TrinoError
        BY <1>1, <2>1, Origins, Zenon
      <3> QED
        BY <3>1 DEF TrinoError, ErrorResponse, trino_error_to_pg
    <2>2. LET m == scenario.message
              codes == {Sqlstates[n][2] : n \in {n \in DOMAIN Sqlstates : Has(m, Sqlstates[n][1])}}
                         \cup (IF is_syntax_position(m) THEN {"42601"} ELSE {})
          IN  IF codes = {} THEN sqlstate(m) = "42000" ELSE sqlstate(m) \in codes
      BY Classified
    <2> QED
      BY <2>1, <2>2, Zenon DEF ErrorClassified
  <1> QED
    BY <1>1, WireInvariant, PTL
=============================================================================
