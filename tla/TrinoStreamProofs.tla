-------------------------- MODULE TrinoStreamProofs --------------------------
(***************************************************************************)
(* The streaming bridge delivers every result exactly once and in order,   *)
(* for results, pages and splits of any size.  At the end, what ErrorText  *)
(* leaves of the message of a query that failed, for messages of any       *)
(* length.                                                                 *)
(***************************************************************************)
EXTENDS TrinoStream, ErrorText, ValueProofs, SequenceTheorems

-----------------------------------------------------------------------------
(* Runs of consecutive numbers: what is buffered behind what was delivered. *)

\* s continues a sequence of d rows.
Follows(s, d) == \A i \in 1 .. Len(s) : s[i] = d + i

\* Rows of the next page continue those in the buffer.
LEMMA PageFollows ==
  ASSUME NEW s \in Seq(Nat), NEW d \in Nat, NEW n \in Nat, Follows(s, d)
  PROVE  LET t == s \o [i \in 1 .. n |-> d + Len(s) + i]
         IN  t \in Seq(Nat) /\ Len(t) = Len(s) + n /\ Follows(t, d)
  <1> DEFINE r == [i \in 1 .. n |-> d + Len(s) + i]
             t == s \o r
  <1>1. Len(s) \in Nat
    OBVIOUS
  <1>2. \A i \in 1 .. n : d + Len(s) + i \in Nat
    BY <1>1
  <1>3. r \in Seq(Nat) /\ Len(r) = n
    BY <1>2
  <1>4. t \in Seq(Nat) /\ Len(t) = Len(s) + n
    BY <1>3
  <1>5. ASSUME NEW i \in 1 .. Len(t) PROVE t[i] = d + i
    <2>1. CASE i <= Len(s)
      BY <1>1, <1>3, <1>4, <2>1 DEF Follows
    <2>2. CASE i > Len(s)
      <3>1. i - Len(s) \in 1 .. n /\ t[i] = r[i - Len(s)]
        BY <1>1, <1>3, <1>4, <2>2
      <3>2. r[i - Len(s)] = d + Len(s) + (i - Len(s))
        BY <3>1
      <3> QED
        BY <1>1, <1>4, <3>1, <3>2
    <2> QED
      BY <1>1, <1>4, <2>1, <2>2
  <1> QED
    BY <1>4, <1>5 DEF Follows

\* Handing over the first buffered row continues what was delivered.
LEMMA YieldFollows ==
  ASSUME NEW s \in Seq(Nat), s # << >>, NEW d \in Seq(Nat),
         Follows(d, 0), Follows(s, Len(d))
  PROVE  /\ Tail(s) \in Seq(Nat) /\ Append(d, Head(s)) \in Seq(Nat)
         /\ Len(Append(d, Head(s))) = Len(d) + 1
         /\ Len(Append(d, Head(s))) + Len(Tail(s)) = Len(d) + Len(s)
         /\ Head(s) = Len(d) + 1
         /\ Follows(Append(d, Head(s)), 0)
         /\ Follows(Tail(s), Len(Append(d, Head(s))))
  <1>1. Len(s) \in Nat /\ Len(s) >= 1 /\ Len(d) \in Nat
    OBVIOUS
  <1>2. /\ Head(s) = s[1] /\ Head(s) \in Nat
        /\ Tail(s) \in Seq(Nat) /\ Len(Tail(s)) = Len(s) - 1
        /\ \A i \in 1 .. Len(Tail(s)) : Tail(s)[i] = s[i + 1]
    OBVIOUS
  <1>3. Head(s) = Len(d) + 1
    BY <1>1, <1>2 DEF Follows
  <1>4. /\ Append(d, Head(s)) \in Seq(Nat) /\ Len(Append(d, Head(s))) = Len(d) + 1
        /\ \A i \in 1 .. Len(d) + 1 :
             Append(d, Head(s))[i] = IF i = Len(d) + 1 THEN Head(s) ELSE d[i]
    BY <1>2
  <1>5. Follows(Append(d, Head(s)), 0)
    BY <1>1, <1>3, <1>4 DEF Follows
  <1>6. Follows(Tail(s), Len(d) + 1)
    BY <1>1, <1>2 DEF Follows
  <1> QED
    BY <1>1, <1>2, <1>3, <1>4, <1>5, <1>6, SMTT(30)

-----------------------------------------------------------------------------
(* The invariant.                                                           *)

\* What pgwire has and what is buffered are consecutive rows, and together
\* they are everything Trino has produced, as long as the query goes on.
StreamInv ==
  /\ TypeOK
  /\ isUpdate => total = 0
  /\ Follows(delivered, 0)
  /\ Follows(buf, Len(delivered))
  /\ phase \in Unfinished => Len(delivered) + Len(buf) = produced
  /\ phase \in {"post", "columns"} => delivered = << >>
  /\ phase = "post" => produced = 0 /\ buf = << >>
  /\ phase = "fetch" => buf = << >>
  /\ phase \in {"columns", "ready", "rows"} /\ ~nextUri => produced = total

\* The invariant holds before the POST.
LEMMA InitStreamInv == Init => StreamInv
  <1> SUFFICES ASSUME Init PROVE StreamInv
    OBVIOUS
  <1>1. total \in 0 .. MaxRows /\ produced \in 0 .. total
    BY StreamAssumption DEF Init
  <1>2. /\ columns \in BOOLEAN /\ slot \in BOOLEAN /\ nextUri \in BOOLEAN
        /\ isUpdate \in BOOLEAN /\ early \in BOOLEAN
    BY Zenon DEF Init
  <1>3. buf \in Seq(Nat) /\ delivered \in Seq(Nat)
    BY DEF Init
  <1>4. phase \in Phases /\ ~nextUri
    BY DEF Init, Phases, Unfinished
  <1>5. TypeOK
    BY <1>1, <1>2, <1>3, <1>4 DEF TypeOK
  <1> QED
    BY <1>5 DEF Init, StreamInv, Follows, Unfinished, Polled

\* The steps that take a page, whichever await they end.
LEMMA PageStreamInv ==
  ASSUME StreamInv, PageArrives
  PROVE  StreamInv'
  <1>0. PICK cols \in BOOLEAN, more \in BOOLEAN, count \in 0 .. PageSize :
             \/ FirstPage(cols, count, more)
             \/ ColumnsPage(cols, count, more)
             \/ NextPage(cols, count, more)
    BY DEF PageArrives
  <1>1. /\ produced \in Nat /\ total \in Nat /\ count \in Nat
        /\ produced + count <= total
    BY <1>0, StreamAssumption
    DEF StreamInv, TypeOK, FirstPage, ColumnsPage, NextPage, TrinoPage
  <1>2. /\ buf \in Seq(Nat) /\ delivered \in Seq(Nat)
        /\ Follows(delivered, 0) /\ Follows(buf, Len(delivered))
    BY DEF StreamInv, TypeOK
  <1>3. /\ UNCHANGED <<total, isUpdate, early, delivered>>
        /\ produced' = produced + count
        /\ phase \in {"post", "columns", "fetch"}
    BY <1>0 DEF FirstPage, ColumnsPage, NextPage, resultVars
  <1>4. produced = Len(delivered) + Len(buf)
    BY <1>3 DEF StreamInv, Unfinished, Polled
  <1>5. buf' = buf \o RowsOf(count)
    <2>1. RowsOf(count) \in Seq(Nat)
      BY <1>1 DEF RowsOf
    <2>2. << >> \o RowsOf(count) = RowsOf(count)
      BY <2>1
    <2> QED
      BY <1>0, <2>2, Zenon DEF StreamInv, FirstPage, ColumnsPage, NextPage
  <1>6. Len(delivered) \in Nat /\ Len(buf) \in Nat
    BY <1>2
  <1>7. buf' \in Seq(Nat) /\ Len(buf') = Len(buf) + count /\ Follows(buf', Len(delivered))
    BY <1>1, <1>2, <1>4, <1>5, <1>6, PageFollows, SMTT(30) DEF RowsOf
  <1>8. Len(delivered) + Len(buf') = produced' /\ produced' \in 0 .. total
    BY <1>1, <1>3, <1>4, <1>6, <1>7, SMTT(30)
  <1>9. /\ phase' \in {"columns", "ready", "rows", "executed"}
        /\ phase' = "columns" => phase \in {"post", "columns"}
    BY <1>0 DEF FirstPage, ColumnsPage, NextPage, AfterReply
  <1>10. /\ columns' \in BOOLEAN /\ slot' \in BOOLEAN /\ nextUri' \in BOOLEAN
         /\ nextUri' => phase' # "executed"
    <2>1. columns \in BOOLEAN /\ slot \in BOOLEAN
      BY DEF StreamInv, TypeOK
    <2>2. CASE FirstPage(cols, count, more)
      BY <2>1, <2>2, Zenon DEF FirstPage, AfterReply
    <2>3. CASE ColumnsPage(cols, count, more)
      BY <2>1, <2>3, Zenon DEF ColumnsPage, AfterReply
    <2>4. CASE NextPage(cols, count, more)
      BY <2>1, <2>4, Zenon DEF NextPage
    <2> QED
      BY <1>0, <2>2, <2>3, <2>4
  <1>11. ~nextUri' => produced' = total
    BY <1>0, <1>3 DEF FirstPage, ColumnsPage, NextPage, TrinoPage
  <1>12. TypeOK'
    BY <1>2, <1>3, <1>7, <1>8, <1>9, <1>10, SMTT(30)
    DEF StreamInv, TypeOK, Phases, Unfinished, Polled
  <1> QED
    BY <1>2, <1>3, <1>7, <1>8, <1>9, <1>11, <1>12 DEF StreamInv

\* Every step of the stream keeps it.
LEMMA StepStreamInv == StreamInv /\ [Next]_vars => StreamInv'
  <1> SUFFICES ASSUME StreamInv, [Next]_vars PROVE StreamInv'
    OBVIOUS
  <1> USE DEF resultVars, Phases, Unfinished, Polled
  <1>1. CASE NoStream \/ StreamFails \/ Drop
    <2>1. /\ UNCHANGED <<total, isUpdate, early, produced, columns, delivered>>
          /\ buf' = << >> /\ phase' \in {"failed", "dropped"}
      BY <1>1, Zenon DEF NoStream, StreamFails, Drop
    <2>2. nextUri' = FALSE /\ slot' \in BOOLEAN
      BY <1>1, Zenon DEF NoStream, StreamFails, Drop, StreamInv, TypeOK
    <2>3. produced' \in 0 .. total' /\ total' \in 0 .. MaxRows /\ buf' \in Seq(Nat)
      BY <2>1 DEF StreamInv, TypeOK
    <2>4. TypeOK'
      BY <2>1, <2>2, <2>3, Zenon DEF StreamInv, TypeOK
    <2>5. Follows(buf', Len(delivered'))
      BY <2>1 DEF Follows
    <2> QED
      BY <2>1, <2>4, <2>5 DEF StreamInv
  <1>2. CASE Poll
    BY <1>2 DEF Poll, StreamInv, TypeOK
  <1>3. CASE YieldRow
    <2>1. /\ buf \in Seq(Nat) /\ buf # << >> /\ delivered \in Seq(Nat)
          /\ Follows(delivered, 0) /\ Follows(buf, Len(delivered))
      BY <1>3 DEF YieldRow, StreamInv, TypeOK
    <2>2. /\ buf' \in Seq(Nat) /\ delivered' \in Seq(Nat)
          /\ Len(delivered') + Len(buf') = Len(delivered) + Len(buf)
          /\ Follows(delivered', 0) /\ Follows(buf', Len(delivered'))
      BY <1>3, <2>1, YieldFollows DEF YieldRow
    <2>3. TypeOK'
      BY <1>3, <2>2 DEF YieldRow, StreamInv, TypeOK
    <2> QED
      BY <1>3, <2>2, <2>3, SMTT(30) DEF YieldRow, StreamInv
  <1>4. CASE Fetch
    BY <1>4, Zenon DEF Fetch, StreamInv, TypeOK
  <1>5. CASE StreamEnds
    BY <1>5, Zenon DEF StreamEnds, StreamInv, TypeOK
  <1>6. CASE UNCHANGED vars
    BY <1>6 DEF vars, StreamInv, TypeOK
  <1> QED
    BY <1>1, <1>2, <1>3, <1>4, <1>5, <1>6, PageStreamInv, SMTT(30) DEF Next

\* Every reachable state of the bridge is well typed.
THEOREM StreamTypeCorrect == Spec => []TypeOK
  <1>1. Spec => []StreamInv
    BY InitStreamInv, StepStreamInv, PTL DEF Spec
  <1>2. StreamInv => TypeOK
    BY DEF StreamInv
  <1> QED
    BY <1>1, <1>2, PTL

-----------------------------------------------------------------------------
(* Refinement.                                                              *)

\* Initial states are initial states of ResultDelivery.
LEMMA InitDelivery == Init => Delivery!Init
  <1> SUFFICES ASSUME Init PROVE Delivery!Init
    OBVIOUS
  <1>1. total \in Nat
    BY StreamAssumption DEF Init
  <1> QED
    BY <1>1 DEF Init, Delivery!Init, Status

\* Every step of the bridge is a step of ResultDelivery or changes nothing it
\* can see.
LEMMA StepDelivery ==
  ASSUME StreamInv, [Next]_vars
  PROVE  [Delivery!Next]_Delivery!vars
  <1> USE DEF resultVars, Unfinished, Polled, Delivery!vars
  <1>1. CASE NoStream \/ StreamFails \/ Drop
    <2>1. /\ UNCHANGED <<total, delivered>>
          /\ phase \in Unfinished /\ phase' \in {"failed", "dropped"}
      BY <1>1, Zenon DEF NoStream, StreamFails, Drop
    <2>2. Status \in {"pending", "open"} /\ Status' = "stopped"
      BY <2>1 DEF Status
    <2> QED
      BY <2>1, <2>2 DEF Delivery!Next, Delivery!Stop
  <1>2. CASE Poll \/ Fetch
    <2>1. UNCHANGED <<total, delivered>> /\ Status = "open" /\ Status' = "open"
      BY <1>2 DEF Poll, Fetch, Status
    <2> QED
      BY <2>1
  <1>3. CASE YieldRow
    <2>1. Status = "open" /\ Status' = "open" /\ total' = total
      BY <1>3 DEF YieldRow, Status
    <2>2. /\ buf \in Seq(Nat) /\ buf # << >> /\ delivered \in Seq(Nat)
          /\ Follows(delivered, 0) /\ Follows(buf, Len(delivered))
          /\ Len(delivered) + Len(buf) = produced
      BY <1>3 DEF YieldRow, StreamInv, TypeOK
    <2>3. delivered' = Append(delivered, Len(delivered) + 1)
      BY <1>3, <2>2, YieldFollows, SMTT(30) DEF YieldRow
    <2>4. produced \in 0 .. total /\ total \in Nat
      BY StreamAssumption DEF StreamInv, TypeOK
    <2>5. Len(delivered) < total
      <3>1. Len(delivered) \in Nat /\ Len(buf) \in Nat /\ Len(buf) >= 1
        BY <2>2
      <3> QED
        BY <2>2, <2>4, <3>1
    <2> QED
      BY <2>1, <2>3, <2>5 DEF Delivery!Next, Delivery!Deliver
  <1>4. CASE StreamEnds
    <2>1. Status = "open" /\ Status' = "complete" /\ UNCHANGED <<total, delivered>>
      BY <1>4 DEF StreamEnds, Status
    <2>2. Len(delivered) + Len(buf) = total /\ buf = << >> /\ delivered \in Seq(Nat)
      BY <1>4 DEF StreamEnds, StreamInv, TypeOK
    <2>3. Len(delivered) = total
      BY <2>2
    <2> QED
      BY <2>1, <2>3 DEF Delivery!Next, Delivery!Complete
  <1>5. CASE PageArrives
    <2>0. PICK cols \in BOOLEAN, more \in BOOLEAN, count \in 0 .. PageSize :
               \/ FirstPage(cols, count, more)
               \/ ColumnsPage(cols, count, more)
               \/ NextPage(cols, count, more)
      BY <1>5 DEF PageArrives
    <2>1. UNCHANGED <<total, delivered>>
      BY <2>0 DEF FirstPage, ColumnsPage, NextPage
    <2>2. CASE NextPage(cols, count, more)
      <3>1. Status = "open" /\ Status' = "open"
        BY <2>2 DEF NextPage, Status
      <3> QED
        BY <2>1, <3>1
    <2>3. CASE FirstPage(cols, count, more) \/ ColumnsPage(cols, count, more)
      <3>1. phase \in {"post", "columns"} /\ phase' \in {"columns", "ready", "executed"}
        BY <2>3 DEF FirstPage, ColumnsPage, AfterReply
      <3>2. Status = "pending"
        BY <3>1 DEF Status
      <3>3. CASE phase' = "columns"
        BY <2>1, <3>2, <3>3 DEF Status
      <3>4. CASE phase' = "ready"
        <4>1. Status' = "open"
          BY <3>4 DEF Status
        <4> QED
          BY <2>1, <3>2, <4>1 DEF Delivery!Next, Delivery!Open
      <3>5. CASE phase' = "executed"
        <4>1. Status' = "complete"
          BY <3>5 DEF Status
        <4>2. isUpdate
          BY <2>3, <3>5, Zenon DEF FirstPage, ColumnsPage, AfterReply, TrinoPage
        <4>3. total = 0 /\ delivered = << >>
          BY <3>1, <4>2 DEF StreamInv
        <4>4. Len(delivered) = total
          BY <4>3
        <4> QED
          BY <2>1, <3>2, <4>1, <4>4 DEF Delivery!Next, Delivery!Complete
      <3> QED
        BY <3>1, <3>3, <3>4, <3>5
    <2> QED
      BY <2>0, <2>2, <2>3
  <1>6. CASE UNCHANGED vars
    BY <1>6 DEF vars, Status
  <1> QED
    BY <1>1, <1>2, <1>3, <1>4, <1>5, <1>6, SMTT(30) DEF Next

\* The bridge implements ResultDelivery: every row exactly once, in order, and
\* "complete" only after the last one, for any result and any split into pages.
THEOREM DeliversResultHolds == Spec => DeliversResult
  <1>1. Spec => []StreamInv
    BY InitStreamInv, StepStreamInv, PTL DEF Spec
  <1> QED
    BY <1>1, InitDelivery, StepDelivery, PTL DEF Spec, DeliversResult, Delivery!Spec

-----------------------------------------------------------------------------
(* Memory.                                                                  *)

\* While columns are looked for, nothing is buffered yet.
PageInv == OnePageBuffered /\ (~early /\ phase = "columns" => buf = << >>)

\* Every step keeps it.
LEMMA StepPageInv ==
  ASSUME StreamInv, PageInv, [Next]_vars
  PROVE  PageInv'
  <1> USE DEF resultVars
  <1>0. early' = early
    BY Zenon DEF Next, PageArrives, FirstPage, ColumnsPage, NextPage, NoStream, Poll, YieldRow, Fetch,
           StreamFails, StreamEnds, Drop, vars
  <1> SUFFICES ASSUME ~early PROVE PageInv'
    BY <1>0 DEF PageInv, OnePageBuffered
  <1>1. /\ Len(<< >>) <= PageSize /\ PageSize \in Nat
        /\ buf \in Seq(Nat) /\ Len(buf) \in Nat /\ Len(buf) <= PageSize
    BY StreamAssumption DEF StreamInv, TypeOK, PageInv, OnePageBuffered
  <1>2. ASSUME buf' = << >> PROVE PageInv'
    BY <1>1, <1>2 DEF PageInv, OnePageBuffered
  <1>3. ASSUME phase' # "columns", buf' = buf PROVE PageInv'
    BY <1>1, <1>3 DEF PageInv, OnePageBuffered
  <1>4. CASE YieldRow
    <2>1. Len(buf') <= Len(buf) /\ Len(buf') \in Nat /\ phase' = "rows"
      BY <1>1, <1>4 DEF YieldRow
    <2> QED
      BY <1>1, <2>1 DEF PageInv, OnePageBuffered
  <1>5. CASE PageArrives
    <2>0. PICK cols \in BOOLEAN, more \in BOOLEAN, count \in 0 .. PageSize :
               \/ FirstPage(cols, count, more)
               \/ ColumnsPage(cols, count, more)
               \/ NextPage(cols, count, more)
      BY <1>5 DEF PageArrives
    <2>1. RowsOf(count) \in Seq(Nat) /\ Len(RowsOf(count)) = count /\ count \in Nat
      <3>1. produced \in Nat /\ count \in Nat
        BY StreamAssumption DEF StreamInv, TypeOK
      <3> QED
        BY <3>1 DEF RowsOf
    <2>2. buf' = RowsOf(count)
      <3>1. CASE ColumnsPage(cols, count, more)
        <4>1. buf = << >> /\ buf' = buf \o RowsOf(count)
          BY <3>1 DEF ColumnsPage, PageInv
        <4> QED
          BY <2>1, <4>1
      <3>2. CASE FirstPage(cols, count, more) \/ NextPage(cols, count, more)
        BY <3>2 DEF FirstPage, NextPage
      <3> QED
        BY <2>0, <3>1, <3>2
    <2>3. Len(buf') <= PageSize
      BY <1>1, <2>1, <2>2
    <2>4. phase' = "columns" => ~cols
      BY <2>0 DEF FirstPage, ColumnsPage, NextPage, AfterReply
    <2>5. count > 0 => cols
      BY <2>0 DEF FirstPage, ColumnsPage, NextPage, TrinoPage
    <2>6. phase' = "columns" => count = 0
      BY <2>1, <2>4, <2>5
    <2>7. phase' = "columns" => buf' = << >>
      BY <2>1, <2>2, <2>6
    <2> QED
      BY <2>3, <2>7 DEF PageInv, OnePageBuffered
  <1> QED
    BY <1>2, <1>3, <1>4, <1>5, Zenon
    DEF Next, NoStream, Poll, Fetch, StreamFails, StreamEnds, Drop, vars, PageInv, OnePageBuffered

\* The gateway never holds more than one page of a result without early rows,
\* whatever the size of the result (the page loop of execute_trino_query).
THEOREM OnePageBufferedHolds == Spec => []OnePageBuffered
  <1>1. Init => PageInv
    BY StreamAssumption DEF Init, PageInv, OnePageBuffered
  <1>2. Spec => []StreamInv
    BY InitStreamInv, StepStreamInv, PTL DEF Spec
  <1>3. StreamInv /\ PageInv /\ [Next]_vars => PageInv'
    BY StepPageInv
  <1>4. PageInv => OnePageBuffered
    BY DEF PageInv
  <1> QED
    BY <1>1, <1>2, <1>3, <1>4, PTL DEF Spec

-----------------------------------------------------------------------------
(* The slot.                                                                *)

\* active_query_id holds the query's id from the first reply until its stream
\* is gone, and no failure or end leaves it behind (record, the clears of
\* execute_trino_query, ClearOnDrop).
THEOREM SlotFollowsQueryHolds == Spec => []SlotFollowsQuery
  <1>1. Init => SlotFollowsQuery
    BY DEF Init, SlotFollowsQuery
  <1>2. SlotFollowsQuery /\ [Next]_vars => SlotFollowsQuery'
    <2>1. SUFFICES ASSUME SlotFollowsQuery, [Next]_vars PROVE SlotFollowsQuery'
      OBVIOUS
    <2>2. CASE PageArrives
      BY <2>1, <2>2, SMTT(30)
      DEF SlotFollowsQuery, PageArrives, FirstPage, ColumnsPage, NextPage, AfterReply
    <2>3. CASE Poll \/ YieldRow \/ Fetch \/ UNCHANGED vars
      BY <2>1, <2>3 DEF SlotFollowsQuery, Poll, YieldRow, Fetch, vars
    <2>4. CASE NoStream \/ StreamFails \/ StreamEnds \/ Drop
      BY <2>4, Zenon DEF SlotFollowsQuery, NoStream, StreamFails, StreamEnds, Drop
    <2> QED BY <2>1, <2>2, <2>3, <2>4 DEF Next
  <1> QED
    BY <1>1, <1>2, PTL DEF Spec

-----------------------------------------------------------------------------
(* Messages.                                                                *)

\* An induction over the argument of a function.
LEMMA Closed ==
  ASSUME NEW n \in Nat, NEW S, NEW f, f[0] \in S, \A k \in 1 .. n : f[k - 1] \in S => f[k] \in S
  PROVE  \A k \in 0 .. n : f[k] \in S
  <1> DEFINE T == {k \in Nat : k <= n => f[k] \in S}
  <1>1. T \in SUBSET Nat /\ 0 \in T
    OBVIOUS
  <1>2. \A k \in T : k + 1 \in T
    OBVIOUS
  <1>3. T = Nat
    <2> HIDE DEF T
    <2> QED
      BY <1>1, <1>2, NatInductive, Zenon
  <1> QED
    BY <1>3

\* Max of a bounded set of naturals is its greatest element.
LEMMA MaxIs ==
  ASSUME NEW n \in Nat, NEW S \in SUBSET (0 .. n), S # {}
  PROVE  Max(S) \in S /\ \A y \in S : Max(S) >= y
  <1> DEFINE T == {n - y : y \in S}
  <1>0. \A y \in S : y \in Int /\ n - y \in Nat
    OBVIOUS
  <1>1. T \in SUBSET Nat /\ T # {}
    BY <1>0, Zenon
  <1>2. PICK d \in T : \A y \in T : d <= y
    <2> HIDE DEF T
    <2> QED
      BY <1>1, LeastNat, Zenon
  <1>3. PICK x \in S : d = n - x
    OBVIOUS
  <1>4. ASSUME NEW y \in S PROVE x >= y
    <2>1. n - x <= n - y
      BY <1>2, <1>3
    <2> QED
      BY <1>0, <2>1
  <1> QED
    BY <1>4, Zenon DEF Max

\* Min of a set of naturals is its least element.
LEMMA MinIs ==
  ASSUME NEW S \in SUBSET Nat, S # {}
  PROVE  Min(S) \in S /\ \A y \in S : Min(S) <= y
  <1>1. \E x \in S : \A y \in S : x <= y
    BY LeastNat, Zenon
  <1> QED
    BY <1>1, Zenon DEF Min

\* The number of bytes up to a token.
LEMMA LengthIs ==
  ASSUME NEW m \in Seq(Tokens)
  PROVE  \E upto \in [0 .. Len(m) -> Nat] :
           /\ upto[0] = 0 /\ \A k \in 1 .. Len(m) : upto[k] = upto[k - 1] + Bytes[m[k]]
           /\ Length(m) = upto[Len(m)]
  <1> DEFINE n == Len(m)
             Upto(f) == [k \in 0 .. n |-> IF k = 0 THEN 0 ELSE f[k - 1] + Bytes[m[k]]]
             upto == CHOOSE f : f = Upto(f)
  <1>0. n \in Nat /\ \A k \in 1 .. n : Bytes[m[k]] \in Nat
    BY TextAssumption
  <1>1. Length(m) = upto[n]
    BY DEF Length
  <1> HIDE DEF n
  <1>2. \E f : f = Upto(f)
    <2> DEFINE step == [ks \in (1 .. n) \X Nat |-> ks[2] + Bytes[m[ks[1]]]]
    <2>1. step \in [(1 .. n) \X Nat -> Nat]
      BY <1>0
    <2>2. PICK f \in [0 .. n -> Nat] :
                 f[0] = 0 /\ \A k \in 1 .. n : f[k] = step[<<k, f[k - 1]>>]
      <3> HIDE DEF step
      <3>1. 0 \in Nat
        OBVIOUS
      <3>2. Repeated(n, Nat, 0, step) # {}
        BY <1>0, <2>1, <3>1, Recursion, Zenon
      <3> QED
        BY <3>2 DEF Repeated
    <2>3. ASSUME NEW k \in 1 .. n PROVE f[k] = f[k - 1] + Bytes[m[k]]
      <3>1. f[k - 1] \in Nat
        BY <1>0, <2>2
      <3>2. step[<<k, f[k - 1]>>] = f[k - 1] + Bytes[m[k]]
        BY <3>1
      <3> QED
        BY <2>2, <3>2, Zenon
    <2>4. f = Upto(f)
      BY <1>0, <2>2, <2>3, SMTT(30)
    <2> QED
      BY <2>4, Zenon
  <1>3. upto = Upto(upto)
    <2> HIDE DEF Upto
    <2> QED
      BY <1>2, Zenon
  <1> HIDE DEF upto
  <1>4. upto[0] = 0 /\ \A k \in 1 .. n : upto[k] = upto[k - 1] + Bytes[m[k]]
    BY <1>0, <1>3
  <1>5. \A k \in 0 .. n : upto[k] \in Nat
    <2>1. upto[0] \in Nat
      BY <1>4
    <2>2. ASSUME NEW k \in 1 .. n, upto[k - 1] \in Nat PROVE upto[k] \in Nat
      <3>1. upto[k] = upto[k - 1] + Bytes[m[k]] /\ Bytes[m[k]] \in Nat
        BY <1>0, <1>4, Zenon
      <3> QED
        BY <2>2, <3>1
    <2> QED
      BY <1>0, <2>1, <2>2, Closed, Zenon
  <1>6. upto \in [0 .. n -> Nat]
    BY <1>3, <1>5
  <1> QED
    BY <1>1, <1>4, <1>6, SMTT(30) DEF n

\* A message has a number of bytes.
LEMMA LengthNat ==
  ASSUME NEW m \in Seq(Tokens) PROVE Length(m) \in Nat
  BY LengthIs

\* The empty message has none.
LEMMA LengthEmpty ==
  Length(<< >>) = 0
  <1>1. << >> \in Seq(Tokens) /\ Len(<< >>) = 0
    OBVIOUS
  <1> QED
    BY <1>1, LengthIs, Zenon

\* One token more.
LEMMA LengthAppend ==
  ASSUME NEW m \in Seq(Tokens), NEW x \in Tokens
  PROVE  Length(Append(m, x)) = Length(m) + Bytes[x]
  <1> DEFINE w == Append(m, x)
             n == Len(m)
  <1>1. w \in Seq(Tokens) /\ Len(w) = n + 1 /\ n \in Nat /\ w[n + 1] = x
        /\ \A k \in 1 .. n : w[k] = m[k]
    OBVIOUS
  <1>2. PICK f \in [0 .. n -> Nat] :
               /\ f[0] = 0 /\ \A k \in 1 .. n : f[k] = f[k - 1] + Bytes[m[k]]
               /\ Length(m) = f[n]
    BY LengthIs
  <1> HIDE DEF w
  <1>3. PICK g \in [0 .. n + 1 -> Nat] :
               /\ g[0] = 0 /\ \A k \in 1 .. n + 1 : g[k] = g[k - 1] + Bytes[w[k]]
               /\ Length(w) = g[n + 1]
    BY <1>1, LengthIs, SMTT(30)
  <1> HIDE DEF n
  <1> DEFINE h == [k \in 0 .. n |-> f[k] - g[k]]
             Z == {0}
  <1>4. \A k \in 0 .. n : h[k] \in Z
    <2>1. h[0] \in Z
      BY <1>1, <1>2, <1>3, SMTT(30)
    <2>2. ASSUME NEW k \in 1 .. n, h[k - 1] \in Z PROVE h[k] \in Z
      <3>1. k - 1 \in 0 .. n /\ k \in 0 .. n /\ k \in 1 .. n + 1
        BY <1>1
      <3>0. k - 1 \in 0 .. n + 1 /\ f[k - 1] \in Nat /\ g[k - 1] \in Nat
        BY <1>1, <3>1
      <3>2. f[k - 1] = g[k - 1]
        BY <2>2, <3>0, <3>1, SMTT(30)
      <3>3. f[k] = g[k]
        BY <1>1, <1>2, <1>3, <3>1, <3>2, Zenon
      <3> QED
        BY <1>2, <3>1, <3>3, SMTT(30)
    <2> HIDE DEF h, Z
    <2> QED
      BY <1>1, <2>1, <2>2, Closed, Zenon
  <1>5. f[n] = g[n]
    BY <1>1, <1>2, <1>3, <1>4
  <1>6. g[n + 1] = g[n] + Bytes[x]
    BY <1>1, <1>3
  <1> QED
    BY <1>2, <1>3, <1>5, <1>6 DEF w

\* No host stands behind a scheme.
Safe(m) == \A i \in 2 .. Len(m) : m[i] = "host" => m[i - 1] \notin Schemes

\* No https:// behind an http://.
Ordered(m) == \A i, k \in 1 .. Len(m) : i < k /\ m[i] = "http" => m[k] # "https"

\* Neither a class name nor white space in front.
Opening(m) == m # << >> => m[1] \notin {"class", "space"}

\* The tokens of a part of a message.
LEMMA Piece ==
  ASSUME NEW T, NEW m \in Seq(T), NEW a \in 1 .. Len(m) + 1, NEW b \in a - 1 .. Len(m)
  PROVE  LET w == SubSeq(m, a, b)
         IN  /\ w \in Seq(T) /\ Len(w) = b - a + 1
             /\ \A i \in 1 .. b - a + 1 : w[i] = m[a + i - 1]
  <1>1. \A i \in a .. b : m[i] \in T
    OBVIOUS
  <1>2. a \in Int /\ b \in Int
    OBVIOUS
  <1> QED
    BY <1>1, <1>2, SubSeqProperties

\* A part of a message with masked hosts has them masked, and keeps their order.
LEMMA PieceKeeps ==
  ASSUME NEW T, NEW m \in Seq(T), NEW a \in 1 .. Len(m) + 1, NEW b \in a - 1 .. Len(m)
  PROVE  LET w == SubSeq(m, a, b)
         IN  /\ w \in Seq(T)
             /\ Safe(m) => Safe(w)
             /\ Ordered(m) => Ordered(w)
             /\ w # << >> => w[1] = m[a]
  <1> DEFINE w == SubSeq(m, a, b)
  <1>1. /\ w \in Seq(T) /\ Len(w) = b - a + 1 /\ a \in Int /\ b \in Int
        /\ \A i \in 1 .. b - a + 1 : w[i] = m[a + i - 1]
    BY Piece
  <1> HIDE DEF w
  <1>2. ASSUME Safe(m) PROVE Safe(w)
    <2> SUFFICES ASSUME NEW i \in 2 .. Len(w), w[i] = "host" PROVE w[i - 1] \notin Schemes
      BY DEF Safe
    <2>1. w[i] = m[a + i - 1] /\ w[i - 1] = m[a + i - 1 - 1] /\ a + i - 1 \in 2 .. Len(m)
      BY <1>1
    <2> QED
      BY <1>2, <2>1 DEF Safe
  <1>3. ASSUME Ordered(m) PROVE Ordered(w)
    <2> SUFFICES ASSUME NEW i \in 1 .. Len(w), NEW k \in 1 .. Len(w), i < k, w[i] = "http"
                 PROVE  w[k] # "https"
      BY DEF Ordered
    <2>1. /\ w[i] = m[a + i - 1] /\ w[k] = m[a + k - 1]
          /\ a + i - 1 \in 1 .. Len(m) /\ a + k - 1 \in 1 .. Len(m) /\ a + i - 1 < a + k - 1
      BY <1>1
    <2> QED
      BY <1>3, <2>1, SMTT(30) DEF Ordered
  <1>4. ASSUME w # << >> PROVE w[1] = m[a]
    <2>1. Len(w) # 0
      BY <1>1, <1>4, SMTT(30)
    <2> QED
      BY <1>1, <2>1
  <1> QED
    BY <1>1, <1>2, <1>3, <1>4, SMTT(30) DEF w

\* Where a set of tokens first occurs.
LEMMA FirstIs ==
  ASSUME NEW T, NEW m \in Seq(T), NEW tokens
  PROVE  /\ First(m, tokens) \in 1 .. Len(m) + 1
         /\ \A i \in 1 .. First(m, tokens) - 1 : m[i] \notin tokens
         /\ First(m, tokens) <= Len(m) => m[First(m, tokens)] \in tokens
         /\ Has(m, tokens) => First(m, tokens) <= Len(m)
  <1> DEFINE S == {i \in DOMAIN m : m[i] \in tokens} \cup {Len(m) + 1}
             f == Min(S)
  <1>1. Len(m) \in Nat /\ DOMAIN m = 1 .. Len(m)
    OBVIOUS
  <1>2. S \in SUBSET Nat /\ S # {} /\ Len(m) + 1 \in S
    BY <1>1
  <1>3. f \in S /\ \A y \in S : f <= y
    <2> HIDE DEF S
    <2> QED
      BY <1>2, MinIs
  <1>4. First(m, tokens) = f
    BY DEF First
  <1> HIDE DEF f
  <1>5. f \in 1 .. Len(m) + 1 /\ (f <= Len(m) => m[f] \in tokens)
    BY <1>1, <1>3
  <1>6. ASSUME NEW i \in 1 .. f - 1 PROVE m[i] \notin tokens
    <2>1. i \in DOMAIN m /\ ~(f <= i)
      BY <1>1, <1>5
    <2> QED
      BY <1>3, <2>1
  <1>7. ASSUME Has(m, tokens) PROVE f <= Len(m)
    <2>1. PICK i \in DOMAIN m : m[i] \in tokens
      BY <1>7 DEF Has
    <2>2. f <= i
      BY <1>3, <2>1
    <2> QED
      BY <1>1, <1>5, <2>1, <2>2
  <1> QED
    BY <1>4, <1>5, <1>6, <1>7, SMTT(30)

\* What stands before a token.
LEMMA BeforeIs ==
  ASSUME NEW T, NEW m \in Seq(T), NEW tokens
  PROVE  LET w == Before(m, tokens)
         IN  /\ w \in Seq(T \ tokens)
             /\ Safe(m) => Safe(w)
             /\ Ordered(m) => Ordered(w)
             /\ w # << >> => w[1] = m[1]
  <1> DEFINE f == First(m, tokens)
             w == Before(m, tokens)
  <1>1. f \in 1 .. Len(m) + 1 /\ \A i \in 1 .. f - 1 : m[i] \notin tokens
    BY FirstIs
  <1>2. w = SubSeq(m, 1, f - 1)
    BY DEF Before
  <1> HIDE DEF f, w
  <1>3. Len(m) \in Nat /\ 1 \in 1 .. Len(m) + 1 /\ f - 1 \in 1 - 1 .. Len(m) /\ f - 1 \in Int
    BY <1>1
  <1>4. \A i \in 1 .. f - 1 : m[i] \in T \ tokens
    BY <1>1, <1>3
  <1>5. w \in Seq(T \ tokens)
    BY <1>2, <1>3, <1>4, SubSeqProperties
  <1> QED
    BY <1>2, <1>3, <1>5, PieceKeeps, SMTT(30) DEF w

\* What stands from a token on.
LEMMA FromIs ==
  ASSUME NEW T, NEW m \in Seq(T), NEW tokens
  PROVE  LET w == From(m, tokens)
         IN  /\ w \in Seq(T)
             /\ Safe(m) => Safe(w)
             /\ Ordered(m) => Ordered(w)
             /\ Has(m, tokens) => w # << >> /\ w[1] \in tokens
  <1> DEFINE f == First(m, tokens)
             w == From(m, tokens)
  <1>1. /\ f \in 1 .. Len(m) + 1 /\ (f <= Len(m) => m[f] \in tokens)
        /\ Has(m, tokens) => f <= Len(m)
    BY FirstIs
  <1>2. w = SubSeq(m, f, Len(m))
    BY DEF From
  <1> HIDE DEF f, w
  <1>3. Len(m) \in f - 1 .. Len(m)
    BY <1>1
  <1>4. ASSUME Has(m, tokens) PROVE w # << >> /\ w[1] \in tokens
    <2>1. w \in Seq(T) /\ Len(w) = Len(m) - f + 1
      BY <1>1, <1>2, <1>3, Piece, SMTT(30)
    <2>2. w # << >>
      BY <1>1, <1>4, <2>1, SMTT(30)
    <2>3. w[1] = m[f]
      BY <1>1, <1>2, <1>3, <2>2, PieceKeeps, SMTT(30)
    <2> QED
      BY <1>1, <1>4, <2>2, <2>3
  <1> QED
    BY <1>1, <1>2, <1>3, <1>4, PieceKeeps, SMTT(30) DEF w

\* The cap holds, and what is under it is a piece of the message.
LEMMA TruncateIs ==
  ASSUME NEW T \in SUBSET Tokens, Ellipsis \in T, NEW m \in Seq(T)
  PROVE  LET w == truncate_with_ellipsis(m)
         IN  /\ w \in Seq(T) /\ Length(w) <= MaxClientErrorLen
             /\ Safe(m) => Safe(w)
             /\ Opening(m) => Opening(w)
  <1> DEFINE w == truncate_with_ellipsis(m)
             room == MaxClientErrorLen - Bytes[Ellipsis]
             cuts == {n \in 0 .. Len(m) : Length(SubSeq(m, 1, n)) <= room}
             c == Max(cuts)
             u == SubSeq(m, 1, c)
  <1>1. CASE Length(m) <= MaxClientErrorLen
    BY <1>1 DEF truncate_with_ellipsis
  <1>2. CASE ~(Length(m) <= MaxClientErrorLen)
    <2>1. w = Append(u, Ellipsis)
      BY <1>2, Zenon DEF truncate_with_ellipsis
    <2>2. Len(m) \in Nat /\ Bytes[Ellipsis] \in Nat /\ room \in Nat /\ room + Bytes[Ellipsis] = MaxClientErrorLen
      BY TextAssumption
    <2>3. cuts \in SUBSET (0 .. Len(m)) /\ 0 \in cuts
      <3>1. SubSeq(m, 1, 0) = << >>
        BY SubSeqEmpty
      <3>2. Length(SubSeq(m, 1, 0)) <= room
        <4>1. Length(SubSeq(m, 1, 0)) = 0
          BY <3>1, LengthEmpty, Zenon
        <4> HIDE DEF room
        <4> QED
          BY <2>2, <4>1
      <3>3. 0 \in 0 .. Len(m)
        BY <2>2
      <3> QED
        BY <3>2, <3>3
    <2>4. c \in cuts
      <3> HIDE DEF cuts
      <3> QED
        BY <2>2, <2>3, MaxIs, Zenon
    <2>5. c \in 0 .. Len(m) /\ Length(u) <= room
      BY <2>4
    <2> HIDE DEF c, room
    <2>6. 1 \in 1 .. Len(m) + 1 /\ c \in 1 - 1 .. Len(m)
      BY <2>2, <2>5
    <2>7. u \in Seq(T) /\ (Safe(m) => Safe(u)) /\ (u # << >> => u[1] = m[1])
      BY <2>6, PieceKeeps, SMTT(30)
    <2>8. u # << >> => m # << >>
      <3>1. u # << >> => c # 0
        BY SubSeqEmpty
      <3> QED
        BY <2>2, <2>5, <3>1, SMTT(30)
    <2> HIDE DEF u, w
    <2>9. w \in Seq(T) /\ Len(w) = Len(u) + 1 /\ w[Len(u) + 1] = Ellipsis /\ Len(u) \in Nat
          /\ \A i \in 1 .. Len(u) : w[i] = u[i]
      BY <2>1, <2>7, SMTT(30)
    <2>10. Length(w) <= MaxClientErrorLen
      <3>1. u \in Seq(Tokens) /\ Ellipsis \in Tokens
        BY <2>7
      <3>2. Length(w) = Length(u) + Bytes[Ellipsis] /\ Length(u) \in Nat
        BY <2>1, <3>1, LengthAppend, LengthNat
      <3> QED
        BY <2>2, <2>5, <3>2, SMTT(30)
    <2>11. ASSUME Safe(m) PROVE Safe(w)
      <3> SUFFICES ASSUME NEW i \in 2 .. Len(w), w[i] = "host" PROVE w[i - 1] \notin Schemes
        BY DEF Safe
      <3>1. i # Len(u) + 1
        BY <2>9 DEF Ellipsis
      <3>2. i \in 2 .. Len(u) /\ w[i] = u[i] /\ w[i - 1] = u[i - 1]
        BY <2>9, <3>1
      <3> QED
        BY <2>7, <2>11, <3>2, SMTT(30) DEF Safe
    <2>12. ASSUME Opening(m) PROVE Opening(w)
      <3>1. CASE u = << >>
        <4>1. w[1] = Ellipsis
          BY <2>9, <3>1
        <4> QED
          BY <4>1 DEF Opening, Ellipsis
      <3>2. CASE u # << >>
        <4>1. w[1] = m[1] /\ m # << >>
          BY <2>7, <2>8, <2>9, <3>2, SMTT(30)
        <4> QED
          BY <2>12, <4>1 DEF Opening
      <3> QED
        BY <3>1, <3>2
    <2> QED
      BY <2>9, <2>10, <2>11, <2>12, SMTT(30) DEF w
  <1> QED
    BY <1>1, <1>2

\* What Without leaves.
LEMMA WithoutIs ==
  ASSUME NEW T, NEW m \in Seq(T), NEW tokens
  PROVE  LET w == Without(m, tokens)
         IN  /\ w \in Seq(T)
             /\ Safe(m) => Safe(w)
             /\ Ordered(m) => Ordered(w)
             /\ w # << >> => w[1] \notin tokens
             /\ m # << >> /\ m[1] \notin tokens => w = m
  <1> DEFINE S == {i \in DOMAIN m : m[i] \notin tokens} \cup {Len(m) + 1}
             f == Min(S)
             w == Without(m, tokens)
  <1>1. Len(m) \in Nat /\ DOMAIN m = 1 .. Len(m)
    OBVIOUS
  <1>2. S \in SUBSET Nat /\ S # {}
    BY <1>1
  <1>3. f \in S /\ \A y \in S : f <= y
    <2> HIDE DEF S
    <2> QED
      BY <1>2, MinIs
  <1>4. w = SubSeq(m, f, Len(m))
    BY DEF Without
  <1> HIDE DEF f, w
  <1>5. f \in 1 .. Len(m) + 1 /\ (f <= Len(m) => m[f] \notin tokens) /\ Len(m) \in f - 1 .. Len(m)
    BY <1>1, <1>3, SMTT(30)
  <1>6. ASSUME w # << >> PROVE w[1] \notin tokens
    <2>1. f <= Len(m)
      BY <1>1, <1>4, <1>5, <1>6, SubSeqEmpty, SMTT(30)
    <2>2. w[1] = m[f]
      BY <1>4, <1>5, <1>6, PieceKeeps
    <2> QED
      BY <1>5, <2>1, <2>2, SMTT(30)
  <1>7. ASSUME m # << >>, m[1] \notin tokens PROVE w = m
    <2>1. 1 \in S
      BY <1>1, <1>7, SMTT(30)
    <2>2. f = 1
      BY <1>3, <1>5, <2>1, SMTT(30)
    <2> QED
      BY <1>4, <2>2, SubSeqFull
  <1> QED
    BY <1>4, <1>5, <1>6, <1>7, PieceKeeps, SMTT(30) DEF w

\* Trimming unmasks no host and brings no exception name to the front.
LEMMA TrimIs ==
  ASSUME NEW T, NEW m \in Seq(T)
  PROVE  LET w == Trim(m)
         IN  /\ w \in Seq(T)
             /\ Safe(m) => Safe(w)
             /\ Opening(m) => Opening(w)
  <1> DEFINE u == Without(m, {"space"})
             S == {i \in DOMAIN u : u[i] # "space"} \cup {0}
             c == Max(S)
             w == Trim(m)
  <1>1. w = SubSeq(u, 1, c)
    BY DEF Trim, TrimEnd
  <1>2. /\ u \in Seq(T) /\ (Safe(m) => Safe(u))
        /\ m # << >> /\ m[1] \notin {"space"} => u = m
    BY WithoutIs
  <1>3. m = << >> => u = << >>
    <2>1. ASSUME m = << >> PROVE u = << >>
      <3>1. Len(m) = 0 /\ DOMAIN m = {}
        BY <2>1
      <3>2. {i \in DOMAIN m : m[i] \notin {"space"}} \cup {Len(m) + 1} = {1}
        BY <3>1
      <3>3. Min({1}) = 1
        BY MinIs
      <3> QED
        BY <3>1, <3>2, <3>3, SubSeqEmpty, SMTT(30) DEF Without
    <2> QED
      BY <2>1
  <1> HIDE DEF u
  <1>4. Len(u) \in Nat /\ S \in SUBSET (0 .. Len(u)) /\ S # {}
    BY <1>2
  <1>5. c \in S
    <2> HIDE DEF S
    <2> QED
      BY <1>4, MaxIs, Zenon
  <1> HIDE DEF w
  <1>6. 1 \in 1 .. Len(u) + 1 /\ c \in 1 - 1 .. Len(u)
    BY <1>4, <1>5
  <1> HIDE DEF c
  <1>7. w \in Seq(T) /\ (Safe(u) => Safe(w)) /\ (w # << >> => w[1] = u[1])
    BY <1>1, <1>2, <1>6, PieceKeeps
  <1>8. w # << >> => u # << >>
    BY <1>1, <1>4, <1>6, SubSeqEmpty, SMTT(30)
  <1>9. ASSUME Opening(m) PROVE Opening(w)
    BY <1>2, <1>3, <1>7, <1>8, <1>9 DEF Opening
  <1> QED
    BY <1>2, <1>7, <1>9, SMTT(30) DEF w

\* A sequence over a set is one over a larger set.
LEMMA Narrower ==
  ASSUME NEW T, NEW R \in SUBSET T, NEW m \in Seq(R) PROVE m \in Seq(T)
  OBVIOUS

\* CutTrace leaves no frame if they are all in one spelling.
LEMMA CutTraceIs ==
  ASSUME NEW T, NEW m \in Seq(T)
  PROVE  LET w == CutTrace(m)
         IN  /\ w \in Seq(T)
             /\ ~(Has(m, {"frame"}) /\ Has(m, {"frame2"})) => w \in Seq(T \ {"frame", "frame2"})
             /\ Ordered(m) => Ordered(w)
             /\ w # << >> => m # << >> /\ w[1] = m[1]
  <1> DEFINE w == CutTrace(m)
  <1> SUFFICES /\ w \in Seq(T)
               /\ ~(Has(m, {"frame"}) /\ Has(m, {"frame2"})) => w \in Seq(T \ {"frame", "frame2"})
               /\ Ordered(m) => Ordered(w)
               /\ w # << >> => m # << >> /\ w[1] = m[1]
    OBVIOUS
  <1>0. Len(m) \in Nat /\ DOMAIN m = 1 .. Len(m)
    OBVIOUS
  <1>1. ASSUME NEW R \in SUBSET T, m \in Seq(R), NEW x, w = Before(m, {x})
        PROVE  /\ w \in Seq(R \ {x}) /\ w \in Seq(T)
               /\ Ordered(m) => Ordered(w)
               /\ w # << >> => m # << >> /\ w[1] = m[1]
    <2> DEFINE b == Before(m, {x})
    <2>0. /\ b \in Seq(R \ {x}) /\ (Ordered(m) => Ordered(b)) /\ (b # << >> => b[1] = m[1])
      <3>1. m \in Seq(R)
        BY <1>1
      <3> QED
        BY <3>1, BeforeIs
    <2>1. /\ w \in Seq(R \ {x}) /\ (Ordered(m) => Ordered(w)) /\ (w # << >> => w[1] = m[1])
      <3> HIDE DEF b, w
      <3> QED
        BY <1>1, <2>0 DEF b
    <2>3. w \in Seq(T)
      <3> HIDE DEF w
      <3>1. R \ {x} \in SUBSET T
        OBVIOUS
      <3> QED
        BY <2>1, <3>1, Narrower
    <2>2. ASSUME m = << >> PROVE w = << >>
      <3>1. First(m, {x}) \in 1 .. Len(m) + 1 /\ Len(m) = 0
        BY <2>2, FirstIs, Zenon
      <3> QED
        BY <1>1, <3>1, SubSeqEmpty DEF Before
    <2> QED
      BY <2>1, <2>2, <2>3, SMTT(30)
  <1>2. ASSUME NEW x, ~Has(m, {x}) PROVE m \in Seq(T \ {x})
    <2>1. \A i \in 1 .. Len(m) : m[i] \in T \ {x}
      BY <1>0, <1>2 DEF Has
    <2> QED
      BY <1>0, <2>1
  <1> HIDE DEF w
  <1>3. CASE Has(m, {"frame"})
    <2>1. w = Before(m, {"frame"})
      BY <1>3 DEF CutTrace, w
    <2>3. ASSUME ~Has(m, {"frame2"}) PROVE w \in Seq((T \ {"frame2"}) \ {"frame"})
      <3>1. m \in Seq(T \ {"frame2"}) /\ T \ {"frame2"} \in SUBSET T
        BY <1>2, <2>3, Zenon
      <3> QED
        BY <1>1, <2>1, <3>1, Zenon
    <2>4. (T \ {"frame2"}) \ {"frame"} = T \ {"frame", "frame2"}
      OBVIOUS
    <2>5. w \in Seq(T) /\ (Ordered(m) => Ordered(w)) /\ (w # << >> => m # << >> /\ w[1] = m[1])
      BY <1>1, <2>1, Zenon
    <2> QED
      BY <1>3, <2>3, <2>4, <2>5, Zenon
  <1>4. CASE ~Has(m, {"frame"})
    <2>1. w = Before(m, {"frame2"})
      BY <1>4 DEF CutTrace, w
    <2>2. m \in Seq(T \ {"frame"}) /\ T \ {"frame"} \in SUBSET T
      BY <1>2, <1>4, Zenon
    <2>3. w \in Seq((T \ {"frame"}) \ {"frame2"})
      BY <1>1, <2>1, <2>2, Zenon
    <2>4. (T \ {"frame"}) \ {"frame2"} = T \ {"frame", "frame2"}
      OBVIOUS
    <2>5. w \in Seq(T) /\ (Ordered(m) => Ordered(w)) /\ (w # << >> => m # << >> /\ w[1] = m[1])
      BY <1>1, <2>1, Zenon
    <2> QED
      BY <2>3, <2>4, <2>5, Zenon
  <1> QED
    BY <1>3, <1>4, Zenon

\* StripPrefixes leaves no exception name in front.
LEMMA StripIs ==
  ASSUME NEW T, NEW m \in Seq(T)
  PROVE  LET w == StripPrefixes(m)
         IN  /\ w \in Seq(T)
             /\ Ordered(m) => Ordered(w)
             /\ (m # << >> => m[1] # "space") => Opening(w)
  <1>1. CASE m # << >> /\ Head(m) = "class"
    BY <1>1, WithoutIs DEF StripPrefixes, Opening
  <1>2. CASE ~(m # << >> /\ Head(m) = "class")
    <2>1. StripPrefixes(m) = m
      BY <1>2 DEF StripPrefixes
    <2>2. m # << >> => Head(m) = m[1]
      OBVIOUS
    <2> QED
      BY <1>2, <2>1, <2>2 DEF Opening
  <1> QED
    BY <1>1, <1>2

\* What was put out is safe, also in front of what is left.
Fit(s) ==
  /\ Safe(s.out) /\ (s.out # << >> => s.out[Len(s.out)] \notin Schemes)
  /\ Ordered(s.rest)

\* Joining two masked parts unmasks nothing if the first does not end in a scheme.
LEMMA SafeJoined ==
  ASSUME NEW T, NEW u \in Seq(T), Safe(u), u # << >> => u[Len(u)] \notin Schemes,
         NEW w \in Seq(T), Safe(w)
  PROVE  Safe(u \o w)
  <1> DEFINE x == u \o w
  <1>1. /\ x \in Seq(T) /\ Len(x) = Len(u) + Len(w) /\ Len(u) \in Nat /\ Len(w) \in Nat
        /\ \A i \in 1 .. Len(u) + Len(w) : x[i] = IF i <= Len(u) THEN u[i] ELSE w[i - Len(u)]
    BY ConcatProperties
  <1> HIDE DEF x
  <1> SUFFICES ASSUME NEW i \in 2 .. Len(x), x[i] = "host" PROVE x[i - 1] \notin Schemes
    BY DEF Safe, x
  <1>2. CASE i <= Len(u)
    <2>1. x[i] = u[i] /\ x[i - 1] = u[i - 1] /\ i \in 2 .. Len(u)
      BY <1>1, <1>2
    <2> QED
      BY <2>1 DEF Safe
  <1>3. CASE i = Len(u) + 1
    <2>1. x[i - 1] = u[Len(u)] /\ Len(u) # 0
      BY <1>1, <1>3
    <2>2. u # << >>
      BY <2>1
    <2> QED
      BY <2>1, <2>2
  <1>4. CASE i > Len(u) + 1
    <2>0. (i - 1) - Len(u) = i - Len(u) - 1 /\ i - Len(u) \in 2 .. Len(w)
      BY <1>1, <1>4
    <2>1. x[i] = w[i - Len(u)] /\ x[i - 1] = w[(i - 1) - Len(u)]
      BY <1>1, <1>4, SMTT(30)
    <2> QED
      BY <2>0, <2>1 DEF Safe
  <1> QED
    BY <1>1, <1>2, <1>3, <1>4, SMTT(30)

\* Where no scheme is, no host is behind one.
LEMMA NoSchemes ==
  ASSUME NEW T, NEW m \in Seq(T \ Schemes)
  PROVE  Safe(m) /\ (m # << >> => m[Len(m)] \notin Schemes)
  <1>1. Len(m) \in Nat /\ \A i \in 1 .. Len(m) : m[i] \notin Schemes
    OBVIOUS
  <1>2. Safe(m)
    BY <1>1 DEF Safe
  <1>3. m # << >> => Len(m) \in 1 .. Len(m)
    BY <1>1
  <1> QED
    BY <1>1, <1>2, <1>3

\* The end of two parts is the end of the second, or of the first before
\* nothing.
LEMMA LastJoined ==
  ASSUME NEW T, NEW u \in Seq(T), NEW w \in Seq(T), u \o w # << >>
  PROVE  \/ w # << >> /\ (u \o w)[Len(u \o w)] = w[Len(w)]
         \/ w = << >> /\ u # << >> /\ (u \o w)[Len(u \o w)] = u[Len(u)]
  <1> DEFINE x == u \o w
  <1>1. /\ x \in Seq(T) /\ Len(x) = Len(u) + Len(w) /\ Len(u) \in Nat /\ Len(w) \in Nat
        /\ \A i \in 1 .. Len(u) + Len(w) : x[i] = IF i <= Len(u) THEN u[i] ELSE w[i - Len(u)]
    BY ConcatProperties
  <1>2. Len(x) # 0
    BY <1>1
  <1> HIDE DEF x
  <1>3. CASE Len(w) = 0
    <2>1. w = << >> /\ Len(u) # 0 /\ x[Len(x)] = u[Len(u)]
      BY <1>1, <1>2, <1>3
    <2>2. u # << >>
      BY <2>1
    <2> QED
      BY <2>1, <2>2 DEF x
  <1>4. CASE Len(w) # 0
    <2>1. w # << >> /\ x[Len(x)] = w[Len(w)]
      BY <1>1, <1>4
    <2> QED
      BY <2>1 DEF x
  <1> QED
    BY <1>3, <1>4

\* Where a joined message starts.
LEMMA FirstJoined ==
  ASSUME NEW T, NEW u \in Seq(T), NEW w \in Seq(T)
  PROVE  /\ u # << >> => u \o w # << >> /\ (u \o w)[1] = u[1]
         /\ u = << >> => u \o w = w
  <1> DEFINE x == u \o w
  <1>1. /\ x \in Seq(T) /\ Len(x) = Len(u) + Len(w) /\ Len(u) \in Nat /\ Len(w) \in Nat
        /\ \A i \in 1 .. Len(u) + Len(w) : x[i] = IF i <= Len(u) THEN u[i] ELSE w[i - Len(u)]
    BY ConcatProperties
  <1>2. u = << >> => x = w
    BY ConcatEmptySeq
  <1> HIDE DEF x
  <1>3. ASSUME u # << >> PROVE x # << >> /\ x[1] = u[1]
    <2>1. Len(u) # 0
      BY <1>3
    <2>2. Len(x) # 0 /\ x[1] = u[1]
      BY <1>1, <2>1
    <2> QED
      BY <2>2
  <1> QED
    BY <1>2, <1>3 DEF x

\* A message with nothing before a token starts with it.
LEMMA AtOnce ==
  ASSUME NEW T, NEW m \in Seq(T), NEW x, Has(m, {x}), Before(m, {x}) = << >>
  PROVE  m # << >> /\ m[1] = x
  <1> DEFINE f == First(m, {x})
  <1>1. f \in 1 .. Len(m) /\ m[f] = x /\ Len(m) \in Nat
    <2>1. f \in 1 .. Len(m) + 1 /\ (f <= Len(m) => m[f] \in {x}) /\ f <= Len(m) /\ Len(m) \in Nat
      BY FirstIs
    <2> HIDE DEF f
    <2> QED
      BY <2>1
  <1>2. Before(m, {x}) = SubSeq(m, 1, f - 1)
    BY DEF Before
  <1> HIDE DEF f
  <1>3. Len(SubSeq(m, 1, f - 1)) = (f - 1) - 1 + 1
    <2>1. 1 \in 1 .. Len(m) + 1 /\ f - 1 \in 1 - 1 .. Len(m)
      BY <1>1
    <2> QED
      BY <2>1, Piece
  <1>4. Len(SubSeq(m, 1, f - 1)) = 0
    <2>1. SubSeq(m, 1, f - 1) = << >>
      BY <1>2, Zenon
    <2>2. Len(<< >>) = 0
      OBVIOUS
    <2> QED
      BY <2>1, <2>2, Zenon
  <1>5. f = 1
    BY <1>1, <1>3, <1>4, SMTT(30)
  <1> QED
    BY <1>1, <1>5

\* What stands before the scheme a round takes has no scheme, in a message
\* where no http is followed by an https.
LEMMA BeforeScheme ==
  ASSUME NEW T, NEW m \in Seq(T), Ordered(m), Has(m, Schemes), NEW scheme,
         scheme = IF Has(m, {"https"}) THEN "https" ELSE "http"
  PROVE  Before(m, {scheme}) \in Seq(T \ Schemes)
  <1> DEFINE b == Before(m, {scheme})
             f == First(m, {scheme})
  <1>0. Len(m) \in Nat /\ DOMAIN m = 1 .. Len(m)
    OBVIOUS
  <1>1. /\ f \in 1 .. Len(m) + 1 /\ (f <= Len(m) => m[f] \in {scheme})
        /\ Has(m, {scheme}) => f <= Len(m)
        /\ \A i \in 1 .. f - 1 : m[i] \notin {scheme}
    BY FirstIs
  <1>2. b = SubSeq(m, 1, f - 1)
    BY DEF Before
  <1> HIDE DEF f, b
  <1>3. ASSUME NEW i \in 1 .. f - 1 PROVE m[i] \in T \ Schemes
    <2>1. i \in 1 .. Len(m) /\ i < f /\ m[i] \in T /\ m[i] # scheme
      BY <1>0, <1>1
    <2>2. CASE Has(m, {"https"})
      <3>1. scheme = "https" /\ f \in 1 .. Len(m) /\ m[f] = "https"
        BY <1>0, <1>1, <2>2, SMTT(30)
      <3>2. m[i] # "http"
        BY <2>1, <3>1 DEF Ordered
      <3> QED
        BY <2>1, <3>1, <3>2, SMTT(30) DEF Schemes
    <2>3. CASE ~Has(m, {"https"})
      <3>1. scheme = "http" /\ m[i] # "https"
        BY <1>0, <2>1, <2>3 DEF Has
      <3> QED
        BY <2>1, <3>1, SMTT(30) DEF Schemes
    <2> QED
      BY <2>2, <2>3
  <1>4. 1 \in 1 .. Len(m) + 1 /\ f - 1 \in 1 - 1 .. Len(m) /\ f - 1 \in Int
    BY <1>0, <1>1, SMTT(30)
  <1>5. b \in Seq(T \ Schemes)
    BY <1>2, <1>3, <1>4, SubSeqProperties, SMTT(30)
  <1> QED
    BY <1>5 DEF b

\* One round keeps what was put out, and masks what it moves there.
LEMMA MaskOneIs ==
  ASSUME NEW T, Masked \in T, NEW s \in [out : Seq(T), rest : Seq(T)]
  PROVE  LET r == MaskOne(s)
         IN  /\ r \in [out : Seq(T), rest : Seq(T)]
             /\ Fit(s) => Fit(r)
             /\ s.out # << >> => r.out # << >> /\ r.out[1] = s.out[1]
             /\ s.out = << >> /\ s.rest # << >> => r.out # << >> /\ r.out[1] = s.rest[1]
  <1> DEFINE r == MaskOne(s)
             o == s.out
             m == s.rest
  <1>0. o \in Seq(T) /\ m \in Seq(T)
    OBVIOUS
  <1>1. CASE ~Has(m, Schemes)
    <2>1. r = [out |-> o \o m, rest |-> << >>]
      BY <1>1, SMTT(30) DEF MaskOne
    <2>2. r.out = o \o m /\ r.rest = << >> /\ r \in [out : Seq(T), rest : Seq(T)]
      BY <1>0, <2>1
    <2>3. m \in Seq(T \ Schemes)
      <3>1. \A i \in 1 .. Len(m) : m[i] \in T \ Schemes
        BY <1>0, <1>1 DEF Has
      <3> QED
        BY <1>0, <3>1, SMTT(30)
    <2> HIDE DEF r, o, m
    <2>4. ASSUME Fit(s) PROVE Fit(r)
      <3>1. Safe(m) /\ (m # << >> => m[Len(m)] \notin Schemes)
        BY <2>3, NoSchemes, Zenon
      <3>2. Safe(o) /\ (o # << >> => o[Len(o)] \notin Schemes)
        BY <2>4 DEF Fit, o
      <3>3. Safe(o \o m)
        BY <1>0, <3>1, <3>2, SafeJoined
      <3>4. o \o m # << >> => (o \o m)[Len(o \o m)] \notin Schemes
        BY <1>0, <3>1, <3>2, LastJoined, Zenon
      <3>5. Ordered(<< >>)
        BY DEF Ordered
      <3> QED
        BY <2>2, <3>3, <3>4, <3>5, Zenon DEF Fit
    <2>5. o # << >> => r.out # << >> /\ r.out[1] = o[1]
      BY <1>0, <2>2, FirstJoined, SMTT(30)
    <2>6. o = << >> /\ m # << >> => r.out # << >> /\ r.out[1] = m[1]
      BY <1>0, <2>2, FirstJoined
    <2> QED
      BY <2>2, <2>4, <2>5, <2>6, Zenon DEF r, o, m
  <1>2. CASE Has(m, Schemes)
    <2> DEFINE scheme == IF Has(m, {"https"}) THEN "https" ELSE "http"
               b == Before(m, {scheme})
               f == From(m, {scheme})
               g == From(Tail(f), {"end", "space"})
               e == <<scheme, Masked>>
    <2>1. r = [out |-> o \o b \o e, rest |-> g]
      BY <1>2 DEF MaskOne
    <2>2. Has(m, {scheme}) /\ scheme \in Schemes
      BY <1>2 DEF Has, Schemes
    <2>3. /\ b \in Seq(T \ {scheme})
          /\ b # << >> => b[1] = m[1]
      BY <1>0, BeforeIs, SMTT(30)
    <2>4. f \in Seq(T) /\ (Ordered(m) => Ordered(f)) /\ f # << >>
      BY <1>0, <2>2, FromIs, SMTT(30)
    <2>5. ASSUME Ordered(m) PROVE b \in Seq(T \ Schemes)
      BY <1>0, <1>2, <2>5, BeforeScheme, SMTT(30)
    <2> HIDE DEF scheme
    <2>6. b = << >> => m # << >> /\ m[1] = scheme
      <3> HIDE DEF m
      <3> QED
        BY <1>0, <2>2, AtOnce, Zenon
    <2> HIDE DEF b, f, o, m, r
    <2>7. b \in Seq(T)
      <3>1. T \ {scheme} \in SUBSET T
        OBVIOUS
      <3> QED
        BY <2>3, <3>1, Narrower
    <2>8. /\ Tail(f) \in Seq(T) /\ (Ordered(f) => Ordered(Tail(f)))
      <3>1. Len(f) \in Nat /\ Len(f) # 0
        BY <2>4
      <3>2. Tail(f) = SubSeq(f, 2, Len(f))
        BY <2>4 DEF Tail
      <3>3. 2 \in 1 .. Len(f) + 1 /\ Len(f) \in 2 - 1 .. Len(f)
        BY <3>1
      <3>4. LET w == SubSeq(f, 2, Len(f)) IN w \in Seq(T) /\ (Ordered(f) => Ordered(w))
        BY <2>4, <3>3, PieceKeeps, SMTT(30)
      <3> QED
        BY <3>2, <3>4, Zenon
    <2>9. g \in Seq(T) /\ (Ordered(Tail(f)) => Ordered(g))
      BY <2>8, FromIs, Zenon
    <2> HIDE DEF g
    <2>10. scheme \in T
      <3>1. PICK i \in DOMAIN m : m[i] \in {scheme}
        BY <2>2 DEF Has
      <3> QED
        BY <1>0, <3>1
    <2>11. e \in Seq(T) /\ Len(e) = 2 /\ e[1] = scheme /\ e[2] = Masked /\ e # << >>
      BY <2>10
    <2>12. Safe(e) /\ e[Len(e)] \notin Schemes
      BY <2>11 DEF Safe, Masked, Schemes
    <2> HIDE DEF e
    <2>13. o \o b \in Seq(T) /\ (o \o b) \o e \in Seq(T)
      BY <1>0, <2>7, <2>11, SMTT(30)
    <2>14. r.out = (o \o b) \o e /\ r.rest = g /\ r \in [out : Seq(T), rest : Seq(T)]
      BY <2>1, <2>9, <2>13, SMTT(30)
    <2>15. ASSUME Fit(s) PROVE Fit(r)
      <3>1. Safe(o) /\ (o # << >> => o[Len(o)] \notin Schemes) /\ Ordered(m)
        BY <2>15 DEF Fit, o, m
      <3>2. Safe(b) /\ (b # << >> => b[Len(b)] \notin Schemes)
        BY <2>5, <3>1, NoSchemes, Zenon
      <3>3. Safe(o \o b)
        BY <1>0, <2>7, <3>1, <3>2, SafeJoined
      <3>4. o \o b # << >> => (o \o b)[Len(o \o b)] \notin Schemes
        BY <1>0, <2>7, <3>1, <3>2, LastJoined, Zenon
      <3>5. Safe((o \o b) \o e)
        BY <2>11, <2>12, <2>13, <3>3, <3>4, SafeJoined, Zenon
      <3>6. (o \o b) \o e # << >> => ((o \o b) \o e)[Len((o \o b) \o e)] \notin Schemes
        BY <2>11, <2>12, <2>13, LastJoined, Zenon
      <3>7. Ordered(g)
        BY <2>4, <2>8, <2>9, <3>1, SMTT(30)
      <3> QED
        BY <2>14, <3>5, <3>6, <3>7, Zenon DEF Fit
    <2>16. o \o b # << >> => r.out # << >> /\ r.out[1] = (o \o b)[1]
      BY <2>11, <2>13, <2>14, FirstJoined, SMTT(30)
    <2>17. o \o b = << >> => r.out = e
      BY <2>11, <2>13, <2>14, FirstJoined, SMTT(30)
    <2>18. o # << >> => o \o b # << >> /\ (o \o b)[1] = o[1]
      BY <1>0, <2>7, FirstJoined, SMTT(30)
    <2>19. o = << >> => o \o b = b
      BY <1>0, <2>7, FirstJoined, SMTT(30)
    <2>20. o # << >> => r.out # << >> /\ r.out[1] = o[1]
      BY <2>16, <2>18, Zenon
    <2>21. o = << >> => r.out # << >> /\ r.out[1] = m[1]
      BY <2>3, <2>6, <2>11, <2>16, <2>17, <2>19, Zenon
    <2> QED
      BY <2>14, <2>15, <2>20, <2>21, Zenon DEF r, o, m
  <1> QED
    BY <1>1, <1>2, SMTT(30)

\* The rounds of mask_url_hosts, and what is true after each of them.
LEMMA MaskIs ==
  ASSUME NEW T, Masked \in T, NEW m \in Seq(T)
  PROVE  LET w == mask_url_hosts(m)
         IN  /\ w \in Seq(T)
             /\ Ordered(m) => Safe(w)
             /\ Opening(m) => Opening(w)
  <1> DEFINE n == Len(m)
             R == [out : Seq(T), rest : Seq(T)]
             x == [out |-> << >>, rest |-> m]
             Loop(f) == [k \in 0 .. n |-> IF k = 0 THEN x ELSE MaskOne(f[k - 1])]
             loop == CHOOSE f : f = Loop(f)
             w == mask_url_hosts(m)
  <1>0. n \in Nat /\ x \in R
    OBVIOUS
  <1>1. w = loop[n].out
    BY DEF mask_url_hosts
  <1>2. \A s \in R : MaskOne(s) \in R
    BY MaskOneIs
  <1> HIDE DEF n, R, w
  <1>3. \E f : f = Loop(f)
    <2> DEFINE step == [ks \in (1 .. n) \X R |-> MaskOne(ks[2])]
    <2>1. step \in [(1 .. n) \X R -> R]
      BY <1>2
    <2>2. PICK f \in [0 .. n -> R] :
                 f[0] = x /\ \A k \in 1 .. n : f[k] = step[<<k, f[k - 1]>>]
      <3> HIDE DEF step, x
      <3>1. Repeated(n, R, x, step) # {}
        BY <1>0, <2>1, Recursion, Zenon
      <3> QED
        BY <3>1 DEF Repeated
    <2>3. ASSUME NEW k \in 1 .. n PROVE f[k] = MaskOne(f[k - 1])
      <3>1. k - 1 \in 0 .. n
        BY <1>0
      <3>2. f[k - 1] \in R
        BY <2>2, <3>1, Zenon
      <3>3. step[<<k, f[k - 1]>>] = MaskOne(f[k - 1])
        BY <3>2
      <3> QED
        BY <2>2, <3>3, Zenon
    <2> HIDE DEF x
    <2>4. f = Loop(f)
      BY <1>0, <2>2, <2>3, SMTT(30)
    <2> QED
      BY <2>4, Zenon
  <1>4. loop = Loop(loop)
    <2> HIDE DEF Loop
    <2> QED
      BY <1>3, Zenon
  <1> HIDE DEF loop
  <1>5. loop[0] = x /\ \A k \in 1 .. n : loop[k] = MaskOne(loop[k - 1])
    <2> HIDE DEF x
    <2> QED
      BY <1>0, <1>4, SMTT(30)
  <1> DEFINE Q == {s \in R : (Ordered(m) => Fit(s)) /\ (s.out # << >> => s.out[1] = m[1])
                             /\ (s.out = << >> => s.rest = m)}
  <1>6. CASE m = << >>
    <2>1. n = 0
      BY <1>6 DEF n
    <2>2. w = << >>
      BY <1>1, <1>5, <2>1, SMTT(30)
    <2> QED
      BY <2>2 DEF Safe, Opening, w
  <1>7. CASE m # << >>
    <2>1. x \in Q
      <3>1. Safe(<< >>)
        BY DEF Safe
      <3> QED
        BY <1>0, <3>1, SMTT(30) DEF Fit
    <2>2. ASSUME NEW s \in Q PROVE MaskOne(s) \in Q
      <3> DEFINE r == MaskOne(s)
      <3>1. s \in [out : Seq(T), rest : Seq(T)]
        BY DEF R
      <3>2. /\ r \in R
            /\ Fit(s) => Fit(r)
            /\ s.out # << >> => r.out # << >> /\ r.out[1] = s.out[1]
            /\ s.out = << >> /\ s.rest # << >> => r.out # << >> /\ r.out[1] = s.rest[1]
        BY <3>1, MaskOneIs, Zenon DEF R
      <3> HIDE DEF r
      <3>3. r \in Q
        BY <1>7, <3>2, Zenon
      <3> QED
        BY <3>3 DEF r
    <2>3. \A k \in 0 .. n : loop[k] \in Q
      <3> HIDE DEF Q, x
      <3>1. loop[0] \in Q
        BY <1>5, <2>1, Zenon
      <3>2. \A k \in 1 .. n : loop[k - 1] \in Q => loop[k] \in Q
        BY <1>5, <2>2, Zenon
      <3> QED
        BY <1>0, <3>1, <3>2, Closed, Zenon
    <2>4. loop[n] \in Q
      <3> HIDE DEF Q
      <3> QED
        BY <1>0, <2>3, SMTT(30)
    <2>5. w \in Seq(T) /\ (Ordered(m) => Fit(loop[n])) /\ (w # << >> => w[1] = m[1])
      BY <1>1, <2>4, SMTT(30) DEF R
    <2>6. Ordered(m) => Safe(w)
      BY <1>1, <2>5, SMTT(30) DEF Fit
    <2>7. Opening(m) => Opening(w)
      BY <1>7, <2>5 DEF Opening
    <2> QED
      BY <2>5, <2>6, <2>7, SMTT(30) DEF w
  <1> QED
    BY <1>6, <1>7

\* What reaches the client of a message: it is under the cap, and where the
\* message is regular no stack frame, leading class name or host is left.
LEMMA Sanitised ==
  ASSUME NEW m \in Seq(Tokens)
  PROVE  LET w == sanitise_for_client(m)
         IN  /\ w \in Seq(Tokens) /\ Length(w) <= MaxClientErrorLen
             /\ Ordered(m) => Safe(w)
             /\ ~(Has(m, {"frame"}) /\ Has(m, {"frame2"})) => w \in Seq(Tokens \ {"frame", "frame2"})
             /\ (m # << >> => m[1] # "space") => Opening(w)
  <1> DEFINE c == CutTrace(m)
             p == StripPrefixes(c)
             h == mask_url_hosts(p)
             t == Trim(h)
             w == truncate_with_ellipsis(t)
             Stays(T) == c \in Seq(T) => w \in Seq(T)
  <1>1. /\ c \in Seq(Tokens)
        /\ ~(Has(m, {"frame"}) /\ Has(m, {"frame2"})) => c \in Seq(Tokens \ {"frame", "frame2"})
        /\ Ordered(m) => Ordered(c)
        /\ c # << >> => m # << >> /\ c[1] = m[1]
    BY CutTraceIs, Zenon
  <1>2. sanitise_for_client(m) = w
    BY DEF sanitise_for_client
  <1>3. Masked \in Tokens /\ Ellipsis \in Tokens
    BY TextAssumption
  <1>4. ASSUME NEW T \in SUBSET Tokens, Masked \in T, Ellipsis \in T, c \in Seq(T)
        PROVE  /\ w \in Seq(T) /\ Length(w) <= MaxClientErrorLen
               /\ Ordered(c) => Safe(w)
               /\ (c # << >> => c[1] # "space") => Opening(w)
    <2> HIDE DEF c
    <2>1. p \in Seq(T) /\ (Ordered(c) => Ordered(p)) /\ ((c # << >> => c[1] # "space") => Opening(p))
      BY <1>4, StripIs
    <2> HIDE DEF p
    <2>2. h \in Seq(T) /\ (Ordered(p) => Safe(h)) /\ (Opening(p) => Opening(h))
      BY <1>4, <2>1, MaskIs, SMTT(30)
    <2> HIDE DEF h
    <2>3. t \in Seq(T) /\ (Safe(h) => Safe(t)) /\ (Opening(h) => Opening(t))
      BY <2>2, TrimIs, SMTT(30)
    <2> HIDE DEF t
    <2>4. /\ w \in Seq(T) /\ Length(w) <= MaxClientErrorLen
          /\ (Safe(t) => Safe(w)) /\ (Opening(t) => Opening(w))
      BY <1>4, <2>3, TruncateIs, SMTT(30)
    <2> QED
      BY <2>1, <2>2, <2>3, <2>4, Zenon
  <1>5. /\ w \in Seq(Tokens) /\ Length(w) <= MaxClientErrorLen
        /\ Ordered(c) => Safe(w)
        /\ (c # << >> => c[1] # "space") => Opening(w)
    BY <1>1, <1>3, <1>4
  <1>6. c \in Seq(Tokens \ {"frame", "frame2"}) => w \in Seq(Tokens \ {"frame", "frame2"})
    <2> DEFINE T == Tokens \ {"frame", "frame2"}
    <2>1. T \in SUBSET Tokens /\ Masked \in T /\ Ellipsis \in T
      BY <1>3 DEF Masked, Ellipsis
    <2> HIDE DEF T, w, c
    <2>2. c \in Seq(T) => w \in Seq(T)
      BY <1>4, <2>1
    <2> QED
      BY <2>2 DEF T
  <1> HIDE DEF c, w
  <1> QED
    BY <1>1, <1>2, <1>5, <1>6, Zenon
=============================================================================
