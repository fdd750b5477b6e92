--------------------------- MODULE ResultDelivery ---------------------------
(***************************************************************************)
(* What the streaming bridge promises to pgwire: the rows of a result      *)
(* reach it one at a time, in Trino's order, none lost and none twice; the *)
(* result is reported complete only when all of them were handed over, and *)
(* a result that fails or is abandoned has delivered a prefix.             *)
(***************************************************************************)
EXTENDS Naturals, Sequences

VARIABLES
  total,   \* number of rows of the result; row n is written n
  sent,    \* rows handed to pgwire
  status   \* "pending", "open", "complete" or "stopped"

vars == <<total, sent, status>>

Init ==
  /\ total \in Nat
  /\ sent = << >>
  /\ status = "pending"

Open ==
  /\ status = "pending"
  /\ status' = "open"
  /\ UNCHANGED <<total, sent>>

Deliver ==
  /\ status = "open"
  /\ Len(sent) < total
  /\ sent' = Append(sent, Len(sent) + 1)
  /\ UNCHANGED <<total, status>>

Complete ==
  /\ status \in {"pending", "open"}
  /\ Len(sent) = total
  /\ status' = "complete"
  /\ UNCHANGED <<total, sent>>

Stop ==
  /\ status \in {"pending", "open"}
  /\ status' = "stopped"
  /\ UNCHANGED <<total, sent>>

Next == Open \/ Deliver \/ Complete \/ Stop

Spec == Init /\ [][Next]_vars
=============================================================================
