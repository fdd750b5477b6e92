---------------------------- MODULE MCConnection ----------------------------
(***************************************************************************)
(* Small instances of Connection: the texts a client sends and the         *)
(* statements they consist of.                                             *)
(***************************************************************************)
EXTENDS Connection, TLC

MCPieces ==
  [t \in Texts |->
     CASE t = "begin" -> <<"command">>
       [] t = "version" -> <<"local">>
       [] t = "pgclass" -> <<"catalog">>
       [] t = "select" -> <<"select">>
       [] t = "other" -> <<"select">>
       [] t = "insert" -> <<"update">>
       [] t = "batch" -> <<"select", "select">>
       [] t = "selectInsert" -> <<"select", "update">>
       [] t = "beginInsert" -> <<"command", "update">>]

\* Portal names are interchangeable; used where no liveness is checked.
Symmetry == Permutations(Portals)
=============================================================================
