----------------------------- MODULE ErrorText -----------------------------
(***************************************************************************)
(* trino_error_to_pg: the SQLSTATE a client gets for a Trino error, and    *)
(* what is left of its message.                                            *)
(*                                                                         *)
(* A message is a sequence of tokens.  "class" is a leading Java exception *)
(* name with its colon, "frame" and "frame2" open a stack frame (`\n\tat ` *)
(* and `\n  at `), "http" and "https" are the schemes with `://`, "host"   *)
(* what may follow them, "end" a character that ends a host (a slash, a    *)
(* comma, a parenthesis), "space" white space, "line" the `line 1:7:` of a *)
(* positional syntax error, "wide" a character of several bytes, "word"    *)
(* anything else; the keywords stand for themselves, with an underscore    *)
(* for a space.                                                            *)
(***************************************************************************)
EXTENDS Naturals, Sequences, FiniteSetsExt

CONSTANTS
  MaxClientErrorLen,   \* MAX_CLIENT_ERROR_LEN
  Bytes                \* token -> its length in bytes

Ellipsis == "ellipsis"
Masked == "<trino>"

\* What a message is made of; the ellipsis fits under the cap.
Tokens == DOMAIN Bytes
ASSUME TextAssumption ==
  /\ MaxClientErrorLen \in Nat
  /\ \A x \in Tokens : Bytes[x] \in Nat
  /\ {Ellipsis, Masked} \subseteq Tokens
  /\ Bytes[Ellipsis] <= MaxClientErrorLen

\* Bytes of a message.
Length(m) ==
  LET upto[n \in 0 .. Len(m)] == IF n = 0 THEN 0 ELSE upto[n - 1] + Bytes[m[n]]
  IN  upto[Len(m)]

Has(m, tokens) == \E i \in DOMAIN m : m[i] \in tokens

\* Where the first of these tokens stands; one past the end if there is none.
First(m, tokens) == Min({i \in DOMAIN m : m[i] \in tokens} \cup {Len(m) + 1})
Before(m, tokens) == SubSeq(m, 1, First(m, tokens) - 1)
From(m, tokens) == SubSeq(m, First(m, tokens), Len(m))

-----------------------------------------------------------------------------

is_syntax_position(m) == m # << >> /\ Head(m) = "line"

\* The tests in their order; the first that matches decides.
Sqlstates ==
  <<<<{"SYNTAX_ERROR"}, "42601">>, <<{"TABLE_NOT_FOUND", "DOES_NOT_EXIST"}, "42P01">>,
    <<{"COLUMN_NOT_FOUND", "CANNOT_BE_RESOLVED"}, "42703">>, <<{"TYPE_MISMATCH"}, "42846">>,
    <<{"PERMISSION_DENIED", "ACCESS_DENIED"}, "42501">>, <<{"DIVISION_BY_ZERO"}, "22012">>>>

sqlstate(m) ==
  LET hits == {i \in DOMAIN Sqlstates : Has(m, Sqlstates[i][1])}
  IN  CASE is_syntax_position(m) -> "42601"
        [] ~is_syntax_position(m) /\ hits # {} -> Sqlstates[Min(hits)][2]
        [] OTHER -> "42000"

\* The stack trace, in whichever of its spellings is looked for first.
CutTrace(m) == IF Has(m, {"frame"}) THEN Before(m, {"frame"}) ELSE Before(m, {"frame2"})

\* What is left once these tokens are taken off the front.
Without(m, tokens) == SubSeq(m, Min({i \in DOMAIN m : m[i] \notin tokens} \cup {Len(m) + 1}), Len(m))
TrimEnd(m) == SubSeq(m, 1, Max({i \in DOMAIN m : m[i] # "space"} \cup {0}))
Trim(m) == TrimEnd(Without(m, {"space"}))

\* strip_java_exception_prefix, repeated until nothing changes: one name after
\* the other, and the white space behind each.
StripPrefixes(m) == IF m # << >> /\ Head(m) = "class" THEN Without(m, {"class", "space"}) ELSE m

\* One round of mask_url_hosts replaces what follows a scheme up to the next
\* "end" or "space".  An https:// anywhere in the rest is taken before an
\* http://.
Schemes == {"https", "http"}
MaskOne(s) ==
  IF ~Has(s.rest, Schemes) THEN [out |-> s.out \o s.rest, rest |-> << >>]
  ELSE LET scheme == IF Has(s.rest, {"https"}) THEN "https" ELSE "http"
           after == Tail(From(s.rest, {scheme}))
       IN  [out |-> s.out \o Before(s.rest, {scheme}) \o <<scheme, Masked>>,
            rest |-> From(after, {"end", "space"})]

\* Every round takes something off the rest.
mask_url_hosts(m) ==
  LET loop[k \in 0 .. Len(m)] ==
        IF k = 0 THEN [out |-> << >>, rest |-> m] ELSE MaskOne(loop[k - 1])
  IN  loop[Len(m)].out

\* The longest prefix of whole characters that leaves room for the ellipsis.
truncate_with_ellipsis(m) ==
  IF Length(m) <= MaxClientErrorLen THEN m
  ELSE LET cuts == {n \in 0 .. Len(m) :
                      Length(SubSeq(m, 1, n)) <= MaxClientErrorLen - Bytes[Ellipsis]}
       IN  Append(SubSeq(m, 1, Max(cuts)), Ellipsis)

\* Mutant: the message is cut to size before its hosts are masked.
sanitise_cut_first(m) ==
  Trim(mask_url_hosts(truncate_with_ellipsis(StripPrefixes(CutTrace(m)))))

sanitise_for_client(m) ==
  truncate_with_ellipsis(Trim(mask_url_hosts(StripPrefixes(CutTrace(m)))))

\* Mutant: the SQLSTATE is taken from what the client will see.
trino_error_after(m) ==
  [sqlstate |-> sqlstate(sanitise_for_client(m)), message |-> sanitise_for_client(m)]

\* The whole message decides the SQLSTATE, before anything is taken from it.
trino_error_to_pg(m) == [sqlstate |-> sqlstate(m), message |-> sanitise_for_client(m)]
=============================================================================
