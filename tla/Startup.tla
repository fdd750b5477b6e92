------------------------------- MODULE Startup -------------------------------
(***************************************************************************)
(* From the command line to a session: main validates the configuration    *)
(* and binds, then one connection goes through the TLS upgrade and         *)
(* on_startup.  The checks that make a configuration safe and usable are   *)
(* spread over classify, validate_trino_posture, the choice of the         *)
(* acceptor, tls_required and the Trino client builder; the properties say *)
(* that they agree.  Names in listen_addr resolve to the same addresses    *)
(* for validate and for bind.                                              *)
(***************************************************************************)
EXTENDS Naturals, FiniteSets

VARIABLES
  config,    \* the parsed Config
  stage,     \* how far main has come
  posture,   \* what classify returned
  acceptor,  \* main built a TlsAcceptor
  wire,      \* the connection: "none", "plain" or "tls"
  auth,      \* its PgWireConnectionState
  verified   \* history: Trino accepted the client's credentials

vars == <<config, stage, posture, acceptor, wire, auth, verified>>

\* What listen_addr is: the set of addresses it resolves to.  The empty set
\* is a name that does not resolve.
Addresses == SUBSET {"loopback", "public"}

Configs ==
  [auth : BOOLEAN, tls_cert : BOOLEAN, tls_key : BOOLEAN, listen_addr : Addresses,
   allow_insecure_listener : BOOLEAN, trino_ssl : BOOLEAN,
   trino_allow_plaintext_auth : BOOLEAN, max_connections : {0, 1}]

Postures == {"DisabledLoopback", "DisabledOpenBind", "CleartextRequiresTls", "CleartextLoopback"}
Refused == "refused"

\* clap's `requires` on tls_cert and tls_key.
Init ==
  /\ config \in {c \in Configs : c.tls_cert = c.tls_key}
  /\ stage = "parsed"
  /\ posture = Refused
  /\ acceptor = FALSE
  /\ wire = "none"
  /\ auth = "AwaitingStartup"
  /\ verified = FALSE

-----------------------------------------------------------------------------
(* policy.rs.                                                               *)

\* listen_addr_is_loopback, for an address that resolves.
IsLoopback(addr) == addr = {"loopback"}

classify(c) ==
  LET resolves == c.listen_addr # {}
      has_tls  == c.tls_cert /\ c.tls_key
  IN CASE ~c.auth /\ resolves /\ IsLoopback(c.listen_addr) -> "DisabledLoopback"
       [] ~c.auth /\ resolves /\ ~IsLoopback(c.listen_addr) /\ c.allow_insecure_listener -> "DisabledOpenBind"
       [] c.auth /\ has_tls -> "CleartextRequiresTls"
       [] c.auth /\ ~has_tls /\ resolves /\ IsLoopback(c.listen_addr) -> "CleartextLoopback"
       [] OTHER -> Refused

\* validate_trino_posture returns Ok.
TrinoPostureOk(c) == c.auth => c.trino_ssl \/ c.trino_allow_plaintext_auth

-----------------------------------------------------------------------------
(* main.                                                                    *)

Stop == stage' = "stopped" /\ UNCHANGED <<config, posture, acceptor, wire, auth, verified>>

Validate ==
  /\ stage = "parsed"
  /\ \/ /\ classify(config) # Refused /\ TrinoPostureOk(config)
        /\ posture' = classify(config)
        /\ stage' = "validated"
        /\ UNCHANGED <<config, acceptor, wire, auth, verified>>
     \/ /\ classify(config) = Refused \/ ~TrinoPostureOk(config)
        /\ Stop

\* Mutant: an unreadable certificate is logged and TLS left off.
BuildAcceptorOrPlain ==
  /\ stage = "validated"
  /\ \/ acceptor' = (config.tls_cert /\ config.tls_key)
     \/ acceptor' = FALSE
  /\ stage' = "acceptor"
  /\ UNCHANGED <<config, posture, wire, auth, verified>>

\* build_acceptor fails on unreadable, empty, malformed or mismatched files.
BuildAcceptor ==
  /\ stage = "validated"
  /\ \/ /\ acceptor' = (config.tls_cert /\ config.tls_key)
        /\ stage' = "acceptor"
        /\ UNCHANGED <<config, posture, wire, auth, verified>>
     \/ config.tls_cert /\ config.tls_key /\ Stop

\* max_connections is checked, then bind may fail.
Bind ==
  /\ stage = "acceptor"
  /\ \/ /\ config.max_connections # 0 /\ config.listen_addr # {}
        /\ stage' = "listening"
        /\ UNCHANGED <<config, posture, acceptor, wire, auth, verified>>
     \/ Stop

-----------------------------------------------------------------------------
(* One connection.                                                          *)

\* pgwire's negotiate_tls: the client may skip the request, and gets a
\* refusal and a plain connection when there is no acceptor.
Connect ==
  /\ stage = "listening" /\ wire = "none"
  /\ wire' \in IF acceptor THEN {"plain", "tls"} ELSE {"plain"}
  /\ UNCHANGED <<config, stage, posture, acceptor, auth, verified>>

tls_required == config.tls_cert /\ config.tls_key

Answer(next) ==
  /\ auth' = next
  /\ UNCHANGED <<config, stage, posture, acceptor, wire>>

\* The builder refuses Basic auth over plain HTTP unless told otherwise; it
\* has nothing to refuse without a password.
PasswordForwardable == config.trino_ssl \/ config.trino_allow_plaintext_auth

\* Mutant: the handler trusts the acceptor to force TLS.
StartupMessagePlain ==
  /\ wire # "none" /\ auth = "AwaitingStartup"
  /\ Answer(IF config.auth THEN "AuthenticationInProgress" ELSE "ReadyForQuery")
  /\ UNCHANGED verified

\* The Startup arm of on_startup.
StartupMessage ==
  /\ wire # "none" /\ auth = "AwaitingStartup"
  /\ LET refuse == config.auth /\ tls_required /\ wire # "tls" IN
       \/ refuse /\ Answer("closed")
       \/ ~refuse /\ config.auth /\ Answer("AuthenticationInProgress")
       \/ ~refuse /\ ~config.auth /\ Answer("ReadyForQuery")
  /\ UNCHANGED verified

\* Mutant: a failed credential check is only logged.
PasswordMessageLogged ==
  /\ auth = "AuthenticationInProgress"
  /\ PasswordForwardable
  /\ Answer("ReadyForQuery")
  /\ verified' \in BOOLEAN

\* The PasswordMessageFamily arm: build a client, run SELECT 1 with it.  The
\* connection is refused whichever of the two fails, and for any reason.
PasswordMessage ==
  /\ auth = "AuthenticationInProgress"
  /\ \/ Answer("closed") /\ UNCHANGED verified
     \/ PasswordForwardable /\ Answer("ReadyForQuery") /\ verified' = TRUE

\* Any other message during startup, a failed write, or a client that leaves.
Disconnect ==
  /\ wire # "none" /\ auth \in {"AwaitingStartup", "AuthenticationInProgress"}
  /\ Answer("closed")
  /\ UNCHANGED verified

Next ==
  \/ Validate \/ BuildAcceptor \/ Bind
  \/ Connect \/ StartupMessage \/ PasswordMessage \/ Disconnect

Spec == Init /\ [][Next]_vars

-----------------------------------------------------------------------------
(* Properties.                                                              *)

\* A password is asked for only where it crosses no network in the clear:
\* over TLS, or on a listener all of whose addresses are loopback.
PasswordProtected ==
  auth = "AuthenticationInProgress" => wire = "tls" \/ config.listen_addr = {"loopback"}

\* A session exists only with credentials Trino has accepted, or without
\* --auth on a loopback listener or by the explicit opt-in.
SessionAuthorised ==
  auth = "ReadyForQuery" =>
    \/ verified
    \/ ~config.auth /\ (config.listen_addr = {"loopback"} \/ config.allow_insecure_listener)

\* A gateway that listens can serve a client that does everything right: with
\* --auth there is a way to the password prompt, and the password can be
\* forwarded ("every authenticated PG connection will fail" is refused early).
ListenerUsable ==
  stage = "listening" /\ config.auth =>
    /\ PasswordForwardable
    /\ tls_required => acceptor
=============================================================================
