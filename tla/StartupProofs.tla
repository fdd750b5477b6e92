---------------------------- MODULE StartupProofs ----------------------------
(***************************************************************************)
(* Theorems about Startup.                                                 *)
(***************************************************************************)
EXTENDS Startup, TLAPS

\* main comes past validation only with a posture, and then knows whether it
\* has an acceptor.
Validated == stage \in {"validated", "acceptor", "listening"}

IInv ==
  /\ config \in {c \in Configs : c.tls_cert = c.tls_key}
  /\ stage \in {"parsed", "validated", "acceptor", "listening", "stopped"}
  /\ wire \in {"none", "plain", "tls"}
  /\ auth \in {"AwaitingStartup", "AuthenticationInProgress", "ReadyForQuery", "closed"}
  /\ Validated => posture = classify(config) /\ posture # Refused /\ TrinoPostureOk(config)
  /\ stage \in {"acceptor", "listening"} => (acceptor <=> tls_required)
  /\ wire # "none" => stage = "listening"
  /\ wire = "none" => auth = "AwaitingStartup"
  /\ auth = "AuthenticationInProgress" => config.auth /\ (tls_required => wire = "tls")
  /\ auth = "ReadyForQuery" => (config.auth => verified)

\* What a posture other than a refusal says of the configuration.
LEMMA PostureMeans ==
  ASSUME NEW c \in Configs, classify(c) # Refused
  PROVE  /\ c.auth => (c.tls_cert /\ c.tls_key) \/ c.listen_addr = {"loopback"}
         /\ ~c.auth => c.listen_addr = {"loopback"} \/ c.allow_insecure_listener
  BY DEF classify, IsLoopback, Refused

\* The invariant holds before validation.
LEMMA InitIInv == Init => IInv
  BY DEF Init, IInv, Validated

\* Every step of main and of the handshake keeps it.
LEMMA StepIInv == IInv /\ [Next]_vars => IInv'
  <1> SUFFICES ASSUME IInv, [Next]_vars PROVE IInv'
    OBVIOUS
  <1> USE DEF IInv, Validated, tls_required, TrinoPostureOk
  <1>1. CASE Validate
    BY <1>1 DEF Validate, Stop
  <1>2. CASE BuildAcceptor
    BY <1>2 DEF BuildAcceptor, Stop
  <1>3. CASE Bind
    BY <1>3 DEF Bind, Stop
  <1>4. CASE Connect
    BY <1>4 DEF Connect
  <1>5. CASE StartupMessage
    BY <1>5 DEF StartupMessage, Answer
  <1>6. CASE PasswordMessage
    BY <1>6 DEF PasswordMessage, Answer
  <1>7. CASE Disconnect
    BY <1>7 DEF Disconnect, Answer
  <1>8. CASE UNCHANGED vars
    BY <1>8 DEF vars
  <1> QED
    BY <1>1, <1>2, <1>3, <1>4, <1>5, <1>6, <1>7, <1>8 DEF Next

\* It holds always.
LEMMA SpecIInv == Spec => []IInv
  BY InitIInv, StepIInv, PTL DEF Spec

\* on_startup asks for a password only over TLS or where every address of the
\* listener is loopback, because classify lets nothing else listen with --auth.
THEOREM PasswordProtectedHolds == Spec => []PasswordProtected
  <1>1. IInv => PasswordProtected
    BY PostureMeans DEF IInv, Validated, tls_required, PasswordProtected
  <1> QED
    BY <1>1, SpecIInv, PTL

\* A session has credentials Trino accepted, or runs without --auth on a
\* listener classify accepts for that.
THEOREM SessionAuthorisedHolds == Spec => []SessionAuthorised
  <1>1. IInv => SessionAuthorised
    BY PostureMeans DEF IInv, Validated, SessionAuthorised
  <1> QED
    BY <1>1, SpecIInv, PTL

\* With --auth, a gateway that listens can be given a password and can forward
\* it: main's checks and those of the client builder and on_startup agree.
THEOREM ListenerUsableHolds == Spec => []ListenerUsable
  <1>1. IInv => ListenerUsable
    BY DEF IInv, Validated, TrinoPostureOk, ListenerUsable, PasswordForwardable
  <1> QED
    BY <1>1, SpecIInv, PTL
=============================================================================
