SPECIFICATION Spec
INVARIANTS PasswordProtected SessionAuthorised ListenerUsable
CHECK_DEADLOCK FALSE
