CONSTANTS
  Middlewares = {"requestid", "recoverer", "logger", "sentry"}
  Errors <- MCErrors
SPECIFICATION Spec
INVARIANTS
  PairedWithRecoverer
CHECK_DEADLOCK FALSE
