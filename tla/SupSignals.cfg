SPECIFICATION Spec
CONSTANTS
  poll_time = 2
  first_poll_time = 2
  gate_time = 1
  max_start = 3
  max_lifetime = 3
  max_session = 1
  Monitoring = TRUE
  N_FAST_TRIES = 0
  PORT_FWD_FAIL_DELAY = 1
  MIN_GRACE = 1
  BACKOFF_DIV = 1
  SIGTERM_GRACE = 1
  SIGKILL_WAIT = 1
  UserSignals = {"TERM", "USR1"}
  Outputs = {"fwd"}
  Endings = {"signal", "0", "1", "255", "other"}
  Prompt = FALSE
  TriesCap = 2
  MaxOrphans = 2
INVARIANT TypeOK
PROPERTY TunnelKept
INVARIANTS NoLostWakeup KillsOwnChild LongjmpInWait ForkClean AlarmHandled CleanExit
