SPECIFICATION FairSpec
CONSTANTS
  poll_time = 1
  first_poll_time = 1
  gate_time = 0
  max_start <- NoLimit
  max_lifetime = 0
  max_session = 1
  Monitoring = FALSE
  N_FAST_TRIES = 0
  PORT_FWD_FAIL_DELAY = 1
  MIN_GRACE = 1
  BACKOFF_DIV = 1
  SIGTERM_GRACE = 1
  SIGKILL_WAIT = 1
  UserSignals = {"USR1"}
  Outputs = {"text", "stuck", "fwd"}
  Endings = {"255"}
  Prompt = TRUE
  TriesCap = 1
  MaxOrphans = 0
INVARIANTS WaitIsTimed DrainAllowed
PROPERTIES RestartHonoured SilenceEnds
