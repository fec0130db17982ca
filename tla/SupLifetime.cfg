SPECIFICATION FairSpec
CONSTANTS
  poll_time = 2
  first_poll_time = 2
  gate_time = 1
  max_start = 3
  max_lifetime = 3
  max_session = 0
  Monitoring = FALSE
  N_FAST_TRIES = 0
  PORT_FWD_FAIL_DELAY = 1
  MIN_GRACE = 1
  BACKOFF_DIV = 1
  SIGTERM_GRACE = 1
  SIGKILL_WAIT = 1
  UserSignals = {}
  Outputs = {}
  Endings = {"255"}
  Prompt = TRUE
  TriesCap = 2
  MaxOrphans = 0
PROPERTY LifetimeEnforced
