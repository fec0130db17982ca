SPECIFICATION FairSpec
CONSTANTS
  poll_time = 1
  first_poll_time = 1
  gate_time = 0
  max_start <- NoLimit
  max_lifetime = 0
  max_session = 0
  Monitoring = FALSE
  N_FAST_TRIES = 0
  PORT_FWD_FAIL_DELAY = 1
  MIN_GRACE = 1
  BACKOFF_DIV = 1
  SIGTERM_GRACE = 1
  SIGKILL_WAIT = 1
  UserSignals = {"TERM"}
  Outputs = {"stuck"}
  Endings = {"255", "signal"}
  Prompt = TRUE
  TriesCap = 1
  MaxOrphans = 1
PROPERTIES ExitHonoured ChildReaped
