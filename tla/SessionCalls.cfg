SPECIFICATION FairSpec
CONSTANTS
  Threads = {"ctl", "ui"}
  Starters = {"ctl"}
  Stoppers = {"ctl", "ui"}
  Pollers = {"ctl", "ui"}
  MaxStarts = 2
  StopTurns = 2
INVARIANTS TypeOK NoSupervisorLost PidNotStale StopEnds
PROPERTY StopReturns
