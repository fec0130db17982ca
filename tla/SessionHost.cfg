SPECIFICATION Spec
CONSTANTS
  Threads = {"ctl", "ui"}
  Starters = {"ctl"}
  Stoppers = {"ctl"}
  Pollers = {"ui"}
  MaxStarts = 1
  StopTurns = 2
INVARIANT ReapsOnlyOwn
