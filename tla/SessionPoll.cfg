SPECIFICATION Spec
CONSTANTS
  Threads = {"ctl", "ui"}
  Starters = {"ctl"}
  Stoppers = {"ctl"}
  Pollers = {"ui"}
  MaxStarts = 2
  StopTurns = 2
PROPERTY PollDoesNothing
