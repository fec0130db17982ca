SPECIFICATION FairSpec
CONSTANTS
  Threads = {"main", "helper"}
  NTrackers = 2
  Threshold = 2
INVARIANTS TypeOK StartIsReal FirstScanWarns
PROPERTY HangEnds
