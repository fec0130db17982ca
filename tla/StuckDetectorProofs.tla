------------------------- MODULE StuckDetectorProofs -------------------------
(***************************************************************************)
(* The stuck detector raises no false alarm, and reports a call at the     *)
(* first scan that finds it overdue, for any number of threads, any number *)
(* of trackers and any threshold.                                          *)
(***************************************************************************)
EXTENDS StuckDetector, TLAPS

\* The bounds of the stopwatches, and the values they are reset to.
LEMMA Bounds ==
  /\ Threshold \in Nat /\ Abort \in Nat /\ Idle \in Int /\ NTrackers \in Nat
  /\ 1 <= Threshold /\ Threshold < Abort /\ Idle < 0 /\ 1 <= NTrackers
  /\ 0 \in Idle .. Abort /\ Idle \in Idle .. Abort /\ 0 \in 0 .. Abort
  /\ 0 \in 0 .. Threshold /\ Threshold \in 0 .. Threshold
BY DetectorConstants DEF Abort, Idle

\* Every step keeps the ranges of the state.
LEMMA RangesStep == TypeOK /\ [Next]_vars => RangesOK'
<1> SUFFICES ASSUME TypeOK, [Next]_vars PROVE RangesOK'
  OBVIOUS
<1> USE Bounds DEF TypeOK, RangesOK, trackers, threads, watch
<1>1. ASSUME NEW t \in Threads, NEW k \in TRACKERS, Hook(t, k) PROVE RangesOK'
  BY <1>1 DEF Hook
<1>2. ASSUME NEW t \in Threads, EnterStore(t) PROVE RangesOK'
  BY <1>2 DEF EnterStore
<1>3. ASSUME NEW t \in Threads, Return(t) PROVE RangesOK'
  BY <1>3 DEF Return
<1>4. ASSUME NEW t \in Threads, LeaveStart(t) PROVE RangesOK'
  BY <1>4 DEF LeaveStart, Cleared
<1>5. ASSUME NEW t \in Threads, LeaveWarn(t) PROVE RangesOK'
  BY <1>5 DEF LeaveWarn, Rearmed
<1>6. CASE ScanLoad
  <2>1. CASE start_sec[scan] >= Threshold
    <3>1. scan \in TRACKERS
      BY <1>6 DEF ScanLoad, TRACKERS
    <3>2. start_sec[scan] \in 0 .. Abort
      BY <3>1, <2>1
    <3> QED
      BY <1>6, <2>1, <3>2 DEF ScanLoad
  <2>2. CASE ~(start_sec[scan] >= Threshold)
    BY <1>6, <2>2 DEF ScanLoad, Continue, NextTracker
  <2> QED
    BY <2>1, <2>2
<1>7. CASE ScanAct
  <2>1. last_warn' \in [TRACKERS -> 0 .. Threshold]
    BY <1>7 DEF ScanAct
  <2>2. NextTracker(scan) \in 0 .. NTrackers
    BY <1>7 DEF ScanAct, NextTracker
  <2> QED
    BY <1>7, <2>1, <2>2 DEF ScanAct
<1>8. CASE Tick
  <2>1. start_sec' \in [TRACKERS -> Idle .. Abort]
    BY <1>8 DEF Tick
  <2>2. last_warn' \in [TRACKERS -> 0 .. Threshold]
    BY <1>8 DEF Tick
  <2>3. age' \in [Threads -> 0 .. Abort]
    BY <1>8 DEF Tick
  <2>4. scan' \in 0 .. NTrackers /\ (monitor' \in {"scan", "act"} => scan' # 0)
    BY <1>8 DEF Tick
  <2> QED
    BY <1>8, <2>1, <2>2, <2>3, <2>4 DEF Tick
<1>9. CASE Ended \/ UNCHANGED vars
  BY <1>9 DEF Ended, vars
<1> QED
  BY <1>1, <1>2, <1>3, <1>4, <1>5, <1>6, <1>7, <1>8, <1>9 DEF Next, Calls

\* Every step keeps the Boolean parts of the state Boolean.
LEMMA FlagsStep == FlagsOK /\ [Next]_vars => FlagsOK'
<1> SUFFICES ASSUME FlagsOK, [Next]_vars PROVE FlagsOK'
  OBVIOUS
<1> USE DEF FlagsOK
<1>1. ASSUME NEW t \in Threads, NEW k \in TRACKERS, Hook(t, k) PROVE FlagsOK'
  <2>1. prev' \in [Threads -> BOOLEAN]
    BY <1>1, Zenon DEF Hook
  <2>2. shared' \in [Threads -> BOOLEAN]
    BY <1>1, Zenon DEF Hook, Busy
  <2> QED
    BY <1>1, <2>1, <2>2 DEF Hook
<1>2. ASSUME NEW t \in Threads,
             EnterStore(t) \/ Return(t) \/ LeaveStart(t) \/ LeaveWarn(t)
      PROVE  FlagsOK'
  BY <1>2 DEF EnterStore, Return, LeaveStart, LeaveWarn, watch
<1>3. CASE ScanLoad \/ Tick \/ Ended \/ UNCHANGED vars
  BY <1>3 DEF ScanLoad, Tick, Ended, vars, threads, watch
<1>4. CASE ScanAct
  <2>a. exited' = TRUE \/ exited' = FALSE
    BY <1>4 DEF ScanAct
  <2>1. exited' \in BOOLEAN
    BY <2>a, Zenon
  <2> QED
    BY <1>4, <2>1 DEF ScanAct, threads
<1> QED
  BY <1>1, <1>2, <1>3, <1>4 DEF Next, Calls

\* Every step keeps prev FALSE for a thread about to store.
LEMMA FirstStep == TypeOK /\ StoreIsFirst /\ [Next]_vars => StoreIsFirst'
<1> SUFFICES ASSUME TypeOK, StoreIsFirst, [Next]_vars,
                    NEW u \in Threads, at'[u] = "store"
             PROVE  ~prev'[u]
  BY DEF StoreIsFirst
<1> USE DEF TypeOK, RangesOK, FlagsOK, StoreIsFirst, threads
<1>1. ASSUME NEW t \in Threads, NEW k \in TRACKERS, Hook(t, k) PROVE ~prev'[u]
  BY <1>1 DEF Hook
<1>2. ASSUME NEW t \in Threads,
             EnterStore(t) \/ Return(t) \/ LeaveStart(t) \/ LeaveWarn(t)
      PROVE  ~prev'[u]
  BY <1>2 DEF EnterStore, Return, LeaveStart, LeaveWarn
<1>3. CASE ScanLoad \/ ScanAct \/ Tick \/ Ended \/ UNCHANGED vars
  BY <1>3 DEF ScanLoad, ScanAct, Tick, Ended, vars
<1> QED
  BY <1>1, <1>2, <1>3 DEF Next, Calls

\* Every step keeps, for a tracker that is set, a call that accounts for it.
LEMMA RealStep == IInv /\ [Next]_vars => StartIsReal'
<1> SUFFICES ASSUME IInv, [Next]_vars, NEW k \in TRACKERS, start_sec'[k] # Idle
             PROVE  \E t \in Threads :
                      /\ at'[t] \in {"in", "leave"} /\ call'[t] = k /\ ~prev'[t]
                      /\ age'[t] >= start_sec'[k]
  BY DEF StartIsReal, TRACKERS
<1> DEFINE Owner(t) == /\ at[t] \in {"in", "leave"} /\ call[t] = k /\ ~prev[t]
                       /\ age[t] >= start_sec[k]
           Goal == \E t \in Threads :
                      /\ at'[t] \in {"in", "leave"} /\ call'[t] = k /\ ~prev'[t]
                      /\ age'[t] >= start_sec'[k]
<1>a. TypeOK /\ StoreIsFirst /\ (start_sec[k] # Idle => \E t \in Threads : Owner(t))
  BY DEF IInv, StartIsReal
<1> USE <1>a
\* The call that sets the tracker accounts for it.
<1>1. ASSUME NEW u \in Threads, EnterStore(u), call[u] = k PROVE Goal
  BY <1>1 DEF EnterStore, StoreIsFirst, TypeOK, RangesOK, Abort
\* Otherwise the tracker was set, and the call that accounted for it still does.
<1>2. ASSUME start_sec[k] # Idle, NEW t \in Threads, Owner(t),
             at'[t] \in {"in", "leave"}, call'[t] = call[t], prev'[t] = prev[t],
             age'[t] = age[t], start_sec'[k] = start_sec[k]
      PROVE  Goal
  BY <1>2
<1>3. ASSUME NEW u \in Threads, NEW j \in TRACKERS, Hook(u, j) PROVE Goal
  <2>1. start_sec[k] # Idle
    BY <1>3 DEF Hook, trackers
  <2>2. PICK t \in Threads : Owner(t)
    BY <2>1
  <2> QED
    BY <1>3, <1>2, <2>1, <2>2 DEF Hook, TypeOK, RangesOK, trackers
<1>4. ASSUME NEW u \in Threads, EnterStore(u), call[u] # k PROVE Goal
  <2>1. start_sec'[k] = start_sec[k]
    BY <1>4 DEF EnterStore, TypeOK, RangesOK
  <2>2. PICK t \in Threads : Owner(t)
    BY <2>1
  <2> QED
    BY <1>4, <1>2, <2>1, <2>2 DEF EnterStore, TypeOK, RangesOK
<1>5. ASSUME NEW u \in Threads, Return(u) PROVE Goal
  <2>1. start_sec'[k] = start_sec[k]
    BY <1>5 DEF Return, trackers
  <2>2. PICK t \in Threads : Owner(t)
    BY <2>1
  <2> QED
    BY <1>5, <1>2, <2>1, <2>2 DEF Return, TypeOK, RangesOK
<1>6. ASSUME NEW u \in Threads, LeaveStart(u) PROVE Goal
  <2>1. call[u] # k /\ start_sec'[k] = start_sec[k]
    BY <1>6 DEF LeaveStart, Cleared, TypeOK, RangesOK
  <2>2. PICK t \in Threads : Owner(t)
    BY <2>1
  <2> QED
    BY <1>6, <1>2, <2>1, <2>2 DEF LeaveStart, TypeOK, RangesOK
<1>7. ASSUME NEW u \in Threads, LeaveWarn(u) PROVE Goal
  <2>1. start_sec'[k] = start_sec[k]
    BY <1>7 DEF LeaveWarn
  <2>2. PICK t \in Threads : Owner(t)
    BY <2>1
  <2> QED
    BY <1>7, <1>2, <2>1, <2>2 DEF LeaveWarn, TypeOK, RangesOK
<1>8. CASE ScanLoad \/ ScanAct \/ Ended \/ UNCHANGED vars
  <2>1. start_sec' = start_sec /\ UNCHANGED threads
    BY <1>8 DEF ScanLoad, ScanAct, Ended, vars, trackers
  <2>2. PICK t \in Threads : Owner(t)
    BY <2>1
  <2> QED
    BY <1>2, <2>1, <2>2 DEF threads
\* Both clocks advance together and stop at the same bound.
<1>9. CASE Tick
  <2>1. start_sec[k] # Idle
    BY <1>9 DEF Tick, Idle
  <2>2. PICK t \in Threads : Owner(t)
    BY <2>1
  <2>3. /\ start_sec'[k] = IF start_sec[k] \in {Idle, Abort} THEN start_sec[k]
                                                            ELSE start_sec[k] + 1
        /\ age'[t] = IF at[t] # "out" /\ age[t] < Abort THEN age[t] + 1 ELSE age[t]
        /\ UNCHANGED <<at, call, prev>>
    BY <1>9 DEF Tick
  <2>4. start_sec[k] \in Idle .. Abort /\ age[t] \in 0 .. Abort /\ Abort \in Nat
    BY DetectorConstants DEF TypeOK, RangesOK, Abort
  <2>5. age'[t] >= start_sec'[k]
    BY <2>1, <2>2, <2>3, <2>4 DEF Idle
  <2> QED
    BY <2>2, <2>3, <2>5
<1> QED
  BY <1>1, <1>3, <1>4, <1>5, <1>6, <1>7, <1>8, <1>9 DEF Next, Calls

\* The inductive invariant holds of every behaviour.
THEOREM Invariance == Spec => []IInv
<1>1. Init => IInv
  <2> SUFFICES ASSUME Init PROVE IInv
    OBVIOUS
  <2>1. RangesOK
    BY Bounds DEF Init, RangesOK, TRACKERS
  <2>2. FlagsOK
    BY Zenon DEF Init, FlagsOK
  <2>3. StoreIsFirst /\ StartIsReal
    BY DEF Init, StoreIsFirst, StartIsReal
  <2> QED
    BY <2>1, <2>2, <2>3 DEF IInv, TypeOK
<1>2. IInv /\ [Next]_vars => IInv'
  BY RangesStep, FlagsStep, FirstStep, RealStep DEF IInv, TypeOK
<1> QED
  BY <1>1, <1>2, PTL DEF Spec

-----------------------------------------------------------------------------
\* Every step keeps the stamps of the STUCK lines behind the calls.
LEMMA WarnStep == WarnInv /\ [Next]_vars => WarnPrecedesCall' /\ FirstScanWarns'
<1> DEFINE Behind(k) == start_sec[k] # Idle /\ start_sec[k] < Threshold
                          => last_warn[k] >= start_sec[k]
           Unscanned(k) == monitor \in {"scan", "act"} /\ scan <= k
                             /\ start_sec[k] = Threshold => last_warn[k] = Threshold
           Loaded == monitor = "act" =>
                       seen >= Threshold /\ start_sec[scan] \in {seen, Idle, 0}
           Stamps(k) == Behind(k) /\ Unscanned(k)
           Goal(k) == Stamps(k)' /\ Loaded' /\ FirstScanWarns'
<1> SUFFICES ASSUME WarnInv, [Next]_vars PROVE WarnPrecedesCall' /\ FirstScanWarns'
  OBVIOUS
<1>t. RangesOK'
  BY RangesStep DEF WarnInv
<1> SUFFICES ASSUME NEW k \in TRACKERS PROVE Goal(k)
  <2>1. 1 \in TRACKERS
    BY Bounds DEF TRACKERS
  <2> QED
    BY <1>t, <2>1 DEF WarnPrecedesCall, TRACKERS, RangesOK
<1>a. TypeOK /\ (\A j \in TRACKERS : Stamps(j)) /\ Loaded /\ FirstScanWarns
  BY DEF WarnInv, WarnPrecedesCall, TRACKERS, TypeOK, RangesOK
<1>b. monitor \in {"scan", "act"} => scan \in TRACKERS
  BY <1>a DEF TypeOK, RangesOK, TRACKERS
<1>c. /\ \A j \in TRACKERS : start_sec[j] \in Idle .. Abort
      /\ \A j \in TRACKERS : last_warn[j] \in 0 .. Threshold
      /\ scan \in 0 .. NTrackers /\ seen \in 0 .. Abort
      /\ start_sec \in [TRACKERS -> Idle .. Abort]
      /\ last_warn \in [TRACKERS -> 0 .. Threshold]
  BY <1>a DEF TypeOK, RangesOK
<1>d. k \in Int
  BY DEF TRACKERS
<1> USE Bounds, <1>a, <1>b, <1>c, <1>d DEF FirstScanWarns
<1>1. ASSUME NEW t \in Threads, NEW j \in TRACKERS, Hook(t, j) PROVE Goal(k)
  <2>1. /\ UNCHANGED <<start_sec, last_warn, scan, seen>>
        /\ monitor' \in {"scan", "act"} => monitor' = monitor
    BY <1>1 DEF Hook, trackers
  <2> QED
    BY <2>1
<1>2. ASSUME NEW t \in Threads, EnterStore(t) PROVE Goal(k)
  <2>1. /\ UNCHANGED <<last_warn, monitor, scan, seen>>
        /\ \A j \in TRACKERS : start_sec'[j] \in {0, start_sec[j]}
    BY <1>2 DEF EnterStore, watch, TypeOK, RangesOK
  <2> QED
    BY <2>1
<1>3. ASSUME NEW t \in Threads, LeaveStart(t) PROVE Goal(k)
  <2>1. /\ UNCHANGED <<last_warn, monitor, scan, seen>>
        /\ \A j \in TRACKERS : start_sec'[j] \in {Idle, start_sec[j]}
    BY <1>3 DEF LeaveStart, Cleared, watch, TypeOK, RangesOK
  <2> QED
    BY <2>1
<1>4. ASSUME NEW t \in Threads, LeaveWarn(t) PROVE Goal(k)
  <2>1. /\ UNCHANGED <<start_sec, monitor, scan, seen>>
        /\ \A j \in TRACKERS : last_warn'[j] \in {Threshold, last_warn[j]}
    BY <1>4 DEF LeaveWarn, Rearmed, watch, TypeOK, RangesOK
  <2> QED
    BY <2>1
<1>5. CASE (\E t \in Threads : Return(t)) \/ Ended \/ UNCHANGED vars
  <2>1. UNCHANGED <<start_sec, last_warn, monitor, scan, seen>>
    BY <1>5 DEF Return, Ended, vars, trackers, watch
  <2> QED
    BY <2>1
\* A call loaded when it is just due has no line yet.
<1>6. CASE ScanLoad
  <2>1. UNCHANGED <<start_sec, last_warn>>
    BY <1>6 DEF ScanLoad, trackers
  <2>2. CASE start_sec[scan] >= Threshold
    BY <1>6, <2>1, <2>2 DEF ScanLoad
  <2>3. CASE ~(start_sec[scan] >= Threshold)
    <3>1. monitor' # "act" /\ (monitor' = "scan" => scan' = scan + 1)
      BY <1>6, <2>3 DEF ScanLoad, Continue, NextTracker
    <3> QED
      BY <1>6, <2>1, <3>1 DEF ScanLoad
  <2> QED
    BY <2>2, <2>3
\* The line stamped now is for a call that is overdue, or is gone.
<1>7. CASE ScanAct
  <2>1. /\ start_sec' = start_sec /\ monitor' # "act"
        /\ monitor' = "scan" => scan' = scan + 1
        /\ \A j \in TRACKERS \ {scan} : last_warn'[j] = last_warn[j]
        /\ last_warn'[scan] \in {0, last_warn[scan]}
    BY <1>7 DEF ScanAct, NextTracker
  <2>2. CASE k = scan
    BY <1>7, <2>1, <2>2 DEF ScanAct
  <2>3. CASE k # scan
    BY <1>7, <2>1, <2>3 DEF ScanAct
  <2> QED
    BY <2>2, <2>3
\* A call and the line before it age together.
<1>8. CASE Tick
  <2>1. /\ start_sec'[k] = IF start_sec[k] \in {Idle, Abort} THEN start_sec[k]
                                                            ELSE start_sec[k] + 1
        /\ last_warn'[k] = IF last_warn[k] < Threshold THEN last_warn[k] + 1
                                                       ELSE Threshold
        /\ monitor' # "act"
    BY <1>8 DEF Tick
  <2>2. start_sec[k] \in Idle .. Abort /\ last_warn[k] \in 0 .. Threshold /\ Behind(k)
    OBVIOUS
  <2>3. start_sec'[k] # Idle /\ start_sec'[k] <= Threshold
          => last_warn'[k] >= start_sec'[k] \/ start_sec[k] = Threshold
    BY <2>1, <2>2 DEF Idle, Abort
  <2>4. start_sec[k] = Threshold => start_sec'[k] = Threshold + 1
    BY <2>1
  <2>5. last_warn'[k] \in 0 .. Threshold /\ start_sec'[k] \in Int
    BY <2>1, <2>2
  <2> QED
    BY <2>1, <2>3, <2>4, <2>5
<1> QED
  BY <1>1, <1>2, <1>3, <1>4, <1>5, <1>6, <1>7, <1>8 DEF Next, Calls

\* The first scan that finds a call overdue writes its STUCK line, for any threads,
\* trackers and threshold, however calls of its kind overlap and return.
THEOREM LineIsWritten == Spec => []FirstScanWarns
<1>1. Init => WarnInv
  <2> SUFFICES ASSUME Init PROVE WarnInv
    OBVIOUS
  <2>1. RangesOK
    BY Bounds DEF Init, RangesOK, TRACKERS
  <2>2. FlagsOK
    BY Zenon DEF Init, FlagsOK
  <2>3. WarnPrecedesCall /\ FirstScanWarns
    BY DEF Init, WarnPrecedesCall, FirstScanWarns
  <2> QED
    BY <2>1, <2>2, <2>3 DEF WarnInv, TypeOK
<1>2. WarnInv /\ [Next]_vars => WarnInv'
  BY RangesStep, FlagsStep, WarnStep DEF WarnInv, TypeOK
<1>3. WarnInv => FirstScanWarns
  BY DEF WarnInv
<1> QED
  BY <1>1, <1>2, <1>3, PTL DEF Spec

\* The state stays in its ranges, for any threads, trackers and threshold.
THEOREM DetectorTypes == Spec => []TypeOK
BY Invariance, PTL DEF IInv

\* No false alarm, for any threads, trackers and threshold.
THEOREM NoFalseAlarm == Spec => []StartIsReal
BY Invariance, PTL DEF IInv
=============================================================================
