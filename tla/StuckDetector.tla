---------------------------- MODULE StuckDetector ----------------------------
(***************************************************************************)
(* The LD_PRELOAD watchdog inside ssh (ssh-stuck-detector).  Threads of    *)
(* the process make network calls through the hooks, each kind of call has *)
(* one Tracker, and a monitor thread scans the trackers every second,      *)
(* writes STUCK lines and at last ends the process.                        *)
(*                                                                         *)
(* Loads and stores of the atomics are steps of their own.  start_sec and  *)
(* last_warn_sec are kept as the time since then, saturated where the      *)
(* monitor no longer tells values apart.                                   *)
(***************************************************************************)
EXTENDS Integers, FiniteSets

CONSTANTS Threads,        \* threads of the process that make network calls
          NTrackers,      \* TRACKERS is an array of this length (5)
          Threshold       \* THRESHOLD_SECS

ASSUME DetectorConstants == NTrackers \in Nat \ {0} /\ Threshold \in Nat \ {0}

TRACKERS == 1 .. NTrackers
Idle == -1                \* start_sec = 0
Abort == 2 * Threshold    \* stuck for so long, the process is ended

VARIABLES
  start_sec,              \* per tracker: Idle, or seconds since it was set
  last_warn,              \* per tracker: seconds since; Threshold if never
  at, call, prev,         \* per thread: step, tracker of its call, enter's result
  age, shared,            \* per thread: the call's true age; did another call of
                          \* its kind overlap it?  (not part of the code)
  monitor, scan, seen,    \* monitor thread; tracker it looks at; elapsed it saw
  exited                  \* _exit(1)

trackers == <<start_sec, last_warn>>
threads  == <<at, call, prev, age, shared>>
watch    == <<monitor, scan, seen, exited>>
vars == <<trackers, threads, watch>>

Init ==
  /\ start_sec = [k \in TRACKERS |-> Idle]
  /\ last_warn = [k \in TRACKERS |-> Threshold]
  /\ at = [t \in Threads |-> "out"] /\ call = [t \in Threads |-> 1]
  /\ prev = [t \in Threads |-> FALSE] /\ age = [t \in Threads |-> 0]
  /\ shared = [t \in Threads |-> FALSE]
  /\ monitor = "none" /\ scan = 0 /\ seen = 0 /\ exited = FALSE

-----------------------------------------------------------------------------
(***************************************************************************)
(* A hooked call.  prev is TRUE if enter() found the tracker in use; then  *)
(* neither enter() nor leave() touches it.                                 *)
(***************************************************************************)
Busy(t, k) == at[t] # "out" /\ call[t] = k

\* ensure_monitor, once; pthread_create may fail and nobody looks.  Then
\* enter() loads start_sec.
Hook(t, k) ==
  /\ at[t] = "out" /\ ~exited
  /\ monitor' \in IF monitor = "none" THEN {"sleep", "failed"} ELSE {monitor}
  /\ call' = [call EXCEPT ![t] = k]
  /\ prev' = [prev EXCEPT ![t] = start_sec[k] # Idle]
  /\ at' = [at EXCEPT ![t] = IF start_sec[k] = Idle THEN "store" ELSE "in"]
  /\ age' = [age EXCEPT ![t] = 0]
  /\ shared' = [u \in Threads |->
                  IF u = t THEN \E v \in Threads \ {t} : Busy(v, k)
                           ELSE shared[u] \/ Busy(u, k)]
  /\ UNCHANGED <<trackers, scan, seen, exited>>

EnterStore(t) ==
  /\ at[t] = "store" /\ ~exited
  /\ start_sec' = [start_sec EXCEPT ![call[t]] = 0]
  /\ at' = [at EXCEPT ![t] = "in"]
  /\ UNCHANGED <<last_warn, call, prev, age, shared, watch>>

\* The real call returns; it may also never do so.
Return(t) ==
  /\ at[t] = "in" /\ ~exited
  /\ at' = [at EXCEPT ![t] = IF prev[t] THEN "out" ELSE "leave"]
  /\ UNCHANGED <<trackers, call, prev, age, shared, watch>>

ClearedMissed(k) == start_sec[k]
Cleared(k) == Idle

LeaveStart(t) ==
  /\ at[t] = "leave" /\ ~exited
  /\ start_sec' = [start_sec EXCEPT ![call[t]] = Cleared(call[t])]
  /\ at' = [at EXCEPT ![t] = "rewarn"]
  /\ UNCHANGED <<last_warn, call, prev, age, shared, watch>>

\* leave() stores 0, which is no time at all: the next line is due at once.
RearmedNow(k) == 0
Rearmed(k) == Threshold

LeaveWarn(t) ==
  /\ at[t] = "rewarn" /\ ~exited
  /\ last_warn' = [last_warn EXCEPT ![call[t]] = Rearmed(call[t])]
  /\ at' = [at EXCEPT ![t] = "out"]
  /\ UNCHANGED <<start_sec, call, prev, age, shared, watch>>

-----------------------------------------------------------------------------
(***************************************************************************)
(* The monitor thread.                                                     *)
(***************************************************************************)
NextTrackerPast(k) == IF k <= NTrackers THEN k + 1 ELSE 0
NextTracker(k) == IF k < NTrackers THEN k + 1 ELSE 0

\* What follows an idle tracker, or one that is not due: the next one.
BreakOff(k) == 0
Continue(k) == NextTracker(k)

\* Load start_sec of the tracker; continue unless its call is overdue.
ScanLoad ==
  /\ monitor = "scan" /\ ~exited
  /\ IF start_sec[scan] >= Threshold
     THEN monitor' = "act" /\ seen' = start_sec[scan] /\ UNCHANGED scan
     ELSE /\ scan' = Continue(scan)
          /\ monitor' = IF Continue(scan) = 0 THEN "sleep" ELSE "scan"
          /\ UNCHANGED seen
  /\ UNCHANGED <<trackers, threads, exited>>

\* Write the STUCK line unless one was written lately; abort if it is too late.
ScanAct ==
  /\ monitor = "act" /\ ~exited
  /\ last_warn' = IF last_warn[scan] >= Threshold
                  THEN [last_warn EXCEPT ![scan] = 0] ELSE last_warn
  /\ exited' = (seen >= Abort)
  /\ scan' = NextTracker(scan) /\ seen' = 0
  /\ monitor' = IF NextTracker(scan) = 0 THEN "sleep" ELSE "scan"
  /\ UNCHANGED <<start_sec, threads>>

\* A second passes; if the monitor sleeps, its next scan begins.  A scan takes
\* less than a second.
Tick ==
  /\ monitor \in {"none", "failed", "sleep"} /\ ~exited
  /\ start_sec' = [k \in TRACKERS |->
        IF start_sec[k] \in {Idle, Abort} THEN start_sec[k] ELSE start_sec[k] + 1]
  /\ last_warn' = [k \in TRACKERS |->
        IF last_warn[k] < Threshold THEN last_warn[k] + 1 ELSE Threshold]
  /\ age' = [t \in Threads |->
        IF at[t] # "out" /\ age[t] < Abort THEN age[t] + 1 ELSE age[t]]
  /\ IF monitor = "sleep" THEN monitor' = "scan" /\ scan' = 1
                          ELSE UNCHANGED <<monitor, scan>>
  /\ UNCHANGED <<at, call, prev, shared, seen, exited>>

Ended == exited /\ UNCHANGED vars

Calls(t) == (\E k \in TRACKERS : Hook(t, k)) \/ EnterStore(t) \/ Return(t)
            \/ LeaveStart(t) \/ LeaveWarn(t)

Next == (\E t \in Threads : Calls(t)) \/ ScanLoad \/ ScanAct \/ Tick \/ Ended

Spec == Init /\ [][Next]_vars

\* The hooks, the monitor and the clock keep running; a call need not return.
FairSpec == /\ Spec
            /\ WF_vars(ScanLoad \/ ScanAct) /\ WF_vars(Tick)
            /\ \A t \in Threads :
                 WF_vars(EnterStore(t) \/ LeaveStart(t) \/ LeaveWarn(t))

-----------------------------------------------------------------------------
\* Trackers, threads and the monitor stay in their ranges.
RangesOK ==
  /\ start_sec \in [TRACKERS -> Idle .. Abort]
  /\ last_warn \in [TRACKERS -> 0 .. Threshold]
  /\ at \in [Threads -> {"out", "store", "in", "leave", "rewarn"}]
  /\ call \in [Threads -> TRACKERS] /\ age \in [Threads -> 0 .. Abort]
  /\ monitor \in {"none", "failed", "sleep", "scan", "act"}
  /\ scan \in 0 .. NTrackers /\ seen \in 0 .. Abort
  /\ monitor \in {"scan", "act"} => scan # 0

FlagsOK == /\ prev \in [Threads -> BOOLEAN] /\ shared \in [Threads -> BOOLEAN]
           /\ exited \in BOOLEAN

TypeOK == RangesOK /\ FlagsOK

\* No false alarm: a tracker that is set belongs to a call in flight that is at
\* least as old as the tracker says, however the calls of other threads overlap.
StartIsReal ==
  \A k \in TRACKERS : start_sec[k] # Idle =>
    \E t \in Threads : /\ at[t] \in {"in", "leave"} /\ call[t] = k /\ ~prev[t]
                       /\ age[t] >= start_sec[k]

\* A thread about to set its tracker found it idle; with the types and
\* StartIsReal this is inductive.
StoreIsFirst == \A t \in Threads : at[t] = "store" => ~prev[t]
IInv == TypeOK /\ StoreIsFirst /\ StartIsReal

\* The rate limit is per call: the scan that first finds a call overdue writes its
\* STUCK line, whatever line the monitor wrote for an earlier call of the kind, even
\* one that returned between the monitor's load of start_sec and its stamp, and
\* however late leave() stores last_warn_sec.
FirstScanWarns == monitor = "act" /\ seen = Threshold => last_warn[scan] = Threshold

\* A line is never younger than a call that is not yet overdue; a tracker this scan
\* has still to look at has none if its call is just due; and while the monitor acts
\* on what it loaded, that call runs on, has returned, or a new one has just begun.
WarnPrecedesCall ==
  /\ \A k \in TRACKERS :
       start_sec[k] # Idle /\ start_sec[k] < Threshold => last_warn[k] >= start_sec[k]
  /\ monitor \in {"scan", "act"} =>
       \A k \in scan .. NTrackers : start_sec[k] = Threshold => last_warn[k] = Threshold
  /\ monitor = "act" => seen >= Threshold /\ start_sec[scan] \in {seen, Idle, 0}
WarnInv == TypeOK /\ WarnPrecedesCall /\ FirstScanWarns

\* A call that hangs, and that no call of its kind overlapped, ends the process,
\* whatever other calls do, once the monitor thread exists.
HangEnds ==
  \A t \in Threads :
    at[t] = "in" /\ ~shared[t] /\ monitor # "failed"
      ~> exited \/ at[t] # "in" \/ shared[t]
=============================================================================
