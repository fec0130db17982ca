--------------------------- MODULE SupervisorTypes ---------------------------
(***************************************************************************)
(* The supervision loop keeps the types of its state, for every value of   *)
(* its constants: the lemmas that SupervisorProofs builds on.              *)
(***************************************************************************)
EXTENDS Supervisor, TLAPS

\* The caps of the stopwatches and of the counters are natural numbers, and a
\* pause or an alarm set by the code fits under its cap.
LEMMA CapFacts ==
  /\ AgeCap \in Nat /\ UptimeCap \in Nat /\ AlarmCap \in Nat
  /\ NapCap \in Nat /\ StartCap \in Nat /\ MinTime \in Nat
  /\ NapCap >= 1
  /\ poll_time <= AlarmCap /\ first_poll_time <= AlarmCap
  /\ poll_time <= NapCap /\ PORT_FWD_FAIL_DELAY <= NapCap
  /\ Larger(SIGTERM_GRACE, SIGKILL_WAIT) \in Nat
  /\ SIGTERM_GRACE <= Larger(SIGTERM_GRACE, SIGKILL_WAIT)
  /\ SIGKILL_WAIT <= Larger(SIGTERM_GRACE, SIGKILL_WAIT)
BY ConstantsOK DEF AgeCap, UptimeCap, AlarmCap, NapCap, StartCap, MinTime, Larger

\* grace_time never sleeps for a negative time nor for more than poll_time.
LEMMA IntervalRange ==
  ASSUME NEW t \in Nat
  PROVE  Interval(t) \in 0 .. poll_time
<1> DEFINE k == t - N_FAST_TRIES
           n == (poll_time * k * k) \div BACKOFF_DIV
<1>1. CASE k <= 0
  BY <1>1, ConstantsOK DEF Interval
<1>2. CASE k > 0
  <2>1. k \in Nat
    BY <1>2, ConstantsOK
  <2>2. poll_time * k * k \in Nat
    BY <2>1, ConstantsOK
  <2>3. n \in Nat
    <3>1. \A a \in Nat, b \in Nat \ {0} : a \div b \in Nat
      OBVIOUS
    <3> QED BY <2>2, <3>1, ConstantsOK
  <2> QED BY <1>2, <2>3, ConstantsOK DEF Interval
<1> QED BY <1>1, <1>2, ConstantsOK

\* The signals and exit statuses the actions name.
LEMMA NamedMembers ==
  /\ "CHLD" \in WatchSignals /\ "ALRM" \in WatchSignals /\ "TERM" \in WatchSignals
  /\ "signal" \in Statuses /\ "0" \in Statuses
BY DEF WatchSignals, ExitSignals, Statuses

\* A stopwatch stays under its cap, and a countdown in its range; a countdown
\* neither starts nor stops by counting.
LEMMA AdvanceRange ==
  ASSUME NEW cap \in Nat, NEW x \in 0 .. cap
  PROVE  Advance(x, cap) \in 0 .. cap
BY DEF Advance

LEMMA CountRange ==
  ASSUME NEW cap \in Nat, NEW x \in Off .. cap
  PROVE  /\ Count(x) \in Off .. cap
         /\ x \in 0 .. cap => Count(x) \in 0 .. cap
         /\ Count(x) # Off <=> x # Off
BY DEF Count, Off

-----------------------------------------------------------------------------
(***************************************************************************)
(* A step keeps the inductive invariant: one lemma for each conjunct, one  *)
(* case for each action.                                                   *)
(***************************************************************************)

\* Flags hold truth values.
LEMMA FlagsStep ==
  ASSUME IInv, [Next]_vars
  PROVE  FlagsOK'
<1> USE DEF control, mask, flags, signals, session, process, pipe, timers,
            IInv, TypeOK, FlagsOK
<1>1. CASE StopStarting
  BY <1>1, Zenon DEF StopStarting, Ready, Exit
<1>2. CASE BeginStart
  BY <1>2, Zenon DEF BeginStart, Ready, Tries
<1>3. CASE GraceOver
  BY <1>3, Zenon DEF GraceOver, Ready
<1>4. CASE PortDelayOver
  BY <1>4, Zenon DEF PortDelayOver, Ready
<1>5. CASE CheckExit
  BY <1>5, Zenon DEF CheckExit, Ready, Exit
<1>6. CASE Prepare
  BY <1>6, Zenon DEF Prepare, Ready
<1>7. ASSUME NEW p \in BOOLEAN, Fork(p) PROVE FlagsOK'
  BY <1>7, Zenon DEF Fork, Ready
<1>8. CASE ForkFails
  BY <1>8, Zenon DEF ForkFails, Ready, ForkError
<1>9. CASE XErrlog
  BY <1>9, Zenon DEF XErrlog, Ready, ssh_kill
<1>10. CASE InstallHandlers
  BY <1>10, Zenon DEF InstallHandlers, Ready
<1>11. CASE Leave
  BY <1>11, Zenon DEF Leave, Ready, AlarmCleared
<1>12. CASE UnsetHandlers
  BY <1>12, Zenon DEF UnsetHandlers, Ready
<1>13. CASE Enter
  BY <1>13, Zenon DEF Enter, Ready
<1>14. CASE Top
  BY <1>14, Zenon DEF Top, Ready, TopMask, RestartAsked, ssh_kill
<1>15. CASE TryReap
  BY <1>15, Zenon DEF TryReap, Ready, Ended, check_ssh_stderr, ExitPolicy
<1>16. CASE TryArm
  BY <1>16, Zenon DEF TryArm, Ready, Ended, ExitAsked, ssh_kill
<1>17. CASE Catch
  BY <1>17, Zenon DEF Catch, Ready, ssh_kill
<1>18. CASE AlarmKill
  BY <1>18, Zenon DEF AlarmKill, Ready, ssh_kill
<1>19. CASE Ret
  BY <1>19, Zenon DEF Ret, Ready, RetMask
<1>20. ASSUME NEW hit \in Hits, WaitReadable(hit) PROVE FlagsOK'
  BY <1>20, Zenon DEF WaitReadable, JumpAfterPoll, check_ssh_stderr, ssh_kill
<1>21. ASSUME NEW hit \in Hits, AlarmDrain(hit) PROVE FlagsOK'
  BY <1>21, Zenon DEF AlarmDrain, Ready, check_ssh_stderr, ssh_kill
<1>22. CASE WaitHangup
  BY <1>22, Zenon DEF WaitHangup, JumpAfterPoll
<1>23. ASSUME NEW up \in BOOLEAN, ConnTest(up) PROVE FlagsOK'
  BY <1>23, Zenon DEF ConnTest, Ready, ssh_kill
<1>24. CASE KillReap
  BY <1>24, Zenon DEF KillReap, Ready, TurnsLeft, Phase, Reaped
<1>25. CASE KillEscalate
  BY <1>25, Zenon DEF KillEscalate, Ready
<1>26. CASE KillAbandon
  BY <1>26, Zenon DEF KillAbandon, Ready
<1>27. CASE Killed
  BY <1>27, Zenon DEF Killed, Ready, Exit
<1>28. CASE Release
  BY <1>28, Zenon DEF Release, Ready
<1>29. ASSUME NEW sig \in WatchSignals, Deliver(sig) PROVE FlagsOK'
  BY <1>29, Zenon DEF Deliver, sig_catch, Default, Exit
<1>30. CASE Exec
  BY <1>30, Zenon DEF Exec
<1>31. CASE ExecFails
  BY <1>31, Zenon DEF ExecFails, Fatal
<1>32. ASSUME NEW s \in Statuses, ChildExit(s) PROVE FlagsOK'
  BY <1>32, Zenon DEF ChildExit
<1>33. ASSUME NEW k \in Outputs, Speak(k) PROVE FlagsOK'
  BY <1>33, Zenon DEF Speak
<1>34. CASE CloseStderr
  BY <1>34, Zenon DEF CloseStderr
<1>35. CASE EnterD
  BY <1>35, Zenon DEF EnterD
<1>36. CASE LeaveD
  BY <1>36, Zenon DEF LeaveD
<1>37. CASE OrphanDies
  BY <1>37, Zenon DEF OrphanDies, RangesOK
<1>38. ASSUME NEW sig \in UserSignals, UserSignal(sig) PROVE FlagsOK'
  BY <1>38, Zenon DEF UserSignal
<1>39. CASE Expire
  BY <1>39, Zenon DEF Expire
<1>40. CASE Tick
  BY <1>40, Zenon DEF Tick, Advance, Count
<1>41. CASE UNCHANGED vars
  BY <1>41 DEF vars
<1> QED
  BY <1>1, <1>2, <1>3, <1>4, <1>5, <1>6, <1>7, <1>8, <1>9, <1>10, <1>11, <1>12,
     <1>13, <1>14, <1>15, <1>16, <1>17, <1>18, <1>19, <1>20, <1>21, <1>22,
     <1>23, <1>24, <1>25, <1>26, <1>27, <1>28, <1>29, <1>30, <1>31, <1>32,
     <1>33, <1>34, <1>35, <1>36, <1>37, <1>38, <1>39, <1>40, <1>41
     DEF Next, Autossh, SshRun, SshWatch, SshKill, Child, User, Finished

\* Labels, signals, process states and messages keep their kinds.
LEMMA KindsStep ==
  ASSUME IInv, [Next]_vars
  PROVE  KindsOK'
<1> USE DEF control, mask, flags, signals, session, process, pipe, timers,
            IInv, TypeOK, KindsOK, Labels, Returns
<1>1. CASE StopStarting
  BY <1>1 DEF StopStarting, Ready, Exit
<1>2. CASE BeginStart
  BY <1>2 DEF BeginStart, Ready, Tries
<1>3. CASE GraceOver
  BY <1>3 DEF GraceOver, Ready
<1>4. CASE PortDelayOver
  BY <1>4 DEF PortDelayOver, Ready
<1>5. CASE CheckExit
  BY <1>5 DEF CheckExit, Ready, Exit
<1>6. CASE Prepare
  BY <1>6 DEF Prepare, Ready
<1>7. ASSUME NEW p \in BOOLEAN, Fork(p) PROVE KindsOK'
  BY <1>7 DEF Fork, Ready
<1>8. CASE ForkFails
  BY <1>8 DEF ForkFails, Ready, ForkError
<1>9. CASE XErrlog
  BY <1>9 DEF XErrlog, Ready, ssh_kill
<1>10. CASE InstallHandlers
  BY <1>10 DEF InstallHandlers, Ready
<1>11. CASE Leave
  BY <1>11 DEF Leave, Ready, AlarmCleared
<1>12. CASE UnsetHandlers
  BY <1>12 DEF UnsetHandlers, Ready
<1>13. CASE Enter
  BY <1>13 DEF Enter, Ready
<1>14. CASE Top
  BY <1>14 DEF Top, Ready, TopMask, RestartAsked, ssh_kill
<1>15. CASE TryReap
  BY <1>15, NamedMembers
     DEF TryReap, Ready, Ended, check_ssh_stderr, ExitPolicy
<1>16. CASE TryArm
  BY <1>16 DEF TryArm, Ready, Ended, ExitAsked, ssh_kill
<1>17. CASE Catch
  BY <1>17, NamedMembers DEF Catch, Ready, ssh_kill
<1>18. CASE AlarmKill
  BY <1>18 DEF AlarmKill, Ready, ssh_kill
<1>19. CASE Ret
  BY <1>19 DEF Ret, Ready, RetMask
<1>20. ASSUME NEW hit \in Hits, WaitReadable(hit) PROVE KindsOK'
  BY <1>20 DEF WaitReadable, JumpAfterPoll, check_ssh_stderr, ssh_kill
<1>21. ASSUME NEW hit \in Hits, AlarmDrain(hit) PROVE KindsOK'
  BY <1>21 DEF AlarmDrain, Ready, check_ssh_stderr, ssh_kill
<1>22. CASE WaitHangup
  BY <1>22 DEF WaitHangup, JumpAfterPoll
<1>23. ASSUME NEW up \in BOOLEAN, ConnTest(up) PROVE KindsOK'
  BY <1>23 DEF ConnTest, Ready, ssh_kill
<1>24. CASE KillReap
  BY <1>24, NamedMembers DEF KillReap, Ready, TurnsLeft, Phase, Reaped
<1>25. CASE KillEscalate
  <2>1. CASE child \in {"starting", "failing", "alive"}
    BY <1>25, <2>1, NamedMembers DEF KillEscalate
  <2>2. CASE child \notin {"starting", "failing", "alive"}
    BY <1>25, <2>2 DEF KillEscalate
  <2> QED BY <2>1, <2>2
<1>26. CASE KillAbandon
  BY <1>26, NamedMembers DEF KillAbandon, Ready
<1>27. CASE Killed
  BY <1>27 DEF Killed, Ready, Exit
<1>28. CASE Release
  BY <1>28 DEF Release, Ready
<1>29. ASSUME NEW sig \in WatchSignals, Deliver(sig) PROVE KindsOK'
  BY <1>29 DEF Deliver, sig_catch, Default, Exit
<1>30. CASE Exec
  BY <1>30 DEF Exec
<1>31. CASE ExecFails
  BY <1>31, NamedMembers DEF ExecFails, Fatal
<1>32. ASSUME NEW s \in Statuses, ChildExit(s) PROVE KindsOK'
  BY <1>32, NamedMembers DEF ChildExit
<1>33. ASSUME NEW k \in Outputs, Speak(k) PROVE KindsOK'
  BY <1>33, ConstantsOK DEF Speak
<1>34. CASE CloseStderr
  BY <1>34 DEF CloseStderr
<1>35. CASE EnterD
  BY <1>35 DEF EnterD
<1>36. CASE LeaveD
  <2>1. CASE child = "dstate"
    BY <1>36, <2>1 DEF LeaveD
  <2>2. CASE child = "doomed"
    BY <1>36, <2>2, NamedMembers DEF LeaveD
  <2> QED BY <1>36, <2>1, <2>2 DEF LeaveD
<1>37. CASE OrphanDies
  BY <1>37, NamedMembers DEF OrphanDies, RangesOK
<1>38. ASSUME NEW sig \in UserSignals, UserSignal(sig) PROVE KindsOK'
  BY <1>38, ConstantsOK DEF UserSignal
<1>39. CASE Expire
  BY <1>39, NamedMembers DEF Expire
<1>40. CASE Tick
  BY <1>40 DEF Tick, Advance, Count
<1>41. CASE UNCHANGED vars
  BY <1>41 DEF vars
<1> QED
  BY <1>1, <1>2, <1>3, <1>4, <1>5, <1>6, <1>7, <1>8, <1>9, <1>10, <1>11, <1>12,
     <1>13, <1>14, <1>15, <1>16, <1>17, <1>18, <1>19, <1>20, <1>21, <1>22,
     <1>23, <1>24, <1>25, <1>26, <1>27, <1>28, <1>29, <1>30, <1>31, <1>32,
     <1>33, <1>34, <1>35, <1>36, <1>37, <1>38, <1>39, <1>40, <1>41
     DEF Next, Autossh, SshRun, SshWatch, SshKill, Child, User, Finished

\* ssh_watch never sets an alarm beyond the larger poll time.
LEMMA ArmRange ==
  ASSUME RangesOK
  PROVE  Arm(SecsLeft) \in Off .. AlarmCap
BY CapFacts, ConstantsOK DEF RangesOK, Arm, SecsLeft, MyPollTime, Larger, Off

\* A second passes within the ranges.
LEMMA TickRanges ==
  ASSUME RangesOK, Tick
  PROVE  RangesOK'
<1>1. max_session \in Nat /\ -1 = Off
  BY ConstantsOK DEF Off
<1>2. age' \in 0 .. AgeCap /\ uptime' \in 0 .. UptimeCap
  BY AdvanceRange, CapFacts DEF RangesOK, Tick
<1>3. alarm' \in Off .. AlarmCap
  BY CountRange, CapFacts DEF RangesOK, Tick
<1>4. nap' \in 0 .. NapCap
  <2>1. nap \in Off .. NapCap
    BY CapFacts DEF RangesOK, Off
  <2> QED BY <2>1, CountRange, CapFacts DEF RangesOK, Tick
<1>5. lost' \in Off .. max_session
  <2>1. CASE lost = Off
    BY <1>1, <2>1 DEF Tick, Off
  <2>2. CASE lost # Off
    <3>1. lost \in 0 .. max_session
      BY <1>1, <2>2 DEF RangesOK, Off
    <3>2. lost' \in 0 .. max_session
      BY <1>1, <2>2, <3>1, AdvanceRange DEF Tick
    <3> QED BY <1>1, <3>2 DEF Off
  <2> QED BY <2>1, <2>2
<1>6. UNCHANGED <<start_count, tries, orphans, unreaped, waited>>
  BY DEF Tick, process
<1> QED BY <1>2, <1>3, <1>4, <1>5, <1>6 DEF RangesOK

\* A second passes, an alarm expires, an abandoned child ends: what each does to
\* the countdown or counter it changes.
LEMMA TickAlarm ==
  ASSUME RangesOK, Tick
  PROVE  alarm' # Off <=> alarm # Off
BY CountRange, CapFacts DEF RangesOK, Tick

LEMMA ExpireAlarm ==
  ASSUME Expire
  PROVE  alarm # Off /\ alarm' = Off /\ "ALRM" \in pending' /\ pending \subseteq pending'
BY DEF Expire, Off

LEMMA OrphanCount ==
  ASSUME RangesOK, OrphanDies
  PROVE  orphans' \in Nat /\ unreaped' \in Nat
         /\ orphans' + unreaped' = orphans + unreaped
BY DEF RangesOK, OrphanDies

\* A step that leaves counters and stopwatches alone or resets them.
LEMMA RangesReset ==
  ASSUME RangesOK, UNCHANGED <<start_count, orphans, unreaped>>,
         tries' \in {tries, 0}, alarm' \in {alarm, Off},
         nap' \in {nap, 0, 1, PORT_FWD_FAIL_DELAY},
         waited' \in {waited, 0}, age' \in {age, 0}, uptime' \in {uptime, 0},
         lost' \in {lost, Off, 0}
  PROVE  RangesOK'
BY CapFacts, ConstantsOK DEF RangesOK, Off

\* Counters and stopwatches keep their ranges.  A child is given up only when it
\* was held in an uninterruptible call when SIGKILL was sent, so the count of the
\* given up stays bounded.
LEMMA RangesStep ==
  ASSUME IInv, [Next]_vars
  PROVE  RangesOK'
<1>0. RangesOK
  BY DEF IInv, TypeOK
<1> USE DEF control, mask, flags, signals, session, process, pipe, timers
<1>1. CASE StopStarting
  BY <1>0, <1>1, RangesReset DEF StopStarting, Ready, Exit
<1>2. CASE BeginStart
  <2>1. Tries \in 0 .. TriesCap
    BY <1>0, CapFacts, ConstantsOK DEF RangesOK, Tries
  <2>2. Interval(Tries) \in 0 .. NapCap
    BY <2>1, IntervalRange, CapFacts, ConstantsOK
  <2>3. start_count' \in 0 .. StartCap
    BY <1>0, <1>2, CapFacts DEF RangesOK, BeginStart
  <2> QED
    BY <1>0, <1>2, <2>1, <2>2, <2>3 DEF RangesOK, BeginStart
<1>3. CASE GraceOver
  BY <1>0, <1>3, RangesReset DEF GraceOver, Ready
<1>4. CASE PortDelayOver
  BY <1>0, <1>4, RangesReset DEF PortDelayOver, Ready
<1>5. CASE CheckExit
  BY <1>0, <1>5, RangesReset DEF CheckExit, Ready, Exit
<1>6. CASE Prepare
  BY <1>0, <1>6, RangesReset DEF Prepare, Ready
<1>7. ASSUME NEW p \in BOOLEAN, Fork(p) PROVE RangesOK'
  BY <1>0, <1>7, RangesReset DEF Fork, Ready
<1>8. CASE ForkFails
  BY <1>0, <1>8, RangesReset DEF ForkFails, Ready, ForkError
<1>9. CASE XErrlog
  BY <1>0, <1>9, RangesReset DEF XErrlog, Ready, ssh_kill
<1>10. CASE InstallHandlers
  BY <1>0, <1>10, RangesReset DEF InstallHandlers, Ready
<1>11. CASE Leave
  BY <1>0, <1>11, RangesReset DEF Leave, Ready, AlarmCleared
<1>12. CASE UnsetHandlers
  BY <1>0, <1>12, RangesReset DEF UnsetHandlers, Ready
<1>13. CASE Enter
  BY <1>0, <1>13, RangesReset DEF Enter, Ready
<1>14. CASE Top
  BY <1>0, <1>14, RangesReset DEF Top, Ready, TopMask, RestartAsked, ssh_kill
<1>15. CASE TryReap
  BY <1>0, <1>15, RangesReset DEF TryReap, Ready, Ended, check_ssh_stderr, ExitPolicy
<1>16. CASE TryArm
  <2>1. alarm' \in Off .. AlarmCap
    BY <1>0, <1>16, ArmRange DEF RangesOK, TryArm
  <2>2. waited' \in 0 .. Larger(SIGTERM_GRACE, SIGKILL_WAIT)
    BY <1>0, <1>16, CapFacts DEF RangesOK, TryArm, ssh_kill
  <2> QED
    BY <1>0, <1>16, <2>1, <2>2 DEF RangesOK, TryArm
<1>17. CASE Catch
  BY <1>0, <1>17, RangesReset DEF Catch, Ready, ssh_kill
<1>18. CASE AlarmKill
  BY <1>0, <1>18, RangesReset DEF AlarmKill, Ready, ssh_kill
<1>19. CASE Ret
  BY <1>0, <1>19, RangesReset DEF Ret, Ready, RetMask
<1>20. ASSUME NEW hit \in Hits, WaitReadable(hit) PROVE RangesOK'
  BY <1>0, <1>20, RangesReset DEF WaitReadable, ssh_kill
<1>21. ASSUME NEW hit \in Hits, AlarmDrain(hit) PROVE RangesOK'
  BY <1>0, <1>21, RangesReset DEF AlarmDrain, Ready, check_ssh_stderr, ssh_kill
<1>22. CASE WaitHangup
  BY <1>0, <1>22, RangesReset DEF WaitHangup, JumpAfterPoll
<1>23. ASSUME NEW up \in BOOLEAN, ConnTest(up) PROVE RangesOK'
  BY <1>0, <1>23, RangesReset DEF ConnTest, Ready, ssh_kill
<1>24. CASE KillReap
  <2>1. waited' \in 0 .. Larger(SIGTERM_GRACE, SIGKILL_WAIT)
    BY <1>0, <1>24, CapFacts, ConstantsOK DEF RangesOK, KillReap, TurnsLeft, Phase
  <2>2. nap' \in 0 .. NapCap
    BY <1>0, <1>24, CapFacts DEF RangesOK, KillReap
  <2> QED
    BY <1>0, <1>24, <2>1, <2>2 DEF RangesOK, KillReap
<1>25. CASE KillEscalate
  BY <1>0, <1>25, RangesReset DEF KillEscalate, Ready
<1>26. CASE KillAbandon
  <2>1. waited # 0
    BY <1>26, ConstantsOK DEF KillAbandon, Ready, TurnsLeft, Phase
  <2>2. orphans + unreaped < MaxOrphans
    BY <1>26, <2>1 DEF KillAbandon, Ready, IInv, ChildInv
  <2>3. orphans' \in Nat /\ unreaped' \in Nat /\ orphans' + unreaped' <= MaxOrphans
    BY <1>0, <1>26, <2>2, ConstantsOK DEF RangesOK, KillAbandon
  <2> QED
    BY <1>0, <1>26, <2>3, CapFacts DEF RangesOK, KillAbandon
<1>27. CASE Killed
  BY <1>0, <1>27, RangesReset DEF Killed, Ready, Exit
<1>28. CASE Release
  BY <1>0, <1>28, RangesReset DEF Release, Ready
<1>29. ASSUME NEW sig \in WatchSignals, Deliver(sig) PROVE RangesOK'
  BY <1>0, <1>29, RangesReset DEF Deliver, sig_catch, Default, Exit
<1>30. CASE Exec
  BY <1>0, <1>30, RangesReset DEF Exec
<1>31. CASE ExecFails
  BY <1>0, <1>31, RangesReset DEF ExecFails, Fatal
<1>32. ASSUME NEW s \in Statuses, ChildExit(s) PROVE RangesOK'
  BY <1>0, <1>32, RangesReset DEF ChildExit
<1>33. ASSUME NEW k \in Outputs, Speak(k) PROVE RangesOK'
  BY <1>0, <1>33, RangesReset DEF Speak
<1>34. CASE CloseStderr
  BY <1>0, <1>34, RangesReset DEF CloseStderr
<1>35. CASE EnterD
  BY <1>0, <1>35, RangesReset DEF EnterD
<1>36. CASE LeaveD
  BY <1>0, <1>36, RangesReset DEF LeaveD
<1>37. CASE OrphanDies
  BY <1>0, <1>37, OrphanCount DEF RangesOK, OrphanDies
<1>38. ASSUME NEW sig \in UserSignals, UserSignal(sig) PROVE RangesOK'
  BY <1>0, <1>38, RangesReset DEF UserSignal
<1>39. CASE Expire
  BY <1>0, <1>39, RangesReset DEF Expire
<1>40. CASE Tick
  BY <1>0, TickRanges, <1>40
<1>41. CASE UNCHANGED vars
  BY <1>0, <1>41, RangesReset DEF vars
<1> QED
  BY <1>1, <1>2, <1>3, <1>4, <1>5, <1>6, <1>7, <1>8, <1>9, <1>10, <1>11, <1>12,
     <1>13, <1>14, <1>15, <1>16, <1>17, <1>18, <1>19, <1>20, <1>21, <1>22,
     <1>23, <1>24, <1>25, <1>26, <1>27, <1>28, <1>29, <1>30, <1>31, <1>32,
     <1>33, <1>34, <1>35, <1>36, <1>37, <1>38, <1>39, <1>40, <1>41
     DEF Next, Autossh, SshRun, SshWatch, SshKill, Child, User, Finished
=============================================================================
