-------------------------- MODULE SupervisorProofs --------------------------
(***************************************************************************)
(* Proofs about the supervision loop, for every value of its constants:    *)
(* its inductive invariant and the safety properties that follow.          *)
(***************************************************************************)
EXTENDS SupervisorTypes

(***************************************************************************)
(* A step keeps the parts of the inductive invariant that relate signals,  *)
(* child and timers to the place in the code.                              *)
(***************************************************************************)

\* An exit signal noticed after the alarm is set goes straight to ssh_kill.
LEMMA ArmKill ==
  ASSUME SignalInv, ChildInv, TryArm, ExitAsked
  PROVE  SignalInv'
<1>1. pc = "try" /\ cchild = 1
  BY DEF TryArm, Ready, ChildInv, ChildLabels
<1>2. pc' = "kterm" /\ UNCHANGED <<blocked, handlers, dolongjmp>>
  BY <1>1 DEF TryArm, ssh_kill
<1> QED
  BY <1>1, <1>2 DEF SignalInv, InWatch, KillLabels, ChildLabels, EndLabels

\* The handlers, the mask and the jump flag are set where they should be.
LEMMA SignalStep ==
  ASSUME IInv, [Next]_vars
  PROVE  SignalInv'
<1> USE DEF control, mask, flags, signals, session, process, pipe, timers,
            IInv, TypeOK, FlagsOK, SignalInv, ChildInv, ExitSignals, InWatch,
            KillLabels, ChildLabels, EndLabels
<1>1. CASE StopStarting
  BY <1>1 DEF StopStarting, Ready, Exit
<1>2. CASE BeginStart
  BY <1>2 DEF BeginStart, Ready, Tries
<1>3. CASE GraceOver
  BY <1>3 DEF GraceOver, Ready
<1>4. CASE PortDelayOver
  BY <1>4 DEF PortDelayOver, Ready
<1>5. CASE CheckExit
  BY <1>5 DEF CheckExit, Ready, Exit
<1>6. CASE Prepare
  BY <1>6 DEF Prepare, Ready
<1>7. ASSUME NEW p \in BOOLEAN, Fork(p) PROVE SignalInv'
  BY <1>7 DEF Fork, Ready
<1>8. CASE ForkFails
  BY <1>8 DEF ForkFails, Ready, ForkError
<1>9. CASE XErrlog
  BY <1>9 DEF XErrlog, Ready, ssh_kill
<1>10. CASE InstallHandlers
  BY <1>10 DEF InstallHandlers, Ready
<1>11. CASE Leave
  BY <1>11 DEF Leave, Ready, AlarmCleared
<1>12. CASE UnsetHandlers
  BY <1>12 DEF UnsetHandlers, Ready
<1>13. CASE Enter
  BY <1>13 DEF Enter, Ready
<1>14. CASE Top
  BY <1>14 DEF Top, Ready, TopMask, RestartAsked, ssh_kill
<1>15. CASE TryReap
  BY <1>15 DEF TryReap, Ready, Ended, check_ssh_stderr, ExitPolicy
<1>16. CASE TryArm
  <2>1. CASE ExitAsked
    BY <1>16, <2>1, ArmKill
  <2>2. CASE ~ExitAsked
    BY <1>16, <2>2 DEF TryArm, Ready, ExitAsked
  <2> QED BY <2>1, <2>2
<1>17. CASE Catch
  BY <1>17 DEF Catch, Ready, ssh_kill
<1>18. CASE AlarmKill
  BY <1>18 DEF AlarmKill, Ready, ssh_kill
<1>19. CASE Ret
  BY <1>19 DEF Ret, Ready, RetMask
<1>20. ASSUME NEW hit \in Hits, WaitReadable(hit) PROVE SignalInv'
  BY <1>20 DEF WaitReadable, JumpAfterPoll, check_ssh_stderr, ssh_kill
<1>21. ASSUME NEW hit \in Hits, AlarmDrain(hit) PROVE SignalInv'
  BY <1>21 DEF AlarmDrain, Ready, check_ssh_stderr, ssh_kill
<1>22. CASE WaitHangup
  BY <1>22 DEF WaitHangup, JumpAfterPoll
<1>23. ASSUME NEW up \in BOOLEAN, ConnTest(up) PROVE SignalInv'
  BY <1>23 DEF ConnTest, Ready, ssh_kill
<1>24. CASE KillReap
  BY <1>24 DEF KillReap, Ready, TurnsLeft, Phase, Reaped
<1>25. CASE KillEscalate
  BY <1>25 DEF KillEscalate, Ready
<1>26. CASE KillAbandon
  BY <1>26 DEF KillAbandon, Ready
<1>27. CASE Killed
  BY <1>27 DEF Killed, Ready, Exit
<1>28. CASE Release
  BY <1>28 DEF Release, Ready
<1>29. ASSUME NEW sig \in WatchSignals, Deliver(sig) PROVE SignalInv'
  BY <1>29 DEF Deliver, sig_catch, Default, Exit
<1>30. CASE Exec
  BY <1>30 DEF Exec
<1>31. CASE ExecFails
  BY <1>31 DEF ExecFails, Fatal
<1>32. ASSUME NEW s \in Statuses, ChildExit(s) PROVE SignalInv'
  BY <1>32 DEF ChildExit
<1>33. ASSUME NEW k \in Outputs, Speak(k) PROVE SignalInv'
  BY <1>33 DEF Speak
<1>34. CASE CloseStderr
  BY <1>34 DEF CloseStderr
<1>35. CASE EnterD
  BY <1>35 DEF EnterD
<1>36. CASE LeaveD
  BY <1>36 DEF LeaveD
<1>37. CASE OrphanDies
  BY <1>37 DEF OrphanDies, RangesOK
<1>38. ASSUME NEW sig \in UserSignals, UserSignal(sig) PROVE SignalInv'
  BY <1>38 DEF UserSignal
<1>39. CASE Expire
  BY <1>39 DEF Expire
<1>40. CASE Tick
  BY <1>40 DEF Tick, Advance, Count
<1>41. CASE UNCHANGED vars
  BY <1>41 DEF vars
<1> QED
  BY <1>1, <1>2, <1>3, <1>4, <1>5, <1>6, <1>7, <1>8, <1>9, <1>10, <1>11, <1>12,
     <1>13, <1>14, <1>15, <1>16, <1>17, <1>18, <1>19, <1>20, <1>21, <1>22,
     <1>23, <1>24, <1>25, <1>26, <1>27, <1>28, <1>29, <1>30, <1>31, <1>32,
     <1>33, <1>34, <1>35, <1>36, <1>37, <1>38, <1>39, <1>40, <1>41
     DEF Next, Autossh, SshRun, SshWatch, SshKill, Child, User, Finished

\* ssh_watch calls ssh_kill only for a child that exists.
LEMMA KillEntered ==
  ASSUME ChildInv, pc \in {"top", "try", "wait", "catch", "alrm", "conn"},
         NEW r \in {"restart", "release", "exitok", "exiterr"},
         ssh_kill(r), UNCHANGED process
  PROVE  ChildInv'
<1>1. cchild = 1 /\ child # "none"
  BY DEF ChildInv, ChildLabels
<1>2. pc' = "kterm" /\ rv' = r /\ UNCHANGED <<cchild, child, orphans, unreaped>>
  BY <1>1 DEF ssh_kill, process
<1> QED BY <1>1, <1>2 DEF ChildInv, ChildLabels, KillLabels


\* cchild names the live child at every label that may signal it.
LEMMA ChildStep ==
  ASSUME IInv, [Next]_vars
  PROVE  ChildInv'
<1>0. RangesOK
  BY DEF IInv, TypeOK
<1> USE DEF control, mask, flags, signals, session, process, pipe, timers,
            IInv, TypeOK, KindsOK, SignalInv, ChildInv, InWatch, KillLabels,
            ChildLabels, EndLabels
<1>1. CASE StopStarting
  BY <1>1 DEF StopStarting, Ready, Exit
<1>2. CASE BeginStart
  BY <1>2 DEF BeginStart, Ready, Tries
<1>3. CASE GraceOver
  BY <1>3 DEF GraceOver, Ready
<1>4. CASE PortDelayOver
  BY <1>4 DEF PortDelayOver, Ready
<1>5. CASE CheckExit
  BY <1>5 DEF CheckExit, Ready, Exit
<1>6. CASE Prepare
  BY <1>6 DEF Prepare, Ready
<1>7. ASSUME NEW p \in BOOLEAN, Fork(p) PROVE ChildInv'
  BY <1>7 DEF Fork, Ready
<1>8. CASE ForkFails
  BY <1>8 DEF ForkFails, Ready, ForkError
<1>9. CASE XErrlog
  BY <1>9 DEF XErrlog, Ready, ssh_kill
<1>10. CASE InstallHandlers
  BY <1>10 DEF InstallHandlers, Ready
<1>11. CASE Leave
  BY <1>11 DEF Leave, Ready, AlarmCleared
<1>12. CASE UnsetHandlers
  BY <1>12 DEF UnsetHandlers, Ready
<1>13. CASE Enter
  BY <1>13 DEF Enter, Ready
<1>14. CASE Top
  <2>1. CASE ssh_kill("restart")
    BY <1>14, <2>1, KillEntered DEF Top, Ready
  <2>2. CASE pc' = "try"
    BY <1>14, <2>2 DEF Top, Ready
  <2> QED BY <1>14, <2>1, <2>2 DEF Top
<1>15. CASE TryReap
  BY <1>15 DEF TryReap, Ready, Ended, check_ssh_stderr, ExitPolicy
<1>16. CASE TryArm
  <2>1. CASE ExitAsked
    BY <1>16, <2>1, KillEntered DEF TryArm, Ready
  <2>2. CASE ~ExitAsked
    BY <1>16, <2>2 DEF TryArm, Ready, Ended
  <2> QED BY <2>1, <2>2
<1>17. CASE Catch
  <2>1. CASE ssh_kill("exiterr")
    BY <1>17, <2>1, KillEntered DEF Catch, Ready
  <2>2. CASE pc' = IF caught = "ALRM" THEN "alrm" ELSE "top"
    BY <1>17, <2>2 DEF Catch, Ready
  <2> QED BY <1>17, <2>1, <2>2 DEF Catch
<1>18. CASE AlarmKill
  BY <1>18, KillEntered DEF AlarmKill, Ready
<1>19. CASE Ret
  BY <1>19 DEF Ret, Ready, RetMask
<1>20. ASSUME NEW hit \in Hits, WaitReadable(hit) PROVE ChildInv'
  <2>2. CASE hit # "none"
    BY <1>20, <2>2, KillEntered DEF WaitReadable
  <2>3. CASE hit = "none"
    BY <1>20, <2>3 DEF WaitReadable
  <2> QED BY <2>2, <2>3
<1>21. ASSUME NEW hit \in Hits, AlarmDrain(hit) PROVE ChildInv'
  <2>1. CASE ssh_kill("release")
    BY <1>21, <2>1, KillEntered DEF AlarmDrain, Ready
  <2>2. CASE pc' = IF Monitoring THEN "conn" ELSE "top"
    BY <1>21, <2>2 DEF AlarmDrain, Ready
  <2> QED BY <1>21, <2>1, <2>2 DEF AlarmDrain
<1>22. CASE WaitHangup
  BY <1>22 DEF WaitHangup, JumpAfterPoll
<1>23. ASSUME NEW up \in BOOLEAN, ConnTest(up) PROVE ChildInv'
  <2>1. CASE ssh_kill("restart")
    BY <1>23, <2>1, KillEntered DEF ConnTest, Ready
  <2>2. CASE pc' = "top"
    BY <1>23, <2>2 DEF ConnTest, Ready
  <2> QED BY <1>23, <2>1, <2>2 DEF ConnTest
<1>24. CASE KillReap
  BY <1>24 DEF KillReap, Ready, TurnsLeft, Phase, Reaped
<1>25. CASE KillEscalate
  BY <1>25 DEF KillEscalate, Ready
<1>26. CASE KillAbandon
  BY <1>26 DEF KillAbandon, Ready
<1>27. CASE Killed
  BY <1>27 DEF Killed, Ready, Exit
<1>28. CASE Release
  BY <1>28 DEF Release, Ready
<1>29. ASSUME NEW sig \in WatchSignals, Deliver(sig) PROVE ChildInv'
  BY <1>29 DEF Deliver, sig_catch, Default, Exit
<1>30. CASE Exec
  BY <1>30 DEF Exec
<1>31. CASE ExecFails
  BY <1>31 DEF ExecFails, Fatal
<1>32. ASSUME NEW s \in Statuses, ChildExit(s) PROVE ChildInv'
  BY <1>32 DEF ChildExit
<1>33. ASSUME NEW k \in Outputs, Speak(k) PROVE ChildInv'
  BY <1>33 DEF Speak
<1>34. CASE CloseStderr
  BY <1>34 DEF CloseStderr
<1>35. CASE EnterD
  BY <1>35 DEF EnterD
<1>36. CASE LeaveD
  BY <1>36 DEF LeaveD
<1>37. CASE OrphanDies
  BY <1>0, <1>37, OrphanCount DEF OrphanDies
<1>38. ASSUME NEW sig \in UserSignals, UserSignal(sig) PROVE ChildInv'
  BY <1>38 DEF UserSignal
<1>39. CASE Expire
  BY <1>39 DEF Expire
<1>40. CASE Tick
  BY <1>40 DEF Tick, Advance, Count
<1>41. CASE UNCHANGED vars
  BY <1>41 DEF vars
<1> QED
  BY <1>1, <1>2, <1>3, <1>4, <1>5, <1>6, <1>7, <1>8, <1>9, <1>10, <1>11, <1>12,
     <1>13, <1>14, <1>15, <1>16, <1>17, <1>18, <1>19, <1>20, <1>21, <1>22,
     <1>23, <1>24, <1>25, <1>26, <1>27, <1>28, <1>29, <1>30, <1>31, <1>32,
     <1>33, <1>34, <1>35, <1>36, <1>37, <1>38, <1>39, <1>40, <1>41
     DEF Next, Autossh, SshRun, SshWatch, SshKill, Child, User, Finished

\* Without a maximum lifetime the alarm is never switched off instead of set.
LEMMA ArmPositive ==
  ASSUME RangesOK, max_lifetime = 0
  PROVE  Arm(SecsLeft) # Off
<1> DEFINE left == IF alarm # Off THEN Larger(alarm, 1) ELSE MyPollTime
<1>1. MyPollTime \in Nat \ {0} /\ max_session \in Nat /\ alarm \in Int
  BY CapFacts, ConstantsOK DEF RangesOK, MyPollTime, Off
<1>2. left \in Nat \ {0}
  BY <1>1 DEF Larger
<1>3. SecsLeft = IF max_session > 0 /\ left > max_session THEN max_session ELSE left
  BY DEF SecsLeft
<1> QED BY <1>1, <1>2, <1>3 DEF Arm, Off

\* The alarm runs only under sig_catch, and every wait is timed.
LEMMA TimerStep ==
  ASSUME IInv, [Next]_vars
  PROVE  TimerInv'
<1>0. RangesOK
  BY DEF IInv, TypeOK
<1> USE DEF control, mask, flags, signals, session, process, pipe, timers,
            IInv, TypeOK, FlagsOK, SignalInv, ChildInv, TimerInv, WaitIsTimed,
            InWatch, KillLabels, ChildLabels, EndLabels
<1>1. CASE StopStarting
  BY <1>1 DEF StopStarting, Ready, Exit
<1>2. CASE BeginStart
  BY <1>2 DEF BeginStart, Ready, Tries
<1>3. CASE GraceOver
  BY <1>3 DEF GraceOver, Ready
<1>4. CASE PortDelayOver
  BY <1>4 DEF PortDelayOver, Ready
<1>5. CASE CheckExit
  BY <1>5 DEF CheckExit, Ready, Exit
<1>6. CASE Prepare
  BY <1>6 DEF Prepare, Ready
<1>7. ASSUME NEW p \in BOOLEAN, Fork(p) PROVE TimerInv'
  BY <1>7 DEF Fork, Ready
<1>8. CASE ForkFails
  BY <1>8 DEF ForkFails, Ready, ForkError
<1>9. CASE XErrlog
  BY <1>9 DEF XErrlog, Ready, ssh_kill
<1>10. CASE InstallHandlers
  BY <1>10 DEF InstallHandlers, Ready
<1>11. CASE Leave
  BY <1>11 DEF Leave, Ready, AlarmCleared
<1>12. CASE UnsetHandlers
  BY <1>12 DEF UnsetHandlers, Ready
<1>13. CASE Enter
  BY <1>13 DEF Enter, Ready
<1>14. CASE Top
  BY <1>14 DEF Top, Ready, TopMask, RestartAsked, ssh_kill
<1>15. CASE TryReap
  BY <1>15 DEF TryReap, Ready, Ended, check_ssh_stderr, ExitPolicy
<1>16. CASE TryArm
  <2>1. CASE ExitAsked
    BY <1>16, <2>1 DEF TryArm, Ready, ssh_kill
  <2>2. CASE ~ExitAsked
    <3>1. max_lifetime = 0 => alarm' # Off
      BY <1>16, ArmPositive DEF TryArm
    <3> QED
      BY <1>16, <2>2, <3>1 DEF TryArm, Ready
  <2> QED BY <2>1, <2>2
<1>17. CASE Catch
  BY <1>17 DEF Catch, Ready, ssh_kill
<1>18. CASE AlarmKill
  BY <1>18 DEF AlarmKill, Ready, ssh_kill
<1>19. CASE Ret
  BY <1>19 DEF Ret, Ready, RetMask
<1>20. ASSUME NEW hit \in Hits, WaitReadable(hit) PROVE TimerInv'
  BY <1>20 DEF WaitReadable, JumpAfterPoll, check_ssh_stderr, ssh_kill
<1>21. ASSUME NEW hit \in Hits, AlarmDrain(hit) PROVE TimerInv'
  BY <1>21 DEF AlarmDrain, Ready, check_ssh_stderr, ssh_kill
<1>22. CASE WaitHangup
  BY <1>22 DEF WaitHangup, JumpAfterPoll
<1>23. ASSUME NEW up \in BOOLEAN, ConnTest(up) PROVE TimerInv'
  BY <1>23 DEF ConnTest, Ready, ssh_kill
<1>24. CASE KillReap
  BY <1>24 DEF KillReap, Ready, TurnsLeft, Phase, Reaped
<1>25. CASE KillEscalate
  BY <1>25 DEF KillEscalate, Ready
<1>26. CASE KillAbandon
  BY <1>26 DEF KillAbandon, Ready
<1>27. CASE Killed
  BY <1>27 DEF Killed, Ready, Exit
<1>28. CASE Release
  BY <1>28 DEF Release, Ready
<1>29. ASSUME NEW sig \in WatchSignals, Deliver(sig) PROVE TimerInv'
  BY <1>29 DEF Deliver, sig_catch, Default, Exit
<1>30. CASE Exec
  BY <1>30 DEF Exec
<1>31. CASE ExecFails
  BY <1>31 DEF ExecFails, Fatal
<1>32. ASSUME NEW s \in Statuses, ChildExit(s) PROVE TimerInv'
  BY <1>32 DEF ChildExit
<1>33. ASSUME NEW k \in Outputs, Speak(k) PROVE TimerInv'
  BY <1>33 DEF Speak
<1>34. CASE CloseStderr
  BY <1>34 DEF CloseStderr
<1>35. CASE EnterD
  BY <1>35 DEF EnterD
<1>36. CASE LeaveD
  BY <1>36 DEF LeaveD
<1>37. CASE OrphanDies
  BY <1>37 DEF OrphanDies, RangesOK
<1>38. ASSUME NEW sig \in UserSignals, UserSignal(sig) PROVE TimerInv'
  <2>1. sig # "ALRM"
    BY ConstantsOK DEF WatchSignals
  <2> QED
    BY <1>38, <2>1 DEF UserSignal
<1>39. CASE Expire
  BY <1>39, ExpireAlarm DEF Expire
<1>40. CASE Tick
  <2>1. alarm' # Off <=> alarm # Off
    BY <1>0, <1>40, TickAlarm
  <2> QED
    BY <1>40, <2>1 DEF Tick
<1>41. CASE UNCHANGED vars
  BY <1>41 DEF vars
<1> QED
  BY <1>1, <1>2, <1>3, <1>4, <1>5, <1>6, <1>7, <1>8, <1>9, <1>10, <1>11, <1>12,
     <1>13, <1>14, <1>15, <1>16, <1>17, <1>18, <1>19, <1>20, <1>21, <1>22,
     <1>23, <1>24, <1>25, <1>26, <1>27, <1>28, <1>29, <1>30, <1>31, <1>32,
     <1>33, <1>34, <1>35, <1>36, <1>37, <1>38, <1>39, <1>40, <1>41
     DEF Next, Autossh, SshRun, SshWatch, SshKill, Child, User, Finished

\* autossh ends with no child left.
LEMMA CleanStep ==
  ASSUME IInv, [Next]_vars
  PROVE  CleanExit'
<1> USE DEF control, mask, flags, signals, session, process, pipe, timers,
            IInv, CleanExit, ChildInv, KillLabels, ChildLabels, EndLabels
<1>1. CASE StopStarting
  BY <1>1 DEF StopStarting, Ready, Exit
<1>2. CASE BeginStart
  BY <1>2 DEF BeginStart, Ready, Tries
<1>3. CASE GraceOver
  BY <1>3 DEF GraceOver, Ready
<1>4. CASE PortDelayOver
  BY <1>4 DEF PortDelayOver, Ready
<1>5. CASE CheckExit
  BY <1>5 DEF CheckExit, Ready, Exit
<1>6. CASE Prepare
  BY <1>6 DEF Prepare, Ready
<1>7. ASSUME NEW p \in BOOLEAN, Fork(p) PROVE CleanExit'
  BY <1>7 DEF Fork, Ready
<1>8. CASE ForkFails
  BY <1>8 DEF ForkFails, Ready, ForkError
<1>9. CASE XErrlog
  BY <1>9 DEF XErrlog, Ready, ssh_kill
<1>10. CASE InstallHandlers
  BY <1>10 DEF InstallHandlers, Ready
<1>11. CASE Leave
  BY <1>11 DEF Leave, Ready, AlarmCleared
<1>12. CASE UnsetHandlers
  BY <1>12 DEF UnsetHandlers, Ready
<1>13. CASE Enter
  BY <1>13 DEF Enter, Ready
<1>14. CASE Top
  BY <1>14 DEF Top, Ready, TopMask, RestartAsked, ssh_kill
<1>15. CASE TryReap
  BY <1>15 DEF TryReap, Ready, Ended, check_ssh_stderr, ExitPolicy
<1>16. CASE TryArm
  BY <1>16 DEF TryArm, Ready, Ended, ExitAsked, ssh_kill
<1>17. CASE Catch
  BY <1>17 DEF Catch, Ready, ssh_kill
<1>18. CASE AlarmKill
  BY <1>18 DEF AlarmKill, Ready, ssh_kill
<1>19. CASE Ret
  BY <1>19 DEF Ret, Ready, RetMask
<1>20. ASSUME NEW hit \in Hits, WaitReadable(hit) PROVE CleanExit'
  BY <1>20 DEF WaitReadable, JumpAfterPoll, check_ssh_stderr, ssh_kill
<1>21. ASSUME NEW hit \in Hits, AlarmDrain(hit) PROVE CleanExit'
  BY <1>21 DEF AlarmDrain, Ready, check_ssh_stderr, ssh_kill
<1>22. CASE WaitHangup
  BY <1>22 DEF WaitHangup, JumpAfterPoll
<1>23. ASSUME NEW up \in BOOLEAN, ConnTest(up) PROVE CleanExit'
  BY <1>23 DEF ConnTest, Ready, ssh_kill
<1>24. CASE KillReap
  BY <1>24 DEF KillReap, Ready, TurnsLeft, Phase, Reaped
<1>25. CASE KillEscalate
  BY <1>25 DEF KillEscalate, Ready
<1>26. CASE KillAbandon
  BY <1>26 DEF KillAbandon, Ready
<1>27. CASE Killed
  BY <1>27 DEF Killed, Ready, Exit
<1>28. CASE Release
  BY <1>28 DEF Release, Ready
<1>29. ASSUME NEW sig \in WatchSignals, Deliver(sig) PROVE CleanExit'
  BY <1>29 DEF Deliver, sig_catch, Default, Exit
<1>30. CASE Exec
  BY <1>30 DEF Exec
<1>31. CASE ExecFails
  BY <1>31 DEF ExecFails, Fatal
<1>32. ASSUME NEW s \in Statuses, ChildExit(s) PROVE CleanExit'
  BY <1>32 DEF ChildExit
<1>33. ASSUME NEW k \in Outputs, Speak(k) PROVE CleanExit'
  BY <1>33 DEF Speak
<1>34. CASE CloseStderr
  BY <1>34 DEF CloseStderr
<1>35. CASE EnterD
  BY <1>35 DEF EnterD
<1>36. CASE LeaveD
  BY <1>36 DEF LeaveD
<1>37. CASE OrphanDies
  BY <1>37 DEF OrphanDies, RangesOK
<1>38. ASSUME NEW sig \in UserSignals, UserSignal(sig) PROVE CleanExit'
  BY <1>38 DEF UserSignal
<1>39. CASE Expire
  BY <1>39 DEF Expire
<1>40. CASE Tick
  BY <1>40 DEF Tick, Advance, Count
<1>41. CASE UNCHANGED vars
  BY <1>41 DEF vars
<1> QED
  BY <1>1, <1>2, <1>3, <1>4, <1>5, <1>6, <1>7, <1>8, <1>9, <1>10, <1>11, <1>12,
     <1>13, <1>14, <1>15, <1>16, <1>17, <1>18, <1>19, <1>20, <1>21, <1>22,
     <1>23, <1>24, <1>25, <1>26, <1>27, <1>28, <1>29, <1>30, <1>31, <1>32,
     <1>33, <1>34, <1>35, <1>36, <1>37, <1>38, <1>39, <1>40, <1>41
     DEF Next, Autossh, SshRun, SshWatch, SshKill, Child, User, Finished

-----------------------------------------------------------------------------
(***************************************************************************)
(* The theorems.                                                           *)
(***************************************************************************)

\* The state in which main calls ssh_run satisfies the inductive invariant.
LEMMA InitInv == Init => IInv
<1> SUFFICES ASSUME Init PROVE IInv
  OBVIOUS
<1>1. FlagsOK
  BY Zenon DEF Init, FlagsOK
<1>2. KindsOK
  BY NamedMembers DEF Init, KindsOK, Labels, Returns
<1>3. RangesOK
  <2>1. TriesCap \in Nat /\ MaxOrphans \in Nat /\ max_session \in Nat
    BY ConstantsOK
  <2>2. AgeCap \in Nat /\ UptimeCap \in Nat /\ AlarmCap \in Nat /\ NapCap \in Nat
    BY CapFacts
  <2>3. StartCap \in Nat /\ Larger(SIGTERM_GRACE, SIGKILL_WAIT) \in Nat
    BY CapFacts
  <2> QED BY <2>1, <2>2, <2>3 DEF Init, RangesOK, Off
<1>4. SignalInv
  BY DEF Init, SignalInv, InWatch, KillLabels, ChildLabels, EndLabels
<1>5. ChildInv
  BY DEF Init, ChildInv, KillLabels, ChildLabels
<1>6. TimerInv /\ CleanExit
  BY DEF Init, TimerInv, WaitIsTimed, CleanExit
<1> QED
  BY <1>1, <1>2, <1>3, <1>4, <1>5, <1>6 DEF IInv, TypeOK

\* IInv is an invariant of the supervision loop.
THEOREM Invariance == Spec => []IInv
<1>1. IInv /\ [Next]_vars => IInv'
  BY FlagsStep, KindsStep, RangesStep, SignalStep, ChildStep, TimerStep,
     CleanStep DEF IInv, TypeOK
<1> QED
  BY InitInv, <1>1, PTL DEF Spec

\* Every variable of the supervision loop keeps its type and its bound.
THEOREM TypeCorrect == Spec => []TypeOK
<1>1. IInv => TypeOK
  BY DEF IInv
<1> QED
  BY Invariance, <1>1, PTL

\* ssh_watch never waits in ppoll or sigsuspend while a restart or an exit is
\* already recorded, nor on a dead child whose SIGCHLD has been consumed.
THEOREM WakeupSafety == Spec => []NoLostWakeup
<1>1. IInv => NoLostWakeup
  BY DEF IInv, NoLostWakeup, SignalInv, ChildInv
<1> QED
  BY Invariance, <1>1, PTL

\* ssh_kill only ever signals the child autossh forked and has not yet reaped.
THEOREM KillSafety == Spec => []KillsOwnChild
<1>1. IInv => KillsOwnChild
  BY DEF IInv, KillsOwnChild, ChildInv, ChildLabels, KillLabels
<1> QED
  BY Invariance, <1>1, PTL

\* sig_catch's siglongjmp leaves nothing but the wait in ssh_watch.
THEOREM JumpSafety == Spec => []LongjmpInWait
<1>1. IInv => LongjmpInWait
  BY DEF IInv, LongjmpInWait, SignalInv
<1> QED
  BY Invariance, <1>1, PTL

\* ssh_run forks with no child left, the default mask and handlers, no alarm.
THEOREM ForkSafety == Spec => []ForkClean
<1>1. IInv => ForkClean
  BY DEF IInv, ForkClean, SignalInv, ChildInv, TimerInv, InWatch,
         KillLabels, ChildLabels, EndLabels
<1> QED
  BY Invariance, <1>1, PTL

\* No SIGALRM of ssh_watch meets the default action.
THEOREM AlarmSafety == Spec => []AlarmHandled
<1>1. IInv => AlarmHandled
  BY DEF IInv, AlarmHandled, TimerInv
<1> QED
  BY Invariance, <1>1, PTL

\* An autossh that ends in its own time leaves no child it could have reaped.
THEOREM ExitSafety == Spec => []CleanExit
<1>1. IInv => CleanExit
  BY DEF IInv
<1> QED
  BY Invariance, <1>1, PTL

\* Without a maximum lifetime no wait is without an alarm.
THEOREM TimedWait == Spec => []WaitIsTimed
<1>1. IInv => WaitIsTimed
  BY DEF IInv, TimerInv
<1> QED
  BY Invariance, <1>1, PTL
=============================================================================
