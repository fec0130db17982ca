---------------------------- MODULE TunnelProofs ----------------------------
(***************************************************************************)
(* The supervision loop implements Tunnel, for every value of its          *)
(* constants.                                                              *)
(***************************************************************************)
EXTENDS SupervisorProofs

IdleLabels == Labels \ {"done", "fork", "grace", "port", "check"}

Kept == [Promise!Next]_(Promise!tunnel)

\* The mapping, label by label and state by state.
LEMMA Mapping ==
  /\ \A l \in IdleLabels, r \in Returns : TunnelPhase(l, r) = "idle"
  /\ \A l \in {"grace", "port", "check"}, r \in Returns : TunnelPhase(l, r) = "armed"
  /\ \A r \in Returns : TunnelPhase("fork", r) = "committed"
  /\ \A r \in {"forced", "fatal"} : TunnelPhase("done", r) = "cut"
  /\ \A r \in Returns \ {"forced", "fatal"} : TunnelPhase("done", r) = "exited"
  /\ TunnelSsh("none") = "none" /\ TunnelSsh("zombie") = "dead"
  /\ \A c \in {"starting", "failing", "alive", "dstate", "doomed"} :
       TunnelSsh(c) = "live"
BY DEF TunnelPhase, TunnelSsh, IdleLabels, Labels, Returns

\* Steps that Tunnel does not see.
LEMMA Unseen ==
  ASSUME TunnelPhase(pc, rv)' = TunnelPhase(pc, rv),
         TunnelSsh(child)' = TunnelSsh(child),
         UNCHANGED <<start_count, orphans, unreaped, exit_signalled>>
  PROVE  Kept
BY DEF Kept, Promise!tunnel

LEMMA IdleStep ==
  ASSUME pc \in IdleLabels, pc' \in IdleLabels, rv \in Returns, rv' \in Returns,
         UNCHANGED <<child, start_count, orphans, unreaped, exit_signalled>>
  PROVE  Kept
<1>1. TunnelPhase(pc, rv)' = TunnelPhase(pc, rv)
  BY Mapping
<1>2. TunnelSsh(child)' = TunnelSsh(child)
  OBVIOUS
<1> QED BY <1>1, <1>2, Unseen

\* An orderly exit, and one cut short.
LEMMA ExitStep ==
  ASSUME pc \in IdleLabels \cup {"check"}, rv \in Returns, child = "none",
         pc' = "done", rv' \in Returns \ {"forced", "fatal"},
         UNCHANGED <<child, start_count, orphans, unreaped, exit_signalled>>
  PROVE  Kept
<1>1. TunnelPhase(pc, rv) \in {"idle", "armed"} /\ TunnelPhase(pc, rv)' = "exited"
  BY Mapping
<1>2. TunnelSsh(child) = "none" /\ TunnelSsh(child)' = "none"
  BY Mapping
<1> QED BY <1>1, <1>2 DEF Kept, Promise!Next, Promise!Exit

LEMMA CutStep ==
  ASSUME pc \in Labels \ {"done"}, rv \in Returns, pc' = "done",
         rv' \in {"forced", "fatal"},
         UNCHANGED <<child, start_count, orphans, unreaped, exit_signalled>>
  PROVE  Kept
<1>1. TunnelPhase(pc, rv) \notin {"exited", "cut"} /\ TunnelPhase(pc, rv)' = "cut"
  BY Mapping DEF IdleLabels
<1>2. TunnelSsh(child)' = TunnelSsh(child)
  OBVIOUS
<1> QED BY <1>1, <1>2 DEF Kept, Promise!Next, Promise!Cut

\* The child ends, and its end is noticed.
LEMMA DieStep ==
  ASSUME pc \in IdleLabels, rv \in Returns, pc' \in IdleLabels,
         UNCHANGED <<rv, start_count, orphans, unreaped, exit_signalled>>,
         child \in {"starting", "failing", "alive", "dstate", "doomed"},
         child' = "zombie"
  PROVE  Kept
<1>1. TunnelPhase(pc, rv) = "idle" /\ TunnelPhase(pc, rv)' = "idle"
  BY Mapping
<1>2. TunnelSsh(child) = "live" /\ TunnelSsh(child)' = "dead"
  BY Mapping
<1> QED BY <1>1, <1>2 DEF Kept, Promise!Next, Promise!Die

LEMMA ReapStep ==
  ASSUME pc \in IdleLabels, rv \in Returns, pc' \in IdleLabels, rv' \in Returns,
         UNCHANGED <<start_count, orphans, unreaped, exit_signalled>>,
         child = "zombie", child' = "none"
  PROVE  Kept
<1>1. TunnelPhase(pc, rv) = "idle" /\ TunnelPhase(pc, rv)' = "idle"
  BY Mapping
<1>2. TunnelSsh(child) = "dead" /\ TunnelSsh(child)' = "none"
  BY Mapping
<1> QED BY <1>1, <1>2 DEF Kept, Promise!Next, Promise!Reap

\* Which labels have a child.
LEMMA ChildAt ==
  ASSUME IInv
  PROVE  /\ pc \in Labels /\ rv \in Returns
         /\ child # "none" /\ pc # "done" => pc \in IdleLabels
         /\ pc \in {"loop", "grace", "port", "check", "fork", "xerrlog", "killed",
                     "release", "ret", "leave", "unset"} => child = "none"
         /\ child \in {"none", "starting", "failing", "alive", "dstate", "doomed",
                       "zombie"}
BY DEF IInv, TypeOK, KindsOK, ChildInv, ChildLabels, KillLabels, IdleLabels, Labels

\* Steps of the child and the clock that Tunnel does not see.
LEMMA SameSsh ==
  ASSUME UNCHANGED <<pc, rv, start_count, orphans, unreaped, exit_signalled>>,
         \/ child' = child
         \/ /\ child \in {"starting", "failing", "alive", "dstate", "doomed"}
            /\ child' \in {"starting", "failing", "alive", "dstate", "doomed"}
  PROVE  Kept
<1>1. TunnelSsh(child)' = TunnelSsh(child)
  BY Mapping
<1>2. TunnelPhase(pc, rv)' = TunnelPhase(pc, rv)
  OBVIOUS
<1> QED BY <1>1, <1>2, Unseen

\* The delays before a start.
LEMMA ArmedStep ==
  ASSUME pc \in {"grace", "port", "check"}, pc' \in {"grace", "port", "check"},
         rv \in Returns,
         UNCHANGED <<rv, child, start_count, orphans, unreaped, exit_signalled>>
  PROVE  Kept
<1>1. TunnelPhase(pc, rv)' = TunnelPhase(pc, rv)
  BY Mapping
<1>2. TunnelSsh(child)' = TunnelSsh(child)
  OBVIOUS
<1> QED BY <1>1, <1>2, Unseen

\* Every step of the loop, of a signal, of the child and of the clock is a step
\* of Tunnel or leaves Tunnel's state alone.
LEMMA StepKept ==
  ASSUME IInv, [Next]_vars
  PROVE  Kept
<1>0. /\ pc \in Labels /\ rv \in Returns
      /\ child # "none" /\ pc # "done" => pc \in IdleLabels
      /\ pc \in {"loop", "grace", "port", "check", "fork", "xerrlog", "killed",
                  "release", "ret", "leave", "unset"} => child = "none"
      /\ child \in {"none", "starting", "failing", "alive", "dstate", "doomed",
                    "zombie"}
  BY ChildAt
<1> USE DEF control, mask, flags, signals, session, process, pipe, timers
<1>1. CASE StopStarting
  BY <1>0, <1>1, ExitStep DEF StopStarting, Ready, Exit, IdleLabels, Labels, Returns
<1>2. CASE BeginStart
  <2>1. TunnelPhase(pc, rv) = "idle" /\ TunnelPhase(pc, rv)' = "armed"
    BY <1>0, <1>2, Mapping DEF BeginStart, Ready, IdleLabels, Labels
  <2>2. TunnelSsh(child) = "none" /\ TunnelSsh(child)' = "none"
    BY <1>0, <1>2, Mapping DEF BeginStart, Ready
  <2> QED
    BY <1>2, <2>1, <2>2 DEF BeginStart, MoreStarts, Kept, Promise!Next, Promise!Begin
<1>3. CASE GraceOver
  BY <1>0, <1>3, ArmedStep DEF GraceOver, Ready
<1>4. CASE PortDelayOver
  BY <1>0, <1>4, ArmedStep DEF PortDelayOver, Ready
<1>5. CASE CheckExit
  BY <1>0, <1>5, ExitStep DEF CheckExit, Ready, Exit, Returns
<1>6. CASE Prepare
  <2>1. TunnelPhase(pc, rv) = "armed" /\ TunnelPhase(pc, rv)' = "committed"
    BY <1>0, <1>6, Mapping DEF Prepare, Ready
  <2>2. TunnelSsh(child)' = TunnelSsh(child)
    BY <1>6 DEF Prepare
  <2> QED BY <1>6, <2>1, <2>2 DEF Prepare, Kept, Promise!Next, Promise!Commit
<1>7. ASSUME NEW p \in BOOLEAN, Fork(p) PROVE Kept
  <2>1. TunnelPhase(pc, rv) = "committed" /\ TunnelPhase(pc, rv)' = "idle"
    BY <1>0, <1>7, Mapping DEF Fork, Ready, IdleLabels, Labels
  <2>2. TunnelSsh(child)' = "live"
    BY <1>7, Mapping DEF Fork
  <2> QED BY <1>7, <2>1, <2>2 DEF Fork, Kept, Promise!Next, Promise!Start
<1>8. CASE ForkFails
  <2>1. TunnelPhase(pc, rv) = "committed" /\ TunnelPhase(pc, rv)' = "idle"
    BY <1>0, <1>8, Mapping DEF ForkFails, Ready, IdleLabels, Labels
  <2>2. TunnelSsh(child)' = "none"
    BY <1>0, <1>8, Mapping DEF ForkFails, Ready
  <2> QED BY <1>8, <2>1, <2>2 DEF ForkFails, Kept, Promise!Next, Promise!Start
<1>9. CASE XErrlog
  BY <1>0, <1>9, IdleStep DEF XErrlog, Ready, ssh_kill, IdleLabels, Labels, Returns
<1>10. CASE InstallHandlers
  BY <1>0, <1>10, IdleStep DEF InstallHandlers, Ready, IdleLabels, Labels
<1>11. CASE Leave
  BY <1>0, <1>11, IdleStep DEF Leave, Ready, IdleLabels, Labels
<1>12. CASE UnsetHandlers
  <2>1. CASE pc' = "done"
    BY <1>0, <1>12, <2>1, ExitStep DEF UnsetHandlers, Ready, IdleLabels, Labels, Returns
  <2>2. CASE pc' = "loop"
    BY <1>0, <1>12, <2>2, IdleStep DEF UnsetHandlers, Ready, IdleLabels, Labels, Returns
  <2> QED BY <1>12, <2>1, <2>2 DEF UnsetHandlers
<1>13. CASE Enter
  BY <1>0, <1>13, IdleStep DEF Enter, Ready, IdleLabels, Labels
<1>14. CASE Top
  BY <1>0, <1>14, IdleStep DEF Top, Ready, ssh_kill, IdleLabels, Labels, Returns
<1>15. CASE TryReap
  BY <1>0, <1>15, ReapStep DEF TryReap, Ready, Ended, ExitPolicy, IdleLabels, Labels, Returns
<1>16. CASE TryArm
  BY <1>0, <1>16, IdleStep DEF TryArm, Ready, ssh_kill, IdleLabels, Labels, Returns
<1>17. CASE Catch
  BY <1>0, <1>17, IdleStep DEF Catch, Ready, ssh_kill, IdleLabels, Labels, Returns
<1>18. CASE AlarmKill
  BY <1>0, <1>18, IdleStep DEF AlarmKill, Ready, ssh_kill, IdleLabels, Labels, Returns
<1>19. CASE Ret
  BY <1>0, <1>19, IdleStep DEF Ret, Ready, IdleLabels, Labels
<1>20. ASSUME NEW hit \in Hits, WaitReadable(hit) PROVE Kept
  BY <1>0, <1>20, IdleStep DEF WaitReadable, ssh_kill, IdleLabels, Labels, Returns
<1>21. ASSUME NEW hit \in Hits, AlarmDrain(hit) PROVE Kept
  BY <1>0, <1>21, IdleStep DEF AlarmDrain, Ready, ssh_kill, IdleLabels, Labels, Returns
<1>22. CASE WaitHangup
  BY <1>0, <1>22, IdleStep DEF WaitHangup, IdleLabels, Labels
<1>23. ASSUME NEW up \in BOOLEAN, ConnTest(up) PROVE Kept
  BY <1>0, <1>23, IdleStep DEF ConnTest, Ready, ssh_kill, IdleLabels, Labels, Returns
<1>24. CASE KillReap
  <2>1. CASE Reaped
    BY <1>0, <1>24, <2>1, ReapStep DEF KillReap, Ready, Reaped, IdleLabels, Labels,
       IInv, ChildInv, KillLabels, ChildLabels
  <2>2. CASE ~Reaped
    BY <1>0, <1>24, <2>2, SameSsh DEF KillReap
  <2> QED BY <2>1, <2>2
<1>25. CASE KillEscalate
  <2>1. CASE child \in {"starting", "failing", "alive"}
    BY <1>0, <1>25, <2>1, DieStep DEF KillEscalate, Ready, IdleLabels, Labels
  <2>2. CASE child \notin {"starting", "failing", "alive"}
    <3>1. TunnelPhase(pc, rv)' = TunnelPhase(pc, rv)
      BY <1>0, <1>25, Mapping DEF KillEscalate, Ready, IdleLabels, Labels
    <3>2. TunnelSsh(child)' = TunnelSsh(child)
      BY <1>0, <1>25, <2>2, Mapping DEF KillEscalate
    <3> QED BY <1>25, <3>1, <3>2, Unseen DEF KillEscalate
  <2> QED BY <2>1, <2>2
<1>26. CASE KillAbandon
  <2>1. child \in {"zombie", "doomed"}
    BY <1>26 DEF KillAbandon, Ready, IInv, ChildInv
  <2>2. waited # 0
    BY <1>26, ConstantsOK DEF KillAbandon, Ready, TurnsLeft, Phase
  <2>3. orphans + unreaped < MaxOrphans
    BY <1>26, <2>2 DEF KillAbandon, Ready, IInv, ChildInv
  <2>4. TunnelPhase(pc, rv) = "idle" /\ TunnelPhase(pc, rv)' = "idle"
    BY <1>0, <1>26, Mapping DEF KillAbandon, Ready, IdleLabels, Labels
  <2>5. TunnelSsh(child)' = "none"
    BY <1>26, Mapping DEF KillAbandon
  <2>6. CASE child = "zombie"
    <3>1. TunnelSsh(child) = "dead"
      BY <2>6, Mapping
    <3> QED
      BY <1>26, <2>3, <2>4, <2>5, <2>6, <3>1
         DEF KillAbandon, Kept, Promise!Next, Promise!Abandon
  <2>7. CASE child = "doomed"
    <3>1. TunnelSsh(child) = "live"
      BY <2>7, Mapping
    <3> QED
      BY <1>26, <2>3, <2>4, <2>5, <2>7, <3>1
         DEF KillAbandon, Kept, Promise!Next, Promise!Abandon
  <2> QED BY <2>1, <2>6, <2>7
<1>27. CASE Killed
  <2>1. CASE pc' = "done"
    BY <1>0, <1>27, <2>1, ExitStep DEF Killed, Ready, Exit, IdleLabels, Labels, Returns
  <2>2. CASE pc' # "done"
    BY <1>0, <1>27, <2>2, IdleStep DEF Killed, Ready, Exit, IdleLabels, Labels, Returns
  <2> QED BY <2>1, <2>2
<1>28. CASE Release
  BY <1>0, <1>28, IdleStep DEF Release, Ready, IdleLabels, Labels, Returns
<1>29. ASSUME NEW sig \in WatchSignals, Deliver(sig) PROVE Kept
  <2>1. CASE pc' = "done"
    BY <1>0, <1>29, <2>1, CutStep DEF Deliver, sig_catch, Default, Exit, IInv, SignalInv
  <2>2. CASE pc' # "done"
    <3>1. TunnelPhase(pc, rv)' = TunnelPhase(pc, rv)
      <4>1. CASE UNCHANGED <<pc, rv>>
        BY <4>1
      <4>2. CASE pc = "wait" /\ pc' = "catch" /\ rv' = rv
        BY <1>0, <4>2, Mapping DEF IdleLabels, Labels
      <4> QED
        BY <1>29, <2>2, <4>1, <4>2 DEF Deliver, sig_catch, Default, Exit, IInv, SignalInv
    <3>2. TunnelSsh(child)' = TunnelSsh(child)
      BY <1>29 DEF Deliver
    <3>3. TunnelPhase(pc, rv) \notin {"exited", "cut"}
      BY <1>0, <1>29, Mapping DEF Deliver, IdleLabels
    <3>4. exit_signalled' = exit_signalled \/ exit_signalled' = TRUE
      BY <1>29, Zenon DEF Deliver, sig_catch, Default, IInv, TypeOK, FlagsOK
    <3>5. CASE exit_signalled' = exit_signalled
      BY <1>29, <3>1, <3>2, <3>5, Unseen DEF Deliver
    <3>6. CASE exit_signalled' = TRUE
      BY <1>29, <3>1, <3>2, <3>3, <3>6 DEF Deliver, Kept, Promise!Next, Promise!Ask
    <3> QED BY <3>4, <3>5, <3>6
  <2> QED BY <2>1, <2>2
<1>30. CASE Exec
  BY <1>0, <1>30, SameSsh DEF Exec
<1>31. CASE ExecFails
  BY <1>0, <1>31, SameSsh DEF ExecFails
<1>32. ASSUME NEW s \in Statuses, ChildExit(s) PROVE Kept
  BY <1>0, <1>32, DieStep DEF ChildExit
<1>33. ASSUME NEW k \in Outputs, Speak(k) PROVE Kept
  BY <1>0, <1>33, SameSsh DEF Speak
<1>34. CASE CloseStderr
  BY <1>0, <1>34, SameSsh DEF CloseStderr
<1>35. CASE EnterD
  BY <1>0, <1>35, SameSsh DEF EnterD
<1>36. CASE LeaveD
  <2>1. CASE child = "doomed"
    BY <1>0, <1>36, <2>1, DieStep DEF LeaveD
  <2>2. CASE child = "dstate"
    BY <1>0, <1>36, <2>2, SameSsh DEF LeaveD
  <2> QED BY <1>36, <2>1, <2>2 DEF LeaveD
<1>37. CASE OrphanDies
  <2>1. TunnelPhase(pc, rv) \notin {"exited", "cut"}
    BY <1>0, <1>37, Mapping DEF OrphanDies, IdleLabels
  <2>2. TunnelPhase(pc, rv)' = TunnelPhase(pc, rv) /\ TunnelSsh(child)' = TunnelSsh(child)
    BY <1>37 DEF OrphanDies
  <2> QED BY <1>37, <2>1, <2>2 DEF OrphanDies, Kept, Promise!Next, Promise!OrphanEnds
<1>38. ASSUME NEW sig \in UserSignals, UserSignal(sig) PROVE Kept
  BY <1>0, <1>38, SameSsh DEF UserSignal
<1>39. CASE Expire
  BY <1>0, <1>39, SameSsh DEF Expire
<1>40. CASE Tick
  BY <1>0, <1>40, SameSsh DEF Tick
<1>41. CASE UNCHANGED vars
  BY <1>0, <1>41, SameSsh DEF vars
<1> QED
  BY <1>1, <1>2, <1>3, <1>4, <1>5, <1>6, <1>7, <1>8, <1>9, <1>10, <1>11,
     <1>12, <1>13, <1>14, <1>15, <1>16, <1>17, <1>18, <1>19, <1>20, <1>21,
     <1>22, <1>23, <1>24, <1>25, <1>26, <1>27, <1>28, <1>29, <1>30, <1>31,
     <1>32, <1>33, <1>34, <1>35, <1>36, <1>37, <1>38, <1>39, <1>40, <1>41
     DEF Next, Autossh, SshRun, SshWatch, SshKill, Child, User, Finished

\* The supervision loop keeps the promise of Tunnel: one ssh at a time, counted
\* and limited starts, none decided on after an exit signal, nothing left behind
\* at an orderly exit but what could not be killed.
THEOREM Refinement == Spec => TunnelKept
<1>1. Init => Promise!Init
  BY Zenon DEF Init, Promise!Init, TunnelPhase, TunnelSsh
<1>2. IInv /\ [Next]_vars => [Promise!Next]_(Promise!tunnel)
  BY StepKept DEF Kept
<1> QED
  BY <1>1, <1>2, Invariance, PTL DEF Spec, TunnelKept, Promise!Spec
=============================================================================
