---------------------------- MODULE SessionProofs ----------------------------
(***************************************************************************)
(* No supervisor is lost, no stale pid is kept and a stop ends what it     *)
(* took, for any number of threads, one of which starts, and of starts.    *)
(***************************************************************************)
EXTENDS Session, TLAPS

\* The labels, states and fates that the steps assign.
LEMMA Names ==
  /\ "idle" \in Labels /\ "fork" \in Labels /\ "store" \in Labels
  /\ "look" \in Labels /\ "early" \in Labels /\ "connect" \in Labels
  /\ "running" \in Labels /\ "error" \in Labels /\ "swap" \in Labels
  /\ "stopped" \in Labels /\ "load" \in Labels /\ "poll" \in Labels
  /\ "clear" \in Labels /\ "exited" \in Labels /\ "term" \in Labels
  /\ "turn" \in Labels /\ "kill" \in Labels /\ "block" \in Labels
  /\ "STARTING" \in States /\ "RUNNING" \in States /\ "ERROR" \in States
  /\ "STOPPED" \in States /\ "EXITED" \in States
  /\ "alive" \in Fates /\ "doomed" \in Fates /\ "zombie" \in Fates
  /\ "reaped" \in Fates
BY DEF Labels, StopLabels, States, Fates

\* Pids are the positive numbers up to MaxStarts.
LEMMA Sizes ==
  /\ MaxStarts \in Nat /\ StopTurns \in Nat /\ 1 <= StopTurns
  /\ 0 \in 0 .. MaxStarts /\ Pids \subseteq 0 .. MaxStarts /\ 0 \notin Pids
  /\ \A p \in 0 .. MaxStarts : p # 0 => p \in Pids
BY SessionConstants DEF Pids

\* What waitpid can do: it only turns zombies into reaped processes; given a pid
\* it touches no other process, and ECHILD means that one is gone.
LEMMA WaitEffect ==
  ASSUME RangesOK, NEW q \in 0 .. MaxStarts, NEW rc \in Results, waitpid(q, rc)
  PROVE  /\ proc' \in [Pids -> Fates] /\ interrupted' = interrupted
         /\ host' \in {"running", "zombie", "stolen"}
         /\ \A p \in Pids : \/ proc'[p] = proc[p]
                            \/ proc[p] = "zombie" /\ proc'[p] = "reaped"
         /\ q # 0 => \A p \in Pids \ {q} : proc'[p] = proc[p]
         /\ q # 0 => rc \in {q, 0, -1}
         /\ q # 0 /\ rc = q => proc'[q] = "reaped"
         /\ q # 0 /\ rc # q => proc' = proc
         /\ q # 0 /\ rc = -1 => proc[q] \in {"unused", "reaped"}
<1>a. /\ proc \in [Pids -> Fates] /\ host \in {"running", "zombie", "stolen"}
      /\ MaxStarts \in Nat /\ Pids = 1 .. MaxStarts
  BY SessionConstants DEF RangesOK, Pids
<1>1. ASSUME NEW r \in Zombies, Reap(r)
      PROVE  /\ proc' \in [Pids -> Fates] /\ UNCHANGED <<host, interrupted>>
             /\ r \in Pids /\ proc[r] = "zombie" /\ proc'[r] = "reaped"
             /\ \A p \in Pids \ {r} : proc'[p] = proc[p]
  BY <1>1, <1>a, Names DEF Reap, Zombies
<1>2. CASE q = 0
  <2>1. CASE rc \in Zombies /\ Reap(rc)
    BY <1>2, <2>1, <1>1, <1>a
  <2>2. CASE host' = "stolen" /\ UNCHANGED <<proc, interrupted>>
    BY <1>2, <2>2, <1>a
  <2>3. CASE UNCHANGED kernel
    BY <1>2, <2>3, <1>a DEF kernel
  <2> QED
    BY <1>2, <2>1, <2>2, <2>3 DEF waitpid, WaitGroup
<1>3. CASE q # 0
  <2>1. q \in Pids /\ q # -1
    BY <1>3, <1>a
  <2>2. CASE q \in Zombies /\ rc = q /\ Reap(q)
    BY <1>1, <1>3, <1>a, <2>1, <2>2
  <2>3. CASE q \in Living /\ rc = 0 /\ UNCHANGED kernel
    BY <1>3, <1>a, <2>1, <2>3 DEF kernel
  <2>4. CASE q \notin Zombies \cup Living /\ rc = -1 /\ UNCHANGED kernel
    BY <1>3, <1>a, <2>1, <2>4 DEF kernel, Zombies, Living, Fates
  <2> QED
    BY <1>3, <2>2, <2>3, <2>4 DEF waitpid, WaitOne
<1> QED
  BY <1>2, <1>3

\* What a thread knows survives another thread's waitpid, unless it is about to
\* store a pid that the other one could have waited for.
LEMMA Bystander ==
  ASSUME RangesOK, NEW u \in Threads, ThreadInv(u), pid' = pid,
         at'[u] = at[u], mine'[u] = mine[u], turn'[u] = turn[u],
         \A p \in Pids : \/ proc'[p] = proc[p]
                         \/ proc[p] = "zombie" /\ proc'[p] = "reaped",
         at[u] = "store" => /\ proc'[mine[u]] # "reaped"
                            /\ \A v \in Threads \ {u} : mine'[v] # mine[u]
  PROVE  ThreadInv(u)'
BY Sizes DEF RangesOK, ThreadInv, StopLabels

\* Every step keeps the ranges of the state; a stop counts up to StopTurns.
LEMMA RangesStep ==
  ASSUME IInv, [Next]_vars
  PROVE  RangesOK'
<1> USE DEF session, kernel, locals, Go, Keep, IInv, TypeOK, RangesOK
<1>1. ASSUME NEW t \in Threads, Start(t) PROVE RangesOK'
  BY <1>1, Names, Sizes DEF Start, CanCall
<1>2. ASSUME NEW t \in Threads, StartFork(t) PROVE RangesOK'
  BY <1>2, Names, Sizes DEF StartFork
<1>3. ASSUME NEW t \in Threads, StartStore(t) PROVE RangesOK'
  BY <1>3, Names, Sizes DEF StartStore
<1>4. ASSUME NEW t \in Threads, StartLook(t) PROVE RangesOK'
  BY <1>4, Names, Sizes DEF StartLook
<1>5. ASSUME NEW t \in Threads, StartEarly(t) PROVE RangesOK'
  <2>1. /\ proc' \in [Pids -> Fates] /\ interrupted' \subseteq Pids
        /\ host' \in {"running", "zombie", "stolen"}
    BY <1>5, WaitEffect DEF StartEarly
  <2> QED
    BY <1>5, <2>1, Names, Sizes DEF StartEarly
<1>6. ASSUME NEW t \in Threads, StartConnect(t) PROVE RangesOK'
  BY <1>6, Names, Sizes DEF StartConnect
<1>7. ASSUME NEW t \in Threads, StartRunning(t) PROVE RangesOK'
  BY <1>7, Names, Sizes DEF StartRunning
<1>8. ASSUME NEW t \in Threads, StartError(t) PROVE RangesOK'
  BY <1>8, Names, Sizes DEF StartError
<1>9. ASSUME NEW t \in Threads, Stop(t) PROVE RangesOK'
  BY <1>9, Names, Sizes DEF Stop, CanCall
<1>10. ASSUME NEW t \in Threads, Free(t) PROVE RangesOK'
  BY <1>10, Names, Sizes DEF Free, CanCall
<1>11. ASSUME NEW t \in Threads, StopSwap(t) PROVE RangesOK'
  BY <1>11, Names, Sizes DEF StopSwap
<1>12. ASSUME NEW t \in Threads, StopTerm(t) PROVE RangesOK'
  BY <1>12, Names, Sizes DEF StopTerm
<1>13. ASSUME NEW t \in Threads, StopTurn(t) PROVE RangesOK'
  <2>1. turn[t] + 1 \in 0 .. StopTurns
    BY <1>13, Sizes DEF StopTurn, ThreadsInv, ThreadInv
  <2>2. /\ proc' \in [Pids -> Fates] /\ interrupted' \subseteq Pids
        /\ host' \in {"running", "zombie", "stolen"}
    BY <1>13, WaitEffect DEF StopTurn, Target
  <2> QED
    BY <1>13, <2>1, <2>2, Names, Sizes DEF StopTurn
<1>14. ASSUME NEW t \in Threads, StopKill(t) PROVE RangesOK'
  BY <1>14, Names, Sizes DEF StopKill, Target, KillHard, Living
<1>15. ASSUME NEW t \in Threads, StopBlock(t) PROVE RangesOK'
  <2>1. CASE Interrupt(mine[t])
    BY <1>15, <2>1, Names, Sizes DEF StopBlock, Interrupt, Living
  <2>2. CASE ~Interrupt(mine[t])
    BY <1>15, <2>2, Names, Sizes, WaitEffect DEF StopBlock, Target
  <2> QED BY <2>1, <2>2
<1>16. ASSUME NEW t \in Threads, StopStopped(t) PROVE RangesOK'
  BY <1>16, Names, Sizes DEF StopStopped
<1>17. ASSUME NEW t \in Threads, State(t) PROVE RangesOK'
  BY <1>17, Names, Sizes DEF State, CanCall
<1>18. ASSUME NEW t \in Threads, StateLoad(t) PROVE RangesOK'
  BY <1>18, Names, Sizes DEF StateLoad
<1>19. ASSUME NEW t \in Threads, StatePoll(t) PROVE RangesOK'
  <2>1. /\ proc' \in [Pids -> Fates] /\ interrupted' \subseteq Pids
        /\ host' \in {"running", "zombie", "stolen"}
    BY <1>19, WaitEffect DEF StatePoll
  <2> QED
    BY <1>19, <2>1, Names, Sizes DEF StatePoll
<1>20. ASSUME NEW t \in Threads, StateClear(t) PROVE RangesOK'
  BY <1>20, Names, Sizes DEF StateClear, CompareExchange
<1>21. ASSUME NEW t \in Threads, StateExited(t) PROVE RangesOK'
  BY <1>21, Names, Sizes DEF StateExited
<1>22. ASSUME NEW p \in Pids, SupervisorEnds(p) PROVE RangesOK'
  BY <1>22, Names, Sizes DEF SupervisorEnds
<1>23. CASE HostChildEnds
  BY <1>23, Names, Sizes DEF HostChildEnds
<1>24. CASE UNCHANGED vars
  BY <1>24 DEF vars
<1> QED
  BY <1>1, <1>2, <1>3, <1>4, <1>5, <1>6, <1>7, <1>8, <1>9, <1>10, <1>11, <1>12,
     <1>13, <1>14, <1>15, <1>16, <1>17, <1>18, <1>19, <1>20, <1>21, <1>22,
     <1>23, <1>24
     DEF Next, Call, Run, Gone

\* Every step leaves each living or unreaped supervisor with somebody: the pid
\* moves from start's local variable to the session, and from there to one stop,
\* which lets it go unreaped only when its blocking waitpid is interrupted.
LEMMA LostStep ==
  ASSUME IInv, [Next]_vars
  PROVE  NoSupervisorLost'
<1> USE DEF session, kernel, locals, Go, Keep, IInv, TypeOK, RangesOK,
        ThreadsInv, StopLabels
<1>1. ASSUME NEW t \in Threads, Start(t) PROVE NoSupervisorLost'
  BY <1>1, Sizes
     DEF Start, CanCall, NoSupervisorLost, Owns, Living, Zombies, ThreadInv
<1>2. ASSUME NEW t \in Threads, StartFork(t) PROVE NoSupervisorLost'
  BY <1>2, Sizes
     DEF StartFork, NoSupervisorLost, Owns, Living, Zombies, ThreadInv
<1>3. ASSUME NEW t \in Threads, StartStore(t) PROVE NoSupervisorLost'
  BY <1>3, Sizes
     DEF StartStore, NoSupervisorLost, Owns, Living, Zombies, ThreadInv
<1>4. ASSUME NEW t \in Threads, StartLook(t) PROVE NoSupervisorLost'
  BY <1>4, Sizes
     DEF StartLook, NoSupervisorLost, Owns, Living, Zombies, ThreadInv
<1>5. ASSUME NEW t \in Threads, StartEarly(t) PROVE NoSupervisorLost'
  BY <1>5, Sizes, WaitEffect
     DEF StartEarly, NoSupervisorLost, Owns, Living, Zombies, ThreadInv
<1>6. ASSUME NEW t \in Threads, StartConnect(t) PROVE NoSupervisorLost'
  BY <1>6, Sizes
     DEF StartConnect, NoSupervisorLost, Owns, Living, Zombies, ThreadInv
<1>7. ASSUME NEW t \in Threads, StartRunning(t) PROVE NoSupervisorLost'
  BY <1>7, Sizes
     DEF StartRunning, NoSupervisorLost, Owns, Living, Zombies, ThreadInv
<1>8. ASSUME NEW t \in Threads, StartError(t) PROVE NoSupervisorLost'
  BY <1>8, Sizes
     DEF StartError, NoSupervisorLost, Owns, Living, Zombies, ThreadInv
<1>9. ASSUME NEW t \in Threads, Stop(t) PROVE NoSupervisorLost'
  BY <1>9, Sizes
     DEF Stop, CanCall, NoSupervisorLost, Owns, Living, Zombies, ThreadInv
<1>10. ASSUME NEW t \in Threads, Free(t) PROVE NoSupervisorLost'
  BY <1>10, Sizes
     DEF Free, CanCall, NoSupervisorLost, Owns, Living, Zombies, ThreadInv
<1>11. ASSUME NEW t \in Threads, StopSwap(t) PROVE NoSupervisorLost'
  BY <1>11, Sizes
     DEF StopSwap, NoSupervisorLost, Owns, Living, Zombies, ThreadInv
<1>12. ASSUME NEW t \in Threads, StopTerm(t) PROVE NoSupervisorLost'
  BY <1>12, Sizes
     DEF StopTerm, NoSupervisorLost, Owns, Living, Zombies, ThreadInv
<1>13. ASSUME NEW t \in Threads, StopTurn(t) PROVE NoSupervisorLost'
  BY <1>13, Sizes, WaitEffect
     DEF StopTurn, Target, MoreTurns, NoSupervisorLost, Owns, Living, Zombies,
         ThreadInv
<1>14. ASSUME NEW t \in Threads, StopKill(t) PROVE NoSupervisorLost'
  BY <1>14, Sizes
     DEF StopKill, Target, KillHard, Living, NoSupervisorLost, Owns, Zombies,
         ThreadInv
<1>15. ASSUME NEW t \in Threads, StopBlock(t) PROVE NoSupervisorLost'
  <2>1. CASE Interrupt(mine[t])
    BY <1>15, <2>1, Sizes
       DEF StopBlock, Interrupt, NoSupervisorLost, Owns, Living, Zombies, ThreadInv
  <2>2. CASE ~Interrupt(mine[t])
    BY <1>15, <2>2, Sizes, WaitEffect
       DEF StopBlock, Target, NoSupervisorLost, Owns, Living, Zombies, ThreadInv
  <2> QED BY <2>1, <2>2
<1>16. ASSUME NEW t \in Threads, StopStopped(t) PROVE NoSupervisorLost'
  BY <1>16, Sizes
     DEF StopStopped, NoSupervisorLost, Owns, Living, Zombies, ThreadInv
<1>17. ASSUME NEW t \in Threads, State(t) PROVE NoSupervisorLost'
  BY <1>17, Sizes
     DEF State, CanCall, NoSupervisorLost, Owns, Living, Zombies, ThreadInv
<1>18. ASSUME NEW t \in Threads, StateLoad(t) PROVE NoSupervisorLost'
  BY <1>18, Sizes
     DEF StateLoad, NoSupervisorLost, Owns, Living, Zombies, ThreadInv
<1>19. ASSUME NEW t \in Threads, StatePoll(t) PROVE NoSupervisorLost'
  BY <1>19, Sizes, WaitEffect
     DEF StatePoll, NoSupervisorLost, Owns, Living, Zombies, ThreadInv
<1>20. ASSUME NEW t \in Threads, StateClear(t) PROVE NoSupervisorLost'
  BY <1>20, Sizes
     DEF StateClear, CompareExchange, NoSupervisorLost, Owns, Living, Zombies,
         ThreadInv
<1>21. ASSUME NEW t \in Threads, StateExited(t) PROVE NoSupervisorLost'
  BY <1>21, Sizes
     DEF StateExited, NoSupervisorLost, Owns, Living, Zombies, ThreadInv
<1>22. ASSUME NEW p \in Pids, SupervisorEnds(p) PROVE NoSupervisorLost'
  BY <1>22, Sizes
     DEF SupervisorEnds, NoSupervisorLost, Owns, Living, Zombies, ThreadInv
<1>23. CASE HostChildEnds
  BY <1>23, Sizes
     DEF HostChildEnds, NoSupervisorLost, Owns, Living, Zombies, ThreadInv
<1>24. CASE UNCHANGED vars
  BY <1>24 DEF vars, NoSupervisorLost, Owns, Living, Zombies, ThreadInv
<1> QED
  BY <1>1, <1>2, <1>3, <1>4, <1>5, <1>6, <1>7, <1>8, <1>9, <1>10, <1>11, <1>12,
     <1>13, <1>14, <1>15, <1>16, <1>17, <1>18, <1>19, <1>20, <1>21, <1>22,
     <1>23, <1>24
     DEF Next, Call, Run, Gone

\* Every step that reaps the supervisor in the session is taken by a call that
\* clears or swaps the pid next.
LEMMA StaleStep ==
  ASSUME IInv, [Next]_vars
  PROVE  PidNotStale'
<1> USE DEF session, kernel, locals, Go, Keep, IInv, TypeOK, RangesOK,
        ThreadsInv, StopLabels
<1>1. ASSUME NEW t \in Threads, Start(t) PROVE PidNotStale'
  BY <1>1, Sizes DEF Start, CanCall, PidNotStale, ThreadInv
<1>2. ASSUME NEW t \in Threads, StartFork(t) PROVE PidNotStale'
  BY <1>2, Sizes DEF StartFork, PidNotStale, ThreadInv
<1>3. ASSUME NEW t \in Threads, StartStore(t) PROVE PidNotStale'
  BY <1>3, Sizes DEF StartStore, PidNotStale, ThreadInv
<1>4. ASSUME NEW t \in Threads, StartLook(t) PROVE PidNotStale'
  BY <1>4, Sizes DEF StartLook, PidNotStale, ThreadInv
<1>5. ASSUME NEW t \in Threads, StartEarly(t) PROVE PidNotStale'
  BY <1>5, Sizes, WaitEffect DEF StartEarly, PidNotStale, ThreadInv
<1>6. ASSUME NEW t \in Threads, StartConnect(t) PROVE PidNotStale'
  BY <1>6, Sizes DEF StartConnect, PidNotStale, ThreadInv
<1>7. ASSUME NEW t \in Threads, StartRunning(t) PROVE PidNotStale'
  BY <1>7, Sizes DEF StartRunning, PidNotStale, ThreadInv
<1>8. ASSUME NEW t \in Threads, StartError(t) PROVE PidNotStale'
  BY <1>8, Sizes DEF StartError, PidNotStale, ThreadInv
<1>9. ASSUME NEW t \in Threads, Stop(t) PROVE PidNotStale'
  BY <1>9, Sizes DEF Stop, CanCall, PidNotStale, ThreadInv
<1>10. ASSUME NEW t \in Threads, Free(t) PROVE PidNotStale'
  BY <1>10, Sizes DEF Free, CanCall, PidNotStale, ThreadInv
<1>11. ASSUME NEW t \in Threads, StopSwap(t) PROVE PidNotStale'
  BY <1>11, Sizes DEF StopSwap, PidNotStale, ThreadInv
<1>12. ASSUME NEW t \in Threads, StopTerm(t) PROVE PidNotStale'
  BY <1>12, Sizes DEF StopTerm, PidNotStale, ThreadInv
<1>13. ASSUME NEW t \in Threads, StopTurn(t) PROVE PidNotStale'
  BY <1>13, Sizes, WaitEffect
     DEF StopTurn, Target, MoreTurns, PidNotStale, ThreadInv
<1>14. ASSUME NEW t \in Threads, StopKill(t) PROVE PidNotStale'
  BY <1>14, Sizes
     DEF StopKill, Target, KillHard, Living, PidNotStale, ThreadInv
<1>15. ASSUME NEW t \in Threads, StopBlock(t) PROVE PidNotStale'
  <2>1. CASE Interrupt(mine[t])
    BY <1>15, <2>1, Sizes DEF StopBlock, Interrupt, PidNotStale, ThreadInv
  <2>2. CASE ~Interrupt(mine[t])
    BY <1>15, <2>2, Sizes, WaitEffect DEF StopBlock, Target, PidNotStale, ThreadInv
  <2> QED BY <2>1, <2>2
<1>16. ASSUME NEW t \in Threads, StopStopped(t) PROVE PidNotStale'
  BY <1>16, Sizes DEF StopStopped, PidNotStale, ThreadInv
<1>17. ASSUME NEW t \in Threads, State(t) PROVE PidNotStale'
  BY <1>17, Sizes DEF State, CanCall, PidNotStale, ThreadInv
<1>18. ASSUME NEW t \in Threads, StateLoad(t) PROVE PidNotStale'
  BY <1>18, Sizes DEF StateLoad, PidNotStale, ThreadInv
<1>19. ASSUME NEW t \in Threads, StatePoll(t) PROVE PidNotStale'
  BY <1>19, Sizes, WaitEffect DEF StatePoll, PidNotStale, ThreadInv
<1>20. ASSUME NEW t \in Threads, StateClear(t) PROVE PidNotStale'
  BY <1>20, Sizes DEF StateClear, CompareExchange, PidNotStale, ThreadInv
<1>21. ASSUME NEW t \in Threads, StateExited(t) PROVE PidNotStale'
  BY <1>21, Sizes DEF StateExited, PidNotStale, ThreadInv
<1>22. ASSUME NEW p \in Pids, SupervisorEnds(p) PROVE PidNotStale'
  BY <1>22, Sizes DEF SupervisorEnds, PidNotStale, ThreadInv
<1>23. CASE HostChildEnds
  BY <1>23, Sizes DEF HostChildEnds, PidNotStale, ThreadInv
<1>24. CASE UNCHANGED vars
  BY <1>24 DEF vars, PidNotStale, ThreadInv
<1> QED
  BY <1>1, <1>2, <1>3, <1>4, <1>5, <1>6, <1>7, <1>8, <1>9, <1>10, <1>11, <1>12,
     <1>13, <1>14, <1>15, <1>16, <1>17, <1>18, <1>19, <1>20, <1>21, <1>22,
     <1>23, <1>24
     DEF Next, Call, Run, Gone

\* Every step into stopped follows a waitpid that reaped the supervisor, found it
\* gone or, after SIGKILL, was interrupted.
LEMMA EndsStep ==
  ASSUME IInv, [Next]_vars
  PROVE  StopEnds'
<1> USE DEF session, kernel, locals, Go, Keep, IInv, TypeOK, RangesOK,
        ThreadsInv, StopLabels
<1>1. ASSUME NEW t \in Threads, Start(t) PROVE StopEnds'
  BY <1>1, Sizes DEF Start, CanCall, StopEnds, ThreadInv, Living
<1>2. ASSUME NEW t \in Threads, StartFork(t) PROVE StopEnds'
  BY <1>2, Sizes DEF StartFork, StopEnds, ThreadInv, Living
<1>3. ASSUME NEW t \in Threads, StartStore(t) PROVE StopEnds'
  BY <1>3, Sizes DEF StartStore, StopEnds, ThreadInv, Living
<1>4. ASSUME NEW t \in Threads, StartLook(t) PROVE StopEnds'
  BY <1>4, Sizes DEF StartLook, StopEnds, ThreadInv, Living
<1>5. ASSUME NEW t \in Threads, StartEarly(t) PROVE StopEnds'
  BY <1>5, Sizes, WaitEffect DEF StartEarly, StopEnds, ThreadInv, Living
<1>6. ASSUME NEW t \in Threads, StartConnect(t) PROVE StopEnds'
  BY <1>6, Sizes DEF StartConnect, StopEnds, ThreadInv, Living
<1>7. ASSUME NEW t \in Threads, StartRunning(t) PROVE StopEnds'
  BY <1>7, Sizes DEF StartRunning, StopEnds, ThreadInv, Living
<1>8. ASSUME NEW t \in Threads, StartError(t) PROVE StopEnds'
  BY <1>8, Sizes DEF StartError, StopEnds, ThreadInv, Living
<1>9. ASSUME NEW t \in Threads, Stop(t) PROVE StopEnds'
  BY <1>9, Sizes DEF Stop, CanCall, StopEnds, ThreadInv, Living
<1>10. ASSUME NEW t \in Threads, Free(t) PROVE StopEnds'
  BY <1>10, Sizes DEF Free, CanCall, StopEnds, ThreadInv, Living
<1>11. ASSUME NEW t \in Threads, StopSwap(t) PROVE StopEnds'
  BY <1>11, Sizes DEF StopSwap, StopEnds, ThreadInv, Living
<1>12. ASSUME NEW t \in Threads, StopTerm(t) PROVE StopEnds'
  BY <1>12, Sizes DEF StopTerm, StopEnds, ThreadInv, Living
<1>13. ASSUME NEW t \in Threads, StopTurn(t) PROVE StopEnds'
  BY <1>13, Sizes, WaitEffect
     DEF StopTurn, Target, MoreTurns, StopEnds, ThreadInv, Living
<1>14. ASSUME NEW t \in Threads, StopKill(t) PROVE StopEnds'
  BY <1>14, Sizes DEF StopKill, Target, KillHard, Living, StopEnds, ThreadInv
<1>15. ASSUME NEW t \in Threads, StopBlock(t) PROVE StopEnds'
  <2>1. CASE Interrupt(mine[t])
    BY <1>15, <2>1, Sizes DEF StopBlock, Interrupt, StopEnds, ThreadInv, Living
  <2>2. CASE ~Interrupt(mine[t])
    BY <1>15, <2>2, Sizes, WaitEffect
       DEF StopBlock, Target, StopEnds, ThreadInv, Living
  <2> QED BY <2>1, <2>2
<1>16. ASSUME NEW t \in Threads, StopStopped(t) PROVE StopEnds'
  BY <1>16, Sizes DEF StopStopped, StopEnds, ThreadInv, Living
<1>17. ASSUME NEW t \in Threads, State(t) PROVE StopEnds'
  BY <1>17, Sizes DEF State, CanCall, StopEnds, ThreadInv, Living
<1>18. ASSUME NEW t \in Threads, StateLoad(t) PROVE StopEnds'
  BY <1>18, Sizes DEF StateLoad, StopEnds, ThreadInv, Living
<1>19. ASSUME NEW t \in Threads, StatePoll(t) PROVE StopEnds'
  BY <1>19, Sizes, WaitEffect DEF StatePoll, StopEnds, ThreadInv, Living
<1>20. ASSUME NEW t \in Threads, StateClear(t) PROVE StopEnds'
  BY <1>20, Sizes DEF StateClear, CompareExchange, StopEnds, ThreadInv, Living
<1>21. ASSUME NEW t \in Threads, StateExited(t) PROVE StopEnds'
  BY <1>21, Sizes DEF StateExited, StopEnds, ThreadInv, Living
<1>22. ASSUME NEW p \in Pids, SupervisorEnds(p) PROVE StopEnds'
  BY <1>22, Sizes DEF SupervisorEnds, StopEnds, ThreadInv, Living
<1>23. CASE HostChildEnds
  BY <1>23, Sizes DEF HostChildEnds, StopEnds, ThreadInv, Living
<1>24. CASE UNCHANGED vars
  BY <1>24 DEF vars, StopEnds, ThreadInv, Living
<1> QED
  BY <1>1, <1>2, <1>3, <1>4, <1>5, <1>6, <1>7, <1>8, <1>9, <1>10, <1>11, <1>12,
     <1>13, <1>14, <1>15, <1>16, <1>17, <1>18, <1>19, <1>20, <1>21, <1>22,
     <1>23, <1>24
     DEF Next, Call, Run, Gone

\* Every step keeps the pid in the session one that was forked.
LEMMA KnownStep ==
  ASSUME IInv, [Next]_vars
  PROVE  PidKnown'
<1> USE DEF session, kernel, locals, Go, Keep, IInv, TypeOK, RangesOK,
        ThreadsInv, StopLabels
<1>1. ASSUME NEW t \in Threads, Start(t) PROVE PidKnown'
  BY <1>1, Sizes DEF Start, CanCall, PidKnown, ThreadInv, Living
<1>2. ASSUME NEW t \in Threads, StartFork(t) PROVE PidKnown'
  BY <1>2, Sizes DEF StartFork, PidKnown, ThreadInv, Living
<1>3. ASSUME NEW t \in Threads, StartStore(t) PROVE PidKnown'
  BY <1>3, Sizes DEF StartStore, PidKnown, ThreadInv, Living
<1>4. ASSUME NEW t \in Threads, StartLook(t) PROVE PidKnown'
  BY <1>4, Sizes DEF StartLook, PidKnown, ThreadInv, Living
<1>5. ASSUME NEW t \in Threads, StartEarly(t) PROVE PidKnown'
  BY <1>5, Sizes, WaitEffect DEF StartEarly, PidKnown, ThreadInv, Living
<1>6. ASSUME NEW t \in Threads, StartConnect(t) PROVE PidKnown'
  BY <1>6, Sizes DEF StartConnect, PidKnown, ThreadInv, Living
<1>7. ASSUME NEW t \in Threads, StartRunning(t) PROVE PidKnown'
  BY <1>7, Sizes DEF StartRunning, PidKnown, ThreadInv, Living
<1>8. ASSUME NEW t \in Threads, StartError(t) PROVE PidKnown'
  BY <1>8, Sizes DEF StartError, PidKnown, ThreadInv, Living
<1>9. ASSUME NEW t \in Threads, Stop(t) PROVE PidKnown'
  BY <1>9, Sizes DEF Stop, CanCall, PidKnown, ThreadInv, Living
<1>10. ASSUME NEW t \in Threads, Free(t) PROVE PidKnown'
  BY <1>10, Sizes DEF Free, CanCall, PidKnown, ThreadInv, Living
<1>11. ASSUME NEW t \in Threads, StopSwap(t) PROVE PidKnown'
  BY <1>11, Sizes DEF StopSwap, PidKnown, ThreadInv, Living
<1>12. ASSUME NEW t \in Threads, StopTerm(t) PROVE PidKnown'
  BY <1>12, Sizes DEF StopTerm, PidKnown, ThreadInv, Living
<1>13. ASSUME NEW t \in Threads, StopTurn(t) PROVE PidKnown'
  BY <1>13, Sizes, WaitEffect
     DEF StopTurn, Target, MoreTurns, PidKnown, ThreadInv, Living
<1>14. ASSUME NEW t \in Threads, StopKill(t) PROVE PidKnown'
  BY <1>14, Sizes DEF StopKill, Target, KillHard, Living, PidKnown, ThreadInv
<1>15. ASSUME NEW t \in Threads, StopBlock(t) PROVE PidKnown'
  <2>1. CASE Interrupt(mine[t])
    BY <1>15, <2>1, Sizes DEF StopBlock, Interrupt, PidKnown, ThreadInv, Living
  <2>2. CASE ~Interrupt(mine[t])
    BY <1>15, <2>2, Sizes, WaitEffect
       DEF StopBlock, Target, PidKnown, ThreadInv, Living
  <2> QED BY <2>1, <2>2
<1>16. ASSUME NEW t \in Threads, StopStopped(t) PROVE PidKnown'
  BY <1>16, Sizes DEF StopStopped, PidKnown, ThreadInv, Living
<1>17. ASSUME NEW t \in Threads, State(t) PROVE PidKnown'
  BY <1>17, Sizes DEF State, CanCall, PidKnown, ThreadInv, Living
<1>18. ASSUME NEW t \in Threads, StateLoad(t) PROVE PidKnown'
  BY <1>18, Sizes DEF StateLoad, PidKnown, ThreadInv, Living
<1>19. ASSUME NEW t \in Threads, StatePoll(t) PROVE PidKnown'
  BY <1>19, Sizes, WaitEffect DEF StatePoll, PidKnown, ThreadInv, Living
<1>20. ASSUME NEW t \in Threads, StateClear(t) PROVE PidKnown'
  BY <1>20, Sizes DEF StateClear, CompareExchange, PidKnown, ThreadInv, Living
<1>21. ASSUME NEW t \in Threads, StateExited(t) PROVE PidKnown'
  BY <1>21, Sizes DEF StateExited, PidKnown, ThreadInv, Living
<1>22. ASSUME NEW p \in Pids, SupervisorEnds(p) PROVE PidKnown'
  BY <1>22, Sizes DEF SupervisorEnds, PidKnown, ThreadInv, Living
<1>23. CASE HostChildEnds
  BY <1>23, Sizes DEF HostChildEnds, PidKnown, ThreadInv, Living
<1>24. CASE UNCHANGED vars
  BY <1>24 DEF vars, PidKnown, ThreadInv, Living
<1> QED
  BY <1>1, <1>2, <1>3, <1>4, <1>5, <1>6, <1>7, <1>8, <1>9, <1>10, <1>11, <1>12,
     <1>13, <1>14, <1>15, <1>16, <1>17, <1>18, <1>19, <1>20, <1>21, <1>22,
     <1>23, <1>24
     DEF Next, Call, Run, Gone

\* Every step keeps what each thread knows at its label: one starter alone
\* stores a pid, and a swap leaves no other thread able to take it.
LEMMA ThreadStep ==
  ASSUME IInv, [Next]_vars
  PROVE  ThreadsInv'
<1>0. RangesOK /\ PidKnown /\ \A t \in Threads : ThreadInv(t)
  BY DEF IInv, TypeOK, ThreadsInv
<1> SUFFICES ASSUME RangesOK, PidKnown, NEW u \in Threads, ThreadInv(u)
             PROVE  ThreadInv(u)'
  BY <1>0 DEF ThreadsInv
<1> USE DEF session, kernel, locals, Go, Keep, RangesOK, StopLabels, PidKnown
<1>1. ASSUME NEW t \in Threads, ThreadInv(t), Start(t)
      PROVE  ThreadInv(u)'
  BY <1>1, Sizes DEF Start, CanCall, ThreadInv
<1>2. ASSUME NEW t \in Threads, ThreadInv(t), StartFork(t)
      PROVE  ThreadInv(u)'
  <2>1. CASE at'[t] = "error"
    BY <1>2, <2>1 DEF StartFork, ThreadInv
  <2>2. CASE at'[t] # "error"
    <3>1. PICK p \in Pids :
            /\ proc[p] = "unused" /\ proc' = [proc EXCEPT ![p] = "alive"]
            /\ mine' = [mine EXCEPT ![t] = p] /\ at' = [at EXCEPT ![t] = "store"]
      BY <1>2, <2>2 DEF StartFork
    <3>2. \A v \in Threads : mine[v] # p
      BY <1>0, <3>1, Sizes DEF ThreadInv
    <3>3. pid = 0 /\ pid' = pid /\ turn' = turn /\ t \in Starters
      BY <1>2 DEF StartFork, ThreadInv
    <3>4. CASE u = t
      BY <3>1, <3>2, <3>3, <3>4, Sizes DEF ThreadInv
    <3>5. CASE u # t
      BY <3>1, <3>2, <3>3, <3>5, Sizes DEF ThreadInv
    <3> QED
      BY <3>4, <3>5
  <2> QED
    BY <2>1, <2>2
<1>3. ASSUME NEW t \in Threads, ThreadInv(t), StartStore(t)
      PROVE  ThreadInv(u)'
  BY <1>3, Sizes, SessionConstants DEF StartStore, ThreadInv
<1>4. ASSUME NEW t \in Threads, ThreadInv(t), StartLook(t)
      PROVE  ThreadInv(u)'
  BY <1>4, Sizes DEF StartLook, ThreadInv
<1>5. ASSUME NEW t \in Threads, ThreadInv(t), StartEarly(t)
      PROVE  ThreadInv(u)'
  <2>1. PICK rc \in Results : waitpid(mine[t], rc)
    BY <1>5 DEF StartEarly
  <2>2. /\ \A p \in Pids : \/ proc'[p] = proc[p]
                           \/ proc[p] = "zombie" /\ proc'[p] = "reaped"
        /\ mine[t] # 0 => \A p \in Pids \ {mine[t]} : proc'[p] = proc[p]
        /\ mine[t] # 0 /\ rc = mine[t] => proc'[mine[t]] = "reaped"
    BY <2>1, WaitEffect
  <2>3. /\ t \in Starters /\ at'[t] \in {"swap", "connect"} /\ mine' = mine
        /\ pid' = pid
    BY <1>5 DEF StartEarly, ThreadInv
  <2>4. CASE u = t
    BY <2>2, <2>3, <2>4, Sizes DEF ThreadInv
  <2>5. CASE u # t
    <3>1. at'[u] = at[u] /\ mine'[u] = mine[u] /\ turn'[u] = turn[u]
      BY <1>5, <2>5 DEF StartEarly
    <3>2. ASSUME at[u] = "store"
          PROVE  /\ proc'[mine[u]] # "reaped"
                 /\ \A v \in Threads \ {u} : mine'[v] # mine[u]
      BY <2>3, <2>5, <3>2, SessionConstants DEF ThreadInv
    <3> QED
      BY <2>2, <2>3, <3>1, <3>2, Bystander
  <2> QED
    BY <2>4, <2>5
<1>6. ASSUME NEW t \in Threads, ThreadInv(t), StartConnect(t)
      PROVE  ThreadInv(u)'
  BY <1>6, Sizes DEF StartConnect, ThreadInv
<1>7. ASSUME NEW t \in Threads, ThreadInv(t), StartRunning(t)
      PROVE  ThreadInv(u)'
  BY <1>7, Sizes DEF StartRunning, ThreadInv
<1>8. ASSUME NEW t \in Threads, ThreadInv(t), StartError(t)
      PROVE  ThreadInv(u)'
  BY <1>8, Sizes DEF StartError, ThreadInv
<1>9. ASSUME NEW t \in Threads, ThreadInv(t), Stop(t)
      PROVE  ThreadInv(u)'
  BY <1>9, Sizes DEF Stop, CanCall, ThreadInv
<1>10. ASSUME NEW t \in Threads, ThreadInv(t), Free(t)
      PROVE  ThreadInv(u)'
  BY <1>10, Sizes DEF Free, CanCall, ThreadInv
<1>11. ASSUME NEW t \in Threads, ThreadInv(t), StopSwap(t)
      PROVE  ThreadInv(u)'
  BY <1>11, Sizes DEF StopSwap, ThreadInv
<1>12. ASSUME NEW t \in Threads, ThreadInv(t), StopTerm(t)
      PROVE  ThreadInv(u)'
  BY <1>12, Sizes DEF StopTerm, ThreadInv
<1>13. ASSUME NEW t \in Threads, ThreadInv(t), StopTurn(t)
      PROVE  ThreadInv(u)'
  <2>1. PICK rc \in Results : waitpid(mine[t], rc)
    BY <1>13 DEF StopTurn, Target
  <2>2. /\ \A p \in Pids : \/ proc'[p] = proc[p]
                           \/ proc[p] = "zombie" /\ proc'[p] = "reaped"
        /\ mine[t] # 0 => \A p \in Pids \ {mine[t]} : proc'[p] = proc[p]
        /\ mine[t] # 0 /\ rc = mine[t] => proc'[mine[t]] = "reaped"
    BY <2>1, WaitEffect
  <2>3. /\ mine[t] # 0 /\ mine' = mine /\ pid # mine[t]
        /\ at'[t] \in {"stopped", "turn", "kill"}
        /\ at'[t] = "turn" => turn'[t] < StopTurns
        /\ pid' = pid
    BY <1>13, Sizes DEF StopTurn, Target, MoreTurns, ThreadInv
  <2>4. CASE u = t
    BY <2>2, <2>3, <2>4, Sizes DEF ThreadInv
  <2>5. CASE u # t
    <3>1. at'[u] = at[u] /\ mine'[u] = mine[u] /\ turn'[u] = turn[u]
      BY <1>13, <2>5 DEF StopTurn
    <3>2. ASSUME at[u] = "store"
          PROVE  /\ proc'[mine[u]] # "reaped"
                 /\ \A v \in Threads \ {u} : mine'[v] # mine[u]
      BY <2>2, <2>3, <2>5, <3>2, Sizes DEF ThreadInv
    <3> QED
      BY <2>2, <2>3, <3>1, <3>2, Bystander
  <2> QED
    BY <2>4, <2>5
<1>14. ASSUME NEW t \in Threads, ThreadInv(t), StopKill(t)
      PROVE  ThreadInv(u)'
  BY <1>14, Sizes DEF StopKill, Target, KillHard, Living, ThreadInv
<1>15. ASSUME NEW t \in Threads, ThreadInv(t), StopBlock(t)
      PROVE  ThreadInv(u)'
  <2>1. /\ \A p \in Pids : \/ proc'[p] = proc[p]
                           \/ proc[p] = "zombie" /\ proc'[p] = "reaped"
        /\ mine[t] # 0 => \A p \in Pids \ {mine[t]} : proc'[p] = proc[p]
    <3>1. CASE Interrupt(mine[t])
      BY <3>1 DEF Interrupt
    <3>2. CASE \E rc \in Results : waitpid(mine[t], rc)
      BY <3>2, WaitEffect
    <3> QED BY <1>15, <3>1, <3>2 DEF StopBlock, Target
  <2>2. /\ mine[t] # 0 /\ at'[t] = "stopped" /\ mine' = mine
        /\ pid' = pid
    BY <1>15 DEF StopBlock, ThreadInv
  <2>3. CASE u = t
    BY <2>1, <2>2, <2>3, Sizes DEF ThreadInv
  <2>4. CASE u # t
    <3>1. at'[u] = at[u] /\ mine'[u] = mine[u] /\ turn'[u] = turn[u]
      BY <1>15, <2>4 DEF StopBlock
    <3>2. ASSUME at[u] = "store"
          PROVE  /\ proc'[mine[u]] # "reaped"
                 /\ \A v \in Threads \ {u} : mine'[v] # mine[u]
      BY <2>1, <2>2, <2>4, <3>2, Sizes DEF ThreadInv
    <3> QED
      BY <2>1, <2>2, <3>1, <3>2, Bystander
  <2> QED
    BY <2>3, <2>4
<1>16. ASSUME NEW t \in Threads, ThreadInv(t), StopStopped(t)
      PROVE  ThreadInv(u)'
  BY <1>16, Sizes DEF StopStopped, ThreadInv
<1>17. ASSUME NEW t \in Threads, ThreadInv(t), State(t)
      PROVE  ThreadInv(u)'
  BY <1>17, Sizes DEF State, CanCall, ThreadInv
<1>18. ASSUME NEW t \in Threads, ThreadInv(t), StateLoad(t)
      PROVE  ThreadInv(u)'
  BY <1>18, Sizes DEF StateLoad, ThreadInv
<1>19. ASSUME NEW t \in Threads, ThreadInv(t), StatePoll(t)
      PROVE  ThreadInv(u)'
  <2>1. PICK rc \in Results :
          /\ waitpid(mine[t], rc)
          /\ \/ rc = mine[t] /\ at' = [at EXCEPT ![t] = "clear"] /\ mine' = mine
             \/ /\ at' = [at EXCEPT ![t] = "idle"]
                /\ mine' = [mine EXCEPT ![t] = 0]
    BY <1>19 DEF StatePoll
  <2>2. /\ \A p \in Pids : \/ proc'[p] = proc[p]
                           \/ proc[p] = "zombie" /\ proc'[p] = "reaped"
        /\ mine[t] # 0 => \A p \in Pids \ {mine[t]} : proc'[p] = proc[p]
        /\ mine[t] # 0 /\ rc = mine[t] => proc'[mine[t]] = "reaped"
    BY <2>1, WaitEffect
  <2>3. /\ mine[t] # 0 /\ \A v \in Threads : mine'[v] \in {0, mine[v]}
        /\ pid' = pid
    BY <1>19, <2>1 DEF StatePoll, ThreadInv
  <2>4. CASE u = t
    BY <2>1, <2>2, <2>3, <2>4, Sizes DEF ThreadInv
  <2>5. CASE u # t
    <3>1. at'[u] = at[u] /\ mine'[u] = mine[u] /\ turn'[u] = turn[u]
      BY <1>19, <2>5 DEF StatePoll
    <3>2. ASSUME at[u] = "store"
          PROVE  /\ proc'[mine[u]] # "reaped"
                 /\ \A v \in Threads \ {u} : mine'[v] # mine[u]
      BY <2>2, <2>3, <2>5, <3>2, Sizes DEF ThreadInv
    <3> QED
      BY <2>2, <2>3, <3>1, <3>2, Bystander
  <2> QED
    BY <2>4, <2>5
<1>20. ASSUME NEW t \in Threads, ThreadInv(t), StateClear(t)
      PROVE  ThreadInv(u)'
  BY <1>20, Sizes DEF StateClear, CompareExchange, ThreadInv
<1>21. ASSUME NEW t \in Threads, ThreadInv(t), StateExited(t)
      PROVE  ThreadInv(u)'
  BY <1>21, Sizes DEF StateExited, ThreadInv
<1>22. ASSUME NEW p \in Pids, SupervisorEnds(p) PROVE ThreadInv(u)'
  BY <1>22, Sizes DEF SupervisorEnds, ThreadInv
<1>23. CASE HostChildEnds
  BY <1>23, Sizes DEF HostChildEnds, ThreadInv
<1>24. CASE UNCHANGED vars
  BY <1>24 DEF vars, ThreadInv
<1> QED
  BY <1>1, <1>2, <1>3, <1>4, <1>5, <1>6, <1>7, <1>8, <1>9, <1>10, <1>11, <1>12,
     <1>13, <1>14, <1>15, <1>16, <1>17, <1>18, <1>19, <1>20, <1>21, <1>22,
     <1>23, <1>24, <1>0
     DEF Next, Call, Run, Gone

\* A supervisor whose blocking waitpid was interrupted has had SIGKILL: no step
\* brings it back to life, and stop sends SIGKILL before it blocks.
LEMMA KilledStep ==
  ASSUME IInv, [Next]_vars
  PROVE  KilledFirst'
<1>0. /\ RangesOK /\ KilledFirst
      /\ \A t \in Threads : ThreadInv(t) /\ mine[t] \in 0 .. MaxStarts
  BY DEF IInv, TypeOK, ThreadsInv, RangesOK
<1>1. ASSUME NEW t \in Threads, StartFork(t) PROVE KilledFirst'
  BY <1>0, <1>1 DEF StartFork, KilledFirst, RangesOK
<1>2. ASSUME NEW q \in 0 .. MaxStarts, NEW rc \in Results, waitpid(q, rc)
      PROVE  KilledFirst'
  BY <1>0, <1>2, WaitEffect DEF KilledFirst, RangesOK
<1>3. ASSUME NEW t \in Threads, StopKill(t) PROVE KilledFirst'
  BY <1>0, <1>3 DEF StopKill, Target, KillHard, Living, KilledFirst, RangesOK, kernel
<1>4. ASSUME NEW t \in Threads, at[t] = "block", Interrupt(mine[t]) PROVE KilledFirst'
  BY <1>0, <1>4 DEF Interrupt, Living, KilledFirst, ThreadInv
<1>5. ASSUME NEW p \in Pids, SupervisorEnds(p) PROVE KilledFirst'
  BY <1>0, <1>5 DEF SupervisorEnds, KilledFirst, RangesOK
<1>6. CASE UNCHANGED <<proc, interrupted>>
  BY <1>0, <1>6 DEF KilledFirst
<1>7. ASSUME NEW t \in Threads, Call(t) PROVE UNCHANGED <<proc, interrupted>>
  BY <1>7 DEF Call, Start, Stop, Free, State, kernel
<1>8. ASSUME NEW t \in Threads, Run(t) PROVE KilledFirst'
  <2>1. CASE StartEarly(t) \/ StopTurn(t) \/ StatePoll(t)
    BY <1>0, <1>2, <2>1 DEF StartEarly, StopTurn, StatePoll, Target
  <2>2. CASE StopBlock(t)
    BY <1>0, <1>2, <1>4, <2>2 DEF StopBlock, Target
  <2>3. CASE \/ StartStore(t) \/ StartLook(t) \/ StartConnect(t) \/ StartRunning(t)
             \/ StartError(t) \/ StopSwap(t) \/ StopTerm(t) \/ StopStopped(t)
             \/ StateLoad(t) \/ StateClear(t) \/ StateExited(t)
    BY <1>6, <2>3 DEF StartStore, StartLook, StartConnect, StartRunning,
       StartError, StopSwap, StopTerm, StopStopped, StateLoad, StateClear,
       StateExited, kernel
  <2> QED
    BY <1>1, <1>3, <1>8, <2>1, <2>2, <2>3 DEF Run
<1>9. CASE HostChildEnds \/ UNCHANGED vars
  BY <1>6, <1>9 DEF HostChildEnds, vars, kernel
<1> QED
  BY <1>5, <1>6, <1>7, <1>8, <1>9 DEF Next, Gone

\* freed stays Boolean: only the end of a stop writes it.
LEMMA FreedStep ==
  ASSUME freed \in BOOLEAN, [Next]_vars
  PROVE  (freed \in BOOLEAN)'
<1>1. ASSUME NEW t \in Threads, Call(t) PROVE freed' = freed
  BY <1>1 DEF Call, Start, Stop, Free, State, session
<1>2. ASSUME NEW t \in Threads, StopStopped(t) PROVE freed' \in BOOLEAN
  BY <1>2, Zenon DEF StopStopped
<1>3. ASSUME NEW t \in Threads, Run(t), ~StopStopped(t) PROVE freed' = freed
  BY <1>3 DEF Run, StartFork, StartStore, StartLook, StartEarly, StartConnect,
     StartRunning, StartError, StopSwap, StopTerm, StopTurn, StopKill,
     StopBlock, StateLoad, StatePoll, StateClear, StateExited, session
<1>4. CASE UNCHANGED freed
  BY <1>4, Zenon
<1>5. ASSUME NEW p \in Pids, SupervisorEnds(p) PROVE freed' = freed
  BY <1>5 DEF SupervisorEnds, session
<1>6. CASE HostChildEnds \/ Gone \/ UNCHANGED vars
  BY <1>4, <1>6 DEF HostChildEnds, Gone, vars, session
<1> QED
  BY <1>1, <1>2, <1>3, <1>4, <1>5, <1>6, Zenon DEF Next

-----------------------------------------------------------------------------
(***************************************************************************)
(* The theorems.                                                           *)
(***************************************************************************)

\* Before the first call the inductive invariant holds.
LEMMA InitInv == Init => IInv
<1> SUFFICES ASSUME Init PROVE IInv
  OBVIOUS
<1> USE Names, Sizes DEF Init
<1>1. RangesOK
  BY DEF RangesOK, States, Fates
<1>2. freed \in BOOLEAN
  BY Zenon
<1>3. NoSupervisorLost /\ PidNotStale /\ StopEnds /\ PidKnown /\ KilledFirst
  BY DEF NoSupervisorLost, PidNotStale, StopEnds, PidKnown, KilledFirst, Living,
     Zombies
<1>4. ThreadsInv
  BY DEF ThreadsInv, ThreadInv, StopLabels
<1> QED
  BY <1>1, <1>2, <1>3, <1>4 DEF IInv, TypeOK

\* In every state of the session API, for any threads, one starter among them,
\* and any number of starts,
\* each thread knows at its label what the inductive invariant says it knows.
THEOREM Invariance == Spec => []IInv
<1>1. IInv /\ [Next]_vars => IInv'
  BY RangesStep, LostStep, StaleStep, EndsStep, KnownStep, KilledStep, ThreadStep,
     FreedStep
     DEF IInv, TypeOK
<1> QED
  BY InitInv, <1>1, PTL DEF Spec

\* The shared fields, the process table and the locals keep their types.
THEOREM TypeCorrect == Spec => []TypeOK
<1>1. IInv => TypeOK
  BY DEF IInv
<1> QED
  BY Invariance, <1>1, PTL

\* One thread starts, any threads stop, poll and free: a supervisor that is not
\* reaped is still known to the session or to a call in progress, unless stop
\* killed it and a signal of the host interrupted the wait for it.
THEOREM SupervisorKept == Spec => []NoSupervisorLost
<1>1. IInv => NoSupervisorLost
  BY DEF IInv
<1> QED
  BY Invariance, <1>1, PTL

\* The session keeps a reaped supervisor's pid no longer than the call that
\* reaped it.
THEOREM NoStalePid == Spec => []PidNotStale
<1>1. IInv => PidNotStale
  BY DEF IInv
<1> QED
  BY Invariance, <1>1, PTL

\* A stop reports STOPPED only when the supervisor it took is reaped or, if the
\* blocking waitpid was interrupted, has had SIGKILL.
THEOREM StopSafety == Spec => []StopEnds
<1>1. IInv => StopEnds
  BY DEF IInv
<1> QED
  BY Invariance, <1>1, PTL
=============================================================================
