------------------------------- MODULE Session -------------------------------
(***************************************************************************)
(* libautossh's session (api.rs): the embedding process forks an autossh   *)
(* supervisor and keeps its pid in an atomic.  Calls run on several        *)
(* threads of that process: one thread starts, others stop or ask for the  *)
(* state, and all of them may reap.  A step is one access to the shared    *)
(* session or one system call.                                             *)
(*                                                                         *)
(* The host process may have children of its own; one of them is modelled, *)
(* because waitpid(0) would reap it.  Pids are not used again.             *)
(***************************************************************************)
EXTENDS Integers, FiniteSets

CONSTANTS
  Threads,                       \* threads of the embedding process
  Starters, Stoppers, Pollers,   \* who calls start; stop and free; state
  MaxStarts,                     \* bound: supervisors ever forked
  StopTurns                      \* waitpid turns of stop before SIGKILL (50)

ASSUME SessionConstants ==
  /\ Starters \subseteq Threads /\ Stoppers \subseteq Threads
  /\ Pollers \subseteq Threads
  /\ \A a, b \in Starters : a = b
  /\ MaxStarts \in Nat \ {0} /\ StopTurns \in Nat \ {0}

Pids == 1 .. MaxStarts
States == {"INIT", "STARTING", "RUNNING", "EXITED", "STOPPED", "ERROR"}
Fates == {"unused", "alive", "doomed", "zombie", "reaped"}

VARIABLES
  pid, state, freed,   \* the session: supervisor's pid or 0, state, freed
  proc,                \* process table, by pid
  host,                \* the host's own child
  interrupted,         \* history: pids whose blocking waitpid ended with EINTR
  at, mine, turn, then \* per thread: next step, pid in a local variable, turns
                       \* taken, and what follows the stop in progress

session == <<pid, state, freed>>
kernel  == <<proc, host, interrupted>>
locals  == <<at, mine, turn, then>>
vars == <<session, kernel, locals>>

StopLabels == {"term", "turn", "kill", "block"}
Labels == {"idle", "fork", "store", "look", "early", "connect", "running",
           "error", "swap", "stopped", "load", "poll", "clear", "exited"}
          \cup StopLabels

Init ==
  /\ pid = 0 /\ state = "INIT" /\ freed = FALSE
  /\ proc = [p \in Pids |-> "unused"] /\ host = "running" /\ interrupted = {}
  /\ at = [t \in Threads |-> "idle"] /\ mine = [t \in Threads |-> 0]
  /\ turn = [t \in Threads |-> 0] /\ then = [t \in Threads |-> "return"]

Go(t, label) == at' = [at EXCEPT ![t] = label]
Keep(t, p)   == mine' = [mine EXCEPT ![t] = p]

-----------------------------------------------------------------------------
(***************************************************************************)
(* The kernel.  waitpid(q, WNOHANG) returns the pid it reaped, 0 while     *)
(* there is such a child but none has ended, or -1 (ECHILD).  With q = 0   *)
(* it looks at every child of the caller's process group.                  *)
(***************************************************************************)
Living == {p \in Pids : proc[p] \in {"alive", "doomed"}}
Zombies == {p \in Pids : proc[p] = "zombie"}
Reap(p) == proc' = [proc EXCEPT ![p] = "reaped"] /\ UNCHANGED <<host, interrupted>>

WaitOne(q, rc) ==
  \/ q \in Zombies /\ rc = q /\ Reap(q)
  \/ q \in Living /\ rc = 0 /\ UNCHANGED kernel
  \/ q \notin Zombies \cup Living /\ rc = -1 /\ UNCHANGED kernel

WaitGroup(rc) ==
  \/ rc \in Zombies /\ Reap(rc)
  \/ /\ host = "zombie" /\ rc = MaxStarts + 1 /\ host' = "stolen"
     /\ UNCHANGED <<proc, interrupted>>
  \/ /\ Zombies = {} /\ host # "zombie"
     /\ rc = IF Living = {} /\ host = "stolen" THEN -1 ELSE 0
     /\ UNCHANGED kernel

waitpid(q, rc) == IF q = 0 THEN WaitGroup(rc) ELSE WaitOne(q, rc)
Results == -1 .. MaxStarts + 1

\* kill(p, SIGKILL) behind kill_pid's guard.
KillHard(p) ==
  IF p > 0 /\ p \in Living
  THEN proc' = [proc EXCEPT ![p] = "doomed"] /\ UNCHANGED <<host, interrupted>>
  ELSE UNCHANGED kernel

\* A blocking waitpid(p) finds no zombie yet and a signal handler of the host
\* runs: it returns -1 (EINTR).
Interrupt(p) ==
  /\ p \in Living
  /\ interrupted' = interrupted \cup {p}
  /\ UNCHANGED <<proc, host>>

\* A supervisor ends: by itself, on SIGTERM, or because of SIGKILL.
SupervisorEnds(p) ==
  /\ proc[p] \in {"alive", "doomed"}
  /\ proc' = [proc EXCEPT ![p] = "zombie"]
  /\ UNCHANGED <<session, host, interrupted, locals>>

HostChildEnds ==
  /\ host = "running" /\ host' = "zombie"
  /\ UNCHANGED <<session, proc, interrupted, locals>>

-----------------------------------------------------------------------------
(***************************************************************************)
(* autossh_session_start.                                                  *)
(***************************************************************************)
Closing == freed \/ \E t \in Threads : at[t] # "idle" /\ then[t] = "free"
CanCall(t) == at[t] = "idle" /\ ~Closing

\* Already started, or no port to reserve: an error.
Start(t) ==
  /\ t \in Starters /\ CanCall(t)
  /\ \/ Go(t, "error")
     \/ pid = 0 /\ (\E p \in Pids : proc[p] = "unused") /\ Go(t, "fork")
  /\ UNCHANGED <<session, kernel, mine, turn, then>>

StartFork(t) ==
  /\ at[t] = "fork"
  /\ state' = "STARTING"
  /\ \/ /\ Go(t, "error") /\ UNCHANGED <<proc, mine>>
     \/ \E p \in Pids :
          /\ proc[p] = "unused" /\ \A q \in Pids : q < p => proc[q] # "unused"
          /\ proc' = [proc EXCEPT ![p] = "alive"]
          /\ Keep(t, p) /\ Go(t, "store")
  /\ UNCHANGED <<pid, freed, host, interrupted, turn, then>>

StartStore(t) ==
  /\ at[t] = "store"
  /\ pid' = mine[t]
  /\ Go(t, "look")
  /\ UNCHANGED <<state, freed, kernel, mine, turn, then>>

\* wait_for_listener: the deadline has passed, or read session.pid again.
StartLook(t) ==
  /\ at[t] = "look"
  /\ \/ /\ Keep(t, 0) /\ then' = [then EXCEPT ![t] = "error"]
        /\ Go(t, "swap")
     \/ /\ Keep(t, pid) /\ Go(t, "early") /\ UNCHANGED then
  /\ UNCHANGED <<session, kernel, turn>>

\* child_exited(pid): the supervisor ended early.
StartEarly(t) ==
  /\ at[t] = "early"
  /\ \E rc \in Results :
       /\ waitpid(mine[t], rc)
       /\ \/ /\ rc = mine[t]
             /\ then' = [then EXCEPT ![t] = "error"] /\ Go(t, "swap")
          \/ rc # mine[t] /\ Go(t, "connect") /\ UNCHANGED then
  /\ UNCHANGED <<session, mine, turn>>

StartConnect(t) ==
  /\ at[t] = "connect"
  /\ Go(t, "running") \/ Go(t, "look")
  /\ UNCHANGED <<session, kernel, mine, turn, then>>

StartRunning(t) ==
  /\ at[t] = "running"
  /\ state' = "RUNNING"
  /\ Keep(t, 0) /\ Go(t, "idle")
  /\ UNCHANGED <<pid, freed, kernel, turn, then>>

\* set_error.
StartError(t) ==
  /\ at[t] = "error"
  /\ state' = "ERROR"
  /\ Keep(t, 0) /\ Go(t, "idle")
  /\ then' = [then EXCEPT ![t] = "return"]
  /\ UNCHANGED <<pid, freed, kernel, turn>>

-----------------------------------------------------------------------------
(***************************************************************************)
(* autossh_session_stop, and autossh_session_free, which stops first.  The *)
(* client frees once no other call is in progress and calls nothing after. *)
(***************************************************************************)
Stop(t) ==
  /\ t \in Stoppers /\ CanCall(t)
  /\ then' = [then EXCEPT ![t] = "return"] /\ Go(t, "swap")
  /\ UNCHANGED <<session, kernel, mine, turn>>

Free(t) ==
  /\ t \in Stoppers /\ CanCall(t) /\ \A u \in Threads : at[u] = "idle"
  /\ then' = [then EXCEPT ![t] = "free"] /\ Go(t, "swap")
  /\ UNCHANGED <<session, kernel, mine, turn>>

\* Take the pid: whoever swaps it out owns the teardown.
StopSwap(t) ==
  /\ at[t] = "swap"
  /\ pid' = 0 /\ Keep(t, pid)
  /\ Go(t, IF pid <= 0 THEN "stopped" ELSE "term")
  /\ UNCHANGED <<state, freed, kernel, turn, then>>

\* The process that kill_pid and waitpid are given: the local variable.
TargetReread(t) == pid
Target(t) == mine[t]

\* SIGTERM only asks: SupervisorEnds may follow, or not in time.
StopTerm(t) ==
  /\ at[t] = "term"
  /\ turn' = [turn EXCEPT ![t] = 0] /\ Go(t, "turn")
  /\ UNCHANGED <<session, kernel, mine, then>>

MoreTurnsByOne(n) == n <= StopTurns
MoreTurns(n) == n < StopTurns

\* One turn of the WNOHANG loop; ECHILD means somebody else reaped it.
StopTurn(t) ==
  /\ at[t] = "turn"
  /\ \E rc \in Results :
       /\ waitpid(Target(t), rc)
       /\ IF rc = Target(t) \/ rc = -1
          THEN Go(t, "stopped") /\ UNCHANGED turn
          ELSE /\ turn' = [turn EXCEPT ![t] = @ + 1]
               /\ Go(t, IF MoreTurns(turn[t] + 1) THEN "turn" ELSE "kill")
  /\ UNCHANGED <<session, mine, then>>

StopKillMissed(t) ==
  /\ at[t] = "kill"
  /\ Go(t, "block")
  /\ UNCHANGED <<session, kernel, mine, turn, then>>

StopKill(t) ==
  /\ at[t] = "kill"
  /\ KillHard(Target(t)) /\ Go(t, "block")
  /\ UNCHANGED <<session, mine, turn, then>>

\* The blocking waitpid; its result is ignored, EINTR too.
StopBlock(t) ==
  /\ at[t] = "block"
  /\ \/ \E rc \in Results \ {0} : waitpid(Target(t), rc)
     \/ Interrupt(Target(t))
  /\ Go(t, "stopped")
  /\ UNCHANGED <<session, mine, turn, then>>

\* Settle the state and return; inside a start its error follows, inside a free
\* the memory goes.
StopStopped(t) ==
  /\ at[t] = "stopped"
  /\ state' = "STOPPED"
  /\ freed' = (then[t] = "free")
  /\ turn' = [turn EXCEPT ![t] = 0] /\ Keep(t, 0)
  /\ Go(t, IF then[t] = "error" THEN "error" ELSE "idle")
  /\ then' = [then EXCEPT ![t] = "return"]
  /\ UNCHANGED <<pid, kernel>>

-----------------------------------------------------------------------------
(***************************************************************************)
(* autossh_session_state.                                                  *)
(***************************************************************************)
State(t) ==
  /\ t \in Pollers /\ CanCall(t)
  /\ Go(t, "load")
  /\ UNCHANGED <<session, kernel, mine, turn, then>>

StateLoad(t) ==
  /\ at[t] = "load"
  /\ IF pid > 0 THEN Keep(t, pid) /\ Go(t, "poll")
                ELSE UNCHANGED mine /\ Go(t, "idle")
  /\ UNCHANGED <<session, kernel, turn, then>>

StatePoll(t) ==
  /\ at[t] = "poll"
  /\ \E rc \in Results :
       /\ waitpid(mine[t], rc)
       /\ IF rc = mine[t] THEN Go(t, "clear") /\ UNCHANGED mine
                          ELSE Go(t, "idle") /\ Keep(t, 0)
  /\ UNCHANGED <<session, turn, then>>

\* compare_exchange(pid, 0).
StoreZero(p) == 0
StoreNothing(p) == pid
CompareExchange(p) == IF pid = p THEN 0 ELSE pid

StateClear(t) ==
  /\ at[t] = "clear"
  /\ pid' = CompareExchange(mine[t])
  /\ Go(t, "exited")
  /\ UNCHANGED <<state, freed, kernel, mine, turn, then>>

StateExited(t) ==
  /\ at[t] = "exited"
  /\ state' = "EXITED"
  /\ Keep(t, 0) /\ Go(t, "idle")
  /\ UNCHANGED <<pid, freed, kernel, turn, then>>

-----------------------------------------------------------------------------
Call(t) == Start(t) \/ Stop(t) \/ Free(t) \/ State(t)

Run(t) == \/ StartFork(t) \/ StartStore(t) \/ StartLook(t) \/ StartEarly(t)
          \/ StartConnect(t) \/ StartRunning(t) \/ StartError(t)
          \/ StopSwap(t) \/ StopTerm(t) \/ StopTurn(t) \/ StopKill(t)
          \/ StopBlock(t) \/ StopStopped(t)
          \/ StateLoad(t) \/ StatePoll(t) \/ StateClear(t) \/ StateExited(t)

\* Nothing is left to do once the session is freed.
Gone == freed /\ UNCHANGED vars

Next == \/ \E t \in Threads : Call(t) \/ Run(t)
        \/ \E p \in Pids : SupervisorEnds(p)
        \/ HostChildEnds \/ Gone

Spec == Init /\ [][Next]_vars

\* Threads keep running the calls they are in, and SIGKILL takes effect.  That a
\* signal of the host ends a wait is not counted on.
FairSpec == /\ Spec
            /\ \A t \in Threads : WF_vars(Run(t) /\ UNCHANGED interrupted)
            /\ \A p \in Pids : WF_vars(proc[p] = "doomed" /\ SupervisorEnds(p))

-----------------------------------------------------------------------------
RangesOK ==
  /\ pid \in 0 .. MaxStarts /\ state \in States
  /\ proc \in [Pids -> Fates]
  /\ host \in {"running", "zombie", "stolen"} /\ interrupted \subseteq Pids
  /\ at \in [Threads -> Labels] /\ mine \in [Threads -> 0 .. MaxStarts]
  /\ turn \in [Threads -> 0 .. StopTurns]
  /\ then \in [Threads -> {"return", "error", "free"}]

\* Shared fields, process table and locals keep their types.
TypeOK == RangesOK /\ freed \in BOOLEAN

Owns(t, p) == (at[t] \in StopLabels \/ at[t] = "store") /\ mine[t] = p

\* No supervisor is lost: while it is not reaped, its pid is in the session, or a
\* stop took it and is still at work, or start is about to store it.  The one
\* exception is a supervisor that has had SIGKILL and whose blocking waitpid in
\* stop a signal of the host cut short: nobody will reap it.
NoSupervisorLost ==
  \A p \in Living \cup Zombies :
    \/ pid = p \/ \E t \in Threads : Owns(t, p)
    \/ p \in interrupted /\ proc[p] # "alive"

\* The session does not keep the pid of a reaped supervisor, which the kernel may
\* give to another process: only the call that reaped it, before it clears it.
PidNotStale ==
  pid # 0 /\ proc[pid] = "reaped" =>
    \E t \in Threads : at[t] \in {"clear", "swap"} /\ mine[t] = pid

\* A stop that took a supervisor's pid settles the state only once that
\* supervisor is reaped, whoever reaped it; or, if a signal of the host cut the
\* blocking waitpid short, once it has had SIGKILL.
StopEnds ==
  \A t \in Threads : at[t] = "stopped" /\ mine[t] # 0 =>
    \/ proc[mine[t]] = "reaped"
    \/ mine[t] \in interrupted /\ proc[mine[t]] \in {"doomed", "zombie"}

(***************************************************************************)
(* The inductive invariant: what a thread knows at each label.  Only the   *)
(* starting thread stores a pid, and nobody else knows that pid before.    *)
(***************************************************************************)
ThreadInv(t) ==
  /\ at[t] \in {"fork", "store", "look", "early", "connect"} => t \in Starters
  /\ at[t] \in {"fork", "store"} => pid = 0
  /\ at[t] = "early" => pid \in {0, mine[t]}
  /\ at[t] \in StopLabels \/ at[t] \in {"store", "poll", "clear"} => mine[t] # 0
  /\ at[t] = "clear" => proc[mine[t]] = "reaped"
  /\ at[t] = "store" => /\ proc[mine[t]] # "reaped"
                        /\ \A u \in Threads \ {t} : mine[u] # mine[t]
  /\ at[t] \in StopLabels => pid # mine[t]
  /\ at[t] = "block" => proc[mine[t]] # "alive"
  /\ at[t] = "turn" => turn[t] < StopTurns
  /\ mine[t] # 0 => proc[mine[t]] # "unused"

ThreadsInv == \A t \in Threads : ThreadInv(t)

PidKnown == pid # 0 => proc[pid] # "unused"

\* SIGKILL comes before the blocking waitpid.
KilledFirst == \A p \in interrupted : proc[p] \notin {"unused", "alive"}

IInv == /\ TypeOK /\ NoSupervisorLost /\ PidNotStale /\ StopEnds
        /\ PidKnown /\ KilledFirst /\ ThreadsInv

\* Every stop returns, also inside a failed start or a free: even if the
\* supervisor ignores SIGTERM, and even if another thread reaps it meanwhile.
StopReturns ==
  \A t \in Threads :
    at[t] \in StopLabels \cup {"swap", "stopped"} ~> at[t] = "idle"

\* api.rs, stop: a state poll racing a stop finds 0 and does nothing; so it never
\* changes the state that a stop has settled.
PollDoesNothing == [][state = "STOPPED" => state' # "EXITED"]_vars

\* api.rs: the library keeps SIGCHLD ownership out of the host process; so it
\* never reaps a child that is not a supervisor.
ReapsOnlyOwn == host # "stolen"
=============================================================================
