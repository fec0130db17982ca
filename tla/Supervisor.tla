----------------------------- MODULE Supervisor -----------------------------
(***************************************************************************)
(* autossh's supervision loop: ssh_run (run.rs) starts an ssh child,       *)
(* ssh_watch (watch.rs) waits for a signal, for stderr output or for the   *)
(* alarm, ssh_wait (wait.rs) reaps and applies the exit policy, ssh_kill   *)
(* (kill.rs) ends the child, and sig_catch (signals.rs) runs whenever an   *)
(* unblocked signal is pending.  The other actors are the ssh child, the   *)
(* user who sends signals, and the clock.                                  *)
(*                                                                         *)
(* pc names the next statement of autossh.  Statements between two labels  *)
(* run with the signals blocked, or touch nothing that a signal, the child *)
(* or the clock can see, and are one action.                               *)
(*                                                                         *)
(* Times are stopwatches in whole seconds: the code only ever looks at     *)
(* differences with time().  A stopwatch saturates where no comparison can *)
(* tell it from a larger value.  A variable whose value can no longer be   *)
(* read (status once reaped, wr once our end is closed) is reset.          *)
(***************************************************************************)
EXTENDS Integers, FiniteSets

CONSTANTS
  poll_time, first_poll_time, gate_time,   \* seconds; gate_time 0 disables
  max_start,                               \* negative: no limit
  max_lifetime, max_session,               \* seconds; 0 disables
  Monitoring,                              \* writep non-null and sock # -1
  N_FAST_TRIES, PORT_FWD_FAIL_DELAY,       \* grace.rs
  MIN_GRACE, BACKOFF_DIV,                  \* grace.rs: 10.0, and 100.0 * 3.0
  SIGTERM_GRACE, SIGKILL_WAIT,             \* kill.rs
  UserSignals,                             \* what the user may send
  Outputs,                                 \* what ssh may write to stderr
  Endings,                                 \* how ssh may end by itself
  Prompt,                                  \* see Tick
  TriesCap, MaxOrphans                     \* bounds: see Tries and EnterD

ExitSignals == {"TERM", "INT"}
WatchSignals == ExitSignals \cup {"HUP", "USR1", "USR2", "CHLD", "ALRM"}
Fatal == {"fwd", "stuck"}
Statuses == {"signal", "0", "1", "255", "other"}

(***************************************************************************)
(* grace.rs: the pause before the t-th quick restart in a row.             *)
(***************************************************************************)
Interval(t) ==
  LET k == t - N_FAST_TRIES
      n == (poll_time * k * k) \div BACKOFF_DIV
  IN  IF k <= 0 THEN 0 ELSE IF n > poll_time THEN poll_time ELSE n

ASSUME ConstantsOK ==
  /\ poll_time \in Nat \ {0} /\ first_poll_time \in Nat \ {0}
  /\ gate_time \in Nat /\ max_start \in Int
  /\ max_lifetime \in Nat /\ max_session \in Nat
  /\ Monitoring \in BOOLEAN
  /\ N_FAST_TRIES \in Nat /\ PORT_FWD_FAIL_DELAY \in Nat
  /\ MIN_GRACE \in Nat \ {0} /\ BACKOFF_DIV \in Nat \ {0}
  /\ SIGTERM_GRACE \in Nat \ {0} /\ SIGKILL_WAIT \in Nat \ {0}
  /\ UserSignals \subseteq WatchSignals \ {"CHLD", "ALRM"}
  /\ Outputs \subseteq Fatal \cup {"text"}
  /\ Endings \subseteq Statuses
  /\ Prompt \in BOOLEAN /\ TriesCap \in Nat /\ MaxOrphans \in Nat

\* Past TriesCap the pause no longer grows, so counting further shows nothing.
ASSUME TriesCapOK == TriesCap > N_FAST_TRIES /\ Interval(TriesCap) = poll_time

VARIABLES
  pc, rv,                    \* next statement; what ssh_watch or ssh_run returns
  pending, blocked,          \* pending signals; is the watch mask in force?
  handlers,                  \* set_sig_handlers in force (else exit signals only)
  dolongjmp, caught,         \* sig_catch's flag; the value sigsetjmp returned
  exit_signalled, restart_ssh,
  start_count, tries, first, \* first: my_poll_time is still first_poll_time
  port_fwd_failed, spoke,    \* spoke: last_stderr_time # 0
  cchild,                    \* 0, -1 (fork's error) or 1 (the last child's pid)
  child, status,             \* the process cchild names, and how it ended
  orphans, unreaped,         \* children given up: still alive; zombies for good
  fd, wr, errbuf,            \* stderr pipe: our end, the child's end, unread data
  alarm, nap, waited,        \* alarm(2) timer, sleep() left, ssh_kill's counter
  age, uptime, lost          \* time since start_time, pid_start_time, pipe_lost_time

control == <<pc, rv>>
mask    == <<blocked, handlers, dolongjmp, caught>>
flags   == <<exit_signalled, restart_ssh>>
signals == <<pending, mask, flags>>
session == <<start_count, tries, first, port_fwd_failed, spoke, lost>>
process == <<cchild, child, status, orphans, unreaped>>
pipe    == <<fd, wr, errbuf>>
timers  == <<alarm, nap, waited, age, uptime>>
vars == <<control, signals, session, process, pipe, timers>>

Off == -1                    \* no alarm pending; pipe_lost_time = 0

Larger(a, b) == IF a > b THEN a ELSE b
MinTime   == Larger(poll_time \div 10, MIN_GRACE)
AgeCap    == Larger(MinTime, Larger(gate_time + 1, max_session))
UptimeCap == IF max_lifetime = 0 THEN 0 ELSE max_lifetime + 1
AlarmCap  == Larger(poll_time, first_poll_time)
NapCap    == Larger(Larger(poll_time, PORT_FWD_FAIL_DELAY), 1)
StartCap  == Larger(max_start, IF gate_time = 0 THEN 0 ELSE 2)

Labels == {"loop", "grace", "port", "check", "fork", "xerrlog", "install",
           "enter", "top", "try", "wait", "catch", "alrm", "conn", "kterm",
           "kkill", "killed", "release", "ret", "leave", "unset", "done"}

Returns == {"none", "restart", "release", "exitok", "exiterr",
            "xerrlog", "forced", "fatal"}

(***************************************************************************)
(* The state in which main calls ssh_run.  start_time is still 0, so the   *)
(* first grace_time sees an old start; uptime began in get_env_args.       *)
(***************************************************************************)
Init ==
  /\ pc = "loop" /\ rv = "none"
  /\ pending = {} /\ blocked = FALSE /\ handlers = FALSE
  /\ dolongjmp = FALSE /\ caught = "CHLD"
  /\ exit_signalled = FALSE /\ restart_ssh = FALSE
  /\ start_count = 0 /\ tries = 0 /\ first = TRUE
  /\ port_fwd_failed = FALSE /\ spoke = FALSE
  /\ cchild = 0 /\ child = "none" /\ status = "0"
  /\ orphans = 0 /\ unreaped = 0
  /\ fd = FALSE /\ wr = FALSE /\ errbuf = {}
  /\ alarm = Off /\ nap = 0 /\ waited = 0
  /\ age = AgeCap /\ uptime = 0 /\ lost = Off

-----------------------------------------------------------------------------
(***************************************************************************)
(* Signals.  An unblocked pending signal is delivered before the next      *)
(* statement of the program runs (Ready), except inside ppoll, which may   *)
(* see the descriptor first.                                               *)
(***************************************************************************)
Ready(label) == pc = label /\ nap = 0 /\ (blocked \/ pending = {})

Exit(how) == pc' = "done" /\ rv' = how

\* sig_catch: a second exit signal ends the program on the spot; otherwise set
\* the flags and, inside the wait, jump to the CATCH branch, where sigsetjmp
\* has restored the blocked mask.  A sleep() in progress returns.
sig_catch(sig) ==
  \/ /\ sig \in ExitSignals /\ exit_signalled
     /\ Exit("forced")
     /\ UNCHANGED <<mask, flags, nap>>
  \/ /\ ~(sig \in ExitSignals /\ exit_signalled)
     /\ exit_signalled' = (exit_signalled \/ sig \in ExitSignals)
     /\ restart_ssh' = (restart_ssh \/ sig = "USR1")
     /\ nap' = 0
     /\ IF dolongjmp
        THEN /\ dolongjmp' = FALSE /\ caught' = sig
             /\ pc' = "catch" /\ blocked' = TRUE
             /\ UNCHANGED <<rv, handlers>>
        ELSE UNCHANGED <<control, mask>>

\* SIG_DFL, outside the watch: SIGCHLD is discarded, the others are fatal.
Default(sig) ==
  /\ \/ sig = "CHLD" /\ UNCHANGED control
     \/ sig # "CHLD" /\ Exit("fatal")
  /\ UNCHANGED <<mask, flags, nap>>

Deliver(sig) ==
  /\ pc # "done" /\ ~blocked /\ sig \in pending
  /\ pending' = pending \ {sig}
  /\ IF handlers \/ sig \in ExitSignals THEN sig_catch(sig) ELSE Default(sig)
  /\ UNCHANGED <<session, process, pipe, alarm, waited, age, uptime>>

-----------------------------------------------------------------------------
(***************************************************************************)
(* ssh_run, before the fork.                                               *)
(***************************************************************************)
exceeded_lifetime == max_lifetime > 0 /\ uptime >= max_lifetime

MoreStartsByOne == max_start < 0 \/ start_count <= max_start
MoreStarts == max_start < 0 \/ start_count < max_start

\* The loop condition fails, or exceeded_lifetime() holds at its top.
StopStarting ==
  /\ Ready("loop")
  /\ ~MoreStarts \/ exceeded_lifetime
  /\ Exit("exitok")
  /\ UNCHANGED <<signals, session, process, pipe, timers>>

\* Count the start and enter grace_time, up to its first sleep().
Tries ==
  IF age >= MinTime THEN 0 ELSE IF tries = TriesCap THEN tries ELSE tries + 1

BeginStart ==
  /\ Ready("loop") /\ MoreStarts /\ ~exceeded_lifetime
  /\ restart_ssh' = FALSE
  /\ start_count' = IF start_count = StartCap THEN StartCap ELSE start_count + 1
  /\ tries' = Tries
  /\ nap' = Interval(Tries)
  /\ pc' = "grace"
  /\ UNCHANGED <<rv, pending, mask, exit_signalled, first, port_fwd_failed,
                 spoke, lost, process, pipe, alarm, waited, age, uptime>>

\* grace_time's second half: the fixed delay after a failed port forward.
GraceOver ==
  /\ Ready("grace")
  /\ IF port_fwd_failed THEN nap' = PORT_FWD_FAIL_DELAY /\ pc' = "port"
                        ELSE nap' = 0 /\ pc' = "check"
  /\ UNCHANGED <<rv, signals, session, process, pipe, alarm, waited, age,
                 uptime>>

PortDelayOver ==
  /\ Ready("port")
  /\ port_fwd_failed' = FALSE
  /\ pc' = "check"
  /\ UNCHANGED <<rv, signals, start_count, tries, first, spoke, lost, process,
                 pipe, timers>>

CheckExit ==
  /\ Ready("check") /\ exit_signalled
  /\ Exit("exiterr")
  /\ UNCHANGED <<signals, session, process, pipe, timers>>

\* Reset what the new child's watch looks at.
Prepare ==
  /\ Ready("check") /\ ~exit_signalled
  /\ age' = 0 /\ port_fwd_failed' = FALSE /\ lost' = Off /\ spoke' = FALSE
  /\ pc' = "fork"
  /\ UNCHANGED <<rv, signals, start_count, tries, first, process, pipe, alarm,
                 nap, waited, uptime>>

\* fork() succeeds; piped is whether pipe() did.
Fork(piped) ==
  /\ Ready("fork")
  /\ cchild' = 1 /\ child' = "starting"
  /\ fd' = piped /\ wr' = piped /\ errbuf' = {}
  /\ pc' = "install"
  /\ UNCHANGED <<rv, signals, session, status, orphans, unreaped, timers>>

\* A failed fork() leaves cchild = -1, and the next statement clears it.
ForkErrorKept == -1
ForkError == 0

ForkFails ==
  /\ Ready("fork")
  /\ cchild' = ForkError
  /\ pc' = "xerrlog"
  /\ UNCHANGED <<rv, signals, session, child, status, orphans, unreaped, pipe,
                 timers>>

InstallHandlers ==
  /\ Ready("install")
  /\ handlers' = TRUE
  /\ pc' = "enter"
  /\ UNCHANGED <<rv, pending, blocked, dolongjmp, caught, flags, session,
                 process, pipe, timers>>

-----------------------------------------------------------------------------
(***************************************************************************)
(* ssh_kill.  It closes our end of the pipe, sends SIGTERM and polls once  *)
(* a second, then sends SIGKILL and polls again, then gives the child up.  *)
(* r is what the caller returns afterwards; "release" is P_RESTART after   *)
(* the sleep that lets the remote port go.                                 *)
(***************************************************************************)
ssh_kill(r) ==
  /\ rv' = r
  /\ fd' = FALSE /\ wr' = FALSE /\ errbuf' = {}
  /\ waited' = 0
  /\ pc' = IF cchild = 0 THEN "killed" ELSE "kterm"

\* reap_with_grace has turns left in its present phase.
Phase == IF pc = "kterm" THEN SIGTERM_GRACE ELSE SIGKILL_WAIT
TurnsLeftOneMore == waited <= Phase
TurnsLeft == waited < Phase

\* waitpid(cchild, WNOHANG) is not 0: reaped now, or ECHILD.
ReapedAnyway == TRUE
Reaped == child \in {"zombie", "none"}

\* One turn of reap_with_grace.
KillReap ==
  /\ Ready("kterm") \/ Ready("kkill")
  /\ TurnsLeft
  /\ IF Reaped
     THEN /\ cchild' = 0 /\ status' = "0"
          /\ child' = IF child = "zombie" THEN "none" ELSE child
          /\ pc' = "killed" /\ waited' = 0
          /\ UNCHANGED nap
     ELSE /\ nap' = 1 /\ waited' = waited + 1
          /\ UNCHANGED <<pc, cchild, child, status>>
  /\ UNCHANGED <<rv, signals, session, orphans, unreaped, pipe, alarm, age,
                 uptime>>

\* SIGKILL.  A child in an uninterruptible call dies only when it leaves it.
KillEscalate ==
  /\ Ready("kterm") /\ ~TurnsLeft
  /\ waited' = 0
  /\ pc' = "kkill"
  /\ IF child \in {"starting", "failing", "alive"}
     THEN child' = "zombie" /\ status' = "signal" /\ pending' = pending \cup {"CHLD"}
     ELSE /\ child' = IF child = "dstate" THEN "doomed" ELSE child
          /\ UNCHANGED <<pending, status>>
  /\ UNCHANGED <<rv, mask, flags, session, cchild, orphans, unreaped, pipe, alarm,
                 nap, age, uptime>>

\* Forget the child.  One that died in the last sleep was not waited for again:
\* it stays a zombie for as long as autossh runs.
KillAbandon ==
  /\ Ready("kkill") /\ ~TurnsLeft
  /\ cchild' = 0 /\ child' = "none" /\ status' = "0"
  /\ orphans' = IF child = "zombie" THEN orphans ELSE orphans + 1
  /\ unreaped' = IF child = "zombie" THEN unreaped + 1 ELSE unreaped
  /\ pc' = "killed" /\ waited' = 0
  /\ UNCHANGED <<rv, signals, session, pipe, alarm, nap, age, uptime>>

\* Back in the caller of ssh_kill.
Killed ==
  /\ Ready("killed")
  /\ \/ /\ rv = "xerrlog" /\ Exit("xerrlog") /\ UNCHANGED nap
     \/ /\ rv = "release" /\ rv' = rv
        /\ nap' = PORT_FWD_FAIL_DELAY /\ pc' = "release"
     \/ /\ rv \notin {"xerrlog", "release"} /\ rv' = rv
        /\ pc' = "ret" /\ UNCHANGED nap
  /\ UNCHANGED <<signals, session, process, pipe, alarm, waited, age, uptime>>

Release ==
  /\ Ready("release")
  /\ rv' = "restart"
  /\ pc' = "ret"
  /\ UNCHANGED <<signals, session, process, pipe, timers>>

\* xerrlog! after a failed fork: ssh_kill, remove the pid file, _exit(1).
XErrlog ==
  /\ Ready("xerrlog")
  /\ ssh_kill("xerrlog")
  /\ UNCHANGED <<signals, session, process, alarm, nap, age, uptime>>

-----------------------------------------------------------------------------
(***************************************************************************)
(* ssh_watch.                                                              *)
(***************************************************************************)

\* Entry: my_poll_time = first_poll_time, block, save the old mask.
Enter ==
  /\ Ready("enter")
  /\ first' = TRUE /\ blocked' = TRUE
  /\ pc' = "top"
  /\ UNCHANGED <<rv, pending, handlers, dolongjmp, caught, flags, start_count,
                 tries, port_fwd_failed, spoke, lost, process, pipe, timers>>

\* The top of the loop blocks again, then looks at restart_ssh.
TopMaskKept == blocked
TopMask == TRUE

RestartMissed == FALSE
RestartAsked == restart_ssh

Top ==
  /\ Ready("top")
  /\ blocked' = TopMask
  /\ \/ /\ RestartAsked /\ ssh_kill("restart")
     \/ /\ ~RestartAsked /\ pc' = "try"
        /\ UNCHANGED <<rv, pipe, waited>>
  /\ UNCHANGED <<pending, handlers, dolongjmp, caught, flags, session, process,
                 alarm, nap, age, uptime>>

\* check_ssh_stderr: reads what there is; hit is the fatal message it found.  It
\* searches each read by itself (StderrDrain): among other text a message may
\* be missed.
Found(hit) == \/ hit \in errbuf \cap Fatal
              \/ hit = "none" /\ (errbuf \cap Fatal = {} \/ "text" \in errbuf)

check_ssh_stderr(hit) ==
  /\ Found(hit)
  /\ spoke' = (spoke \/ errbuf # {})
  /\ port_fwd_failed' = (port_fwd_failed \/ hit = "fwd")

\* ssh_wait's policy for a child that ended with s.
ExitPolicy(s) ==
  CASE s = "signal" -> "restart"
    [] s # "signal" /\ start_count = 1 /\ gate_time # 0 /\ age <= gate_time -> "exiterr"
    [] OTHER -> CASE s = "255" -> "restart"
                  [] s = "0" -> "exitok"
                  [] s = "1" -> IF start_count > 1 \/ gate_time = 0
                                THEN "restart" ELSE "exiterr"
                  [] OTHER -> "exiterr"

\* ssh_wait reaps.  cchild keeps the pid of the process that is gone.
EndedExceptBySignal == child = "zombie" /\ status # "signal"
Ended == child = "zombie"

TryReap ==
  /\ Ready("try") /\ Ended
  /\ child' = "none" /\ status' = "0"
  /\ \E hit \in Fatal \cup {"none"} : check_ssh_stderr(hit)
  /\ errbuf' = {}
  /\ rv' = ExitPolicy(status)
  /\ pc' = "ret"
  /\ UNCHANGED <<signals, start_count, tries, first, lost, cchild, orphans,
                 unreaped, fd, wr, timers>>

\* The seconds given to alarm(): what was left of the last alarm (never 0 if
\* one was pending) or the poll time, cut by max_lifetime and max_session.
PollTimeMissed == 0
MyPollTime == IF first THEN first_poll_time ELSE poll_time

SecsLeft ==
  LET left == IF alarm # Off THEN Larger(alarm, 1) ELSE MyPollTime
      life == max_lifetime - uptime
      cut  == IF max_lifetime # 0 /\ life < poll_time THEN life ELSE left
  IN  IF max_session > 0 /\ cut > max_session THEN max_session ELSE cut

\* alarm(0) only cancels, and a negative count wraps to over a century.
Arm(secs) == IF secs <= 0 THEN Off ELSE secs

\* The child still runs: set the alarm, obey an exit signal caught earlier, or
\* wait with the mask open.
ExitMissed == FALSE
ExitAsked == exit_signalled

TryArm ==
  /\ Ready("try") /\ ~Ended
  /\ alarm' = Arm(SecsLeft)
  /\ first' = FALSE
  /\ \/ /\ ExitAsked /\ ssh_kill("exiterr")
        /\ UNCHANGED <<blocked, dolongjmp>>
     \/ /\ ~ExitAsked
        /\ dolongjmp' = TRUE /\ blocked' = FALSE
        /\ pc' = "wait"
        /\ UNCHANGED <<rv, pipe, waited>>
  /\ UNCHANGED <<pending, handlers, caught, flags, start_count, tries,
                 port_fwd_failed, spoke, lost, process, nap, age, uptime>>

\* dolongjmp after ppoll returns.
JumpKept == TRUE
JumpAfterPoll == FALSE

\* ppoll finds data (POLLIN).
WaitReadable(hit) ==
  /\ pc = "wait" /\ fd /\ errbuf # {}
  /\ dolongjmp' = JumpAfterPoll /\ blocked' = TRUE
  /\ check_ssh_stderr(hit)
  /\ \/ /\ hit # "none" /\ ssh_kill("release")
     \/ /\ hit = "none" /\ errbuf' = {}
        /\ pc' = "top"
        /\ UNCHANGED <<rv, fd, wr, waited>>
  /\ UNCHANGED <<pending, handlers, caught, flags, start_count, tries, first,
                 lost, process, alarm, nap, age, uptime>>

\* ppoll finds the other end closed and nothing left to read.
WaitHangup ==
  /\ pc = "wait" /\ fd /\ errbuf = {} /\ ~wr
  /\ dolongjmp' = JumpAfterPoll /\ blocked' = TRUE
  /\ fd' = FALSE
  /\ lost' = IF lost = Off THEN 0 ELSE lost
  /\ pc' = "top"
  /\ UNCHANGED <<rv, pending, handlers, caught, flags, start_count, tries,
                 first, port_fwd_failed, spoke, process, wr, errbuf, timers>>

\* CATCH: unblock, so that a second exit signal can interrupt ssh_kill.
Catch ==
  /\ Ready("catch")
  /\ blocked' = FALSE /\ caught' = "CHLD"
  /\ \/ /\ caught \in ExitSignals /\ ssh_kill("exiterr")
     \/ /\ caught \notin ExitSignals
        /\ pc' = IF caught = "ALRM" THEN "alrm" ELSE "top"
        /\ UNCHANGED <<rv, pipe, waited>>
  /\ UNCHANGED <<pending, handlers, dolongjmp, flags, session, process, alarm,
                 nap, age, uptime>>

\* The watchdogs that max_session turns on.
PipeLostTooLong == max_session > 0 /\ lost # Off /\ lost >= max_session
NeverSpoke      == max_session > 0 /\ ~spoke /\ age >= max_session

WatchdogPipeOnly == PipeLostTooLong
Watchdog == PipeLostTooLong \/ NeverSpoke

\* SIGALRM, first half: lifetime, then the watchdogs.
AlarmKill ==
  /\ Ready("alrm")
  /\ \/ exceeded_lifetime /\ ssh_kill("exitok")
     \/ /\ ~exceeded_lifetime /\ Watchdog
        /\ ssh_kill("restart")
  /\ UNCHANGED <<signals, session, process, alarm, nap, age, uptime>>

\* SIGALRM, second half: drain stderr, then test the monitored connection.
AlarmDrain(hit) ==
  /\ Ready("alrm")
  /\ ~exceeded_lifetime /\ ~Watchdog
  /\ check_ssh_stderr(hit)
  /\ \/ /\ hit # "none" /\ ssh_kill("release")
     \/ /\ hit = "none" /\ errbuf' = {}
        /\ pc' = IF Monitoring THEN "conn" ELSE "top"
        /\ UNCHANGED <<rv, fd, wr, waited>>
  /\ UNCHANGED <<signals, start_count, tries, first, lost, process, alarm, nap,
                 age, uptime>>

\* conn_test found the tunnel up, or down.
ConnTest(up) ==
  /\ Ready("conn")
  /\ \/ up /\ pc' = "top" /\ UNCHANGED <<rv, pipe, waited>>
     \/ ~up /\ ssh_kill("restart")
  /\ UNCHANGED <<signals, session, process, alarm, nap, age, uptime>>

\* ret(): restore the saved mask.
RetMaskKept == blocked
RetMask == FALSE

Ret ==
  /\ Ready("ret")
  /\ blocked' = RetMask
  /\ pc' = "leave"
  /\ UNCHANGED <<rv, pending, handlers, dolongjmp, caught, flags, session,
                 process, pipe, timers>>

\* Back in ssh_run: clear the alarm before the handlers go.
AlarmKept == alarm
AlarmCleared == Off

Leave ==
  /\ Ready("leave")
  /\ dolongjmp' = FALSE /\ alarm' = AlarmCleared
  /\ pc' = "unset"
  /\ UNCHANGED <<rv, pending, blocked, handlers, caught, flags, session,
                 process, pipe, nap, waited, age, uptime>>

UnsetHandlers ==
  /\ Ready("unset")
  /\ handlers' = FALSE
  /\ fd' = FALSE /\ wr' = FALSE /\ errbuf' = {}
  /\ \/ rv \in {"exitok", "exiterr"} /\ pc' = "done" /\ rv' = rv
     \/ rv = "restart" /\ pc' = "loop" /\ rv' = "none"
  /\ UNCHANGED <<pending, blocked, dolongjmp, caught, flags, session, process,
                 timers>>

-----------------------------------------------------------------------------
(***************************************************************************)
(* The ssh child.  Until execvp it carries autossh's handlers, so SIGTERM  *)
(* need not end it; after that it may end at any moment, or be held in an  *)
(* uninterruptible call.                                                   *)
(***************************************************************************)
Exec ==
  /\ child = "starting" /\ pc # "done"
  /\ child' = "alive"
  /\ UNCHANGED <<control, signals, session, cchild, status, orphans, unreaped,
                 pipe, timers>>

\* execvp fails: a line on stderr, SIGTERM to the parent, then _exit(1).
ExecFails ==
  /\ child = "starting" /\ pc # "done"
  /\ child' = "failing"
  /\ errbuf' = IF fd THEN errbuf \cup {"text"} ELSE errbuf
  /\ pending' = pending \cup {"TERM"}
  /\ UNCHANGED <<control, mask, flags, session, cchild, status, orphans, unreaped,
                 fd, wr, timers>>

\* The child ends; a descendant may still hold its stderr open.  An execvp that
\* fails once ssh_kill has closed the pipe meets SIGPIPE when it writes its line.
ChildExit(s) ==
  /\ pc # "done"
  /\ \/ child = "alive" /\ s \in Endings
     \/ child = "failing" /\ s = "1"
     \/ child = "starting" /\ s = "signal" /\ pc = "kterm"
  /\ child' = "zombie" /\ status' = s
  /\ wr' \in {wr, FALSE}
  /\ pending' = pending \cup {"CHLD"}
  /\ UNCHANGED <<control, mask, flags, session, cchild, orphans, unreaped, fd,
                 errbuf, timers>>

Speak(k) ==
  /\ child = "alive" /\ fd /\ wr /\ pc # "done"
  /\ k \notin errbuf
  /\ errbuf' = errbuf \cup {k}
  /\ UNCHANGED <<control, signals, session, process, fd, wr, timers>>

CloseStderr ==
  /\ child \in {"alive", "zombie"} /\ fd /\ wr /\ pc # "done"
  /\ wr' = FALSE
  /\ UNCHANGED <<control, signals, session, process, fd, errbuf, timers>>

EnterD ==
  /\ child = "alive" /\ orphans + unreaped < MaxOrphans /\ pc # "done"
  /\ child' = "dstate"
  /\ UNCHANGED <<control, signals, session, cchild, status, orphans, unreaped,
                 pipe, timers>>

LeaveD ==
  /\ pc # "done"
  /\ \/ /\ child = "dstate" /\ child' = "alive" /\ UNCHANGED <<pending,
                                                               status>>
     \/ /\ child = "doomed" /\ child' = "zombie" /\ status' = "signal"
        /\ pending' = pending \cup {"CHLD"}
  /\ UNCHANGED <<control, mask, flags, session, cchild, orphans, unreaped, pipe,
                 timers>>

\* An abandoned child ends: a SIGCHLD, and a zombie nobody waits for.
OrphanDies ==
  /\ orphans > 0 /\ pc # "done"
  /\ orphans' = orphans - 1 /\ unreaped' = unreaped + 1
  /\ pending' = pending \cup {"CHLD"}
  /\ UNCHANGED <<control, mask, flags, session, cchild, child, status, pipe,
                 timers>>

-----------------------------------------------------------------------------
(***************************************************************************)
(* The user and the clock.                                                 *)
(***************************************************************************)
UserSignal(sig) ==
  /\ pc # "done" /\ sig \notin pending
  /\ pending' = pending \cup {sig}
  /\ UNCHANGED <<control, mask, flags, session, process, pipe, timers>>

\* An alarm of n seconds expires after n ticks and before the next one.
Expire ==
  /\ alarm = 0 /\ pc # "done"
  /\ alarm' = Off
  /\ pending' = pending \cup {"ALRM"}
  /\ UNCHANGED <<control, mask, flags, session, process, pipe, nap, waited,
                 age, uptime>>

Advance(x, cap) == IF x < cap THEN x + 1 ELSE x
Count(x) == IF x > 0 THEN x - 1 ELSE x

\* A second passes: between any two statements or, if Prompt, only while
\* autossh sleeps, waits or tests the connection.
Tick ==
  /\ pc # "done" /\ alarm # 0
  /\ ~Prompt \/ nap > 0 \/ pc \in {"wait", "conn"}
  /\ age' = Advance(age, AgeCap)
  /\ uptime' = Advance(uptime, UptimeCap)
  /\ lost' = IF lost = Off THEN Off ELSE Advance(lost, max_session)
  /\ alarm' = Count(alarm)
  /\ nap' = Count(nap)
  /\ UNCHANGED <<control, signals, start_count, tries, first, port_fwd_failed,
                 spoke, process, pipe, waited>>

-----------------------------------------------------------------------------
Hits == Fatal \cup {"none"}

SshRun == StopStarting \/ BeginStart \/ GraceOver \/ PortDelayOver \/ CheckExit
          \/ Prepare \/ (\E p \in BOOLEAN : Fork(p)) \/ ForkFails \/ XErrlog
          \/ InstallHandlers \/ Leave \/ UnsetHandlers
SshWatch == Enter \/ Top \/ TryReap \/ TryArm \/ Catch \/ AlarmKill \/ Ret
            \/ (\E hit \in Hits : WaitReadable(hit) \/ AlarmDrain(hit))
            \/ WaitHangup \/ (\E up \in BOOLEAN : ConnTest(up))
SshKill == KillReap \/ KillEscalate \/ KillAbandon \/ Killed \/ Release
Autossh == SshRun \/ SshWatch \/ SshKill

Child == Exec \/ ExecFails \/ (\E s \in Statuses : ChildExit(s))
         \/ (\E k \in Outputs : Speak(k)) \/ CloseStderr
         \/ EnterD \/ LeaveD \/ OrphanDies
User == \E sig \in UserSignals : UserSignal(sig)

Finished == pc = "done" /\ UNCHANGED vars

Next == Autossh \/ (\E sig \in WatchSignals : Deliver(sig)) \/ Child \/ User
        \/ Expire \/ Tick \/ Finished

Spec == Init /\ [][Next]_vars

(***************************************************************************)
(* Fairness.  autossh keeps running, the clock keeps ticking, and ssh does *)
(* not write so densely, nor the user signal so often, that ppoll never    *)
(* gets to deliver a signal or the alarm is always set again before it     *)
(* expires.  Nothing is assumed of the child.                              *)
(***************************************************************************)
FairSpec == /\ Spec
            /\ SF_vars(Autossh) /\ WF_vars(Tick) /\ SF_vars(Expire)
            /\ \A sig \in UserSignals \cup {"TERM", "CHLD", "ALRM"} :
                 SF_vars(Deliver(sig))

-----------------------------------------------------------------------------
(***************************************************************************)
(* Safety.                                                                 *)
(***************************************************************************)

\* Flags.
FlagsOK ==
  /\ blocked \in BOOLEAN /\ handlers \in BOOLEAN /\ dolongjmp \in BOOLEAN
  /\ exit_signalled \in BOOLEAN /\ restart_ssh \in BOOLEAN /\ first \in BOOLEAN
  /\ port_fwd_failed \in BOOLEAN /\ spoke \in BOOLEAN
  /\ fd \in BOOLEAN /\ wr \in BOOLEAN

\* Labels, signals, process states and messages.
KindsOK ==
  /\ pc \in Labels /\ rv \in Returns
  /\ pending \subseteq WatchSignals /\ caught \in WatchSignals
  /\ cchild \in {-1, 0, 1}
  /\ child \in {"none", "starting", "failing", "alive", "dstate", "doomed", "zombie"}
  /\ status \in Statuses /\ errbuf \subseteq Fatal \cup {"text"}

\* Counters and stopwatches.
RangesOK ==
  /\ start_count \in 0 .. StartCap /\ tries \in 0 .. TriesCap
  /\ orphans \in Nat /\ unreaped \in Nat /\ orphans + unreaped <= MaxOrphans
  /\ alarm \in Off .. AlarmCap /\ nap \in 0 .. NapCap
  /\ waited \in 0 .. Larger(SIGTERM_GRACE, SIGKILL_WAIT)
  /\ age \in 0 .. AgeCap /\ uptime \in 0 .. UptimeCap
  /\ lost \in Off .. max_session

\* Every variable of the supervision loop stays in its range; in particular
\* no stopwatch, retry counter or poll counter passes its bound.
TypeOK == FlagsOK /\ KindsOK /\ RangesOK

\* ssh_watch never goes to sleep in ppoll or sigsuspend on work already
\* announced: no restart or exit request is recorded, and if the child is
\* already dead its SIGCHLD is still pending and will end the wait.
NoLostWakeup ==
  pc = "wait" => /\ ~restart_ssh /\ ~exit_signalled
                 /\ child = "zombie" => "CHLD" \in pending

\* ssh_kill signals only the child that autossh forked and has not reaped: it
\* never runs with the pid of a reaped process, which ssh_wait leaves in
\* cchild, nor with fork's -1, which would signal every process of the user.
KillsOwnChild ==
  /\ pc \in {"kterm", "kkill"} => cchild = 1 /\ child # "none"
  /\ pc = "xerrlog" => cchild = 0

\* sig_catch jumps to ssh_watch's jump buffer only out of the wait itself,
\* never into a frame that has returned or past a half-done kill.
LongjmpInWait == dolongjmp /\ ~blocked /\ pc # "done" => pc = "wait"

\* A new ssh is forked only when the last one is reaped or given up, with the
\* default mask and handlers, which it inherits, and with no alarm running.
ForkClean ==
  pc = "fork" => /\ child = "none" /\ ~fd
                 /\ ~blocked /\ ~handlers /\ alarm = Off

\* A SIGALRM set by ssh_watch never meets the default action, which would end
\* autossh: while the timer runs or its signal is pending, sig_catch is set.
AlarmHandled ==
  (alarm # Off \/ "ALRM" \in pending) /\ pc # "done" => handlers

\* Unless a second exit signal or a fatal default action cut it short, autossh
\* exits with no child in its care: the last one was reaped, or ssh_kill sent it
\* SIGKILL and gave it up after SIGKILL_WAIT.
CleanExit ==
  pc = "done" /\ rv \notin {"forced", "fatal"} => child = "none"

\* Without a maximum lifetime, every wait has an alarm running or a SIGALRM
\* pending, so the connection tests and the watchdogs do come.
WaitIsTimed ==
  pc = "wait" /\ max_lifetime = 0 => alarm # Off \/ "ALRM" \in pending

(***************************************************************************)
(* The inductive invariant: what holds at each label.                      *)
(***************************************************************************)
KillLabels  == {"kterm", "kkill"}
ChildLabels == {"install", "enter", "top", "try", "wait", "catch", "alrm",
                "conn"} \cup KillLabels
EndLabels   == {"release", "ret", "leave", "unset"}
InWatch == \/ pc \in (ChildLabels \ {"install"}) \cup EndLabels
           \/ pc = "killed" /\ rv # "xerrlog"

\* Where the handlers, the mask and the jump flag are set.
SignalInv ==
  /\ pc # "done" => handlers = InWatch
  /\ blocked => pc = "done" \/ (InWatch /\ pc \notin
                   {"enter", "wait", "alrm", "conn", "leave", "unset"})
  /\ pc \in {"try", "catch"} => blocked
  /\ dolongjmp => pc \in {"wait", "done"}
  /\ pc = "wait" => dolongjmp
  /\ pc \in {"try", "wait"} => ~restart_ssh
  /\ pc = "wait" => ~exit_signalled

\* Which process cchild names, and what the kill in progress will return.
ChildInv ==
  /\ pc \in ChildLabels => cchild = 1 /\ child # "none"
  /\ pc \notin ChildLabels \cup {"done"} => child = "none"
  /\ pc = "kkill" => child \in {"zombie", "doomed"}
  /\ child \in {"dstate", "doomed"} => orphans + unreaped < MaxOrphans
  /\ pc = "kkill" /\ waited # 0 => orphans + unreaped < MaxOrphans
  /\ pc = "xerrlog" => cchild = 0
  /\ pc = "wait" /\ child = "zombie" => "CHLD" \in pending
  /\ pc \in KillLabels => rv \in {"restart", "release", "exitok", "exiterr"}
  /\ pc = "killed" =>
       rv \in {"restart", "release", "exitok", "exiterr", "xerrlog"}
  /\ pc \in {"ret", "leave", "unset"} => rv \in {"restart", "exitok", "exiterr"}

\* Where the alarm may run and the pipe be open.
TimerInv ==
  /\ pc # "done" => (alarm # Off \/ "ALRM" \in pending => handlers)
  /\ pc = "unset" => alarm = Off
  /\ fd => pc \in (ChildLabels \cup EndLabels \cup {"done"})
                  \ (KillLabels \cup {"release"})
  /\ WaitIsTimed

IInv == TypeOK /\ SignalInv /\ ChildInv /\ TimerInv /\ CleanExit

-----------------------------------------------------------------------------
(***************************************************************************)
(* The loop implements Tunnel.                                             *)
(***************************************************************************)
TunnelPhase(label, result) ==
  IF label = "done" THEN IF result \in {"forced", "fatal"} THEN "cut" ELSE "exited"
  ELSE IF label = "fork" THEN "committed"
  ELSE IF label \in {"grace", "port", "check"} THEN "armed" ELSE "idle"

TunnelSsh(c) ==
  IF c = "none" THEN "none" ELSE IF c = "zombie" THEN "dead" ELSE "live"

Promise == INSTANCE Tunnel WITH
  phase <- TunnelPhase(pc, rv), ssh <- TunnelSsh(child),
  starts <- start_count, asked <- exit_signalled

\* One ssh at a time, each start counted by ssh_run and within max_start, no
\* start decided on once sig_catch has seen an exit signal, at most one child
\* given up at a time, and no child left at an orderly exit.
TunnelKept == Promise!Spec

-----------------------------------------------------------------------------
(***************************************************************************)
(* Liveness, under FairSpec.                                               *)
(***************************************************************************)

\* A SIGTERM, from the user or from a child whose execvp failed, ends autossh,
\* whatever it is doing and even if the child cannot be killed.
ExitHonoured == "TERM" \in pending ~> pc = "done"

\* A child found dead in time does not stay a zombie: it is reaped, not given up,
\* or autossh exits.  Too late is the last sleep of ssh_kill, after which nobody
\* waits for the child again.
LastSleep == pc = "kkill" /\ waited = SIGKILL_WAIT

ChildReaped ==
  \A n \in 0 .. MaxOrphans :
    child = "zombie" /\ ~LastSleep /\ orphans + unreaped = n
      ~> pc = "done" \/ (child = "none" /\ orphans + unreaped = n)

\* A restart request recorded by SIGUSR1 is carried out, or autossh exits.
RestartHonoured == restart_ssh ~> ~restart_ssh \/ pc = "done"

\* With max_session set, a child that has written nothing for max_session
\* seconds, or whose stderr was lost that long ago, does not hold autossh: a
\* new start resets both clocks, or the child speaks, or autossh exits.
SilenceEnds ==
  max_session > 0 =>
    /\ NeverSpoke ~> ~NeverSpoke \/ pc = "done"
    /\ PipeLostTooLong ~> ~PipeLostTooLong \/ pc = "done"

\* autossh.1, AUTOSSH_MAXLIFETIME: once the lifetime has passed, the child is
\* killed and the program exits.
LifetimeEnforced ==
  max_lifetime > 0 => (uptime >= max_lifetime ~> pc = "done")
=============================================================================
