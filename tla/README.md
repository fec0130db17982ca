# Verification of autossh

TLA+ models of autossh 1.4g (the Rust version in `src/`), their TLC runs, and
TLAPS proofs of the safety of the supervision loop, of what it promises, of the
session API, of the connection test, of the start-up and of the stuck detector.

## The system

| part | source | state | operations | module |
|---|---|---|---|---|
| supervision loop | run, watch, wait, kill, grace, lifetime | child pid, counters, alarm, stderr pipe, start times | start, watch, reap, kill, back off | `Supervisor` |
| signal handling | signals | handlers, mask, `dolongjmp`, `exit_signalled`, `restart_ssh` | `sig_catch`, install, remove | `Supervisor` |
| stderr drain | stderr_drain | unread output, `last_stderr_time`, `port_fwd_failed` | read in chunks, search for fatal text | `StderrDrain`, `Supervisor` |
| connection test | conn | listening socket, retries, poll rounds | connect, accept, send, receive, compare | `ConnTest` |
| embedding API | api | atomic pid, plain state field | start, stop, state, free | `Session` |
| stuck detector | ssh-stuck-detector | tracker per kind of call, monitor thread | enter, leave, scan, warn, abort | `StuckDetector` |
| start-up | main_logic, main, args, env, stuck_detector, part of api | `AUTOSSH_*`, options, ports, ssh's arguments, pid file, `LD_PRELOAD` | read, check, build, stage, write, remove | `Startup` |
| logging, usage text, port reservation | log, util, part of api | text | | exits only |

`autossh_main` reads the environment and the options, builds ssh's arguments and
calls `ssh_run`. `ssh_run` forks ssh and calls `ssh_watch`, which waits for a
signal, for output of ssh or for the alarm. A signal handler leaves the wait by a
long jump. On the alarm the loop checks its lifetime and the watchdogs, drains
stderr, and calls `conn_test`, which sends a line round the tunnel. Any failure
ends in `ssh_kill` and a new start after a back-off. A host that embeds the
library forks a supervisor that turns its configuration into variables and
arguments and runs `autossh_main`, and controls it through a session. The stuck
detector lives inside ssh; its STUCK line reaches the loop through stderr.

What makes it hard: signals arrive between any two statements; a mask, a jump
flag, handler sets and an alarm must agree at each of them; the child may die,
hang, write or fail to exec at any moment; session calls come from several
threads with `waitpid` and `kill` on one pid; a test may meet leftovers of an
earlier one; calls of several threads share one tracker; one command line is read
twice, by getopt and by the loop that builds ssh's arguments. `PROJECT.json`
lists the hazards at their lines.

## Modules

**`Supervisor`**: `pc` is the next statement of autossh. Statements that run with
signals blocked, or that nobody else can observe, are one action. Actions follow
the code: `SshRun`, `SshWatch` and `SshKill` group them, `Deliver(sig)` is
`sig_catch` or the default action, and `Child`, `User`, `Expire` and `Tick` are
the environment. `ssh_kill` gives a child up after its bounded wait: one that
still lives then is an orphan, and one that died in the last of the sleeps is a
zombie that nobody waits for (`KillAbandon`); `orphans` and `unreaped` count them,
and an orphan that ends later is unreaped too. Times are stopwatches that saturate
where no comparison can tell values apart. `ConnTest(up)` there is the result of a
connection test, either one.

**`Tunnel`**: what the loop promises about ssh processes, in six variables: one in
its care at a time, each start counted and within `max_start`, none decided on
after an exit request was seen, none left behind by an orderly exit unless
`ssh_kill` gave it up. `Supervisor!TunnelKept` is `Tunnel!Spec` under the mapping that reads the
phase off `pc` and `rv` and the process off `child`.

**`StderrDrain`**: `check_ssh_stderr` as operators on the characters in the pipe:
reads of `STDERR_BUF_SZ - 1`, cut at the first NUL, searched one by one.
`Supervisor!Found(hit)` is the loop's view: which message a drain may find in
which outputs. `DrainAllowed` ties the two together.

**`Startup`**: `pc` is the next part of `autossh_main`. `Starts` is the set of
situations: variables, words of the command line, an inherited `LD_PRELOAD`, or
the configuration of a session (`ChildMain` is `child_main`). getopt is external
and has both behaviours of glibc (`permutes`). A text is a sequence of characters
in which a number is one digit with a value, so that conversions, ranges and the
widths of int and long are those of the code while the texts stay short.
`Stage` is `install_for_child`. `SshRun(r)` is a whole run of the loop with one
of its results, and `EarlySignal` a signal before the handlers are set.

**`ConnTest`**: the inside of a connection test, over many tests in a row. The
tunnel may delay, split and lose; `smooth` records that it did not, and `hit` that
an accept was interrupted or failed. The line holds a random number of the test;
what another connection carries is taken to differ from it. `echo` selects the mode with an echo service.
`Restart` is the caller's reaction to a failure, which ends the old ssh and its
connections. Write is one step: a fresh socket takes the short line at once.

**`Session`**: threads call start, stop, state and free. Each load, swap,
compare-exchange, `waitpid` and `kill` is a step. `proc` holds the supervisors,
`host` a child of the host itself in the same process group. One thread starts
sessions, and free comes when no other call is running: the comment on the pid
field names only stop and state as concurrent calls, and two starts at once would
overwrite each other's pid. The blocking `waitpid` of stop may end by a signal of
the host (`Interrupt`); `interrupted`, which is not in the code, remembers for
which supervisor.

**`StuckDetector`**: every load and store of an atomic is a step. `start_sec` and
`last_warn` are times since. `age` and `shared` are not in the code: the true age
of a call, and whether another call of its kind overlapped it. A scan takes less
than a second. The monitor may fail to start, which the code ignores.

The `MC...` modules extend these for TLC. Operators whose name ends in `Missed`,
`Kept`, `Early`, `ByOne` and the like, each placed before the definition it
resembles, are faulty variants; `PROJECT.json` pairs each with the property it
breaks.

## Runs

| run | result | question |
|---|---|---|
| `sup_signals` | passes, 2 million states | safety of the loop with SIGTERM and SIGUSR1 at any statement and all limits on; it implements `Tunnel` |
| `sup_shutdown` | passes | SIGTERM ends autossh; a dead child is reaped, unless `ssh_kill` gives it up in its last second |
| `sup_watchdog` | passes | restart requests are carried out, silent children end, waits are timed, chunked reads of stderr find what the loop assumes |
| `sup_lifetime` | violated | the lifetime is not enforced if the loop comes round in its last second: `alarm(0)` |
| `session_calls` | passes | no supervisor is lost but a killed one whose `waitpid` was interrupted, no pid is stale, a stop ends its supervisor and returns |
| `session_poll` | violated | a late state poll overwrites STOPPED with EXITED |
| `session_host` | violated | a start that re-reads pid 0 reaps a child of the host |
| `conn_probe` | passes | a good tunnel passes in spite of one leftover, accepts leave no more than one; tests end or block in `read` |
| `conn_blocked` | violated | `conn_test` blocks in `read` with a part of the line |
| `detector_calls` | passes | no false alarm; the first scan that finds a call overdue writes its line; an unshared hang ends the process |
| `startup` | passes, 350,000 states | settings the loop can run on, ssh's arguments complete and in order, no pid file left, a session's numbers arrive |
| `startup_port` | violated | with `AUTOSSH_PORT` set, a leading `-M port` is passed to ssh |

**Bounds.** In `Supervisor` one or two seconds stand for every period: each
comparison (reached, not reached, equal) still has both outcomes. `TriesCap` is
where the back-off stops growing, an assumption that TLC evaluates. `MaxOrphans`
bounds the children that may hang uninterruptibly over a whole behaviour, in the
guard of `EnterD`: two in `sup_signals`, so that a start follows a child given up
and that start's child may be given up as well. In `sup_shutdown` ssh may write a
STUCK line, so that `ssh_kill` is followed by restarts too, not only by the exit;
no watchdog is on that would find a child the loop has missed.
`StartCap` ends the count of starts where it stops
mattering. In `Session` two starts and two threads that do everything let each
call race each other call; `StopTurns` stands for the 50 polls of a stop. In
`ConnTest` a line of three bytes has a first, a middle and a last part; tries,
rounds and backlog are the code's. In `StuckDetector` two threads and two
trackers with a threshold of two seconds give overlap on one and on several.
`StderrDrain` has messages of two characters, a buffer of four and all pipes of up
to five of six characters: a message may lie in one read, across two, behind a NUL
and twice. In `Startup` int has 6 bits, long 8 and a second 4 milliseconds, so
that a digit passes each limit of the code; the argument array starts with two
slots, so that it grows several times; command lines are all those of up to three
of 13 words and four of 5; variables are combined in pairs, and the three times
that cut each other in triples.

**Fairness.** `Supervisor`: autossh runs on, time passes, and signals are
delivered; strong fairness stands for the assumption that neither output of ssh
nor signals come so densely that a wait never delivers the others or the alarm
is always set again. The connection test is off in these runs since it may
block. `Session`: threads run on and a supervisor that was killed ends; that a
signal of the host ends a wait is not counted on.
`ConnTest`: the code runs on and `poll` times out; the tunnel owes nothing.
`StuckDetector`: hooks, monitor and clock run on; calls need not return. Deadlock
is checked everywhere.

Runs with no fairness have safety properties only. `Startup` has none: it is a
finite sequence of steps.

## Proofs

`SupervisorTypes` and `SupervisorProofs` show `Spec => []IInv` for every value of
the constants that `ConstantsOK` and `TriesCapOK` allow, and from it the safety
properties. They are not inductive alone: `NoLostWakeup` needs to know that the
mask is in force from the checks to the wait, `KillsOwnChild` at which labels
`cchild` names a live or unreaped child, `AlarmHandled` that the handlers are set
throughout `ssh_watch`. `IInv` says this label by label: `SignalInv` (handlers,
mask, jump flag), `ChildInv` (which process, which result), `TimerInv` (alarm and
pipe), with the types and `CleanExit`. There is one lemma per conjunct with one
step per action. `TypeOK` is in three parts because Boolean values, labels and
arithmetic suit different provers.

`TunnelProofs` shows `Refinement`: `Spec => TunnelKept`. Every step of the loop is,
under the mapping, a step of `Tunnel` or leaves its variables alone; the inductive
invariant excludes a start with a child still there.

`SessionProofs` shows `NoSupervisorLost`, `PidNotStale` and `StopEnds` for any
threads, any number of starts and any `StopTurns`, with one starting thread. `IInv`
adds what a thread knows at its label (`ThreadInv`): that the pid about to be
stored is in no other thread's hands, that a stop's pid has left the session, that
a blocking wait comes after SIGKILL, that the poll about to clear has reaped; and
that only a killed supervisor's wait is interrupted (`KilledFirst`). `WaitEffect`
says once what `waitpid` may do.

`ConnTestProofs` shows `LiveTunnelPasses` and `OneLeftover` for any
length of the line, at least two tries, at least two poll rounds and any backlog
(`ConnConstants`; the code has 3 tries, 10 rounds and a backlog of two). `IInv`
counts: in a test without a fault `tries` and the leftovers before this test's
connection stay within `MAX_CONN_TRIES - 2`, so that a try is left for it, and a
round ends in its second turn (`SmoothInv`); this test's connection is the last of
the backlog or the one read from (`QueueInv`); what waits or is on its way is at
most one connection, two until the first accept (`WaitingInv`).

`StartupProofs` shows `SettingsFit` and `ArrayFits` for any set of starts, any width
of int and long, and any defaults and sizes that `StartupConstants` allows.

`StuckDetectorProofs` shows `StartIsReal` for any threads, trackers and
threshold. The thread that last stored a start time is still in its call, since
its own `leave` would have cleared it; both stopwatches advance together.
`StoreIsFirst` is the only strengthening. It also shows `FirstScanWarns`: the line
of one call never silences that of the next. `WarnPrecedesCall` is why: a stamp is
made in a scan that saw an overdue call, so any call not yet overdue began after
it, and both age together.

Only model-checked: all liveness properties, which need fairness; the ranges
of `ConnTest`; the text of ssh's command line, which a second definition
(`LineKept`) is compared with; `DrainAllowed`, a search of texts; `PidFileGone` and
`ConfigReaches`.

## Documents and code

Besides the five findings of the violated runs, these differences between a
document or comment and the code were met. The models follow the code.

- autossh.1:127 says SIGHUP prods a waiting autossh; during the back-off it has its
  default action and ends the program.
- lib.rs:12 of the detector promises to report hangs; a call that begins during
  another of its kind is not tracked (lib.rs:49), nor found when the other returns.
- kill.rs:8 says a child is given up "if STILL alive"; one that dies during the last
  sleep is given up too. It stays a zombie until autossh ends, as does a child that
  was given up alive and ends later.
- The result of the blocking `waitpid` of stop (api.rs:469) is ignored: interrupted
  by a signal of the host, it leaves the killed supervisor unreaped and the state
  STOPPED, although the pid is out of the session.
- autossh.h:48 says zero keeps the default except for `max_start`; a `gate_time` of
  0 is passed on as 0, and a `max_start` of 0 keeps the default. `ConfigReaches`
  says nothing of these two values.
- stuck_detector.rs:10 and :107 say the staged file is removed at exit; `cleanup`
  has no caller.
- args.rs:97 says `strip_arg` strips every occurrence; of `-ff` one f stays, and it
  strips behind `--` too.
- `-NM port` without `AUTOSSH_PORT` sets the port and is passed to ssh as well.
- A forward of exactly 256 characters passes the check of main_logic.rs:149 and
  loses its last one.
- A poll time over `INT_MAX / 1000` makes `net_timeout` negative: an endless poll.
- A fraction in `gate_time` or `max_session`, or a `max_start` below -1, is printed
  by `child_main` and refused by `get_env_args`: the session's supervisor exits.
- A session's supervisor inherits the host's `optind` and `AUTOSSH_*`, and leaves
  with `_exit`, so that its pid file stays.
- A fatal message across two reads of stderr, or behind a NUL, is missed, although
  stderr_drain.rs:8 says 1 is returned if the data contains it.
- The detector ends the process, or writes the line, for a call that returned after
  the monitor had loaded its start time.

## Not modelled

- Text: log lines, the usage message, the session's error string, the wording of
  the STUCK line. Their exits are modelled.
- `reserve_port` and the copying of a configuration (api.rs): straight-line code
  whose outcome is a number or an error; that a reserved port is free again before
  ssh binds it is up to the system.
- Name resolution, socket options and failing allocations, after which the program
  exits at once or the test fails.
- A poll for the accept that reports an event on the listening socket other than a
  connection (conn.rs:153): the 0 returned would be taken for the connection's
  descriptor. A listening socket of autossh's own has no such event.
- SIGPIPE, which is ignored; stopped children; a terminal that sends SIGINT to ssh
  as well; pid reuse by the kernel.
- `Session` and the supervision loop are not composed: a supervisor ends at any
  time or never, which covers every behaviour of the loop.
