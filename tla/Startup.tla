------------------------------ MODULE Startup -------------------------------
(***************************************************************************)
(* From the command line, or from the configuration of a session, to       *)
(* ssh_run: get_env_args (env.rs) reads AUTOSSH_*, autossh_main            *)
(* (main_logic.rs) reads the options, checks the ports and builds ssh's    *)
(* arguments with add_arg and strip_arg (args.rs), becomes a daemon, opens *)
(* the monitoring socket and writes the pid file.  A session               *)
(* (child_main, api.rs) comes in through variables and arguments it makes  *)
(* itself.  What ssh_run does is module Supervisor; here it is one step.   *)
(*                                                                         *)
(* A text is a sequence of characters, and a number is written as one      *)
(* digit: DigitValue says which number, so that the texts stay short while *)
(* the numbers still pass the limits of int and long.                      *)
(***************************************************************************)
EXTENDS Integers, Sequences

CONSTANTS
  Starts,                      \* the ways autossh is started
  DigitValue,                  \* what a digit stands for
  IntMod, LongMod,             \* 2^32 and 2^64
  POLL_TIME_DEFAULT, GATE_TIME_DEFAULT, TIMEO_NET_DEFAULT,
  MSEC,                        \* 1000: milliseconds in a second
  MAX_PORT, MAX_MESSAGE,       \* 65534, 64
  FWD_BUF,                     \* 256: the size of wmbuf and rmbuf
  START_AV_SZ                  \* args.rs

IntMax == IntMod \div 2 - 1

ASSUME StartupConstants ==
  /\ IntMod \in Nat \ {0} /\ LongMod \in Nat \ {0} /\ MSEC \in Nat \ {0, 1}
  /\ \A d \in DOMAIN DigitValue : DigitValue[d] \in 0 .. LongMod \div 2 - 1
  /\ POLL_TIME_DEFAULT \in 1 .. IntMax /\ GATE_TIME_DEFAULT \in Nat
  /\ TIMEO_NET_DEFAULT \in Nat \ {0} /\ MAX_PORT \in 1 .. IntMax - 1
  /\ FWD_BUF \in Nat \ {0} /\ START_AV_SZ \in Nat \ {0, 1}

VARIABLES
  pc, how,                     \* next part of autossh_main; how it ended
  start,                       \* the member of Starts
  env,                         \* AUTOSSH_* as autossh_main finds them
  seen, skipped, rest,         \* getopt: options read, operands passed, unread
  writep, runasdaemon,
  settings,                    \* the globals ssh_run and its callees read
  wp, echop, wmbuf, rmbuf,
  argv, i, sawargstop, done_fwds,
  newav,                       \* the arguments for ssh and NEWAV_CAP
  sock, pid_file,              \* the listening socket; is there a pid file?
  tempfile, preload,           \* the staged detector library, and LD_PRELOAD
  wanted                       \* history: what getopt left for ssh

options == <<seen, skipped, rest, writep, runasdaemon>>
ports   == <<wp, echop, wmbuf, rmbuf>>
build   == <<argv, i, sawargstop, done_fwds, newav>>
staging == <<tempfile, preload>>
files   == <<sock, pid_file, staging>>
vars == <<pc, how, start, env, options, settings, ports, build, files, wanted>>

Unset == <<"unset">>           \* getenv returns NULL

-----------------------------------------------------------------------------
(***************************************************************************)
(* Numbers and texts.                                                      *)
(***************************************************************************)
IsNumber(t) == \/ Len(t) = 1 /\ t[1] \in DOMAIN DigitValue
               \/ Len(t) = 2 /\ t[1] = "-" /\ t[2] \in DOMAIN DigitValue

\* 0 if there is nothing to convert, as in C.
strtol(t) == IF ~IsNumber(t) THEN 0
             ELSE IF Len(t) = 1 THEN DigitValue[t[1]] ELSE -DigitValue[t[2]]
strtoul(t) == strtol(t) % LongMod

\* `as c_int`
AsInt(n) == LET m == n % IntMod IN IF m > IntMax THEN m - IntMod ELSE m

\* to_string, or %d.
Decimal(n) ==
  IF n < 0 THEN <<"-", CHOOSE d \in DOMAIN DigitValue : DigitValue[d] = -n>>
           ELSE <<CHOOSE d \in DOMAIN DigitValue : DigitValue[d] = n>>

\* The character at k, NUL past the end.
At(t, k) == IF k <= Len(t) THEN t[k] ELSE "NUL"

HasColon(t) == \E k \in 1 .. Len(t) : t[k] = ":"
Colon(t) == CHOOSE k \in 1 .. Len(t) : t[k] = ":" /\ \A j \in 1 .. k - 1 : t[j] # ":"
BeforeColon(t) == IF HasColon(t) THEN SubSeq(t, 1, Colon(t) - 1) ELSE t
AfterColon(t) == SubSeq(t, Colon(t) + 1, Len(t))

-----------------------------------------------------------------------------
(***************************************************************************)
(* add_arg and strip_arg.                                                  *)
(***************************************************************************)

\* Append t, doubling the array unless a slot is left for the final NULL.
FullNoTerminator(a) == Len(a.av) >= a.cap
Full(a) == Len(a.av) >= a.cap - 1

add_arg(a, t) ==
  IF t = <<>> THEN a
  ELSE [av |-> Append(a.av, t), cap |-> IF Full(a) THEN 2 * a.cap ELSE a.cap]

\* The letters of OPTION_STRING that take a value, as far as the model has them.
TakesValue == {"M", "L", "o"}
Plain == {"V", "f", "N"}

\* One turn of strip_arg's loop, at index f.  After a removal the character that
\* slid into place is passed over.
StripTurn(s) ==
  IF s.f > Len(s.t) \/ s.over THEN s
  ELSE IF s.t[s.f] \in TakesValue THEN [s EXCEPT !.over = TRUE]
  ELSE IF s.t[s.f] = "f"
       THEN [s EXCEPT !.t = SubSeq(s.t, 1, s.f - 1) \o SubSeq(s.t, s.f + 1, Len(s.t)),
                      !.f = s.f + 1]
       ELSE [s EXCEPT !.f = s.f + 1]

strip_arg(t) ==
  IF At(t, 1) # "-" \/ Len(t) = 1 THEN t
  ELSE LET S[n \in 0 .. Len(t)] ==
             IF n = 0 THEN [t |-> t, f |-> 1, over |-> FALSE] ELSE StripTurn(S[n - 1])
           end == S[Len(t)]
       IN  IF Len(end.t) = 1 /\ ~end.over THEN <<>> ELSE end.t

-----------------------------------------------------------------------------
Init ==
  /\ start \in Starts
  /\ pc = IF start.session THEN "child" ELSE "env"
  /\ how = "none" /\ env = start.env
  /\ seen = <<>> /\ skipped = <<>> /\ rest = start.words
  /\ writep = Unset /\ runasdaemon = FALSE
  /\ settings = [poll_time |-> POLL_TIME_DEFAULT, first_poll_time |-> POLL_TIME_DEFAULT,
                 gate_time |-> GATE_TIME_DEFAULT, max_start |-> -1,
                 max_lifetime |-> 0, max_session |-> 0,
                 net_timeout |-> TIMEO_NET_DEFAULT]
  /\ wp = 0 /\ echop = FALSE /\ wmbuf = <<>> /\ rmbuf = <<>>
  /\ argv = <<>> /\ i = 1 /\ sawargstop = FALSE /\ done_fwds = FALSE
  /\ newav = [av |-> <<>>, cap |-> START_AV_SZ]
  /\ sock = "none" /\ pid_file = FALSE
  /\ tempfile = "none" /\ preload = start.preload
  /\ wanted = <<>>

\* xerrlog!: no ssh yet to kill; the pid file goes.
xerrlog == pc' = "over" /\ how' = "xerrlog" /\ pid_file' = FALSE

(***************************************************************************)
(* child_main.  Display of a double shows a fraction if there is one.      *)
(***************************************************************************)
Display(x) == IF x.frac THEN Decimal(x.n) \o <<".", "5">> ELSE Decimal(x.n)

ChildEnv(c, e) ==
  [e EXCEPT !.POLL = IF c.poll_time > 0 THEN Decimal(c.poll_time) ELSE @,
            !.FIRST_POLL = IF c.first_poll_time > 0 THEN Decimal(c.first_poll_time)
                           ELSE @,
            !.GATETIME = IF c.gate_time.n >= 0 THEN Display(c.gate_time) ELSE @,
            !.MAXSTART = IF c.max_start # 0 THEN Decimal(c.max_start) ELSE @,
            !.MAX_SESSION = IF c.max_session.n > 0 \/ c.max_session.frac
                            THEN Display(c.max_session) ELSE @]

build_child_argv(c) ==
  <<<<"-", "M">>, Decimal(IF c.monitor_disabled THEN 0 ELSE c.monitor_port),
    <<"-", "N">>, <<"-", "o">>, <<"X">>, <<"-", "L">>, <<"s">>>>
  \o c.extra_ssh_args \o <<<<"h">>>>

\* getopt goes on at the optind of the host, from which this process was forked.
ChildMain ==
  /\ pc = "child"
  /\ env' = ChildEnv(start.config, env)
  /\ LET av == build_child_argv(start.config)
     IN  seen' = SubSeq(av, 1, start.optind - 1) /\ rest' = SubSeq(av, start.optind, Len(av))
  /\ pc' = "env"
  /\ UNCHANGED <<how, start, skipped, writep, runasdaemon, settings, ports,
                 build, files, wanted>>

-----------------------------------------------------------------------------
(***************************************************************************)
(* get_env_args.                                                           *)
(***************************************************************************)
Given(v) == env[v] # Unset

EnvBad ==
  \/ ~Given("DEBUG") /\ Given("LOGLEVEL")
     /\ (~IsNumber(env.LOGLEVEL) \/ strtol(env.LOGLEVEL) \notin 0 .. 7)
  \/ \E v \in {"POLL", "FIRST_POLL"} :
       Given(v) /\ (~IsNumber(env[v]) \/ strtoul(env[v]) = 0)
  \/ Given("GATETIME") /\ (~IsNumber(env.GATETIME) \/ strtol(env.GATETIME) < 0)
  \/ Given("MAXSTART") /\ (~IsNumber(env.MAXSTART) \/ strtol(env.MAXSTART) < -1)
  \/ Given("MESSAGE") /\ Len(env.MESSAGE) > MAX_MESSAGE
  \/ \E v \in {"MAXLIFETIME", "MAX_SESSION"} : Given(v) /\ ~IsNumber(env[v])

\* A time that does not fit an int, or wraps to 0 or below, is the default.
PollSecondsAsRead(t) == AsInt(strtoul(t))
PollSeconds(t) ==
  LET v == AsInt(strtoul(t)) IN IF v <= 0 THEN POLL_TIME_DEFAULT ELSE v

FirstPollDefault(poll) ==
  IF Given("FIRST_POLL") THEN PollSeconds(env.FIRST_POLL) ELSE POLL_TIME_DEFAULT
FirstPoll(poll) == IF Given("FIRST_POLL") THEN PollSeconds(env.FIRST_POLL) ELSE poll

Lesser(a, b) == IF a < b THEN a ELSE b

EnvSettings ==
  LET poll  == IF Given("POLL") THEN PollSeconds(env.POLL) ELSE POLL_TIME_DEFAULT
      life  == IF Given("MAXLIFETIME") THEN strtoul(env.MAXLIFETIME) ELSE 0
      Cut(n) == IF life > 0 THEN Lesser(n, life) ELSE n
  IN  [settings EXCEPT
         !.poll_time = Cut(poll), !.first_poll_time = Cut(FirstPoll(poll)),
         !.gate_time = IF Given("GATETIME") THEN strtol(env.GATETIME) ELSE @,
         !.max_start = IF Given("MAXSTART") THEN AsInt(strtol(env.MAXSTART)) ELSE @,
         !.max_lifetime = life,
         !.max_session = IF Given("MAX_SESSION") THEN strtoul(env.MAX_SESSION) ELSE @]

GetEnvArgs ==
  /\ pc = "env" /\ ~EnvBad
  /\ settings' = EnvSettings
  /\ pc' = "getopt"
  /\ UNCHANGED <<how, start, env, options, ports, build, files, wanted>>

\* A value that is refused, or a log file that cannot be opened.
EnvFails ==
  /\ pc = "env" /\ (EnvBad \/ Given("LOGFILE"))
  /\ xerrlog
  /\ UNCHANGED <<start, env, options, settings, ports, build, sock, staging, wanted>>

env_port == IF env.PORT = <<>> THEN Unset ELSE env.PORT

-----------------------------------------------------------------------------
(***************************************************************************)
(* getopt, which is the C library's: it moves operands behind the options  *)
(* (start.permutes), or stops at the first one if told to be POSIX.        *)
(***************************************************************************)
DashDash == <<"-", "-">>
word == IF rest = <<>> THEN Unset ELSE Head(rest)
IsOption(t) == At(t, 1) = "-" /\ Len(t) > 1

\* The first letter of t that takes a value, Len(t) + 1 if none does.
ValueAt(t) ==
  CHOOSE k \in 2 .. Len(t) + 1 :
    /\ k <= Len(t) => t[k] \in TakesValue
    /\ \A j \in 2 .. k - 1 : t[j] \notin TakesValue
ValueIsNext(t) == ValueAt(t) = Len(t)

\* Where getopt meets -V or an unknown letter in t, ValueAt(t) if it does not.
FlagsEnd(t) ==
  CHOOSE k \in 2 .. ValueAt(t) :
    /\ k < ValueAt(t) => t[k] \notin Plain \ {"V"}
    /\ \A j \in 2 .. k - 1 : t[j] \in Plain \ {"V"}

AtOption == pc = "getopt" /\ rest # <<>> /\ IsOption(word) /\ word # DashDash
IsVersion(t) == FlagsEnd(t) < ValueAt(t) /\ t[FlagsEnd(t)] = "V"
BadOption ==
  LET t == word
  IN  \/ FlagsEnd(t) < ValueAt(t) /\ ~IsVersion(t)
      \/ FlagsEnd(t) = ValueAt(t) /\ ValueIsNext(t) /\ Len(rest) = 1

\* What ssh should get of an option word: not -M and its value, nor -f.
NoF(c) == c # "f"
LeftFor(t) ==
  LET flags == SelectSeq(SubSeq(t, 2, ValueAt(t) - 1), NoF)
      more  == IF At(t, ValueAt(t)) = "M" THEN <<>> ELSE SubSeq(t, ValueAt(t), Len(t))
  IN  IF flags \o more = <<>> THEN <<>> ELSE <<<<"-">> \o flags \o more>>

ReadOption ==
  /\ AtOption /\ ~BadOption /\ ~IsVersion(word)
  /\ LET t     == word
         used  == IF ValueIsNext(t) THEN 2 ELSE 1
         value == IF ValueIsNext(t) THEN rest[2]
                                    ELSE SubSeq(t, ValueAt(t) + 1, Len(t))
         isM   == At(t, ValueAt(t)) = "M"
     IN  /\ writep' = IF isM /\ env_port = Unset THEN value ELSE writep
         /\ runasdaemon' = (runasdaemon \/ \E k \in 2 .. ValueAt(t) - 1 : t[k] = "f")
         /\ seen' = seen \o SubSeq(rest, 1, used)
         /\ rest' = SubSeq(rest, used + 1, Len(rest))
         /\ wanted' = wanted \o LeftFor(t)
                      \o (IF ValueIsNext(t) /\ ~isM THEN <<value>> ELSE <<>>)
  /\ UNCHANGED <<pc, how, start, env, skipped, settings, ports, build, files>>

PassOperand ==
  /\ pc = "getopt" /\ rest # <<>> /\ ~IsOption(word) /\ start.permutes
  /\ skipped' = Append(skipped, word) /\ rest' = Tail(rest)
  /\ UNCHANGED <<pc, how, start, env, seen, writep, runasdaemon, settings, ports,
                 build, files, wanted>>

Version ==
  /\ AtOption /\ IsVersion(word)
  /\ pc' = "over" /\ how' = "version"
  /\ UNCHANGED <<start, env, options, settings, ports, build, files, wanted>>

OptionsOver == \/ rest = <<>> \/ word = DashDash
               \/ ~IsOption(word) /\ ~start.permutes
Operands ==
  skipped \o (IF word = DashDash THEN Tail(rest) ELSE rest)
port_text == IF env_port # Unset THEN env_port ELSE writep

EndOptions ==
  /\ pc = "getopt" /\ OptionsOver
  /\ port_text # Unset /\ Operands # <<>>
  /\ writep' = port_text
  /\ argv' = seen \o (IF word = DashDash THEN <<DashDash>> ELSE <<>>)
                  \o Operands
  /\ wanted' = wanted \o Operands
  /\ pc' = "ports"
  /\ UNCHANGED <<how, start, env, seen, skipped, rest, runasdaemon, settings, ports,
                 i, sawargstop, done_fwds, newav, files>>

usage ==
  /\ \/ AtOption /\ BadOption
     \/ pc = "getopt" /\ OptionsOver /\ (port_text = Unset \/ Operands = <<>>)
  /\ pc' = "over" /\ how' = "usage"
  /\ UNCHANGED <<start, env, options, settings, ports, build, files, wanted>>

-----------------------------------------------------------------------------
(***************************************************************************)
(* The monitoring ports, and the network timeout.                          *)
(***************************************************************************)
write_port == AsInt(strtoul(BeforeColon(writep)))
echo_port == IF HasColon(writep) THEN AsInt(strtoul(AfterColon(writep))) ELSE write_port

\* %d:%s:%d; snprintf keeps what fits with the NUL.
Forward(to) == Decimal(write_port) \o <<":">> \o start.mhost \o <<":">> \o Decimal(to)
Printed(t) == SubSeq(t, 1, Lesser(Len(t), FWD_BUF - 1))
TooLong(t) == Len(t) > FWD_BUF

OutOfRangeBelow == write_port < 0
OutOfRange == write_port > MAX_PORT \/ write_port < 0
Monitored == write_port # 0 /\ ~OutOfRange

PortsBad ==
  \/ HasColon(writep) /\ (~IsNumber(AfterColon(writep)) \/ echo_port = 0)
  \/ ~IsNumber(BeforeColon(writep))
  \/ OutOfRange
  \/ Monitored /\ TooLong(Forward(echo_port))
  \/ Monitored /\ ~HasColon(writep) /\ TooLong(Forward(write_port + 1))

\* poll_time * 1000 wraps; the division is C's, toward zero.
HalfPoll == LET ms == AsInt(settings.poll_time * MSEC)
            IN  IF ms < 0 THEN -((-ms) \div 2) ELSE ms \div 2

\* (The colon is overwritten in place.  The word it is in is skipped below, unless
\* -M stands behind another letter: the instances give that -M no echo port.)
Ports ==
  /\ pc = "ports" /\ ~PortsBad
  /\ wp' = write_port /\ echop' = HasColon(writep)
  /\ wmbuf' = IF Monitored THEN Printed(Forward(echo_port)) ELSE <<>>
  /\ rmbuf' = IF Monitored /\ ~HasColon(writep) THEN Printed(Forward(write_port + 1))
                                               ELSE <<>>
  /\ settings' = [settings EXCEPT !.net_timeout = Lesser(@, HalfPoll)]
  /\ newav' = add_arg(newav, <<"ssh">>)
  /\ pc' = "args"
  /\ UNCHANGED <<how, start, env, options, argv, i, sawargstop, done_fwds, files,
                 wanted>>

PortsFail ==
  /\ pc = "ports" /\ PortsBad
  /\ xerrlog
  /\ UNCHANGED <<start, env, options, settings, ports, build, sock, staging, wanted>>

-----------------------------------------------------------------------------
(***************************************************************************)
(* One turn of the loop that builds ssh's arguments, for word argv[i].     *)
(***************************************************************************)
AddForwards(a) ==
  LET l == add_arg(add_arg(a, <<"-", "L">>), wmbuf)
  IN  IF echop THEN l ELSE add_arg(add_arg(l, <<"-", "R">>), rmbuf)

ForwardsDueAgain == wp # 0
ForwardsDue == wp # 0 /\ ~done_fwds

BuildArg ==
  /\ pc = "args" /\ i <= Len(argv)
  /\ LET t == argv[i]
     IN  \/ /\ At(t, 1) = "-" /\ At(t, 2) = "-" /\ ~sawargstop
            /\ sawargstop' = TRUE /\ i' = i + 1
            /\ UNCHANGED <<done_fwds, newav>>
         \/ /\ ~(At(t, 1) = "-" /\ At(t, 2) = "-" /\ ~sawargstop)
            /\ UNCHANGED sawargstop
            /\ \/ /\ ForwardsDue /\ env_port # Unset
                  /\ newav' = add_arg(AddForwards(newav), strip_arg(t))
                  /\ done_fwds' = TRUE /\ i' = i + 1
               \/ /\ ~(ForwardsDue /\ env_port # Unset)
                  /\ ~sawargstop /\ At(t, 1) = "-" /\ At(t, 2) = "M"
                  /\ newav' = IF ForwardsDue THEN AddForwards(newav) ELSE newav
                  /\ done_fwds' = (done_fwds \/ ForwardsDue)
                  /\ i' = IF Len(t) = 2 THEN i + 2 ELSE i + 1
               \/ /\ ~(ForwardsDue /\ env_port # Unset)
                  /\ sawargstop \/ At(t, 1) # "-" \/ At(t, 2) # "M"
                  /\ newav' = add_arg(newav, strip_arg(t))
                  /\ i' = i + 1
                  /\ UNCHANGED done_fwds
  /\ UNCHANGED <<pc, how, start, env, options, settings, ports, argv, files, wanted>>

BuildOver ==
  /\ pc = "args" /\ i > Len(argv)
  /\ pc' = "daemon"
  /\ UNCHANGED <<how, start, env, options, settings, ports, build, files, wanted>>

-----------------------------------------------------------------------------
(***************************************************************************)
(* daemon(), the listening socket, the pid file, ssh_run and the exit.     *)
(***************************************************************************)
Daemon ==
  /\ pc = "daemon"
  /\ settings' = IF runasdaemon THEN [settings EXCEPT !.gate_time = 0] ELSE settings
  /\ pc' = "listen"
  /\ UNCHANGED <<how, start, env, options, ports, build, files, wanted>>

\* conn_listen exits if it fails.
Listen ==
  /\ pc = "listen"
  /\ sock' = IF wp = 0 THEN "none" ELSE IF echop THEN "NO_RD_SOCK" ELSE "listening"
  /\ pc' = "pid"
  /\ UNCHANGED <<how, start, env, options, settings, ports, build, pid_file, staging,
                 wanted>>

WritePid ==
  /\ pc = "pid"
  /\ pid_file' = (Given("PIDFILE") /\ env.PIDFILE # <<>>)
  /\ pc' = "run"
  /\ UNCHANGED <<how, start, env, options, settings, ports, build, sock, staging,
                 wanted>>

\* daemon(), conn_listen or the fopen of the pid file fails.
SetupFails ==
  /\ \/ pc = "daemon" /\ runasdaemon
     \/ pc = "listen" /\ wp # 0 /\ ~echop
     \/ pc = "pid" /\ Given("PIDFILE") /\ env.PIDFILE # <<>>
  /\ xerrlog
  /\ UNCHANGED <<start, env, options, settings, ports, build, sock, staging, wanted>>

\* Until set_exit_sig_handler every signal has its default action.
EarlySignal ==
  /\ pc \notin {"loop", "over"}
  /\ pc' = "over" /\ how' = "killed"
  /\ UNCHANGED <<start, env, options, settings, ports, build, files, wanted>>

\* install_for_child.  The library goes to a file of this process; the file may
\* fail to open or to be written in full.  LD_PRELOAD may name the library of an
\* autossh that this one runs under.
Inserted(p) == \E k \in DOMAIN p : p[k] \in {"own", "outer"}

Stage ==
  /\ pc = "run"
  /\ tempfile' \in {"none", "part", "whole"}
  /\ preload' = IF tempfile' = "whole" /\ ~Inserted(preload)
                THEN <<"own">> \o preload ELSE preload
  /\ pc' = "loop"
  /\ UNCHANGED <<how, start, env, options, settings, ports, build, sock, pid_file, wanted>>

\* exit() runs unlink_pid_atexit; child_main leaves with _exit.
UnlinkedOnOk(r) == r = "exitok" /\ ~start.session
Unlinked(r) == \/ r = "xerrlog"
               \/ r \in {"exitok", "exiterr"} /\ ~start.session

\* The loop of ssh_run ends in one of the ways of module Supervisor.  Nothing calls
\* stuck_detector::cleanup.
SshRun(r) ==
  /\ pc = "loop"
  /\ pid_file' = (pid_file /\ ~Unlinked(r))
  /\ sock' = "none"
  /\ pc' = "over" /\ how' = r
  /\ UNCHANGED <<start, env, options, settings, ports, build, staging, wanted>>

Ways == {"exitok", "exiterr", "xerrlog", "forced", "fatal"}

Over == pc = "over" /\ UNCHANGED vars

Next == ChildMain \/ GetEnvArgs \/ EnvFails \/ ReadOption \/ PassOperand \/ Version
        \/ EndOptions \/ usage \/ Ports \/ PortsFail \/ BuildArg \/ BuildOver
        \/ Daemon \/ Listen \/ WritePid \/ SetupFails \/ EarlySignal
        \/ Stage
        \/ (\E r \in Ways : SshRun(r)) \/ Over

Spec == Init /\ [][Next]_vars

-----------------------------------------------------------------------------
(***************************************************************************)
(* Properties.                                                             *)
(***************************************************************************)

\* The types of what autossh_main and get_env_args keep.
TypeOK ==
  /\ pc \in {"child", "env", "getopt", "ports", "args", "daemon", "listen", "pid", "run",
             "loop", "over"}
  /\ how \in Ways \cup {"none", "version", "usage", "killed"}
  /\ settings.poll_time \in Int /\ settings.net_timeout \in Int
  /\ wp \in 0 .. MAX_PORT /\ i \in 1 .. Len(argv) + 2
  /\ sock \in {"none", "NO_RD_SOCK", "listening"}
  /\ {runasdaemon, echop, sawargstop, done_fwds, pid_file} \subseteq BOOLEAN

\* Whatever AUTOSSH_* hold, the values with which ssh_run is called are ones its
\* loop can run on: the times are positive, no poll comes later than the end of the
\* lifetime, and a probe waits, for a time that is not above the default and, as
\* long as the poll time fits an int in milliseconds, is not zero or forever.
SettingsFit ==
  pc \in {"run", "loop"} =>
    /\ settings.poll_time \in 1 .. IntMax /\ settings.first_poll_time \in 1 .. IntMax
    /\ settings.gate_time \in Nat
    /\ settings.max_lifetime > 0 =>
         /\ settings.poll_time <= settings.max_lifetime
         /\ settings.first_poll_time <= settings.max_lifetime
    /\ settings.net_timeout <= TIMEO_NET_DEFAULT
    /\ settings.poll_time * MSEC <= IntMax => settings.net_timeout >= 1

\* add_arg has written NULL behind the last argument, inside the array, whatever the
\* number of arguments.
ArrayFits == Len(newav.av) + 1 <= newav.cap

\* The forwards monitoring needs, in full.
Forwards ==
  IF wp = 0 THEN <<>>
  ELSE <<<<"-", "L">>, Forward(echo_port)>>
       \o (IF echop THEN <<>> ELSE <<<<"-", "R">>, Forward(write_port + 1)>>)

\* When the arguments are built ssh has everything that getopt did not take for
\* autossh (-M with its port, and -f), in order, and once, before the host, the
\* forwards that monitoring needs.
LineKept ==
  (pc \in {"daemon", "listen", "pid", "run", "loop"}) =>
    \E k \in 0 .. Len(wanted) - Len(Operands) :
      newav.av = <<<<"ssh">>>> \o SubSeq(wanted, 1, k) \o Forwards
                 \o SubSeq(wanted, k + 1, Len(wanted))

\* The command lines whose words the second pass over the arguments reads as getopt
\* did.  The others: -M behind another letter, AUTOSSH_PORT together with a leading
\* -M, -ff, a value or operand that begins with a dash, a forward of just the size
\* of its buffer, and a session started by a host that has used getopt itself.
Ordinary ==
  LET words == {start.words[k] : k \in DOMAIN start.words}
  IN  /\ \A t \in words : IsOption(t) => t[2] = "M" \/ At(t, ValueAt(t)) # "M"
      /\ ~(env_port # Unset /\ argv # <<>> /\ IsOption(argv[1]) /\ argv[1][2] = "M")
      /\ \A t \in words : \A k \in 2 .. Len(t) - 1 : ~(t[k] = "f" /\ t[k + 1] = "f")
      /\ \A k \in 1 .. Len(start.words) - 1 :
           LET t == start.words[k]
           IN  IsOption(t) /\ ValueIsNext(t) => ~IsOption(start.words[k + 1])
      /\ \A k \in DOMAIN Operands : ~IsOption(Operands[k])
      /\ Len(wmbuf) # FWD_BUF - 1 /\ Len(rmbuf) # FWD_BUF - 1
      /\ start.optind = 1

\* On an ordinary command line, or from a session, LineKept holds.
OrdinaryLineKept == Ordinary => LineKept

\* A pid file that autossh wrote is gone when it ends by returning from main or by
\* xerrlog.  (A signal that kills it, a second exit signal, and the _exit of a
\* session's supervisor leave the file.)
PidFileGone ==
  (pc = "over" /\ how \notin {"killed", "forced", "fatal"} /\ ~start.session)
    => ~pid_file

\* Nothing of the host's gets in the way of the configuration.
CleanHost == start.optind = 1 /\ \A v \in DOMAIN start.env : start.env[v] = Unset
OrElse(n, d) == IF n > 0 THEN n ELSE d

\* A session whose configuration holds whole numbers of seconds, in a host that sets
\* no AUTOSSH_* and has not used getopt, gets as far as ssh_run, with its numbers:
\* what child_main writes get_env_args accepts and reads back.  A poll time left at
\* 0 is the default one, and a first poll time left at 0 is the poll time.
ConfigReaches ==
  LET c == start.config
  IN  (start.session /\ CleanHost /\ ~c.gate_time.frac /\ ~c.max_session.frac
        /\ c.max_start >= -1 /\ c.extra_ssh_args = <<>>) =>
        /\ pc = "over" => how \notin {"usage", "version"}
        /\ pc = "env" => ~EnvBad
        /\ pc = "loop" =>
             /\ settings.poll_time = OrElse(c.poll_time, POLL_TIME_DEFAULT)
             /\ settings.first_poll_time = OrElse(c.first_poll_time, settings.poll_time)
             /\ c.gate_time.n > 0 => settings.gate_time = c.gate_time.n
             /\ c.max_start # 0 => settings.max_start = c.max_start
             /\ settings.max_session = c.max_session.n
             /\ sock = "listening" <=> ~c.monitor_disabled
=============================================================================
