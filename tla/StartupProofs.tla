--------------------------- MODULE StartupProofs ----------------------------
(***************************************************************************)
(* For every set of starts and all sizes: add_arg keeps its array large    *)
(* enough, and ssh_run is called with settings that its loop can run on.   *)
(***************************************************************************)
EXTENDS Startup, SequenceTheorems, TLAPS

-----------------------------------------------------------------------------
(***************************************************************************)
(* ArrayFits.                                                              *)
(***************************************************************************)

\* newav.av is a sequence, of whatever texts.
ArrayInv ==
  /\ \E X : newav.av \in Seq(X)
  /\ newav.cap \in Nat
  /\ ArrayFits

\* Appending makes a sequence one longer.
LEMMA AppendOne ==
  ASSUME NEW X, NEW s \in Seq(X), NEW t
  PROVE  Append(s, t) \in Seq(X \cup {t}) /\ Len(Append(s, t)) = Len(s) + 1
<1>1. s \in Seq(X \cup {t})
  <2>1. s \in [1 .. Len(s) -> X \cup {t}]
    BY LenProperties
  <2> QED  BY <2>1, LenProperties
<1> QED  BY <1>1, AppendProperties

\* add_arg leaves room for the NULL if there was room for it before.
LEMMA AddArgFits ==
  ASSUME NEW a, NEW t, \E X : a.av \in Seq(X), a.cap \in Nat, Len(a.av) + 1 <= a.cap
  PROVE  LET b == add_arg(a, t)
         IN  (\E X : b.av \in Seq(X)) /\ b.cap \in Nat /\ Len(b.av) + 1 <= b.cap
<1> DEFINE b == add_arg(a, t)
<1>1. CASE t = <<>>
  BY <1>1 DEF add_arg
<1>2. CASE t # <<>>
  <2>1. PICK X : a.av \in Seq(X)
    OBVIOUS
  <2>2. b = [av |-> Append(a.av, t), cap |-> IF Full(a) THEN 2 * a.cap ELSE a.cap]
    BY <1>2 DEF add_arg
  <2>3. b.av \in Seq(X \cup {t}) /\ Len(b.av) = Len(a.av) + 1
    BY <2>1, <2>2, AppendOne
  <2>4. Len(a.av) \in Nat
    BY <2>1, LenProperties
  <2>5. b.cap \in Nat /\ Len(b.av) + 1 <= b.cap
    BY <2>2, <2>3, <2>4 DEF Full
  <2> QED  BY <2>3, <2>5
<1> QED  BY <1>1, <1>2

\* So do the forwards, which are up to four calls of it.
LEMMA ForwardsFit ==
  ASSUME NEW a, \E X : a.av \in Seq(X), a.cap \in Nat, Len(a.av) + 1 <= a.cap
  PROVE  LET b == AddForwards(a)
         IN  (\E X : b.av \in Seq(X)) /\ b.cap \in Nat /\ Len(b.av) + 1 <= b.cap
<1> DEFINE Fits(b) == (\E X : b.av \in Seq(X)) /\ b.cap \in Nat /\ Len(b.av) + 1 <= b.cap
<1>0. Fits(a)
  OBVIOUS
<1>1. \A b, t : Fits(b) => Fits(add_arg(b, t))
  BY AddArgFits
<1> HIDE DEF Fits
<1>2. Fits(AddForwards(a))
  BY <1>0, <1>1 DEF AddForwards
<1> QED  BY <1>2 DEF Fits

\* A step that leaves newav alone keeps the invariant.
LEMMA ArrayKept == ArrayInv /\ UNCHANGED newav => ArrayInv'
BY DEF ArrayInv, ArrayFits

LEMMA ArrayBuild == ArrayInv /\ BuildArg => ArrayInv'
<1> SUFFICES ASSUME ArrayInv, BuildArg PROVE ArrayInv'
  OBVIOUS
<1> DEFINE t == argv[i]
<1>1. CASE UNCHANGED newav
  BY <1>1, ArrayKept
<1>2. CASE newav' = add_arg(AddForwards(newav), strip_arg(t))
  <2> HIDE DEF t
  <2>1. (\E X : newav.av \in Seq(X)) /\ newav.cap \in Nat /\ Len(newav.av) + 1 <= newav.cap
    BY DEF ArrayInv, ArrayFits
  <2>2. LET b == AddForwards(newav)
        IN  (\E X : b.av \in Seq(X)) /\ b.cap \in Nat /\ Len(b.av) + 1 <= b.cap
    BY <2>1, ForwardsFit
  <2> QED  BY <1>2, <2>2, AddArgFits DEF ArrayInv, ArrayFits
<1>3. CASE newav' = AddForwards(newav)
  BY <1>3, ForwardsFit DEF ArrayInv, ArrayFits
<1>4. CASE newav' = add_arg(newav, strip_arg(t))
  BY <1>4, AddArgFits DEF ArrayInv, ArrayFits
<1> QED  BY <1>1, <1>2, <1>3, <1>4 DEF BuildArg

\* The array of ssh's arguments never overflows, and always has room for the final
\* NULL: add_arg and its callers in autossh_main, any number of words.
THEOREM ArrayAlwaysFits == Spec => []ArrayFits
<1>1. Init => ArrayInv
  <2> SUFFICES ASSUME Init PROVE ArrayInv
    OBVIOUS
  <2>1. newav.av = <<>> /\ newav.cap = START_AV_SZ
    BY DEF Init
  <2>2. newav.av \in Seq({}) /\ Len(newav.av) = 0
    BY <2>1
  <2> QED  BY <2>1, <2>2, StartupConstants DEF ArrayInv, ArrayFits
<1>2. ArrayInv /\ [Next]_vars => ArrayInv'
  <2> SUFFICES ASSUME ArrayInv, [Next]_vars PROVE ArrayInv'
    OBVIOUS
  <2>1. CASE BuildArg
    BY <2>1, ArrayBuild
  <2>2. CASE Ports
    <3>1. newav' = add_arg(newav, <<"ssh">>)
      BY <2>2 DEF Ports
    <3> QED  BY <3>1, AddArgFits DEF ArrayInv, ArrayFits
  <2>3. CASE UNCHANGED newav
    BY <2>3, ArrayKept
  <2>4. BuildArg \/ Ports \/ UNCHANGED newav
    BY DEF Next, vars, build, ChildMain, GetEnvArgs, EnvFails, ReadOption, PassOperand,
           Version, EndOptions, usage, PortsFail, BuildOver, Daemon, Listen, WritePid,
           SetupFails, EarlySignal, Stage, SshRun, Over
  <2> QED  BY <2>1, <2>2, <2>3, <2>4
<1>3. ArrayInv => ArrayFits
  BY DEF ArrayInv
<1> QED  BY <1>1, <1>2, <1>3, PTL DEF Spec

-----------------------------------------------------------------------------
(***************************************************************************)
(* SettingsFit.  The times are put right by get_env_args and not touched   *)
(* again; the network timeout is the default until the ports are read.     *)
(***************************************************************************)
Settings == [poll_time : Int, first_poll_time : Int, gate_time : Int, max_start : Int,
             max_lifetime : Int, max_session : Int, net_timeout : Int]

TimesFit(s) ==
  /\ s.poll_time \in 1 .. IntMax /\ s.first_poll_time \in 1 .. IntMax
  /\ s.gate_time \in Nat
  /\ s.max_lifetime > 0 =>
       s.poll_time <= s.max_lifetime /\ s.first_poll_time <= s.max_lifetime

NetFits(s) ==
  /\ s.net_timeout <= TIMEO_NET_DEFAULT
  /\ s.poll_time * MSEC <= IntMax => s.net_timeout >= 1

Late == {"args", "daemon", "listen", "pid", "run", "loop"}

SettingsInv ==
  /\ settings \in Settings
  /\ TimesFit(settings)
  /\ pc \notin Late \cup {"over"} => settings.net_timeout = TIMEO_NET_DEFAULT
  /\ pc \in Late => NetFits(settings)

\* Reading a text gives a number, and `as c_int` one that an int can hold.
LEMMA Reading ==
  ASSUME NEW t
  PROVE  /\ strtol(t) \in Int
         /\ strtoul(t) \in Nat
<1>1. strtol(t) \in Int
  BY StartupConstants DEF strtol, IsNumber
<1>2. LongMod \in Nat /\ LongMod > 0
  BY StartupConstants
<1>3. strtol(t) % LongMod \in 0 .. LongMod - 1
  BY <1>1, <1>2
<1> QED  BY <1>1, <1>2, <1>3 DEF strtoul

LEMMA IntMaxFacts == IntMod \in Nat /\ IntMax \in Nat /\ IntMod >= 2 * IntMax + 2
BY StartupConstants DEF IntMax

LEMMA Casting ==
  ASSUME NEW n \in Int
  PROVE  /\ AsInt(n) \in Int /\ AsInt(n) <= IntMax
         /\ n \in 0 .. IntMax => AsInt(n) = n
<1>1. n % IntMod \in 0 .. IntMod - 1
  BY IntMaxFacts
<1>2. n \in 0 .. IntMax => n % IntMod = n
  BY IntMaxFacts
<1> QED  BY <1>1, <1>2, IntMaxFacts DEF AsInt

LEMMA Polling == ASSUME NEW t PROVE PollSeconds(t) \in 1 .. IntMax
BY Reading, Casting, StartupConstants DEF PollSeconds

\* get_env_args leaves times that fit together.
LEMMA EnvStep == SettingsInv /\ GetEnvArgs => SettingsInv'
<1> SUFFICES ASSUME SettingsInv, GetEnvArgs PROVE SettingsInv'
  OBVIOUS
<1> DEFINE poll  == IF Given("POLL") THEN PollSeconds(env.POLL) ELSE POLL_TIME_DEFAULT
           first == FirstPoll(poll)
           life  == IF Given("MAXLIFETIME") THEN strtoul(env.MAXLIFETIME) ELSE 0
           Cut(n) == IF life > 0 THEN Lesser(n, life) ELSE n
           gate  == IF Given("GATETIME") THEN strtol(env.GATETIME) ELSE settings.gate_time
           maxs  == IF Given("MAXSTART") THEN AsInt(strtol(env.MAXSTART))
                                         ELSE settings.max_start
           sess  == IF Given("MAX_SESSION") THEN strtoul(env.MAX_SESSION)
                                            ELSE settings.max_session
<1>1. poll \in 1 .. IntMax /\ first \in 1 .. IntMax
  BY Polling, StartupConstants DEF FirstPoll
<1>2. life \in Nat /\ maxs \in Int /\ sess \in Int
  BY Reading, Casting DEF SettingsInv, Settings
<1>3. gate \in Nat
  <2>1. CASE Given("GATETIME")
    <3>1. ~(strtol(env.GATETIME) < 0)
      BY <2>1 DEF GetEnvArgs, EnvBad
    <3> QED  BY <2>1, <3>1, Reading
  <2>2. CASE ~Given("GATETIME")
    BY <2>2 DEF SettingsInv, TimesFit
  <2> QED  BY <2>1, <2>2
<1>4. settings' = [settings EXCEPT !.poll_time = Cut(poll), !.first_poll_time = Cut(first),
                                   !.gate_time = gate, !.max_start = maxs,
                                   !.max_lifetime = life, !.max_session = sess]
  BY DEF GetEnvArgs, EnvSettings
<1> HIDE DEF poll, first, life
<1>5. Cut(poll) \in 1 .. IntMax /\ (life > 0 => Cut(poll) <= life)
  BY <1>1, <1>2, IntMaxFacts DEF Lesser
<1>6. Cut(first) \in 1 .. IntMax /\ (life > 0 => Cut(first) <= life)
  BY <1>1, <1>2, IntMaxFacts DEF Lesser
<1>7. pc = "env" /\ pc' = "getopt"
  BY DEF GetEnvArgs
<1> HIDE DEF Cut, gate, maxs, sess
<1>8. settings' \in Settings /\ settings'.net_timeout = settings.net_timeout
  <2>1. Cut(poll) \in Int /\ Cut(first) \in Int /\ life \in Int /\ gate \in Int
    BY <1>2, <1>3, <1>5, <1>6, IntMaxFacts
  <2>2. settings \in Settings
    BY DEF SettingsInv
  <2> QED  BY <1>2, <1>4, <2>1, <2>2 DEF Settings
<1>9. TimesFit(settings')
  BY <1>2, <1>3, <1>4, <1>5, <1>6 DEF SettingsInv, Settings, TimesFit
<1> QED  BY <1>7, <1>8, <1>9 DEF SettingsInv, Late

\* The network timeout becomes half of the poll time if that is shorter.
LEMMA PortsStep == SettingsInv /\ Ports => SettingsInv'
<1> SUFFICES ASSUME SettingsInv, Ports PROVE SettingsInv'
  OBVIOUS
<1> DEFINE ms == settings.poll_time * MSEC
           net == Lesser(settings.net_timeout, HalfPoll)
<1>1. settings.poll_time \in 1 .. IntMax /\ MSEC \in Nat /\ MSEC >= 2
  BY StartupConstants DEF SettingsInv, TimesFit
<1>2. ms \in Int /\ ms >= 2
  <2>1. ms >= 1 * MSEC
    BY <1>1, IntMaxFacts
  <2> QED  BY <1>1, <2>1, IntMaxFacts
<1> HIDE DEF ms
<1>3. /\ AsInt(ms) \in Int
      /\ ms <= IntMax => AsInt(ms) = ms
  BY <1>2, Casting, IntMaxFacts
<1>4. HalfPoll = IF AsInt(ms) < 0 THEN -((-AsInt(ms)) \div 2) ELSE AsInt(ms) \div 2
  BY DEF HalfPoll, ms
<1>5. HalfPoll \in Int /\ (ms <= IntMax => HalfPoll >= 1)
  BY <1>2, <1>3, <1>4, IntMaxFacts
<1>6. settings.net_timeout = TIMEO_NET_DEFAULT /\ TIMEO_NET_DEFAULT \in Nat
      /\ TIMEO_NET_DEFAULT >= 1
  BY StartupConstants DEF SettingsInv, Ports, Late
<1>7. /\ net \in Int /\ net <= TIMEO_NET_DEFAULT
      /\ ms <= IntMax => net >= 1
  BY <1>5, <1>6 DEF Lesser
<1>8. settings' = [settings EXCEPT !.net_timeout = net] /\ pc' = "args"
  BY DEF Ports
<1> HIDE DEF net
<1>9. settings' \in Settings /\ TimesFit(settings')
  BY <1>7, <1>8 DEF SettingsInv, Settings, TimesFit
<1>10. NetFits(settings')
  BY <1>7, <1>8 DEF SettingsInv, Settings, NetFits, ms
<1> QED  BY <1>8, <1>9, <1>10 DEF SettingsInv, Late

\* daemon() only clears the gate time.
LEMMA DaemonStep == SettingsInv /\ Daemon => SettingsInv'
<1> SUFFICES ASSUME SettingsInv, Daemon PROVE SettingsInv'
  OBVIOUS
<1>1. pc = "daemon" /\ pc' = "listen"
      /\ settings' = IF runasdaemon THEN [settings EXCEPT !.gate_time = 0] ELSE settings
  BY DEF Daemon
<1> QED  BY <1>1 DEF SettingsInv, Settings, TimesFit, NetFits, Late

\* Every other step leaves the settings alone and does not pass "ports".
Quiet == /\ UNCHANGED settings
         /\ pc' = "over" \/ (pc \in Late <=> pc' \in Late)
         /\ pc = "over" => pc' = "over"

LEMMA QuietStep == SettingsInv /\ Quiet => SettingsInv'
BY DEF SettingsInv, Quiet, Late, Settings, TimesFit, NetFits

\* For all AUTOSSH_* and command lines, and any width of int: the values that
\* get_env_args and autossh_main hand to ssh_run are ones it can run on.
THEOREM SettingsAlwaysFit == Spec => []SettingsFit
<1>1. Init => SettingsInv
  <2> SUFFICES ASSUME Init PROVE SettingsInv
    OBVIOUS
  <2>1. settings = [poll_time |-> POLL_TIME_DEFAULT, first_poll_time |-> POLL_TIME_DEFAULT,
                    gate_time |-> GATE_TIME_DEFAULT, max_start |-> -1,
                    max_lifetime |-> 0, max_session |-> 0,
                    net_timeout |-> TIMEO_NET_DEFAULT]
    BY DEF Init
  <2>2. pc \in {"child", "env"}
    BY DEF Init
  <2>3. settings \in Settings /\ TimesFit(settings)
    BY <2>1, StartupConstants, IntMaxFacts DEF Settings, TimesFit
  <2> QED  BY <2>1, <2>2, <2>3 DEF SettingsInv, Late
<1>2. SettingsInv /\ [Next]_vars => SettingsInv'
  <2> SUFFICES ASSUME SettingsInv, [Next]_vars PROVE SettingsInv'
    OBVIOUS
  <2>1. CASE GetEnvArgs
    BY <2>1, EnvStep
  <2>2. CASE Ports
    BY <2>2, PortsStep
  <2>3. CASE Daemon
    BY <2>3, DaemonStep
  <2>4. GetEnvArgs \/ Ports \/ Daemon \/ Quiet
    BY DEF Next, vars, Quiet, Late, ChildMain, EnvFails, xerrlog, ReadOption, PassOperand,
           AtOption, Version, EndOptions, usage, PortsFail, BuildArg, BuildOver, Listen,
           WritePid, SetupFails, EarlySignal, Stage, SshRun, Over
  <2> QED  BY <2>1, <2>2, <2>3, <2>4, QuietStep
<1>3. SettingsInv => SettingsFit
  BY DEF SettingsInv, TimesFit, NetFits, SettingsFit, Late
<1> QED  BY <1>1, <1>2, <1>3, PTL DEF Spec
=============================================================================
