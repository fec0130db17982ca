----------------------------- MODULE MCStartup ------------------------------
(***************************************************************************)
(* Small instances of Startup.  int is 6 bits wide and a second has 4      *)
(* milliseconds, so that n10 overflows when it is turned into              *)
(* milliseconds, n63 is negative and n66 comes back as 2.                  *)
(***************************************************************************)
EXTENDS Startup, TLC

MCDigitValue ==
  "n0" :> 0 @@ "n1" :> 1 @@ "n2" :> 2 @@ "n3" :> 3 @@ "n4" :> 4 @@ "n5" :> 5
  @@ "n10" :> 10 @@ "n24" :> 24 @@ "n25" :> 25 @@ "n26" :> 26 @@ "n63" :> 63
  @@ "n66" :> 66

Variables == {"DEBUG", "LOGLEVEL", "POLL", "FIRST_POLL", "GATETIME", "MAXSTART",
              "MESSAGE", "PORT", "MAXLIFETIME", "MAX_SESSION", "PIDFILE", "LOGFILE"}
NoEnv == [v \in Variables |-> Unset]
Bad == <<"x">>

\* Values for each variable: none, empty, usual ones, and those at a limit.
ValuesOf ==
  [v \in Variables |->
     {Unset, <<>>, Bad} \cup
     CASE v \in {"POLL", "FIRST_POLL"} ->
            {<<"n0">>, <<"n1">>, <<"n3">>, <<"n10">>, <<"n63">>, <<"n66">>, <<"-", "n3">>}
       [] v = "MAXLIFETIME" -> {<<"n0">>, <<"n2">>, <<"n5">>, <<"-", "n1">>}
       [] v \in {"GATETIME", "MAXSTART", "MAX_SESSION"} ->
            {<<"n0">>, <<"n3">>, <<"-", "n1">>, <<"-", "n3">>, <<"n63">>}
       [] v = "LOGLEVEL" -> {<<"n3">>, <<"n10">>}
       [] v = "MESSAGE" -> {<<"m", "m">>, <<"m", "m", "m">>}
       [] v = "PORT" -> {<<"n0">>, <<"n3">>, <<"n3", ":", "n4">>}
       [] OTHER -> {}]

NoConfig == [poll_time |-> 0, first_poll_time |-> 0, gate_time |-> [n |-> 0, frac |-> FALSE],
             max_start |-> -1, max_session |-> [n |-> 0, frac |-> FALSE],
             monitor_disabled |-> FALSE, monitor_port |-> 3, extra_ssh_args |-> <<>>]

M == <<"-", "M">>
M3 == <<"-", "M", "n3">>
F == <<"-", "f">>
FN == <<"-", "f", "N">>
L == <<"-", "L">>
Three == <<"n3">>
Host == <<"h">>

\* autossh started from a shell.
Command(e, w, p) ==
  [session |-> FALSE, env |-> e, words |-> w, permutes |-> p, optind |-> 1,
   mhost |-> <<"l">>, preload |-> <<>>, config |-> NoConfig]

Times == {[NoEnv EXCEPT !.POLL = a, !.FIRST_POLL = b, !.MAXLIFETIME = c] :
            a \in ValuesOf["POLL"], b \in ValuesOf["FIRST_POLL"],
            c \in ValuesOf["MAXLIFETIME"]}
Pairs == UNION {{[NoEnv EXCEPT ![v] = a, ![u] = b] : a \in ValuesOf[v], b \in ValuesOf[u]} :
                  v \in Variables \ {"MESSAGE", "LOGLEVEL"}, u \in {"PIDFILE", "PORT"}}
         \cup UNION {{[NoEnv EXCEPT ![v] = a, !.DEBUG = b] :
                        a \in ValuesOf[v], b \in {Unset, <<>>}} : v \in {"MESSAGE", "LOGLEVEL"}}
Environments == {Command(e, <<FN, M, Three, Host>>, TRUE) : e \in Times \cup Pairs}

SeqOf(S, n) == UNION {[1 .. k -> S] : k \in 0 .. n}
PortEnvs == {[NoEnv EXCEPT !.PORT = t] : t \in {Unset, <<"n0">>, Three}}
Words == {M, M3, F, FN, <<"-", "N">>, <<"-", "N", "M">>, <<"-", "f", "f">>, L,
          <<"-", "-">>, Three, Host, <<"-", "V">>, <<"-", "f", "x">>}
FewWords == {M3, FN, L, <<"-", "-">>, Host}
Lines == {Command(e, w, p) : e \in PortEnvs, p \in BOOLEAN,
                             w \in SeqOf(Words, 3) \cup SeqOf(FewWords, 4)}

PortTexts == {<<"n0">>, <<"n24">>, <<"n25">>, <<"n66">>, Bad, <<"-", "n3">>,
              <<"n3", ":", "n4">>, <<"n3", ":">>, <<"n3", ":", "n0">>,
              <<"n0", ":", "n4">>, <<"n3", ":", "-", "n3">>}
Hosts == {<<"l">>, <<"l", "l", "l">>, <<"l", "l", "l", "l">>, <<"l", "l", "l", "l", "l">>}
PortLines == {[Command([NoEnv EXCEPT !.PORT = q], <<L, Three, M, t, Host>>, TRUE)
                 EXCEPT !.mhost = h] :
                q \in {Unset} \cup PortTexts, t \in PortTexts, h \in Hosts}

\* A session's supervisor; the host may have used getopt and may set AUTOSSH_*.
Session(c, e, o) ==
  [session |-> TRUE, env |-> e, words |-> <<>>, permutes |-> TRUE, optind |-> o,
   mhost |-> <<"l">>, preload |-> <<>>, config |-> c]
Whole(n) == [n |-> n, frac |-> FALSE]
Half(n) == [n |-> n, frac |-> TRUE]
Configs ==
  [poll_time : {0, 3, 10}, first_poll_time : {0, 3}, gate_time : {Whole(-1), Whole(0), Whole(3), Half(0)},
   max_start : {-3, -1, 0, 3}, max_session : {Whole(0), Whole(3), Half(3)},
   monitor_disabled : BOOLEAN, monitor_port : {3}, extra_ssh_args : {<<>>, <<F>>}]
Sessions == {Session(c, NoEnv, 1) : c \in Configs}
            \cup {Session(NoConfig, e, o) : o \in 1 .. 3,
                    e \in {NoEnv, [NoEnv EXCEPT !.PORT = Three], [NoEnv EXCEPT !.POLL = Bad]}}

Nested == {[Command(NoEnv, <<M3, Host>>, TRUE) EXCEPT !.preload = p] :
             p \in {<<"user">>, <<"outer">>, <<"outer", "user">>}}

MCStarts == Environments \cup Lines \cup PortLines \cup Sessions \cup Nested

\* AUTOSSH_PORT with a command line that has -M as well.
BothPorts == {Command([NoEnv EXCEPT !.PORT = Three], w \o <<Host>>, p) : p \in BOOLEAN,
                w \in {<<>>, <<M, <<"n24">>>>, <<FN, M, <<"n24">>>>}}
=============================================================================
