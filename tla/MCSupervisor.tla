---------------------------- MODULE MCSupervisor ----------------------------
(***************************************************************************)
(* Supervisor for TLC, with a stderr whose messages are two characters     *)
(* long and a buffer of four.                                              *)
(***************************************************************************)
EXTENDS Supervisor, TLC
NoLimit == -1

MCNeedle == "fwd" :> <<"p", "q">> @@ "stuck" :> <<"s", "u">>
D == INSTANCE StderrDrain WITH STDERR_BUF_SZ <- 4, Needle <- MCNeedle

Characters == {"p", "q", "s", "u", "x", "NUL"}
Drains == {[has |-> D!Contents(t), hit |-> D!Drain(t)] :
             t \in UNION {[1 .. n -> Characters] : n \in 0 .. 5}}

\* Whatever characters make up what ssh has written, check_ssh_stderr finds nothing
\* in them that the supervisor's model does not allow for: never a message that is
\* not there, and a message that stands alone is not missed, however the reads cut
\* the text.  (Among other text a message across two reads, or behind a NUL, is.)
DrainAllowed == \A d \in Drains : d.has = errbuf => Found(d.hit)
=============================================================================
