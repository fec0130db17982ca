------------------------------ MODULE ConnTest ------------------------------
(***************************************************************************)
(* conn.rs: the monitoring port.  autossh connects to the write port (wd), *)
(* ssh forwards the connection through the tunnel back to the listening    *)
(* socket, and conn_test sends a line and compares what comes back.  One   *)
(* socket listens for all tests, so a connection that a failed test did    *)
(* not accept waits in its backlog for the next one.                       *)
(*                                                                         *)
(* A connection is a record: whether it belongs to this test, the bytes    *)
(* ready on it, and whether its far end closed.  The sockets are blocking. *)
(***************************************************************************)
EXTENDS Integers, Sequences

CONSTANTS Bytes,          \* length of the test line
          MAX_CONN_TRIES,
          MaxLoops,       \* 10: poll rounds before conn_send_and_receive gives up
          Backlog         \* listen(sock, 1) holds two connections on Linux

ASSUME ConnConstants ==
  /\ Bytes \in Nat \ {0} /\ Backlog \in Nat \ {0}
  /\ MaxLoops \in Nat /\ MaxLoops >= 2
  /\ MAX_CONN_TRIES \in Nat /\ MAX_CONN_TRIES >= 2

VARIABLES
  echo,                   \* sock = NO_RD_SOCK: an echo service, no listener
  phase,                  \* where conn_test is
  tries, loops, wleft, rleft, got, rval,
  skew,                   \* bytes of the line that earlier tries read (echo)
  rd,                     \* the connection read from
  queue,                  \* backlog of the listening socket
  own, sent,              \* this test's forwarded connection; bytes in the tunnel
  smooth, hit             \* no fault of tunnel or signals in this test; an accept
                          \* was ever interrupted or failed (not part of the code)

local == <<tries, loops, wleft, rleft, got, rval, skew>>
net   == <<queue, own, sent>>
ghost == <<echo, smooth, hit>>
vars  == <<phase, local, rd, net, ghost>>

Conn(mine, avail, eof) == [mine |-> mine, avail |-> avail, eof |-> eof]
NoConn == Conn(FALSE, 0, FALSE)
Readable == rd.avail > 0 \/ rd.eof

Init ==
  /\ echo \in BOOLEAN
  /\ phase = "idle" /\ tries = 0 /\ loops = 0 /\ wleft = 0 /\ rleft = 0 /\ got = 0
  /\ rval = 1 /\ skew = 0 /\ rd = NoConn /\ queue = <<>> /\ own = "none" /\ sent = 0
  /\ smooth = TRUE /\ hit = FALSE

-----------------------------------------------------------------------------
(***************************************************************************)
(* conn_test                                                               *)
(***************************************************************************)
\* One leftover can be outlasted: a later try accepts this test's connection.
Begin ==
  /\ phase = "idle"
  /\ phase' = "try" /\ tries' = 0 /\ rval' = 0 /\ got' = 0 /\ skew' = 0 /\ sent' = 0
  /\ IF echo THEN own' = "read" /\ rd' = Conn(TRUE, 0, FALSE)
             ELSE own' = "opening" /\ rd' = NoConn
  /\ smooth' = (Len(queue) <= MAX_CONN_TRIES - 2)
  /\ UNCHANGED <<loops, wleft, rleft, queue, echo, hit>>

\* conn_remote cannot connect: return 0.
BeginFails ==
  /\ phase = "idle"
  /\ phase' = "down" /\ rval' = 0 /\ own' = "none"
  /\ smooth' = FALSE
  /\ UNCHANGED <<tries, loops, wleft, rleft, got, skew, rd, queue, sent, echo, hit>>

LastTryAtOnce == tries + 3 >= MAX_CONN_TRIES
LastTryEarly == tries + 2 >= MAX_CONN_TRIES
LastTry == tries + 1 >= MAX_CONN_TRIES

\* The head of the while loop: give up, or drop the connection of the last try.
Try ==
  /\ phase = "try"
  /\ \/ /\ LastTry /\ phase' = "close"
        /\ UNCHANGED <<loops, wleft, rleft, got, skew, rd, own>>
     \/ /\ ~LastTry
        /\ loops' = 0 /\ wleft' = Bytes /\ rleft' = Bytes /\ got' = 0
        /\ skew' = IF echo THEN (skew + got) % Bytes ELSE 0
        /\ \/ echo /\ phase' = "poll" /\ UNCHANGED <<rd, own>>
           \/ /\ ~echo /\ phase' = "accept" /\ rd' = NoConn
              /\ own' = IF own = "read" THEN "closed" ELSE own
  /\ UNCHANGED <<tries, rval, queue, sent, ghost>>

\* conn_poll_for_accept.  That its poll reports something but no POLLIN, which a
\* listening socket does not do, is left out.
Accept ==
  /\ phase = "accept" /\ queue # <<>>
  /\ rd' = Head(queue) /\ queue' = Tail(queue)
  /\ own' = IF Head(queue).mine THEN "read" ELSE own
  /\ phase' = "poll"
  /\ UNCHANGED <<local, sent, ghost>>

AcceptTimeout ==
  /\ phase = "accept" /\ queue = <<>>
  /\ phase' = "close" /\ tries' = tries + 1
  /\ smooth' = (smooth /\ own # "opening")
  /\ UNCHANGED <<loops, wleft, rleft, got, rval, skew, rd, net, echo, hit>>

-----------------------------------------------------------------------------
(***************************************************************************)
(* conn_send_and_receive                                                   *)
(***************************************************************************)
WrittenMissed == wleft
Written == 0

\* poll finds wd writable or rd readable; the line is written at once.
PollReady ==
  /\ phase = "poll" /\ (wleft > 0 \/ Readable)
  /\ wleft' = Written
  /\ sent' = IF own = "closed" THEN sent ELSE sent + wleft
  /\ phase' = IF Readable THEN "read" ELSE "loop"
  /\ UNCHANGED <<tries, loops, rleft, got, rval, skew, rd, queue, own, ghost>>

\* poll reports only an error condition of a socket; the round counts.
PollOther ==
  /\ phase = "poll" /\ ~Readable
  /\ phase' = "loop" /\ smooth' = FALSE
  /\ UNCHANGED <<local, rd, net, echo, hit>>

PollTimeout ==
  /\ phase = "poll" /\ wleft = 0 /\ ~Readable
  /\ phase' = "try" /\ tries' = tries + 1
  /\ smooth' = (smooth /\ ~rd.mine)
  /\ UNCHANGED <<loops, wleft, rleft, got, rval, skew, rd, net, echo, hit>>

\* write or read fails: return -1.
IOError ==
  /\ phase = "read" \/ (phase = "poll" /\ wleft > 0)
  /\ phase' = "close" /\ tries' = tries + 1 /\ smooth' = FALSE
  /\ UNCHANGED <<loops, wleft, rleft, got, rval, skew, rd, net, echo, hit>>

\* The inner loop reads until the line is complete or the far end has closed;
\* with neither, read blocks.
ReadSome ==
  /\ phase = "read" /\ rd.avail > 0
  /\ LET n == IF rd.avail < rleft THEN rd.avail ELSE rleft
     IN  /\ got' = got + n /\ rleft' = rleft - n
         /\ rd' = [rd EXCEPT !.avail = @ - n]
         /\ phase' = IF rleft = n THEN "loop" ELSE "read"
  /\ UNCHANGED <<tries, loops, wleft, rval, skew, net, ghost>>

ReadEnd ==
  /\ phase = "read" /\ rd.avail = 0 /\ rd.eof
  /\ phase' = "loop" /\ rleft' = 0
  /\ UNCHANGED <<tries, loops, wleft, got, rval, skew, rd, net, ghost>>

CountMissed == loops
Count == loops + 1

LoopEnd ==
  /\ phase = "loop"
  /\ \/ /\ Count > MaxLoops
        /\ phase' = "close" /\ tries' = tries + 1 /\ UNCHANGED loops
     \/ /\ Count <= MaxLoops
        /\ phase' = IF rleft = 0 THEN "compare" ELSE "poll"
        /\ loops' = Count /\ UNCHANGED tries
  /\ UNCHANGED <<wleft, rleft, got, rval, skew, rd, net, ghost>>

-----------------------------------------------------------------------------
\* strcmp(rbuf, wbuf) = 0.  The line has the test's random number in it: what
\* another connection carries is taken to differ from it.
Matches == got = Bytes /\ rd.mine /\ skew = 0

Compare ==
  /\ phase = "compare"
  /\ tries' = tries + 1
  /\ \/ Matches /\ rval' = 1 /\ phase' = "close"
     \/ ~Matches /\ phase' = "try" /\ UNCHANGED rval
  /\ UNCHANGED <<loops, wleft, rleft, got, skew, rd, net, ghost>>

\* Close wd and rd.  What is left of this test's connection is now a leftover.
Close ==
  /\ phase = "close"
  /\ phase' = IF rval = 1 THEN "idle" ELSE "down"
  /\ rd' = NoConn /\ sent' = 0
  /\ queue' = [i \in DOMAIN queue |-> [queue[i] EXCEPT !.mine = FALSE]]
  /\ own' = IF own = "opening" THEN "opening" ELSE "none"
  /\ UNCHANGED <<local, ghost>>

\* ssh_watch: "port down, restarting ssh".  With ssh its connections end.
Restart ==
  /\ phase = "down"
  /\ phase' = "idle" /\ own' = "none"
  /\ queue' = [i \in DOMAIN queue |-> [queue[i] EXCEPT !.eof = TRUE]]
  /\ UNCHANGED <<local, rd, sent, ghost>>

\* A handled signal: poll fails with EINTR, and a read that waits for more is
\* abandoned.  accept itself may fail with the same outcome as its poll.
Interrupt ==
  /\ \/ /\ phase \in {"accept", "poll"}
        /\ phase' = "close" /\ tries' = tries + 1
        /\ hit' = (hit \/ phase = "accept")
     \/ phase = "read" /\ ~Readable /\ phase' = "loop" /\ UNCHANGED <<tries, hit>>
  /\ smooth' = FALSE
  /\ UNCHANGED <<loops, wleft, rleft, got, rval, skew, rd, net, echo>>

-----------------------------------------------------------------------------
(***************************************************************************)
(* The tunnel: it may deliver, delay or lose.                              *)
(***************************************************************************)
Arrive ==
  /\ own = "opening" /\ Len(queue) < Backlog
  /\ own' = IF phase \in {"down", "idle"} THEN "none" ELSE "queued"
  /\ queue' = Append(queue, Conn(phase \notin {"down", "idle"}, 0, FALSE))
  /\ UNCHANGED <<phase, local, rd, sent, ghost>>

Deliver(n) ==
  /\ n <= sent /\ sent' = sent - n
  /\ \/ own = "queued" /\ UNCHANGED rd
        /\ queue' = [i \in DOMAIN queue |->
             IF queue[i].mine THEN [queue[i] EXCEPT !.avail = @ + n] ELSE queue[i]]
     \/ own = "read" /\ rd' = [rd EXCEPT !.avail = @ + n] /\ UNCHANGED queue
  /\ UNCHANGED <<phase, local, own, ghost>>

\* ssh or the network ends the connection early.
Lose ==
  /\ own = "read" /\ ~rd.eof
  /\ rd' = [rd EXCEPT !.eof = TRUE] /\ sent' = 0 /\ smooth' = FALSE
  /\ UNCHANGED <<phase, local, queue, own, echo, hit>>

Step == \/ Begin \/ Try \/ Accept \/ AcceptTimeout \/ PollReady \/ PollTimeout
        \/ ReadSome \/ ReadEnd \/ LoopEnd \/ Compare \/ Close \/ Restart

Fault == BeginFails \/ PollOther \/ IOError \/ Interrupt \/ Lose

Next == Step \/ Fault \/ Arrive \/ (\E n \in 1 .. 2 * Bytes : Deliver(n))

Spec == Init /\ [][Next]_vars

\* conn_test runs on, and poll times out; the tunnel and signals owe nothing.
FairSpec == Spec /\ WF_vars(Step)

-----------------------------------------------------------------------------
\* The state stays in its ranges; the backlog is bounded.
Conns == [mine : BOOLEAN, avail : 0 .. 2 * Bytes, eof : BOOLEAN]
TypeOK ==
  /\ phase \in {"idle", "try", "accept", "poll", "read", "loop", "compare",
                "close", "down"}
  /\ tries \in 0 .. MAX_CONN_TRIES /\ loops \in 0 .. MaxLoops
  /\ wleft \in 0 .. Bytes /\ rleft \in 0 .. Bytes /\ got \in 0 .. Bytes /\ rval \in 0 .. 1
  /\ skew \in 0 .. Bytes - 1 /\ rd \in Conns /\ sent \in 0 .. 2 * Bytes
  /\ queue \in Seq(Conns) /\ Len(queue) <= Backlog
  /\ own \in {"none", "opening", "queued", "read", "closed"}
  /\ echo \in BOOLEAN /\ smooth \in BOOLEAN /\ hit \in BOOLEAN

\* A test fails only if the tunnel was slow or broken or a signal interrupted it:
\* a leftover connection of an earlier test is outlasted by a second try.
LiveTunnelPasses == phase = "close" /\ rval = 0 => ~smooth

\* Unless an accept is interrupted or fails, a test leaves at most one connection
\* behind, the most that LiveTunnelPasses can stand.
OneLeftover == phase = "idle" /\ ~hit => Len(queue) <= 1

-----------------------------------------------------------------------------
(***************************************************************************)
(* The inductive invariant.                                                *)
(***************************************************************************)
InTest == phase \in {"try", "accept", "poll", "read", "loop", "compare"}
InRound == phase \in {"poll", "read", "loop", "compare"}

AnyConn == [mine : BOOLEAN, avail : Int, eof : BOOLEAN]
Shapes ==
  /\ tries \in Nat /\ loops \in Nat /\ wleft \in Nat /\ rleft \in Nat /\ got \in Nat
  /\ rd \in AnyConn /\ queue \in Seq(AnyConn)

\* Of the waiting connections only the last can be this test's, and it is open.
QueueInv ==
  /\ own = "queued" => Len(queue) > 0 /\ queue[Len(queue)].mine
  /\ \A k \in 1 .. Len(queue) :
       queue[k].mine => own = "queued" /\ k = Len(queue) /\ ~queue[k].eof
  /\ own = "read" <=> rd.mine
  /\ phase \in {"idle", "down"} => own \in {"none", "opening"}
  /\ echo => Len(queue) = 0 /\ own \notin {"opening", "queued"}
  /\ echo /\ InTest => rd.mine
  /\ phase = "accept" => ~echo /\ own # "read"

\* Connections that are or will be waiting; one accept takes one.
Waiting == Len(queue) + IF own = "opening" THEN 1 ELSE 0
WaitingInv ==
  ~hit => Waiting <= IF phase \in {"try", "accept"} /\ tries = 0 THEN 2 ELSE 1

\* In a test without a fault there is a try left for each leftover and one more,
\* and a round is over after two turns.
Leftovers == Len(queue) - IF own = "queued" THEN 1 ELSE 0
SmoothInv ==
  smooth =>
    /\ phase = "try" /\ echo => tries = 0 /\ got = 0 /\ skew = 0 /\ ~rd.eof
    /\ phase = "accept" => loops = 0 /\ skew = 0 /\ got + rleft = Bytes
    /\ phase \in {"try", "accept"} /\ ~echo =>
         own \in {"opening", "queued"} /\ tries + Leftovers <= MAX_CONN_TRIES - 2
    /\ InRound =>
         /\ skew = 0
         /\ rd.mine => ~rd.eof /\ got + rleft = Bytes
         /\ ~rd.mine => /\ own \in {"opening", "queued"}
                        /\ tries + 1 + Leftovers <= MAX_CONN_TRIES - 2
    /\ phase = "poll" => loops = 0 \/ (wleft = 0 /\ loops = 1)
    /\ phase = "read" => wleft = 0 /\ loops <= 1
    /\ phase = "loop" => wleft = 0 /\ (loops = 0 \/ (rleft = 0 /\ loops = 1))
    /\ phase = "compare" => rleft = 0

IInv == Shapes /\ QueueInv /\ WaitingInv /\ SmoothInv /\ LiveTunnelPasses

\* A test ends, or blocks in read with a part of the line read.
EndsOrBlocks == phase # "idle" ~> phase = "idle" \/ (phase = "read" /\ got > 0)

\* conn.rs:3: "Returns 1 on success, 0 on any failure".  So it returns.
TestReturns == phase # "idle" ~> phase = "idle"
=============================================================================
