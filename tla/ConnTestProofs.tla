--------------------------- MODULE ConnTestProofs ---------------------------
(***************************************************************************)
(* The verdict of the connection test, for any length of the line, any     *)
(* number of tries and any backlog.                                        *)
(***************************************************************************)
EXTENDS ConnTest, TLAPS

\* The constants as numbers.
LEMMA Sizes ==
  /\ Bytes \in Nat /\ 1 <= Bytes /\ MaxLoops \in Nat /\ 2 <= MaxLoops
  /\ MAX_CONN_TRIES \in Nat /\ 2 <= MAX_CONN_TRIES
BY ConnConstants

\* A connection stays one whatever field of it changes.
LEMMA Records ==
  /\ NoConn \in AnyConn /\ Conn(TRUE, 0, FALSE) \in AnyConn
  /\ \A b \in BOOLEAN : Conn(b, 0, FALSE) \in AnyConn
  /\ \A c \in AnyConn : /\ [c EXCEPT !.mine = FALSE] \in AnyConn
                        /\ [c EXCEPT !.eof = TRUE] \in AnyConn
                        /\ c.avail \in Int
  /\ \A c \in AnyConn, n \in Int : [c EXCEPT !.avail = n] \in AnyConn
<1>1. \A b \in BOOLEAN, a \in Int, e \in BOOLEAN : Conn(b, a, e) \in AnyConn
  BY DEF Conn, AnyConn
<1>2. 0 \in Int
  OBVIOUS
<1>3. NoConn \in AnyConn /\ Conn(TRUE, 0, FALSE) \in AnyConn
  BY <1>1, <1>2, Zenon DEF NoConn
<1>4. ASSUME NEW c \in AnyConn
      PROVE  /\ [c EXCEPT !.mine = FALSE] \in AnyConn
             /\ [c EXCEPT !.eof = TRUE] \in AnyConn
             /\ c.avail \in Int
  BY DEF AnyConn
<1>5. ASSUME NEW c \in AnyConn, NEW n \in Int
      PROVE  [c EXCEPT !.avail = n] \in AnyConn
  BY DEF AnyConn
<1> QED
  BY <1>1, <1>2, <1>3, <1>4, <1>5, Zenon

\* What the steps do to a queue of connections.
LEMMA Moves ==
  ASSUME NEW q \in Seq(AnyConn)
  PROVE  /\ Len(q) \in Nat /\ DOMAIN q = 1 .. Len(q)
         /\ \A k \in 1 .. Len(q) : q[k] \in AnyConn
         /\ q # <<>> => /\ Len(q) >= 1 /\ Head(q) = q[1] /\ Head(q) \in AnyConn
                        /\ Tail(q) \in Seq(AnyConn) /\ Len(Tail(q)) = Len(q) - 1
                        /\ \A k \in 1 .. Len(q) - 1 : Tail(q)[k] = q[k + 1]
         /\ \A c \in AnyConn :
              /\ Append(q, c) \in Seq(AnyConn) /\ Len(Append(q, c)) = Len(q) + 1
              /\ Append(q, c)[Len(q) + 1] = c
              /\ \A k \in 1 .. Len(q) : Append(q, c)[k] = q[k]
OBVIOUS

\* Changing every connection of a queue keeps its length.
LEMMA Changed ==
  ASSUME NEW q \in Seq(AnyConn), NEW f \in [DOMAIN q -> AnyConn]
  PROVE  f \in Seq(AnyConn) /\ Len(f) = Len(q)
OBVIOUS

\* A field keeps its value when another one changes.
LEMMA Fields ==
  ASSUME NEW c \in AnyConn
  PROVE  /\ ~[c EXCEPT !.mine = FALSE].mine
         /\ [c EXCEPT !.eof = TRUE].mine = c.mine
         /\ \A n \in Int : /\ [c EXCEPT !.avail = n].mine = c.mine
                           /\ [c EXCEPT !.avail = n].eof = c.eof
BY DEF AnyConn

-----------------------------------------------------------------------------
(***************************************************************************)
(* What a step does to the connections.                                    *)
(***************************************************************************)

\* accept takes the first connection of the backlog.
LEMMA Taken ==
  ASSUME Shapes, Accept
  PROVE  /\ Len(queue) \in Nat /\ Len(queue) >= 1 /\ Len(queue') = Len(queue) - 1
         /\ rd' = queue[1] /\ rd' \in AnyConn /\ queue' \in Seq(AnyConn)
         /\ own' = IF queue[1].mine THEN "read" ELSE own
         /\ \A k \in 1 .. Len(queue') : queue'[k] = queue[k + 1]
<1>1. queue \in Seq(AnyConn)
  BY DEF Shapes
<1>2. /\ queue # <<>> /\ rd' = Head(queue) /\ queue' = Tail(queue)
      /\ own' = IF Head(queue).mine THEN "read" ELSE own
  BY DEF Accept
<1> QED
  BY <1>1, <1>2, Moves

\* A forwarded connection joins the end of the backlog.
LEMMA Arrived ==
  ASSUME Shapes, Arrive
  PROVE  /\ Len(queue) \in Nat /\ Len(queue') = Len(queue) + 1
         /\ queue' \in Seq(AnyConn)
         /\ queue'[Len(queue')].mine <=> phase \notin {"down", "idle"}
         /\ ~queue'[Len(queue')].eof
         /\ \A k \in 1 .. Len(queue) : queue'[k] = queue[k]
<1>1. queue \in Seq(AnyConn)
  BY DEF Shapes
<1>2. PICK c \in AnyConn : c = Conn(phase \notin {"down", "idle"}, 0, FALSE)
  BY Records, Zenon
<1>3. queue' = Append(queue, c)
  BY <1>2, Zenon DEF Arrive
<1>4. (c.mine <=> phase \notin {"down", "idle"}) /\ ~c.eof
  BY <1>2 DEF Conn
<1>5. /\ Len(queue') = Len(queue) + 1 /\ queue'[Len(queue) + 1] = c
      /\ queue' \in Seq(AnyConn) /\ Len(queue) \in Nat
      /\ \A k \in 1 .. Len(queue) : queue'[k] = queue[k]
  BY <1>1, <1>3, Moves
<1> QED
  BY <1>4, <1>5

\* The end of a test disowns the waiting connections, and a restart ends them.
LEMMA Marked ==
  ASSUME Shapes, Close \/ Restart
  PROVE  /\ Len(queue) \in Nat /\ Len(queue') = Len(queue)
         /\ queue' \in Seq(AnyConn)
         /\ \A k \in 1 .. Len(queue) : queue'[k].mine => Restart /\ queue[k].mine
<1>1. queue \in Seq(AnyConn)
  BY DEF Shapes
<1>2. /\ Len(queue) \in Nat /\ DOMAIN queue = 1 .. Len(queue)
      /\ \A k \in DOMAIN queue : queue[k] \in AnyConn
  BY <1>1, Moves
<1>3. CASE Close
  <2>1. queue' = [i \in DOMAIN queue |-> [queue[i] EXCEPT !.mine = FALSE]]
    BY <1>3, Zenon DEF Close
  <2>2. queue' \in [DOMAIN queue -> AnyConn]
    BY <1>2, <2>1, Records
  <2>3. \A k \in DOMAIN queue : ~queue'[k].mine
    BY <1>2, <2>1, Fields
  <2> QED
    BY <1>1, <1>2, <2>2, <2>3, Changed
<1>4. CASE Restart
  <2>1. queue' = [i \in DOMAIN queue |-> [queue[i] EXCEPT !.eof = TRUE]]
    BY <1>4, Zenon DEF Restart
  <2>2. queue' \in [DOMAIN queue -> AnyConn]
    BY <1>2, <2>1, Records
  <2>3. \A k \in DOMAIN queue : queue'[k].mine = queue[k].mine
    BY <1>2, <2>1, Fields
  <2> QED
    BY <1>1, <1>2, <1>4, <2>2, <2>3, Changed
<1> QED
  BY <1>3, <1>4

\* Delivered bytes leave everything else of a connection as it is.
LEMMA Delivered ==
  ASSUME Shapes, NEW n \in Int, Deliver(n)
  PROVE  /\ Len(queue) \in Nat /\ Len(queue') = Len(queue)
         /\ queue' \in Seq(AnyConn) /\ rd' \in AnyConn
         /\ rd'.mine = rd.mine /\ rd'.eof = rd.eof
         /\ \A k \in 1 .. Len(queue) :
              queue'[k].mine = queue[k].mine /\ queue'[k].eof = queue[k].eof
<1> DEFINE More(c) == [c EXCEPT !.avail = c.avail + n]
<1>1. queue \in Seq(AnyConn) /\ rd \in AnyConn
  BY DEF Shapes
<1>2. /\ Len(queue) \in Nat /\ DOMAIN queue = 1 .. Len(queue)
      /\ \A k \in DOMAIN queue : queue[k] \in AnyConn
  BY <1>1, Moves
<1>3. ASSUME NEW c \in AnyConn
      PROVE  More(c) \in AnyConn /\ More(c).mine = c.mine /\ More(c).eof = c.eof
  <2>1. c.avail \in Int
    BY <1>3, Records
  <2>2. c.avail + n \in Int
    BY <2>1
  <2> QED
    BY <1>3, <2>2, Records, Fields
<1>4. CASE own = "queued"
  <2>1. /\ queue' = [i \in DOMAIN queue |->
                      IF queue[i].mine THEN More(queue[i]) ELSE queue[i]]
        /\ rd' = rd
    BY <1>4 DEF Deliver
  <2> HIDE DEF More
  <2>2. queue' \in [DOMAIN queue -> AnyConn]
    BY <1>2, <1>3, <2>1
  <2>3. \A k \in DOMAIN queue :
          queue'[k].mine = queue[k].mine /\ queue'[k].eof = queue[k].eof
    BY <1>2, <1>3, <2>1
  <2> QED
    BY <1>1, <1>2, <2>1, <2>2, <2>3, Changed
<1>5. CASE own = "read"
  <2>1. rd' = More(rd) /\ queue' = queue
    BY <1>5 DEF Deliver
  <2> HIDE DEF More
  <2> QED
    BY <1>1, <1>2, <1>3, <2>1
<1> QED
  BY <1>4, <1>5 DEF Deliver

\* A read moves bytes from the connection to the line.
LEMMA ReadOn ==
  ASSUME Shapes, ReadSome
  PROVE  /\ rd' \in AnyConn /\ rd'.mine = rd.mine /\ rd'.eof = rd.eof
         /\ got' \in Nat /\ rleft' \in Nat /\ got' + rleft' = got + rleft
         /\ phase' = (IF rleft' = 0 THEN "loop" ELSE "read")
<1> DEFINE n == IF rd.avail < rleft THEN rd.avail ELSE rleft
<1>1. rd \in AnyConn /\ rleft \in Nat /\ got \in Nat
  BY DEF Shapes
<1>2. rd.avail \in Int /\ rd.avail > 0
  BY <1>1, Records DEF ReadSome
<1>3. n \in Nat /\ rleft - n \in Nat /\ rd.avail - n \in Int
  BY <1>1, <1>2
<1>4. /\ got' = got + n /\ rleft' = rleft - n
      /\ rd' = [rd EXCEPT !.avail = rd.avail - n]
      /\ phase' = (IF rleft = n THEN "loop" ELSE "read")
  BY DEF ReadSome
<1> HIDE DEF n
<1>5. rd' \in AnyConn /\ rd'.mine = rd.mine /\ rd'.eof = rd.eof
  BY <1>1, <1>3, <1>4, Records, Fields
<1> QED
  BY <1>1, <1>3, <1>4, <1>5

-----------------------------------------------------------------------------
(***************************************************************************)
(* Every step keeps every conjunct of the inductive invariant.             *)
(***************************************************************************)

\* The numbers stay natural numbers and the connections connections.
LEMMA ShapesStep ==
  ASSUME IInv, [Next]_vars
  PROVE  Shapes'
<1> USE DEF local, net, ghost, IInv, Shapes
<1>1. CASE Begin
  <2>1. rd' \in AnyConn
    BY <1>1, Records DEF Begin
  <2> QED
    BY <1>1, <2>1 DEF Begin
<1>2. CASE BeginFails
  BY <1>2 DEF BeginFails
<1>3. CASE Try
  <2>1. rd' \in AnyConn
    BY <1>3, Records DEF Try
  <2> QED
    BY <1>3, <2>1, Sizes DEF Try
<1>4. CASE Accept
  BY <1>4, Taken DEF Accept
<1>5. CASE AcceptTimeout
  BY <1>5 DEF AcceptTimeout
<1>6. CASE PollReady
  BY <1>6 DEF PollReady, Written
<1>7. CASE PollOther
  BY <1>7 DEF PollOther
<1>8. CASE PollTimeout
  BY <1>8 DEF PollTimeout
<1>9. CASE IOError
  BY <1>9 DEF IOError
<1>10. CASE ReadSome
  BY <1>10, ReadOn DEF ReadSome
<1>11. CASE ReadEnd
  BY <1>11 DEF ReadEnd
<1>12. CASE LoopEnd
  BY <1>12 DEF LoopEnd, Count
<1>13. CASE Compare
  BY <1>13 DEF Compare
<1>14. CASE Close
  <2>1. rd' \in AnyConn
    BY <1>14, Records DEF Close
  <2> QED
    BY <1>14, <2>1, Marked DEF Close
<1>15. CASE Restart
  BY <1>15, Marked DEF Restart
<1>16. CASE Interrupt
  BY <1>16 DEF Interrupt
<1>17. CASE Arrive
  BY <1>17, Arrived DEF Arrive
<1>18. ASSUME NEW n \in 1 .. 2 * Bytes, Deliver(n) PROVE Shapes'
  <2>1. n \in Int
    BY Sizes
  <2> QED
    BY <1>18, <2>1, Delivered DEF Deliver
<1>19. CASE Lose
  <2>1. rd' \in AnyConn
    BY <1>19, Records DEF Lose
  <2> QED
    BY <1>19, <2>1 DEF Lose
<1>20. CASE UNCHANGED vars
  BY <1>20 DEF vars
<1> QED
  BY <1>1, <1>2, <1>3, <1>4, <1>5, <1>6, <1>7, <1>8, <1>9, <1>10, <1>11, <1>12,
     <1>13, <1>14, <1>15, <1>16, <1>17, <1>18, <1>19, <1>20
     DEF Next, Step, Fault

\* A test adds one connection, and its first accept takes one.
LEMMA WaitingStep ==
  ASSUME IInv, [Next]_vars
  PROVE  WaitingInv'
<1> USE DEF local, net, ghost, IInv, WaitingInv, Waiting
<1>0. Shapes /\ Len(queue) \in Nat /\ tries \in Nat
  BY Moves DEF Shapes
<1>1. CASE Begin
  BY <1>1, <1>0 DEF Begin
<1>2. CASE BeginFails
  BY <1>2, <1>0 DEF BeginFails
<1>3. CASE Try
  <2>1. /\ phase = "try" /\ phase' \in {"accept", "poll", "close"}
        /\ UNCHANGED <<tries, hit, queue>> /\ (own' = own \/ own' = "closed")
    BY <1>3 DEF Try
  <2>2. (phase' = "accept") \/ echo \/ LastTry
    BY <1>3 DEF Try
  <2> QED
    BY <1>0, <2>1, <2>2, Sizes DEF LastTry, QueueInv
<1>4. CASE Accept
  BY <1>4, <1>0, Taken DEF Accept
<1>5. CASE AcceptTimeout
  BY <1>5, <1>0 DEF AcceptTimeout
<1>6. CASE PollReady
  BY <1>6, <1>0 DEF PollReady
<1>7. CASE PollOther
  BY <1>7, <1>0 DEF PollOther
<1>8. CASE PollTimeout
  BY <1>8, <1>0 DEF PollTimeout
<1>9. CASE IOError
  BY <1>9, <1>0 DEF IOError
<1>10. CASE ReadSome
  BY <1>10, <1>0, ReadOn DEF ReadSome
<1>11. CASE ReadEnd
  BY <1>11, <1>0 DEF ReadEnd
<1>12. CASE LoopEnd
  BY <1>12, <1>0 DEF LoopEnd
<1>13. CASE Compare
  BY <1>13, <1>0 DEF Compare
<1>14. CASE Close
  BY <1>14, <1>0, Marked DEF Close
<1>15. CASE Restart
  BY <1>15, <1>0, Marked DEF Restart
<1>16. CASE Interrupt
  BY <1>16, <1>0 DEF Interrupt
<1>17. CASE Arrive
  BY <1>17, <1>0, Arrived DEF Arrive
<1>18. ASSUME NEW n \in 1 .. 2 * Bytes, Deliver(n) PROVE WaitingInv'
  <2>1. n \in Int
    BY Sizes
  <2>2. /\ Len(queue') = Len(queue) /\ rd'.mine = rd.mine /\ rd'.eof = rd.eof
        /\ \A k \in 1 .. Len(queue) :
             queue'[k].mine = queue[k].mine /\ queue'[k].eof = queue[k].eof
    BY <1>18, <1>0, <2>1, Delivered
  <2>3. UNCHANGED <<phase, local, own, ghost>>
    BY <1>18 DEF Deliver
  <2> QED
    BY <1>0, <2>2, <2>3
<1>19. CASE Lose
  BY <1>19, <1>0 DEF Lose
<1>20. CASE UNCHANGED vars
  BY <1>20, <1>0 DEF vars
<1> QED
  BY <1>1, <1>2, <1>3, <1>4, <1>5, <1>6, <1>7, <1>8, <1>9, <1>10, <1>11, <1>12,
     <1>13, <1>14, <1>15, <1>16, <1>17, <1>18, <1>19, <1>20
     DEF Next, Step, Fault

\* This test's connection stays the last of the queue, or is the one read from.
LEMMA QueueStep ==
  ASSUME IInv, [Next]_vars
  PROVE  QueueInv'
<1> USE DEF local, net, ghost, IInv, QueueInv, InTest
<1>0. Shapes /\ Len(queue) \in Nat
  BY Moves DEF Shapes
<1>1. CASE Begin
  BY <1>1, <1>0 DEF Begin, Conn, NoConn
<1>2. CASE BeginFails
  BY <1>2, <1>0 DEF BeginFails
<1>3. CASE Try
  BY <1>3, <1>0 DEF Try, Conn, NoConn
<1>4. CASE Accept
  <2>1. /\ phase = "accept" /\ phase' = "poll" /\ echo' = echo
        /\ own # "read" /\ ~echo
    BY <1>4 DEF Accept
  <2>2. /\ Len(queue) >= 1 /\ Len(queue') = Len(queue) - 1 /\ rd' = queue[1]
        /\ own' = (IF queue[1].mine THEN "read" ELSE own)
        /\ \A k \in 1 .. Len(queue') : queue'[k] = queue[k + 1]
    BY <1>4, <1>0, Taken
  <2>3. CASE queue[1].mine
    <3>1. Len(queue) = 1 /\ own = "queued"
      BY <1>0, <2>2, <2>3
    <3>2. own' = "read" /\ rd'.mine /\ Len(queue') = 0
      BY <2>2, <2>3, <3>1
    <3> QED
      BY <2>1, <3>2
  <2>4. CASE ~queue[1].mine
    <3>1. own' = own /\ ~rd'.mine
      BY <2>2, <2>4
    <3>2. own = "queued" => Len(queue') > 0 /\ queue'[Len(queue')].mine
      BY <1>0, <2>2, <2>4
    <3>3. ASSUME NEW k \in 1 .. Len(queue'), queue'[k].mine
          PROVE  own = "queued" /\ k = Len(queue') /\ ~queue'[k].eof
      <4>1. k + 1 \in 1 .. Len(queue) /\ queue[k + 1].mine
        BY <1>0, <2>2, <3>3
      <4> QED
        BY <1>0, <2>2, <4>1
    <3> QED
      BY <2>1, <3>1, <3>2, <3>3
  <2> QED
    BY <2>3, <2>4
<1>5. CASE AcceptTimeout
  BY <1>5, <1>0 DEF AcceptTimeout
<1>6. CASE PollReady
  BY <1>6, <1>0 DEF PollReady
<1>7. CASE PollOther
  BY <1>7, <1>0 DEF PollOther
<1>8. CASE PollTimeout
  BY <1>8, <1>0 DEF PollTimeout
<1>9. CASE IOError
  BY <1>9, <1>0 DEF IOError
<1>10. CASE ReadSome
  <2>1. rd'.mine = rd.mine
    BY <1>10, <1>0, ReadOn
  <2>2. phase = "read" /\ phase' \in {"loop", "read"}
    BY <1>10 DEF ReadSome
  <2>3. UNCHANGED <<net, echo>>
    BY <1>10 DEF ReadSome
  <2> QED
    BY <2>1, <2>2, <2>3
<1>11. CASE ReadEnd
  BY <1>11, <1>0 DEF ReadEnd
<1>12. CASE LoopEnd
  BY <1>12, <1>0 DEF LoopEnd
<1>13. CASE Compare
  BY <1>13, <1>0 DEF Compare
<1>14. CASE Close
  <2>1. Len(queue') = Len(queue) /\ \A k \in 1 .. Len(queue) : ~queue'[k].mine
    <3>1. ~Restart
      BY <1>14, Zenon DEF Close, Restart
    <3> QED
      BY <1>14, <1>0, <3>1, Marked
  <2>2. ~rd'.mine
    BY <1>14 DEF Close, NoConn, Conn
  <2> QED
    BY <1>14, <1>0, <2>1, <2>2 DEF Close
<1>15. CASE Restart
  <2>1. /\ Len(queue') = Len(queue)
        /\ \A k \in 1 .. Len(queue) : queue'[k].mine => queue[k].mine
    BY <1>15, <1>0, Marked
  <2>2. own # "queued"
    BY <1>15 DEF Restart
  <2> QED
    BY <1>15, <1>0, <2>1, <2>2 DEF Restart
<1>16. CASE Interrupt
  BY <1>16, <1>0 DEF Interrupt
<1>17. CASE Arrive
  <2>1. /\ own = "opening" /\ phase' = phase /\ rd' = rd /\ echo' = echo
        /\ own' = (IF phase \in {"down", "idle"} THEN "none" ELSE "queued")
    BY <1>17, Zenon DEF Arrive
  <2>2. /\ Len(queue') = Len(queue) + 1
        /\ queue'[Len(queue')].mine <=> phase \notin {"down", "idle"}
        /\ ~queue'[Len(queue')].eof
        /\ \A k \in 1 .. Len(queue) : queue'[k] = queue[k]
    BY <1>17, <1>0, Arrived
  <2>3. ASSUME NEW k \in 1 .. Len(queue'), queue'[k].mine
        PROVE  phase \notin {"down", "idle"} /\ k = Len(queue')
    BY <1>0, <2>1, <2>2, <2>3
  <2>4. ~echo /\ ~rd.mine /\ phase' = phase
    BY <2>1
  <2>5. CASE phase \in {"down", "idle"}
    BY <2>1, <2>3, <2>4, <2>5
  <2>6. CASE phase \notin {"down", "idle"}
    BY <1>0, <2>1, <2>2, <2>3, <2>4, <2>6
  <2> QED
    BY <2>5, <2>6
<1>18. ASSUME NEW n \in 1 .. 2 * Bytes, Deliver(n) PROVE QueueInv'
  <2>1. n \in Int
    BY Sizes
  <2>2. /\ Len(queue') = Len(queue) /\ rd'.mine = rd.mine /\ rd'.eof = rd.eof
        /\ \A k \in 1 .. Len(queue) :
             queue'[k].mine = queue[k].mine /\ queue'[k].eof = queue[k].eof
    BY <1>18, <1>0, <2>1, Delivered
  <2>3. UNCHANGED <<phase, local, own, ghost>>
    BY <1>18 DEF Deliver
  <2>4. ASSUME NEW k \in 1 .. Len(queue'), queue'[k].mine
        PROVE  own = "queued" /\ k = Len(queue') /\ ~queue'[k].eof
    BY <2>2, <2>4
  <2>5. own = "queued" => Len(queue') > 0 /\ queue'[Len(queue')].mine
    BY <1>0, <2>2
  <2> QED
    BY <2>2, <2>3, <2>4, <2>5
<1>19. CASE Lose
  <2>1. rd'.mine = rd.mine
    BY <1>19, <1>0, Fields DEF Lose, Shapes
  <2> QED
    BY <1>19, <2>1 DEF Lose
<1>20. CASE UNCHANGED vars
  BY <1>20, <1>0 DEF vars
<1> QED
  BY <1>1, <1>2, <1>3, <1>4, <1>5, <1>6, <1>7, <1>8, <1>9, <1>10, <1>11, <1>12,
     <1>13, <1>14, <1>15, <1>16, <1>17, <1>18, <1>19, <1>20
     DEF Next, Step, Fault

\* Without a fault a leftover costs one try, and a round ends in its second turn.
LEMMA SmoothStep ==
  ASSUME IInv, [Next]_vars
  PROVE  SmoothInv'
<1> USE DEF local, net, ghost, IInv, SmoothInv, InTest, InRound, Leftovers
<1>0. /\ Shapes /\ Len(queue) \in Nat /\ tries \in Nat /\ loops \in Nat
      /\ got \in Nat /\ rleft \in Nat
  BY Moves DEF Shapes
<1>1. CASE Begin
  <2>1. echo => ~rd'.eof /\ own' = "read" /\ Len(queue) = 0
    BY <1>1 DEF Begin, Conn, QueueInv
  <2>2. ~echo => own' = "opening"
    BY <1>1 DEF Begin
  <2>3. /\ phase' = "try" /\ tries' = 0 /\ got' = 0 /\ skew' = 0 /\ echo' = echo
        /\ queue' = queue /\ (smooth' => Len(queue) <= MAX_CONN_TRIES - 2)
    BY <1>1 DEF Begin
  <2> QED
    BY <1>0, <2>1, <2>2, <2>3, Sizes
<1>2. CASE BeginFails
  BY <1>2, <1>0 DEF BeginFails
<1>3. CASE Try
  <2>1. CASE LastTry
    BY <1>3, <2>1 DEF Try
  <2>2. CASE ~LastTry /\ echo
    <3>1. smooth => skew' = 0
      BY <1>3, <2>2, Sizes DEF Try
    <3>2. /\ phase = "try" /\ phase' = "poll" /\ loops' = 0 /\ got' = 0
          /\ rleft' = Bytes /\ rd' = rd /\ smooth' = smooth
      BY <1>3, <2>2 DEF Try
    <3>3. rd.mine
      BY <1>3, <2>2 DEF Try, QueueInv
    <3> QED
      BY <2>2, <3>1, <3>2, <3>3, Sizes
  <2>3. CASE ~LastTry /\ ~echo
    <3>1. /\ phase = "try" /\ phase' = "accept" /\ echo' = echo
          /\ smooth' = smooth /\ tries' = tries /\ queue' = queue
          /\ loops' = 0 /\ skew' = 0 /\ got' = 0 /\ rleft' = Bytes
          /\ smooth => own' = own
      BY <1>3, <2>3 DEF Try
    <3> QED
      BY <2>3, <3>1, Sizes
  <2> QED
    BY <2>1, <2>2, <2>3
<1>4. CASE Accept
  <2>1. /\ Len(queue) >= 1 /\ Len(queue') = Len(queue) - 1 /\ rd' = queue[1]
        /\ own' = (IF queue[1].mine THEN "read" ELSE own)
    BY <1>4, <1>0, Taken
  <2>2. /\ phase = "accept" /\ phase' = "poll" /\ smooth' = smooth /\ echo' = echo
        /\ UNCHANGED <<tries, loops, wleft, rleft, got, skew>>
    BY <1>4 DEF Accept
  <2>3. ~echo /\ (queue[1].mine => ~queue[1].eof)
    BY <1>0, <2>1, <2>2 DEF QueueInv
  <2>4. CASE queue[1].mine
    BY <2>1, <2>2, <2>3, <2>4
  <2>5. CASE ~queue[1].mine
    BY <1>0, <2>1, <2>2, <2>3, <2>5, Sizes
  <2> QED
    BY <2>4, <2>5
<1>5. CASE AcceptTimeout
  BY <1>5, <1>0 DEF AcceptTimeout
<1>6. CASE PollReady
  <2>1. /\ phase = "poll" /\ wleft' = 0 /\ phase' \in {"read", "loop"}
        /\ UNCHANGED <<tries, loops, rleft, got, skew, rd, queue, own, ghost>>
    BY <1>6 DEF PollReady, Written
  <2>2. phase' = "loop" => wleft > 0
    BY <1>6 DEF PollReady
  <2>3. smooth => (phase' = "loop" => loops = 0) /\ loops <= 1
    BY <1>0, <2>1, <2>2
  <2> QED
    BY <2>1, <2>3
<1>7. CASE PollOther
  BY <1>7, <1>0 DEF PollOther
<1>8. CASE PollTimeout
  <2>1. /\ phase = "poll" /\ phase' = "try" /\ smooth' = (smooth /\ ~rd.mine)
        /\ tries' = tries + 1 /\ UNCHANGED <<net, echo>>
    BY <1>8 DEF PollTimeout
  <2>2. ~rd.mine => ~echo
    BY <2>1 DEF QueueInv
  <2> QED
    BY <1>0, <2>1, <2>2, Sizes
<1>9. CASE IOError
  BY <1>9, <1>0 DEF IOError
<1>10. CASE ReadSome
  <2>1. /\ rd'.mine = rd.mine /\ rd'.eof = rd.eof /\ got' + rleft' = got + rleft
        /\ rleft' \in Nat /\ phase' = (IF rleft' = 0 THEN "loop" ELSE "read")
    BY <1>10, <1>0, ReadOn
  <2>2. phase = "read" /\ UNCHANGED <<tries, loops, wleft, rval, skew, net, ghost>>
    BY <1>10 DEF ReadSome
  <2> QED
    BY <1>0, <2>1, <2>2
<1>11. CASE ReadEnd
  <2>1. /\ phase = "read" /\ phase' = "loop" /\ rleft' = 0 /\ rd.eof
        /\ UNCHANGED <<tries, loops, wleft, got, skew, rd, net, ghost>>
    BY <1>11 DEF ReadEnd
  <2> QED
    BY <1>0, <2>1
<1>12. CASE LoopEnd
  <2>1. CASE phase' = "close"
    BY <1>12, <2>1 DEF LoopEnd
  <2>2. CASE phase' # "close"
    <3>1. /\ phase = "loop" /\ loops' = loops + 1
          /\ phase' = (IF rleft = 0 THEN "compare" ELSE "poll")
          /\ UNCHANGED <<tries, wleft, rleft, got, skew, rd, net, ghost>>
      BY <1>12, <2>2 DEF LoopEnd, Count
    <3> QED
      BY <1>0, <3>1
  <2> QED
    BY <2>1, <2>2
<1>13. CASE Compare
  <2>1. CASE Matches
    BY <1>13, <2>1 DEF Compare
  <2>2. CASE ~Matches
    <3>1. /\ phase = "compare" /\ phase' = "try" /\ tries' = tries + 1
          /\ UNCHANGED <<rleft, got, skew, rd, net, ghost>>
      BY <1>13, <2>2 DEF Compare
    <3>2. smooth => ~rd.mine
      BY <1>0, <2>2, <3>1, Sizes DEF Matches
    <3>3. ~rd.mine => ~echo
      BY <3>1 DEF QueueInv
    <3> QED
      BY <1>0, <3>1, <3>2, <3>3, Sizes
  <2> QED
    BY <2>1, <2>2
<1>14. CASE Close
  BY <1>14 DEF Close
<1>15. CASE Restart
  BY <1>15 DEF Restart
<1>16. CASE Interrupt
  BY <1>16, <1>0 DEF Interrupt
<1>17. CASE Arrive
  <2>1. Len(queue') = Len(queue) + 1
    BY <1>17, <1>0, Arrived
  <2>2. /\ own = "opening" /\ UNCHANGED <<phase, local, rd, ghost>>
        /\ phase \notin {"down", "idle"} => own' = "queued"
    BY <1>17, Zenon DEF Arrive
  <2> QED
    BY <1>0, <2>1, <2>2
<1>18. ASSUME NEW n \in 1 .. 2 * Bytes, Deliver(n) PROVE SmoothInv'
  <2>1. n \in Int
    BY Sizes
  <2>2. /\ Len(queue') = Len(queue) /\ rd'.mine = rd.mine /\ rd'.eof = rd.eof
        /\ \A k \in 1 .. Len(queue) :
             queue'[k].mine = queue[k].mine /\ queue'[k].eof = queue[k].eof
    BY <1>18, <1>0, <2>1, Delivered
  <2>3. UNCHANGED <<phase, local, own, ghost>>
    BY <1>18 DEF Deliver
  <2> QED
    BY <1>0, <2>2, <2>3
<1>19. CASE Lose
  BY <1>19 DEF Lose
<1>20. CASE UNCHANGED vars
  BY <1>20, <1>0 DEF vars
<1> QED
  BY <1>1, <1>2, <1>3, <1>4, <1>5, <1>6, <1>7, <1>8, <1>9, <1>10, <1>11, <1>12,
     <1>13, <1>14, <1>15, <1>16, <1>17, <1>18, <1>19, <1>20
     DEF Next, Step, Fault

\* A test without a fault reaches close only through a match.
LEMMA LiveStep ==
  ASSUME IInv, [Next]_vars
  PROVE  LiveTunnelPasses'
<1> USE DEF local, net, ghost, IInv, LiveTunnelPasses, SmoothInv, InTest,
            InRound, Leftovers
<1>0. /\ Shapes /\ Len(queue) \in Nat /\ tries \in Nat /\ loops \in Nat
      /\ got \in Nat /\ rleft \in Nat
  BY Moves DEF Shapes
<1>1. CASE Begin
  BY <1>1, <1>0 DEF Begin
<1>2. CASE BeginFails
  BY <1>2, <1>0 DEF BeginFails
<1>3. CASE Try
  <2>1. CASE LastTry
    <3>1. phase = "try" /\ UNCHANGED <<rval, smooth>>
      BY <1>3 DEF Try
    <3>2. ~smooth
      <4>1. CASE echo
        BY <1>0, <2>1, <3>1, <4>1, Sizes DEF LastTry
      <4>2. CASE ~echo
        <5>1. smooth => own # "queued" \/ Len(queue) > 0
          BY DEF QueueInv
        <5> QED
          BY <1>0, <2>1, <3>1, <4>2, <5>1, Sizes DEF LastTry
      <4> QED
        BY <4>1, <4>2
    <3> QED
      BY <3>1, <3>2
  <2>2. CASE ~LastTry
    BY <1>3, <2>2 DEF Try
  <2> QED
    BY <2>1, <2>2
<1>4. CASE Accept
  BY <1>4 DEF Accept
<1>5. CASE AcceptTimeout
  <2>1. /\ phase = "accept" /\ queue = <<>> /\ phase' = "close"
        /\ smooth' = (smooth /\ own # "opening")
    BY <1>5 DEF AcceptTimeout
  <2>2. ~echo /\ own # "queued"
    BY <2>1 DEF QueueInv
  <2> QED
    BY <2>1, <2>2
<1>6. CASE PollReady
  BY <1>6, <1>0 DEF PollReady
<1>7. CASE PollOther
  BY <1>7, <1>0 DEF PollOther
<1>8. CASE PollTimeout
  BY <1>8, <1>0 DEF PollTimeout
<1>9. CASE IOError
  BY <1>9, <1>0 DEF IOError
<1>10. CASE ReadSome
  BY <1>10 DEF ReadSome
<1>11. CASE ReadEnd
  BY <1>11, <1>0 DEF ReadEnd
<1>12. CASE LoopEnd
  <2>1. phase = "loop" /\ UNCHANGED <<rval, smooth>>
    BY <1>12 DEF LoopEnd
  <2>2. smooth => loops + 1 <= MaxLoops
    BY <1>0, <2>1, Sizes
  <2> QED
    BY <1>12, <1>0, <2>1, <2>2, Sizes DEF LoopEnd, Count
<1>13. CASE Compare
  BY <1>13 DEF Compare
<1>14. CASE Close
  BY <1>14 DEF Close
<1>15. CASE Restart
  BY <1>15 DEF Restart
<1>16. CASE Interrupt
  BY <1>16, <1>0 DEF Interrupt
<1>17. CASE Arrive
  BY <1>17 DEF Arrive
<1>18. ASSUME NEW n \in 1 .. 2 * Bytes, Deliver(n) PROVE LiveTunnelPasses'
  BY <1>18 DEF Deliver
<1>19. CASE Lose
  BY <1>19, <1>0 DEF Lose
<1>20. CASE UNCHANGED vars
  BY <1>20, <1>0 DEF vars
<1> QED
  BY <1>1, <1>2, <1>3, <1>4, <1>5, <1>6, <1>7, <1>8, <1>9, <1>10, <1>11, <1>12,
     <1>13, <1>14, <1>15, <1>16, <1>17, <1>18, <1>19, <1>20
     DEF Next, Step, Fault

-----------------------------------------------------------------------------
(***************************************************************************)
(* The theorems.                                                           *)
(***************************************************************************)

\* Before the first test the inductive invariant holds.
LEMMA InitInv == Init => IInv
<1> SUFFICES ASSUME Init PROVE IInv
  OBVIOUS
<1> USE Sizes DEF Init
<1>1. Shapes
  BY Records DEF Shapes
<1>2. QueueInv
  BY DEF QueueInv, InTest, NoConn, Conn
<1>3. WaitingInv /\ SmoothInv /\ LiveTunnelPasses
  BY DEF WaitingInv, Waiting, SmoothInv, InRound, LiveTunnelPasses
<1> QED
  BY <1>1, <1>2, <1>3 DEF IInv

\* The invariant of conn_test, over any number of tests in a row.
THEOREM Invariance == Spec => []IInv
<1>1. IInv /\ [Next]_vars => IInv'
  BY ShapesStep, QueueStep, WaitingStep, SmoothStep, LiveStep DEF IInv
<1> QED
  BY InitInv, <1>1, PTL DEF Spec

\* conn_test fails only if the tunnel or a signal gave it reason to, for any length
\* of the line, number of tries and backlog: each leftover connection costs one try,
\* and one is left for this test's own connection.
THEOREM TestIsFair == Spec => []LiveTunnelPasses
<1>1. IInv => LiveTunnelPasses
  BY DEF IInv
<1> QED
  BY Invariance, <1>1, PTL

\* Tests whose accepts are not disturbed leave at most one connection waiting,
\* however many run in a row.
THEOREM LeftoverBound == Spec => []OneLeftover
<1>1. IInv => OneLeftover
  BY DEF IInv, Shapes, WaitingInv, Waiting, OneLeftover
<1> QED
  BY Invariance, <1>1, PTL
=============================================================================
