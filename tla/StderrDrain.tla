----------------------------- MODULE StderrDrain ----------------------------
(***************************************************************************)
(* check_ssh_stderr of stderr_drain.rs as a function of the characters     *)
(* that ssh's stderr pipe holds: it reads up to STDERR_BUF_SZ - 1 of them, *)
(* makes a C string of them, and searches that string by itself for the    *)
(* two fatal messages, until one is found or the pipe is empty.            *)
(* Contents says which of module Supervisor's outputs such a pipe holds.   *)
(***************************************************************************)
EXTENDS Integers, Sequences

CONSTANTS STDERR_BUF_SZ,       \* 4096
          Needle               \* the message for each fatal output; fits the buffer

\* n begins at position j of h.
OccursAt(h, n, j) == j + Len(n) - 1 <= Len(h) /\ SubSeq(h, j, j + Len(n) - 1) = n
strstr(h, n) == \E j \in 1 .. Len(h) : OccursAt(h, n, j)

\* The k-th read, and the buffer up to the first NUL.  (Stale: buf[n] = 0 forgotten,
\* and the string runs on into what the last read left behind.)
ReadSize == STDERR_BUF_SZ - 1
Lower(a, b) == IF a < b THEN a ELSE b
nread(t, k) == SubSeq(t, (k - 1) * ReadSize + 1, Lower(k * ReadSize, Len(t)))
Reads(t) == 1 .. (Len(t) + ReadSize - 1) \div ReadSize

CString(b) ==
  LET nul == {j \in DOMAIN b : b[j] = "NUL"}
  IN  IF nul = {} THEN b
      ELSE SubSeq(b, 1, (CHOOSE j \in nul : \A l \in nul : j <= l) - 1)

BufStale(t, k) ==
  CString(nread(t, k) \o IF k = 1 THEN <<>>
                         ELSE SubSeq(nread(t, k - 1), Len(nread(t, k)) + 1, ReadSize))
Buf(t, k) == CString(nread(t, k))

\* What check_ssh_stderr finds; "fwd" is looked for first.
Hits(t) == {k \in Reads(t) : \E m \in DOMAIN Needle : strstr(Buf(t, k), Needle[m])}
Drain(t) ==
  IF Hits(t) = {} THEN "none"
  ELSE LET k == CHOOSE j \in Hits(t) : \A l \in Hits(t) : j <= l
       IN  IF strstr(Buf(t, k), Needle["fwd"]) THEN "fwd" ELSE "stuck"

-----------------------------------------------------------------------------
\* The outputs t is made of: the messages in it, and "text" if it holds anything
\* besides them.
Contents(t) ==
  {m \in DOMAIN Needle : strstr(t, Needle[m])} \cup
  {x \in {"text"} : \E j \in DOMAIN t : \A m \in DOMAIN Needle : \A l \in 1 .. j :
                      OccursAt(t, Needle[m], l) => j >= l + Len(Needle[m])}
=============================================================================
