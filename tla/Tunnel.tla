------------------------------- MODULE Tunnel -------------------------------
(***************************************************************************)
(* What autossh promises about the ssh processes it starts, whatever       *)
(* signals, failures and delays it meets: one at a time, each start is     *)
(* counted and within the limit, none is decided on after an exit request, *)
(* and an orderly exit leaves no ssh behind except one it could not kill.  *)
(* Supervisor implements this; see Supervisor!TunnelKept.                  *)
(***************************************************************************)
EXTENDS Integers

CONSTANTS max_start,   \* how many starts are allowed; negative: no limit
          StartCap,    \* where the count of starts saturates
          MaxOrphans   \* how many processes may be given up

VARIABLES phase,       \* "idle", "armed", "committed", "exited" or "cut"
          ssh,         \* the current ssh: "none", "live" or "dead"
          starts,      \* starts counted so far
          orphans,     \* processes given up: still alive
          unreaped,    \* ... and ended, but not waited for
          asked        \* an exit request has been seen

tunnel == <<phase, ssh, starts, orphans, unreaped, asked>>

Init == /\ phase = "idle" /\ ssh = "none" /\ starts = 0
        /\ orphans = 0 /\ unreaped = 0 /\ ~asked

\* A start is counted ...
Begin ==
  /\ phase = "idle" /\ ssh = "none"
  /\ max_start < 0 \/ starts < max_start
  /\ phase' = "armed"
  /\ starts' = IF starts = StartCap THEN StartCap ELSE starts + 1
  /\ UNCHANGED <<ssh, orphans, unreaped, asked>>

\* ... and, after any delay, decided on, unless an exit was requested meanwhile.
Commit ==
  /\ phase = "armed" /\ ~asked
  /\ phase' = "committed"
  /\ UNCHANGED <<ssh, starts, orphans, unreaped, asked>>

\* The process comes into being, or not.
Start ==
  /\ phase = "committed" /\ phase' = "idle"
  /\ ssh' \in {"live", "none"}
  /\ UNCHANGED <<starts, orphans, unreaped, asked>>

\* It ends, by itself or killed; its end is noticed; or it is given up, because it
\* cannot be killed or its end came too late to be noticed.
Die ==
  /\ ssh = "live" /\ ssh' = "dead"
  /\ phase = "idle"
  /\ UNCHANGED <<phase, starts, orphans, unreaped, asked>>

Reap ==
  /\ ssh = "dead" /\ ssh' = "none"
  /\ phase = "idle"
  /\ UNCHANGED <<phase, starts, orphans, unreaped, asked>>

Abandon ==
  /\ phase = "idle" /\ orphans + unreaped < MaxOrphans
  /\ \/ ssh = "live" /\ orphans' = orphans + 1 /\ UNCHANGED unreaped
     \/ ssh = "dead" /\ unreaped' = unreaped + 1 /\ UNCHANGED orphans
  /\ ssh' = "none"
  /\ UNCHANGED <<phase, starts, asked>>

OrphanEnds ==
  /\ orphans > 0 /\ orphans' = orphans - 1 /\ unreaped' = unreaped + 1
  /\ phase \notin {"exited", "cut"}
  /\ UNCHANGED <<phase, ssh, starts, asked>>

Ask ==
  /\ phase \notin {"exited", "cut"}
  /\ asked' = TRUE
  /\ UNCHANGED <<phase, ssh, starts, orphans, unreaped>>

\* An orderly exit, and one cut short by a signal.
Exit ==
  /\ phase \in {"idle", "armed"} /\ ssh = "none"
  /\ phase' = "exited"
  /\ UNCHANGED <<ssh, starts, orphans, unreaped, asked>>

Cut ==
  /\ phase \notin {"exited", "cut"}
  /\ phase' = "cut"
  /\ UNCHANGED <<ssh, starts, orphans, unreaped, asked>>

Next == Begin \/ Commit \/ Start \/ Die \/ Reap \/ Abandon \/ OrphanEnds \/ Ask
        \/ Exit \/ Cut

Spec == Init /\ [][Next]_tunnel
=============================================================================
