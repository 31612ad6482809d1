------------------------------ MODULE Registry ------------------------------
(* What the scoreboard promises to sessions: a register in which each live    *)
(* session has at most one slot, its own until it leaves or ends, and from    *)
(* which only slots that nobody sits in are reclaimed.  There are no locks    *)
(* and no file here: Scoreboard shows how scoreboard.c keeps the promise.     *)
EXTENDS Naturals

CONSTANTS Pids, NoPid, Slots

VARIABLES slots,    \* the PID written in each slot
          seat,     \* the slot of each session, or 0
          alive     \* the sessions there are
vars == <<slots, seat, alive>>

Init ==
  /\ slots = [s \in Slots |-> NoPid]
  /\ seat = [p \in Pids |-> 0]
  /\ alive = {}

\* A session starts, without a slot; its PID may still be in an old one.
Start(p) ==
  /\ p \notin alive
  /\ alive' = alive \cup {p}
  /\ UNCHANGED <<slots, seat>>

\* It takes a slot that is free.
Take(p, s) ==
  /\ p \in alive /\ seat[p] = 0 /\ slots[s] = NoPid
  /\ slots' = [slots EXCEPT ![s] = p]
  /\ seat' = [seat EXCEPT ![p] = s]
  /\ UNCHANGED alive

\* It clears its own slot.
Leave(p) ==
  /\ p \in alive /\ seat[p] \in Slots /\ slots[seat[p]] = p
  /\ slots' = [slots EXCEPT ![seat[p]] = NoPid]
  /\ seat' = [seat EXCEPT ![p] = 0]
  /\ UNCHANGED alive

\* It ends, and what it wrote stays.
End(p) ==
  /\ p \in alive
  /\ alive' = alive \ {p}
  /\ seat' = [seat EXCEPT ![p] = 0]
  /\ UNCHANGED slots

\* A slot that no session sits in is cleared.
Reclaim(s) ==
  /\ \A p \in Pids : seat[p] # s
  /\ slots' = [slots EXCEPT ![s] = NoPid]
  /\ UNCHANGED <<seat, alive>>

Next ==
  \/ \E p \in Pids : Start(p) \/ Leave(p) \/ End(p)
  \/ \E p \in Pids, s \in Slots : Take(p, s)
  \/ \E s \in Slots : Reclaim(s)

Spec == Init /\ [][Next]_vars
=============================================================================
