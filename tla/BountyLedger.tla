---------------------------- MODULE BountyLedger ----------------------------
(***************************************************************************)
(* What the autonomous loop promises, without how it talks to the relay or *)
(* the database: an agent works on at most one bounty at a time, every     *)
(* bounty it takes is closed exactly once, as a win or as a loss, unless   *)
(* the agent halts first, and a win is recorded only for a bounty that has *)
(* been approved.                                                          *)
(***************************************************************************)
EXTENDS Naturals

CONSTANTS Agents, Bounties, NoBounty

VARIABLES
  work,      \* the bounty each agent is working on, or NoBounty
  taken,     \* bounties taken so far
  wins,      \* bounties closed as completed
  losses,    \* bounties closed as failed
  halted,    \* agents that take no more work
  approved   \* bounties approved by the relay

vars == <<work, taken, wins, losses, halted, approved>>

Init ==
  /\ work = [a \in Agents |-> NoBounty]
  /\ taken = [a \in Agents |-> 0]
  /\ wins = [a \in Agents |-> 0]
  /\ losses = [a \in Agents |-> 0]
  /\ halted = {}
  /\ approved = {}

Take(a, b) ==
  /\ a \notin halted
  /\ work[a] = NoBounty
  /\ work' = [work EXCEPT ![a] = b]
  /\ taken' = [taken EXCEPT ![a] = @ + 1]
  /\ UNCHANGED <<wins, losses, halted, approved>>

Win(a) ==
  /\ work[a] \in approved
  /\ work' = [work EXCEPT ![a] = NoBounty]
  /\ wins' = [wins EXCEPT ![a] = @ + 1]
  /\ UNCHANGED <<taken, losses, halted, approved>>

Lose(a) ==
  /\ work[a] # NoBounty
  /\ work' = [work EXCEPT ![a] = NoBounty]
  /\ losses' = [losses EXCEPT ![a] = @ + 1]
  /\ UNCHANGED <<taken, wins, halted, approved>>

\* A halting agent abandons its work without closing it.
Halt(a) ==
  /\ a \notin halted
  /\ halted' = halted \cup {a}
  /\ work' = [work EXCEPT ![a] = NoBounty]
  /\ UNCHANGED <<taken, wins, losses, approved>>

Approve(b) ==
  /\ approved' = approved \cup {b}
  /\ UNCHANGED <<work, taken, wins, losses, halted>>

Next ==
  \/ \E a \in Agents : Win(a) \/ Lose(a) \/ Halt(a)
  \/ \E a \in Agents, b \in Bounties : Take(a, b)
  \/ \E b \in Bounties : Approve(b)

Spec == Init /\ [][Next]_vars
=============================================================================
