--------------------------- MODULE BountySelection ---------------------------
(***************************************************************************)
(* How an autonomous agent chooses what to claim (agent/autonomous.rs, the *)
(* Idle arm of run): it assesses the discovered bounties one by one with   *)
(* assess_bounty_fit and keeps one to claim.  The score of a bounty        *)
(* depends on what became of the agent's earlier claims, so the choice and *)
(* its history are modelled together.                                      *)
(*                                                                         *)
(* Scores are in hundredths.  f64 arithmetic is exact here but for results *)
(* that lie within an ulp of a rounding boundary.                          *)
(***************************************************************************)
EXTENDS Naturals, Sequences

CONSTANTS
  Bounties,     \* ids of bounties
  NoBounty,     \* the absence of a bounty
  CapScores,    \* capability matches, in hundredths
  Rewards,      \* values of reward_tokens
  MinFit,       \* config.min_fit_score, in hundredths
  QueryMayFail, \* whether the count of the agent's rows may fail
  MaxListed,    \* bound: bounties in a discovery ("limit": 10 in the code)
  MaxClaims     \* bound: rows of bounty_claims

Scale == 100

ASSUME SelectionAssumption ==
  /\ NoBounty \notin Bounties
  /\ CapScores \subseteq 0 .. Scale
  /\ Rewards \subseteq Nat
  /\ MinFit \in 0 .. Scale
  /\ QueryMayFail \in BOOLEAN
  /\ MaxListed \in Nat /\ MaxClaims \in Nat

VARIABLES
  pc,         \* "idle", "assessing" or "working"
  listed,     \* discovered bounties still to assess
  seen,       \* history variable: those assessed, with their scores
  best,       \* best_bounty of the loop
  open,       \* rows of bounty_claims of each bounty that are not approved
  total,      \* COUNT(*) of the agent's rows
  completed   \* COUNT(*) of those that are 'approved'

vars == <<pc, listed, seen, best, open, total, completed>>

\* What the relay says of a bounty; runnable: it has no test_command or the
\* harness has a shell.
Offer == [id : Bounties, cap : CapScores, reward : Rewards,
          runnable : BOOLEAN]

\* best_bounty: Option<(id, fit_score, reward)>.
Scored == [id : Bounties, fit : 0 .. Scale, reward : Rewards]
NoChoice == [id |-> NoBounty, fit |-> 0, reward |-> 0]

(***************************************************************************)
(* assess_bounty_fit.                                                      *)
(***************************************************************************)

\* n / d rounded to a whole number, halves up.
Round(n, d) == (2 * n + d) \div (2 * d)

\* The denominator of the completion rate; an agent without rows has a rate
\* of 1 over 1.
Rows == IF total = 0 THEN 1 ELSE total

\* (0.3 + 0.7 * completion_rate).min(1.0), times Scale * Rows.
Performance ==
  LET p == IF total = 0 THEN Scale ELSE 30 * total + 70 * completed
  IN IF p > Scale * Rows THEN Scale * Rows ELSE p

\* A failed count is taken for a rate of 1.
Performances ==
  {Performance} \cup (IF QueryMayFail THEN {Scale * Rows} ELSE {})

\* Mutant of Fit: a poor record lowers a score to min_fit_score at worst.
FitForgiving(offer, perf) ==
  LET spared == IF perf < MinFit * Rows THEN MinFit * Rows ELSE perf
      mult == IF offer.runnable THEN 100 ELSE 40
  IN Round(offer.cap * spared * mult, Scale * Scale * Rows)

\* The agent says it has no task in progress, so capacity is always full.
Fit(offer, perf) ==
  LET mult == IF offer.runnable THEN 100 ELSE 40
  IN Round(offer.cap * perf * mult, Scale * Scale * Rows)

(***************************************************************************)
(* The loop.                                                               *)
(***************************************************************************)
Init ==
  /\ pc = "idle"
  /\ listed = <<>>
  /\ seen = {}
  /\ best = NoChoice
  /\ open = [b \in Bounties |-> 0]
  /\ total = 0
  /\ completed = 0

Discover ==
  /\ pc = "idle"
  /\ \E n \in 1 .. MaxListed : \E offers \in [1 .. n -> Offer] :
       /\ \A i, j \in 1 .. n : i # j => offers[i].id # offers[j].id
       /\ listed' = offers
  /\ pc' = "assessing"
  /\ seen' = {}
  /\ best' = NoChoice
  /\ UNCHANGED <<open, total, completed>>

Value(s) == s.fit * s.reward

\* Mutant of Better: whatever comes later wins.
LaterIsBetter(s) == s.fit >= MinFit

\* s replaces the choice so far.  The code compares the value of s with the
\* reward of the choice, not with its value.
Better(s) ==
  /\ s.fit >= MinFit
  /\ best = NoChoice \/ Value(s) > Scale * best.reward

Assess ==
  /\ pc = "assessing"
  /\ listed # <<>>
  /\ \E perf \in Performances :
       LET offer == Head(listed)
           s == [id |-> offer.id, fit |-> Fit(offer, perf),
                 reward |-> offer.reward]
       IN /\ seen' = seen \cup {s}
          /\ best' = IF Better(s) THEN s ELSE best
  /\ listed' = Tail(listed)
  /\ UNCHANGED <<pc, open, total, completed>>

NothingFits ==
  /\ pc = "assessing"
  /\ listed = <<>>
  /\ best = NoChoice
  /\ pc' = "idle"
  /\ UNCHANGED <<listed, seen, best, open, total, completed>>

Claim ==
  /\ pc = "assessing"
  /\ listed = <<>>
  /\ best # NoChoice
  /\ total < MaxClaims
  /\ pc' = "working"
  /\ open' = [open EXCEPT ![best.id] = @ + 1]
  /\ total' = total + 1
  /\ UNCHANGED <<listed, seen, best, completed>>

ClaimRefused ==
  /\ pc = "assessing"
  /\ listed = <<>>
  /\ best # NoChoice
  /\ pc' = "idle"
  /\ UNCHANGED <<listed, seen, best, open, total, completed>>

\* The UPDATE that approves a claim takes every row of the bounty and agent.
Approved ==
  /\ pc = "working"
  /\ pc' = "idle"
  /\ completed' = completed + open[best.id]
  /\ open' = [open EXCEPT ![best.id] = 0]
  /\ UNCHANGED <<listed, seen, best, total>>

\* Rejected, given up or timed out: the row stays and counts in the total.
NotApproved ==
  /\ pc = "working"
  /\ pc' = "idle"
  /\ UNCHANGED <<listed, seen, best, open, total, completed>>

Next ==
  \/ Discover \/ Assess \/ NothingFits \/ Claim \/ ClaimRefused
  \/ Approved \/ NotApproved

Spec == Init /\ [][Next]_vars

(***************************************************************************)
(* Properties.                                                             *)
(***************************************************************************)

\* Type invariant: the shape of every variable, and scores within 0 and 1.
TypeOK ==
  /\ pc \in {"idle", "assessing", "working"}
  /\ listed \in Seq(Offer)
  /\ seen \subseteq Scored
  /\ best \in Scored \cup {NoChoice}
  /\ open \in [Bounties -> Nat]
  /\ total \in Nat
  /\ completed \in Nat

\* The choice of the loop fits, and although a comparison of a value with a
\* reward may pass over the best bounty, the choice is worth at least
\* min_fit_score times any bounty that fits.
ChoiceIsWorth ==
  /\ best # NoChoice => best \in seen /\ best.fit >= MinFit
  /\ \A s \in seen :
       s.fit >= MinFit =>
         /\ best # NoChoice
         /\ MinFit * Value(s) <= Scale * Value(best)

\* No bounty, whatever it asks for, can reach min_fit_score.
LockedOut == Round(Performance, Rows) < MinFit

\* An agent whose record is so poor that nothing fits stays so once its last
\* claim has ended: it claims nothing more, hence gets nothing approved, and
\* no step of its own raises its completion rate again.  (When the count of
\* its rows does not fail: a failure would look like a perfect record.)
OutForGood ==
  [][LockedOut /\ pc # "working" => LockedOut' /\ pc' # "working"]_vars

(***************************************************************************)
(* What a test of the code says, and the run doc_best_value refutes.       *)
(***************************************************************************)

\* best_bounty_selects_highest_value: no bounty that fits is worth more than
\* the one the loop chose.
ChoiceIsBest ==
  \A s \in seen : s.fit >= MinFit => Value(s) <= Value(best)
=============================================================================
