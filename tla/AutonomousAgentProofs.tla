-------------------------- MODULE AutonomousAgentProofs ----------------------
(****************************************************************************)
(* The inductive invariant of AutonomousAgent and what follows from it, for *)
(* every set of agents and bounties and every value of the limits.  The     *)
(* actions are opened once, in Footprint and in IterateKeepsOwn; the other  *)
(* proofs use only what those two lemmas say.  Then the deeper theorems:    *)
(* approvals are real and final, the daily limit survives restarts, a bounty*)
(* has one worker, an approval is counted once, and the loop implements     *)
(* BountyLedger.                                                            *)
(****************************************************************************)
EXTENDS AutonomousAgent, TLAPS, FiniteSetTheorems

\* What one step of run() may write, variable by variable.
RelayStep(a) ==
  \/ UNCHANGED relayVars
  \/ pc[a] = "claiming" /\ RelayGrants(a, pick[a])
  \/ /\ pc[a] = "submitting"
     /\ \E s \in {"submitted", "approved"} : RelayTakes(a, loop[a].bounty, s)

RowsStep(a) ==
  \/ UNCHANGED rows
  \/ /\ pc[a] = "recording"
     /\ rows' = [rows EXCEPT ![a][pick[a]] = Append(@, "claimed")]
  \/ /\ pc[a] = "submitted"
     /\ rows' = [rows EXCEPT ![a][loop[a].bounty] = SubmitRows(@)]
  \/ /\ pc[a] \in {"submitted", "verdict"}
     /\ reply[a].status \in Resolved
     /\ rows' = [rows EXCEPT
                   ![a][loop[a].bounty] = AllRows(@, reply[a].status)]

ReplyStep(a) ==
  \/ UNCHANGED reply
  \/ reply' = [reply EXCEPT ![a] = NewBounty]
  \/ \E s \in Resolved : reply' = [reply EXCEPT ![a].status = s]
  \/ /\ pc[a] = "submitting"
     /\ reply' = [reply EXCEPT ![a] = relay'[loop[a].bounty]]
  \/ /\ loop[a].state = "awaiting"
     /\ reply' = [reply EXCEPT ![a] = relay[loop[a].bounty]]

LocalsStep(a) ==
  /\ \/ UNCHANGED loop
     \/ \E s \in LoopStates, b \in Bounties \cup {NoBounty} : SetLoop(a, s, b)
  /\ \E x \in PCs \ {"down"}, y \in PCs : Goto(a, x, y)
  /\ \/ UNCHANGED pick
     \/ \E b \in Bounties \cup {NoBounty} : pick' = [pick EXCEPT ![a] = b]
  /\ \/ UNCHANGED paid
     \/ \E p \in BOOLEAN : paid' = [paid EXCEPT ![a] = p]
  /\ \/ UNCHANGED dailyClaims
     \/ \E n \in Nat : dailyClaims' = [dailyClaims EXCEPT ![a] = n]
  /\ UNCHANGED dateStale \/ dateStale' = [dateStale EXCEPT ![a] = FALSE]
  /\ \/ UNCHANGED timer
     \/ \E t \in {"off", "running"} : timer' = [timer EXCEPT ![a] = t]

SharedStep(a) ==
  /\ cache' \in {cache, OpenAtRelay}
  /\ UNCHANGED dailyDb \/ dailyDb' = Bump(dailyDb, a)
  /\ \/ UNCHANGED agentStatus
     \/ \E s \in AgentStatus : agentStatus' = [agentStatus EXCEPT ![a] = s]
  /\ UNCHANGED claimed \/ claimed' = Bump(claimed, a)
  /\ UNCHANGED completed \/ completed' = Bump(completed, a)
  /\ UNCHANGED failed \/ failed' = Bump(failed, a)
  /\ UNCHANGED earned \/ earned' = Bump(earned, a)
  /\ UNCHANGED <<days, stopPhase, restarts, supervised>>
  /\ UNCHANGED stopSignal \/ stopSignal' = [stopSignal EXCEPT ![a] = FALSE]

\* Every step of run() stays within its footprint.
LEMMA Footprint ==
  ASSUME NEW a \in Agents, Iterate(a), TypeOK
  PROVE  RelayStep(a) /\ RowsStep(a) /\ ReplyStep(a) /\ LocalsStep(a)
         /\ SharedStep(a)
<1>. USE DEF Iterate, StopSignalled, StoppedInDb, Wake, AtDailyLimit,
     DiscoverNothing, Select, ClaimGranted, ClaimConflict, ClaimLost,
     BackToIdle, RecordClaim, RecordClaimFails, FlagWorking, CountClaim,
     StartWork, Execute, SubmitAccepted, SubmitRefused, SubmitLost,
     AwaitVerification, RecordSubmission, RecordAutoApproval,
     VerificationTimeout, GiveUp, CheckLocal, CheckRelay, CheckLost,
     SettleVerdict, StartRework, TooManyRevisions, StillPending,
     ConcludeApproved, ConcludeRejected, LeaveAssessing, LeaveStopping, Exit,
     Restart, EndIteration
<1>1. RelayStep(a)
  BY DEF RelayStep, Goto
<1>2. RowsStep(a)
  BY DEF RowsStep, Goto, Resolved, dbVars
<1>3. ReplyStep(a)
  BY DEF ReplyStep, DropLocals, Goto, iterVars
<1>4. LocalsStep(a)
  <2>1. \/ UNCHANGED loop
        \/ \E s \in LoopStates, b \in Bounties \cup {NoBounty} :
             SetLoop(a, s, b)
    BY DEF TypeOK, TaskTypeOK, Loop, LoopStates
  <2>2. \E x \in PCs \ {"down"}, y \in PCs : Goto(a, x, y)
    BY DEF PCs
  <2>3. \/ UNCHANGED pick
        \/ \E b \in Bounties \cup {NoBounty} : pick' = [pick EXCEPT ![a] = b]
    BY DEF DropLocals, iterVars
  <2>4. \/ UNCHANGED paid
        \/ \E p \in BOOLEAN : paid' = [paid EXCEPT ![a] = p]
    BY DEF DropLocals, iterVars
  <2>5. \/ UNCHANGED dailyClaims
        \/ \E n \in Nat : dailyClaims' = [dailyClaims EXCEPT ![a] = n]
    BY DEF TypeOK, TaskTypeOK, DbTypeOK, Bump, clockVars
  <2>6. UNCHANGED dateStale \/ dateStale' = [dateStale EXCEPT ![a] = FALSE]
    BY DEF clockVars
  <2>7. \/ UNCHANGED timer
        \/ \E t \in {"off", "running"} : timer' = [timer EXCEPT ![a] = t]
    BY DEF StartTimer, TypeOK, TaskTypeOK
  <2>. QED
    BY ONLY <2>1, <2>2, <2>3, <2>4, <2>5, <2>6, <2>7 DEF LocalsStep
<1>5. SharedStep(a)
  <2>1. cache' \in {cache, OpenAtRelay}
    OBVIOUS
  <2>2. /\ UNCHANGED dailyDb \/ dailyDb' = Bump(dailyDb, a)
        /\ \/ UNCHANGED agentStatus
           \/ \E s \in AgentStatus :
                agentStatus' = [agentStatus EXCEPT ![a] = s]
    BY DEF dbVars, AgentStatus
  <2>3. /\ UNCHANGED claimed \/ claimed' = Bump(claimed, a)
        /\ UNCHANGED completed \/ completed' = Bump(completed, a)
        /\ UNCHANGED failed \/ failed' = Bump(failed, a)
        /\ UNCHANGED earned \/ earned' = Bump(earned, a)
    BY DEF teleVars
  <2>4. /\ UNCHANGED <<days, stopPhase, restarts, supervised>>
        /\ \/ UNCHANGED stopSignal
           \/ stopSignal' = [stopSignal EXCEPT ![a] = FALSE]
    BY DEF clockVars, superVars
  <2>. QED
    BY ONLY <2>1, <2>2, <2>3, <2>4 DEF SharedStep
<1>. QED
  BY <1>1, <1>2, <1>3, <1>4, <1>5

\* The three updates of bounty_claims yield well-formed rows again.
LEMMA RowUpdates ==
  ASSUME NEW s \in Seq(RowStatus)
  PROVE  /\ Append(s, "claimed") \in Seq(RowStatus)
         /\ SubmitRows(s) \in Seq(RowStatus)
         /\ \A r \in RowStatus : AllRows(s, r) \in Seq(RowStatus)
<1>1. PICK n \in Nat : s \in [1 .. n -> RowStatus]
  OBVIOUS
<1>2. DOMAIN s = 1 .. n
  BY <1>1
<1>3. [1 .. n -> RowStatus] \subseteq Seq(RowStatus)
  OBVIOUS
<1>4. SubmitRows(s) \in [1 .. n -> RowStatus]
  BY <1>1, <1>2 DEF SubmitRows, RowStatus
<1>5. ASSUME NEW r \in RowStatus PROVE AllRows(s, r) \in [1 .. n -> RowStatus]
  BY <1>2, <1>5 DEF AllRows
<1>6. Append(s, "claimed") \in Seq(RowStatus)
  BY DEF RowStatus
<1>. QED
  BY <1>3, <1>4, <1>5, <1>6

\* A granted claim or a stored submission leaves well-formed relay records.
LEMMA RelayTypes ==
  ASSUME NEW a \in Agents, RelayTypeOK, RelayStep(a)
  PROVE  relay' \in [Bounties -> RelayRecord] /\ reopens' = reopens
BY ConstantsAssumption
DEF RelayTypeOK, RelayStep, RelayGrants, RelayTakes, relayVars, RelayRecord,
    RelayStatus

\* Whatever an iteration writes to bounty_claims is well formed.
LEMMA RowsTypes ==
  ASSUME NEW a \in Agents, DbTypeOK, RowsStep(a)
  PROVE  rows' \in [Agents -> [Bounties -> Seq(RowStatus)]]
<1>1. ASSUME NEW b, NEW s, b \in Bounties => s \in Seq(RowStatus),
             rows' = [rows EXCEPT ![a][b] = s]
      PROVE  rows' \in [Agents -> [Bounties -> Seq(RowStatus)]]
  BY <1>1 DEF DbTypeOK
<1>2. \A b \in Bounties : rows[a][b] \in Seq(RowStatus)
  BY DEF DbTypeOK
<1>3. CASE UNCHANGED rows
  BY <1>3 DEF DbTypeOK
<1>4. CASE rows' = [rows EXCEPT ![a][pick[a]] = Append(@, "claimed")]
  BY <1>1, <1>2, <1>4, RowUpdates
<1>5. CASE rows' = [rows EXCEPT ![a][loop[a].bounty] = SubmitRows(@)]
  BY <1>1, <1>2, <1>5, RowUpdates
<1>6. CASE /\ reply[a].status \in Resolved
           /\ rows' = [rows EXCEPT
                   ![a][loop[a].bounty] = AllRows(@, reply[a].status)]
  <2>1. reply[a].status \in RowStatus
    BY <1>6 DEF Resolved, RowStatus
  <2>. QED
    BY <1>1, <1>2, <1>6, <2>1, RowUpdates
<1>. QED
  BY <1>3, <1>4, <1>5, <1>6 DEF RowsStep

\* An answer an agent holds is a relay record: it is asked for only while the
\* state carries a bounty.
LEMMA ReplyTypes ==
  ASSUME NEW a \in Agents, TypeOK, PhaseOK, RelayStep(a), ReplyStep(a)
  PROVE  reply' \in [Agents -> RelayRecord]
<1>1. /\ relay \in [Bounties -> RelayRecord]
      /\ relay' \in [Bounties -> RelayRecord]
  BY RelayTypes DEF TypeOK, RelayTypeOK
<1>2. pc[a] = "submitting" \/ loop[a].state = "awaiting"
        => loop[a].bounty \in Bounties
  BY DEF PhaseOK, Phase, Busy, BusyStates
<1>3. NewBounty \in RelayRecord
  BY ConstantsAssumption DEF NewBounty, RelayRecord, RelayStatus
<1>4. \A s \in Resolved : [reply[a] EXCEPT !.status = s] \in RelayRecord
  BY DEF TypeOK, TaskTypeOK, Resolved, RelayRecord, RelayStatus
<1>5. \/ UNCHANGED reply
      \/ \E r \in RelayRecord : reply' = [reply EXCEPT ![a] = r]
  BY <1>1, <1>2, <1>3, <1>4 DEF ReplyStep
<1>. QED
  BY <1>5 DEF TypeOK, TaskTypeOK

\* An iteration leaves the task's own variables in their types.
LEMMA LocalsTypes ==
  ASSUME NEW a \in Agents, TaskTypeOK, LocalsStep(a),
         reply' \in [Agents -> RelayRecord]
  PROVE  TaskTypeOK'
<1>. USE DEF TaskTypeOK, LocalsStep
<1>1. loop' \in [Agents -> Loop]
  <2>1. CASE UNCHANGED loop
    BY <2>1
  <2>2. ASSUME NEW s \in LoopStates, NEW b \in Bounties \cup {NoBounty},
               SetLoop(a, s, b)
        PROVE  loop' \in [Agents -> Loop]
    BY <2>2 DEF SetLoop, Loop
  <2>. QED
    BY <2>1, <2>2
<1>2. pc' \in [Agents -> PCs]
  BY DEF Goto
<1>3. pick' \in [Agents -> Bounties \cup {NoBounty}]
  OBVIOUS
<1>4. paid' \in [Agents -> BOOLEAN]
  BY Zenon
<1>5. dailyClaims' \in [Agents -> Nat]
  OBVIOUS
<1>6. dateStale' \in [Agents -> BOOLEAN]
  OBVIOUS
<1>7. timer' \in [Agents -> {"off", "running", "expired"}]
  OBVIOUS
<1>. QED
  BY <1>1, <1>2, <1>3, <1>4, <1>5, <1>6, <1>7

\* An iteration leaves the cache, the tables, the telemetry and the supervisor
\* in their types.
LEMMA SharedTypes ==
  ASSUME NEW a \in Agents, TypeOK, SharedStep(a)
  PROVE  /\ cache' \subseteq Bounties /\ days' \in 0 .. MaxDays
         /\ dailyDb' \in [Agents -> Nat]
         /\ agentStatus' \in [Agents -> AgentStatus]
         /\ TelemetryTypeOK'
         /\ SupervisorTypeOK'
<1>1. cache' \subseteq Bounties /\ days' \in 0 .. MaxDays
  BY DEF TypeOK, RelayTypeOK, SharedStep, OpenAtRelay
<1>2. dailyDb \in [Agents -> Nat] /\ agentStatus \in [Agents -> AgentStatus]
  BY DEF TypeOK, DbTypeOK
<1>3. dailyDb' \in [Agents -> Nat]
  BY <1>2 DEF SharedStep, Bump
<1>4. agentStatus' \in [Agents -> AgentStatus]
  BY <1>2 DEF SharedStep
<1>5. TelemetryTypeOK'
  BY DEF TypeOK, TelemetryTypeOK, SharedStep, Bump
<1>6. SupervisorTypeOK'
  BY DEF TypeOK, SupervisorTypeOK, SharedStep
<1>. QED
  BY <1>1, <1>3, <1>4, <1>5, <1>6

\* A step of run() preserves the types; it needs the phases, because a reply is
\* read from the record of the bounty in the state.
LEMMA IterateTypes ==
  ASSUME NEW a \in Agents, TypeOK, PhaseOK, Iterate(a)
  PROVE  TypeOK'
<1>1. RelayStep(a) /\ RowsStep(a) /\ ReplyStep(a) /\ LocalsStep(a)
      /\ SharedStep(a)
  BY Footprint
<1>2. RelayTypeOK'
  BY <1>1, RelayTypes, SharedTypes DEF TypeOK, RelayTypeOK
<1>3. DbTypeOK'
  BY <1>1, RowsTypes, SharedTypes DEF TypeOK, DbTypeOK
<1>4. TaskTypeOK'
  BY <1>1, ReplyTypes, LocalsTypes DEF TypeOK
<1>. QED
  BY <1>1, <1>2, <1>3, <1>4, SharedTypes DEF TypeOK

\* Outside awaiting (and the exit) the verification clock is off.
TimerFits(a) ==
  loop[a].state \notin {"awaiting", "stopping"} => timer[a] = "off"

\* Only an agent that is down has used up its restarts.
RestartsFit(a) == restarts[a] > MaxRestarts => pc[a] = "down"

\* The invariant of the loop of agent a.
OwnInv(a) == Phase(a) /\ Balanced(a) /\ TimerFits(a)

\* With that of its supervisor.
AgentInv(a) == OwnInv(a) /\ RestartsFit(a)

\* The inductive invariant.
Inv == TypeOK /\ \A a \in Agents : AgentInv(a)

\* A step of run() keeps the phases, the balance and the clock of its agent.
LEMMA IterateKeepsOwn ==
  ASSUME NEW a \in Agents, TypeOK, AgentInv(a), Iterate(a)
  PROVE  OwnInv(a)'
<1>. USE ConstantsAssumption
     DEF AgentInv, OwnInv, Phase, Balanced, TimerFits, TypeOK, TaskTypeOK,
         TelemetryTypeOK, Loop, Busy, BusyStates, LoopStates, SetLoop, Goto,
         DropLocals, EndIteration, iterVars, clockVars, teleVars, Resolved,
         RelayRecord, PCs, ClaimPCs, Bump
<1>1. ASSUME StopSignalled(a) PROVE OwnInv(a)'
  BY <1>1 DEF StopSignalled
<1>2. ASSUME StoppedInDb(a) PROVE OwnInv(a)'
  BY <1>2 DEF StoppedInDb
<1>3. ASSUME Wake(a) PROVE OwnInv(a)'
  BY <1>3 DEF Wake
<1>4. ASSUME AtDailyLimit(a) PROVE OwnInv(a)'
  BY <1>4 DEF AtDailyLimit
<1>5. ASSUME DiscoverNothing(a) PROVE OwnInv(a)'
  BY <1>5 DEF DiscoverNothing
<1>6. ASSUME NEW b \in Bounties, Select(a, b) PROVE OwnInv(a)'
  BY <1>6 DEF Select
<1>7. ASSUME ClaimGranted(a) PROVE OwnInv(a)'
  BY <1>7 DEF ClaimGranted
<1>8. ASSUME ClaimConflict(a) PROVE OwnInv(a)'
  BY <1>8 DEF ClaimConflict, BackToIdle
<1>9. ASSUME ClaimLost(a) PROVE OwnInv(a)'
  BY <1>9 DEF ClaimLost, BackToIdle
<1>10. ASSUME RecordClaim(a) PROVE OwnInv(a)'
  BY <1>10 DEF RecordClaim
<1>11. ASSUME RecordClaimFails(a) PROVE OwnInv(a)'
  BY <1>11 DEF RecordClaimFails, BackToIdle
<1>12. ASSUME FlagWorking(a) PROVE OwnInv(a)'
  BY <1>12 DEF FlagWorking
<1>13. ASSUME CountClaim(a) PROVE OwnInv(a)'
  BY <1>13 DEF CountClaim
<1>14. ASSUME StartWork(a) PROVE OwnInv(a)'
  BY <1>14 DEF StartWork
<1>15. ASSUME Execute(a) PROVE OwnInv(a)'
  BY <1>15 DEF Execute
<1>16. ASSUME SubmitAccepted(a) PROVE OwnInv(a)'
  BY <1>16 DEF SubmitAccepted
<1>17. ASSUME SubmitRefused(a) PROVE OwnInv(a)'
  BY <1>17 DEF SubmitRefused, AwaitVerification
<1>18. ASSUME SubmitLost(a) PROVE OwnInv(a)'
  BY <1>18 DEF SubmitLost, AwaitVerification
<1>19. ASSUME RecordSubmission(a) PROVE OwnInv(a)'
  BY <1>19 DEF RecordSubmission
<1>20. ASSUME RecordAutoApproval(a) PROVE OwnInv(a)'
  BY <1>20 DEF RecordAutoApproval
<1>21. ASSUME VerificationTimeout(a) PROVE OwnInv(a)'
  BY <1>21 DEF VerificationTimeout, GiveUp
<1>22. ASSUME CheckLocal(a) PROVE OwnInv(a)'
  BY <1>22 DEF CheckLocal, StartTimer
<1>23. ASSUME CheckRelay(a) PROVE OwnInv(a)'
  BY <1>23 DEF CheckRelay, StartTimer
<1>24. ASSUME CheckLost(a) PROVE OwnInv(a)'
  BY <1>24 DEF CheckLost, StartTimer
<1>25. ASSUME SettleVerdict(a) PROVE OwnInv(a)'
  BY <1>25 DEF SettleVerdict
<1>26. ASSUME StartRework(a) PROVE OwnInv(a)'
  BY <1>26 DEF StartRework
<1>27. ASSUME TooManyRevisions(a) PROVE OwnInv(a)'
  BY <1>27 DEF TooManyRevisions, GiveUp
<1>28. ASSUME StillPending(a) PROVE OwnInv(a)'
  BY <1>28 DEF StillPending
<1>29. ASSUME ConcludeApproved(a) PROVE OwnInv(a)'
  BY <1>29 DEF ConcludeApproved
<1>30. ASSUME ConcludeRejected(a) PROVE OwnInv(a)'
  BY <1>30 DEF ConcludeRejected, GiveUp
<1>31. ASSUME LeaveAssessing(a) PROVE OwnInv(a)'
  BY <1>31 DEF LeaveAssessing, BackToIdle
<1>32. ASSUME LeaveStopping(a) PROVE OwnInv(a)'
  BY <1>32 DEF LeaveStopping
<1>33. ASSUME Exit(a) PROVE OwnInv(a)'
  BY <1>33 DEF Exit
<1>34. ASSUME Restart(a) PROVE OwnInv(a)'
  BY <1>34 DEF Restart
<1>. QED
  BY <1>1, <1>2, <1>3, <1>4, <1>5, <1>6, <1>7, <1>8, <1>9, <1>10, <1>11,
     <1>12, <1>13, <1>14, <1>15, <1>16, <1>17, <1>18, <1>19, <1>20, <1>21,
     <1>22, <1>23, <1>24, <1>25, <1>26, <1>27, <1>28, <1>29, <1>30, <1>31,
     <1>32, <1>33, <1>34 DEF Iterate

\* A step of run() leaves the other agents alone.
LEMMA IterateFrame ==
  ASSUME NEW a \in Agents, NEW c \in Agents, c # a, TypeOK, Iterate(a)
  PROVE  /\ loop'[c] = loop[c] /\ pc'[c] = pc[c] /\ pick'[c] = pick[c]
         /\ reply'[c] = reply[c] /\ timer'[c] = timer[c]
         /\ claimed'[c] = claimed[c] /\ completed'[c] = completed[c]
         /\ failed'[c] = failed[c]
         /\ dailyDb'[c] = dailyDb[c] /\ dailyClaims'[c] = dailyClaims[c]
         /\ dateStale'[c] = dateStale[c]
         /\ restarts'[c] = restarts[c]
<1>. USE Footprint DEF TypeOK
<1>1. loop'[c] = loop[c] /\ pc'[c] = pc[c] /\ pick'[c] = pick[c]
  BY DEF TaskTypeOK, LocalsStep, SetLoop, Goto
<1>2. reply'[c] = reply[c]
  BY DEF TaskTypeOK, ReplyStep
<1>3. /\ timer'[c] = timer[c] /\ dailyClaims'[c] = dailyClaims[c]
      /\ dateStale'[c] = dateStale[c]
  BY DEF TaskTypeOK, LocalsStep
<1>4. /\ claimed'[c] = claimed[c] /\ completed'[c] = completed[c]
      /\ failed'[c] = failed[c]
  BY DEF TelemetryTypeOK, SharedStep, Bump
<1>5. dailyDb'[c] = dailyDb[c] /\ restarts'[c] = restarts[c]
  BY DEF DbTypeOK, SharedStep, Bump
<1>. QED
  BY <1>1, <1>2, <1>3, <1>4, <1>5

\* A step of any agent preserves the invariant.
LEMMA IterateKeepsInv ==
  ASSUME NEW a \in Agents, Inv, Iterate(a)
  PROVE  Inv'
<1>1. TypeOK'
  BY IterateTypes DEF Inv, AgentInv, OwnInv, PhaseOK
<1>2. ASSUME NEW c \in Agents PROVE AgentInv(c)'
  <2>1. CASE c = a
    <3>1. RestartsFit(a)'
      BY Footprint
      DEF Inv, AgentInv, RestartsFit, TypeOK, TaskTypeOK, SupervisorTypeOK,
          LocalsStep, SharedStep, Goto
    <3>. QED
      BY <2>1, <3>1, IterateKeepsOwn DEF Inv, AgentInv
  <2>2. CASE c # a
    BY <2>2, IterateFrame
    DEF Inv, AgentInv, OwnInv, Phase, Balanced, TimerFits, RestartsFit, Busy
  <2>. QED
    BY <2>1, <2>2
<1>. QED
  BY <1>1, <1>2 DEF Inv

\* The relay changes a record to a record.
LEMMA VerdictTypes ==
  ASSUME NEW b \in Bounties, RelayTypeOK, RelayVerdict(b) \/ RelayReopens(b)
  PROVE  relay' \in [Bounties -> RelayRecord] /\ reopens' \in 0 .. MaxReopens
<1>. USE ConstantsAssumption DEF RelayTypeOK, RelayRecord, RelayStatus
<1>1. CASE RelayReopens(b)
  BY <1>1 DEF RelayReopens, NewBounty
<1>2. CASE RelayVerdict(b)
  <2>1. ASSUME NEW s \in Resolved, relay' = [relay EXCEPT ![b].status = s]
        PROVE  relay' \in [Bounties -> RelayRecord]
    BY <2>1 DEF Resolved
  <2>2. ASSUME NEW f \in BOOLEAN, NEW n \in 0 .. MaxRevisions + 1,
               relay' = [relay EXCEPT ![b].status = "claimed",
                           ![b].revisions = n, ![b].feedback = f]
        PROVE  relay' \in [Bounties -> RelayRecord]
    <3>1. [relay[b] EXCEPT !.status = "claimed", !.revisions = n,
                           !.feedback = f] \in RelayRecord
      OBVIOUS
    <3>. QED BY <2>2, <3>1
  <2>3. CASE \E s \in Resolved : relay' = [relay EXCEPT ![b].status = s]
    BY <1>2, <2>1, <2>3 DEF RelayVerdict
  <2>4. ASSUME NEW f \in BOOLEAN, RelayRevision(b, f)
        PROVE  relay' \in [Bounties -> RelayRecord]
    <3>. DEFINE n == relay[b].revisions
    <3>1. (IF n > MaxRevisions THEN n ELSE n + 1) \in 0 .. MaxRevisions + 1
      OBVIOUS
    <3>. QED
      BY <2>2, <2>4, <3>1 DEF RelayRevision
  <2>. QED
    BY <1>2, <2>3, <2>4 DEF RelayVerdict
<1>. QED
  BY <1>1, <1>2

\* Panics, timers, stop requests, the relay, the sync and midnight preserve the
\* invariant.
LEMMA EnvironmentKeepsInv ==
  ASSUME Inv, Environment
  PROVE  Inv'
<1>. USE ConstantsAssumption DEF Inv, TypeOK
<1>1. ASSUME NEW a \in Agents, Panic(a) PROVE Inv'
  <2>. USE <1>1 DEF Panic, relayVars, clockVars, teleVars
  <2>1. RelayTypeOK' /\ TelemetryTypeOK'
    BY DEF RelayTypeOK, TelemetryTypeOK
  <2>2. DbTypeOK'
    BY DEF DbTypeOK, AgentStatus
  <2>3. TaskTypeOK'
    BY DEF TaskTypeOK, DropLocals, PCs, NewBounty, RelayRecord, RelayStatus
  <2>4. SupervisorTypeOK'
    BY DEF SupervisorTypeOK, Bump, AgentInv, RestartsFit
  <2>5. \A c \in Agents : AgentInv(c)'
    BY
    DEF AgentInv, OwnInv, Phase, Balanced, TimerFits, RestartsFit, Busy,
        TaskTypeOK, SupervisorTypeOK, DropLocals,
           ClaimPCs, PCs, Bump
  <2>. QED
    BY <2>1, <2>2, <2>3, <2>4, <2>5
<1>2. ASSUME NEW a \in Agents, TimerExpires(a) PROVE Inv'
  <2>. USE <1>2 DEF TimerExpires, relayVars, dbVars, iterVars, clockVars,
      teleVars, superVars
  <2>1. TaskTypeOK'
    BY DEF TaskTypeOK
  <2>2. \A c \in Agents : AgentInv(c)'
    BY
    DEF AgentInv, OwnInv, Phase, Balanced, TimerFits, RestartsFit, Busy,
        TaskTypeOK
  <2>. QED
    BY <2>1, <2>2 DEF RelayTypeOK, DbTypeOK, TelemetryTypeOK, SupervisorTypeOK
<1>3. ASSUME NEW a \in Agents, StopRequest(a) \/ StopFinish(a) \/ StopByTool(a)
      PROVE  Inv'
  <2>. USE <1>3 DEF StopRequest, StopFinish, StopByTool, relayVars, dbVars,
      taskVars, iterVars, clockVars, teleVars, superVars
  <2>1. RelayTypeOK' /\ TelemetryTypeOK'
    BY DEF RelayTypeOK, TelemetryTypeOK
  <2>2. DbTypeOK'
    BY DEF DbTypeOK, AgentStatus
  <2>3. TaskTypeOK'
    BY DEF TaskTypeOK, PCs
  <2>4. SupervisorTypeOK'
    BY DEF SupervisorTypeOK
  <2>5. \A c \in Agents : AgentInv(c)'
    BY
    DEF AgentInv, OwnInv, Phase, Balanced, TimerFits, RestartsFit, Busy,
        TaskTypeOK, ClaimPCs
  <2>. QED
    BY <2>1, <2>2, <2>3, <2>4, <2>5
<1>4. ASSUME NEW b \in Bounties, RelayVerdict(b) \/ RelayReopens(b)
      PROVE  Inv'
  <2>. USE <1>4 DEF RelayVerdict, RelayReopens, dbVars, taskVars, iterVars,
      clockVars, teleVars, superVars
  <2>1. RelayTypeOK'
    BY VerdictTypes DEF RelayTypeOK
  <2>2. \A c \in Agents : AgentInv(c)'
    BY DEF AgentInv, OwnInv, Phase, Balanced, TimerFits, RestartsFit, Busy
  <2>. QED
    BY <2>1, <2>2 DEF TaskTypeOK, DbTypeOK, TelemetryTypeOK, SupervisorTypeOK
<1>5. CASE SyncCache \/ Midnight
  <2>. USE <1>5 DEF SyncCache, Midnight, relayVars, dbVars, taskVars,
      iterVars, teleVars, superVars
  <2>1. RelayTypeOK'
    BY DEF RelayTypeOK, OpenAtRelay
  <2>2. DbTypeOK'
    BY DEF DbTypeOK
  <2>3. TaskTypeOK'
    BY DEF TaskTypeOK
  <2>4. \A c \in Agents : AgentInv(c)'
    BY DEF AgentInv, OwnInv, Phase, Balanced, TimerFits, RestartsFit, Busy
  <2>. QED
    BY <2>1, <2>2, <2>3, <2>4 DEF TelemetryTypeOK, SupervisorTypeOK
<1>. QED
  BY <1>1, <1>2, <1>3, <1>4, <1>5 DEF Environment

\* A freshly deployed fleet satisfies the invariant.
LEMMA InitInv == Init => Inv
<1>. SUFFICES ASSUME Init PROVE Inv
  OBVIOUS
<1>. USE ConstantsAssumption DEF Init
<1>1. RelayTypeOK
  BY DEF RelayTypeOK, NewBounty, RelayRecord, RelayStatus
<1>2. DbTypeOK
  BY DEF DbTypeOK, AgentStatus
<1>3. TaskTypeOK
  BY
  DEF TaskTypeOK, Loop, LoopStates, IdleLoop, PCs, NewBounty, RelayRecord,
      RelayStatus
<1>4. TelemetryTypeOK /\ SupervisorTypeOK
  BY DEF TelemetryTypeOK, SupervisorTypeOK
<1>5. \A a \in Agents : AgentInv(a)
  BY
  DEF AgentInv, OwnInv, Phase, Balanced, TimerFits, RestartsFit, Busy,
      BusyStates, IdleLoop, ClaimPCs
<1>. QED
  BY <1>1, <1>2, <1>3, <1>4, <1>5 DEF Inv, TypeOK

\* A step that changes nothing preserves it.
LEMMA StutterInv == Inv /\ UNCHANGED vars => Inv'
BY DEF Inv, TypeOK, RelayTypeOK, DbTypeOK, TaskTypeOK, TelemetryTypeOK,
       SupervisorTypeOK, AgentInv, OwnInv, Phase, Balanced, TimerFits,
       RestartsFit, Busy, vars,
       relayVars, dbVars, taskVars, iterVars, teleVars, superVars

\* The inductive invariant of the loop: types, and per agent the phases of
\* run(), the telemetry balance, the verification clock and the restart budget.
THEOREM Invariance == Spec => []Inv
<1>1. Inv /\ [Next]_vars => Inv'
  BY IterateKeepsInv, EnvironmentKeepsInv, StutterInv DEF Next
<1>. QED
  BY <1>1, InitInv, PTL DEF Spec

\* Every variable stays in its type.
THEOREM TypeCorrect == Spec => []TypeOK
<1>1. Inv => TypeOK
  BY DEF Inv
<1>. QED
  BY <1>1, Invariance, PTL

\* self.state and the point that run() has reached never disagree, whatever
\* await a panic hits.
THEOREM PhasesAgree == Spec => []PhaseOK
<1>1. Inv => PhaseOK
  BY DEF Inv, AgentInv, OwnInv, PhaseOK
<1>. QED
  BY <1>1, Invariance, PTL

\* The telemetry of run() adds up: each claimed bounty is counted exactly once
\* as completed or failed, or is the one in the state.
THEOREM ClaimsAddUp == Spec => []ClaimAccounting
<1>1. Inv => ClaimAccounting
  BY DEF Inv, AgentInv, OwnInv, ClaimAccounting
<1>. QED
  BY <1>1, Invariance, PTL

\* verification_started_at never carries over to the next bounty.
THEOREM TimerIsFresh == Spec => []FreshTimer
<1>1. Inv => FreshTimer
  BY DEF Inv, AgentInv, OwnInv, TimerFits, FreshTimer
<1>. QED
  BY <1>1, Invariance, PTL

(***************************************************************************)
(* Approvals.                                                              *)
(***************************************************************************)

\* The relay approved b.
Approved(b) == relay[b].status = "approved"

\* An approval an agent has read, and not yet acted upon, still holds.
ReplyIsReal(a) ==
  pc[a] \in {"submitted", "verdict", "concluding"} =>
    (reply[a].status = "approved" => Approved(loop[a].bounty))

\* Rows and replies in flight agree with the relay.
ApprovalInv == LocalApprovalIsReal /\ \A a \in Agents : ReplyIsReal(a)

\* The relay never takes an approval back.
LEMMA ApprovalStays ==
  ASSUME TypeOK, [Next]_vars, NEW b \in Bounties, Approved(b)
  PROVE  Approved(b)'
<1>. USE DEF Approved, TypeOK, RelayTypeOK
<1>1. ASSUME NEW a \in Agents, Iterate(a) PROVE Approved(b)'
  <2>1. RelayStep(a)
    BY <1>1, Footprint
  <2>. QED
    BY <2>1 DEF RelayStep, RelayGrants, RelayTakes, AcceptsWork, relayVars
<1>2. CASE Environment
  BY <1>2
  DEF Environment, Panic, TimerExpires, StopRequest, StopFinish, StopByTool,
      RelayVerdict, RelayRevision, RelayReopens, SyncCache, Midnight,
      relayVars
<1>3. CASE UNCHANGED vars
  BY <1>3 DEF vars, relayVars
<1>. QED
  BY <1>1, <1>2, <1>3 DEF Next

\* The five steps after which an agent holds an answer it will act upon.
LEMMA AnswerSteps ==
  ASSUME NEW a \in Agents, TypeOK, Iterate(a),
         pc'[a] \in {"submitted", "verdict", "concluding"}
  PROVE  \/ SubmitAccepted(a) \/ CheckRelay(a) \/ CheckLocal(a)
         \/ RecordAutoApproval(a) \/ SettleVerdict(a)
BY
DEF TypeOK, TaskTypeOK, Goto, EndIteration, Iterate, StopSignalled,
    StoppedInDb, Wake, AtDailyLimit,
     DiscoverNothing, Select, ClaimGranted, ClaimConflict, ClaimLost,
     RecordClaim, RecordClaimFails, FlagWorking, CountClaim,
     StartWork, Execute, SubmitRefused, SubmitLost, RecordSubmission,
     VerificationTimeout, CheckLost, StartRework, TooManyRevisions,
     StillPending,
     ConcludeApproved, ConcludeRejected, LeaveAssessing, LeaveStopping, Exit,
     Restart

\* An approval that an agent has just read holds at the relay.
LEMMA IterateReplies ==
  ASSUME NEW a \in Agents, Inv, ApprovalInv, Iterate(a)
  PROVE  ReplyIsReal(a)'
<1>. SUFFICES ASSUME pc'[a] \in {"submitted", "verdict", "concluding"},
                     reply'[a].status = "approved"
              PROVE  (relay[loop[a].bounty].status = "approved")'
  BY DEF ReplyIsReal, Approved
<1>. USE DEF Inv, TypeOK, TaskTypeOK
<1>1. CASE SubmitAccepted(a)
  BY <1>1 DEF SubmitAccepted
<1>2. CASE CheckRelay(a)
  BY <1>2 DEF CheckRelay, relayVars
<1>3. CASE CheckLocal(a)
  <2>1. /\ LatestRow(a, loop[a].bounty) = "approved"
        /\ loop[a].bounty \in Bounties
    BY <1>3
    DEF CheckLocal, AgentInv, OwnInv, Phase, Busy, BusyStates, RelayRecord
  <2>2. \E i \in DOMAIN rows[a][loop[a].bounty] :
           rows[a][loop[a].bounty][i] = "approved"
    BY <2>1 DEF LatestRow, DbTypeOK
  <2>. QED
    BY <1>3, <2>1, <2>2
    DEF CheckLocal, ApprovalInv, LocalApprovalIsReal, relayVars
<1>4. CASE RecordAutoApproval(a) \/ SettleVerdict(a)
  BY <1>4
  DEF RecordAutoApproval, SettleVerdict, Goto, ApprovalInv, ReplyIsReal,
      Approved, relayVars, iterVars
<1>. QED
  BY <1>1, <1>2, <1>3, <1>4, AnswerSteps

\* A step of run() writes approved only for approved bounties.
LEMMA IterateRows ==
  ASSUME NEW a \in Agents, Inv, ApprovalInv, Iterate(a)
  PROVE  LocalApprovalIsReal'
<1>. SUFFICES ASSUME NEW c \in Agents, NEW b \in Bounties,
                     NEW i \in DOMAIN rows'[c][b],
                     rows'[c][b][i] = "approved"
              PROVE  Approved(b)'
  BY DEF LocalApprovalIsReal, Approved
<1>1. SUFFICES Approved(b)
  BY ApprovalStays DEF Inv, Next
<1>2. rows \in [Agents -> [Bounties -> Seq(RowStatus)]]
  BY DEF Inv, TypeOK, DbTypeOK
<1>3. ASSUME i \in DOMAIN rows[c][b], rows[c][b][i] = "approved"
      PROVE  Approved(b)
  BY <1>3 DEF ApprovalInv, LocalApprovalIsReal, Approved
<1>4. CASE UNCHANGED rows
  BY <1>3, <1>4
<1>5. CASE rows' = [rows EXCEPT ![a][pick[a]] = Append(@, "claimed")]
  <2>1. CASE c = a /\ b = pick[a]
    BY <1>2, <1>3, <1>5, <2>1
  <2>. QED
    BY <1>2, <1>3, <1>5, <2>1
<1>6. CASE rows' = [rows EXCEPT ![a][loop[a].bounty] = SubmitRows(@)]
  <2>1. CASE c = a /\ b = loop[a].bounty
    BY <1>2, <1>3, <1>6, <2>1 DEF SubmitRows
  <2>. QED
    BY <1>2, <1>3, <1>6, <2>1
<1>7. CASE /\ pc[a] \in {"submitted", "verdict"}
           /\ rows' = [rows EXCEPT
                   ![a][loop[a].bounty] = AllRows(@, reply[a].status)]
  <2>1. CASE c = a /\ b = loop[a].bounty
    <3>1. reply[a].status = "approved"
      BY <1>2, <1>7, <2>1 DEF AllRows
    <3>. QED
      BY <1>7, <2>1, <3>1 DEF ApprovalInv, ReplyIsReal
  <2>. QED
    BY <1>2, <1>3, <1>7, <2>1
<1>. QED
  BY <1>4, <1>5, <1>6, <1>7, Footprint DEF RowsStep, Inv

\* What the environment leaves alone.
LEMMA EnvironmentFrame ==
  ASSUME TypeOK, Environment
  PROVE  /\ UNCHANGED <<loop, rows, teleVars>>
         /\ \A c \in Agents :
              \/ pc'[c] = pc[c] /\ reply'[c] = reply[c] /\ pick'[c] = pick[c]
              \/ pc'[c] \in {"backoff", "down"}
<1>1. UNCHANGED <<loop, rows, teleVars>>
  BY
  DEF Environment, Panic, TimerExpires, StopRequest, StopFinish, StopByTool,
         RelayVerdict, RelayReopens, SyncCache, Midnight, dbVars, taskVars
<1>2. ASSUME NEW c \in Agents
      PROVE  \/ pc'[c] = pc[c] /\ reply'[c] = reply[c] /\ pick'[c] = pick[c]
             \/ pc'[c] \in {"backoff", "down"}
  <2>. USE DEF TypeOK, TaskTypeOK
  <2>1. ASSUME NEW a \in Agents, Panic(a)
        PROVE  \/ pc'[c] = pc[c] /\ reply'[c] = reply[c] /\ pick'[c] = pick[c]
               \/ pc'[c] \in {"backoff", "down"}
    BY <2>1 DEF Panic, DropLocals
  <2>2. CASE \A a \in Agents : ~Panic(a)
    BY <2>2
    DEF Environment, TimerExpires, StopRequest, StopFinish, StopByTool,
        RelayVerdict, RelayReopens, SyncCache, Midnight, taskVars, iterVars
  <2>. QED
    BY <2>1, <2>2
<1>. QED
  BY <1>1, <1>2

\* Every step preserves the truth of recorded and of pending approvals.
LEMMA ApprovalStep ==
  ASSUME Inv, ApprovalInv, [Next]_vars
  PROVE  ApprovalInv'
<1>1. ASSUME NEW c \in Agents, loop'[c] = loop[c],
             \/ pc'[c] = pc[c] /\ reply'[c] = reply[c]
             \/ pc'[c] \in {"backoff", "down"}
      PROVE  ReplyIsReal(c)'
  <2>. SUFFICES ASSUME pc[c] \in {"submitted", "verdict", "concluding"},
                       reply[c].status = "approved", pc'[c] = pc[c]
                PROVE  relay'[loop[c].bounty].status = "approved"
    BY <1>1 DEF ReplyIsReal, Approved
  <2>1. loop[c].bounty \in Bounties
    BY DEF Inv, AgentInv, OwnInv, Phase, Busy, BusyStates
  <2>2. relay[loop[c].bounty].status = "approved"
    BY DEF ApprovalInv, ReplyIsReal, Approved
  <2>. QED
    BY <2>1, <2>2, ApprovalStays DEF Inv, Approved
<1>2. ASSUME NEW a \in Agents, Iterate(a) PROVE ApprovalInv'
  <2>1. ASSUME NEW c \in Agents, c # a PROVE ReplyIsReal(c)'
    BY <1>1, <1>2, <2>1, IterateFrame DEF Inv
  <2>. QED
    BY <1>2, <2>1, IterateReplies, IterateRows DEF ApprovalInv
<1>3. ASSUME UNCHANGED rows PROVE LocalApprovalIsReal'
  BY <1>3, ApprovalStays DEF ApprovalInv, LocalApprovalIsReal, Inv, Approved
<1>4. CASE Environment
  <2>1. \A c \in Agents : ReplyIsReal(c)'
    BY <1>1, <1>4, EnvironmentFrame DEF Inv
  <2>. QED
    BY <1>3, <1>4, <2>1, EnvironmentFrame DEF Inv, ApprovalInv
<1>5. CASE UNCHANGED vars
  BY <1>1, <1>3, <1>5 DEF vars, dbVars, taskVars, iterVars, ApprovalInv
<1>. QED
  BY <1>2, <1>4, <1>5 DEF Next

\* bounty_claims says approved only for a bounty the relay has approved, so the
\* local short cut of check_bounty_status can be believed.
THEOREM ApprovalsAreReal == Spec => []LocalApprovalIsReal
<1>1. Init => ApprovalInv
  BY DEF Init, ApprovalInv, LocalApprovalIsReal, ReplyIsReal
<1>2. Inv /\ ApprovalInv /\ [Next]_vars => ApprovalInv'
  BY ApprovalStep
<1>3. ApprovalInv => LocalApprovalIsReal
  BY DEF ApprovalInv
<1>. QED
  BY <1>1, <1>2, <1>3, Invariance, PTL DEF Spec

(***************************************************************************)
(* Rows.                                                                   *)
(***************************************************************************)

\* A rejection an agent is about to record overturns no approval of its own:
\* it was read when the relay, and so none of the agent's rows, said approved.
OverturnsNothing(a) ==
  pc[a] \in {"submitted", "verdict"} /\ reply[a].status = "rejected" =>
    \A i \in DOMAIN rows[a][loop[a].bounty] :
      rows[a][loop[a].bounty][i] # "approved"

NoOverturn == \A a \in Agents : OverturnsNothing(a)

\* A step leaves nothing to be overturned.
LEMMA NoOverturnStep ==
  ASSUME Inv, ApprovalInv, NoOverturn, [Next]_vars
  PROVE  NoOverturn'
<1>1. ASSUME NEW c \in Agents, loop'[c] = loop[c], rows'[c] = rows[c],
             \/ pc'[c] = pc[c] /\ reply'[c] = reply[c]
             \/ pc'[c] \in {"backoff", "down"}
      PROVE  OverturnsNothing(c)'
  BY <1>1 DEF NoOverturn, OverturnsNothing
<1>2. ASSUME NEW a \in Agents, Iterate(a) PROVE NoOverturn'
  <2>1. ASSUME NEW c \in Agents, c # a PROVE OverturnsNothing(c)'
    <3>1. rows'[c] = rows[c]
      BY <1>2, <2>1, Footprint DEF RowsStep, Inv, TypeOK, DbTypeOK
    <3>. QED
      BY <1>1, <1>2, <2>1, <3>1, IterateFrame DEF Inv
  <2>2. OverturnsNothing(a)'
    <3>. SUFFICES ASSUME pc'[a] \in {"submitted", "verdict"},
                         reply'[a].status = "rejected"
                  PROVE  \A i \in DOMAIN rows'[a][loop'[a].bounty] :
                           rows'[a][loop'[a].bounty][i] # "approved"
      BY DEF OverturnsNothing
    <3>. USE DEF Inv, TypeOK, TaskTypeOK
    <3>1. ~(RecordAutoApproval(a) \/ SettleVerdict(a) \/ CheckLocal(a))
      BY DEF RecordAutoApproval, SettleVerdict, CheckLocal, Goto
    <3>2. ~SubmitAccepted(a)
      <4>. SUFFICES ASSUME SubmitAccepted(a) PROVE FALSE
        OBVIOUS
      <4>1. reply'[a] = relay'[loop[a].bounty]
        BY DEF SubmitAccepted
      <4>2. relay'[loop[a].bounty].status \in {"submitted", "approved"}
        BY DEF SubmitAccepted, Goto, RelayTakes, RelayTypeOK, RelayRecord,
               AgentInv, OwnInv, Phase, Busy, BusyStates
      <4>. QED
        BY <4>1, <4>2
    <3>3. CheckRelay(a)
      BY <1>2, <3>1, <3>2, AnswerSteps
    <3>4. /\ loop[a].bounty \in Bounties /\ UNCHANGED <<loop, rows>>
          /\ relay[loop[a].bounty].status = "rejected"
      BY <3>3
      DEF CheckRelay, AgentInv, OwnInv, Phase, Busy, BusyStates, RelayRecord,
          dbVars
    <3>. QED
      BY <3>4 DEF ApprovalInv, LocalApprovalIsReal
  <2>. QED
    BY <2>1, <2>2 DEF NoOverturn
<1>3. CASE Environment
  BY <1>1, <1>3, EnvironmentFrame DEF Inv, NoOverturn
<1>4. CASE UNCHANGED vars
  BY <1>1, <1>4 DEF vars, dbVars, taskVars, iterVars, NoOverturn
<1>. QED
  BY <1>2, <1>3, <1>4 DEF Next

\* What RowsMoveForward says of a step.
RowsForward ==
  \A a \in Agents, b \in Bounties : \A i \in DOMAIN rows[a][b] :
    /\ i \in DOMAIN rows'[a][b]
    /\ rows[a][b][i] = "approved" => rows'[a][b][i] = "approved"
    /\ rows[a][b][i] = "submitted" => rows'[a][b][i] # "claimed"

\* If no approval is overturned, a step moves each row of a bounty forward only.
LEMMA RowsGoForward ==
  ASSUME Inv, NoOverturn, [Next]_vars
  PROVE  RowsForward
<1>0. rows \in [Agents -> [Bounties -> Seq(RowStatus)]]
  BY DEF Inv, TypeOK, DbTypeOK
<1>1. CASE UNCHANGED rows
  BY <1>1 DEF RowsForward
<1>2. ASSUME NEW a \in Agents, Iterate(a) PROVE RowsForward
  <2>. SUFFICES ASSUME NEW c \in Agents, NEW b \in Bounties,
                       NEW i \in DOMAIN rows[c][b]
                PROVE  /\ i \in DOMAIN rows'[c][b]
                       /\ rows[c][b][i] = "approved" => rows'[c][b][i] = "approved"
                       /\ rows[c][b][i] = "submitted" => rows'[c][b][i] # "claimed"
    BY DEF RowsForward
  <2>0. rows[c][b] \in Seq(RowStatus)
    BY <1>0
  <2>1. CASE /\ pc[a] = "recording"
             /\ rows' = [rows EXCEPT ![a][pick[a]] = Append(@, "claimed")]
    <3>1. CASE c = a /\ b = pick[a]
      <4>1. rows'[c][b] = Append(rows[c][b], "claimed")
        BY <1>0, <2>1, <3>1
      <4>. QED
        BY <2>0, <4>1
    <3>. QED
      BY <1>0, <2>1, <3>1
  <2>2. CASE /\ pc[a] = "submitted"
             /\ rows' = [rows EXCEPT ![a][loop[a].bounty] = SubmitRows(@)]
    <3>1. CASE c = a /\ b = loop[a].bounty
      <4>1. rows'[c][b] = SubmitRows(rows[c][b])
        BY <1>0, <2>2, <3>1
      <4>. QED
        BY <2>0, <4>1 DEF SubmitRows
    <3>. QED
      BY <1>0, <2>2, <3>1
  <2>3. CASE /\ pc[a] \in {"submitted", "verdict"}
             /\ reply[a].status \in Resolved
             /\ rows' = [rows EXCEPT
                           ![a][loop[a].bounty] = AllRows(@, reply[a].status)]
    <3>1. CASE c = a /\ b = loop[a].bounty
      <4>1. rows'[c][b] = [j \in DOMAIN rows[c][b] |-> reply[a].status]
        BY <1>0, <2>3, <3>1 DEF AllRows
      <4>2. rows[c][b][i] = "approved" => reply[a].status # "rejected"
        BY <2>3, <3>1 DEF NoOverturn, OverturnsNothing
      <4>. QED
        BY <2>0, <2>3, <4>1, <4>2 DEF Resolved
    <3>. QED
      BY <1>0, <2>3, <3>1
  <2>4. CASE UNCHANGED rows
    BY <2>4
  <2>. QED
    BY <1>2, <2>1, <2>2, <2>3, <2>4, Footprint DEF RowsStep, Inv
<1>3. CASE Environment
  BY <1>1, <1>3, EnvironmentFrame DEF Inv
<1>. QED
  BY <1>1, <1>2, <1>3 DEF Next, vars, dbVars

\* An approved row of bounty_claims is final, for any number of agents and
\* bounties and whatever is reopened, lost or restarted: the UPDATEs of
\* check_bounty_status touch every row of the agent, but no rejection it reads
\* comes after an approval.
THEOREM RowsAreFinal == Spec => RowsMoveForward
<1>1. Init => ApprovalInv /\ NoOverturn
  BY DEF Init, ApprovalInv, LocalApprovalIsReal, ReplyIsReal, NoOverturn,
         OverturnsNothing
<1>2. Inv /\ ApprovalInv /\ NoOverturn /\ [Next]_vars
        => ApprovalInv' /\ NoOverturn'
  BY ApprovalStep, NoOverturnStep
<1>3. Inv /\ NoOverturn /\ [Next]_vars => [RowsForward]_rows
  BY RowsGoForward
<1>4. RowsMoveForward <=> [][RowsForward]_rows
  BY DEF RowsMoveForward, RowsForward
<1>. QED
  BY <1>1, <1>2, <1>3, <1>4, Invariance, PTL DEF Spec

(***************************************************************************)
(* The daily limit.                                                        *)
(***************************************************************************)

\* pc values of a claim that is not counted yet.
PreCount == {"claiming", "recording", "flagging", "counting"}

\* What the counts of today's claims are at each pc of agent a.
DailyAt(a) ==
  /\ dailyDb[a] <= DailyLimit + 1
  /\ ~dateStale[a] => dailyDb[a] <= dailyClaims[a] + 1
  /\ dateStale[a] => dailyDb[a] <= 1
  /\ dateStale[a] /\ pc[a] \in PreCount \cup {"awake"} => dailyDb[a] = 0
  /\ pc[a] \in PreCount => dailyClaims[a] < DailyLimit

\* The inductive invariant of the daily limit.
DailyInv == \A a \in Agents : DailyAt(a)

\* The steps that touch the daily count, or that start counting.
LEMMA DailySteps ==
  ASSUME NEW a \in Agents, TypeOK, Iterate(a)
  PROVE  \/ Wake(a) \/ (\E b \in Bounties : Select(a, b)) \/ CountClaim(a)
         \/ Restart(a)
         \/ /\ UNCHANGED <<dailyDb, dailyClaims, dateStale>>
            /\ pc'[a] \in PreCount => pc[a] \in PreCount
            /\ pc'[a] # "awake"
BY DEF TypeOK, TaskTypeOK, Goto, EndIteration, PreCount, BackToIdle,
     AwaitVerification, GiveUp, dbVars, clockVars, Iterate, StopSignalled,
     StoppedInDb, AtDailyLimit, DiscoverNothing, ClaimGranted, ClaimConflict,
     ClaimLost, RecordClaim, RecordClaimFails, FlagWorking, StartWork,
     Execute, SubmitAccepted, SubmitRefused, SubmitLost, RecordSubmission,
     RecordAutoApproval, VerificationTimeout, CheckLocal, CheckRelay,
     CheckLost, SettleVerdict, StartRework, TooManyRevisions, StillPending,
     ConcludeApproved, ConcludeRejected, LeaveAssessing, LeaveStopping, Exit

\* A step of run() preserves its own agent's bound.
LEMMA DailyOwn ==
  ASSUME NEW a \in Agents, TypeOK, DailyAt(a), Iterate(a)
  PROVE  DailyAt(a)'
<1>. USE ConstantsAssumption DEF DailyAt, TypeOK, TaskTypeOK, DbTypeOK,
                                 PreCount, Goto, Bump
<1>1. CASE Wake(a)
  BY <1>1 DEF Wake, dbVars
<1>2. ASSUME NEW b \in Bounties, Select(a, b) PROVE DailyAt(a)'
  BY <1>2 DEF Select, dbVars, clockVars
<1>3. CASE CountClaim(a)
  BY <1>3 DEF CountClaim
<1>4. CASE Restart(a)
  BY <1>4 DEF Restart, dbVars
<1>5. CASE /\ UNCHANGED <<dailyDb, dailyClaims, dateStale>>
           /\ pc'[a] \in PreCount => pc[a] \in PreCount
           /\ pc'[a] # "awake"
  BY <1>5
<1>. QED
  BY <1>1, <1>2, <1>3, <1>4, <1>5, DailySteps

\* Every step preserves the bound, midnight included.
LEMMA DailyStep ==
  ASSUME Inv, DailyInv, [Next]_vars
  PROVE  DailyInv'
<1>. USE DEF DailyInv
<1>1. ASSUME NEW a \in Agents, Iterate(a) PROVE DailyInv'
  <2>1. ASSUME NEW c \in Agents, c # a PROVE DailyAt(c)'
    BY <1>1, <2>1, IterateFrame DEF Inv, DailyAt
  <2>. QED
    BY <1>1, <2>1, DailyOwn DEF Inv
<1>2. CASE Midnight
  BY <1>2, ConstantsAssumption DEF Midnight, DailyAt, Inv, TypeOK, TaskTypeOK
<1>3. CASE Environment /\ ~Midnight
  <2>1. UNCHANGED <<dailyDb, dailyClaims, dateStale>>
    BY <1>3 DEF Environment, Panic, TimerExpires, StopRequest, StopFinish,
       StopByTool, RelayVerdict, RelayReopens, SyncCache, dbVars, taskVars,
       clockVars
  <2>2. \A c \in Agents : pc'[c] = pc[c] \/ pc'[c] \in {"backoff", "down"}
    BY <1>3, EnvironmentFrame DEF Inv
  <2>. QED
    BY <2>1, <2>2 DEF DailyAt, PreCount
<1>4. CASE UNCHANGED vars
  BY <1>4 DEF vars, dbVars, taskVars, DailyAt
<1>. QED
  BY <1>1, <1>2, <1>3, <1>4 DEF Next

\* agent_daily_claims never exceeds the limit by more than the one claim that
\* was under way at midnight, however often run() panics and restarts.
THEOREM DailyLimitHolds == Spec => []DailyOvershoot
<1>1. Init => DailyInv
  BY ConstantsAssumption DEF Init, DailyInv, DailyAt, PreCount
<1>2. Inv /\ DailyInv /\ [Next]_vars => DailyInv'
  BY DailyStep
<1>3. DailyInv => DailyOvershoot
  BY DEF DailyInv, DailyAt, DailyOvershoot
<1>. QED
  BY <1>1, <1>2, <1>3, Invariance, PTL DEF Spec

(***************************************************************************)
(* One worker per bounty.                                                  *)
(***************************************************************************)
GrantedPCs == {"recording", "flagging", "counting", "starting"}

\* Agents hold what they claimed, from the grant to the end of the work.
Held ==
  /\ \A b \in Bounties : relay[b].status = "open" => relay[b].holder = NoAgent
  /\ \A a \in Agents : pc[a] \in GrantedPCs => relay[pick[a]].holder = a
  /\ \A a \in Agents : Busy(a) => relay[loop[a].bounty].holder = a

HolderInv == reopens = 0 => Held

\* Work and grants begin in two steps only.
LEMMA HolderSteps ==
  ASSUME NEW a \in Agents, TypeOK, AgentInv(a), Iterate(a)
  PROVE  \/ ClaimGranted(a) \/ StartWork(a)
         \/ /\ Busy(a)' => Busy(a) /\ loop'[a].bounty = loop[a].bounty
            /\ pc'[a] \in GrantedPCs =>
                 pc[a] \in GrantedPCs /\ pick'[a] = pick[a]
BY
DEF TypeOK, TaskTypeOK, AgentInv, OwnInv, Phase, Goto, EndIteration,
    GrantedPCs, BackToIdle, Busy, BusyStates, SetLoop,
     AwaitVerification, GiveUp, iterVars, Iterate, StopSignalled,
     StoppedInDb, Wake, AtDailyLimit, DiscoverNothing, Select, ClaimConflict,
     ClaimLost, RecordClaim, RecordClaimFails, FlagWorking, CountClaim,
     Execute, SubmitAccepted, SubmitRefused, SubmitLost, RecordSubmission,
     RecordAutoApproval, VerificationTimeout, CheckLocal, CheckRelay,
     CheckLost, SettleVerdict, StartRework, TooManyRevisions, StillPending,
     ConcludeApproved, ConcludeRejected, LeaveAssessing, LeaveStopping, Exit,
     Restart

\* What has been reopened stays counted.
LEMMA ReopensStay ==
  ASSUME Inv, [Next]_vars, reopens' = 0
  PROVE  reopens = 0 /\ \A b \in Bounties : ~RelayReopens(b)
<1>. reopens \in Nat
  BY ConstantsAssumption DEF Inv, TypeOK, RelayTypeOK
<1>1. ASSUME NEW a \in Agents, Iterate(a)
      PROVE  reopens' = reopens
  <2>1. RelayStep(a)
    BY <1>1, Footprint DEF Inv
  <2>. QED
    BY <2>1 DEF RelayStep, RelayGrants, RelayTakes, relayVars
<1>2. ASSUME NEW b \in Bounties
      PROVE  ~RelayReopens(b)
  BY DEF RelayReopens
<1>3. CASE Environment
  BY <1>2, <1>3
  DEF Environment, RelayVerdict, Panic, TimerExpires, StopRequest,
      StopFinish, StopByTool, SyncCache, Midnight, relayVars
<1>4. CASE UNCHANGED vars
  BY <1>2, <1>4 DEF vars, relayVars
<1>. QED
  BY <1>1, <1>2, <1>3, <1>4 DEF Next

\* Unless bounties are reopened, a granted bounty keeps its holder.
LEMMA HolderStays ==
  ASSUME reopens' = 0, Inv, Held, [Next]_vars, NEW b \in Bounties
  PROVE  /\ relay[b].holder # NoAgent =>
              relay'[b].holder = relay[b].holder
         /\ relay'[b].status = "open" => relay'[b].holder = NoAgent
<1>. USE DEF Inv, TypeOK, RelayTypeOK, RelayRecord, Held
<1>1. ASSUME NEW a \in Agents, RelayStep(a)
      PROVE  /\ relay[b].holder # NoAgent =>
                  relay'[b].holder = relay[b].holder
             /\ relay'[b].status = "open" => relay'[b].holder = NoAgent
  BY <1>1 DEF RelayStep, RelayGrants, RelayTakes, relayVars
<1>2. CASE Environment
  <2>1. ASSUME NEW c \in Bounties, RelayVerdict(c)
        PROVE  /\ relay[b].holder # NoAgent =>
                    relay'[b].holder = relay[b].holder
               /\ relay'[b].status = "open" => relay'[b].holder = NoAgent
    BY <2>1 DEF RelayVerdict, RelayRevision, Resolved
  <2>2. CASE \A c \in Bounties : ~RelayVerdict(c)
    BY <1>2, <2>2, ReopensStay
    DEF Environment, Panic, TimerExpires, StopRequest, StopFinish,
       StopByTool, SyncCache, Midnight, relayVars
  <2>. QED
    BY <2>1, <2>2
<1>3. CASE UNCHANGED vars
  BY <1>3 DEF vars, relayVars
<1>. QED
  BY <1>1, <1>2, <1>3, Footprint DEF Next

\* Every step preserves the holders.
LEMMA HolderStep ==
  ASSUME Inv, HolderInv, [Next]_vars
  PROVE  HolderInv'
<1>. SUFFICES ASSUME reopens' = 0 PROVE Held'
  BY DEF HolderInv
<1>0. Held
  BY ReopensStay DEF HolderInv
<1>1. \A b \in Bounties :
        relay'[b].status = "open" => relay'[b].holder = NoAgent
  BY <1>0, HolderStays
<1>2. ASSUME NEW c \in Agents, NEW b \in Bounties, relay[b].holder = c
      PROVE  relay'[b].holder = c
  BY <1>0, <1>2, HolderStays, ConstantsAssumption
<1>3. ASSUME NEW c \in Agents,
             Busy(c)' => Busy(c) /\ loop'[c].bounty = loop[c].bounty,
             pc'[c] \in GrantedPCs =>
               pc[c] \in GrantedPCs /\ pick'[c] = pick[c]
      PROVE  /\ pc'[c] \in GrantedPCs => relay'[pick'[c]].holder = c
             /\ Busy(c)' => relay'[loop'[c].bounty].holder = c
  BY <1>0, <1>2, <1>3
  DEF Held, Inv, AgentInv, OwnInv, Phase, GrantedPCs,
      ClaimPCs
<1>4. ASSUME NEW a \in Agents, Iterate(a) PROVE Held'
  <2>1. ASSUME NEW c \in Agents, c # a
        PROVE  /\ pc'[c] \in GrantedPCs => relay'[pick'[c]].holder = c
               /\ Busy(c)' => relay'[loop'[c].bounty].holder = c
    BY <1>3, <1>4, <2>1, IterateFrame DEF Inv, Busy
  <2>2. /\ pc'[a] \in GrantedPCs => relay'[pick'[a]].holder = a
        /\ Busy(a)' => relay'[loop'[a].bounty].holder = a
    <3>. USE DEF Inv, TypeOK, TaskTypeOK, RelayTypeOK, RelayRecord, AgentInv,
                 OwnInv, Phase, Goto, ClaimPCs
    <3>1. CASE ClaimGranted(a)
      BY <3>1 DEF ClaimGranted, RelayGrants, iterVars, Busy, BusyStates
    <3>2. CASE StartWork(a)
      <4>1. relay[pick[a]].holder = a /\ pick[a] \in Bounties
        BY <1>0, <3>2 DEF StartWork, EndIteration, GrantedPCs, Held
      <4>2. relay'[pick[a]].holder = a
        BY <1>2, <4>1
      <4>. QED
        BY <3>2, <4>2 DEF StartWork, EndIteration, SetLoop, GrantedPCs
    <3>. QED
      BY <1>3, <1>4, <3>1, <3>2, HolderSteps
  <2>. QED
    BY <1>1, <2>1, <2>2 DEF Held
<1>5. CASE Environment
  <2>1. ASSUME NEW c \in Agents
        PROVE  /\ pc'[c] \in GrantedPCs => relay'[pick'[c]].holder = c
               /\ Busy(c)' => relay'[loop'[c].bounty].holder = c
    BY <1>3, <1>5, EnvironmentFrame DEF Inv, Busy, GrantedPCs
  <2>. QED
    BY <1>1, <2>1 DEF Held
<1>6. CASE UNCHANGED vars
  BY <1>0, <1>6 DEF vars, relayVars, taskVars, iterVars, Held, Busy
<1>. QED
  BY <1>4, <1>5, <1>6 DEF Next

\* Unless bounties are reopened, run() works only on a bounty that the relay
\* has granted to that very agent.
THEOREM WorkersHold == Spec => []WorkerIsHolder
<1>1. Init => HolderInv
  BY
  DEF Init, HolderInv, Held, NewBounty, IdleLoop, Busy, BusyStates,
      GrantedPCs
<1>2. Inv /\ HolderInv /\ [Next]_vars => HolderInv'
  BY HolderStep
<1>3. HolderInv => WorkerIsHolder
  BY DEF HolderInv, Held, WorkerIsHolder
<1>. QED
  BY <1>1, <1>2, <1>3, Invariance, PTL DEF Spec

\* Two busy agents carry different bounties, unless one was reopened.
OneWorker ==
  reopens = 0 =>
    \A a, c \in Agents :
      Busy(a) /\ Busy(c) /\ loop[a].bounty = loop[c].bounty => a = c

\* Hence no two agents of the fleet ever work on the same bounty.
THEOREM WorkExclusive == Spec => []OneWorker
<1>1. WorkerIsHolder => OneWorker
  BY DEF WorkerIsHolder, OneWorker
<1>. QED
  BY <1>1, WorkersHold, PTL

(***************************************************************************)
(* Completions.                                                            *)
(***************************************************************************)

\* The relay waits for the work of an agent whose claim it has granted.
ClaimStands(a) ==
  pc[a] \in GrantedPCs =>
    relay[pick[a]].status = "claimed" /\ relay[pick[a]].holder = a

\* Approved bounties an agent is done with.
DoneWith(a) ==
  ApprovedBounties \ (IF Busy(a) THEN {loop[a].bounty} ELSE {})

\* The count is compared with what the agent is done with, so that concluding
\* the same approval once more would need a second bounty.
CountInv ==
  \A a \in Agents :
    ClaimStands(a) /\ completed[a] <= Cardinality(DoneWith(a))

\* A claimed bounty moves only when its holder submits.
LEMMA ClaimWaits ==
  ASSUME Inv, [Next]_vars, NEW b \in Bounties, NEW c \in Agents,
         relay[b].status = "claimed", relay[b].holder = c,
         ~(Iterate(c) /\ pc[c] = "submitting")
  PROVE  relay'[b].status = "claimed" /\ relay'[b].holder = c
<1>. USE DEF Inv, TypeOK, RelayTypeOK, RelayRecord
<1>1. ASSUME NEW a \in Agents, Iterate(a)
      PROVE  relay'[b].status = "claimed" /\ relay'[b].holder = c
  <2>1. RelayStep(a)
    BY <1>1, Footprint
  <2>. QED
    BY <1>1, <2>1 DEF RelayStep, RelayGrants, RelayTakes, AcceptsWork, relayVars
<1>2. CASE Environment
  BY <1>2
  DEF Environment, Panic, TimerExpires, StopRequest, StopFinish, StopByTool,
      RelayVerdict, RelayRevision, RelayReopens, SyncCache, Midnight,
      relayVars
<1>3. CASE UNCHANGED vars
  BY <1>3 DEF vars, relayVars
<1>. QED
  BY <1>1, <1>2, <1>3 DEF Next

\* A claim that was granted stands until the work starts.
LEMMA ClaimsStand ==
  ASSUME Inv, CountInv, [Next]_vars, NEW c \in Agents
  PROVE  ClaimStands(c)'
<1>. USE DEF Inv, CountInv, ClaimStands
<1>1. ASSUME pc'[c] \in GrantedPCs, pc[c] \in GrantedPCs, pick'[c] = pick[c]
      PROVE  ClaimStands(c)'
  <2>1. pick[c] \in Bounties /\ pc[c] # "submitting"
    BY <1>1 DEF AgentInv, OwnInv, Phase, GrantedPCs, ClaimPCs
  <2>. QED
    BY <1>1, <2>1, ClaimWaits
<1>2. ASSUME Iterate(c) PROVE ClaimStands(c)'
  <2>1. CASE ClaimGranted(c)
    BY <2>1
    DEF ClaimGranted, RelayGrants, iterVars, TypeOK, RelayTypeOK, RelayRecord,
        AgentInv, OwnInv, Phase, Goto, ClaimPCs
  <2>2. CASE StartWork(c)
    BY <2>2 DEF StartWork, EndIteration, Goto, GrantedPCs, TypeOK, TaskTypeOK
  <2>. QED
    BY <1>1, <1>2, <2>1, <2>2, HolderSteps
<1>3. ASSUME NEW a \in Agents, a # c, Iterate(a) PROVE ClaimStands(c)'
  BY <1>1, <1>3, IterateFrame
<1>4. CASE Environment
  BY <1>1, <1>4, EnvironmentFrame DEF GrantedPCs
<1>5. CASE UNCHANGED vars
  BY <1>5 DEF vars, relayVars, taskVars, iterVars
<1>. QED
  BY <1>2, <1>3, <1>4, <1>5 DEF Next

\* Only ConcludeApproved counts.
LEMMA CountSteps ==
  ASSUME NEW a \in Agents, TypeOK, Iterate(a), ~ConcludeApproved(a)
  PROVE  UNCHANGED completed
BY
DEF Iterate, StopSignalled, StoppedInDb, Wake, AtDailyLimit, DiscoverNothing,
    Select, ClaimGranted, ClaimConflict, ClaimLost, BackToIdle, RecordClaim,
    RecordClaimFails, FlagWorking, CountClaim, StartWork, Execute,
    SubmitAccepted, SubmitRefused, SubmitLost, AwaitVerification,
    RecordSubmission, RecordAutoApproval, VerificationTimeout, GiveUp,
    CheckLocal, CheckRelay, CheckLost, SettleVerdict, StartRework,
    TooManyRevisions, StillPending, ConcludeRejected, LeaveAssessing,
    LeaveStopping, Exit, Restart, teleVars

\* A step that does not count takes nothing from what an agent is done with.
LEMMA DoneGrows ==
  ASSUME Inv, CountInv, [Next]_vars, NEW c \in Agents
  PROVE  DoneWith(c) \subseteq DoneWith(c)'
<1>. USE DEF Inv, DoneWith
<1>1. ApprovedBounties \subseteq ApprovedBounties'
  BY ApprovalStays DEF ApprovedBounties, Approved
<1>2. ASSUME Busy(c)' => Busy(c) /\ loop'[c].bounty = loop[c].bounty
      PROVE  DoneWith(c) \subseteq DoneWith(c)'
  BY <1>1, <1>2
<1>3. ASSUME Iterate(c) PROVE DoneWith(c) \subseteq DoneWith(c)'
  <2>1. CASE ClaimGranted(c)
    BY <1>2, <2>1 DEF ClaimGranted, Busy
  <2>2. CASE StartWork(c)
    <3>1. /\ pc[c] = "starting" /\ pick[c] \in Bounties
          /\ loop'[c].bounty = pick[c]
      BY <2>2
      DEF StartWork, EndIteration, Goto, SetLoop, TypeOK, TaskTypeOK, AgentInv,
          OwnInv, Phase, ClaimPCs
    <3>2. pick[c] \notin ApprovedBounties
      BY <3>1 DEF CountInv, ClaimStands, GrantedPCs, ApprovedBounties
    <3>. QED
      BY <1>1, <3>1, <3>2
  <2>. QED
    BY <1>2, <1>3, <2>1, <2>2, HolderSteps
<1>4. ASSUME NEW a \in Agents, a # c, Iterate(a)
      PROVE  DoneWith(c) \subseteq DoneWith(c)'
  BY <1>2, <1>4, IterateFrame DEF Busy
<1>5. CASE Environment
  BY <1>2, <1>5, EnvironmentFrame DEF Busy
<1>6. CASE UNCHANGED vars
  BY <1>2, <1>6 DEF vars, taskVars, Busy
<1>. QED
  BY <1>3, <1>4, <1>5, <1>6 DEF Next

\* Every step keeps the count.
LEMMA CountStep ==
  ASSUME IsFiniteSet(Bounties), Inv, ApprovalInv, CountInv, [Next]_vars
  PROVE  CountInv'
<1>. USE DEF Inv
<1>. SUFFICES ASSUME NEW c \in Agents
              PROVE  completed'[c] <= Cardinality(DoneWith(c)')
  BY ClaimsStand DEF CountInv
<1>1. /\ IsFiniteSet(DoneWith(c)) /\ IsFiniteSet(DoneWith(c)')
      /\ Cardinality(DoneWith(c)) \in Nat /\ Cardinality(DoneWith(c)') \in Nat
  BY FS_Subset, FS_CardinalityType DEF DoneWith, ApprovedBounties
<1>2. /\ DoneWith(c) \subseteq DoneWith(c)'
      /\ Cardinality(DoneWith(c)) <= Cardinality(DoneWith(c)')
  BY <1>1, DoneGrows, FS_Subset
<1>3. completed[c] \in Nat /\ completed[c] <= Cardinality(DoneWith(c))
  BY DEF CountInv, TypeOK, TelemetryTypeOK
<1>4. CASE completed'[c] = completed[c]
  BY <1>1, <1>2, <1>3, <1>4
<1>5. CASE ConcludeApproved(c)
  <2>1. /\ Busy(c) /\ loop[c].bounty \in ApprovedBounties /\ ~Busy(c)'
        /\ completed'[c] = completed[c] + 1
    BY <1>5
    DEF ConcludeApproved, EndIteration, Goto, SetLoop, Bump, AgentInv, OwnInv,
        Phase, Busy, BusyStates, TypeOK, TaskTypeOK, TelemetryTypeOK,
        ApprovalInv, ReplyIsReal, Approved, ApprovedBounties
  <2>2. ApprovedBounties' = ApprovedBounties
    BY <1>5 DEF ConcludeApproved, relayVars, ApprovedBounties
  <2>3. DoneWith(c)' = DoneWith(c) \cup {loop[c].bounty}
        /\ loop[c].bounty \notin DoneWith(c)
    BY <2>1, <2>2 DEF DoneWith
  <2>4. Cardinality(DoneWith(c)') = Cardinality(DoneWith(c)) + 1
    BY <1>1, <2>3, FS_AddElement
  <2>. QED
    BY <1>1, <1>3, <2>1, <2>4
<1>6. ASSUME NEW a \in Agents, Iterate(a)
      PROVE  completed'[c] = completed[c] \/ ConcludeApproved(c)
  BY <1>6, CountSteps, IterateFrame
<1>7. CASE Environment \/ UNCHANGED vars
  BY <1>4, <1>7, EnvironmentFrame DEF vars, teleVars
<1>. QED
  BY <1>4, <1>5, <1>6, <1>7 DEF Next

\* However often run() panics between the writes and the telemetry, and
\* although the relay may offer a rejected bounty again: an agent counts no
\* approval twice.
THEOREM CountedOnce ==
  ASSUME IsFiniteSet(Bounties)
  PROVE  Spec => []CompletedOncePerApproval
<1>1. Init => ApprovalInv
  BY DEF Init, ApprovalInv, LocalApprovalIsReal, ReplyIsReal
<1>2. Init => CountInv
  <2>. SUFFICES ASSUME Init, NEW a \in Agents
                PROVE  ClaimStands(a) /\ completed[a] <= Cardinality(DoneWith(a))
    BY DEF CountInv
  <2>1. ClaimStands(a) /\ completed[a] = 0
    BY DEF Init, ClaimStands, GrantedPCs
  <2>2. Cardinality(DoneWith(a)) \in Nat
    BY FS_Subset, FS_CardinalityType DEF DoneWith, ApprovedBounties
  <2>. QED
    BY <2>1, <2>2
<1>3. Inv /\ ApprovalInv /\ CountInv /\ [Next]_vars => ApprovalInv' /\ CountInv'
  BY ApprovalStep, CountStep
<1>4. Inv /\ CountInv => CompletedOncePerApproval
  <2>. SUFFICES ASSUME Inv, CountInv, NEW a \in Agents
                PROVE  completed[a] <= Cardinality(ApprovedBounties)
    BY DEF CompletedOncePerApproval
  <2>1. /\ DoneWith(a) \subseteq ApprovedBounties
        /\ IsFiniteSet(ApprovedBounties)
    BY FS_Subset DEF DoneWith, ApprovedBounties
  <2>2. /\ Cardinality(DoneWith(a)) \in Nat
        /\ Cardinality(ApprovedBounties) \in Nat
        /\ Cardinality(DoneWith(a)) <= Cardinality(ApprovedBounties)
    BY <2>1, FS_Subset, FS_CardinalityType
  <2>3. completed[a] \in Nat /\ completed[a] <= Cardinality(DoneWith(a))
    BY DEF CountInv, Inv, TypeOK, TelemetryTypeOK
  <2>. QED
    BY <2>2, <2>3
<1>. QED
  BY <1>1, <1>2, <1>3, <1>4, Invariance, PTL DEF Spec

(***************************************************************************)
(* Refinement of BountyLedger.                                             *)
(***************************************************************************)

\* The steps that the ledger sees.
LEMMA LedgerSteps ==
  ASSUME NEW a \in Agents, TypeOK, AgentInv(a), Iterate(a)
  PROVE  \/ StartWork(a) \/ ConcludeApproved(a)
         \/ VerificationTimeout(a) \/ TooManyRevisions(a)
          \/ ConcludeRejected(a)
         \/ StopSignalled(a) \/ StoppedInDb(a)
         \/ /\ UNCHANGED teleVars
            /\ \/ UNCHANGED loop
               \/ \E s \in LoopStates, b \in Bounties \cup {NoBounty} :
                    /\ SetLoop(a, s, b)
                    /\ b \in Bounties => b = loop[a].bounty
                    /\ s \in BusyStates <=> Busy(a)
                    /\ s \in BusyStates => b = loop[a].bounty
                    /\ s # "stopping" /\ loop[a].state # "stopping"
BY
DEF TypeOK, TaskTypeOK, Loop, LoopStates, AgentInv, OwnInv, Phase, Goto,
    EndIteration, BackToIdle, Busy, BusyStates, ClaimPCs,
     AwaitVerification, GiveUp, Iterate, Wake, AtDailyLimit, DiscoverNothing,
     Select, ClaimGranted, ClaimConflict, ClaimLost, RecordClaim,
     RecordClaimFails, FlagWorking, CountClaim, Execute, SubmitAccepted,
     SubmitRefused, SubmitLost, RecordSubmission, RecordAutoApproval,
     CheckLocal, CheckRelay, CheckLost, SettleVerdict, StartRework,
     StillPending, LeaveAssessing, LeaveStopping, Exit, Restart

\* The bounty agent a works on.
Working(a) == IF Busy(a) THEN loop[a].bounty ELSE NoBounty

\* The refinement mapping, with the two below.
LedgerWork == [a \in Agents |-> Working(a)]
LedgerHalted == {a \in Agents : loop[a].state = "stopping"}
LedgerApproved == {b \in Bounties : relay[b].status = "approved"}

\* What the ledger's variables become when an agent changes its state.
LEMMA LedgerMove ==
  ASSUME NEW a \in Agents, TypeOK, NEW s \in LoopStates,
         NEW b \in Bounties \cup {NoBounty}, SetLoop(a, s, b)
  PROVE  /\ LedgerWork' = [LedgerWork EXCEPT
                            ![a] = IF s \in BusyStates THEN b ELSE NoBounty]
         /\ (IF s \in BusyStates THEN b ELSE NoBounty) = Working(a)
              => LedgerWork' = LedgerWork
         /\ s = "stopping" => LedgerHalted' = LedgerHalted \cup {a}
         /\ s # "stopping" /\ loop[a].state # "stopping"
              => LedgerHalted' = LedgerHalted
BY
DEF TypeOK, TaskTypeOK, Loop, SetLoop, LedgerWork, LedgerHalted, Working, Busy

\* Approvals come one at a time.
LEMMA LedgerApproves ==
  ASSUME TypeOK, [Next]_vars
  PROVE  \/ LedgerApproved' = LedgerApproved
         \/ \E b \in Bounties : LedgerApproved' = LedgerApproved \cup {b}
<1>. USE DEF TypeOK, RelayTypeOK
<1>1. ASSUME NEW b \in Bounties, \A c \in Bounties \ {b} : relay'[c] = relay[c]
      PROVE  \/ LedgerApproved' = LedgerApproved
             \/ \E c \in Bounties : LedgerApproved' = LedgerApproved \cup {c}
  <2>1. Approved(b) => Approved(b)'
    BY ApprovalStays
  <2>2. LedgerApproved' = IF Approved(b)' THEN LedgerApproved \cup {b}
                                           ELSE LedgerApproved
    BY <1>1, <2>1 DEF LedgerApproved, Approved
  <2>. QED
    BY <2>2
<1>2. UNCHANGED relay => LedgerApproved' = LedgerApproved
  BY DEF LedgerApproved
<1>3. ASSUME NEW a \in Agents, Iterate(a)
      PROVE  \/ UNCHANGED relay
             \/ \E b \in Bounties :
                  \A c \in Bounties \ {b} : relay'[c] = relay[c]
  <2>1. RelayStep(a)
    BY <1>3, Footprint
  <2>. QED
    BY <2>1 DEF RelayStep, RelayGrants, RelayTakes, relayVars
<1>4. CASE Environment
  <2>1. \/ UNCHANGED relay
        \/ \E b \in Bounties :
             \A c \in Bounties \ {b} : relay'[c] = relay[c]
    BY <1>4 DEF Environment, Panic, TimerExpires, StopRequest, StopFinish,
       StopByTool, RelayVerdict, RelayRevision, RelayReopens, SyncCache,
       Midnight, relayVars
  <2>. QED
    BY <1>1, <1>2, <2>1
<1>5. CASE UNCHANGED vars
  BY <1>2, <1>5 DEF vars, relayVars
<1>. QED
  BY <1>1, <1>2, <1>3, <1>4, <1>5 DEF Next

\* The steps the ledger sees leave the relay alone.
LEMMA RelayUntouched ==
  ASSUME NEW a \in Agents, TypeOK,
         \/ StartWork(a) \/ ConcludeApproved(a)
         \/ VerificationTimeout(a) \/ TooManyRevisions(a)
          \/ ConcludeRejected(a)
         \/ StopSignalled(a) \/ StoppedInDb(a)
  PROVE  LedgerApproved' = LedgerApproved
BY
DEF StartWork, ConcludeApproved, VerificationTimeout, TooManyRevisions,
    ConcludeRejected,
       StopSignalled, StoppedInDb, relayVars, LedgerApproved

\* A step that moves no work is an approval or a stutter of the ledger.
LEMMA LedgerQuiet ==
  ASSUME TypeOK, [Next]_vars,
         LedgerWork' = LedgerWork, LedgerHalted' = LedgerHalted,
         UNCHANGED <<claimed, completed, failed>>
  PROVE  [Ledger!Next]_(Ledger!vars)
BY LedgerApproves
DEF Ledger!Next, Ledger!vars, Ledger!Approve, LedgerWork, LedgerHalted,
    LedgerApproved, Working, ApprovedBounties

\* Every step of run() is a step of the ledger, or a stutter.
LEMMA IterateLedger ==
  ASSUME NEW a \in Agents, Inv, ApprovalInv, Iterate(a)
  PROVE  [Ledger!Next]_(Ledger!vars)
<1>. USE DEF Inv
<1>. DEFINE Map ==
       /\ LedgerWork =
            [c \in Agents |-> IF Busy(c) THEN loop[c].bounty ELSE NoBounty]
       /\ LedgerHalted = {c \in Agents : loop[c].state = "stopping"}
       /\ LedgerApproved = ApprovedBounties
<1>1. Map /\ Map'
  BY DEF LedgerWork, LedgerHalted, LedgerApproved, Working, ApprovedBounties
<1>2. CASE StartWork(a)
  <2>1. /\ loop[a].state = "assessing" /\ pick[a] \in Bounties
        /\ SetLoop(a, "executing", pick[a])
        /\ claimed' = Bump(claimed, a) /\ UNCHANGED <<completed, failed>>
    BY <1>2
    DEF StartWork, EndIteration, Goto, AgentInv, OwnInv, Phase, ClaimPCs
  <2>2. Ledger!Take(a, pick[a])
    BY <2>1, <1>1, <1>2, LedgerMove, RelayUntouched
    DEF Ledger!Take, Busy, BusyStates, LoopStates, Bump
  <2>. QED
    BY <2>1, <2>2 DEF Ledger!Next, Ledger!Take
<1>3. CASE ConcludeApproved(a)
  <2>1. /\ Busy(a) /\ loop[a].bounty \in LedgerApproved
        /\ SetLoop(a, "idle", NoBounty)
        /\ completed' = Bump(completed, a) /\ UNCHANGED <<claimed, failed>>
        /\ loop[a].state # "stopping"
    BY <1>3
    DEF ConcludeApproved, EndIteration, Goto, AgentInv, OwnInv, Phase,
        ApprovalInv, ReplyIsReal, Approved, LedgerApproved, Busy, BusyStates
  <2>2. Ledger!Win(a)
    BY <2>1, <1>1, <1>3, LedgerMove, RelayUntouched
    DEF Ledger!Win, BusyStates, LoopStates, Bump
  <2>. QED
    BY <2>2 DEF Ledger!Next, Ledger!Win
<1>4. CASE VerificationTimeout(a) \/ TooManyRevisions(a) \/ ConcludeRejected(a)
  <2>1. /\ Busy(a) /\ SetLoop(a, "idle", NoBounty)
        /\ failed' = Bump(failed, a) /\ UNCHANGED <<claimed, completed>>
        /\ loop[a].state # "stopping"
    BY <1>4
    DEF VerificationTimeout, TooManyRevisions, ConcludeRejected, GiveUp,
        EndIteration, Goto, AgentInv, OwnInv, Phase, Busy, BusyStates
  <2>2. Ledger!Lose(a)
    BY <2>1, <1>1, <1>4, LedgerMove, RelayUntouched, ConstantsAssumption
    DEF Ledger!Lose, BusyStates, LoopStates, Bump, AgentInv, OwnInv, Phase
  <2>. QED
    BY <2>2 DEF Ledger!Next, Ledger!Lose
<1>5. CASE StopSignalled(a) \/ StoppedInDb(a)
  <2>1. /\ SetLoop(a, "stopping", NoBounty)
        /\ UNCHANGED <<claimed, completed, failed>>
    BY <1>5 DEF StopSignalled, StoppedInDb, teleVars
  <2>2. CASE loop[a].state = "stopping"
    <3>1. LedgerWork' = LedgerWork
      BY <2>1, <2>2, LedgerMove DEF Working, Busy, BusyStates, LoopStates
    <3>2. LedgerHalted' = LedgerHalted
      BY <2>1, <2>2, LedgerMove DEF LedgerHalted, LoopStates
    <3>. QED
      BY <2>1, <3>1, <3>2, LedgerQuiet DEF Next
  <2>3. CASE loop[a].state # "stopping"
    <3>1. Ledger!Halt(a)
      BY <2>1, <2>3, <1>1, <1>5, LedgerMove, RelayUntouched
      DEF Ledger!Halt, BusyStates, LoopStates
    <3>. QED
      BY <3>1 DEF Ledger!Next, Ledger!Halt
  <2>. QED
    BY <2>2, <2>3
<1>6. CASE /\ UNCHANGED teleVars
           /\ UNCHANGED loop
  BY <1>6, LedgerQuiet
  DEF Next, teleVars, LedgerWork, LedgerHalted, Working, Busy
<1>7. ASSUME UNCHANGED teleVars, NEW s \in LoopStates,
             NEW b \in Bounties \cup {NoBounty}, SetLoop(a, s, b),
             s \in BusyStates <=> Busy(a),
             s \in BusyStates => b = loop[a].bounty,
             s # "stopping" /\ loop[a].state # "stopping"
      PROVE  [Ledger!Next]_(Ledger!vars)
  <2>1. LedgerWork' = LedgerWork
    BY <1>7, LedgerMove DEF Working
  <2>2. LedgerHalted' = LedgerHalted
    BY <1>7, LedgerMove
  <2>. QED
    BY <1>7, <2>1, <2>2, LedgerQuiet DEF Next, teleVars
<1>. QED
  BY <1>2, <1>3, <1>4, <1>5, <1>6, <1>7, LedgerSteps

\* So is every other step.
LEMMA LedgerStep ==
  ASSUME Inv, ApprovalInv, [Next]_vars
  PROVE  [Ledger!Next]_(Ledger!vars)
<1>1. CASE \E a \in Agents : Iterate(a)
  BY <1>1, IterateLedger
<1>2. CASE Environment
  <2>1. UNCHANGED <<loop, teleVars>>
    BY <1>2, EnvironmentFrame DEF Inv, Environment
  <2>. QED
    BY <1>2, <2>1, LedgerQuiet
    DEF Next, Inv, teleVars, LedgerWork, LedgerHalted, Working, Busy
<1>3. CASE UNCHANGED vars
  BY <1>3, LedgerQuiet
  DEF Inv, vars, taskVars, teleVars, LedgerWork, LedgerHalted, Working, Busy
<1>. QED
  BY <1>1, <1>2, <1>3 DEF Next

\* The loop, with its tools, its failures and its restarts, implements the
\* ledger of claimed bounties.
THEOREM LedgerImplemented == Spec => ImplementsLedger
<1>1. Init => Ledger!Init
  BY
  DEF Init, Ledger!Init, IdleLoop, Busy, BusyStates, NewBounty,
      ApprovedBounties
<1>2. Inv /\ ApprovalInv /\ [Next]_vars => [Ledger!Next]_(Ledger!vars)
  BY LedgerStep
<1>3. Init => ApprovalInv
  BY DEF Init, ApprovalInv, LocalApprovalIsReal, ReplyIsReal
<1>4. Inv /\ ApprovalInv /\ [Next]_vars => ApprovalInv'
  BY ApprovalStep
<1>. QED
  BY <1>1, <1>2, <1>3, <1>4, Invariance, PTL
  DEF Spec, ImplementsLedger, Ledger!Spec

==============================================================================
