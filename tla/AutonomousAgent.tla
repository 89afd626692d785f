--------------------------- MODULE AutonomousAgent ---------------------------
(***************************************************************************)
(* The autonomous bounty loop of the AMOS harness, one process per agent:  *)
(* AutonomousAgentLoop::run (agent/autonomous.rs) with the tools it calls  *)
(* (tools/bounty_agent_tools.rs), the supervisor that restarts it          *)
(* (openclaw/fleet.rs) and the relay it talks to.  The relay is not in the *)
(* repository; it is modelled from the answers the code handles.           *)
(*                                                                         *)
(* Every await at which another task, the relay or a failure can intervene *)
(* separates two actions.                                                  *)
(***************************************************************************)
EXTENDS Naturals, Sequences, FiniteSets

CONSTANTS
  Agents,        \* fleet agents (openclaw_agents rows with a loop)
  Bounties,      \* bounties posted on the relay
  NoBounty,      \* the absence of a bounty
  NoAgent,       \* the absence of a holder
  DailyLimit,    \* ContextProvider::daily_bounty_limit(trust_level)
  MaxRevisions,  \* revisions reworked before giving up (3 in the code)
  MaxRestarts,   \* MAX_RESTART_ATTEMPTS (5 in the code)
  Disturbances,  \* which failures and outside writes may happen
  MaxDays,       \* bound: midnights
  MaxReopens     \* bound: times the relay reopens rejected bounties

AllDisturbances ==
  {"panic", "claimLost", "recordFail", "submitLost", "checkLost", "toolStop"}

ASSUME ConstantsAssumption ==
  /\ NoBounty \notin Bounties
  /\ NoAgent \notin Agents
  /\ DailyLimit \in Nat
  /\ MaxRevisions \in Nat
  /\ MaxRestarts \in Nat
  /\ MaxDays \in Nat
  /\ MaxReopens \in Nat
  /\ Disturbances \subseteq AllDisturbances

VARIABLES
  relay,        \* the relay's record of each bounty
  cache,        \* bounty_cache: the bounties last seen open
  rows,         \* bounty_claims rows of an agent and bounty, oldest first
  dailyDb,      \* agent_daily_claims.count of today
  agentStatus,  \* openclaw_agents.status
  loop,         \* LoopState: its variant and the bounty it carries
  pc,           \* where the agent's task is inside one loop iteration
  pick,         \* best_bounty, local to an iteration
  reply,        \* the relay record last answered to this agent
  paid,         \* whether the tool result carries reward_tokens
  dailyClaims,  \* daily_claims, local to run()
  dateStale,    \* last_claim_date differs from today
  timer,        \* verification_started_at
  claimed,      \* telemetry.bounties_claimed
  completed,    \* telemetry.bounties_completed
  failed,       \* telemetry.bounties_failed
  earned,       \* telemetry.tokens_earned, one token per bounty
  restarts,     \* supervised_run's restart counter
  supervised,   \* the supervisor task has not been aborted
  stopSignal,   \* a permit is stored in stop_signal
  stopPhase,    \* progress of FleetManager::stop_agent
  days,         \* midnights passed
  reopens       \* bounties reopened by the relay

relayVars == <<relay, reopens>>
dbVars == <<rows, dailyDb, agentStatus>>
clockVars == <<dailyClaims, dateStale, days>>
iterVars == <<pick, reply, paid>>
taskVars == <<loop, pc, iterVars, dailyClaims, dateStale, timer>>
teleVars == <<claimed, completed, failed, earned>>
superVars == <<restarts, supervised, stopSignal, stopPhase>>
vars == <<relayVars, cache, dbVars, taskVars, teleVars, superVars, days>>

(***************************************************************************)
(* Values.                                                                 *)
(***************************************************************************)
RelayStatus == {"open", "claimed", "submitted", "approved", "rejected"}

RelayRecord ==
  [status: RelayStatus, holder: Agents \cup {NoAgent},
   revisions: 0 .. MaxRevisions + 1, feedback: BOOLEAN]

\* AgentStatus; 'registered' precedes every state modelled here.
AgentStatus == {"active", "working", "idle", "stopped", "error"}

RowStatus == {"claimed", "submitted", "approved", "rejected"}

LoopStates ==
  {"idle", "assessing", "executing", "awaiting", "reworking", "stopping"}

\* States in which the loop carries a bounty.
BusyStates == {"executing", "awaiting", "reworking"}

Loop == [state: LoopStates, bounty: Bounties \cup {NoBounty}]

PCs == {"asleep", "awake", "claiming", "recording", "flagging", "counting",
        "starting", "submitting", "submitted", "verdict", "concluding",
        "exiting", "backoff", "down"}

NewBounty ==
  [status |-> "open", holder |-> NoAgent, revisions |-> 0, feedback |-> FALSE]

IdleLoop == [state |-> "idle", bounty |-> NoBounty]

Busy(a) == loop[a].state \in BusyStates

Resolved == {"approved", "rejected"}

\* UPDATE bounty_claims SET status = s WHERE bounty_id AND agent_id: every row.
AllRows(seq, s) == [i \in DOMAIN seq |-> s]

\* UPDATE ... SET status = 'submitted' WHERE ... AND status = 'claimed'.
SubmitRows(seq) ==
  [i \in DOMAIN seq |-> IF seq[i] = "claimed" THEN "submitted" ELSE seq[i]]

\* SELECT status ... ORDER BY created_at DESC LIMIT 1.
LatestRow(a, b) ==
  IF rows[a][b] = <<>> THEN "none" ELSE rows[a][b][Len(rows[a][b])]

\* DiscoverBountiesTool::claimed_bounty_ids: any agent of this harness.
LocallyClaimed ==
  {b \in Bounties : \E a \in Agents : \E i \in DOMAIN rows[a][b] :
                       rows[a][b][i] # "rejected"}

OpenAtRelay == {b \in Bounties : relay[b].status = "open"}

ApprovedBounties == {b \in Bounties : relay[b].status = "approved"}

(***************************************************************************)
(* Initial state: a freshly deployed fleet, everything posted is open.     *)
(***************************************************************************)
Init ==
  /\ relay = [b \in Bounties |-> NewBounty]
  /\ cache = {}
  /\ rows = [a \in Agents |-> [b \in Bounties |-> <<>>]]
  /\ dailyDb = [a \in Agents |-> 0]
  /\ agentStatus = [a \in Agents |-> "active"]
  /\ loop = [a \in Agents |-> IdleLoop]
  /\ pc = [a \in Agents |-> "asleep"]
  /\ pick = [a \in Agents |-> NoBounty]
  /\ reply = [a \in Agents |-> NewBounty]
  /\ paid = [a \in Agents |-> FALSE]
  /\ dailyClaims = [a \in Agents |-> 0]
  /\ dateStale = [a \in Agents |-> FALSE]
  /\ timer = [a \in Agents |-> "off"]
  /\ claimed = [a \in Agents |-> 0]
  /\ completed = [a \in Agents |-> 0]
  /\ failed = [a \in Agents |-> 0]
  /\ earned = [a \in Agents |-> 0]
  /\ restarts = [a \in Agents |-> 0]
  /\ supervised = [a \in Agents |-> TRUE]
  /\ stopSignal = [a \in Agents |-> FALSE]
  /\ stopPhase = [a \in Agents |-> "none"]
  /\ days = 0
  /\ reopens = 0

(***************************************************************************)
(* Helpers of the actions.                                                 *)
(***************************************************************************)
Goto(a, from, to) == pc[a] = from /\ pc' = [pc EXCEPT ![a] = to]

\* The iteration ends: back to the select!, its locals are dropped.
DropLocals(a) ==
  /\ pick' = [pick EXCEPT ![a] = NoBounty]
  /\ reply' = [reply EXCEPT ![a] = NewBounty]
  /\ paid' = [paid EXCEPT ![a] = FALSE]

EndIteration(a, from) == Goto(a, from, "asleep") /\ DropLocals(a)

SetLoop(a, s, b) == loop' = [loop EXCEPT ![a] = [state |-> s, bounty |-> b]]

Bump(counter, a) == [counter EXCEPT ![a] = @ + 1]

\* Mutant: the failure is not counted.
GiveUpUncounted(a) ==
  /\ SetLoop(a, "idle", NoBounty)
  /\ timer' = [timer EXCEPT ![a] = "off"]
  /\ UNCHANGED teleVars

\* Mutant: verification_started_at keeps its value.
GiveUpWithClockOn(a) ==
  /\ SetLoop(a, "idle", NoBounty)
  /\ failed' = Bump(failed, a)
  /\ UNCHANGED <<timer, claimed, completed, earned>>

\* The bounty is given up: bounties_failed += 1 and back to Idle.
GiveUp(a) ==
  /\ SetLoop(a, "idle", NoBounty)
  /\ failed' = Bump(failed, a)
  /\ timer' = [timer EXCEPT ![a] = "off"]
  /\ UNCHANGED <<claimed, completed, earned>>

(***************************************************************************)
(* Waking up: select! on the stop signal and the sleep, the status check,  *)
(* the daily reset.                                                        *)
(***************************************************************************)

\* stop_signal.notified() wins the select!: state Stopping, break.
StopSignalled(a) ==
  /\ Goto(a, "asleep", "exiting")
  /\ stopSignal[a]
  /\ stopSignal' = [stopSignal EXCEPT ![a] = FALSE]
  /\ SetLoop(a, "stopping", NoBounty)
  /\ UNCHANGED <<relayVars, cache, dbVars, iterVars, clockVars, timer,
                 teleVars, restarts, supervised, stopPhase>>

\* "Agent marked as stopped in DB, exiting loop".
StoppedInDb(a) ==
  /\ Goto(a, "asleep", "exiting")
  /\ ~stopSignal[a]
  /\ agentStatus[a] = "stopped"
  /\ SetLoop(a, "stopping", NoBounty)
  /\ UNCHANGED <<relayVars, cache, dbVars, iterVars, clockVars, timer,
                 teleVars, superVars>>

\* The poll interval elapsed: reset the daily counter if the date changed.
Wake(a) ==
  /\ Goto(a, "asleep", "awake")
  /\ ~stopSignal[a]
  /\ agentStatus[a] # "stopped"
  /\ dailyClaims' = [dailyClaims EXCEPT ![a] = IF dateStale[a] THEN 0 ELSE @]
  /\ dateStale' = [dateStale EXCEPT ![a] = FALSE]
  /\ UNCHANGED <<relayVars, cache, dbVars, loop, iterVars, timer, teleVars,
                 superVars, days>>

(***************************************************************************)
(* Idle: discover, assess, claim.                                          *)
(***************************************************************************)

AtDailyLimit(a) ==
  /\ EndIteration(a, "awake")
  /\ loop[a].state = "idle"
  /\ dailyClaims[a] >= DailyLimit
  /\ UNCHANGED <<relayVars, cache, dbVars, loop, clockVars, timer,
                 teleVars, superVars>>

\* What discover_bounties returns: the cache without what this harness holds,
\* or, when the cache is empty, whatever the relay lists.
Discovered == IF cache = {} THEN OpenAtRelay ELSE cache \ LocallyClaimed

\* Nothing discovered, the relay unreachable, or nothing fits: back to sleep.
\* An empty cache is refilled only when the relay answers.
DiscoverNothing(a) ==
  /\ EndIteration(a, "awake")
  /\ loop[a].state = "idle"
  /\ dailyClaims[a] < DailyLimit
  /\ cache' \in IF cache = {} THEN {cache, OpenAtRelay} ELSE {cache}
  /\ UNCHANGED <<relayVars, dbVars, loop, clockVars, timer, teleVars,
                 superVars>>

\* Mutant: the state is not set to Assessing.
SelectWhileIdle(a, b) ==
  /\ Goto(a, "awake", "claiming")
  /\ loop[a].state = "idle"
  /\ dailyClaims[a] < DailyLimit
  /\ b \in Discovered
  /\ cache' = IF cache = {} THEN OpenAtRelay ELSE cache
  /\ pick' = [pick EXCEPT ![a] = b]
  /\ UNCHANGED <<relayVars, dbVars, loop, reply, paid, clockVars, timer,
                 teleVars, superVars>>

\* A bounty b fits best; which one depends on scores (module BountySelection).
Select(a, b) ==
  /\ Goto(a, "awake", "claiming")
  /\ loop[a].state = "idle"
  /\ dailyClaims[a] < DailyLimit
  /\ b \in Discovered
  /\ cache' = IF cache = {} THEN OpenAtRelay ELSE cache
  /\ SetLoop(a, "assessing", NoBounty)
  /\ pick' = [pick EXCEPT ![a] = b]
  /\ UNCHANGED <<relayVars, dbVars, reply, paid, clockVars, timer, teleVars,
                 superVars>>

BackToIdle(a) ==
  /\ SetLoop(a, "idle", NoBounty)
  /\ UNCHANGED <<cache, dbVars, clockVars, timer, teleVars,
                 superVars>>

\* The relay grants an open bounty to the agent that asks for it.
RelayGrants(a, b) ==
  /\ relay[b].status = "open"
  /\ relay' = [relay EXCEPT ![b].status = "claimed", ![b].holder = a]
  /\ UNCHANGED reopens

\* POST /claim answered with success.
ClaimGranted(a) ==
  /\ Goto(a, "claiming", "recording")
  /\ RelayGrants(a, pick[a])
  /\ UNCHANGED <<cache, dbVars, loop, iterVars, clockVars, timer, teleVars,
                 superVars>>

\* Mutant: the 409 is taken for a success.
ClaimConflictIgnored(a) ==
  /\ Goto(a, "claiming", "recording")
  /\ relay[pick[a]].status # "open"
  /\ UNCHANGED <<relayVars, cache, dbVars, loop, iterVars, clockVars, timer,
                 teleVars, superVars>>

\* 409, "Bounty already claimed by another agent".
ClaimConflict(a) ==
  /\ EndIteration(a, "claiming")
  /\ relay[pick[a]].status # "open"
  /\ BackToIdle(a)
  /\ UNCHANGED relayVars

\* The agent cannot register, or the claim or its answer is lost.
ClaimLost(a) ==
  /\ "claimLost" \in Disturbances
  /\ EndIteration(a, "claiming")
  /\ BackToIdle(a)
  /\ RelayGrants(a, pick[a]) \/ UNCHANGED relayVars

\* Mutant: INSERT ... ON CONFLICT DO UPDATE SET status = 'claimed'.
RecordClaimUpsert(a) ==
  /\ Goto(a, "recording", "flagging")
  /\ rows' = [rows EXCEPT
                ![a][pick[a]] = IF @ = <<>> THEN <<"claimed">>
                                            ELSE AllRows(@, "claimed")]
  /\ UNCHANGED <<relayVars, cache, dailyDb, agentStatus, loop, iterVars,
                 clockVars, timer, teleVars, superVars>>

\* INSERT INTO bounty_claims (..., 'claimed').
RecordClaim(a) ==
  /\ Goto(a, "recording", "flagging")
  /\ rows' = [rows EXCEPT ![a][pick[a]] = Append(@, "claimed")]
  /\ UNCHANGED <<relayVars, cache, dailyDb, agentStatus, loop, iterVars,
                 clockVars, timer, teleVars, superVars>>

\* The INSERT fails: the tool returns Err, although the relay granted.
RecordClaimFails(a) ==
  /\ "recordFail" \in Disturbances
  /\ EndIteration(a, "recording")
  /\ BackToIdle(a)
  /\ UNCHANGED relayVars

\* UPDATE openclaw_agents SET status = 'working', whatever the status was.
FlagWorking(a) ==
  /\ Goto(a, "flagging", "counting")
  /\ agentStatus' = [agentStatus EXCEPT ![a] = "working"]
  /\ UNCHANGED <<relayVars, cache, rows, dailyDb, loop, iterVars, clockVars,
                 timer, teleVars, superVars>>

\* Mutant: only the database counts.
CountClaimInDbOnly(a) ==
  /\ Goto(a, "counting", "starting")
  /\ dailyDb' = Bump(dailyDb, a)
  /\ UNCHANGED <<relayVars, cache, rows, agentStatus, loop, iterVars,
                 dailyClaims, dateStale, timer, teleVars, superVars, days>>

\* daily_claims += 1; record_daily_claim(), dated when it runs.
CountClaim(a) ==
  /\ Goto(a, "counting", "starting")
  /\ dailyClaims' = Bump(dailyClaims, a)
  /\ dailyDb' = Bump(dailyDb, a)
  /\ UNCHANGED <<relayVars, cache, rows, agentStatus, loop, iterVars,
                 dateStale, timer, teleVars, superVars, days>>

\* telemetry.bounties_claimed += 1; state Executing.
StartWork(a) ==
  /\ EndIteration(a, "starting")
  /\ SetLoop(a, "executing", pick[a])
  /\ claimed' = Bump(claimed, a)
  /\ UNCHANGED <<relayVars, cache, dbVars, clockVars, timer,
                 completed, failed, earned, superVars>>

(***************************************************************************)
(* Executing and Reworking: do the work, then submit whatever came out.    *)
(***************************************************************************)

\* execute_bounty with its two retries, or one execute_bounty_rework; failed
\* or not, its output is submitted.
Execute(a) ==
  /\ Goto(a, "awake", "submitting")
  /\ loop[a].state \in {"executing", "reworking"}
  /\ UNCHANGED <<relayVars, cache, dbVars, loop, iterVars, clockVars, timer,
                 teleVars, superVars>>

\* Anything but "approved" is taken for a pending review.
AwaitVerification(a) ==
  /\ SetLoop(a, "awaiting", loop[a].bounty)
  /\ timer' = [timer EXCEPT ![a] = "running"]
  /\ UNCHANGED <<cache, dbVars, clockVars, teleVars, superVars>>

\* The relay takes work only from the holder of a claimed bounty.
AcceptsWork(a, b) == relay[b].status = "claimed" /\ relay[b].holder = a

\* The relay stores the work: s is "submitted", or "approved" at once.
RelayTakes(a, b, s) ==
  /\ AcceptsWork(a, b)
  /\ relay' = [relay EXCEPT ![b].status = s]
  /\ UNCHANGED reopens

\* POST /submit answered with success.
SubmitAccepted(a) ==
  /\ Goto(a, "submitting", "submitted")
  /\ \E s \in {"submitted", "approved"} : RelayTakes(a, loop[a].bounty, s)
  /\ reply' = [reply EXCEPT ![a] = relay'[loop[a].bounty]]
  /\ UNCHANGED <<cache, dbVars, loop, pick, paid, clockVars, timer, teleVars,
                 superVars>>

\* The relay refuses: the tool result is an error, hence without a status.
SubmitRefused(a) ==
  /\ EndIteration(a, "submitting")
  /\ ~AcceptsWork(a, loop[a].bounty)
  /\ AwaitVerification(a)
  /\ UNCHANGED relayVars

\* The submission or its answer is lost: an error result as well.
SubmitLost(a) ==
  /\ "submitLost" \in Disturbances
  /\ EndIteration(a, "submitting")
  /\ AwaitVerification(a)
  /\ \/ UNCHANGED relayVars
     \/ \E s \in {"submitted", "approved"} : RelayTakes(a, loop[a].bounty, s)

\* UPDATE bounty_claims SET status = 'submitted', then wait for the verdict.
RecordSubmission(a) ==
  /\ EndIteration(a, "submitted")
  /\ reply[a].status # "approved"
  /\ rows' = [rows EXCEPT ![a][loop[a].bounty] = SubmitRows(@)]
  /\ SetLoop(a, "awaiting", loop[a].bounty)
  /\ timer' = [timer EXCEPT ![a] = "running"]
  /\ UNCHANGED <<relayVars, cache, dailyDb, agentStatus, clockVars,
                 teleVars, superVars>>

\* Mutant: every accepted submission is taken for an approval.
RecordAnyApproval(a) ==
  /\ Goto(a, "submitted", "concluding")
  /\ rows' = [rows EXCEPT ![a][loop[a].bounty] = AllRows(@, "approved")]
  /\ agentStatus' = [agentStatus EXCEPT ![a] = "idle"]
  /\ paid' = [paid EXCEPT ![a] = TRUE]
  /\ UNCHANGED <<relayVars, cache, dailyDb, loop, pick, reply, clockVars,
                 timer, teleVars, superVars>>

\* Auto-verified: every row of the agent for the bounty becomes approved and
\* the agent idle.  The relay's answer holds reward_tokens.
RecordAutoApproval(a) ==
  /\ Goto(a, "submitted", "concluding")
  /\ reply[a].status = "approved"
  /\ rows' = [rows EXCEPT ![a][loop[a].bounty] = AllRows(@, "approved")]
  /\ agentStatus' = [agentStatus EXCEPT ![a] = "idle"]
  /\ paid' = [paid EXCEPT ![a] = TRUE]
  /\ UNCHANGED <<relayVars, cache, dailyDb, loop, pick, reply, clockVars,
                 timer, teleVars, superVars>>

(***************************************************************************)
(* AwaitingVerification: time out, or check the status.                    *)
(***************************************************************************)

\* verification_started_at.get_or_insert_with(Instant::now).
StartTimer(a) ==
  timer' = [timer EXCEPT ![a] = IF @ = "off" THEN "running" ELSE @]

VerificationTimeout(a) ==
  /\ EndIteration(a, "awake")
  /\ loop[a].state = "awaiting"
  /\ timer[a] = "expired"
  /\ GiveUp(a)
  /\ UNCHANGED <<relayVars, cache, dbVars, clockVars, superVars>>

\* The latest local row is resolved: the tool answers from it, with tokens.
CheckLocal(a) ==
  /\ Goto(a, "awake", "concluding")
  /\ loop[a].state = "awaiting"
  /\ timer[a] # "expired"
  /\ LatestRow(a, loop[a].bounty) \in Resolved
  /\ StartTimer(a)
  /\ reply' = [reply EXCEPT ![a].status = LatestRow(a, loop[a].bounty)]
  /\ paid' = [paid EXCEPT ![a] = TRUE]
  /\ UNCHANGED <<relayVars, cache, dbVars, loop, pick, clockVars, teleVars,
                 superVars>>

\* GET /bounties/{id} answers with the bounty, whoever holds it now.
CheckRelay(a) ==
  /\ Goto(a, "awake", "verdict")
  /\ loop[a].state = "awaiting"
  /\ timer[a] # "expired"
  /\ LatestRow(a, loop[a].bounty) \notin Resolved
  /\ StartTimer(a)
  /\ reply' = [reply EXCEPT ![a] = relay[loop[a].bounty]]
  /\ paid' = [paid EXCEPT ![a] = FALSE]
  /\ UNCHANGED <<relayVars, cache, dbVars, loop, pick, clockVars, teleVars,
                 superVars>>

\* The relay is unreachable or answers an error: keep waiting.
CheckLost(a) ==
  /\ "checkLost" \in Disturbances
  /\ EndIteration(a, "awake")
  /\ loop[a].state = "awaiting"
  /\ timer[a] # "expired"
  /\ LatestRow(a, loop[a].bounty) \notin Resolved
  /\ StartTimer(a)
  /\ UNCHANGED <<relayVars, cache, dbVars, loop, clockVars, teleVars,
                 superVars>>

\* Approved or rejected: every row takes the status, the agent is idle again.
SettleVerdict(a) ==
  /\ Goto(a, "verdict", "concluding")
  /\ reply[a].status \in Resolved
  /\ rows' = [rows EXCEPT ![a][loop[a].bounty] = AllRows(@, reply[a].status)]
  /\ agentStatus' = [agentStatus EXCEPT ![a] = "idle"]
  /\ UNCHANGED <<relayVars, cache, dailyDb, loop, iterVars, clockVars, timer,
                 teleVars, superVars>>

\* status "claimed" with revision_count > 0 and a revision_feedback.
RevisionRequested(a) ==
  /\ reply[a].status = "claimed"
  /\ reply[a].revisions > 0
  /\ reply[a].feedback

\* Mutant: no limit on revisions.
StartReworkUnlimited(a) ==
  /\ EndIteration(a, "verdict")
  /\ RevisionRequested(a)
  /\ SetLoop(a, "reworking", loop[a].bounty)
  /\ timer' = [timer EXCEPT ![a] = "off"]
  /\ UNCHANGED <<relayVars, cache, dbVars, clockVars, teleVars, superVars>>

StartRework(a) ==
  /\ EndIteration(a, "verdict")
  /\ RevisionRequested(a)
  /\ reply[a].revisions <= MaxRevisions
  /\ SetLoop(a, "reworking", loop[a].bounty)
  /\ timer' = [timer EXCEPT ![a] = "off"]
  /\ UNCHANGED <<relayVars, cache, dbVars, clockVars, teleVars,
                 superVars>>

\* "Max revisions exceeded, giving up".
TooManyRevisions(a) ==
  /\ EndIteration(a, "verdict")
  /\ RevisionRequested(a)
  /\ reply[a].revisions > MaxRevisions
  /\ GiveUp(a)
  /\ UNCHANGED <<relayVars, cache, dbVars, clockVars, superVars>>

StillPending(a) ==
  /\ EndIteration(a, "verdict")
  /\ reply[a].status \notin Resolved
  /\ ~RevisionRequested(a)
  /\ UNCHANGED <<relayVars, cache, dbVars, loop, clockVars, timer,
                 teleVars, superVars>>

\* Mutant: the state stays where it is, and the approval is found again.
ConcludeApprovedAgain(a) ==
  /\ EndIteration(a, "concluding")
  /\ reply[a].status = "approved"
  /\ completed' = Bump(completed, a)
  /\ UNCHANGED <<relayVars, cache, dbVars, loop, clockVars, timer, claimed,
                 failed, earned, superVars>>

\* The loop's own bookkeeping of an approval: telemetry, Idle.
ConcludeApproved(a) ==
  /\ EndIteration(a, "concluding")
  /\ reply[a].status = "approved"
  /\ SetLoop(a, "idle", NoBounty)
  /\ completed' = Bump(completed, a)
  /\ earned' = IF paid[a] THEN Bump(earned, a) ELSE earned
  /\ timer' = IF loop[a].state = "awaiting"
                THEN [timer EXCEPT ![a] = "off"] ELSE timer
  /\ UNCHANGED <<relayVars, cache, dbVars, clockVars, claimed,
                 failed, superVars>>

\* Mutant: a rejected bounty is counted as completed.
ConcludeRejectedAsWin(a) ==
  /\ EndIteration(a, "concluding")
  /\ reply[a].status = "rejected"
  /\ SetLoop(a, "idle", NoBounty)
  /\ completed' = Bump(completed, a)
  /\ timer' = [timer EXCEPT ![a] = "off"]
  /\ UNCHANGED <<relayVars, cache, dbVars, clockVars, claimed, failed, earned,
                 superVars>>

ConcludeRejected(a) ==
  /\ EndIteration(a, "concluding")
  /\ reply[a].status = "rejected"
  /\ GiveUp(a)
  /\ UNCHANGED <<relayVars, cache, dbVars, clockVars, superVars>>

(***************************************************************************)
(* The remaining arms of the match, and the exit.                          *)
(***************************************************************************)

\* Assessing is only seen here after a panic in the middle of an iteration.
LeaveAssessing(a) ==
  /\ EndIteration(a, "awake")
  /\ loop[a].state = "assessing"
  /\ BackToIdle(a)
  /\ UNCHANGED relayVars

\* Stopping is only seen here after a panic on the way out.
LeaveStopping(a) ==
  /\ Goto(a, "awake", "exiting")
  /\ loop[a].state = "stopping"
  /\ UNCHANGED <<relayVars, cache, dbVars, loop, iterVars, clockVars, timer,
                 teleVars, superVars>>

\* Final telemetry flush, status 'stopped'; supervised_run sees a clean exit.
Exit(a) ==
  /\ Goto(a, "exiting", "down")
  /\ agentStatus' = [agentStatus EXCEPT ![a] = "stopped"]
  /\ timer' = [timer EXCEPT ![a] = "off"]
  /\ UNCHANGED <<relayVars, cache, rows, dailyDb, loop, iterVars, clockVars,
                 teleVars, superVars>>

(***************************************************************************)
(* FleetManager::supervised_run.                                           *)
(***************************************************************************)

\* Mutant: the supervisor restarts run() for ever.
PanicUnlimited(a) ==
  /\ "panic" \in Disturbances
  /\ pc[a] \notin {"backoff", "down"}
  /\ DropLocals(a)
  /\ timer' = [timer EXCEPT ![a] = "off"]
  /\ restarts' = Bump(restarts, a)
  /\ pc' = [pc EXCEPT ![a] = IF supervised[a] THEN "backoff" ELSE "down"]
  /\ UNCHANGED <<relayVars, cache, dbVars, loop, clockVars, teleVars,
                 supervised, stopSignal, stopPhase>>

\* run() panics.  self.state survives; the locals of run() do not.  Beyond
\* MAX_RESTART_ATTEMPTS the supervisor marks the agent 'error'; without a
\* supervisor nothing happens.
Panic(a) ==
  /\ "panic" \in Disturbances
  /\ pc[a] \notin {"backoff", "down"}
  /\ DropLocals(a)
  /\ timer' = [timer EXCEPT ![a] = "off"]
  /\ restarts' = IF supervised[a] THEN Bump(restarts, a) ELSE restarts
  /\ IF supervised[a] /\ restarts[a] < MaxRestarts
       THEN /\ pc' = [pc EXCEPT ![a] = "backoff"]
            /\ UNCHANGED agentStatus
       ELSE /\ pc' = [pc EXCEPT ![a] = "down"]
            /\ agentStatus' = [agentStatus EXCEPT
                                 ![a] = IF supervised[a] THEN "error" ELSE @]
  /\ UNCHANGED <<relayVars, cache, rows, dailyDb, loop, clockVars, teleVars,
                 supervised, stopSignal, stopPhase>>

\* After the backoff run() starts again and loads today's count.
Restart(a) ==
  /\ Goto(a, "backoff", "asleep")
  /\ dailyClaims' = [dailyClaims EXCEPT ![a] = dailyDb[a]]
  /\ dateStale' = [dateStale EXCEPT ![a] = FALSE]
  /\ UNCHANGED <<relayVars, cache, dbVars, loop, iterVars, timer, days,
                 teleVars, superVars>>

(***************************************************************************)
(* Stopping an agent from outside.                                         *)
(***************************************************************************)

\* Mutant: notify_waiters(), which stores no permit for a busy agent.
StopRequestUnstored(a) ==
  /\ stopPhase[a] = "none"
  /\ stopPhase' = [stopPhase EXCEPT ![a] = "signalled"]
  /\ stopSignal' = [stopSignal EXCEPT ![a] = pc[a] = "asleep"]
  /\ UNCHANGED <<relayVars, cache, dbVars, taskVars, teleVars, restarts,
                 supervised, days>>

\* FleetManager::stop_agent stores the permit ...
StopRequest(a) ==
  /\ stopPhase[a] = "none"
  /\ stopPhase' = [stopPhase EXCEPT ![a] = "signalled"]
  /\ stopSignal' = [stopSignal EXCEPT ![a] = TRUE]
  /\ UNCHANGED <<relayVars, cache, dbVars, taskVars, teleVars, restarts,
                 supervised, days>>

\* ... and within five seconds the task has finished, or the supervisor (not
\* the run() it spawned) is aborted.  The row says 'stopped' either way.
StopFinish(a) ==
  /\ stopPhase[a] = "signalled"
  /\ stopPhase' = [stopPhase EXCEPT ![a] = "done"]
  /\ agentStatus' = [agentStatus EXCEPT ![a] = "stopped"]
  /\ IF pc[a] = "down"
       THEN UNCHANGED <<supervised, pc>>
       ELSE /\ supervised' = [supervised EXCEPT ![a] = FALSE]
            /\ pc' = [pc EXCEPT ![a] = IF @ = "backoff" THEN "down" ELSE @]
  /\ UNCHANGED <<relayVars, cache, rows, dailyDb, loop, iterVars, clockVars,
                 timer, teleVars, restarts, stopSignal>>

\* The openclaw "stop" tool only writes the row.
StopByTool(a) ==
  /\ "toolStop" \in Disturbances
  /\ agentStatus[a] # "stopped"
  /\ agentStatus' = [agentStatus EXCEPT ![a] = "stopped"]
  /\ UNCHANGED <<relayVars, cache, rows, dailyDb, taskVars, teleVars,
                 superVars, days>>

(***************************************************************************)
(* The relay and the clock.                                                *)
(***************************************************************************)

\* A request for revision makes the bounty "claimed" again, with feedback or
\* without.
RelayRevision(b, f) ==
  relay' = [relay EXCEPT
              ![b].status = "claimed",
              ![b].revisions = IF @ > MaxRevisions THEN @ ELSE @ + 1,
              ![b].feedback = f]

\* Verification of submitted work.
RelayVerdict(b) ==
  /\ relay[b].status = "submitted"
  /\ \/ \E s \in Resolved : relay' = [relay EXCEPT ![b].status = s]
     \/ \E f \in BOOLEAN : RelayRevision(b, f)
  /\ UNCHANGED <<reopens, cache, dbVars, taskVars, teleVars, superVars, days>>

\* A rejected bounty is offered again (claimed_bounty_ids leaves it claimable).
RelayReopens(b) ==
  /\ reopens < MaxReopens
  /\ relay[b].status = "rejected"
  /\ relay' = [relay EXCEPT ![b] = NewBounty]
  /\ reopens' = reopens + 1
  /\ UNCHANGED <<cache, dbVars, taskVars, teleVars, superVars, days>>

\* relay_sync replaces the cache by what the relay lists.
SyncCache ==
  /\ cache' = OpenAtRelay
  /\ UNCHANGED <<relayVars, dbVars, taskVars, teleVars, superVars, days>>

Midnight ==
  /\ days < MaxDays
  /\ days' = days + 1
  /\ dailyDb' = [a \in Agents |-> 0]
  /\ dateStale' = [a \in Agents |-> TRUE]
  /\ UNCHANGED <<relayVars, cache, rows, agentStatus, loop, pc, iterVars,
                 dailyClaims, timer, teleVars, superVars>>

\* verification_timeout_secs have passed since the timer was started.
TimerExpires(a) ==
  /\ timer[a] = "running"
  /\ timer' = [timer EXCEPT ![a] = "expired"]
  /\ UNCHANGED <<relayVars, cache, dbVars, loop, pc, iterVars, clockVars,
                 teleVars, superVars>>

(***************************************************************************)
(* The specification.                                                      *)
(***************************************************************************)

Iterate(a) ==
  \/ StopSignalled(a) \/ StoppedInDb(a) \/ Wake(a)
  \/ AtDailyLimit(a) \/ DiscoverNothing(a)
  \/ \E b \in Bounties : Select(a, b)
  \/ ClaimGranted(a) \/ ClaimConflict(a) \/ ClaimLost(a)
  \/ RecordClaim(a) \/ RecordClaimFails(a) \/ FlagWorking(a)
  \/ CountClaim(a) \/ StartWork(a)
  \/ Execute(a) \/ SubmitAccepted(a) \/ SubmitRefused(a) \/ SubmitLost(a)
  \/ RecordSubmission(a) \/ RecordAutoApproval(a)
  \/ VerificationTimeout(a)
  \/ CheckLocal(a) \/ CheckRelay(a) \/ CheckLost(a)
  \/ SettleVerdict(a) \/ StartRework(a) \/ TooManyRevisions(a)
  \/ StillPending(a) \/ ConcludeApproved(a) \/ ConcludeRejected(a)
  \/ LeaveAssessing(a) \/ LeaveStopping(a) \/ Exit(a) \/ Restart(a)

Environment ==
  \/ \E a \in Agents : \/ Panic(a) \/ TimerExpires(a)
                       \/ StopRequest(a) \/ StopFinish(a) \/ StopByTool(a)
  \/ \E b \in Bounties : RelayVerdict(b) \/ RelayReopens(b)
  \/ SyncCache \/ Midnight

Next == (\E a \in Agents : Iterate(a)) \/ Environment

Spec == Init /\ [][Next]_vars

\* The runtime keeps polling each spawned task, the clock advances, and
\* stop_agent runs to its end; the relay, users and failures owe nothing.
Fairness ==
  \A a \in Agents :
    WF_vars(Iterate(a)) /\ WF_vars(TimerExpires(a)) /\ WF_vars(StopFinish(a))

FairSpec == Spec /\ Fairness

(***************************************************************************)
(* Properties.                                                             *)
(***************************************************************************)

RelayTypeOK ==
  /\ relay \in [Bounties -> RelayRecord]
  /\ cache \subseteq Bounties
  /\ reopens \in 0 .. MaxReopens
  /\ days \in 0 .. MaxDays

DbTypeOK ==
  /\ rows \in [Agents -> [Bounties -> Seq(RowStatus)]]
  /\ dailyDb \in [Agents -> Nat]
  /\ agentStatus \in [Agents -> AgentStatus]

TaskTypeOK ==
  /\ loop \in [Agents -> Loop]
  /\ pc \in [Agents -> PCs]
  /\ pick \in [Agents -> Bounties \cup {NoBounty}]
  /\ reply \in [Agents -> RelayRecord]
  /\ paid \in [Agents -> BOOLEAN]
  /\ dailyClaims \in [Agents -> Nat]
  /\ dateStale \in [Agents -> BOOLEAN]
  /\ timer \in [Agents -> {"off", "running", "expired"}]

TelemetryTypeOK ==
  /\ claimed \in [Agents -> Nat]
  /\ completed \in [Agents -> Nat]
  /\ failed \in [Agents -> Nat]
  /\ earned \in [Agents -> Nat]

SupervisorTypeOK ==
  /\ restarts \in [Agents -> 0 .. MaxRestarts + 1]
  /\ supervised \in [Agents -> BOOLEAN]
  /\ stopSignal \in [Agents -> BOOLEAN]
  /\ stopPhase \in [Agents -> {"none", "signalled", "done"}]

\* Every variable stays in its type.
TypeOK ==
  /\ RelayTypeOK
  /\ DbTypeOK
  /\ TaskTypeOK
  /\ TelemetryTypeOK
  /\ SupervisorTypeOK

\* Between best_bounty and the state Executing.
ClaimPCs ==
  {"claiming", "recording", "flagging", "counting", "starting"}

\* self.state, which survives a panic, and the point that run() has reached,
\* which does not, never disagree: a claim in progress has its bounty and no
\* other work, and a submission, a verdict or a conclusion always finds the
\* bounty it is about in the state.
Phase(a) ==
  /\ Busy(a) <=> loop[a].bounty \in Bounties
  /\ pc[a] \in ClaimPCs => loop[a].state = "assessing" /\ pick[a] \in Bounties
  /\ pc[a] \in {"submitting", "submitted"} =>
       loop[a].state \in {"executing", "reworking"}
  /\ pc[a] = "verdict" => loop[a].state = "awaiting"
  /\ pc[a] = "concluding" => Busy(a) /\ reply[a].status \in Resolved
  /\ pc[a] = "exiting" => loop[a].state = "stopping"

PhaseOK == \A a \in Agents : Phase(a)

\* The telemetry that rebalancing and trust decisions read adds up: a claimed
\* bounty has been counted once as completed or failed, or is the one the loop
\* still works on, through retries, revisions, timeouts, panics and restarts.
Balanced(a) ==
  LET closed == completed[a] + failed[a]
  IN  IF loop[a].state = "stopping"
        THEN claimed[a] \in {closed, closed + 1}
        ELSE claimed[a] = closed + (IF Busy(a) THEN 1 ELSE 0)

ClaimAccounting == \A a \in Agents : Balanced(a)

\* bounty_claims never says approved for work the relay did not approve: the
\* local short cut of check_bounty_status can be believed.
LocalApprovalIsReal ==
  \A a \in Agents, b \in Bounties : \A i \in DOMAIN rows[a][b] :
    rows[a][b][i] = "approved" => relay[b].status = "approved"

\* An agent never counts the same approved bounty twice, although a panic
\* between the database writes and the telemetry makes it conclude again.
CompletedOncePerApproval ==
  \A a \in Agents : completed[a] <= Cardinality(ApprovedBounties)

\* A bounty never inherits the verification clock of the one before it.
FreshTimer ==
  \A a \in Agents :
    loop[a].state \notin {"awaiting", "stopping"} => timer[a] = "off"

\* As long as the relay has taken no bounty back, the loop works only on a
\* bounty the relay has granted to that very agent, so that no two agents of
\* the fleet ever work on the same bounty.
WorkerIsHolder ==
  reopens = 0 =>
    \A a \in Agents : Busy(a) => relay[loop[a].bounty].holder = a

\* Panics do not raise the daily limit: at most one claim above it is recorded
\* on a day, the one that was under way at midnight.
DailyOvershoot ==
  \A a \in Agents : dailyDb[a] <= DailyLimit + 1

\* An approved claim row is final, and a submitted one is not claimed again.
RowsMoveForward ==
  [][\A a \in Agents, b \in Bounties : \A i \in DOMAIN rows[a][b] :
       /\ i \in DOMAIN rows'[a][b]
       /\ rows[a][b][i] = "approved" => rows'[a][b][i] = "approved"
       /\ rows[a][b][i] = "submitted" => rows'[a][b][i] # "claimed"]_rows

\* A claimed bounty does not keep an agent busy for ever: it is concluded,
\* given up by the verification timeout or the revision limit, or the agent
\* goes down.
BusyResolves ==
  \A a \in Agents : Busy(a) ~> (~Busy(a) \/ pc[a] = "down")

\* An agent told to stop goes down and stays down, even when stop_agent lost
\* patience and only aborted the supervisor; the row ends as 'stopped'.
StopHonoured ==
  \A a \in Agents :
    stopPhase[a] = "signalled" ~>
      [](pc[a] = "down" /\ agentStatus[a] = "stopped")

\* The loop implements the abstract ledger of claimed bounties.
Ledger ==
  INSTANCE BountyLedger WITH
    work <- [a \in Agents |-> IF Busy(a) THEN loop[a].bounty ELSE NoBounty],
    taken <- claimed,
    wins <- completed,
    losses <- failed,
    halted <- {a \in Agents : loop[a].state = "stopping"},
    approved <- ApprovedBounties

ImplementsLedger == Ledger!Spec
=============================================================================
