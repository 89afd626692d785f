---- MODULE MCWork -----------------------------------------------------------
(****************************************************************************)
(* The parts of the harness that hand work around, checked side by side:    *)
(* the task queue, the automation engine, the gateway to agents and the     *)
(* agents' desk.                                                            *)
(****************************************************************************)
EXTENDS Naturals, Sequences, FiniteSets, TLC

CONSTANTS Tasks, External, Workers, Nobody, Cancellers, NoTask, Messages,
          Readers, Autos, NoAuto, Trigger, Action, Entries, Capacity,
          ChainLimit, MaxAttempts, Batch, MaxEvents, MaxFaults, MaxRequeues,
          Agents, NoAgent, Users, Slots, MaxRequests, MaxBreaks, DeskAgents,
          NoOne, Jobs, Calls, hook, echo

VARIABLES part, taskStatus, assignee, hasResult, spawned, cancelling, granted,
          posted, toAmos, acknowledged, batch, delivered, autos, channel,
          running, retries, held, sending, sent, emitted, faults, requeues,
          link, connected, pending, outgoing, arrived, answers, refusals,
          reply, call, request, agentRow, gatewayIds, active, remote, breaks,
          blemished, deskStatus, job, doing

queueVars == <<taskStatus, assignee, hasResult, spawned, cancelling, granted>>
messagesVars == <<posted, toAmos, acknowledged, batch, delivered>>
automationsVars == <<autos, channel, running, retries, held, sending, sent,
                     emitted, faults, requeues>>
gatewayVars == <<link, connected, pending, outgoing, arrived, answers,
                 refusals, reply, call, request, agentRow, gatewayIds, active,
                 remote, breaks, blemished>>
deskVars == <<deskStatus, job, doing>>
vars == <<part, queueVars, messagesVars, automationsVars, gatewayVars,
          deskVars>>

\* A webhook on records, and an automation that runs after any other.
MCTrigger == (hook :> "record") @@ (echo :> "any")
MCAction == (hook :> "call_webhook") @@ (echo :> "create_record")

TaskQueue == INSTANCE TaskQueue
TaskMessages == INSTANCE TaskMessages
Automations == INSTANCE Automations
OpenClawGateway == INSTANCE OpenClawGateway
AgentDesk == INSTANCE AgentDesk

\* What the proofs assume of the constants.
ASSUME ConstantsOfWork ==
  /\ NoTask \notin Tasks /\ NoOne \notin DeskAgents /\ NoAgent \notin Agents
  /\ Action \in [Autos -> Automations!ActionType]
  /\ {Capacity, ChainLimit, Slots, MaxRequests} \subseteq Nat
  /\ MaxAttempts \in Nat \ {0}
  /\ IsFiniteSet(Entries) /\ IsFiniteSet(Users)

\* Which part moves is chosen once: the parts share no state.
Parts == {"queue", "messages", "automations", "gateway", "desk"}

Init ==
  /\ part \in Parts
  /\ TaskQueue!Init
  /\ TaskMessages!Init
  /\ Automations!Init
  /\ OpenClawGateway!Init
  /\ AgentDesk!Init

Next ==
  /\ UNCHANGED part
  /\ \/ part = "queue" /\ TaskQueue!Next
        /\ UNCHANGED <<messagesVars, automationsVars, gatewayVars, deskVars>>
     \/ part = "messages" /\ TaskMessages!Next
        /\ UNCHANGED <<queueVars, automationsVars, gatewayVars, deskVars>>
     \/ part = "automations" /\ Automations!Next
        /\ UNCHANGED <<queueVars, messagesVars, gatewayVars, deskVars>>
     \/ part = "gateway" /\ OpenClawGateway!Next
        /\ UNCHANGED <<queueVars, messagesVars, automationsVars, deskVars>>
     \/ part = "desk" /\ AgentDesk!Next
        /\ UNCHANGED <<queueVars, messagesVars, automationsVars, gatewayVars>>

Spec == Init /\ [][Next]_vars

\* No fair action of a part is enabled in its initial states, so the fairness
\* of a part that does not move asks nothing.
FairSpec ==
  /\ Spec
  /\ Automations!Fairness
  /\ OpenClawGateway!Fairness

TypeOK ==
  /\ TaskQueue!TypeOK
  /\ TaskMessages!TypeOK
  /\ Automations!TypeOK
  /\ OpenClawGateway!TypeOK
  /\ AgentDesk!TypeOK

\* Work has one holder, whatever races with claims, cancels, crashes and requeues:
\* no two workers are told that an external task is theirs, no message is
\* acknowledged unread, no retry is tried more often than allowed or left in
\* progress without a crash or a lost UPDATE, and no stopped agent keeps a task.
WorkIsHeld ==
  /\ part = "queue" => TaskQueue!GrantedOnce
  /\ part = "messages" => TaskMessages!AcknowledgedWereRead
  /\ part = "automations" =>
       /\ Automations!AttemptsBounded
       /\ Automations!InProgressIsHeld
  /\ part = "desk" => AgentDesk!StoppedHasNoTask

\* No interleaving of requests, breaks, late answers and timeouts loses a call
\* that awaits its answer, or keeps an entry nobody waits for; and the gateway
\* runs an agent nobody can stop only after calls on it overlapped, or one was
\* refused, broken or timed out (openclaw/mod.rs, send_request and its task).
GatewayKnows ==
  part = "gateway" =>
    /\ OpenClawGateway!WaitersAreKnown
    /\ OpenClawGateway!PendingIsAwaited
    /\ OpenClawGateway!NoOrphans

\* A task that nobody was about to cancel when it ended, and that nobody
\* reports on any more, is not cancelled: only a cancel that had read the status
\* before may still overwrite it (task_tools.rs, cancel_task).
CancelsWereUnderWay == TaskQueue!CancelsWereUnderWay

\* Automations that start each other come to an end when events from outside
\* do, a waiting retry is settled unless a fault leaves it in progress, and
\* whoever has queued a request to the gateway gets out.
EverythingSettles ==
  /\ Automations!ChainsEnd
  /\ Automations!RetriesSettle
  /\ OpenClawGateway!WaitingEnds

==============================================================================
