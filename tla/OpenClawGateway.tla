-------------------------- MODULE OpenClawGateway --------------------------
(***************************************************************************)
(* The connection to the OpenClaw gateway and the AgentManager on top of   *)
(* it (amos-harness/src/openclaw/mod.rs).  One connection task reads and   *)
(* writes the web socket; requests reach it through a bounded queue and    *)
(* are matched with their responses by id in the map of pending requests.  *)
(* Callers activate and stop agents: a row of openclaw_agents, the agent   *)
(* the gateway runs for it, and two maps in memory.                        *)
(*                                                                         *)
(* The gateway is external: it executes what it receives or answers with   *)
(* an error.  A break of the link loses what is on the wire.               *)
(***************************************************************************)
EXTENDS Naturals, Sequences, FiniteSets

CONSTANTS
  Agents, NoAgent, \* agents of the manager
  Users,           \* concurrent calls of the manager
  Slots,           \* length of the outgoing queue: 256 in the code
  MaxRequests,     \* bound: requests made
  MaxBreaks        \* bound: breaks of the link and failed sends

VARIABLES
  link,       \* "down", "up", or "closing": after a break, flags still set
  connected,  \* the flag that send_request reads
  pending,    \* ids in pending_requests
  outgoing,   \* the mpsc queue of frames
  arrived,    \* requests the gateway has received
  answers,    \* requests answered well, not yet read
  refusals,   \* requests answered with an error, not yet read
  reply,      \* [Requests -> what the oneshot channel holds]
  call,       \* [Users -> the operation under way]
  request,    \* [Requests -> the operation it was made for]
  agentRow,   \* status column of an agent
  gatewayIds, \* gateway_agent_ids: [Agents -> id of the create request]
  active,     \* keys of active_agents
  remote,     \* agents of the gateway that run, by their create request
  breaks,     \* breaks so far
  blemished   \* history: agents with an overlap, a timeout, an error...

\* Ids are fresh; they are numbered as they are drawn.
Requests == 1 .. MaxRequests
NoRequest == 0

linkVars == <<link, connected, outgoing, breaks>>
wireVars == <<arrived, answers, refusals, remote>>
rowVars == <<agentRow, gatewayIds, active>>
vars == <<linkVars, wireVars, rowVars, pending, reply, call, request,
          blemished>>

\* An operation, its agent, the agent of the gateway that it stops, the id of
\* its request and how far it is.
Operation(op, a, target, at) ==
  [op |-> op, agent |-> a, target |-> target, req |-> NoRequest, at |-> at]

Idle == Operation("idle", NoAgent, NoRequest, "idle")

Init ==
  /\ link = "down" /\ connected = FALSE /\ outgoing = <<>> /\ breaks = 0
  /\ pending = {} /\ arrived = {} /\ answers = {} /\ refusals = {}
  /\ reply = [r \in Requests |-> "none"]
  /\ call = [u \in Users |-> Idle]
  /\ request = [r \in Requests |-> Idle]
  /\ agentRow = [a \in Agents |-> "registered"]
  /\ gatewayIds = [a \in Agents |-> NoRequest]
  /\ active = {} /\ remote = {} /\ blemished = {}

(***************************************************************************)
(* The connection task.                                                    *)
(***************************************************************************)
Connect ==
  /\ link = "down"
  /\ link' = "up" /\ connected' = TRUE
  /\ UNCHANGED <<outgoing, breaks, wireVars, rowVars, pending, reply, call,
                 request, blemished>>

Transmit ==
  /\ link = "up" /\ outgoing # <<>>
  /\ outgoing' = Tail(outgoing)
  /\ arrived' = arrived \union {Head(outgoing)}
  /\ UNCHANGED <<link, connected, breaks, answers, refusals, remote, rowVars,
                 pending, reply, call, request, blemished>>

\* handle_frame: the entry leaves the map; the value goes to whoever waits.  An
\* error answer is sent as {} , which only agents.create tells from success.
Receive(r) ==
  /\ link = "up" /\ r \in answers \union refusals
  /\ answers' = answers \ {r} /\ refusals' = refusals \ {r}
  /\ pending' = pending \ {r}
  /\ reply' = IF r \notin pending THEN reply
              ELSE [reply EXCEPT ![r] = IF r \in answers THEN "payload"
                                                         ELSE "empty"]
  /\ UNCHANGED <<linkVars, arrived, remote, rowVars, call, request, blemished>>

\* The socket ends, or a frame cannot be written and is lost.
Break ==
  /\ link = "up" /\ breaks < MaxBreaks
  /\ link' = "closing" /\ breaks' = breaks + 1
  /\ \/ outgoing' = outgoing
     \/ outgoing # <<>> /\ outgoing' = Tail(outgoing)
  /\ arrived' = {} /\ answers' = {} /\ refusals' = {}
  /\ UNCHANGED <<connected, remote, rowVars, pending, reply, call, request,
                 blemished>>

ClearFlags ==
  /\ link = "closing" /\ connected
  /\ connected' = FALSE
  /\ UNCHANGED <<link, outgoing, breaks, wireVars, rowVars, pending, reply,
                 call, request, blemished>>

\* Mutant of ClearPending: the senders are kept elsewhere and not dropped.
ClearWithoutDrop ==
  /\ link = "closing" /\ ~connected
  /\ link' = "down" /\ pending' = {}
  /\ UNCHANGED <<connected, outgoing, breaks, wireVars, rowVars, reply, call,
                 request, blemished>>

\* pending_requests.clear() drops the senders.
ClearPending ==
  /\ link = "closing" /\ ~connected
  /\ link' = "down"
  /\ reply' = [r \in Requests |-> IF r \in pending THEN "closed" ELSE reply[r]]
  /\ pending' = {}
  /\ blemished' = blemished \union {request[r].agent : r \in pending}
  /\ UNCHANGED <<connected, outgoing, breaks, wireVars, rowVars, call, request>>

(***************************************************************************)
(* The gateway.                                                            *)
(***************************************************************************)
GatewayServes(r) ==
  /\ r \in arrived
  /\ arrived' = arrived \ {r}
  /\ answers' = IF link = "up" THEN answers \union {r} ELSE answers
  /\ remote' = IF request[r].op = "activate" THEN remote \union {r}
                                             ELSE remote \ {request[r].target}
  /\ UNCHANGED <<linkVars, refusals, rowVars, pending, reply, call, request,
                 blemished>>

GatewayRefuses(r) ==
  /\ r \in arrived
  /\ arrived' = arrived \ {r}
  /\ refusals' = IF link = "up" THEN refusals \union {r} ELSE refusals
  /\ blemished' = blemished \union {request[r].agent}
  /\ UNCHANGED <<linkVars, answers, remote, rowVars, pending, reply, call,
                 request>>

(***************************************************************************)
(* The manager.                                                            *)
(***************************************************************************)
Goto(u, at) == call' = [call EXCEPT ![u].at = at]

Drawn == Cardinality({r \in Requests : request[r] # Idle})

Busy(a) == \E u \in Users : call[u].agent = a

Begin(u, operation) ==
  /\ call[u] = Idle
  /\ Cardinality({v \in Users : call[v].at = "asking"}) < MaxRequests - Drawn
  /\ call' = [call EXCEPT ![u] = operation]
  /\ blemished' = IF \/ Busy(operation.agent)
                     \/ /\ operation.op = "activate"
                        /\ gatewayIds[operation.agent] # NoRequest
                  THEN blemished \union {operation.agent} ELSE blemished

\* stop_agent keeps the write guard on gateway_agent_ids through its request:
\* the guard is a temporary of the `if let` (openclaw/mod.rs:592).
IdsLocked ==
  \E u \in Users :
    call[u].op = "stop" /\ call[u].at \in {"asking", "queueing", "waiting"}

\* activate_agent writes the row first.
ActivateBegins(u, a) ==
  /\ Begin(u, Operation("activate", a, NoRequest, "asking"))
  /\ agentRow' = [agentRow EXCEPT ![a] = "active"]
  /\ UNCHANGED <<linkVars, wireVars, gatewayIds, active, pending, reply,
                 request>>

\* stop_agent takes the gateway's id out of the map; without one it asks
\* nothing.
StopBegins(u, a) ==
  /\ ~IdsLocked
  /\ Begin(u, Operation("stop", a, gatewayIds[a],
                 IF gatewayIds[a] = NoRequest THEN "ending" ELSE "asking"))
  /\ gatewayIds' = [gatewayIds EXCEPT ![a] = NoRequest]
  /\ UNCHANGED <<linkVars, wireVars, agentRow, active, pending, reply, request>>

\* send_request when the flag is down: an error at once.
NotConnected(u) ==
  /\ call[u].at = "asking" /\ ~connected
  /\ Goto(u, "ending")
  /\ blemished' = blemished \union {call[u].agent}
  /\ UNCHANGED <<linkVars, wireVars, rowVars, pending, reply, request>>

\* Otherwise the id is entered in the map,
Ask(u) ==
  /\ call[u].at = "asking" /\ connected
  /\ LET r == Drawn + 1
     IN  /\ pending' = pending \union {r}
         /\ request' = [request EXCEPT ![r] = call[u]]
         /\ call' = [call EXCEPT ![u].req = r, ![u].at = "queueing"]
  /\ UNCHANGED <<linkVars, wireVars, rowVars, reply, blemished>>

\* Mutant of Enqueue: an unbounded channel.
EnqueueUnbounded(u) ==
  /\ call[u].at = "queueing"
  /\ outgoing' = Append(outgoing, call[u].req)
  /\ Goto(u, "waiting")
  /\ UNCHANGED <<link, connected, breaks, wireVars, rowVars, pending, reply,
                 request, blemished>>

\* and the frame waits for a slot of the queue, without a timeout.
Enqueue(u) ==
  /\ call[u].at = "queueing" /\ Len(outgoing) < Slots
  /\ outgoing' = Append(outgoing, call[u].req)
  /\ Goto(u, "waiting")
  /\ UNCHANGED <<link, connected, breaks, wireVars, rowVars, pending, reply,
                 request, blemished>>

Answered(u) ==
  /\ call[u].at = "waiting" /\ reply[call[u].req] # "none"
  /\ Goto(u, IF call[u].op = "activate" /\ reply[call[u].req] = "payload"
             THEN "storing" ELSE "ending")
  /\ UNCHANGED <<linkVars, wireVars, rowVars, pending, reply, request,
                 blemished>>

\* An activation enters the id of its agent once it has the lock.
Store(u) ==
  /\ call[u].at = "storing" /\ ~IdsLocked
  /\ gatewayIds' = [gatewayIds EXCEPT ![call[u].agent] = call[u].req]
  /\ Goto(u, "ending")
  /\ UNCHANGED <<linkVars, wireVars, agentRow, active, pending, reply, request,
                 blemished>>

\* Thirty seconds pass; the frame may still be in the queue.
Timeout(u) ==
  /\ call[u].at = "waiting" /\ reply[call[u].req] = "none"
  /\ pending' = pending \ {call[u].req}
  /\ Goto(u, "ending")
  /\ blemished' = blemished \union {call[u].agent}
  /\ UNCHANGED <<linkVars, wireVars, rowVars, reply, request>>

\* activate_agent enters the agent in active_agents whatever the gateway said;
\* stop_agent writes the row and removes it.
End(u) ==
  /\ call[u].at = "ending"
  /\ IF call[u].op = "activate"
     THEN active' = active \union {call[u].agent} /\ agentRow' = agentRow
     ELSE /\ active' = active \ {call[u].agent}
          /\ agentRow' = [agentRow EXCEPT ![call[u].agent] = "stopped"]
  /\ call' = [call EXCEPT ![u] = Idle]
  /\ UNCHANGED <<linkVars, wireVars, gatewayIds, pending, reply, request,
                 blemished>>

Link == Connect \/ Transmit \/ ClearFlags \/ ClearPending
        \/ \E r \in Requests : Receive(r)

Proceed(u) ==
  \/ NotConnected(u) \/ Ask(u) \/ Enqueue(u) \/ Answered(u)
  \/ Store(u) \/ End(u)

Next ==
  \/ Link \/ Break
  \/ \E r \in Requests : GatewayServes(r) \/ GatewayRefuses(r)
  \/ \E u \in Users : Proceed(u) \/ Timeout(u)
  \/ \E u \in Users, a \in Agents : ActivateBegins(u, a) \/ StopBegins(u, a)

Spec == Init /\ [][Next]_vars

\* The runtime polls the callers and the clock runs.  The connection task
\* empties its queue while the link is up; the gateway owes nothing, not even
\* that a connection succeeds.
Fairness ==
  /\ \A u \in Users : WF_vars(Proceed(u)) /\ WF_vars(Timeout(u))
  /\ WF_vars(ClearFlags) /\ WF_vars(ClearPending)

FairSpec == Spec /\ Fairness

(***************************************************************************)
(* Properties.                                                             *)
(***************************************************************************)

TypeOK ==
  /\ link \in {"down", "up", "closing"} /\ connected \in BOOLEAN
  /\ pending \subseteq Requests
  /\ outgoing \in Seq(Requests) /\ Len(outgoing) <= Slots
  /\ arrived \union answers \union refusals \union remote \subseteq Requests
  /\ reply \in [Requests -> {"none", "payload", "empty", "closed"}]
  /\ agentRow \in [Agents -> {"registered", "active", "stopped"}]
  /\ gatewayIds \in [Agents -> Requests \union {NoRequest}]
  /\ active \subseteq Agents

\* A call that awaits its response is in the map, or its channel holds an
\* answer or is closed: no interleaving of a break, of the clearing of the map
\* and of a late insertion loses the one who waits.
WaitersAreKnown ==
  \A u \in Users :
    call[u].at = "waiting" =>
      call[u].req \in pending \/ reply[call[u].req] # "none"

\* And the map keeps no entry that nobody waits for, after timeouts, answers
\* that come late and breaks.
PendingIsAwaited ==
  \A r \in pending :
    \E u \in Users : call[u].req = r /\ call[u].at \in {"queueing", "waiting"}

\* An agent that runs at the gateway is known by its id, or a call about it is
\* under way, unless calls on it overlapped, one was refused, broken or timed
\* out, or it was activated twice: only then does the gateway run an agent that
\* nobody can stop.
NoOrphans ==
  \A r \in remote :
    LET a == request[r].agent
    IN  gatewayIds[a] = r \/ Busy(a) \/ a \in blemished

\* Whoever has queued a request gets out, though the gateway be silent and the
\* link down: by an answer, a closed channel or the timeout.  (Neither the queue
\* nor the lock on the ids has a timeout.)
WaitingEnds ==
  \A u \in Users : call[u].at = "waiting" ~> call[u].at # "waiting"

=============================================================================
