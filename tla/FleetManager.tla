---------------------------- MODULE FleetManager ----------------------------
(***************************************************************************)
(* FleetManager of the AMOS harness (openclaw/fleet.rs): the map of the    *)
(* deployed agents behind one RwLock, the rows of openclaw_agents, the     *)
(* supervisor and loop tasks of each agent, and those who share them: HTTP *)
(* handlers, the health check, the periodic rebalance and the boot         *)
(* sequence of server.rs.                                                  *)
(*                                                                         *)
(* An agent's loop is reduced to what the fleet sees of it: that it runs,  *)
(* writes its row, heeds a stop, panics.  AutonomousAgent has the rest.    *)
(***************************************************************************)
EXTENDS Naturals, FiniteSets

CONSTANTS
  AgentIds,      \* bound: ids the openclaw_agents table can give out
  NoAgent,       \* the absence of an agent
  Callers,       \* HTTP handlers that may run at the same time
  Boot,          \* the start-up sequence
  Rebalancer,    \* the task of start_rebalance_loop
  Health,        \* the task of start_health_check_loop
  Nobody,        \* the absence of a lock holder
  Requests,      \* requests the handlers receive
  MaxAgents,     \* config.fleet.max_agents
  InitialFleet,  \* agents in config.fleet.initial_fleet
  MaxRestarts,   \* MAX_RESTART_ATTEMPTS (5 in the code)
  Disturbances,  \* what may go wrong
  MaxCrashes     \* bound: deaths of the process

AllRequests == {"deploy", "stop", "pause", "resume", "rebalance"}

\* "slow": a loop does not end within the five seconds stop_agent waits.
\* "cut": the timeout layer of the server drops a handler in progress.
\* "dbFail": a statement of the fleet manager fails.
\* "toolStop": the openclaw tool marks a row 'stopped'.
AllDisturbances == {"panic", "slow", "cut", "dbFail", "toolStop"}

Procs == Callers \cup {Boot, Rebalancer, Health}

ASSUME FleetAssumption ==
  /\ NoAgent \notin AgentIds
  /\ Nobody \notin Procs
  /\ Boot \notin Callers /\ Rebalancer \notin Callers /\ Health \notin Callers
  /\ Boot # Rebalancer /\ Boot # Health /\ Rebalancer # Health
  /\ IsFiniteSet(AgentIds) /\ IsFiniteSet(Callers) /\ Callers # {}
  /\ Requests \subseteq AllRequests
  /\ MaxAgents \in Nat /\ InitialFleet \in Nat /\ MaxRestarts \in Nat
  /\ Disturbances \subseteq AllDisturbances
  /\ MaxCrashes \in Nat

VARIABLES
  phase,     \* the process: "down", "booting" or "up"
  status,    \* openclaw_agents.status, "none" before the row exists
  fleet,     \* keys of FleetManager::agents
  super,     \* state of the task supervised_run
  running,   \* agents whose task run() is alive
  restarts,  \* supervised_run's restart counter
  permit,    \* agents whose stop_signal holds a permit
  writer,    \* who holds the write guard of agents
  readers,   \* who holds a read guard of agents across an await
  asked,     \* who waits in the queue of the lock
  ahead,     \* those who were in the queue before each of them
  pc,        \* where each process is
  target,    \* agent_id of the deploy or stop in progress
  todo,      \* agents a fan-out has still to stop or reap
  left,      \* deploys of the initial fleet still to make
  crashes    \* deaths of the process so far

taskVars == <<super, running, restarts, permit>>
queueVars == <<asked, ahead>>
lockVars == <<writer, readers, queueVars>>
procVars == <<pc, target, todo, left>>
lifeVars == <<phase, crashes>>
vars == <<lifeVars, status, fleet, taskVars, lockVars, procVars>>

\* AgentStatus of the rows; "idle" is also what reconciliation leaves.
RowStatus == {"none", "active", "working", "idle", "stopped", "error"}

\* Rows auto_deploy_initial_fleet counts: status != 'stopped'.
Counted == {id \in AgentIds : status[id] \notin {"none", "stopped"}}

\* A deploy between its capacity check and its entry into the map.
Deploying == {"inserting", "inserted", "tracking"}

\* pc values at which a guard is asked for, and under the write guard.
ForRead == {"deploy", "pause", "rebalance", "check"}
ForWrite == {"tracking", "stop", "reap"}
Writing == {"stopping", "marking", "reaping"}

PCs == {"idle", "resume", "measuring"}
         \cup Deploying \cup ForRead \cup ForWrite \cup Writing

(***************************************************************************)
(* Initial state: an empty database, the process not yet started.          *)
(***************************************************************************)
Init ==
  /\ phase = "down"
  /\ crashes = 0
  /\ status = [id \in AgentIds |-> "none"]
  /\ fleet = {}
  /\ super = [id \in AgentIds |-> "none"]
  /\ running = {}
  /\ restarts = [id \in AgentIds |-> 0]
  /\ permit = {}
  /\ writer = Nobody
  /\ readers = {}
  /\ asked = {}
  /\ ahead = [p \in Procs |-> {}]
  /\ pc = [p \in Procs |-> "idle"]
  /\ target = [p \in Procs |-> NoAgent]
  /\ todo = [p \in Procs |-> {}]
  /\ left = [p \in Procs |-> 0]

(***************************************************************************)
(* Steps shared by the operations.                                         *)
(***************************************************************************)

(***************************************************************************)
(* tokio's RwLock serves its waiters in the order they asked; readers that *)
(* nothing but readers precede share it.                                   *)
(***************************************************************************)
CanRead(p) ==
  /\ writer = Nobody
  /\ IF p \in asked THEN \A q \in ahead[p] : pc[q] \in ForRead
                    ELSE asked = {}

CanWrite(p) ==
  /\ writer = Nobody
  /\ readers = {}
  /\ IF p \in asked THEN ahead[p] = {} ELSE asked = {}

\* p waits in the queue.
Ask(p) ==
  /\ p \notin asked
  /\ \/ pc[p] \in ForRead /\ ~CanRead(p)
     \/ pc[p] \in ForWrite /\ ~CanWrite(p)
  /\ asked' = asked \cup {p}
  /\ ahead' = [ahead EXCEPT ![p] = asked]
  /\ UNCHANGED <<lifeVars, status, fleet, taskVars, writer, readers,
                 procVars>>

\* p is served, or gives up its place.
LeaveQueue(p) ==
  /\ asked' = asked \ {p}
  /\ ahead' = [q \in Procs |-> IF q = p THEN {} ELSE ahead[q] \ {p}]

Goto(p, from, to) == pc[p] = from /\ pc' = [pc EXCEPT ![p] = to]

\* p goes on with the next agent of its fan-out or the next deploy of its
\* batch, or returns.
GoOn(p, ids, n) ==
  /\ left' = [left EXCEPT ![p] = n]
  /\ IF ids = {}
       THEN /\ target' = [target EXCEPT ![p] = NoAgent]
            /\ todo' = [todo EXCEPT ![p] = {}]
            /\ pc' = [pc EXCEPT ![p] = IF n = 0 THEN "idle" ELSE "deploy"]
       ELSE \E id \in ids :
              /\ target' = [target EXCEPT ![p] = id]
              /\ todo' = [todo EXCEPT ![p] = ids \ {id}]
              /\ pc' = [pc EXCEPT ![p] = "stop"]

\* UPDATE openclaw_agents SET status = s WHERE id, whose failure is ignored.
SetStatus(id, s) ==
  \/ status' = [status EXCEPT ![id] = s]
  \/ "dbFail" \in Disturbances /\ UNCHANGED status

(***************************************************************************)
(* deploy_agent.                                                           *)
(***************************************************************************)

\* Mutant of DeployCheck: an off-by-one in the capacity check.
DeployCheckOffByOne(p) ==
  /\ pc[p] = "deploy"
  /\ CanRead(p)
  /\ LeaveQueue(p)
  /\ LET rest == IF left[p] = 0 THEN 0 ELSE left[p] - 1
     IN IF Cardinality(fleet) > MaxAgents
          THEN GoOn(p, {}, rest)
          ELSE /\ pc' = [pc EXCEPT ![p] = "inserting"]
               /\ left' = [left EXCEPT ![p] = rest]
               /\ UNCHANGED <<target, todo>>
  /\ UNCHANGED <<lifeVars, status, fleet, taskVars, writer, readers>>

\* The capacity check takes and drops a read guard.
DeployCheck(p) ==
  /\ pc[p] = "deploy"
  /\ CanRead(p)
  /\ LeaveQueue(p)
  /\ LET rest == IF left[p] = 0 THEN 0 ELSE left[p] - 1
     IN IF Cardinality(fleet) >= MaxAgents
          THEN GoOn(p, {}, rest)
          ELSE /\ pc' = [pc EXCEPT ![p] = "inserting"]
               /\ left' = [left EXCEPT ![p] = rest]
               /\ UNCHANGED <<target, todo>>
  /\ UNCHANGED <<lifeVars, status, fleet, taskVars, writer, readers>>

DeployInsert(p) ==
  /\ Goto(p, "inserting", "inserted")
  /\ \E id \in AgentIds :
       /\ status[id] = "none"
       /\ status' = [status EXCEPT ![id] = "active"]
       /\ target' = [target EXCEPT ![p] = id]
  /\ UNCHANGED <<lifeVars, fleet, taskVars, lockVars, todo, left>>

\* The insert fails, or the bounded table is full.
DeployFails(p) ==
  /\ pc[p] = "inserting"
  /\ \/ "dbFail" \in Disturbances
     \/ \A id \in AgentIds : status[id] # "none"
  /\ GoOn(p, {}, left[p])
  /\ UNCHANGED <<lifeVars, status, fleet, taskVars, lockVars>>

DeploySpawn(p) ==
  /\ Goto(p, "inserted", "tracking")
  /\ super' = [super EXCEPT ![target[p]] = "running"]
  /\ running' = running \cup {target[p]}
  /\ restarts' = [restarts EXCEPT ![target[p]] = 0]
  /\ UNCHANGED <<lifeVars, status, fleet, permit, lockVars,
                 target, todo, left>>

DeployTrack(p) ==
  /\ pc[p] = "tracking"
  /\ CanWrite(p)
  /\ LeaveQueue(p)
  /\ fleet' = fleet \cup {target[p]}
  /\ GoOn(p, {}, left[p])
  /\ UNCHANGED <<lifeVars, status, taskVars, writer, readers>>

(***************************************************************************)
(* stop_agent.  The write guard is held until it returns.                  *)
(***************************************************************************)
\* Mutant of StopBegin: notify_waiters, which stores no permit.
StopBeginWaitersOnly(p) ==
  /\ Goto(p, "stop", "stopping")
  /\ CanWrite(p)
  /\ LeaveQueue(p)
  /\ target[p] \in fleet
  /\ writer' = p
  /\ fleet' = fleet \ {target[p]}
  /\ UNCHANGED <<lifeVars, status, super, running, restarts, permit, readers,
                 target, todo, left>>

StopBegin(p) ==
  /\ Goto(p, "stop", "stopping")
  /\ CanWrite(p)
  /\ LeaveQueue(p)
  /\ target[p] \in fleet
  /\ writer' = p
  /\ fleet' = fleet \ {target[p]}
  /\ permit' = permit \cup {target[p]}
  /\ UNCHANGED <<lifeVars, status, super, running, restarts, readers,
                 target, todo, left>>

StopNotFound(p) ==
  /\ pc[p] = "stop"
  /\ CanWrite(p)
  /\ LeaveQueue(p)
  /\ target[p] \notin fleet
  /\ GoOn(p, todo[p], left[p])
  /\ UNCHANGED <<lifeVars, status, fleet, taskVars, writer, readers>>

StopGraceful(p) ==
  /\ Goto(p, "stopping", "marking")
  /\ super[target[p]] = "over"
  /\ UNCHANGED <<lifeVars, status, fleet, taskVars, lockVars,
                 target, todo, left>>

\* Five seconds pass: abort() ends the supervisor, not the task it spawned.
StopAbort(p) ==
  /\ Goto(p, "stopping", "marking")
  /\ \/ "slow" \in Disturbances
     \/ super[target[p]] = "backoff"
  /\ super' = [super EXCEPT ![target[p]] = "over"]
  /\ UNCHANGED <<lifeVars, status, fleet, running, restarts, permit,
                 lockVars, target, todo, left>>

StopMark(p) ==
  /\ pc[p] = "marking"
  /\ SetStatus(target[p], "stopped")
  /\ writer' = Nobody
  /\ GoOn(p, todo[p], left[p])
  /\ UNCHANGED <<lifeVars, fleet, taskVars, readers, queueVars>>

(***************************************************************************)
(* pause_all, resume and rebalance.                                        *)
(***************************************************************************)
PauseCollect(p) ==
  /\ pc[p] = "pause"
  /\ CanRead(p)
  /\ LeaveQueue(p)
  /\ GoOn(p, fleet, 0)
  /\ UNCHANGED <<lifeVars, status, fleet, taskVars, writer, readers>>

\* auto_deploy_initial_fleet: a failed COUNT counts as no agents.
ResumeCount(p) ==
  /\ pc[p] = "resume"
  /\ \/ Counted = {} /\ GoOn(p, {}, InitialFleet)
     \/ Counted # {} /\ GoOn(p, {}, 0)
     \/ "dbFail" \in Disturbances /\ GoOn(p, {}, InitialFleet)
  /\ UNCHANGED <<lifeVars, status, fleet, taskVars, lockVars>>

\* The read guard is held while the telemetry of each agent is awaited.
RebalanceRead(p) ==
  /\ Goto(p, "rebalance", "measuring")
  /\ CanRead(p)
  /\ LeaveQueue(p)
  /\ readers' = readers \cup {p}
  /\ UNCHANGED <<lifeVars, status, fleet, taskVars, writer,
                 target, todo, left>>

\* Mutant of RebalanceDrop: drop(agents) is missing.
RebalanceUnderGuard(p) ==
  /\ pc[p] = "measuring"
  /\ \E under \in SUBSET fleet :
       /\ readers' = IF under = {} THEN readers \ {p} ELSE readers
       /\ GoOn(p, under, 0)
  /\ UNCHANGED <<lifeVars, status, fleet, taskVars, writer, queueVars>>

\* Any agents may prove to be underperformers.
RebalanceDrop(p) ==
  /\ pc[p] = "measuring"
  /\ readers' = readers \ {p}
  /\ \E under \in SUBSET fleet : GoOn(p, under, 0)
  /\ UNCHANGED <<lifeVars, status, fleet, taskVars, writer, queueVars>>

(***************************************************************************)
(* start_health_check_loop.                                                *)
(***************************************************************************)
HealthTick ==
  /\ phase = "up"
  /\ Goto(Health, "idle", "check")
  /\ UNCHANGED <<lifeVars, status, fleet, taskVars, lockVars,
                 target, todo, left>>

HealthCollect ==
  /\ pc[Health] = "check"
  /\ CanRead(Health)
  /\ LeaveQueue(Health)
  /\ LET finished == {id \in fleet : super[id] = "over"}
     IN /\ todo' = [todo EXCEPT ![Health] = finished]
        /\ pc' = [pc EXCEPT ![Health] =
                    IF finished = {} THEN "idle" ELSE "reap"]
  /\ UNCHANGED <<lifeVars, status, fleet, taskVars, writer, readers, target,
                 left>>

HealthLock ==
  /\ Goto(Health, "reap", "reaping")
  /\ CanWrite(Health)
  /\ LeaveQueue(Health)
  /\ writer' = Health
  /\ UNCHANGED <<lifeVars, status, fleet, taskVars, readers,
                 target, todo, left>>

\* Mutant of HealthReap: the agent stays in the map.
HealthReapKeeps ==
  /\ pc[Health] = "reaping"
  /\ \E id \in todo[Health] :
       /\ SetStatus(id, "stopped")
       /\ todo' = [todo EXCEPT ![Health] = @ \ {id}]
       /\ IF todo[Health] = {id}
            THEN /\ writer' = Nobody
                 /\ pc' = [pc EXCEPT ![Health] = "idle"]
            ELSE UNCHANGED <<writer, pc>>
  /\ UNCHANGED <<lifeVars, fleet, taskVars, readers, queueVars, target, left>>

\* Mutant of HealthReap: the row keeps its status.
HealthReapUnmarked ==
  /\ pc[Health] = "reaping"
  /\ \E id \in todo[Health] :
       /\ fleet' = fleet \ {id}
       /\ todo' = [todo EXCEPT ![Health] = @ \ {id}]
       /\ IF todo[Health] = {id}
            THEN /\ writer' = Nobody
                 /\ pc' = [pc EXCEPT ![Health] = "idle"]
            ELSE UNCHANGED <<writer, pc>>
  /\ UNCHANGED <<lifeVars, status, taskVars, readers, queueVars, target, left>>

HealthReap ==
  /\ pc[Health] = "reaping"
  /\ \E id \in todo[Health] :
       /\ fleet' = fleet \ {id}
       /\ SetStatus(id, "stopped")
       /\ todo' = [todo EXCEPT ![Health] = @ \ {id}]
       /\ IF todo[Health] = {id}
            THEN /\ writer' = Nobody
                 /\ pc' = [pc EXCEPT ![Health] = "idle"]
            ELSE UNCHANGED <<writer, pc>>
  /\ UNCHANGED <<lifeVars, taskVars, readers, queueVars, target, left>>

(***************************************************************************)
(* The tasks of an agent.                                                  *)
(***************************************************************************)

\* The claim and submit tools of the loop write its row unconditionally: here
\* 'working'; their 'idle' counts and is reconciled alike.
LoopWrites(id) ==
  /\ id \in running
  /\ status' = [status EXCEPT ![id] = "working"]
  /\ UNCHANGED <<lifeVars, fleet, taskVars, lockVars, procVars>>

\* run() ends on the permit or on a row that says 'stopped', and marks the
\* row as it leaves.
LoopExits(id) ==
  /\ id \in running
  /\ id \in permit \/ status[id] = "stopped"
  /\ SetStatus(id, "stopped")
  /\ running' = running \ {id}
  /\ \/ id \in permit /\ permit' = permit \ {id}
     \/ status[id] = "stopped" /\ UNCHANGED permit
  /\ super' = [super EXCEPT ![id] = "over"]
  /\ UNCHANGED <<lifeVars, fleet, restarts, lockVars, procVars>>

\* Mutant of LoopPanics: the supervisor never gives up.
LoopPanicsForever(id) ==
  /\ "panic" \in Disturbances
  /\ id \in running
  /\ running' = running \ {id}
  /\ super' = [super EXCEPT ![id] = IF @ = "over" THEN @ ELSE "backoff"]
  /\ restarts' = [restarts EXCEPT ![id] = @ + 1]
  /\ UNCHANGED <<lifeVars, status, fleet, permit, lockVars, procVars>>

LoopPanics(id) ==
  /\ "panic" \in Disturbances
  /\ id \in running
  /\ running' = running \ {id}
  /\ IF super[id] = "over"
       THEN UNCHANGED <<super, restarts, status>>
       ELSE /\ restarts' = [restarts EXCEPT ![id] = @ + 1]
            /\ IF restarts[id] < MaxRestarts
                 THEN /\ super' = [super EXCEPT ![id] = "backoff"]
                      /\ UNCHANGED status
                 ELSE /\ super' = [super EXCEPT ![id] = "over"]
                      /\ SetStatus(id, "error")
  /\ UNCHANGED <<lifeVars, fleet, permit, lockVars, procVars>>

Restart(id) ==
  /\ super[id] = "backoff"
  /\ super' = [super EXCEPT ![id] = "running"]
  /\ running' = running \cup {id}
  /\ UNCHANGED <<lifeVars, status, fleet, restarts, permit, lockVars,
                 procVars>>

\* OpenClaw's stop_agent tool writes the row and nothing else.
ToolStops(id) ==
  /\ "toolStop" \in Disturbances
  /\ status[id] \notin {"none", "stopped"}
  /\ status' = [status EXCEPT ![id] = "stopped"]
  /\ UNCHANGED <<lifeVars, fleet, taskVars, lockVars, procVars>>

(***************************************************************************)
(* Requests, and the life of the process.                                  *)
(***************************************************************************)
Request(p) ==
  /\ phase = "up"
  /\ \E r \in Requests :
       /\ Goto(p, "idle", r)
       /\ IF r = "stop"
            THEN \E id \in AgentIds :
                   status[id] # "none" /\ target' = [target EXCEPT ![p] = id]
            ELSE UNCHANGED target
  /\ UNCHANGED <<lifeVars, status, fleet, taskVars, lockVars, todo, left>>

RebalanceTick ==
  /\ phase = "up"
  /\ Goto(Rebalancer, "idle", "rebalance")
  /\ UNCHANGED <<lifeVars, status, fleet, taskVars, lockVars,
                 target, todo, left>>

\* The handler's future is dropped at its await, with the guards it holds.
Cut(p) ==
  /\ "cut" \in Disturbances
  /\ pc[p] # "idle"
  /\ pc' = [pc EXCEPT ![p] = "idle"]
  /\ target' = [target EXCEPT ![p] = NoAgent]
  /\ todo' = [todo EXCEPT ![p] = {}]
  /\ left' = [left EXCEPT ![p] = 0]
  /\ writer' = IF writer = p THEN Nobody ELSE writer
  /\ readers' = readers \ {p}
  /\ LeaveQueue(p)
  /\ UNCHANGED <<lifeVars, status, fleet, taskVars>>

\* reconcile_on_startup, then auto_deploy_initial_fleet.
Reconcile ==
  /\ phase = "down"
  /\ phase' = "booting"
  /\ \/ status' = [id \in AgentIds |->
                     IF status[id] \in {"active", "working"}
                       THEN "idle" ELSE status[id]]
     \/ "dbFail" \in Disturbances /\ UNCHANGED status
  /\ Goto(Boot, "idle", "resume")
  /\ UNCHANGED <<crashes, fleet, taskVars, lockVars, target, todo, left>>

Serve ==
  /\ phase = "booting"
  /\ pc[Boot] = "idle"
  /\ phase' = "up"
  /\ UNCHANGED <<crashes, status, fleet, taskVars, lockVars, procVars>>

\* Only the rows survive.
Crash ==
  /\ crashes < MaxCrashes
  /\ phase # "down"
  /\ phase' = "down"
  /\ crashes' = crashes + 1
  /\ fleet' = {}
  /\ super' = [id \in AgentIds |-> "none"]
  /\ running' = {}
  /\ restarts' = [id \in AgentIds |-> 0]
  /\ permit' = {}
  /\ writer' = Nobody
  /\ readers' = {}
  /\ asked' = {}
  /\ ahead' = [p \in Procs |-> {}]
  /\ pc' = [p \in Procs |-> "idle"]
  /\ target' = [p \in Procs |-> NoAgent]
  /\ todo' = [p \in Procs |-> {}]
  /\ left' = [p \in Procs |-> 0]
  /\ UNCHANGED status

(***************************************************************************)
(* The specification.                                                      *)
(***************************************************************************)

\* A step of the operation p is in.
Operate(p) ==
  \/ Ask(p)
  \/ DeployCheck(p) \/ DeployInsert(p) \/ DeployFails(p) \/ DeploySpawn(p)
  \/ DeployTrack(p) \/ StopBegin(p) \/ StopNotFound(p) \/ StopGraceful(p)
  \/ StopAbort(p) \/ StopMark(p) \/ PauseCollect(p) \/ ResumeCount(p)
  \/ RebalanceRead(p) \/ RebalanceDrop(p)

HealthCheck ==
  HealthTick \/ Ask(Health) \/ HealthCollect \/ HealthLock \/ HealthReap

Tasks(id) == LoopWrites(id) \/ LoopExits(id) \/ LoopPanics(id) \/ Restart(id)

Life == RebalanceTick \/ Reconcile \/ Serve \/ Crash

Next ==
  \/ \E p \in Procs \ {Health} : Operate(p)
  \/ HealthCheck
  \/ \E id \in AgentIds : Tasks(id) \/ ToolStops(id)
  \/ \E p \in Callers : Request(p) \/ Cut(p)
  \/ Life

Spec == Init /\ [][Next]_vars

\* The runtime polls every task that can go on, and the clock ticks; loops
\* heed a stop.  Requests, panics, restarts and crashes are owed to nobody.
Fairness ==
  /\ \A p \in Procs \ {Health} : WF_vars(Operate(p))
  /\ WF_vars(HealthCheck)
  /\ WF_vars(Serve)
  /\ \A id \in AgentIds : WF_vars(LoopExits(id))

FairSpec == Spec /\ Fairness

(***************************************************************************)
(* Properties.                                                             *)
(***************************************************************************)

\* Type invariant: the shape of every variable of FleetManager.
TypeOK ==
  /\ phase \in {"down", "booting", "up"}
  /\ crashes \in 0 .. MaxCrashes
  /\ status \in [AgentIds -> RowStatus]
  /\ fleet \subseteq AgentIds
  /\ super \in [AgentIds -> {"none", "running", "backoff", "over"}]
  /\ running \subseteq AgentIds
  /\ restarts \in [AgentIds -> 0 .. MaxRestarts + 1]
  /\ permit \subseteq AgentIds
  /\ writer \in Procs \cup {Nobody}
  /\ readers \subseteq Procs
  /\ asked \subseteq Procs
  /\ ahead \in [Procs -> SUBSET Procs]
  /\ pc \in [Procs -> PCs]
  /\ target \in [Procs -> AgentIds \cup {NoAgent}]
  /\ todo \in [Procs -> SUBSET AgentIds]
  /\ left \in [Procs -> 0 .. InitialFleet]

\* The write guard of the map excludes every other guard, and whoever left
\* the code that needs a guard, by returning or by being cut, has let it go.
GuardsAgree ==
  /\ \A p \in Procs : pc[p] \in Writing <=> writer = p
  /\ readers = {p \in Procs : pc[p] = "measuring"}
  /\ \A p \in asked : pc[p] \in ForRead \cup ForWrite
  /\ writer # Nobody => readers = {}

\* deploy_agent checks the capacity under one guard and enters the agent
\* under another, so max_agents may be passed, but by no more than the
\* other handlers that deploy at the same time.
FleetBound ==
  Cardinality(fleet) + Cardinality({p \in Procs : pc[p] \in Deploying})
    <= MaxAgents + Cardinality(Callers) - 1

\* Every agent of the map has a row that auto_deploy_initial_fleet counts:
\* while one is in the map no resume deploys the initial fleet again,
\* unless its COUNT fails.  (When the openclaw tool stops nobody.)
FleetCounted == fleet \subseteq Counted

\* No loop runs out of control: it is in the map, is about to enter it, or
\* has been told to stop.  (When handlers are not cut: a handler cut before it
\* enters its agent leaves a loop that no pause reaches.)
LoopsOwned ==
  \A id \in running :
    \/ id \in fleet \cup permit
    \/ \E p \in Procs : pc[p] = "tracking" /\ target[p] = id

\* Between handlers that are dropped, panics and crashes nothing is left
\* behind for ever: neither a guard, which would stop every request, nor a
\* loop, which no stop would reach.
NothingForgotten ==
  /\ GuardsAgree
  /\ LoopsOwned

\* When loops end in time and nothing but panics goes wrong, each row that
\* is not 'stopped' belongs to an agent of the map or to a deploy or stop in
\* progress, so that resume works again after every pause.
RowsOwned ==
  \A id \in Counted :
    \/ id \in fleet
    \/ \E p \in Procs :
         /\ target[p] = id
         /\ pc[p] \in {"inserted", "tracking", "stopping", "marking"}

\* Every request returns: nobody waits for the lock of the map for ever,
\* although stop_agent waits for a loop while it holds the write guard.
CallsReturn == \A p \in Procs \ {Health} : pc[p] # "idle" ~> pc[p] = "idle"

\* An agent whose supervisor ended leaves the map.
FinishedAreReaped ==
  \A id \in AgentIds : id \in fleet /\ super[id] = "over" ~> id \notin fleet

(***************************************************************************)
(* What a comment of the code says, and the run doc_force_stop refutes.     *)
(***************************************************************************)

\* "Wait briefly for graceful shutdown, then abort if needed": once
\* stop_agent has marked the row, the loop of the agent is gone.
ForceStopStops ==
  \A id \in AgentIds :
    status[id] = "stopped" /\ super[id] = "over" => id \notin running
=============================================================================
