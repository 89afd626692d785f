------------------------- MODULE FleetManagerProofs -------------------------
(***************************************************************************)
(* What holds of FleetManager for every set of agents and handlers and     *)
(* every value of its limits: its types, the bound on the fleet, that      *)
(* every agent of the map has a row which resume counts, that guards are   *)
(* let go of and that every loop can be told to stop.                      *)
(***************************************************************************)
EXTENDS FleetManager, FiniteSetTheorems, TLAPS

(***************************************************************************)
(* Types.                                                                  *)
(***************************************************************************)

\* A deploy past its INSERT knows the id of its agent.
TargetKnown ==
  \A p \in Procs : pc[p] \in {"inserted", "tracking"} => target[p] \in AgentIds

\* A supervisor counts past MAX_RESTART_ATTEMPTS only as it gives up.
RestartsLeft ==
  \A id \in AgentIds : super[id] # "over" => restarts[id] <= MaxRestarts

\* Types, with what the types of a step rest on.
Typed == TypeOK /\ TargetKnown /\ RestartsLeft

\* What GoOn may do to the variables of the processes.
LEMMA GoOnEffect ==
  ASSUME TypeOK, NEW p \in Procs, NEW ids \in SUBSET AgentIds,
         NEW n \in 0 .. InitialFleet, GoOn(p, ids, n)
  PROVE  /\ pc' \in [Procs -> PCs]
         /\ target' \in [Procs -> AgentIds \cup {NoAgent}]
         /\ todo' \in [Procs -> SUBSET AgentIds]
         /\ left' \in [Procs -> 0 .. InitialFleet]
         /\ pc'[p] \in {"idle", "deploy", "stop"}
         /\ pc'[p] = "deploy" => n # 0
         /\ left'[p] = n
         /\ \A q \in Procs \ {p} :
              /\ pc'[q] = pc[q] /\ target'[q] = target[q]
              /\ todo'[q] = todo[q] /\ left'[q] = left[q]
<1>1. {"idle", "deploy", "stop"} \subseteq PCs
  BY DEF PCs, ForRead, ForWrite
<1>2. \E x \in {"idle", "deploy", "stop"} : pc' = [pc EXCEPT ![p] = x]
  BY DEF GoOn
<1>3. \E x \in AgentIds \cup {NoAgent} : target' = [target EXCEPT ![p] = x]
  BY DEF GoOn
<1>4. \E x \in SUBSET AgentIds : todo' = [todo EXCEPT ![p] = x]
  <2>1. CASE ids = {}
    BY <2>1 DEF GoOn
  <2>2. CASE ids # {}
    <3>1. PICK id \in ids : todo' = [todo EXCEPT ![p] = ids \ {id}]
      BY <2>2 DEF GoOn
    <3>. QED
      BY <3>1
  <2>. QED
    BY <2>1, <2>2
<1>5. left' = [left EXCEPT ![p] = n]
  BY DEF GoOn
<1>6. pc'[p] = "deploy" => n # 0
  BY DEF GoOn, TypeOK
<1>. QED
  BY <1>1, <1>2, <1>3, <1>4, <1>5, <1>6 DEF TypeOK

\* Leaving the queue of the lock keeps its shape.
LEMMA LeaveQueueType ==
  ASSUME TypeOK, NEW p \in Procs, LeaveQueue(p)
  PROVE  asked' \subseteq Procs /\ ahead' \in [Procs -> SUBSET Procs]
BY DEF LeaveQueue, TypeOK

\* The initial state is typed.
LEMMA TypedInit == Init => Typed
BY FleetAssumption DEF Init, Typed, TypeOK, TargetKnown, RestartsLeft, PCs,
   RowStatus, Procs

\* A step of an operation.
LEMMA OperateTyped ==
  ASSUME Typed, NEW p \in Procs, Operate(p)
  PROVE  Typed'
<1>. USE FleetAssumption DEF Typed, lifeVars, taskVars, lockVars, queueVars,
     procVars
<1>0. {"inserting", "inserted", "tracking", "stopping", "marking",
       "measuring"} \subseteq PCs
  BY DEF PCs, Deploying, Writing
<1>1. CASE Ask(p)
  BY <1>1 DEF Ask, TypeOK, TargetKnown, RestartsLeft
<1>2. CASE DeployCheck(p)
  <2>1. asked' \subseteq Procs /\ ahead' \in [Procs -> SUBSET Procs]
    BY <1>2, LeaveQueueType DEF DeployCheck
  <2>. DEFINE rest == IF left[p] = 0 THEN 0 ELSE left[p] - 1
  <2>2. rest \in 0 .. InitialFleet
    BY DEF TypeOK
  <2>3. CASE GoOn(p, {}, rest)
    BY <1>2, <2>1, <2>2, <2>3, GoOnEffect
    DEF DeployCheck, TypeOK, TargetKnown, RestartsLeft
  <2>4. CASE /\ pc' = [pc EXCEPT ![p] = "inserting"]
             /\ left' = [left EXCEPT ![p] = rest]
             /\ UNCHANGED <<target, todo>>
    BY <1>0, <1>2, <2>1, <2>2, <2>4
    DEF DeployCheck, TypeOK, TargetKnown, RestartsLeft
  <2>. QED
    BY <1>2, <2>3, <2>4 DEF DeployCheck
<1>3. CASE DeployInsert(p)
  BY <1>0, <1>3
  DEF DeployInsert, Goto, TypeOK, TargetKnown, RestartsLeft, RowStatus
<1>4. CASE DeployFails(p)
  <2>1. left[p] \in 0 .. InitialFleet
    BY DEF TypeOK
  <2>. QED
    BY <1>4, <2>1, GoOnEffect
    DEF DeployFails, TypeOK, TargetKnown, RestartsLeft
<1>5. CASE DeploySpawn(p)
  <2>1. target[p] \in AgentIds
    BY <1>5 DEF DeploySpawn, Goto, TargetKnown
  <2>2. restarts' \in [AgentIds -> 0 .. MaxRestarts + 1] /\ RestartsLeft'
    BY <1>5, <2>1 DEF DeploySpawn, TypeOK, RestartsLeft
  <2>. QED
    BY <1>0, <1>5, <2>1, <2>2 DEF DeploySpawn, Goto, TypeOK, TargetKnown
<1>6. CASE DeployTrack(p)
  <2>1. left[p] \in 0 .. InitialFleet
    BY DEF TypeOK
  <2>2. asked' \subseteq Procs /\ ahead' \in [Procs -> SUBSET Procs]
    BY <1>6, LeaveQueueType DEF DeployTrack
  <2>3. fleet' \subseteq AgentIds
    BY <1>6 DEF DeployTrack, TypeOK, TargetKnown
  <2>4. {} \in SUBSET AgentIds /\ GoOn(p, {}, left[p])
    BY <1>6 DEF DeployTrack
  <2>5. TypeOK'
    BY <1>6, <2>1, <2>2, <2>3, <2>4, GoOnEffect DEF DeployTrack, TypeOK
  <2>6. TargetKnown'
    BY <2>1, <2>4, GoOnEffect DEF TypeOK, TargetKnown
  <2>. QED
    BY <1>6, <2>5, <2>6 DEF DeployTrack, RestartsLeft
<1>7. CASE StopBegin(p)
  <2>1. asked' \subseteq Procs /\ ahead' \in [Procs -> SUBSET Procs]
    BY <1>7, LeaveQueueType DEF StopBegin
  <2>. QED
    BY <1>0, <1>7, <2>1
    DEF StopBegin, Goto, TypeOK, TargetKnown, RestartsLeft
<1>8. CASE StopNotFound(p)
  <2>1. todo[p] \in SUBSET AgentIds /\ left[p] \in 0 .. InitialFleet
    BY DEF TypeOK
  <2>2. asked' \subseteq Procs /\ ahead' \in [Procs -> SUBSET Procs]
    BY <1>8, LeaveQueueType DEF StopNotFound
  <2>. QED
    BY <1>8, <2>1, <2>2, GoOnEffect
    DEF StopNotFound, TypeOK, TargetKnown, RestartsLeft
<1>9. CASE StopGraceful(p)
  BY <1>0, <1>9
  DEF StopGraceful, Goto, TypeOK, TargetKnown, RestartsLeft
<1>10. CASE StopAbort(p)
  BY <1>0, <1>10
  DEF StopAbort, Goto, TypeOK, TargetKnown, RestartsLeft
<1>11. CASE StopMark(p)
  <2>1. todo[p] \in SUBSET AgentIds /\ left[p] \in 0 .. InitialFleet
    BY DEF TypeOK
  <2>2. status' \in [AgentIds -> RowStatus]
    BY <1>11 DEF StopMark, SetStatus, TypeOK, RowStatus
  <2>. QED
    BY <1>11, <2>1, <2>2, GoOnEffect
    DEF StopMark, TypeOK, TargetKnown, RestartsLeft
<1>12. CASE PauseCollect(p)
  <2>1. fleet \in SUBSET AgentIds /\ 0 \in 0 .. InitialFleet
    BY DEF TypeOK
  <2>2. asked' \subseteq Procs /\ ahead' \in [Procs -> SUBSET Procs]
    BY <1>12, LeaveQueueType DEF PauseCollect
  <2>. QED
    BY <1>12, <2>1, <2>2, GoOnEffect
    DEF PauseCollect, TypeOK, TargetKnown, RestartsLeft
<1>13. CASE ResumeCount(p)
  <2>1. PICK n \in 0 .. InitialFleet : GoOn(p, {}, n)
    BY <1>13 DEF ResumeCount
  <2>. QED
    BY <1>13, <2>1, GoOnEffect
    DEF ResumeCount, TypeOK, TargetKnown, RestartsLeft
<1>14. CASE RebalanceRead(p)
  <2>1. asked' \subseteq Procs /\ ahead' \in [Procs -> SUBSET Procs]
    BY <1>14, LeaveQueueType DEF RebalanceRead
  <2>. QED
    BY <1>0, <1>14, <2>1
    DEF RebalanceRead, Goto, TypeOK, TargetKnown, RestartsLeft
<1>15. CASE RebalanceDrop(p)
  <2>1. PICK under \in SUBSET fleet : GoOn(p, under, 0)
    BY <1>15 DEF RebalanceDrop
  <2>2. under \in SUBSET AgentIds /\ 0 \in 0 .. InitialFleet
    BY DEF TypeOK
  <2>. QED
    BY <1>15, <2>1, <2>2, GoOnEffect
    DEF RebalanceDrop, TypeOK, TargetKnown, RestartsLeft
<1>. QED
  BY <1>1, <1>2, <1>3, <1>4, <1>5, <1>6, <1>7, <1>8, <1>9, <1>10, <1>11,
     <1>12, <1>13, <1>14, <1>15 DEF Operate

\* A step of the health check.
LEMMA HealthTyped == ASSUME Typed, HealthCheck PROVE Typed'
<1>. USE FleetAssumption DEF Typed, lifeVars, taskVars, lockVars, queueVars,
     procVars
<1>0. Health \in Procs /\ {"idle", "check", "reap", "reaping"} \subseteq PCs
  BY DEF Procs, PCs, ForRead, ForWrite, Writing
<1>1. CASE HealthTick
  BY <1>0, <1>1 DEF HealthTick, Goto, TypeOK, TargetKnown, RestartsLeft
<1>2. CASE Ask(Health)
  BY <1>0, <1>2 DEF Ask, TypeOK, TargetKnown, RestartsLeft
<1>3. CASE HealthCollect
  <2>1. asked' \subseteq Procs /\ ahead' \in [Procs -> SUBSET Procs]
    BY <1>0, <1>3, LeaveQueueType DEF HealthCollect
  <2>. QED
    BY <1>0, <1>3, <2>1 DEF HealthCollect, TypeOK, TargetKnown, RestartsLeft
<1>4. CASE HealthLock
  <2>1. asked' \subseteq Procs /\ ahead' \in [Procs -> SUBSET Procs]
    BY <1>0, <1>4, LeaveQueueType DEF HealthLock
  <2>. QED
    BY <1>0, <1>4, <2>1
    DEF HealthLock, Goto, TypeOK, TargetKnown, RestartsLeft
<1>5. CASE HealthReap
  <2>1. status' \in [AgentIds -> RowStatus]
    BY <1>5 DEF HealthReap, SetStatus, TypeOK, RowStatus
  <2>. QED
    BY <1>0, <1>5, <2>1 DEF HealthReap, TypeOK, TargetKnown, RestartsLeft
<1>. QED
  BY <1>1, <1>2, <1>3, <1>4, <1>5 DEF HealthCheck

\* A step of an agent's tasks, or of the openclaw tool.
LEMMA TasksTyped ==
  ASSUME Typed, NEW id \in AgentIds, Tasks(id) \/ ToolStops(id)
  PROVE  Typed'
<1>. USE FleetAssumption DEF Typed, lifeVars, taskVars, lockVars, queueVars,
     procVars
<1>1. CASE LoopWrites(id)
  BY <1>1 DEF LoopWrites, TypeOK, TargetKnown, RestartsLeft, RowStatus
<1>2. CASE LoopExits(id)
  <2>1. status' \in [AgentIds -> RowStatus]
    BY <1>2 DEF LoopExits, SetStatus, TypeOK, RowStatus
  <2>. QED
    BY <1>2, <2>1 DEF LoopExits, TypeOK, TargetKnown, RestartsLeft
<1>3. CASE LoopPanics(id)
  <2>1. status' \in [AgentIds -> RowStatus]
    BY <1>3 DEF LoopPanics, SetStatus, TypeOK, RowStatus
  <2>. QED
    BY <1>3, <2>1 DEF LoopPanics, TypeOK, TargetKnown, RestartsLeft
<1>4. CASE Restart(id)
  BY <1>4 DEF Restart, TypeOK, TargetKnown, RestartsLeft
<1>5. CASE ToolStops(id)
  BY <1>5 DEF ToolStops, TypeOK, TargetKnown, RestartsLeft, RowStatus
<1>. QED
  BY <1>1, <1>2, <1>3, <1>4, <1>5 DEF Tasks

\* A request, a cut handler, or a step in the life of the process.
LEMMA LifeTyped ==
  ASSUME Typed, (\E p \in Callers : Request(p) \/ Cut(p)) \/ Life
  PROVE  Typed'
<1>. USE FleetAssumption DEF Typed, lifeVars, taskVars, lockVars, queueVars,
     procVars
<1>0. /\ {"idle", "resume"} \cup AllRequests \subseteq PCs
      /\ Boot \in Procs /\ Rebalancer \in Procs /\ Callers \subseteq Procs
  BY DEF PCs, AllRequests, ForRead, ForWrite, Procs
<1>1. ASSUME NEW p \in Callers, Request(p) PROVE Typed'
  <2>1. PICK r \in Requests : Goto(p, "idle", r)
    BY <1>1 DEF Request
  <2>2. target' \in [Procs -> AgentIds \cup {NoAgent}]
    BY <1>0, <1>1 DEF Request, TypeOK
  <2>3. target' = [target EXCEPT ![p] = target'[p]]
    BY <1>0, <1>1 DEF Request, TypeOK
  <2>4. r \notin {"inserted", "tracking"}
    BY DEF AllRequests
  <2>5. TypeOK'
    BY <1>0, <1>1, <2>1, <2>2 DEF Request, Goto, TypeOK
  <2>6. TargetKnown'
    BY <1>0, <1>1, <2>1, <2>3, <2>4 DEF Goto, TypeOK, TargetKnown
  <2>. QED
    BY <1>1, <2>5, <2>6 DEF Request, RestartsLeft
<1>2. ASSUME NEW p \in Callers, Cut(p) PROVE Typed'
  <2>1. asked' \subseteq Procs /\ ahead' \in [Procs -> SUBSET Procs]
    BY <1>0, <1>2, LeaveQueueType DEF Cut
  <2>2. writer' \in Procs \cup {Nobody} /\ readers' \subseteq Procs
    BY <1>2 DEF Cut, TypeOK
  <2>3. /\ pc' = [pc EXCEPT ![p] = "idle"]
        /\ target' = [target EXCEPT ![p] = NoAgent]
        /\ todo' = [todo EXCEPT ![p] = {}]
        /\ left' = [left EXCEPT ![p] = 0]
        /\ UNCHANGED <<phase, crashes, status, fleet, super, running,
                       restarts, permit>>
    BY <1>2 DEF Cut
  <2>4. TypeOK'
    BY <1>0, <2>1, <2>2, <2>3 DEF TypeOK
  <2>. QED
    BY <1>0, <2>3, <2>4 DEF TypeOK, TargetKnown, RestartsLeft
<1>3. CASE RebalanceTick
  BY <1>0, <1>3
  DEF RebalanceTick, Goto, TypeOK, TargetKnown, RestartsLeft, AllRequests
<1>4. CASE Reconcile
  <2>1. status' \in [AgentIds -> RowStatus]
    BY <1>4 DEF Reconcile, TypeOK, RowStatus
  <2>2. /\ pc' = [pc EXCEPT ![Boot] = "resume"]
        /\ phase' = "booting"
        /\ UNCHANGED <<crashes, fleet, super, running, restarts, permit,
                       writer, readers, asked, ahead, target, todo, left>>
    BY <1>4 DEF Reconcile, Goto
  <2>3. TypeOK'
    BY <1>0, <2>1, <2>2 DEF TypeOK
  <2>. QED
    BY <1>0, <2>2, <2>3 DEF TypeOK, TargetKnown, RestartsLeft
<1>5. CASE Serve
  BY <1>5 DEF Serve, TypeOK, TargetKnown, RestartsLeft
<1>6. CASE Crash
  BY <1>0, <1>6 DEF Crash, TypeOK, TargetKnown, RestartsLeft
<1>. QED
  BY <1>1, <1>2, <1>3, <1>4, <1>5, <1>6 DEF Life

\* Every step keeps the types.
LEMMA TypedStep == Typed /\ [Next]_vars => Typed'
<1>1. ASSUME Typed, UNCHANGED vars PROVE Typed'
  BY <1>1 DEF vars, lifeVars, taskVars, lockVars, queueVars, procVars, Typed,
     TypeOK, TargetKnown, RestartsLeft
<1>. QED
  BY <1>1, OperateTyped, HealthTyped, TasksTyped, LifeTyped DEF Next

\* Every variable of FleetManager keeps its shape.
THEOREM TypeCorrect == Spec => []TypeOK
<1>1. Typed => TypeOK
  BY DEF Typed
<1>. QED
  BY <1>1, TypedInit, TypedStep, PTL DEF Spec

(***************************************************************************)
(* What one step of an operation does, as far as the map and the rows are  *)
(* concerned.                                                              *)
(***************************************************************************)

\* A deploy that owns a row, a stop that has removed its agent.
Fresh(p) == pc[p] \in {"inserted", "tracking"}
Ending(p) == pc[p] \in {"stopping", "marking"}

\* The capacity check succeeds.
Admits(p) ==
  /\ pc[p] = "deploy" /\ pc'[p] = "inserting"
  /\ Cardinality(fleet) < MaxAgents
  /\ UNCHANGED <<fleet, status, permit>>

\* A row is inserted.
Inserts(p) ==
  /\ pc[p] = "inserting" /\ pc'[p] = "inserted"
  /\ \E id \in AgentIds :
       /\ status[id] = "none"
       /\ status' = [status EXCEPT ![id] = "active"]
       /\ target'[p] = id
  /\ UNCHANGED <<fleet, permit>>

\* The agent enters the map.
Enters(p) ==
  /\ pc[p] = "tracking" /\ pc'[p] \in {"idle", "deploy", "stop"}
  /\ fleet' = fleet \cup {target[p]}
  /\ UNCHANGED <<status, permit>>

\* The agent is taken out of the map.
Removes(p) ==
  /\ pc[p] = "stop" /\ pc'[p] = "stopping"
  /\ target[p] \in fleet
  /\ fleet' = fleet \ {target[p]}
  /\ permit' = permit \cup {target[p]}
  /\ target'[p] = target[p]
  /\ UNCHANGED status

\* The operation goes on with the same agent.
Continues(p) ==
  /\ \/ pc'[p] = pc[p]
     \/ pc[p] = "inserted" /\ pc'[p] = "tracking"
     \/ pc[p] = "stopping" /\ pc'[p] = "marking"
     \/ pc[p] = "rebalance" /\ pc'[p] = "measuring"
  /\ target'[p] = target[p]
  /\ UNCHANGED <<fleet, status, permit>>

\* The operation is over, or turns to its next agent.
Returns(p) ==
  /\ pc'[p] \in {"idle", "deploy", "stop"}
  /\ \/ UNCHANGED status
     \/ /\ pc[p] = "marking"
        /\ status' = [status EXCEPT ![target[p]] = "stopped"]
  /\ UNCHANGED <<fleet, permit>>

\* Other processes are left alone.
OthersKept(p) ==
  \A q \in Procs \ {p} :
    pc'[q] = pc[q] /\ target'[q] = target[q] /\ todo'[q] = todo[q]
    /\ left'[q] = left[q]

\* Where the rebalance task can be.
Rebalancing ==
  {"idle", "rebalance", "measuring", "stop", "stopping", "marking"}

\* A step of an operation is of one of six kinds.
LEMMA OperateEffect ==
  ASSUME Typed, NEW p \in Procs, Operate(p)
  PROVE  /\ phase' = phase
         /\ pc[p] # "idle"
         /\ OthersKept(p)
         /\ \/ Admits(p) \/ Inserts(p) \/ Enters(p) \/ Removes(p)
            \/ Continues(p) \/ Returns(p)
         /\ pc[p] \in Rebalancing /\ left[p] = 0
              => pc'[p] \in Rebalancing /\ left'[p] = 0
<1>. USE FleetAssumption DEF Typed, lifeVars, taskVars, lockVars, queueVars,
     procVars, Rebalancing, OthersKept
<1>0. /\ left[p] \in 0 .. InitialFleet /\ todo[p] \in SUBSET AgentIds
      /\ fleet \in SUBSET AgentIds /\ {} \in SUBSET AgentIds
      /\ 0 \in 0 .. InitialFleet
  BY DEF TypeOK
<1>1. CASE Ask(p)
  BY <1>1 DEF Ask, Continues, ForRead, ForWrite
<1>2. CASE DeployCheck(p)
  <2>. DEFINE rest == IF left[p] = 0 THEN 0 ELSE left[p] - 1
  <2>1. rest \in 0 .. InitialFleet
    BY DEF TypeOK
  <2>2. CASE GoOn(p, {}, rest)
    BY <1>0, <1>2, <2>1, <2>2, GoOnEffect DEF DeployCheck, Returns
  <2>3. CASE /\ Cardinality(fleet) < MaxAgents
             /\ pc' = [pc EXCEPT ![p] = "inserting"]
             /\ left' = [left EXCEPT ![p] = rest]
             /\ UNCHANGED <<target, todo>>
    BY <1>2, <2>3 DEF DeployCheck, Admits, TypeOK
  <2>4. Cardinality(fleet) < MaxAgents \/ Cardinality(fleet) >= MaxAgents
    <3>1. IsFiniteSet(fleet)
      BY <1>0, FS_Subset
    <3>. QED
      BY <3>1, FS_CardinalityType
  <2>. QED
    BY <1>2, <2>2, <2>3, <2>4 DEF DeployCheck
<1>3. CASE DeployInsert(p)
  BY <1>3 DEF DeployInsert, Goto, Inserts, TypeOK
<1>4. CASE DeployFails(p)
  BY <1>0, <1>4, GoOnEffect DEF DeployFails, Returns
<1>5. CASE DeploySpawn(p)
  BY <1>5 DEF DeploySpawn, Goto, Continues, TypeOK
<1>6. CASE DeployTrack(p)
  BY <1>0, <1>6, GoOnEffect DEF DeployTrack, Enters
<1>7. CASE StopBegin(p)
  BY <1>7 DEF StopBegin, Goto, Removes, TypeOK
<1>8. CASE StopNotFound(p)
  BY <1>0, <1>8, GoOnEffect DEF StopNotFound, Returns
<1>9. CASE StopGraceful(p)
  BY <1>9 DEF StopGraceful, Goto, Continues, TypeOK
<1>10. CASE StopAbort(p)
  BY <1>10 DEF StopAbort, Goto, Continues, TypeOK
<1>11. CASE StopMark(p)
  BY <1>0, <1>11, GoOnEffect DEF StopMark, SetStatus, Returns
<1>12. CASE PauseCollect(p)
  BY <1>0, <1>12, GoOnEffect DEF PauseCollect, Returns
<1>13. CASE ResumeCount(p)
  <2>1. PICK n \in 0 .. InitialFleet : GoOn(p, {}, n)
    BY <1>13 DEF ResumeCount
  <2>. QED
    BY <1>0, <1>13, <2>1, GoOnEffect DEF ResumeCount, Returns
<1>14. CASE RebalanceRead(p)
  BY <1>14 DEF RebalanceRead, Goto, Continues, TypeOK
<1>15. CASE RebalanceDrop(p)
  <2>1. PICK under \in SUBSET fleet : GoOn(p, under, 0)
    BY <1>15 DEF RebalanceDrop
  <2>2. under \in SUBSET AgentIds
    BY <1>0
  <2>. QED
    BY <1>0, <1>15, <2>1, <2>2, GoOnEffect DEF RebalanceDrop, Returns
<1>. QED
  BY <1>1, <1>2, <1>3, <1>4, <1>5, <1>6, <1>7, <1>8, <1>9, <1>10, <1>11,
     <1>12, <1>13, <1>14, <1>15 DEF Operate

\* The health check deploys nothing, and marks only what it has collected.
LEMMA HealthEffect ==
  ASSUME Typed, HealthCheck
  PROVE  /\ phase' = phase
         /\ OthersKept(Health)
         /\ UNCHANGED permit
         /\ \/ pc'[Health] = pc[Health]
            \/ pc'[Health] \in {"idle", "check", "reap", "reaping"}
         /\ \/ UNCHANGED <<fleet, status>> /\ todo'[Health] = todo[Health]
            \/ UNCHANGED <<fleet, status>> /\ todo'[Health] \subseteq fleet
            \/ \E id \in todo[Health] :
                 /\ fleet' = fleet \ {id}
                 /\ \/ UNCHANGED status
                    \/ status' = [status EXCEPT ![id] = "stopped"]
                 /\ todo'[Health] \subseteq todo[Health]
<1>. USE FleetAssumption DEF Typed, TypeOK, lifeVars, taskVars, lockVars,
     queueVars, procVars, OthersKept
<1>0. Health \in Procs
  BY DEF Procs
<1>1. CASE HealthTick
  BY <1>0, <1>1 DEF HealthTick, Goto
<1>2. CASE Ask(Health)
  BY <1>0, <1>2 DEF Ask
<1>3. CASE HealthCollect
  BY <1>0, <1>3 DEF HealthCollect
<1>4. CASE HealthLock
  BY <1>0, <1>4 DEF HealthLock, Goto
<1>5. CASE HealthReap
  BY <1>0, <1>5 DEF HealthReap, SetStatus
<1>. QED
  BY <1>1, <1>2, <1>3, <1>4, <1>5 DEF HealthCheck

\* The tasks of an agent change neither the map nor the processes.
LEMMA TasksEffect ==
  ASSUME Typed, NEW id \in AgentIds, Tasks(id) \/ ToolStops(id)
  PROVE  /\ UNCHANGED <<phase, fleet, pc, target, todo, left>>
         /\ permit' \subseteq permit
         /\ \/ UNCHANGED status
            \/ \E s \in {"working", "error"} :
                 status' = [status EXCEPT ![id] = s]
            \/ /\ \/ id \in permit \/ status[id] = "stopped"
                  \/ "toolStop" \in Disturbances
               /\ status' = [status EXCEPT ![id] = "stopped"]
<1>. USE DEF SetStatus, lifeVars, taskVars, procVars
<1>1. CASE LoopWrites(id) \/ LoopPanics(id) \/ Restart(id)
  BY <1>1 DEF LoopWrites, LoopPanics, Restart
<1>2. CASE LoopExits(id)
  BY <1>2 DEF LoopExits
<1>3. CASE ToolStops(id)
  BY <1>3 DEF ToolStops
<1>. QED
  BY <1>1, <1>2, <1>3 DEF Tasks

(***************************************************************************)
(* The bound on the fleet.                                                 *)
(***************************************************************************)

\* Deploys that have passed the capacity check.
InFlight == {p \in Procs : pc[p] \in Deploying}

\* Only handlers deploy while the process serves, only the boot sequence
\* before.
Places ==
  /\ phase # "up" => \A p \in Callers : pc[p] = "idle"
  /\ phase # "booting" => pc[Boot] = "idle"
  /\ pc[Rebalancer] \in Rebalancing /\ left[Rebalancer] = 0
  /\ pc[Health] \in {"idle", "check", "reap", "reaping"}

\* The inductive invariant of the bound.
Bounded == Typed /\ Places /\ FleetBound

\* Nobody runs at first.
LEMMA PlacesInit == Init => Places
BY FleetAssumption DEF Init, Places, Procs, Rebalancing

\* Every step keeps processes to their parts of the code.
LEMMA PlacesStep == Typed /\ Places /\ Next => Places'
<1>. SUFFICES ASSUME Typed, Places, Next PROVE Places'
  OBVIOUS
<1>. USE FleetAssumption DEF Places, Procs
<1>1. ASSUME NEW p \in Procs \ {Health}, Operate(p) PROVE Places'
  BY <1>1, OperateEffect DEF OthersKept
<1>2. CASE HealthCheck
  <2>1. left'[Rebalancer] = left[Rebalancer]
    BY <1>2, HealthEffect DEF OthersKept
  <2>. QED
    BY <1>2, <2>1, HealthEffect DEF OthersKept
<1>3. ASSUME NEW id \in AgentIds, Tasks(id) \/ ToolStops(id) PROVE Places'
  BY <1>3, TasksEffect
<1>4. ASSUME NEW p \in Callers, Request(p) PROVE Places'
  BY <1>4 DEF Request, Goto, lifeVars, Typed, TypeOK
<1>5. ASSUME NEW p \in Callers, Cut(p) PROVE Places'
  BY <1>5 DEF Cut, lifeVars, Typed, TypeOK
<1>6. CASE RebalanceTick
  BY <1>6 DEF RebalanceTick, Goto, lifeVars, Typed, TypeOK, Rebalancing
<1>7. CASE Reconcile
  BY <1>7 DEF Reconcile, Goto, Typed, TypeOK
<1>8. CASE Serve
  BY <1>8 DEF Serve, procVars
<1>9. CASE Crash
  BY <1>9 DEF Crash, Rebalancing
<1>. QED
  BY <1>1, <1>2, <1>3, <1>4, <1>5, <1>6, <1>7, <1>8, <1>9 DEF Next, Life

\* At most one deploy per handler is in flight.
LEMMA FlightsFew ==
  ASSUME Typed, Places
  PROVE  IsFiniteSet(InFlight) /\ Cardinality(InFlight) <= Cardinality(Callers)
<1>. USE FleetAssumption
<1>1. Cardinality(Callers) \in Nat /\ Cardinality(Callers) # 0
  BY FS_CardinalityType, FS_EmptySet
<1>2. CASE phase = "booting"
  <2>1. InFlight \subseteq {Boot}
    BY <1>2 DEF InFlight, Places, Procs, Deploying, Rebalancing
  <2>2. IsFiniteSet({Boot}) /\ Cardinality({Boot}) = 1
    BY FS_Singleton
  <2>3. IsFiniteSet(InFlight) /\ Cardinality(InFlight) <= 1
    BY <2>1, <2>2, FS_Subset
  <2>. QED
    BY <1>1, <2>3, FS_CardinalityType
<1>3. CASE phase # "booting"
  <2>1. InFlight \subseteq Callers
    BY <1>3 DEF InFlight, Places, Procs, Deploying, Rebalancing
  <2>. QED
    BY <2>1, FS_Subset
<1>. QED
  BY <1>2, <1>3

\* A step that adds neither an agent nor a deploy in flight keeps the bound.
LEMMA BoundKept ==
  ASSUME Typed, Places, FleetBound,
         fleet' \subseteq fleet, InFlight' \subseteq InFlight
  PROVE  FleetBound'
<1>1. IsFiniteSet(fleet) /\ IsFiniteSet(InFlight)
  BY FlightsFew, FleetAssumption, FS_Subset DEF Typed, TypeOK
<1>2. /\ Cardinality(fleet) \in Nat /\ Cardinality(fleet') \in Nat
      /\ Cardinality(InFlight) \in Nat /\ Cardinality(InFlight') \in Nat
      /\ Cardinality(fleet') <= Cardinality(fleet)
      /\ Cardinality(InFlight') <= Cardinality(InFlight)
  BY <1>1, FS_Subset, FS_CardinalityType
<1>3. Cardinality(fleet) + Cardinality(InFlight)
        <= MaxAgents + Cardinality(Callers) - 1
  BY DEF FleetBound, InFlight
<1>4. MaxAgents \in Nat /\ Cardinality(Callers) \in Nat
  BY FleetAssumption, FS_CardinalityType
<1>5. Cardinality(fleet') + Cardinality(InFlight')
        <= MaxAgents + Cardinality(Callers) - 1
  BY <1>2, <1>3, <1>4
<1>. QED
  BY <1>5 DEF FleetBound, InFlight

\* Every step keeps the bound.
LEMMA BoundStep ==
  Bounded /\ Next => FleetBound'
<1>. SUFFICES ASSUME Bounded, Next PROVE FleetBound'
  OBVIOUS
<1>. USE FleetAssumption DEF Bounded
<1>0. Typed' /\ Places'
  BY TypedStep, PlacesStep
<1>1. ASSUME NEW p \in Procs \ {Health}, Operate(p) PROVE FleetBound'
  <2>1. OthersKept(p)
    BY <1>1, OperateEffect
  <2>2. CASE Admits(p)
    <3>1. fleet' = fleet /\ Cardinality(fleet) < MaxAgents
      BY <2>2 DEF Admits
    <3>2. /\ Cardinality(InFlight') <= Cardinality(Callers)
          /\ IsFiniteSet(InFlight')
      <4>1. (/\ IsFiniteSet(InFlight)
             /\ Cardinality(InFlight) <= Cardinality(Callers))'
        BY <1>0, FlightsFew, PTL
      <4>. QED
        BY <4>1
    <3>3. IsFiniteSet(fleet)
      BY FS_Subset DEF Typed, TypeOK
    <3>4. /\ Cardinality(fleet) \in Nat /\ Cardinality(InFlight') \in Nat
          /\ Cardinality(Callers) \in Nat
      BY <3>2, <3>3, FS_CardinalityType
    <3>. QED
      BY <3>1, <3>2, <3>4 DEF FleetBound, InFlight
  <2>3. CASE Enters(p)
    <3>1. p \in InFlight /\ InFlight' = InFlight \ {p}
      BY <2>1, <2>3 DEF Enters, InFlight, Deploying, OthersKept
    <3>2. fleet' = fleet \cup {target[p]}
      BY <2>3 DEF Enters
    <3>3. IsFiniteSet(fleet) /\ IsFiniteSet(InFlight)
      BY FlightsFew, FS_Subset DEF Typed, TypeOK
    <3>4. /\ Cardinality(InFlight') = Cardinality(InFlight) - 1
          /\ Cardinality(InFlight) \in Nat
      BY <3>1, <3>3, FS_RemoveElement, FS_CardinalityType
    <3>6. /\ IsFiniteSet(fleet')
          /\ Cardinality(fleet') = IF target[p] \in fleet
                                    THEN Cardinality(fleet)
                                    ELSE Cardinality(fleet) + 1
      BY <3>2, <3>3, FS_AddElement
    <3>7. Cardinality(fleet) \in Nat /\ Cardinality(fleet') \in Nat
      BY <3>3, <3>6, FS_CardinalityType
    <3>5. Cardinality(Callers) \in Nat
      BY FS_CardinalityType
    <3>. QED
      BY <3>4, <3>5, <3>6, <3>7 DEF FleetBound, InFlight
  <2>4. CASE \/ Inserts(p) \/ Removes(p) \/ Continues(p) \/ Returns(p)
    <3>1. fleet' \subseteq fleet
      BY <2>4 DEF Inserts, Removes, Continues, Returns
    <3>2. pc'[p] \in Deploying => pc[p] \in Deploying
      BY <2>4 DEF Inserts, Removes, Continues, Returns, Deploying
    <3>3. InFlight' \subseteq InFlight
      BY <2>1, <3>2 DEF InFlight, OthersKept
    <3>. QED
      BY <3>1, <3>3, BoundKept
  <2>. QED
    BY <1>1, <2>2, <2>3, <2>4, OperateEffect
<1>2. CASE HealthCheck
  <2>1. fleet' \subseteq fleet
    BY <1>2, HealthEffect
  <2>2. InFlight' \subseteq InFlight
    BY <1>2, HealthEffect DEF InFlight, OthersKept, Deploying, Places
  <2>. QED
    BY <2>1, <2>2, BoundKept
<1>3. ASSUME NEW id \in AgentIds, Tasks(id) \/ ToolStops(id)
      PROVE  FleetBound'
  BY <1>3, TasksEffect, BoundKept DEF InFlight
<1>4. ASSUME NEW p \in Callers, Request(p) PROVE FleetBound'
  <2>1. PICK r \in AllRequests : pc' = [pc EXCEPT ![p] = r]
    BY <1>4 DEF Request, Goto
  <2>2. InFlight' \subseteq InFlight
    BY <2>1 DEF InFlight, AllRequests, Deploying, Typed, TypeOK
  <2>. QED
    BY <1>4, <2>2, BoundKept DEF Request
<1>5. ASSUME NEW p \in Callers, Cut(p) PROVE FleetBound'
  <2>1. InFlight' \subseteq InFlight
    BY <1>5 DEF Cut, InFlight, Deploying, Typed, TypeOK
  <2>. QED
    BY <1>5, <2>1, BoundKept DEF Cut
<1>6. CASE Life
  <2>1. fleet' \subseteq fleet
    BY <1>6 DEF Life, RebalanceTick, Reconcile, Serve, Crash
  <2>2. InFlight' \subseteq InFlight
    BY <1>6 DEF Life, RebalanceTick, Reconcile, Serve, Crash, Goto, procVars,
       InFlight, Deploying, Typed, TypeOK
  <2>. QED
    BY <2>1, <2>2, BoundKept
<1>. QED
  BY <1>1, <1>2, <1>3, <1>4, <1>5, <1>6 DEF Next

\* The map is empty at first.
LEMMA BoundInit == Init => FleetBound
<1>. SUFFICES ASSUME Init PROVE FleetBound
  OBVIOUS
<1>1. fleet = {} /\ InFlight = {}
  BY DEF Init, InFlight, Deploying
<1>2. Cardinality(Callers) \in Nat /\ Cardinality(Callers) # 0
  BY FleetAssumption, FS_CardinalityType, FS_EmptySet
<1>3. Cardinality(fleet) = 0 /\ Cardinality(InFlight) = 0
  BY <1>1, FS_EmptySet
<1>. QED
  BY <1>2, <1>3, FleetAssumption DEF FleetBound, InFlight

\* max_agents is passed by fewer agents than there are handlers.
THEOREM FleetIsBounded == Spec => []FleetBound
<1>1. Init => Bounded
  BY TypedInit, PlacesInit, BoundInit DEF Bounded
<1>2. Bounded /\ [Next]_vars => Bounded'
  <2>1. Bounded /\ Next => Bounded'
    BY TypedStep, PlacesStep, BoundStep DEF Bounded
  <2>2. Bounded /\ UNCHANGED vars => Bounded'
    <3>1. Typed /\ UNCHANGED vars => Typed'
      BY TypedStep
    <3>2. Places /\ FleetBound /\ UNCHANGED vars => Places' /\ FleetBound'
      BY DEF Places, FleetBound, vars, lifeVars, procVars
    <3>. QED
      BY <3>1, <3>2 DEF Bounded
  <2>. QED
    BY <2>1, <2>2
<1>3. Bounded => FleetBound
  BY DEF Bounded
<1>. QED
  BY <1>1, <1>2, <1>3, PTL DEF Spec

(***************************************************************************)
(* The rows of the fleet.                                                  *)
(***************************************************************************)

\* No id is shared by two deploys, by a deploy and a stop, or by either and
\* the map; the health check marks no agent that is being deployed.
Owners ==
  /\ \A p \in Procs : Fresh(p) =>
       /\ target[p] \in Counted \ fleet
       /\ target[p] \notin todo[Health] \cup permit
  /\ \A p, q \in Procs :
       p # q /\ Fresh(p) /\ (Fresh(q) \/ Ending(q)) => target[p] # target[q]
  /\ \A p \in Procs : Ending(p) =>
       target[p] \in AgentIds \ fleet /\ status[target[p]] # "none"
  /\ \A id \in todo[Health] \cup permit : status[id] # "none"
  /\ permit \cap fleet = {}

\* The inductive invariant of the count.
RowsInv == FleetCounted /\ Owners

\* Steps after which the rows still have their owners.
Keeps ==
  /\ fleet' \subseteq fleet
  /\ todo'[Health] \subseteq todo[Health] \cup fleet
  /\ permit' \subseteq permit \cup (fleet \ fleet')
  /\ \A p \in Procs : Fresh(p)' => Fresh(p) /\ target'[p] = target[p]
  /\ \A p \in Procs : Ending(p)' =>
       /\ target'[p] = target[p]
       /\ Ending(p) \/ target[p] \in fleet \ fleet'
  /\ \A id \in AgentIds : status'[id] = "none" => status[id] = "none"
  /\ \A id \in AgentIds : status'[id] = "stopped" =>
       \/ status[id] = "stopped"
       \/ \E p \in Procs : Ending(p) /\ target[p] = id
       \/ id \in todo[Health] /\ id \notin fleet'
       \/ id \in permit

\* The fifth and sixth conjuncts let an agent of the map, which is in no
\* deploy, be stopped.
LEMMA RowsKept == ASSUME Typed, RowsInv, Keeps, Typed' PROVE RowsInv'
<1>. USE DEF RowsInv, Typed, TypeOK
<1>1. ASSUME NEW id \in AgentIds, id \in Counted, id \notin Counted'
      PROVE  \/ \E p \in Procs : Ending(p) /\ target[p] = id
             \/ id \in todo[Health] /\ id \notin fleet'
             \/ id \in permit
  BY <1>1 DEF Counted, Keeps
<1>2. FleetCounted'
  BY <1>1 DEF FleetCounted, Keeps, Owners
<1>3. \A p \in Procs : Fresh(p)' =>
        /\ target'[p] \in Counted' \ fleet'
        /\ target'[p] \notin todo'[Health] \cup permit'
  BY <1>1 DEF Keeps, Owners, Fresh, Ending, Counted
<1>4. \A p, q \in Procs :
        p # q /\ Fresh(p)' /\ (Fresh(q)' \/ Ending(q)')
          => target'[p] # target'[q]
  BY DEF Keeps, Owners
<1>5. \A p \in Procs : Ending(p)' =>
        target'[p] \in AgentIds \ fleet' /\ status'[target'[p]] # "none"
  BY DEF Keeps, Owners, FleetCounted, Counted
<1>6. \A id \in todo'[Health] \cup permit' : status'[id] # "none"
  BY FleetAssumption DEF Keeps, Owners, FleetCounted, Counted, Procs
<1>7. permit' \cap fleet' = {}
  BY DEF Keeps, Owners
<1>. QED
  BY <1>2, <1>3, <1>4, <1>5, <1>6, <1>7 DEF Owners

\* No agent exists at first.
LEMMA RowsInit == Init => RowsInv
BY DEF Init, RowsInv, FleetCounted, Owners, Fresh, Ending, Procs

\* A step of an operation keeps rows and owners.
LEMMA OperateRows ==
  ASSUME Typed, Typed', RowsInv, NEW p \in Procs \ {Health}, Operate(p)
  PROVE  RowsInv'
<1>. USE FleetAssumption DEF Typed
<1>0. Health \in Procs \ {p} /\ OthersKept(p)
  BY OperateEffect DEF Procs
<1>1. CASE Inserts(p)
  <2>1. PICK id \in AgentIds :
          /\ status[id] = "none"
          /\ status' = [status EXCEPT ![id] = "active"]
          /\ target'[p] = id
    BY <1>1 DEF Inserts
  <2>2. /\ fleet' = fleet /\ todo'[Health] = todo[Health]
        /\ permit' = permit
        /\ pc[p] = "inserting" /\ pc'[p] = "inserted"
    BY <1>0, <1>1 DEF Inserts, OthersKept
  <2>3. Counted' = Counted \cup {id} /\ id \notin Counted
    BY <2>1 DEF Counted, TypeOK
  <2>4. id \notin fleet /\ id \notin todo[Health] \cup permit
    BY <2>1, <2>3 DEF RowsInv, FleetCounted, Owners
  <2>5. \A q \in Procs \ {p} : Fresh(q) \/ Ending(q) => target[q] # id
    BY <2>1, <2>3 DEF RowsInv, Owners
  <2>6. \A q \in Procs \ {p} :
          (Fresh(q)' <=> Fresh(q)) /\ (Ending(q)' <=> Ending(q))
          /\ target'[q] = target[q]
    BY <1>0 DEF OthersKept, Fresh, Ending
  <2>7. ~Ending(p)'
    BY <2>2 DEF Ending
  <2>8. FleetCounted'
    BY <2>2, <2>3 DEF RowsInv, FleetCounted
  <2>9. \A q \in Procs : Fresh(q)' =>
          /\ target'[q] \in Counted' \ fleet'
          /\ target'[q] \notin todo'[Health] \cup permit'
    BY <2>1, <2>2, <2>3, <2>4, <2>6 DEF RowsInv, Owners
  <2>10. \A q, r \in Procs :
           q # r /\ Fresh(q)' /\ (Fresh(r)' \/ Ending(r)')
             => target'[q] # target'[r]
    BY <2>1, <2>5, <2>6, <2>7 DEF RowsInv, Owners
  <2>11. \A q \in Procs : Ending(q)' =>
           target'[q] \in AgentIds \ fleet' /\ status'[target'[q]] # "none"
    BY <2>1, <2>2, <2>6, <2>7 DEF RowsInv, Owners, TypeOK
  <2>12. \A i \in todo'[Health] \cup permit' : status'[i] # "none"
    BY <1>0, <2>1, <2>2 DEF RowsInv, Owners, TypeOK
  <2>13. permit' \cap fleet' = {}
    BY <2>2 DEF RowsInv, Owners
  <2>. QED
    BY <2>8, <2>9, <2>10, <2>11, <2>12, <2>13 DEF RowsInv, Owners
<1>2. CASE Enters(p)
  <2>1. /\ fleet' = fleet \cup {target[p]} /\ status' = status
        /\ permit' = permit
        /\ todo'[Health] = todo[Health] /\ Fresh(p) /\ ~Fresh(p)'
        /\ ~Ending(p)'
    BY <1>0, <1>2 DEF Enters, OthersKept, Fresh, Ending
  <2>2. \A q \in Procs \ {p} :
          (Fresh(q)' <=> Fresh(q)) /\ (Ending(q)' <=> Ending(q))
          /\ target'[q] = target[q]
    BY <1>0 DEF OthersKept, Fresh, Ending
  <2>3. Counted' = Counted
    BY <2>1 DEF Counted
  <2>. QED
    BY <2>1, <2>2, <2>3 DEF RowsInv, FleetCounted, Owners
<1>3. CASE Admits(p) \/ Removes(p) \/ Continues(p) \/ Returns(p)
  <2>1. /\ fleet' \subseteq fleet
        /\ permit' \subseteq permit \cup (fleet \ fleet')
    BY <1>3 DEF Admits, Removes, Continues, Returns
  <2>2. todo'[Health] = todo[Health]
    BY <1>0 DEF OthersKept
  <2>3. \A q \in Procs : Fresh(q)' => Fresh(q) /\ target'[q] = target[q]
    <3>1. Fresh(p)' => Fresh(p) /\ target'[p] = target[p]
      BY <1>3 DEF Admits, Removes, Continues, Returns, Fresh
    <3>. QED
      BY <1>0, <3>1 DEF OthersKept, Fresh
  <2>4. \A q \in Procs : Ending(q)' =>
          /\ target'[q] = target[q]
          /\ Ending(q) \/ target[q] \in fleet \ fleet'
    <3>1. Ending(p)' => /\ target'[p] = target[p]
                        /\ Ending(p) \/ target[p] \in fleet \ fleet'
      BY <1>3 DEF Admits, Removes, Continues, Returns, Ending
    <3>. QED
      BY <1>0, <3>1 DEF OthersKept, Ending
  <2>5. \/ status' = status
        \/ Ending(p) /\ status' = [status EXCEPT ![target[p]] = "stopped"]
    BY <1>3 DEF Admits, Removes, Continues, Returns, Ending
  <2>6. Keeps
    BY <2>1, <2>2, <2>3, <2>4, <2>5 DEF Keeps, TypeOK
  <2>. QED
    BY <2>6, RowsKept
<1>. QED
  BY <1>1, <1>2, <1>3, OperateEffect

\* Every step keeps rows and owners.
LEMMA RowsStep ==
  ASSUME "toolStop" \notin Disturbances, Bounded, RowsInv, Next
  PROVE  RowsInv'
<1>. USE FleetAssumption DEF Bounded
<1>0. Typed' /\ Health \in Procs
  BY TypedStep DEF Procs
<1>1. ASSUME NEW p \in Procs \ {Health}, Operate(p) PROVE RowsInv'
  BY <1>0, <1>1, OperateRows
<1>2. CASE HealthCheck
  <2>1. OthersKept(Health) /\ ~Fresh(Health)' /\ ~Ending(Health)'
    BY <1>2, HealthEffect DEF Places, Fresh, Ending
  <2>2. \A p \in Procs :
          /\ Fresh(p)' => Fresh(p) /\ target'[p] = target[p]
          /\ Ending(p)' => Ending(p) /\ target'[p] = target[p]
    BY <2>1 DEF OthersKept, Fresh, Ending
  <2>3. Keeps
    BY <1>0, <1>2, <2>2, HealthEffect DEF Keeps, Typed, TypeOK
  <2>. QED
    BY <1>0, <2>3, RowsKept
<1>3. ASSUME NEW id \in AgentIds, Tasks(id) \/ ToolStops(id)
      PROVE  RowsInv'
  <2>1. Keeps
    BY <1>3, TasksEffect DEF Keeps, Fresh, Ending, Typed, TypeOK
  <2>. QED
    BY <1>0, <2>1, RowsKept
<1>4. ASSUME NEW p \in Callers, Request(p) PROVE RowsInv'
  <2>1. PICK r \in AllRequests : pc' = [pc EXCEPT ![p] = r]
    BY <1>4 DEF Request, Goto
  <2>2. ~Fresh(p)' /\ ~Ending(p)'
    BY <2>1 DEF Fresh, Ending, AllRequests, Typed, TypeOK, Procs
  <2>3. \A q \in Procs \ {p} : pc'[q] = pc[q] /\ target'[q] = target[q]
    BY <1>4, <2>1 DEF Request, Typed, TypeOK
  <2>4. UNCHANGED <<status, fleet, permit, todo>>
    BY <1>4 DEF Request, taskVars
  <2>5. Keeps
    BY <2>2, <2>3, <2>4 DEF Keeps, Fresh, Ending
  <2>. QED
    BY <1>0, <2>5, RowsKept
<1>5. ASSUME NEW p \in Callers, Cut(p) PROVE RowsInv'
  <2>1. /\ ~Fresh(p)' /\ ~Ending(p)'
        /\ \A q \in Procs \ {p} : pc'[q] = pc[q] /\ target'[q] = target[q]
    BY <1>5 DEF Cut, Fresh, Ending, Typed, TypeOK, Procs
  <2>2. /\ UNCHANGED <<status, fleet, permit>>
        /\ todo'[Health] = todo[Health]
    BY <1>0, <1>5 DEF Cut, taskVars, Typed, TypeOK
  <2>3. Keeps
    BY <2>1, <2>2 DEF Keeps, Fresh, Ending
  <2>. QED
    BY <1>0, <2>3, RowsKept
<1>6. CASE RebalanceTick \/ Reconcile \/ Serve
  <2>1. /\ UNCHANGED <<fleet, permit, target, todo>>
        /\ \A q \in Procs :
             (Fresh(q)' => Fresh(q)) /\ (Ending(q)' => Ending(q))
    BY <1>6 DEF RebalanceTick, Reconcile, Serve, Goto, procVars, taskVars,
       Fresh, Ending, Typed, TypeOK
  <2>2. \A id \in AgentIds :
          \/ status'[id] = status[id]
          \/ status[id] # "none" /\ status'[id] = "idle"
    BY <1>6 DEF RebalanceTick, Reconcile, Serve, Typed, TypeOK
  <2>3. Keeps
    BY <2>1, <2>2 DEF Keeps
  <2>. QED
    BY <1>0, <2>3, RowsKept
<1>7. CASE Crash
  BY <1>0, <1>7
  DEF Crash, RowsInv, FleetCounted, Owners, Fresh, Ending
<1>. QED
  BY <1>1, <1>2, <1>3, <1>4, <1>5, <1>6, <1>7 DEF Next, Life

\* Every agent of the map has a row that resume counts, whatever else fails,
\* provided that the openclaw tool stops nobody.
THEOREM FleetIsCounted ==
  ASSUME "toolStop" \notin Disturbances
  PROVE  Spec => []FleetCounted
<1>1. Init => Bounded /\ RowsInv
  BY TypedInit, PlacesInit, BoundInit, RowsInit DEF Bounded
<1>2. Bounded /\ RowsInv /\ [Next]_vars => Bounded' /\ RowsInv'
  <2>1. Bounded /\ RowsInv /\ Next => Bounded' /\ RowsInv'
    BY TypedStep, PlacesStep, BoundStep, RowsStep DEF Bounded
  <2>2. Bounded /\ RowsInv /\ UNCHANGED vars => Bounded' /\ RowsInv'
    <3>1. Typed /\ UNCHANGED vars => Typed'
      BY TypedStep
    <3>2. Places /\ FleetBound /\ UNCHANGED vars => Places' /\ FleetBound'
      BY DEF Places, FleetBound, vars, lifeVars, procVars
    <3>3. RowsInv /\ UNCHANGED vars => RowsInv'
      BY DEF RowsInv, FleetCounted, Owners, Counted, Fresh, Ending, vars,
         taskVars, procVars
    <3>. QED
      BY <3>1, <3>2, <3>3 DEF Bounded
  <2>. QED
    BY <2>1, <2>2
<1>3. RowsInv => FleetCounted
  BY DEF RowsInv
<1>. QED
  BY <1>1, <1>2, <1>3, PTL DEF Spec

(***************************************************************************)
(* What handlers leave behind, for any agents, handlers and limits: the    *)
(* guards of the map are let go of, and every loop can still be told to    *)
(* stop.                                                                   *)
(***************************************************************************)

(***************************************************************************)
(* Guards.                                                                 *)
(***************************************************************************)

\* A step of p that leaves the guards of the others alone.
LEMMA GuardsOf ==
  ASSUME Typed, GuardsAgree, NEW p \in Procs,
         \A q \in Procs \ {p} : pc'[q] = pc[q],
         \/ pc'[p] \in Writing /\ writer' = p /\ readers = {}
              /\ writer \in {p, Nobody}
         \/ pc'[p] \notin Writing /\ writer' = Nobody /\ writer \in {p, Nobody}
         \/ pc'[p] \notin Writing /\ writer' = writer /\ writer # p,
         \/ pc'[p] = "measuring" /\ readers' = readers \cup {p}
              /\ writer' = Nobody
         \/ pc'[p] # "measuring" /\ readers' = readers \ {p},
         \/ asked' = asked \ {p}
         \/ asked' = asked /\ (pc'[p] = pc[p] \/ p \notin asked)
         \/ asked' = asked \cup {p} /\ pc'[p] \in ForRead \cup ForWrite
  PROVE  GuardsAgree'
<1>. USE FleetAssumption DEF Typed, TypeOK, GuardsAgree
<1>1. \A q \in Procs : pc'[q] \in Writing <=> writer' = q
  OBVIOUS
<1>2. readers' = {q \in Procs : pc'[q] = "measuring"}
  OBVIOUS
<1>3. \A q \in asked' : pc'[q] \in ForRead \cup ForWrite
  OBVIOUS
<1>4. writer' # Nobody => readers' = {}
  BY DEF Writing
<1>. QED
  BY <1>1, <1>2, <1>3, <1>4

\* A step of an operation.
LEMMA OperateGuards ==
  ASSUME Typed, GuardsAgree, NEW p \in Procs \ {Health}, Operate(p)
  PROVE  GuardsAgree'
<1>. USE FleetAssumption DEF lifeVars, taskVars, lockVars, queueVars, procVars,
     LeaveQueue, CanRead, CanWrite, Writing, ForRead, ForWrite
<1>0. /\ left[p] \in 0 .. InitialFleet /\ todo[p] \in SUBSET AgentIds
      /\ fleet \in SUBSET AgentIds /\ 0 \in 0 .. InitialFleet
      /\ p \in DOMAIN pc /\ p # Nobody
  BY FleetAssumption DEF Typed, TypeOK
<1>1. \A q \in Procs \ {p} : pc'[q] = pc[q]
  BY OperateEffect DEF OthersKept
<1>2. /\ pc[p] \in Writing <=> writer = p
      /\ p \in readers <=> pc[p] = "measuring"
      /\ p \in asked => pc[p] \in ForRead \cup ForWrite
      /\ writer # Nobody => readers = {}
  BY DEF GuardsAgree
<1>3. CASE Ask(p)
  BY <1>1, <1>2, <1>3, GuardsOf DEF Ask
<1>4. CASE DeployCheck(p)
  <2>1. pc'[p] \in {"inserting", "idle", "deploy", "stop"}
    <3>. DEFINE rest == IF left[p] = 0 THEN 0 ELSE left[p] - 1
    <3>1. rest \in 0 .. InitialFleet
      BY DEF Typed, TypeOK
    <3>2. CASE GoOn(p, {}, rest)
      BY <3>1, <3>2, GoOnEffect DEF Typed
    <3>3. CASE pc' = [pc EXCEPT ![p] = "inserting"]
      BY <1>0, <3>3
    <3>. QED
      BY <1>4, <3>2, <3>3 DEF DeployCheck
  <2>. QED
    BY <1>1, <1>2, <1>4, <2>1, GuardsOf DEF DeployCheck
<1>5. CASE DeployInsert(p) \/ DeploySpawn(p)
  BY <1>0, <1>1, <1>2, <1>5, GuardsOf DEF DeployInsert, DeploySpawn, Goto
<1>6. CASE DeployFails(p) \/ ResumeCount(p)
  <2>1. pc'[p] \in {"idle", "deploy", "stop"}
    <3>1. PICK n \in 0 .. InitialFleet : GoOn(p, {}, n)
      BY <1>0, <1>6, FleetAssumption DEF DeployFails, ResumeCount
    <3>. QED
      BY <3>1, GoOnEffect DEF Typed
  <2>. QED
    BY <1>1, <1>2, <1>6, <2>1, GuardsOf DEF DeployFails, ResumeCount
<1>7. CASE DeployTrack(p)
  <2>1. pc'[p] \in {"idle", "deploy", "stop"}
    BY <1>0, <1>7, GoOnEffect DEF DeployTrack, Typed
  <2>. QED
    BY <1>1, <1>2, <1>7, <2>1, GuardsOf DEF DeployTrack
<1>8. CASE StopBegin(p)
  BY <1>0, <1>1, <1>2, <1>8, GuardsOf DEF StopBegin, Goto
<1>9. CASE StopNotFound(p)
  <2>1. pc'[p] \in {"idle", "deploy", "stop"}
    BY <1>0, <1>9, GoOnEffect DEF StopNotFound, Typed
  <2>. QED
    BY <1>1, <1>2, <1>9, <2>1, GuardsOf DEF StopNotFound
<1>10. CASE StopGraceful(p) \/ StopAbort(p)
  BY <1>0, <1>1, <1>2, <1>10, GuardsOf DEF StopGraceful, StopAbort, Goto
<1>11. CASE StopMark(p)
  <2>1. pc'[p] \in {"idle", "deploy", "stop"}
    BY <1>0, <1>11, GoOnEffect DEF StopMark, Typed
  <2>. QED
    BY <1>1, <1>2, <1>11, <2>1, GuardsOf DEF StopMark
<1>12. CASE PauseCollect(p)
  <2>1. pc'[p] \in {"idle", "deploy", "stop"}
    BY <1>0, <1>12, GoOnEffect DEF PauseCollect, Typed
  <2>. QED
    BY <1>1, <1>2, <1>12, <2>1, GuardsOf DEF PauseCollect
<1>13. CASE RebalanceRead(p)
  BY <1>0, <1>1, <1>2, <1>13, GuardsOf DEF RebalanceRead, Goto
<1>14. CASE RebalanceDrop(p)
  <2>1. pc'[p] \in {"idle", "deploy", "stop"}
    <3>1. PICK under \in SUBSET fleet : GoOn(p, under, 0)
      BY <1>14 DEF RebalanceDrop
    <3>2. under \in SUBSET AgentIds
      BY <1>0
    <3>. QED
      BY <1>0, <3>1, <3>2, GoOnEffect DEF Typed
  <2>. QED
    BY <1>1, <1>2, <1>14, <2>1, GuardsOf DEF RebalanceDrop
<1>. QED
  BY <1>3, <1>4, <1>5, <1>6, <1>7, <1>8, <1>9, <1>10, <1>11, <1>12, <1>13,
     <1>14 DEF Operate

\* A step of the health check.
LEMMA HealthGuards == ASSUME Typed, GuardsAgree, HealthCheck PROVE GuardsAgree'
<1>. USE FleetAssumption DEF lifeVars, taskVars, lockVars, queueVars, procVars,
     LeaveQueue, CanRead, CanWrite, Writing, ForRead, ForWrite
<1>0. Health \in Procs /\ Health \in DOMAIN pc /\ Health # Nobody
  BY DEF Procs, Typed, TypeOK
<1>1. \A q \in Procs \ {Health} : pc'[q] = pc[q]
  BY HealthEffect DEF OthersKept
<1>2. /\ pc[Health] \in Writing <=> writer = Health
      /\ Health \in readers <=> pc[Health] = "measuring"
      /\ Health \in asked => pc[Health] \in ForRead \cup ForWrite
      /\ writer # Nobody => readers = {}
  BY <1>0 DEF GuardsAgree
<1>3. CASE HealthTick
  BY <1>0, <1>1, <1>2, <1>3, GuardsOf DEF HealthTick, Goto
<1>4. CASE Ask(Health)
  BY <1>0, <1>1, <1>2, <1>4, GuardsOf DEF Ask
<1>5. CASE HealthCollect
  BY <1>0, <1>1, <1>2, <1>5, GuardsOf DEF HealthCollect
<1>6. CASE HealthLock
  BY <1>0, <1>1, <1>2, <1>6, GuardsOf DEF HealthLock, Goto
<1>7. CASE HealthReap
  BY <1>0, <1>1, <1>2, <1>7, GuardsOf DEF HealthReap
<1>. QED
  BY <1>3, <1>4, <1>5, <1>6, <1>7 DEF HealthCheck

\* Every step leaves the guards in order: a handler that is dropped drops its
\* guards and its place in the queue.
LEMMA GuardsStep == Typed /\ GuardsAgree /\ [Next]_vars => GuardsAgree'
<1>. SUFFICES ASSUME Typed, GuardsAgree, [Next]_vars PROVE GuardsAgree'
  OBVIOUS
<1>. USE FleetAssumption DEF lifeVars, taskVars, lockVars, queueVars, procVars
<1>1. ASSUME NEW id \in AgentIds, Tasks(id) \/ ToolStops(id)
      PROVE  GuardsAgree'
  <2>1. UNCHANGED <<writer, readers, asked, pc>>
    BY <1>1 DEF Tasks, LoopWrites, LoopExits, LoopPanics, Restart, ToolStops
  <2>. QED
    BY <2>1 DEF GuardsAgree
<1>2. ASSUME NEW p \in Callers, Request(p) PROVE GuardsAgree'
  <2>1. PICK r \in AllRequests : Goto(p, "idle", r)
    BY <1>2 DEF Request
  <2>. QED
    BY <1>2, <2>1
    DEF Request, Goto, GuardsAgree, AllRequests, Writing, ForRead, ForWrite,
        Typed, TypeOK, Procs
<1>3. ASSUME NEW p \in Callers, Cut(p) PROVE GuardsAgree'
  BY <1>3 DEF Cut, LeaveQueue, GuardsAgree, Writing, Typed, TypeOK, Procs
<1>4. CASE RebalanceTick \/ Reconcile
  BY <1>4
  DEF RebalanceTick, Reconcile, Goto, GuardsAgree, Writing, ForRead, ForWrite,
      Typed, TypeOK, Procs
<1>5. CASE Serve \/ UNCHANGED vars
  BY <1>5 DEF Serve, vars, GuardsAgree
<1>6. CASE Crash
  BY <1>6 DEF Crash, GuardsAgree, Writing
<1>. QED
  BY OperateGuards, HealthGuards, <1>1, <1>2, <1>3, <1>4, <1>5, <1>6
  DEF Next, Life

\* GuardsAgree holds at the start.
LEMMA GuardsInit == Init => GuardsAgree
BY FleetAssumption DEF Init, GuardsAgree, Writing

\* Whatever is cut, panics or crashes: a write guard excludes all others, and
\* nobody who left the code that needs a guard still holds it.
THEOREM GuardsAreLetGo == Spec => []GuardsAgree
BY GuardsInit, GuardsStep, TypedInit, TypedStep, PTL DEF Spec

(***************************************************************************)
(* Whose an id is, whatever the openclaw tool writes.                      *)
(***************************************************************************)

\* Ids that have a row.
Known == {id \in AgentIds : status[id] # "none"}

\* An id in a deploy is in nothing else, and a stopped one has left the map.
Apart ==
  /\ fleet \cup permit \cup todo[Health] \subseteq Known
  /\ \A p \in Procs : Fresh(p) =>
       target[p] \in Known \ (fleet \cup permit \cup todo[Health])
  /\ \A p \in Procs : Ending(p) => target[p] \in Known \ fleet
  /\ \A p, q \in Procs :
       p # q /\ Fresh(p) /\ (Fresh(q) \/ Ending(q)) => target[p] # target[q]
  /\ permit \cap fleet = {}

\* Steps that start no deploy and enter nobody into the map.
KeepsApart ==
  /\ Known \subseteq Known'
  /\ fleet' \subseteq fleet
  /\ todo'[Health] \subseteq todo[Health] \cup fleet
  /\ permit' \subseteq permit \cup (fleet \ fleet')
  /\ \A p \in Procs : Fresh(p)' => Fresh(p) /\ target'[p] = target[p]
  /\ \A p \in Procs : Ending(p)' =>
       /\ target'[p] = target[p]
       /\ Ending(p) \/ target[p] \in fleet \ fleet'

\* Apart survives a step that keeps owners apart.
LEMMA ApartKept == Apart /\ KeepsApart => Apart'
<1>. SUFFICES ASSUME Apart, KeepsApart PROVE Apart'
  OBVIOUS
<1>. USE DEF Apart, KeepsApart
<1>1. fleet' \cup permit' \cup todo'[Health] \subseteq Known'
  OBVIOUS
<1>2. \A p \in Procs : Fresh(p)' =>
        target'[p] \in Known' \ (fleet' \cup permit' \cup todo'[Health])
  OBVIOUS
<1>3. \A p \in Procs : Ending(p)' => target'[p] \in Known' \ fleet'
  OBVIOUS
<1>4. \A p, q \in Procs :
        p # q /\ Fresh(p)' /\ (Fresh(q)' \/ Ending(q)')
          => target'[p] # target'[q]
  OBVIOUS
<1>5. permit' \cap fleet' = {}
  OBVIOUS
<1>. QED
  BY <1>1, <1>2, <1>3, <1>4, <1>5

\* A step of an operation.
LEMMA OperateApart ==
  ASSUME Typed, Apart, NEW p \in Procs \ {Health}, Operate(p)
  PROVE  Apart'
<1>. USE FleetAssumption DEF Typed
<1>0. Health \in Procs \ {p} /\ OthersKept(p) /\ todo'[Health] = todo[Health]
  BY OperateEffect DEF Procs, OthersKept
<1>1. \A q \in Procs \ {p} :
        (Fresh(q)' <=> Fresh(q)) /\ (Ending(q)' <=> Ending(q))
        /\ target'[q] = target[q]
  BY <1>0 DEF OthersKept, Fresh, Ending
<1>2. CASE Inserts(p)
  <2>1. PICK id \in AgentIds \ Known : target'[p] = id /\ Known' = Known \cup {id}
    BY <1>2 DEF Inserts, Known, TypeOK
  <2>2. UNCHANGED <<fleet, permit>> /\ ~Ending(p)'
    BY <1>2 DEF Inserts, Ending
  <2>. QED
    BY <1>0, <1>1, <2>1, <2>2 DEF Apart
<1>3. CASE Enters(p)
  <2>1. /\ fleet' = fleet \cup {target[p]} /\ UNCHANGED permit
        /\ Fresh(p) /\ ~Fresh(p)' /\ ~Ending(p)' /\ Known' = Known
    BY <1>3 DEF Enters, Fresh, Ending, Known
  <2>. QED
    BY <1>0, <1>1, <2>1 DEF Apart
<1>4. CASE Admits(p) \/ Removes(p) \/ Continues(p) \/ Returns(p)
  <2>1. /\ fleet' \subseteq fleet
        /\ permit' \subseteq permit \cup (fleet \ fleet')
    BY <1>4 DEF Admits, Removes, Continues, Returns
  <2>2. /\ Fresh(p)' => Fresh(p) /\ target'[p] = target[p]
        /\ Ending(p)' => /\ target'[p] = target[p]
                         /\ Ending(p) \/ target[p] \in fleet \ fleet'
    BY <1>4 DEF Admits, Removes, Continues, Returns, Fresh, Ending
  <2>3. Known \subseteq Known'
    BY <1>4 DEF Admits, Removes, Continues, Returns, Known, TypeOK
  <2>4. KeepsApart
    BY <1>0, <1>1, <2>1, <2>2, <2>3 DEF KeepsApart
  <2>. QED
    BY <2>4, ApartKept
<1>. QED
  BY <1>2, <1>3, <1>4, OperateEffect

\* Every step keeps the ids apart.
LEMMA ApartStep == Typed /\ Places /\ Apart /\ [Next]_vars => Apart'
<1>. SUFFICES ASSUME Typed, Places, Apart, [Next]_vars PROVE Apart'
  OBVIOUS
<1>. USE FleetAssumption
<1>0. Health \in Procs
  BY DEF Procs
<1>1. CASE HealthCheck
  <2>1. OthersKept(Health) /\ ~Fresh(Health)' /\ ~Ending(Health)'
    BY <1>1, HealthEffect DEF Places, Fresh, Ending
  <2>2. \A p \in Procs :
          /\ Fresh(p)' => Fresh(p) /\ target'[p] = target[p]
          /\ Ending(p)' => Ending(p) /\ target'[p] = target[p]
    BY <2>1 DEF OthersKept, Fresh, Ending
  <2>3. Known \subseteq Known'
    BY <1>1, HealthEffect DEF Known, Typed, TypeOK
  <2>4. KeepsApart
    BY <1>1, <2>2, <2>3, HealthEffect DEF KeepsApart
  <2>. QED
    BY <2>4, ApartKept
<1>2. ASSUME NEW id \in AgentIds, Tasks(id) \/ ToolStops(id)
      PROVE  Apart'
  <2>1. Known \subseteq Known'
    BY <1>2, TasksEffect DEF Known, Typed, TypeOK
  <2>2. KeepsApart
    BY <1>2, <2>1, TasksEffect DEF KeepsApart, Fresh, Ending
  <2>. QED
    BY <2>2, ApartKept
<1>3. ASSUME NEW p \in Callers, Request(p) \/ Cut(p) PROVE Apart'
  <2>1. ~Fresh(p)' /\ ~Ending(p)'
    <3>1. PICK r \in AllRequests \cup {"idle"} : pc' = [pc EXCEPT ![p] = r]
      BY <1>3 DEF Request, Goto, Cut
    <3>. QED
      BY <3>1 DEF Fresh, Ending, AllRequests, Typed, TypeOK, Procs
  <2>2. \A q \in Procs \ {p} : pc'[q] = pc[q] /\ target'[q] = target[q]
    BY <1>3 DEF Request, Goto, Cut, Typed, TypeOK
  <2>3. UNCHANGED <<status, fleet, permit>> /\ todo'[Health] = todo[Health]
    BY <1>0, <1>3 DEF Request, Cut, taskVars, Typed, TypeOK
  <2>4. KeepsApart
    BY <2>1, <2>2, <2>3 DEF KeepsApart, Known, Fresh, Ending
  <2>. QED
    BY <2>4, ApartKept
<1>4. CASE RebalanceTick \/ Reconcile \/ Serve
  <2>1. /\ UNCHANGED <<fleet, permit, target, todo>>
        /\ \A q \in Procs :
             (Fresh(q)' => Fresh(q)) /\ (Ending(q)' => Ending(q))
    BY <1>4 DEF RebalanceTick, Reconcile, Serve, Goto, procVars, taskVars,
       Fresh, Ending, Typed, TypeOK
  <2>2. Known \subseteq Known'
    BY <1>4 DEF RebalanceTick, Reconcile, Serve, Known, Typed, TypeOK
  <2>3. KeepsApart
    BY <2>1, <2>2 DEF KeepsApart
  <2>. QED
    BY <2>3, ApartKept
<1>5. CASE Crash
  BY <1>0, <1>5 DEF Crash, Apart, Fresh, Ending
<1>6. CASE UNCHANGED vars
  BY <1>6 DEF vars, lifeVars, taskVars, procVars, Apart, Known, Fresh, Ending
<1>. QED
  BY OperateApart, <1>1, <1>2, <1>3, <1>4, <1>5, <1>6 DEF Next, Life

\* Apart holds at the start.
LEMMA ApartInit == Init => Apart
BY FleetAssumption DEF Init, Apart, Fresh, Ending, Procs

(***************************************************************************)
(* Loops.                                                                  *)
(***************************************************************************)

\* A loop runs, or will run again.
Live(id) == id \in running \/ super[id] = "backoff"

\* Its deploy has spawned it and not yet entered it into the map.
Tracked(id) == \E p \in Procs : pc[p] = "tracking" /\ target[p] = id

\* A loop whose supervisor is gone has been told to stop, so that what the
\* health check takes out of the map does not run.
LoopsHeld ==
  /\ \A id \in AgentIds : Live(id) => id \in fleet \cup permit \/ Tracked(id)
  /\ \A id \in running : super[id] = "over" => id \in permit
  /\ \A id \in todo[Health] : super[id] = "over" /\ id \notin running

HeldInv == Typed /\ Places /\ Apart /\ LoopsHeld

\* An operation at a point where it touches no loop.
Idles(p) ==
  /\ UNCHANGED <<fleet, super, running, permit>>
  /\ pc'[p] = "tracking" <=> pc[p] = "tracking"
  /\ pc[p] = "tracking" => target'[p] = target[p]

\* An operation that starts and stops no agent leaves the loops alone.
LEMMA OperateIdles ==
  ASSUME Typed, NEW p \in Procs, Operate(p),
         ~DeploySpawn(p), ~DeployTrack(p), ~StopBegin(p), ~StopAbort(p)
  PROVE  Idles(p)
<1>. USE DEF taskVars, procVars, Idles, Typed
<1>1. CASE Ask(p)
  BY <1>1 DEF Ask
<1>2. CASE DeployInsert(p) \/ StopGraceful(p) \/ RebalanceRead(p)
  BY <1>2 DEF DeployInsert, StopGraceful, RebalanceRead, Goto, TypeOK
<1>3. CASE DeployCheck(p)
  BY <1>3 DEF DeployCheck, GoOn, TypeOK
<1>4. CASE DeployFails(p) \/ StopNotFound(p) \/ StopMark(p) \/ PauseCollect(p)
  BY <1>4 DEF DeployFails, StopNotFound, StopMark, PauseCollect, GoOn, TypeOK
<1>5. CASE ResumeCount(p) \/ RebalanceDrop(p)
  BY <1>5 DEF ResumeCount, RebalanceDrop, GoOn, TypeOK
<1>. QED
  BY <1>1, <1>2, <1>3, <1>4, <1>5 DEF Operate

\* A step of an operation.
LEMMA OperateHeld ==
  ASSUME HeldInv, NEW p \in Procs \ {Health}, Operate(p)
  PROVE  LoopsHeld'
<1>. USE DEF HeldInv, LoopsHeld
<1>0. /\ OthersKept(p) /\ todo'[Health] = todo[Health]
      /\ todo[Health] \subseteq AgentIds /\ running \subseteq AgentIds
  BY OperateEffect, FleetAssumption DEF OthersKept, Procs, Typed, TypeOK
<1>1. CASE Idles(p)
  <2>1. \A id \in AgentIds : Tracked(id) => Tracked(id)'
    BY <1>0, <1>1 DEF Idles, Tracked, OthersKept
  <2>. QED
    BY <1>0, <1>1, <2>1 DEF Idles, Live
<1>2. CASE DeploySpawn(p)
  <2>1. target[p] \in AgentIds \ todo[Health]
    BY <1>2 DEF DeploySpawn, Goto, Typed, TargetKnown, Apart, Fresh
  <2>2. /\ running' = running \cup {target[p]}
        /\ super' = [super EXCEPT ![target[p]] = "running"]
        /\ UNCHANGED <<fleet, permit, target>>
        /\ pc'[p] = "tracking" /\ pc[p] = "inserted"
    BY <1>2 DEF DeploySpawn, Goto, Typed, TypeOK
  <2>3. \A id \in AgentIds : Tracked(id) => Tracked(id)'
    BY <1>0, <2>2 DEF Tracked, OthersKept
  <2>4. Tracked(target[p])'
    BY <2>2 DEF Tracked
  <2>. QED
    BY <1>0, <2>1, <2>2, <2>3, <2>4 DEF Live, Typed, TypeOK
<1>3. CASE DeployTrack(p)
  <2>1. /\ fleet' = fleet \cup {target[p]} /\ UNCHANGED <<super, running, permit>>
    BY <1>3 DEF DeployTrack, taskVars
  <2>2. \A id \in AgentIds : Tracked(id) => Tracked(id)' \/ id \in fleet'
    BY <1>0, <2>1 DEF Tracked, OthersKept
  <2>. QED
    BY <1>0, <2>1, <2>2 DEF Live
<1>4. CASE StopBegin(p)
  <2>1. /\ fleet' = fleet \ {target[p]} /\ permit' = permit \cup {target[p]}
        /\ UNCHANGED <<super, running>>
        /\ pc[p] = "stop"
    BY <1>4 DEF StopBegin, Goto
  <2>2. \A id \in AgentIds : Tracked(id) => Tracked(id)'
    BY <1>0, <2>1 DEF Tracked, OthersKept
  <2>. QED
    BY <1>0, <2>1, <2>2 DEF Live
<1>5. CASE StopAbort(p)
  <2>1. /\ super' = [super EXCEPT ![target[p]] = "over"]
        /\ UNCHANGED <<fleet, running, permit, target>>
        /\ pc[p] = "stopping" /\ pc'[p] = "marking"
    BY <1>5 DEF StopAbort, Goto, Typed, TypeOK
  <2>2. \A id \in AgentIds : Tracked(id) => Tracked(id)'
    BY <1>0, <2>1 DEF Tracked, OthersKept
  <2>3. target[p] \in AgentIds \ fleet /\ ~Tracked(target[p])
    BY <2>1 DEF Apart, Ending, Fresh, Tracked, Known
  <2>4. target[p] \in running => target[p] \in permit
    BY <2>3 DEF Live
  <2>. QED
    BY <1>0, <2>1, <2>2, <2>4 DEF Live, Typed, TypeOK
<1>. QED
  BY <1>1, <1>2, <1>3, <1>4, <1>5, OperateIdles

\* Steps that leave the deploys alone.
LEMMA HeldKept ==
  ASSUME HeldInv, Typed', todo'[Health] \subseteq AgentIds,
         \A id \in AgentIds : Tracked(id) => Tracked(id)',
         \A id \in AgentIds :
           /\ Live(id)' => Live(id) /\ (id \in fleet \cup permit => id \in fleet' \cup permit')
           /\ id \in running' /\ super'[id] = "over" => id \in permit'
           /\ id \in todo'[Health] => super'[id] = "over" /\ id \notin running'
  PROVE  LoopsHeld'
BY DEF HeldInv, LoopsHeld, Typed, TypeOK

\* The health check keeps the loops held.
LEMMA HealthHeld == ASSUME HeldInv, HealthCheck PROVE LoopsHeld'
<1>. USE FleetAssumption DEF HeldInv
<1>0. /\ Health \in Procs /\ Typed' /\ OthersKept(Health)
      /\ todo[Health] \subseteq AgentIds /\ todo'[Health] \subseteq AgentIds
  BY HealthTyped, HealthEffect DEF Procs, Typed, TypeOK
<1>1. /\ pc[Health] # "tracking" /\ UNCHANGED <<super, running, permit>>
  BY DEF Places, HealthCheck, HealthTick, Ask, HealthCollect, HealthLock,
     HealthReap, taskVars
<1>2. \A id \in AgentIds : Tracked(id) => Tracked(id)'
  BY <1>0, <1>1 DEF Tracked, OthersKept
<1>3. CASE HealthCollect
  <2>1. /\ UNCHANGED fleet
        /\ todo'[Health] = {id \in fleet : super[id] = "over"}
    BY <1>0, <1>3 DEF HealthCollect, Typed, TypeOK
  <2>2. \A id \in todo'[Health] : super[id] = "over" /\ id \notin running
    BY <2>1 DEF LoopsHeld, Apart
  <2>. QED
    BY <1>0, <1>1, <1>2, <2>1, <2>2, HeldKept DEF Live, LoopsHeld
<1>4. CASE HealthReap
  <2>1. PICK id \in todo[Health] :
          fleet' = fleet \ {id} /\ todo'[Health] \subseteq todo[Health]
    BY <1>0, <1>4 DEF HealthReap, Typed, TypeOK
  <2>2. ~Live(id)
    BY <2>1 DEF LoopsHeld, Live
  <2>. QED
    BY <1>0, <1>1, <1>2, <2>1, <2>2, HeldKept DEF Live, LoopsHeld
<1>5. CASE HealthTick \/ Ask(Health) \/ HealthLock
  <2>1. UNCHANGED <<fleet, todo>>
    BY <1>5 DEF HealthTick, Ask, HealthLock, procVars
  <2>. QED
    BY <1>0, <1>1, <1>2, <2>1, HeldKept DEF Live, LoopsHeld
<1>. QED
  BY <1>3, <1>4, <1>5 DEF HealthCheck

\* A loop that ends, panics or starts again was held before.
LEMMA TasksHeld ==
  ASSUME HeldInv, NEW id \in AgentIds, Tasks(id) \/ ToolStops(id)
  PROVE  LoopsHeld'
<1>. USE DEF HeldInv, LoopsHeld
<1>0. /\ UNCHANGED <<fleet, pc, target, todo>> /\ Typed'
      /\ todo[Health] \subseteq AgentIds
  BY TasksEffect, TasksTyped, FleetAssumption DEF Typed, TypeOK, Procs
<1>1. \A i \in AgentIds : Tracked(i) => Tracked(i)'
  BY <1>0 DEF Tracked
<1>2. CASE LoopWrites(id) \/ ToolStops(id)
  <2>1. UNCHANGED <<super, running, permit>>
    BY <1>2 DEF LoopWrites, ToolStops, taskVars
  <2>. QED
    BY <1>0, <1>1, <2>1 DEF Live
<1>3. CASE LoopExits(id)
  <2>1. /\ running' = running \ {id} /\ super' = [super EXCEPT ![id] = "over"]
        /\ permit \ {id} \subseteq permit'
    BY <1>3 DEF LoopExits
  <2>. QED
    BY <1>0, <1>1, <2>1, HeldKept DEF Live, Typed, TypeOK
<1>4. CASE LoopPanics(id)
  <2>1. /\ running' = running \ {id} /\ UNCHANGED permit
        /\ id \in running
        /\ \/ UNCHANGED super
           \/ /\ super[id] # "over"
              /\ \E s \in {"backoff", "over"} : super' = [super EXCEPT ![id] = s]
    BY <1>4 DEF LoopPanics
  <2>. QED
    BY <1>0, <1>1, <2>1, HeldKept DEF Live, Typed, TypeOK
<1>5. CASE Restart(id)
  <2>1. /\ running' = running \cup {id} /\ UNCHANGED permit
        /\ super[id] = "backoff" /\ super' = [super EXCEPT ![id] = "running"]
    BY <1>5 DEF Restart
  <2>. QED
    BY <1>0, <1>1, <2>1, HeldKept DEF Live, Typed, TypeOK
<1>. QED
  BY <1>2, <1>3, <1>4, <1>5 DEF Tasks

\* A step of this part, or of another, keeps HeldInv.
LEMMA HeldStep ==
  ASSUME "cut" \notin Disturbances, HeldInv, [Next]_vars
  PROVE  HeldInv'
<1>. USE FleetAssumption DEF HeldInv
<1>0. Typed' /\ Apart' /\ Health \in Procs
  BY TypedStep, ApartStep DEF Procs
<1>1. Places'
  BY PlacesStep DEF Places, vars, lifeVars, procVars
<1>2. ASSUME NEW p \in Callers, Request(p) PROVE LoopsHeld'
  <2>1. UNCHANGED <<fleet, super, running, permit, todo>>
    BY <1>2 DEF Request, taskVars
  <2>2. \A id \in AgentIds : Tracked(id) => Tracked(id)'
    BY <1>2 DEF Request, Goto, Tracked, Typed, TypeOK
  <2>. QED
    BY <2>1, <2>2 DEF LoopsHeld, Live
<1>3. ASSUME NEW p \in Callers, Cut(p) PROVE FALSE
  BY <1>3 DEF Cut
<1>4. ASSUME RebalanceTick \/ Reconcile \/ Serve PROVE LoopsHeld'
  <2>1. UNCHANGED <<fleet, super, running, permit, target, todo>>
    BY <1>4 DEF RebalanceTick, Reconcile, Serve, taskVars, procVars
  <2>2. \A id \in AgentIds : Tracked(id) => Tracked(id)'
    BY <1>4, <2>1 DEF RebalanceTick, Reconcile, Serve, Goto, procVars, Tracked,
       Typed, TypeOK
  <2>. QED
    BY <2>1, <2>2 DEF LoopsHeld, Live
<1>5. ASSUME Crash PROVE LoopsHeld'
  BY <1>0, <1>5 DEF Crash, LoopsHeld, Live
<1>6. ASSUME UNCHANGED vars PROVE LoopsHeld'
  BY <1>6 DEF vars, taskVars, procVars, LoopsHeld, Live, Tracked
<1>7. LoopsHeld'
  BY OperateHeld, HealthHeld, TasksHeld, <1>2, <1>3, <1>4, <1>5, <1>6
  DEF Next, Life
<1>. QED
  BY <1>0, <1>1, <1>7

\* HeldInv holds at the start.
LEMMA HeldInit == Init => HeldInv
<1>1. Init => LoopsHeld
  BY FleetAssumption DEF Init, LoopsHeld, Live, Procs
<1>. QED
  BY <1>1, TypedInit, PlacesInit, ApartInit DEF HeldInv

\* When no handler is dropped, nothing is left behind: no guard, and no loop
\* that a stop of its agent would not reach.
THEOREM NothingIsForgotten ==
  ASSUME "cut" \notin Disturbances
  PROVE  Spec => []NothingForgotten
<1>1. HeldInv /\ [Next]_vars => HeldInv'
  BY HeldStep
<1>2. HeldInv => LoopsOwned
  BY DEF HeldInv, LoopsHeld, LoopsOwned, Live, Tracked, Typed, TypeOK
<1>3. GuardsAgree /\ LoopsOwned => NothingForgotten
  BY DEF NothingForgotten
<1>. QED
  BY <1>1, <1>2, <1>3, HeldInit, GuardsAreLetGo, PTL DEF Spec

(***************************************************************************)
(* Rows.                                                                   *)
(***************************************************************************)

\* A deploy or a stop of the agent is in progress; while the agent may have
\* a loop, the stop has not seen its end.
Handled(id) ==
  \E p \in Procs :
    /\ target[p] = id
    /\ pc[p] \in {"inserted", "tracking", "stopping", "marking"}
Awaited(id) ==
  \E p \in Procs : target[p] = id /\ pc[p] \in {"tracking", "stopping"}

\* A supervisor and its loop agree, and neither outlives the agent's place in
\* the map, but for a deploy or a stop in progress.
RowsHeld ==
  /\ \A id \in Counted : id \in fleet \/ Handled(id)
  /\ \A id \in AgentIds : Live(id) => id \in fleet \/ Awaited(id)
  /\ \A id \in AgentIds : super[id] \in {"over", "backoff"} => id \notin running

OwnedInv == HeldInv /\ RowsHeld

\* A step of p that leaves loops and rows alone, and p's agent too if it is
\* handling one.
LEMMA RowsUntouched ==
  ASSUME RowsHeld, NEW p \in Procs, OthersKept(p),
         UNCHANGED <<fleet, super, running>>, Counted' \subseteq Counted,
         pc[p] \in {"inserted", "tracking", "stopping", "marking"} =>
           target'[p] = target[p] /\ pc'[p] = pc[p]
  PROVE  RowsHeld'
<1>1. \A id \in AgentIds : (Handled(id) => Handled(id)') /\ (Awaited(id) => Awaited(id)')
  BY DEF Handled, Awaited, OthersKept
<1>. QED
  BY <1>1 DEF RowsHeld, Live, Counted

\* An operation keeps the rows with the loops that hold them.
LEMMA OperateOwned ==
  ASSUME Disturbances \subseteq {"panic", "toolStop"},
         OwnedInv, NEW p \in Procs \ {Health}, Operate(p)
  PROVE  RowsHeld'
<1>. USE DEF OwnedInv, HeldInv
<1>0. /\ OthersKept(p) /\ p \in DOMAIN pc
      /\ target \in [Procs -> AgentIds \cup {NoAgent}]
      /\ super \in [AgentIds -> {"none", "running", "backoff", "over"}]
      /\ status \in [AgentIds -> RowStatus] /\ running \subseteq AgentIds
  BY OperateEffect DEF Typed, TypeOK
<1>1. \A id \in AgentIds :
        /\ Handled(id) /\ id # target[p] => Handled(id)'
        /\ Awaited(id) /\ id # target[p] => Awaited(id)'
  BY <1>0 DEF Handled, Awaited, OthersKept
<1>2. CASE Ask(p)
  BY <1>0, <1>2, RowsUntouched DEF Ask, taskVars, procVars, Counted
<1>3. CASE \/ DeployCheck(p) \/ DeployFails(p) \/ StopNotFound(p)
           \/ PauseCollect(p) \/ ResumeCount(p) \/ RebalanceRead(p)
           \/ RebalanceDrop(p)
  <2>1. /\ UNCHANGED <<fleet, super, running, status>>
        /\ pc[p] \notin {"inserted", "tracking", "stopping", "marking"}
    BY <1>3 DEF DeployCheck, DeployFails, StopNotFound, PauseCollect, ResumeCount,
       RebalanceRead, RebalanceDrop, Goto, taskVars
  <2>. QED
    BY <1>0, <2>1, RowsUntouched DEF Counted
<1>4. CASE DeployInsert(p)
  <2>1. PICK id \in AgentIds :
          /\ status' = [status EXCEPT ![id] = "active"]
          /\ target'[p] = id /\ pc'[p] = "inserted" /\ pc[p] = "inserting"
          /\ UNCHANGED <<fleet, super, running>>
    BY <1>0, <1>4 DEF DeployInsert, Goto, taskVars
  <2>2. Handled(id)' /\ Counted' \subseteq Counted \cup {id}
    BY <1>0, <2>1 DEF Handled, Counted
  <2>3. \A i \in AgentIds :
          (Handled(i) => Handled(i)') /\ (Awaited(i) => Awaited(i)')
    BY <1>0, <2>1 DEF Handled, Awaited, OthersKept
  <2>. QED
    BY <2>1, <2>2, <2>3 DEF RowsHeld, Live, Counted
<1>5. CASE DeploySpawn(p)
  <2>1. /\ target[p] \in AgentIds /\ UNCHANGED <<fleet, status, target>>
        /\ running' = running \cup {target[p]}
        /\ super' = [super EXCEPT ![target[p]] = "running"]
        /\ pc[p] = "inserted" /\ pc'[p] = "tracking"
    BY <1>0, <1>5 DEF DeploySpawn, Goto, Typed, TargetKnown
  <2>2. Handled(target[p])' /\ Awaited(target[p])'
    BY <2>1 DEF Handled, Awaited
  <2>. QED
    BY <1>0, <1>1, <2>1, <2>2 DEF RowsHeld, Live, Counted
<1>6. CASE DeployTrack(p)
  <2>1. /\ fleet' = fleet \cup {target[p]}
        /\ UNCHANGED <<status, super, running>>
    BY <1>6 DEF DeployTrack, taskVars
  <2>. QED
    BY <1>1, <2>1 DEF RowsHeld, Live, Counted
<1>7. CASE StopBegin(p)
  <2>1. /\ target[p] \in fleet /\ fleet' = fleet \ {target[p]}
        /\ UNCHANGED <<status, super, running, target>>
        /\ pc'[p] = "stopping"
    BY <1>0, <1>7 DEF StopBegin, Goto
  <2>2. Handled(target[p])' /\ Awaited(target[p])'
    BY <2>1 DEF Handled, Awaited
  <2>. QED
    BY <1>1, <2>1, <2>2 DEF RowsHeld, Live, Counted
<1>8. CASE StopGraceful(p) \/ StopAbort(p)
  <2>1. /\ pc[p] = "stopping" /\ pc'[p] = "marking"
        /\ UNCHANGED <<status, fleet, running, target>>
        /\ target[p] \in AgentIds
    BY <1>0, <1>8 DEF StopGraceful, StopAbort, Goto, taskVars, Apart, Ending, Known
  <2>2. /\ super[target[p]] \in {"over", "backoff"}
        /\ super' = [super EXCEPT ![target[p]] = "over"]
    BY <1>0, <1>8, <2>1 DEF StopGraceful, StopAbort, taskVars
  <2>3. Handled(target[p])' /\ ~Live(target[p])'
    BY <1>0, <2>1, <2>2 DEF Handled, Live, RowsHeld
  <2>. QED
    BY <1>0, <1>1, <2>1, <2>2, <2>3 DEF RowsHeld, Live, Counted
<1>9. CASE StopMark(p)
  <2>1. /\ pc[p] = "marking" /\ UNCHANGED <<fleet, super, running>>
        /\ status' = [status EXCEPT ![target[p]] = "stopped"]
        /\ target[p] \in AgentIds
    BY <1>0, <1>9 DEF StopMark, SetStatus, taskVars, Apart, Ending, Known
  <2>2. Counted' = Counted \ {target[p]}
    BY <1>0, <2>1 DEF Counted
  <2>3. \A id \in AgentIds : Awaited(id) => Awaited(id)'
    BY <1>0, <2>1 DEF Awaited, OthersKept
  <2>. QED
    BY <1>0, <1>1, <2>1, <2>2, <2>3 DEF RowsHeld, Live, Counted
<1>. QED
  BY <1>2, <1>3, <1>4, <1>5, <1>6, <1>7, <1>8, <1>9 DEF Operate

\* The health check keeps the rows with the loops that hold them.
LEMMA HealthOwned ==
  ASSUME Disturbances \subseteq {"panic", "toolStop"}, OwnedInv, HealthCheck
  PROVE  RowsHeld'
<1>. USE FleetAssumption DEF OwnedInv, HeldInv
<1>0. Health \in Procs /\ OthersKept(Health)
  BY HealthEffect DEF Procs
<1>1. UNCHANGED <<super, running>>
  BY DEF HealthCheck, HealthTick, Ask, HealthCollect, HealthLock, HealthReap,
     taskVars
<1>2. \A id \in AgentIds :
        (Handled(id) => Handled(id)') /\ (Awaited(id) => Awaited(id)')
  BY <1>0 DEF Places, Handled, Awaited, OthersKept
<1>3. CASE HealthReap
  <2>1. PICK id \in todo[Health] :
          /\ fleet' = fleet \ {id}
          /\ status' = [status EXCEPT ![id] = "stopped"]
    BY <1>3 DEF HealthReap, SetStatus
  <2>2. ~Live(id) /\ Counted' = Counted \ {id}
    BY <2>1 DEF LoopsHeld, Live, Counted, Typed, TypeOK
  <2>. QED
    BY <1>1, <1>2, <2>1, <2>2 DEF RowsHeld, Live, Counted
<1>4. CASE HealthTick \/ Ask(Health) \/ HealthCollect \/ HealthLock
  <2>1. UNCHANGED <<fleet, status>>
    BY <1>4 DEF HealthTick, Ask, HealthCollect, HealthLock
  <2>. QED
    BY <1>1, <1>2, <2>1 DEF RowsHeld, Live, Counted
<1>. QED
  BY <1>3, <1>4 DEF HealthCheck

\* The loops keep the rows with the loops that hold them.
LEMMA TasksOwned ==
  ASSUME Disturbances \subseteq {"panic", "toolStop"},
         OwnedInv, NEW id \in AgentIds, Tasks(id) \/ ToolStops(id)
  PROVE  RowsHeld'
<1>. USE DEF OwnedInv, HeldInv, Typed, TypeOK
<1>0. UNCHANGED <<fleet, pc, target>>
  BY TasksEffect
<1>1. \A i \in AgentIds :
        (Handled(i) => Handled(i)') /\ (Awaited(i) => Awaited(i)')
  BY <1>0 DEF Handled, Awaited
<1>2. ASSUME NEW i \in AgentIds, Live(i) PROVE i \in fleet \/ Handled(i)
  BY <1>2 DEF RowsHeld, Handled, Awaited
<1>3. CASE LoopWrites(id) \/ ToolStops(id)
  <2>1. /\ UNCHANGED <<super, running>>
        /\ \A i \in Counted' : i \in Counted \/ (i = id /\ Live(id))
    BY <1>3 DEF LoopWrites, ToolStops, taskVars, Counted, Live
  <2>. QED
    BY <1>0, <1>1, <1>2, <2>1 DEF RowsHeld, Live, Counted
<1>4. CASE LoopExits(id)
  <2>1. /\ running' = running \ {id} /\ super' = [super EXCEPT ![id] = "over"]
        /\ status' = [status EXCEPT ![id] = "stopped"]
    BY <1>4 DEF LoopExits, SetStatus
  <2>. QED
    BY <1>0, <1>1, <2>1 DEF RowsHeld, Live, Counted
<1>5. CASE LoopPanics(id)
  <2>1. /\ id \in running /\ running' = running \ {id}
        /\ \E s \in {"backoff", "over"} : super' = [super EXCEPT ![id] = s]
        /\ UNCHANGED status \/ status' = [status EXCEPT ![id] = "error"]
    BY <1>5 DEF LoopPanics, SetStatus, RowsHeld
  <2>2. Live(id) /\ \A i \in Counted' : i \in Counted \/ i = id
    BY <2>1 DEF Live, Counted
  <2>. QED
    BY <1>0, <1>1, <1>2, <2>1, <2>2 DEF RowsHeld, Live, Counted
<1>6. CASE Restart(id)
  <2>1. /\ running' = running \cup {id} /\ UNCHANGED status
        /\ super[id] = "backoff" /\ super' = [super EXCEPT ![id] = "running"]
    BY <1>6 DEF Restart
  <2>. QED
    BY <1>0, <1>1, <2>1 DEF RowsHeld, Live, Counted
<1>. QED
  BY <1>3, <1>4, <1>5, <1>6 DEF Tasks

\* A step of this part, or of another, keeps OwnedInv.
LEMMA OwnedStep ==
  ASSUME Disturbances \subseteq {"panic", "toolStop"}, MaxCrashes = 0,
         OwnedInv, [Next]_vars
  PROVE  OwnedInv'
<1>. USE FleetAssumption DEF OwnedInv
<1>0. HeldInv'
  BY HeldStep
<1>1. ASSUME NEW p \in Callers, Request(p) PROVE RowsHeld'
  <2>1. /\ UNCHANGED <<fleet, super, running, status, todo, left>>
        /\ pc[p] = "idle" /\ OthersKept(p) /\ p \in Procs
    BY <1>1 DEF Request, Goto, taskVars, OthersKept, HeldInv, Typed, TypeOK, Procs
  <2>. QED
    BY <2>1, RowsUntouched DEF Counted
<1>2. ASSUME NEW p \in Callers, Cut(p) PROVE FALSE
  BY <1>2 DEF Cut
<1>3. ASSUME RebalanceTick \/ Reconcile \/ Serve PROVE RowsHeld'
  <2>1. UNCHANGED <<fleet, super, running, target>>
    BY <1>3 DEF RebalanceTick, Reconcile, Serve, taskVars, procVars
  <2>2. Counted' \subseteq Counted
    BY <1>3 DEF RebalanceTick, Reconcile, Serve, Counted, HeldInv, Typed, TypeOK
  <2>3. \A id \in AgentIds :
          (Handled(id) => Handled(id)') /\ (Awaited(id) => Awaited(id)')
    BY <1>3, <2>1 DEF RebalanceTick, Reconcile, Serve, Goto, procVars, Handled,
       Awaited, HeldInv, Typed, TypeOK
  <2>. QED
    BY <2>1, <2>2, <2>3 DEF RowsHeld, Live, Counted
<1>4. ASSUME Crash PROVE FALSE
  BY <1>4 DEF Crash, HeldInv, Typed, TypeOK
<1>5. ASSUME UNCHANGED vars PROVE RowsHeld'
  BY <1>5 DEF vars, taskVars, procVars, RowsHeld, Live, Counted, Handled, Awaited
<1>6. RowsHeld'
  BY OperateOwned, HealthOwned, TasksOwned, <1>1, <1>2, <1>3, <1>4, <1>5
  DEF Next, Life
<1>. QED
  BY <1>0, <1>6

\* When loops end in time, statements succeed and nobody is cut off, every row
\* that is not 'stopped' is that of an agent of the map, or of a deploy or stop
\* in progress: a resume that follows a completed pause finds no row to count.
THEOREM RowsAreOwned ==
  ASSUME Disturbances \subseteq {"panic", "toolStop"}, MaxCrashes = 0
  PROVE  Spec => []RowsOwned
<1>1. Init => OwnedInv
  <2>1. Init => RowsHeld
    BY DEF Init, RowsHeld, Live, Counted
  <2>. QED
    BY <2>1, HeldInit DEF OwnedInv
<1>2. OwnedInv /\ [Next]_vars => OwnedInv'
  BY OwnedStep
<1>3. OwnedInv => RowsOwned
  BY DEF OwnedInv, RowsHeld, RowsOwned, Handled
<1>. QED
  BY <1>1, <1>2, <1>3, PTL DEF Spec
=============================================================================
