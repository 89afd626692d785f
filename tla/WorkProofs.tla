----------------------------- MODULE WorkProofs -----------------------------
(****************************************************************************)
(* Theorems about the parts that hand work around, composed as in MCWork:   *)
(* for any numbers of tasks, workers, messages, automations, agents and     *)
(* calls.  Each part keeps an inductive invariant of its own, whatever part *)
(* moves; the theorems put them together.                                   *)
(****************************************************************************)
EXTENDS MCWork, TLAPS, FiniteSetTheorems

(****************************************************************************)
(* A step of the whole is a step of each part, or leaves it alone.          *)
(****************************************************************************)
LEMMA StepOfParts ==
  ASSUME [Next]_vars
  PROVE  /\ [TaskQueue!Next]_queueVars
         /\ [TaskMessages!Next]_messagesVars
         /\ [Automations!Next]_automationsVars
         /\ [OpenClawGateway!Next]_gatewayVars
         /\ [AgentDesk!Next]_deskVars
BY DEF Next, vars

(****************************************************************************)
(* The task queue.                                                          *)
(****************************************************************************)

\* A task once granted has left 'pending' for good, which is what makes the
\* condition of the claim exclude a second one.
GrantsHold ==
  \A g \in granted :
    /\ g[1] \in External /\ assignee[g[1]] = g[2]
    /\ taskStatus[g[1]] \notin {"none", "pending"}

QueueInv == TaskQueue!TypeOK /\ GrantsHold

\* What steps other than a claim do to a task: a status that is not new is
\* never made new again.
Onward ==
  /\ assignee' = assignee /\ granted' = granted
  /\ \A t \in Tasks : taskStatus[t] \notin {"none", "pending"}
                        => taskStatus'[t] \notin {"none", "pending"}

\* A step keeps the types of the queue.
LEMMA QueueTypes ==
  ASSUME TaskQueue!TypeOK, [TaskQueue!Next]_queueVars PROVE TaskQueue!TypeOK'
<1>. USE DEF TaskQueue!TypeOK, TaskQueue!TaskStatus, TaskQueue!Exists
<1>1. ASSUME NEW t \in Tasks,
             \/ TaskQueue!CreateTaskTool(t) \/ TaskQueue!ActionRunAgentTask(t)
             \/ TaskQueue!ActionCreateBounty(t)
      PROVE  TaskQueue!TypeOK'
  BY <1>1 DEF TaskQueue!CreateTaskTool, TaskQueue!ActionRunAgentTask,
              TaskQueue!ActionCreateBounty, TaskQueue!CreateTask
<1>2. ASSUME NEW t \in Tasks,
             \/ TaskQueue!Report(t) \/ TaskQueue!SpawnSubAgent(t)
             \/ TaskQueue!SubAgentFails(t)
      PROVE  TaskQueue!TypeOK'
  BY <1>2 DEF TaskQueue!Report, TaskQueue!SpawnSubAgent,
              TaskQueue!SubAgentFails, TaskQueue!UpdateTaskStatus
<1>3. ASSUME NEW t \in Tasks, NEW w \in Workers, TaskQueue!ClaimBounty(t, w)
      PROVE  TaskQueue!TypeOK'
  BY <1>3 DEF TaskQueue!ClaimBounty, TaskQueue!Claimable
<1>4. ASSUME NEW c \in Cancellers,
             \/ TaskQueue!CancelWrite(c)
             \/ \E t \in Tasks : TaskQueue!CancelRead(c, t)
      PROVE  TaskQueue!TypeOK'
  BY <1>4 DEF TaskQueue!CancelWrite, TaskQueue!CancelRead,
              TaskQueue!UpdateTaskStatus
<1>5. CASE UNCHANGED queueVars
  BY <1>5 DEF queueVars
<1>. QED
  BY <1>1, <1>2, <1>3, <1>4, <1>5 DEF TaskQueue!Next

\* Every step that claims no bounty moves tasks onward only.
LEMMA OthersGoOnward ==
  ASSUME TaskQueue!TypeOK, [TaskQueue!Next]_queueVars,
         \A t \in Tasks, w \in Workers : ~TaskQueue!ClaimBounty(t, w)
  PROVE  Onward
<1>. USE DEF Onward, TaskQueue!TypeOK, TaskQueue!Exists
<1>1. ASSUME NEW t \in Tasks,
             \/ TaskQueue!CreateTaskTool(t) \/ TaskQueue!ActionRunAgentTask(t)
             \/ TaskQueue!ActionCreateBounty(t)
      PROVE  Onward
  BY <1>1 DEF TaskQueue!CreateTaskTool, TaskQueue!ActionRunAgentTask,
              TaskQueue!ActionCreateBounty, TaskQueue!CreateTask
<1>2. ASSUME NEW t \in Tasks,
             \/ TaskQueue!Report(t) \/ TaskQueue!SpawnSubAgent(t)
             \/ TaskQueue!SubAgentFails(t)
      PROVE  Onward
  BY <1>2 DEF TaskQueue!Report, TaskQueue!SpawnSubAgent,
              TaskQueue!SubAgentFails, TaskQueue!UpdateTaskStatus
<1>3. ASSUME NEW c \in Cancellers,
             \/ TaskQueue!CancelWrite(c)
             \/ \E t \in Tasks : TaskQueue!CancelRead(c, t)
      PROVE  Onward
  BY <1>3 DEF TaskQueue!CancelWrite, TaskQueue!CancelRead,
              TaskQueue!UpdateTaskStatus
<1>4. CASE UNCHANGED queueVars
  BY <1>4 DEF queueVars
<1>. QED
  BY <1>1, <1>2, <1>3, <1>4 DEF TaskQueue!Next

\* A step keeps the queue typed, and intakes only become more.
LEMMA QueueStep ==
  ASSUME QueueInv, [TaskQueue!Next]_queueVars PROVE QueueInv'
<1>1. TaskQueue!TypeOK'
  BY QueueTypes DEF QueueInv
<1>2. ASSUME NEW t \in Tasks, NEW w \in Workers, TaskQueue!ClaimBounty(t, w)
      PROVE  GrantsHold'
  <2>. SUFFICES ASSUME NEW g \in granted'
       PROVE  /\ g[1] \in External /\ assignee'[g[1]] = g[2]
              /\ taskStatus'[g[1]] \notin {"none", "pending"}
    BY DEF GrantsHold
  <2>1. CASE g \in granted
    <3>1. g[1] # t /\ g[1] \in Tasks
      BY <1>2, <2>1 DEF TaskQueue!ClaimBounty, TaskQueue!Claimable, QueueInv,
                        GrantsHold, TaskQueue!TypeOK
    <3>. QED
      BY <1>2, <2>1, <3>1 DEF TaskQueue!ClaimBounty, QueueInv, GrantsHold,
                              TaskQueue!TypeOK
  <2>2. CASE g = <<t, w>>
    BY <1>2, <2>2 DEF TaskQueue!ClaimBounty, TaskQueue!Claimable, QueueInv,
                      TaskQueue!TypeOK
  <2>. QED
    BY <1>2, <2>1, <2>2 DEF TaskQueue!ClaimBounty
<1>3. ASSUME \A t \in Tasks, w \in Workers : ~TaskQueue!ClaimBounty(t, w)
      PROVE  GrantsHold'
  <2>1. Onward
    BY <1>3, OthersGoOnward DEF QueueInv
  <2>2. \A g \in granted : g[1] \in Tasks
    BY DEF QueueInv, TaskQueue!TypeOK
  <2>. QED
    BY <2>1, <2>2 DEF Onward, QueueInv, GrantsHold
<1>. QED
  BY <1>1, <1>2, <1>3 DEF QueueInv

\* QueueInv holds in every reachable state.
LEMMA QueueHolds == Spec => []QueueInv
<1>1. Init => QueueInv
  BY DEF Init, TaskQueue!Init, QueueInv, TaskQueue!TypeOK, GrantsHold,
         TaskQueue!TaskStatus
<1>. QED
  BY <1>1, StepOfParts, QueueStep, PTL DEF Spec

\* What the runs check of it follows from QueueInv.
LEMMA GrantsAreExclusive == QueueInv => TaskQueue!GrantedOnce
BY DEF QueueInv, GrantsHold, TaskQueue!GrantedOnce, TaskQueue!TypeOK

(****************************************************************************)
(* Messages of tasks.                                                       *)
(****************************************************************************)

\* What a poller has read and not acknowledged was delivered, too.
MessagesInv ==
  /\ TaskMessages!TypeOK
  /\ TaskMessages!AcknowledgedWereRead
  /\ \A r \in Readers : batch[r] \subseteq delivered

\* A step of this part, or of another, keeps MessagesInv.
LEMMA MessagesStep ==
  ASSUME MessagesInv, [TaskMessages!Next]_messagesVars PROVE MessagesInv'
<1>. USE DEF MessagesInv, TaskMessages!TypeOK, TaskMessages!AcknowledgedWereRead
<1>1. ASSUME NEW m \in Messages, TaskMessages!PostMessage(m) PROVE MessagesInv'
  BY <1>1 DEF TaskMessages!PostMessage
<1>2. ASSUME NEW r \in Readers, TaskMessages!ReadMessages(r) PROVE MessagesInv'
  BY <1>2 DEF TaskMessages!ReadMessages, TaskMessages!Unread
<1>3. ASSUME NEW r \in Readers, TaskMessages!AcknowledgeMessages(r)
      PROVE  MessagesInv'
  BY <1>3 DEF TaskMessages!AcknowledgeMessages
<1>4. ASSUME NEW r \in Readers, TaskMessages!SessionEnds(r) PROVE MessagesInv'
  BY <1>4 DEF TaskMessages!SessionEnds
<1>5. CASE UNCHANGED messagesVars
  BY <1>5 DEF messagesVars
<1>. QED
  BY <1>1, <1>2, <1>3, <1>4, <1>5 DEF TaskMessages!Next

\* MessagesInv holds in every reachable state.
LEMMA MessagesHold == Spec => []MessagesInv
<1>1. Init => MessagesInv
  BY DEF Init, TaskMessages!Init, MessagesInv, TaskMessages!TypeOK,
         TaskMessages!AcknowledgedWereRead
<1>. QED
  BY <1>1, StepOfParts, MessagesStep, PTL DEF Spec

(****************************************************************************)
(* The agents' desk.                                                        *)
(****************************************************************************)

\* A task that waits is a task of an agent whose row is not 'stopped', unless a
\* call is about to mark the row or to cancel the task.
WaitingIsSeenTo ==
  \A j \in Jobs :
    job[j] # AgentDesk!NoRow =>
      /\ job[j].agent \in DeskAgents /\ job[j].status # "none"
      /\ \/ job[j].status = "cancelled"
         \/ deskStatus[job[j].agent] # "stopped"
         \/ \E c \in Calls : /\ doing[c].agent = job[j].agent
                             /\ doing[c].step \in {"mark", "cancel"}

DeskInv ==
  /\ AgentDesk!TypeOK
  /\ \A c \in Calls : doing[c].step # "idle" => doing[c].agent \in DeskAgents
  /\ WaitingIsSeenTo

\* A step of this part, or of another, keeps DeskInv.
LEMMA DeskStep ==
  ASSUME DeskInv, [AgentDesk!Next]_deskVars PROVE DeskInv'
<1>. USE DEF DeskInv, AgentDesk!TypeOK, WaitingIsSeenTo, AgentDesk!NoRow,
             AgentDesk!AtRest, AgentDesk!Step
<1>1. ASSUME NEW a \in DeskAgents, AgentDesk!Register(a) PROVE DeskInv'
  BY <1>1 DEF AgentDesk!Register
<1>2. ASSUME NEW c \in Calls, NEW a \in DeskAgents, AgentDesk!AssignFinds(c, a)
      PROVE  DeskInv'
  BY <1>2 DEF AgentDesk!AssignFinds
<1>3. ASSUME NEW c \in Calls, NEW a \in DeskAgents, AgentDesk!StopMarks(c, a)
      PROVE  DeskInv'
  BY <1>3 DEF AgentDesk!StopMarks
<1>4. ASSUME NEW c \in Calls, NEW j \in Jobs, AgentDesk!AssignInserts(c, j)
      PROVE  DeskInv'
  BY <1>4 DEF AgentDesk!AssignInserts
<1>5. ASSUME NEW c \in Calls, AgentDesk!AssignMarks(c) PROVE DeskInv'
  BY <1>5 DEF AgentDesk!AssignMarks
<1>6. ASSUME NEW c \in Calls, AgentDesk!StopCancels(c) PROVE DeskInv'
  <2>. USE <1>6 DEF AgentDesk!StopCancels
  <2>1. /\ UNCHANGED deskStatus /\ doing[c].agent \in DeskAgents
        /\ doing' = [doing EXCEPT ![c] = AgentDesk!AtRest]
    OBVIOUS
  <2>2. \A j \in Jobs : \/ job'[j] = job[j] /\ job[j].agent # doing[c].agent
                        \/ job'[j] = job[j] /\ job[j].status # "pending"
                        \/ job'[j] = [job[j] EXCEPT !.status = "cancelled"]
    OBVIOUS
  <2>3. job' \in [Jobs -> [agent : DeskAgents \union {NoOne},
                          status : {"none", "pending", "cancelled"}]]
    OBVIOUS
  <2>4. doing' \in [Calls -> [step : {"idle", "insert", "mark", "cancel"},
                             agent : DeskAgents \union {NoOne}]]
    OBVIOUS
  <2>5. ASSUME NEW j \in Jobs, job'[j] # AgentDesk!NoRow
        PROVE  /\ job'[j].agent \in DeskAgents /\ job'[j].status # "none"
               /\ \/ job'[j].status = "cancelled"
                  \/ deskStatus[job'[j].agent] # "stopped"
                  \/ \E d \in Calls : /\ doing'[d].agent = job'[j].agent
                                      /\ doing'[d].step \in {"mark", "cancel"}
    BY <2>1, <2>2, <2>5
  <2>. QED
    BY <2>1, <2>3, <2>4, <2>5
<1>7. CASE UNCHANGED deskVars
  BY <1>7 DEF deskVars
<1>. QED
  BY <1>1, <1>2, <1>3, <1>4, <1>5, <1>6, <1>7 DEF AgentDesk!Next

\* DeskInv holds in every reachable state.
LEMMA DeskHolds == Spec => []DeskInv
<1>1. Init => DeskInv
  BY DEF Init, AgentDesk!Init, DeskInv, AgentDesk!TypeOK, WaitingIsSeenTo,
         AgentDesk!NoRow, AgentDesk!AtRest
<1>. QED
  BY <1>1, StepOfParts, DeskStep, PTL DEF Spec

\* What the runs check of it follows from DeskInv.
LEMMA StoppedAreFree == DeskInv => AgentDesk!StoppedHasNoTask
BY ConstantsOfWork
   DEF DeskInv, WaitingIsSeenTo, AgentDesk!StoppedHasNoTask, AgentDesk!NoRow,
       AgentDesk!TypeOK

(****************************************************************************)
(* Automations and the queue of retries.                                    *)
(****************************************************************************)

\* The number of elements is the one the library counts.
LEMMA CardinalityOfAutomations ==
  ASSUME NEW S PROVE Automations!Cardinality(S) = Cardinality(S)
BY DEF Automations!Cardinality, Cardinality

\* A finite set is laid out as a sequence without repetition.
LEMMA ClaimedInOrder ==
  ASSUME NEW S, S \subseteq Entries
  PROVE  /\ Automations!SetToSeq(S) \in Seq(S)
         /\ Automations!Range(Automations!SetToSeq(S)) = S
         /\ \A i, j \in 1 .. Len(Automations!SetToSeq(S)) :
              Automations!SetToSeq(S)[i] = Automations!SetToSeq(S)[j] => i = j
         /\ S # {} => Automations!SetToSeq(S) # <<>>
<1>. DEFINE n == Cardinality(S)
            s == Automations!SetToSeq(S)
<1>1. IsFiniteSet(S)
  BY ConstantsOfWork, FS_Subset
<1>2. n \in Nat /\ ExistsBijection(1 .. n, S)
  BY <1>1, FS_CardinalityType
<1>3. PICK f \in Bijection(1 .. n, S) : TRUE
  BY <1>2 DEF ExistsBijection
<1>4. f \in [1 .. n -> S] /\ Automations!IsInjective(f)
  BY <1>3 DEF Bijection, Injection, IsInjective,
      Automations!IsInjective
<1>5. s \in [1 .. n -> S] /\ Automations!IsInjective(s)
  BY <1>4, CardinalityOfAutomations DEF Automations!SetToSeq
<1>6. s \in Injection(1 .. n, S)
  BY <1>5 DEF Injection, IsInjective, Automations!IsInjective
<1>7. s \in Surjection(1 .. n, S)
  <2>1. IsFiniteSet(1 .. n) /\ Cardinality(1 .. n) = n
    BY <1>2, FS_Interval
  <2>. QED
    BY <1>1, <1>6, <2>1, FS_Injection
<1>8. s \in Seq(S) /\ Len(s) = n /\ DOMAIN s = 1 .. n
  BY <1>2, <1>5
<1>9. Automations!Range(s) = S
  BY <1>7, <1>8 DEF Surjection, Automations!Range
<1>10. \A i, j \in 1 .. Len(s) : s[i] = s[j] => i = j
  BY <1>5, <1>8 DEF Automations!IsInjective
<1>11. S # {} => s # <<>>
  BY <1>9 DEF Automations!Range
<1>. QED
  BY <1>8, <1>9, <1>10, <1>11

\* The types, with names for the sets that hold events and rows.
Events == [kind : {"record", "completed"}, source : Autos \union {NoAuto},
           depth : Automations!Depths]

Rows == [auto : Autos \union {NoAuto}, attempt : 0 .. MaxAttempts,
         status : Automations!RetryStatus]

Typed ==
  /\ autos \in [Autos -> Automations!AutoStatus]
  /\ channel \in Seq(Events) /\ Len(channel) <= Capacity
  /\ running \in [Autos -> [Automations!Depths -> Nat]]
  /\ retries \in [Entries -> Rows]
  /\ held \in Seq(Entries)
  /\ sending \in BOOLEAN /\ (sending => held # <<>>)
  /\ sent \in [Entries -> Nat]

\* The types, spelled with the record sets of this module.
LEMMA TypedIsTypeOK == Typed <=> Automations!TypeOK
BY ConstantsOfWork DEF Typed, Automations!TypeOK, Events, Rows

\* The same of the next state.
LEMMA TypedIsTypeOKNext == Typed' <=> Automations!TypeOK'
BY ConstantsOfWork DEF Typed, Automations!TypeOK, Events, Rows

\* The rows that the automations write are rows.
LEMMA RowTypes ==
  /\ Automations!NoRow \in Rows
  /\ \A a \in Autos : [auto |-> a, attempt |-> 1, status |-> "pending"] \in Rows
  /\ \A row \in Rows :
       /\ \A s \in Automations!RetryStatus : [row EXCEPT !.status = s] \in Rows
       /\ [row EXCEPT !.status = "pending", !.attempt = 1] \in Rows
       /\ Automations!Rescheduled(row) \in Rows
<1>. USE ConstantsOfWork DEF Rows, Automations!RetryStatus
<1>1. Automations!NoRow \in Rows
  BY DEF Automations!NoRow
<1>2. \A a \in Autos : [auto |-> a, attempt |-> 1, status |-> "pending"] \in Rows
  OBVIOUS
<1>3. ASSUME NEW row \in Rows, NEW s \in Automations!RetryStatus
      PROVE  [row EXCEPT !.status = s] \in Rows
  OBVIOUS
<1>4. ASSUME NEW row \in Rows, NEW n \in 0 .. MaxAttempts
      PROVE  /\ [row EXCEPT !.status = "pending", !.attempt = n] \in Rows
             /\ row.attempt \in 0 .. MaxAttempts
  OBVIOUS
<1>5. ASSUME NEW row \in Rows PROVE Automations!Rescheduled(row) \in Rows
  <2>1. CASE row.attempt + 1 > MaxAttempts
    BY <1>3, <2>1 DEF Automations!Rescheduled
  <2>2. CASE ~(row.attempt + 1 > MaxAttempts)
    <3>1. row.attempt + 1 \in 0 .. MaxAttempts
      BY <2>2
    <3>2. Automations!Rescheduled(row)
            = [row EXCEPT !.status = "pending", !.attempt = row.attempt + 1]
      BY <2>2 DEF Automations!Rescheduled
    <3>. QED
      BY <1>4, <3>1, <3>2
  <2>. QED
    BY <2>1, <2>2
<1>6. 1 \in 0 .. MaxAttempts
  OBVIOUS
<1>. QED
  BY <1>1, <1>2, <1>3, <1>4, <1>5, <1>6

\* The events that the automations write are events.
LEMMA EventTypes ==
  /\ 0 \in Automations!Depths
  /\ Automations!Event("record", NoAuto, 0) \in Events
  /\ \A a \in Autos, d \in Automations!Depths :
       Automations!Offered(a, d) \in Seq(Events)
<1>1. 0 \in Automations!Depths
  BY ConstantsOfWork DEF Automations!Depths
<1>2. ASSUME NEW a \in Autos, NEW d \in Automations!Depths, d < ChainLimit
      PROVE  Automations!Event("completed", a, d + 1) \in Events
  BY <1>2, ConstantsOfWork DEF Automations!Event, Automations!Depths, Events
<1>3. \A a \in Autos, d \in Automations!Depths :
        Automations!Offered(a, d) \in Seq(Events)
  BY <1>2 DEF Automations!Offered
<1>. QED
  BY <1>1, <1>3 DEF Automations!Event, Events

\* A spawned run is counted at its depth.
LEMMA SpawnTypes ==
  ASSUME Typed, NEW some, NEW d \in Automations!Depths,
         Automations!Spawn(some, d)
  PROVE  running' \in [Autos -> [Automations!Depths -> Nat]]
BY DEF Typed, Automations!Spawn

\* An ended run is no longer counted at its depth.
LEMMA EndTypes ==
  ASSUME Typed, NEW a \in Autos, NEW d \in Automations!Depths,
         Automations!Ends(a, d)
  PROVE  running' \in [Autos -> [Automations!Depths -> Nat]]
BY DEF Typed, Automations!Ends

\* What the channel has room for is appended to it.
LEMMA SucceedTypes ==
  ASSUME Typed, NEW a \in Autos, NEW d \in Automations!Depths,
         Automations!Succeed(a, d)
  PROVE  channel' \in Seq(Events) /\ Len(channel') <= Capacity
<1>. DEFINE offered == Automations!Offered(a, d)
            free == Capacity - Len(channel)
            m == Automations!Min({free, Len(offered)})
<1>1. channel' = channel \o SubSeq(offered, 1, m)
  BY DEF Automations!Succeed
<1>2. channel \in Seq(Events) /\ free \in Nat /\ offered \in Seq(Events)
  BY ConstantsOfWork, EventTypes DEF Typed
<1>3. m \in Nat /\ m <= free /\ m <= Len(offered)
  <2>1. \E x \in {free, Len(offered)} : \A y \in {free, Len(offered)} : x <= y
    BY <1>2
  <2>. QED
    BY <1>2, <2>1 DEF Automations!Min
<1>. HIDE DEF m, offered
<1>4. SubSeq(offered, 1, m) \in Seq(Events) /\ Len(SubSeq(offered, 1, m)) = m
  BY <1>2, <1>3
<1>5. channel' \in Seq(Events) /\ Len(channel') = Len(channel) + m
  BY <1>1, <1>2, <1>3, <1>4
<1>. QED
  BY <1>2, <1>3, <1>5, ConstantsOfWork

\* A step keeps the types of the automations.
LEMMA AutomationsTypes ==
  ASSUME Typed, [Automations!Next]_automationsVars PROVE Typed'
<1>. USE DEF Typed, Automations!tableVars, Automations!memoryVars
<1>0. Capacity \in Nat
  BY ConstantsOfWork
<1>1. ASSUME Automations!RecordChanges PROVE Typed'
  BY <1>0, <1>1, EventTypes DEF Automations!RecordChanges, Automations!TrySend
<1>2. ASSUME \/ Automations!CronTick
             \/ \E a \in Autos : Automations!TestAutomation(a)
      PROVE  Typed'
  <2>1. running' \in [Autos -> [Automations!Depths -> Nat]]
    BY <1>2, EventTypes, SpawnTypes DEF Automations!CronTick, Automations!TestAutomation
  <2>. QED
    BY <1>2, <2>1 DEF Automations!CronTick, Automations!TestAutomation
<1>3. ASSUME Automations!Drain PROVE Typed'
  <2>1. /\ Head(channel) \in Events /\ Tail(channel) \in Seq(Events)
        /\ Len(Tail(channel)) <= Capacity
    BY <1>0, <1>3 DEF Automations!Drain
  <2>2. Head(channel).depth \in Automations!Depths
    BY <2>1 DEF Events
  <2>3. running' \in [Autos -> [Automations!Depths -> Nat]]
    BY <1>3, <2>2, SpawnTypes DEF Automations!Drain
  <2>. QED
    BY <1>3, <2>1, <2>3 DEF Automations!Drain
<1>4. ASSUME Automations!DrainFails PROVE Typed'
  BY <1>0, <1>4 DEF Automations!DrainFails
<1>5. ASSUME NEW a \in Autos, NEW d \in Automations!Depths,
             Automations!Succeed(a, d)
      PROVE  Typed'
  <2>1. running' \in [Autos -> [Automations!Depths -> Nat]]
    BY <1>5, EndTypes DEF Automations!Succeed
  <2>. QED
    BY <1>5, <2>1, SucceedTypes DEF Automations!Succeed
<1>6. ASSUME NEW a \in Autos, NEW d \in Automations!Depths,
             Automations!FailAndRetry(a, d)
      PROVE  Typed'
  <2>1. running' \in [Autos -> [Automations!Depths -> Nat]]
    BY <1>6, EndTypes DEF Automations!FailAndRetry
  <2>2. PICK e \in Entries :
          /\ retries' = [retries EXCEPT ![e] =
                           [auto |-> a, attempt |-> 1, status |-> "pending"]]
          /\ sent' = [sent EXCEPT ![e] = 0]
    BY <1>6 DEF Automations!FailAndRetry, Automations!Free
  <2>3. [auto |-> a, attempt |-> 1, status |-> "pending"] \in Rows
    BY RowTypes
  <2>. QED
    BY <1>6, <2>1, <2>2, <2>3 DEF Automations!FailAndRetry
<1>7. ASSUME NEW a \in Autos, NEW d \in Automations!Depths,
             Automations!FailForGood(a, d)
      PROVE  Typed'
  <2>1. running' \in [Autos -> [Automations!Depths -> Nat]]
    BY <1>7, EndTypes DEF Automations!FailForGood
  <2>. QED
    BY <1>7, <2>1 DEF Automations!FailForGood
<1>8. ASSUME Automations!ClaimRetries PROVE Typed'
  <2>1. PICK due \in SUBSET {e \in Entries : retries[e].status = "pending"} :
          /\ due # {}
          /\ held' = Automations!SetToSeq(due)
          /\ retries' = [e \in Entries |->
               IF e \in due THEN [retries[e] EXCEPT !.status = "in_progress"]
                            ELSE retries[e]]
    BY <1>8 DEF Automations!ClaimRetries
  <2>2. held' \in Seq(due) /\ held' # <<>>
    BY <2>1, ClaimedInOrder
  <2>3. held' \in Seq(Entries)
    BY <2>2
  <2>. QED
    BY <1>8, <2>1, <2>2, <2>3, RowTypes
    DEF Automations!ClaimRetries, Automations!RetryStatus
<1>9. ASSUME Automations!Worker \/ Automations!SettleLost
      PROVE  Typed'
  <2>1. held # <<>> /\ Head(held) \in Entries /\ Tail(held) \in Seq(Entries)
    BY <1>9 DEF Automations!Worker, Automations!SettleLost,
                Automations!GiveUpRetry, Automations!SkipRetry,
                Automations!CallWebhook, Automations!RetrySucceeds,
                Automations!RetryFails
  <2>2. CASE Automations!GiveUpRetry
    BY <2>1, <2>2, RowTypes
    DEF Automations!GiveUpRetry, Automations!SetRow, Automations!NextEntry,
        Automations!RetryStatus
  <2>3. CASE Automations!SkipRetry
    BY <2>1, <2>3 DEF Automations!SkipRetry, Automations!NextEntry
  <2>4. CASE Automations!CallWebhook
    BY <2>1, <2>4 DEF Automations!CallWebhook
  <2>5. CASE Automations!RetrySucceeds
    BY <2>1, <2>5, RowTypes
    DEF Automations!RetrySucceeds, Automations!SetRow, Automations!NextEntry,
        Automations!RetryStatus
  <2>6. CASE Automations!RetryFails
    BY <2>1, <2>6, RowTypes
    DEF Automations!RetryFails, Automations!SetRow, Automations!NextEntry
  <2>7. CASE Automations!SettleLost
    BY <2>1, <2>7 DEF Automations!SettleLost, Automations!NextEntry
  <2>. QED
    BY <1>9, <2>2, <2>3, <2>4, <2>5, <2>6, <2>7 DEF Automations!Worker
<1>10. ASSUME NEW a \in Autos,
              \/ Automations!Create(a) \/ Automations!SetEnabled(a)
              \/ Automations!Delete(a)
       PROVE  Typed'
  <2>1. CASE Automations!Create(a)
    BY <2>1 DEF Automations!Create, Automations!AutoStatus
  <2>2. CASE Automations!SetEnabled(a)
    BY <2>2 DEF Automations!SetEnabled, Automations!AutoStatus
  <2>3. CASE Automations!Delete(a)
    BY <2>3, RowTypes DEF Automations!Delete, Automations!AutoStatus
  <2>. QED
    BY <1>10, <2>1, <2>2, <2>3
<1>11. ASSUME NEW e \in Entries, Automations!Requeue(e) PROVE Typed'
  <2>1. retries' = [retries EXCEPT ![e] = [@ EXCEPT !.status = "pending",
                                                    !.attempt = 1]]
    BY <1>11 DEF Automations!Requeue
  <2>2. [retries[e] EXCEPT !.status = "pending", !.attempt = 1] \in Rows
    BY RowTypes
  <2>3. retries' \in [Entries -> Rows]
    BY <2>1, <2>2
  <2>4. sent' \in [Entries -> Nat]
    BY <1>11 DEF Automations!Requeue
  <2>. QED
    BY <1>11, <2>3, <2>4 DEF Automations!Requeue
<1>12. ASSUME Automations!Crash PROVE Typed'
  <2>1. channel' \in Seq(Events) /\ Len(channel') <= Capacity
    BY <1>0, <1>12 DEF Automations!Crash
  <2>2. held' \in Seq(Entries) /\ sending' = FALSE
    BY <1>12 DEF Automations!Crash
  <2>3. running' \in [Autos -> [Automations!Depths -> Nat]]
    BY <1>12 DEF Automations!Crash
  <2>. QED
    BY <1>12, <2>1, <2>2, <2>3 DEF Automations!Crash
<1>13. CASE UNCHANGED automationsVars
  BY <1>13 DEF automationsVars
<1>. QED
  BY <1>1, <1>2, <1>3, <1>4, <1>5, <1>6, <1>7, <1>8, <1>9, <1>10, <1>11, <1>12,
     <1>13 DEF Automations!Next, Automations!Executions

\* The worker holds an entry once, and a row that it holds is in progress or
\* was removed; an entry has called its webhook less often than its attempt
\* says, and as often once the call is out.
HeldOnce == \A i, j \in 1 .. Len(held) : held[i] = held[j] => i = j

Called(e) ==
  /\ sent[e] <= MaxAttempts
  /\ retries[e].status # "gone" => retries[e].attempt \in 1 .. MaxAttempts
  /\ retries[e].status = "pending" => sent[e] < retries[e].attempt
  /\ retries[e].status = "in_progress" => sent[e] <= retries[e].attempt
  /\ e \in Automations!Range(held) =>
       /\ retries[e].status \in {"in_progress", "gone"}
       /\ (retries[e].status = "in_progress" /\ ~(sending /\ e = Head(held)))
            => sent[e] < retries[e].attempt

AutomationsInv ==
  /\ Typed
  /\ HeldOnce
  /\ \A e \in Entries : Called(e)
  /\ faults \in Nat
  /\ faults = 0 => \A e \in Entries : retries[e].status = "in_progress"
                                        => e \in Automations!Range(held)

\* What is held without repetition loses its head, and only that.
LEMMA TailOfHeld ==
  ASSUME Typed, HeldOnce, held # <<>>
  PROVE  /\ Head(held) \in Entries
         /\ Head(held) \in Automations!Range(held)
         /\ Automations!Range(Tail(held))
              = Automations!Range(held) \ {Head(held)}
         /\ held' = Tail(held) => HeldOnce'
<1>. USE DEF Typed, HeldOnce, Automations!Range
<1>1. Len(held) \in Nat \ {0} /\ Head(held) = held[1] /\ held \in Seq(Entries)
  OBVIOUS
<1>0. DOMAIN held = 1 .. Len(held) /\ DOMAIN Tail(held) = 1 .. Len(held) - 1
  BY <1>1
<1>2. /\ Len(Tail(held)) = Len(held) - 1
      /\ \A i \in 1 .. Len(held) - 1 : Tail(held)[i] = held[i + 1]
  BY <1>1
<1>3. Automations!Range(Tail(held)) \subseteq Automations!Range(held) \ {Head(held)}
  BY <1>1, <1>2
<1>4. ASSUME NEW i \in 1 .. Len(held), held[i] # Head(held)
      PROVE  held[i] \in Automations!Range(Tail(held))
  <2>1. i - 1 \in 1 .. Len(held) - 1
    BY <1>1, <1>4
  <2>2. held[i] = Tail(held)[i - 1]
    BY <1>1, <1>2, <2>1
  <2>. QED
    BY <1>0, <2>1, <2>2
<1>5. held' = Tail(held) => HeldOnce'
  BY <1>1, <1>2
<1>6. Automations!Range(held) \ {Head(held)} \subseteq Automations!Range(Tail(held))
  BY <1>0, <1>4
<1>7. Head(held) \in Automations!Range(held)
  BY <1>0, <1>1
<1>8. Head(held) \in Entries
  BY <1>1
<1>. HIDE DEF Typed, HeldOnce, Automations!Range
<1>. QED
  BY <1>3, <1>5, <1>6, <1>7, <1>8

\* What the worker settles leaves its hands: the row of the entry, if it is
\* still there, gets a status that is not 'in_progress'.
Settles(e, row) ==
  /\ held # <<>> /\ e = Head(held)
  /\ held' = Tail(held) /\ sending' = FALSE
  /\ UNCHANGED sent
  /\ retries' = IF retries[e].status = "gone" THEN retries
                ELSE [retries EXCEPT ![e] = row]
  /\ retries[e].status # "gone" =>
       /\ row \in Rows /\ row.attempt \in 1 .. MaxAttempts
       /\ row.status \in {"dead_letter", "succeeded", "pending"}
       /\ row.status = "pending" => sent[e] < row.attempt

\* Settling one entry leaves every entry called.
LEMMA SettledAreCalled ==
  ASSUME Typed, HeldOnce, \A e \in Entries : Called(e),
         NEW e, NEW row, Settles(e, row)
  PROVE  /\ \A f \in Entries : Called(f)'
         /\ \A f \in Entries :
              /\ f \in Automations!Range(held') <=>
                   f \in Automations!Range(held) /\ f # e
              /\ retries'[f].status = "in_progress" =>
                   f # e /\ retries[f].status = "in_progress"
<1>. USE DEF Settles
<1>1. /\ e \in Entries /\ e \in Automations!Range(held)
      /\ Automations!Range(held') = Automations!Range(held) \ {e}
  BY TailOfHeld
<1>2. retries[e].status \in {"in_progress", "gone"}
  BY <1>1 DEF Called
<1>3. ASSUME NEW f \in Entries, f # e
      PROVE  /\ Called(f)' /\ retries'[f] = retries[f]
  <2>1. retries'[f] = retries[f] /\ sent'[f] = sent[f]
    BY <1>1, <1>3 DEF Typed
  <2>2. f # Head(held)
    BY <1>3
  <2>3. Called(f)
    OBVIOUS
  <2>. QED
    BY <1>1, <1>3, <2>1, <2>2, <2>3 DEF Called
<1>4. Called(e)' /\ retries'[e].status # "in_progress"
  <2>1. CASE retries[e].status = "gone"
    BY <1>1, <2>1 DEF Called, Typed
  <2>2. CASE retries[e].status # "gone"
    <3>1. retries'[e] = row
      BY <1>1, <2>2 DEF Typed
    <3>. QED
      BY <1>1, <2>2, <3>1 DEF Called
  <2>. QED
    BY <2>1, <2>2
<1>. QED
  BY <1>1, <1>3, <1>4

\* An update of the worker settles an entry.
LEMMA WorkerSettles ==
  ASSUME Typed, HeldOnce, \A e \in Entries : Called(e),
         \/ Automations!GiveUpRetry \/ Automations!SkipRetry
         \/ Automations!RetrySucceeds \/ Automations!RetryFails
  PROVE  \E row : Settles(Head(held), row)
<1>. DEFINE e == Head(held)
<1>1. held # <<>>
  BY DEF Automations!GiveUpRetry, Automations!SkipRetry, Typed,
         Automations!RetrySucceeds, Automations!RetryFails
<1>2. e \in Entries /\ e \in Automations!Range(held) /\ retries[e] \in Rows
  BY <1>1, TailOfHeld DEF Typed
<1>3. /\ Called(e)
      /\ retries[e].status = "gone" \/ retries[e].status = "in_progress"
  BY <1>2 DEF Called
<1>. USE DEF Settles, Automations!SetRow, Automations!NextEntry
<1>4. CASE Automations!GiveUpRetry
  <2>. DEFINE row == [retries[e] EXCEPT !.status = "dead_letter"]
  <2>1. row \in Rows /\ row.attempt = retries[e].attempt /\ row.status = "dead_letter"
    BY <1>2, RowTypes DEF Rows, Automations!RetryStatus
  <2>. HIDE DEF row
  <2>2. Settles(e, row)
    BY <1>1, <1>3, <1>4, <2>1 DEF Automations!GiveUpRetry, Called, row
  <2>. QED
    BY <2>2
<1>5. CASE Automations!SkipRetry
  <2>1. Settles(e, retries[e])
    BY <1>1, <1>5 DEF Automations!SkipRetry, Automations!tableVars
  <2>. QED
    BY <2>1
<1>6. CASE Automations!RetrySucceeds
  <2>. DEFINE row == [retries[e] EXCEPT !.status = "succeeded"]
  <2>1. row \in Rows /\ row.attempt = retries[e].attempt /\ row.status = "succeeded"
    BY <1>2, RowTypes DEF Rows, Automations!RetryStatus
  <2>2. Settles(e, row)
    BY <1>1, <1>3, <1>6, <2>1 DEF Automations!RetrySucceeds, Called
  <2>. QED
    BY <2>2
<1>7. CASE Automations!RetryFails
  <2>. DEFINE row == Automations!Rescheduled(retries[e])
  <2>1. row \in Rows
    BY <1>2, RowTypes
  <2>2. ASSUME retries[e].status # "gone"
        PROVE  /\ row.attempt \in 1 .. MaxAttempts
               /\ row.status \in {"dead_letter", "pending"}
               /\ row.status = "pending" => sent[e] < row.attempt
    <3>1. retries[e].attempt \in 1 .. MaxAttempts /\ sent[e] <= retries[e].attempt
      BY <1>3, <2>2 DEF Called
    <3>2. sent[e] \in Nat /\ MaxAttempts \in Nat
      BY <1>2, ConstantsOfWork DEF Typed
    <3>. QED
      BY <1>2, <3>1, <3>2 DEF Automations!Rescheduled, Rows
  <2>3. Settles(e, row)
    BY <1>1, <1>7, <2>1, <2>2 DEF Automations!RetryFails
  <2>. QED
    BY <2>3
<1>. QED
  BY <1>4, <1>5, <1>6, <1>7

\* A step of this part, or of another, keeps AutomationsInv.
LEMMA AutomationsStep ==
  ASSUME AutomationsInv, [Automations!Next]_automationsVars
  PROVE  AutomationsInv'
<1>. DEFINE Lost == faults = 0 => \A e \in Entries :
                      retries[e].status = "in_progress"
                        => e \in Automations!Range(held)
            Kept == HeldOnce /\ (\A e \in Entries : Called(e)) /\ Lost
<1>1. Typed' /\ Typed
  BY AutomationsTypes DEF AutomationsInv
<1>2. Kept /\ faults \in Nat
  BY DEF AutomationsInv
<1>. USE DEF Automations!tableVars, Automations!memoryVars
<1>3. ASSUME UNCHANGED <<retries, sent, held, sending>>,
             faults' \in {faults, faults + 1}
      PROVE  Kept' /\ faults' \in Nat
  BY <1>2, <1>3 DEF HeldOnce, Called
<1>4. ASSUME \/ Automations!RecordChanges \/ Automations!CronTick
             \/ Automations!Drain \/ Automations!DrainFails
             \/ \E a \in Autos : \/ Automations!TestAutomation(a)
                                 \/ Automations!Create(a)
                                 \/ Automations!SetEnabled(a)
             \/ \E a \in Autos, d \in Automations!Depths :
                  Automations!Succeed(a, d) \/ Automations!FailForGood(a, d)
             \/ UNCHANGED automationsVars
      PROVE  Kept' /\ faults' \in Nat
  <2>1. /\ UNCHANGED <<retries, sent, held, sending>>
        /\ faults' \in {faults, faults + 1}
    BY <1>4
       DEF Automations!RecordChanges, Automations!CronTick, Automations!Drain,
           Automations!DrainFails, Automations!Fault, Automations!TestAutomation,
           Automations!Create, Automations!SetEnabled, Automations!Succeed,
           Automations!FailForGood, automationsVars
  <2>. QED
    BY <1>3, <2>1
<1>5. ASSUME NEW a \in Autos, NEW d \in Automations!Depths,
             Automations!FailAndRetry(a, d)
      PROVE  Kept' /\ faults' \in Nat
  <2>1. PICK e \in Entries :
          /\ e \notin Automations!Range(held)
          /\ retries' = [retries EXCEPT ![e] =
                           [auto |-> a, attempt |-> 1, status |-> "pending"]]
          /\ sent' = [sent EXCEPT ![e] = 0]
    BY <1>5 DEF Automations!FailAndRetry, Automations!Free
  <2>2. UNCHANGED <<held, sending, faults>>
    BY <1>5 DEF Automations!FailAndRetry
  <2>3. ASSUME NEW f \in Entries PROVE Called(f)'
    BY <1>1, <1>2, <2>1, <2>2, ConstantsOfWork DEF Called, Typed
  <2>4. Lost'
    BY <1>1, <1>2, <2>1, <2>2 DEF Typed
  <2>. QED
    BY <1>2, <2>2, <2>3, <2>4 DEF HeldOnce
<1>6. ASSUME Automations!ClaimRetries PROVE Kept' /\ faults' \in Nat
  <2>1. PICK due \in SUBSET {e \in Entries : retries[e].status = "pending"} :
          /\ due # {}
          /\ held' = Automations!SetToSeq(due)
          /\ retries' = [e \in Entries |->
               IF e \in due THEN [retries[e] EXCEPT !.status = "in_progress"]
                            ELSE retries[e]]
    BY <1>6 DEF Automations!ClaimRetries
  <2>2. Automations!Range(held') = due /\ HeldOnce'
    BY <2>1, ClaimedInOrder DEF HeldOnce
  <2>3. UNCHANGED <<sent, sending, faults>> /\ held = <<>> /\ ~sending
    BY <1>1, <1>6 DEF Automations!ClaimRetries, Typed
  <2>4. Automations!Range(held) = {}
    BY <2>3 DEF Automations!Range
  <2>5. ASSUME NEW f \in Entries PROVE Called(f)'
    <3>1. Called(f) /\ retries[f] \in Rows /\ sent[f] \in Nat
      BY <1>1, <1>2 DEF Typed
    <3>2. CASE f \in due
      <4>1. /\ retries'[f].status = "in_progress"
            /\ retries'[f].attempt = retries[f].attempt
            /\ retries[f].status = "pending"
        BY <2>1, <3>1, <3>2 DEF Rows
      <4>2. retries[f].attempt \in Nat
        BY <3>1, ConstantsOfWork DEF Rows
      <4>. QED
        BY <2>3, <3>1, <4>1, <4>2 DEF Called
    <3>3. CASE f \notin due
      BY <2>1, <2>2, <2>3, <3>1, <3>3 DEF Called
    <3>. QED
      BY <3>2, <3>3
  <2>6. Lost'
    BY <1>1, <1>2, <2>1, <2>2, <2>3, <2>4
  <2>. QED
    BY <1>2, <2>2, <2>3, <2>5, <2>6
<1>7. ASSUME \/ Automations!GiveUpRetry \/ Automations!SkipRetry
             \/ Automations!RetrySucceeds \/ Automations!RetryFails
      PROVE  Kept' /\ faults' \in Nat
  <2>1. PICK row : Settles(Head(held), row)
    BY <1>1, <1>2, <1>7, WorkerSettles
  <2>2. faults' \in {faults, faults + 1}
    BY <1>7 DEF Automations!GiveUpRetry, Automations!Fault, Automations!SkipRetry,
                Automations!RetrySucceeds, Automations!RetryFails
  <2>3. HeldOnce'
    BY <1>1, <1>2, <2>1, TailOfHeld DEF Settles
  <2>4. /\ \A f \in Entries : Called(f)'
        /\ Lost'
    BY <1>1, <1>2, <2>1, <2>2, SettledAreCalled
  <2>. QED
    BY <1>2, <2>2, <2>3, <2>4
<1>8. ASSUME Automations!CallWebhook PROVE Kept' /\ faults' \in Nat
  <2>. DEFINE e == Head(held)
  <2>1. /\ held # <<>> /\ ~sending /\ retries[e].status # "gone" /\ sending'
        /\ sent' = [sent EXCEPT ![e] = @ + 1]
        /\ UNCHANGED <<retries, held, faults>>
    BY <1>8 DEF Automations!CallWebhook
  <2>2. e \in Entries /\ e \in Automations!Range(held)
    BY <1>1, <1>2, <2>1, TailOfHeld
  <2>3. /\ sent[e] < retries[e].attempt /\ retries[e].attempt \in 1 .. MaxAttempts
        /\ retries[e].status = "in_progress" /\ sent[e] \in Nat
    BY <1>1, <1>2, <2>1, <2>2 DEF Called, Typed
  <2>4. Called(e)'
    BY <1>1, <2>1, <2>2, <2>3, ConstantsOfWork DEF Called, Typed
  <2>5. ASSUME NEW f \in Entries, f # e PROVE Called(f)'
    BY <1>1, <1>2, <2>1, <2>5 DEF Called, Typed
  <2>. QED
    BY <1>2, <2>1, <2>4, <2>5 DEF HeldOnce
<1>9. ASSUME Automations!SettleLost PROVE Kept' /\ faults' \in Nat
  <2>1. /\ held # <<>> /\ faults' = faults + 1 /\ held' = Tail(held)
        /\ sending' = FALSE /\ UNCHANGED <<retries, sent>>
    BY <1>9 DEF Automations!SettleLost, Automations!Fault, Automations!NextEntry
  <2>2. /\ Automations!Range(held') = Automations!Range(held) \ {Head(held)}
        /\ HeldOnce'
    BY <1>1, <1>2, <2>1, TailOfHeld
  <2>3. ASSUME NEW f \in Entries PROVE Called(f)'
    BY <1>2, <2>1, <2>2 DEF Called
  <2>. QED
    BY <1>2, <2>1, <2>2, <2>3
<1>10. ASSUME NEW e \in Entries, Automations!Requeue(e)
       PROVE  Kept' /\ faults' \in Nat
  <2>1. /\ retries[e].status = "dead_letter"
        /\ retries' = [retries EXCEPT ![e] = [@ EXCEPT !.status = "pending",
                                                       !.attempt = 1]]
        /\ sent' = [sent EXCEPT ![e] = 0]
        /\ UNCHANGED <<held, sending, faults>>
    BY <1>10 DEF Automations!Requeue
  <2>2. /\ retries'[e].status = "pending" /\ retries'[e].attempt = 1
        /\ sent'[e] = 0 /\ e \notin Automations!Range(held)
    BY <1>1, <1>2, <2>1 DEF Typed, Rows, Called
  <2>3. Called(e)'
    BY <2>1, <2>2, ConstantsOfWork DEF Called
  <2>4. ASSUME NEW f \in Entries, f # e
        PROVE  Called(f)' /\ retries'[f] = retries[f]
    <3>1. retries'[f] = retries[f] /\ sent'[f] = sent[f]
      BY <1>1, <2>1, <2>4 DEF Typed
    <3>. QED
      BY <1>2, <2>1, <3>1 DEF Called
  <2>. QED
    BY <1>2, <2>1, <2>2, <2>3, <2>4 DEF HeldOnce
<1>11. ASSUME NEW a \in Autos, Automations!Delete(a)
       PROVE  Kept' /\ faults' \in Nat
  <2>1. /\ retries' = [e \in Entries |->
             IF retries[e].auto = a THEN Automations!NoRow ELSE retries[e]]
        /\ UNCHANGED <<sent, held, sending, faults>>
    BY <1>11 DEF Automations!Delete
  <2>2. ASSUME NEW f \in Entries
        PROVE  /\ Called(f)'
               /\ retries'[f].status = "in_progress"
                    => retries[f].status = "in_progress"
    <3>1. CASE retries[f].auto = a
      BY <1>2, <2>1, <3>1 DEF Called, Automations!NoRow
    <3>2. CASE retries[f].auto # a
      BY <1>2, <2>1, <3>2 DEF Called
    <3>. QED
      BY <3>1, <3>2
  <2>. QED
    BY <1>2, <2>1, <2>2 DEF HeldOnce
<1>12. ASSUME Automations!Crash PROVE Kept' /\ faults' \in Nat
  <2>1. /\ held' = <<>> /\ faults' = faults + 1 /\ UNCHANGED <<retries, sent>>
    BY <1>12 DEF Automations!Crash, Automations!Fault
  <2>2. Automations!Range(held') = {} /\ HeldOnce'
    BY <2>1 DEF Automations!Range, HeldOnce
  <2>3. ASSUME NEW f \in Entries PROVE Called(f)'
    BY <1>2, <2>1, <2>2 DEF Called
  <2>. QED
    BY <1>2, <2>1, <2>2, <2>3
<1>13. Kept' /\ faults' \in Nat
  BY <1>4, <1>5, <1>6, <1>7, <1>8, <1>9, <1>10, <1>11, <1>12
     DEF Automations!Next, Automations!Executions, Automations!Worker
<1>. QED
  BY <1>1, <1>13 DEF AutomationsInv

\* AutomationsInv holds in every reachable state.
LEMMA AutomationsHold == Spec => []AutomationsInv
<1>1. Init => AutomationsInv
  <2>. SUFFICES ASSUME Init PROVE AutomationsInv
    OBVIOUS
  <2>. USE DEF Init, Automations!Init
  <2>1. Typed
    <3>1. retries \in [Entries -> Rows]
      BY RowTypes
    <3>2. channel \in Seq(Events) /\ Len(channel) <= Capacity
      BY ConstantsOfWork
    <3>3. autos \in [Autos -> Automations!AutoStatus]
      BY DEF Automations!AutoStatus
    <3>4. running \in [Autos -> [Automations!Depths -> Nat]] /\ sent \in [Entries -> Nat]
      OBVIOUS
    <3>5. held \in Seq(Entries) /\ sending = FALSE
      OBVIOUS
    <3>. HIDE DEF Init, Automations!Init
    <3>. QED
      BY <3>1, <3>2, <3>3, <3>4, <3>5 DEF Typed
  <2>2. Automations!Range(held) = {} /\ HeldOnce
    BY DEF Automations!Range, HeldOnce
  <2>3. ASSUME NEW e \in Entries PROVE Called(e)
    BY <2>2, ConstantsOfWork DEF Called, Automations!NoRow
  <2>. QED
    BY <2>1, <2>2, <2>3 DEF AutomationsInv, Automations!NoRow
<1>. QED
  BY <1>1, StepOfParts, AutomationsStep, PTL DEF Spec

\* What the runs check of it follows from AutomationsInv.
LEMMA RetriesAreBounded ==
  AutomationsInv => Automations!AttemptsBounded /\ Automations!InProgressIsHeld
BY DEF AutomationsInv, Called, Automations!AttemptsBounded,
       Automations!InProgressIsHeld

(****************************************************************************)
(* The gateway to agents.                                                   *)
(****************************************************************************)

\* The operations under way and those that requests were made for.
Operations ==
  [op : {"idle", "activate", "stop"}, agent : Agents \union {NoAgent},
   target : OpenClawGateway!Requests \union {0},
   req : OpenClawGateway!Requests \union {0},
   at : {"idle", "asking", "queueing", "waiting", "storing", "ending"}]

GatewayTyped ==
  /\ OpenClawGateway!TypeOK
  /\ call \in [Users -> Operations]
  /\ request \in [OpenClawGateway!Requests -> Operations]

\* Ids are drawn in order, and nobody asks who will not get one.
IsDrawn(r) ==
  r \in OpenClawGateway!Requests /\ request[r] # OpenClawGateway!Idle

Asking == {u \in Users : call[u].at = "asking"}

IdsSuffice ==
  \E n \in 0 .. MaxRequests :
    /\ \A r \in OpenClawGateway!Requests : IsDrawn(r) <=> r <= n
    /\ Cardinality(Asking) <= MaxRequests - n

\* A call has the request it made, alone.
CallsOwnRequests ==
  /\ \A u \in Users :
       \/ call[u] = OpenClawGateway!Idle
       \/ /\ call[u].op \in {"activate", "stop"} /\ call[u].agent \in Agents
          /\ call[u].at # "idle"
          /\ call[u].at = "asking" => call[u].req = 0
          /\ call[u].at \in {"queueing", "waiting", "storing"} => call[u].req # 0
          /\ call[u].req # 0 =>
               /\ IsDrawn(call[u].req)
               /\ request[call[u].req].op = call[u].op
               /\ request[call[u].req].agent = call[u].agent
               /\ request[call[u].req].target = call[u].target
          /\ call[u].at = "storing" =>
               call[u].op = "activate" /\ reply[call[u].req] = "payload"
  /\ \A u, v \in Users :
       call[u].req # 0 /\ call[u].req = call[v].req => u = v
  /\ \A r \in OpenClawGateway!Requests :
       IsDrawn(r) => /\ request[r].op \in {"activate", "stop"}
                     /\ request[r].agent \in Agents

\* A frame is in one place on its way, and nowhere before it is queued or
\* after it was answered.
Queued == {outgoing[i] : i \in 1 .. Len(outgoing)}
InFlight == Queued \union arrived \union answers \union refusals

QueuedOnce ==
  \A i, j \in 1 .. Len(outgoing) : outgoing[i] = outgoing[j] => i = j

FramesAreSingle ==
  /\ QueuedOnce
  /\ Queued \intersect (arrived \union answers \union refusals) = {}
  /\ arrived \intersect (answers \union refusals) = {}
  /\ answers \intersect refusals = {}
  /\ \A r \in InFlight : IsDrawn(r)
  /\ \A u \in Users : call[u].at = "queueing" => call[u].req \notin InFlight
  /\ \A r \in OpenClawGateway!Requests :
       reply[r] \in {"payload", "empty"} =>
         /\ r \notin InFlight
         /\ \A u \in Users : call[u].at = "queueing" => call[u].req # r

\* The map of pending requests: who waits is in it or has been told, who is in
\* it has not been told.
MapIsTrue ==
  /\ OpenClawGateway!WaitersAreKnown
  /\ OpenClawGateway!PendingIsAwaited
  /\ \A r \in pending : IsDrawn(r) /\ reply[r] = "none"
  /\ \A u \in Users : call[u].at = "queueing" =>
       call[u].req \in pending \/ reply[call[u].req] # "none"
  /\ \A r \in OpenClawGateway!Requests : ~IsDrawn(r) => reply[r] = "none"

\* What was refused or cut off is remembered.
FaultsAreNoted ==
  /\ \A r \in refusals : request[r].agent \in blemished
  /\ \A r \in OpenClawGateway!Requests :
       reply[r] \in {"empty", "closed"} => request[r].agent \in blemished

\* The ids the manager keeps, and those that a stop has taken out, are of
\* activations that the gateway answered; a stop it answered has ended its
\* agent.
IdsAreAnswered ==
  /\ \A r \in remote : IsDrawn(r) /\ request[r].op = "activate"
  /\ \A a \in Agents : gatewayIds[a] # 0 =>
       IsDrawn(gatewayIds[a]) /\ reply[gatewayIds[a]] = "payload"
  /\ \A u \in Users : call[u].target # 0 => reply[call[u].target] = "payload"
  /\ \A q \in OpenClawGateway!Requests :
       /\ request[q].target # 0 => reply[request[q].target] = "payload"
       /\ (request[q].op = "stop" /\ (q \in answers \/ reply[q] = "payload"))
            => request[q].target \notin remote

\* An agent whose calls did not overlap and met no fault has one call at most,
\* whose frame is what is on its way; and what the gateway runs for it is what
\* the manager knows, what that call activates or what it stops.
CleanIsKnown ==
  \A a \in Agents \ blemished :
    /\ \A u, v \in Users : call[u].agent = a /\ call[v].agent = a => u = v
    /\ \A r \in InFlight : request[r].agent = a =>
         \E u \in Users : call[u].req = r /\ call[u].at = "waiting"
    /\ \A r \in remote : request[r].agent = a =>
         \/ gatewayIds[a] = r
         \/ \E u \in Users :
              call[u].req = r /\ call[u].at \in {"waiting", "storing"}
         \/ \E u \in Users :
              /\ call[u].op = "stop" /\ call[u].agent = a /\ call[u].target = r
              /\ call[u].at \in {"asking", "queueing", "waiting"}
    /\ \A u \in Users :
         (/\ call[u].agent = a /\ call[u].op = "activate"
          /\ call[u].at \in {"asking", "queueing", "waiting", "storing"})
           => gatewayIds[a] = 0

GatewayInv ==
  /\ GatewayTyped
  /\ IdsSuffice
  /\ CallsOwnRequests
  /\ FramesAreSingle
  /\ MapIsTrue
  /\ FaultsAreNoted
  /\ IdsAreAnswered
  /\ CleanIsKnown

\* The number of elements is the one the library counts.
LEMMA CardinalityOfGateway ==
  ASSUME NEW S PROVE OpenClawGateway!Cardinality(S) = Cardinality(S)
BY DEF OpenClawGateway!Cardinality, Cardinality

\* The ids drawn are the first ones.
LEMMA DrawnAreFirst ==
  ASSUME IdsSuffice
  PROVE  /\ OpenClawGateway!Drawn \in 0 .. MaxRequests
         /\ \A r \in OpenClawGateway!Requests :
              IsDrawn(r) <=> r <= OpenClawGateway!Drawn
         /\ Cardinality(Asking) <= MaxRequests - OpenClawGateway!Drawn
<1>. DEFINE D == {r \in OpenClawGateway!Requests :
                    request[r] # OpenClawGateway!Idle}
<1>1. PICK n \in 0 .. MaxRequests :
        /\ \A r \in OpenClawGateway!Requests : IsDrawn(r) <=> r <= n
        /\ Cardinality(Asking) <= MaxRequests - n
  BY DEF IdsSuffice
<1>2. D = 1 .. n
  BY <1>1, ConstantsOfWork DEF IsDrawn, OpenClawGateway!Requests
<1>3. Cardinality(1 .. n) = n
  BY <1>1, FS_Interval
<1>4. OpenClawGateway!Drawn = n
  BY <1>2, <1>3, CardinalityOfGateway DEF OpenClawGateway!Drawn
<1>. QED
  BY <1>1, <1>4

\* Ids suffice when nobody starts to ask and none is drawn.
LEMMA NobodyAsks ==
  ASSUME IdsSuffice, Asking' \subseteq Asking, request' = request
  PROVE  IdsSuffice'
<1>1. PICK n \in 0 .. MaxRequests :
        /\ \A r \in OpenClawGateway!Requests : IsDrawn(r) <=> r <= n
        /\ Cardinality(Asking) <= MaxRequests - n
  BY DEF IdsSuffice
<1>2. IsFiniteSet(Asking)
  BY ConstantsOfWork, FS_Subset DEF Asking
<1>3. Cardinality(Asking') <= Cardinality(Asking) /\ Cardinality(Asking') \in Nat
  BY <1>2, FS_Subset, FS_CardinalityType
<1>4. Cardinality(Asking') <= MaxRequests - n
  BY <1>1, <1>2, <1>3, FS_CardinalityType, ConstantsOfWork
<1>. QED
  BY <1>1, <1>4 DEF IdsSuffice, IsDrawn

\* The call of u goes on to another place.
LEMMA GoesOn ==
  ASSUME GatewayTyped, NEW u \in Users,
         NEW at \in {"queueing", "waiting", "storing", "ending"},
         OpenClawGateway!Goto(u, at)
  PROVE  /\ call' \in [Users -> Operations]
         /\ Asking' \subseteq Asking
         /\ \A v \in Users : v # u => call'[v] = call[v]
         /\ call'[u] = [call[u] EXCEPT !.at = at]
         /\ call'[u].op = call[u].op /\ call'[u].agent = call[u].agent
         /\ call'[u].target = call[u].target /\ call'[u].req = call[u].req
         /\ call'[u].at = at
<1>. USE DEF GatewayTyped, Operations, OpenClawGateway!Goto
<1>1. call' = [call EXCEPT ![u] = [call[u] EXCEPT !.at = at]]
  OBVIOUS
<1>2. [call[u] EXCEPT !.at = at] \in Operations
  OBVIOUS
<1>3. /\ \A v \in Users : v # u => call'[v] = call[v]
      /\ call'[u] = [call[u] EXCEPT !.at = at]
  BY <1>1
<1>4. call' \in [Users -> Operations]
  BY <1>1, <1>2
<1>5. /\ call'[u].op = call[u].op /\ call'[u].agent = call[u].agent
      /\ call'[u].target = call[u].target /\ call'[u].req = call[u].req
      /\ call'[u].at = at
  BY <1>3
<1>6. Asking' \subseteq Asking
  BY <1>3, <1>5 DEF Asking
<1>. QED
  BY <1>3, <1>4, <1>5, <1>6

\* The head of the queue leaves it.
LEMMA HeadLeaves ==
  ASSUME outgoing \in Seq(OpenClawGateway!Requests), QueuedOnce,
         outgoing # <<>>, outgoing' = Tail(outgoing)
  PROVE  /\ QueuedOnce' /\ Queued' = Queued \ {Head(outgoing)}
         /\ Head(outgoing) \in Queued
         /\ Head(outgoing) \in OpenClawGateway!Requests
         /\ outgoing' \in Seq(OpenClawGateway!Requests)
         /\ Len(outgoing') = Len(outgoing) - 1
<1>1. /\ outgoing' \in Seq(OpenClawGateway!Requests)
      /\ Len(outgoing') = Len(outgoing) - 1 /\ Len(outgoing) \in Nat \ {0}
      /\ \A i \in 1 .. Len(outgoing) - 1 : outgoing'[i] = outgoing[i + 1]
      /\ Head(outgoing) = outgoing[1]
      /\ Head(outgoing) \in OpenClawGateway!Requests
  OBVIOUS
<1>2. QueuedOnce'
  BY <1>1 DEF QueuedOnce
<1>3. Queued' \subseteq Queued \ {Head(outgoing)}
  BY <1>1 DEF Queued, QueuedOnce
<1>4. ASSUME NEW i \in 1 .. Len(outgoing), outgoing[i] # Head(outgoing)
      PROVE  outgoing[i] \in Queued'
  <2>1. i - 1 \in 1 .. Len(outgoing')
    BY <1>1, <1>4
  <2>2. outgoing'[i - 1] = outgoing[i]
    BY <1>1, <2>1
  <2>. QED
    BY <2>1, <2>2 DEF Queued
<1>5. Queued \ {Head(outgoing)} \subseteq Queued'
  BY <1>4 DEF Queued
<1>6. Head(outgoing) \in Queued
  BY <1>1 DEF Queued
<1>. QED
  BY <1>1, <1>2, <1>3, <1>5, <1>6

\* A frame that is not there is put at its end.
LEMMA FrameJoins ==
  ASSUME outgoing \in Seq(OpenClawGateway!Requests), QueuedOnce,
         NEW r \in OpenClawGateway!Requests, r \notin Queued,
         outgoing' = Append(outgoing, r)
  PROVE  /\ QueuedOnce' /\ Queued' = Queued \union {r}
         /\ outgoing' \in Seq(OpenClawGateway!Requests)
         /\ Len(outgoing') = Len(outgoing) + 1
<1>1. /\ outgoing' \in Seq(OpenClawGateway!Requests)
      /\ Len(outgoing') = Len(outgoing) + 1 /\ Len(outgoing) \in Nat
      /\ \A i \in 1 .. Len(outgoing) : outgoing'[i] = outgoing[i]
      /\ outgoing'[Len(outgoing) + 1] = r
  OBVIOUS
<1>2. QueuedOnce'
  BY <1>1 DEF QueuedOnce, Queued
<1>3. Queued' \subseteq Queued \union {r}
  BY <1>1 DEF Queued
<1>4. Queued \subseteq Queued' /\ r \in Queued'
  BY <1>1 DEF Queued
<1>. QED
  BY <1>1, <1>2, <1>3, <1>4

\* A call begins: its agent is clean only if no other call is about it.
LEMMA CallBegins ==
  ASSUME GatewayTyped, IdsSuffice, NEW u \in Users, NEW operation \in Operations,
         operation.req = 0, operation.agent \in Agents,
         operation.op \in {"activate", "stop"},
         OpenClawGateway!Begin(u, operation), request' = request
  PROVE  /\ call[u] = OpenClawGateway!Idle /\ call'[u] = operation
         /\ \A v \in Users : v # u => call'[v] = call[v]
         /\ call' \in [Users -> Operations]
         /\ blemished \subseteq blemished'
         /\ operation.agent \notin blemished' =>
              /\ \A v \in Users : call[v].agent # operation.agent
              /\ operation.op = "activate" => gatewayIds[operation.agent] = 0
         /\ IdsSuffice'
<1>. USE DEF OpenClawGateway!Begin
<1>1. /\ call[u] = OpenClawGateway!Idle
      /\ call' = [call EXCEPT ![u] = operation]
  OBVIOUS
<1>2. /\ call' \in [Users -> Operations] /\ call'[u] = operation
      /\ \A v \in Users : v # u => call'[v] = call[v]
  BY <1>1 DEF GatewayTyped
<1>3. /\ blemished \subseteq blemished'
      /\ operation.agent \notin blemished' =>
           /\ \A v \in Users : call[v].agent # operation.agent
           /\ operation.op = "activate" => gatewayIds[operation.agent] = 0
  BY DEF OpenClawGateway!Busy, OpenClawGateway!NoRequest
<1>4. IdsSuffice'
  <2>. DEFINE n == OpenClawGateway!Drawn
  <2>1. /\ n \in 0 .. MaxRequests
        /\ \A r \in OpenClawGateway!Requests : IsDrawn(r) <=> r <= n
    BY DrawnAreFirst
  <2>2. Cardinality(Asking) < MaxRequests - n
    BY CardinalityOfGateway DEF Asking
  <2>3. Asking' \subseteq Asking \union {u}
    BY <1>2 DEF Asking
  <2>4. IsFiniteSet(Asking)
    BY ConstantsOfWork, FS_Subset DEF Asking
  <2>5. /\ IsFiniteSet(Asking \union {u})
        /\ Cardinality(Asking \union {u}) <= Cardinality(Asking) + 1
        /\ Cardinality(Asking) \in Nat
    <3>1. Cardinality(Asking) \in Nat
      BY <2>4, FS_CardinalityType
    <3>2. /\ IsFiniteSet(Asking \union {u})
          /\ Cardinality(Asking \union {u})
               = IF u \in Asking THEN Cardinality(Asking) ELSE Cardinality(Asking) + 1
      BY <2>4, FS_AddElement
    <3>. QED
      BY <3>1, <3>2
  <2>6. /\ Cardinality(Asking') <= Cardinality(Asking \union {u})
        /\ Cardinality(Asking') \in Nat /\ Cardinality(Asking \union {u}) \in Nat
    BY <2>3, <2>5, FS_Subset, FS_CardinalityType
  <2>. HIDE DEF n
  <2>7. Cardinality(Asking') <= MaxRequests - n
    BY <2>1, <2>2, <2>5, <2>6, ConstantsOfWork
  <2>. QED
    BY <2>1, <2>7 DEF IdsSuffice, IsDrawn
<1>. QED
  BY <1>1, <1>2, <1>3, <1>4


\* Connect: GatewayInv is kept.
LEMMA GatewayConnectKeeps ==
  ASSUME GatewayInv, OpenClawGateway!Connect
  PROVE  GatewayInv'
<1>. USE DEF GatewayInv, OpenClawGateway!Connect, OpenClawGateway!linkVars,
             OpenClawGateway!wireVars, OpenClawGateway!rowVars
<1>1. GatewayTyped'
  BY DEF GatewayTyped, OpenClawGateway!TypeOK, Operations
<1>2. IdsSuffice'
  BY DEF IdsSuffice, Asking, IsDrawn, GatewayTyped
<1>3. CallsOwnRequests'
  BY DEF GatewayTyped, CallsOwnRequests, IsDrawn, Operations
<1>4. FramesAreSingle'
  BY DEF GatewayTyped, FramesAreSingle, QueuedOnce, InFlight, IsDrawn, Queued
<1>5. MapIsTrue'
  BY DEF GatewayTyped, OpenClawGateway!TypeOK, MapIsTrue,
         OpenClawGateway!WaitersAreKnown, OpenClawGateway!PendingIsAwaited,
         IsDrawn, CallsOwnRequests
<1>6. FaultsAreNoted'
  BY DEF GatewayTyped, OpenClawGateway!TypeOK, FaultsAreNoted, IsDrawn,
         MapIsTrue
<1>7. IdsAreAnswered'
  BY DEF GatewayTyped, OpenClawGateway!TypeOK, IdsAreAnswered, IsDrawn
<1>8. CleanIsKnown'
  BY DEF CleanIsKnown, InFlight, Queued
<1>. HIDE DEF GatewayInv
<1>. QED
  BY <1>1, <1>2, <1>3, <1>4, <1>5, <1>6, <1>7, <1>8 DEF GatewayInv

\* Transmit: GatewayInv is kept.
LEMMA GatewayTransmitKeeps ==
  ASSUME GatewayInv, OpenClawGateway!Transmit
  PROVE  GatewayInv'
<1>. USE DEF GatewayInv, OpenClawGateway!Transmit, OpenClawGateway!linkVars,
             OpenClawGateway!wireVars, OpenClawGateway!rowVars
<1>0. /\ QueuedOnce' /\ Queued' = Queued \ {Head(outgoing)}
      /\ Head(outgoing) \in Queued
      /\ Head(outgoing) \in OpenClawGateway!Requests
      /\ outgoing' \in Seq(OpenClawGateway!Requests)
      /\ Len(outgoing') = Len(outgoing) - 1
  BY HeadLeaves DEF GatewayTyped, OpenClawGateway!TypeOK, FramesAreSingle
<1>1. GatewayTyped'
  BY <1>0, ConstantsOfWork
     DEF GatewayTyped, OpenClawGateway!TypeOK
<1>2. IdsSuffice'
  BY DEF IdsSuffice, Asking, IsDrawn, GatewayTyped
<1>3. CallsOwnRequests'
  BY DEF GatewayTyped, CallsOwnRequests, IsDrawn, Operations
<1>4. FramesAreSingle'
  BY <1>0
     DEF FramesAreSingle, InFlight, IsDrawn
<1>5. MapIsTrue'
  BY DEF GatewayTyped, OpenClawGateway!TypeOK, MapIsTrue,
         OpenClawGateway!WaitersAreKnown, OpenClawGateway!PendingIsAwaited,
         IsDrawn, CallsOwnRequests
<1>6. FaultsAreNoted'
  BY DEF GatewayTyped, OpenClawGateway!TypeOK, FaultsAreNoted, IsDrawn,
         MapIsTrue
<1>7. IdsAreAnswered'
  BY DEF GatewayTyped, OpenClawGateway!TypeOK, IdsAreAnswered, IsDrawn
<1>8. CleanIsKnown'
  BY <1>0
     DEF CleanIsKnown, InFlight
<1>. HIDE DEF GatewayInv
<1>. QED
  BY <1>1, <1>2, <1>3, <1>4, <1>5, <1>6, <1>7, <1>8 DEF GatewayInv

\* ClearFlags: GatewayInv is kept.
LEMMA GatewayClearFlagsKeeps ==
  ASSUME GatewayInv, OpenClawGateway!ClearFlags
  PROVE  GatewayInv'
<1>. USE DEF GatewayInv, OpenClawGateway!ClearFlags, OpenClawGateway!linkVars,
             OpenClawGateway!wireVars, OpenClawGateway!rowVars
<1>1. GatewayTyped'
  BY DEF GatewayTyped, OpenClawGateway!TypeOK, Operations
<1>2. IdsSuffice'
  BY DEF IdsSuffice, Asking, IsDrawn, GatewayTyped
<1>3. CallsOwnRequests'
  BY DEF GatewayTyped, CallsOwnRequests, IsDrawn, Operations
<1>4. FramesAreSingle'
  BY DEF GatewayTyped, FramesAreSingle, QueuedOnce, InFlight, IsDrawn, Queued
<1>5. MapIsTrue'
  BY DEF GatewayTyped, OpenClawGateway!TypeOK, MapIsTrue,
         OpenClawGateway!WaitersAreKnown, OpenClawGateway!PendingIsAwaited,
         IsDrawn, CallsOwnRequests
<1>6. FaultsAreNoted'
  BY DEF GatewayTyped, OpenClawGateway!TypeOK, FaultsAreNoted, IsDrawn,
         MapIsTrue
<1>7. IdsAreAnswered'
  BY DEF GatewayTyped, OpenClawGateway!TypeOK, IdsAreAnswered, IsDrawn
<1>8. CleanIsKnown'
  BY DEF CleanIsKnown, InFlight, Queued
<1>. HIDE DEF GatewayInv
<1>. QED
  BY <1>1, <1>2, <1>3, <1>4, <1>5, <1>6, <1>7, <1>8 DEF GatewayInv

\* ClearPending: GatewayInv is kept.
LEMMA GatewayClearPendingKeeps ==
  ASSUME GatewayInv, OpenClawGateway!ClearPending
  PROVE  GatewayInv'
<1>. USE DEF GatewayInv
<1>0. /\ pending' = {} /\ blemished \subseteq blemished'
      /\ link' = "down"
      /\ \A q \in OpenClawGateway!Requests :
           reply'[q] = IF q \in pending THEN "closed" ELSE reply[q]
      /\ reply' \in [OpenClawGateway!Requests ->
                      {"none", "payload", "empty", "closed"}]
      /\ \A q \in pending : request[q].agent \in blemished'
      /\ UNCHANGED <<connected, outgoing, breaks, arrived, answers,
                     refusals, remote, agentRow, gatewayIds,
                     active, call, request>>
  BY DEF OpenClawGateway!ClearPending, OpenClawGateway!linkVars, OpenClawGateway!wireVars,
         OpenClawGateway!rowVars,
         GatewayTyped, OpenClawGateway!TypeOK
<1>1. GatewayTyped'
  BY <1>0
     DEF GatewayTyped, OpenClawGateway!TypeOK
<1>2. IdsSuffice'
  BY <1>0
     DEF IdsSuffice, Asking, IsDrawn
<1>3. CallsOwnRequests'
  BY <1>0
     DEF CallsOwnRequests, IsDrawn, MapIsTrue
<1>4. FramesAreSingle'
  BY <1>0
     DEF FramesAreSingle, QueuedOnce, InFlight, IsDrawn, Queued
<1>5. MapIsTrue'
  BY <1>0
     DEF MapIsTrue, IsDrawn, OpenClawGateway!WaitersAreKnown,
         OpenClawGateway!PendingIsAwaited, CallsOwnRequests,
         OpenClawGateway!Idle, OpenClawGateway!Operation,
         OpenClawGateway!NoRequest
<1>6. FaultsAreNoted'
  BY <1>0
     DEF FaultsAreNoted
<1>7. IdsAreAnswered'
  BY <1>0
     DEF GatewayTyped, OpenClawGateway!TypeOK, IdsAreAnswered, IsDrawn,
         MapIsTrue, Operations
<1>8. CleanIsKnown'
  BY <1>0
     DEF CleanIsKnown, InFlight, Queued
<1>. HIDE DEF GatewayInv
<1>. QED
  BY <1>1, <1>2, <1>3, <1>4, <1>5, <1>6, <1>7, <1>8 DEF GatewayInv

\* Receive: GatewayInv is kept.
LEMMA GatewayReceiveKeeps ==
  ASSUME GatewayInv, NEW r \in OpenClawGateway!Requests,
         OpenClawGateway!Receive(r)
  PROVE  GatewayInv'
<1>. USE DEF GatewayInv, OpenClawGateway!Receive, OpenClawGateway!linkVars,
             OpenClawGateway!wireVars, OpenClawGateway!rowVars
<1>1. GatewayTyped'
  BY DEF GatewayTyped, OpenClawGateway!TypeOK, Operations
<1>2. IdsSuffice'
  BY DEF IdsSuffice, Asking, IsDrawn, GatewayTyped
<1>3. CallsOwnRequests'
  BY DEF GatewayTyped, OpenClawGateway!TypeOK, CallsOwnRequests, IsDrawn,
         MapIsTrue, Operations
<1>4. FramesAreSingle'
  BY DEF GatewayTyped, FramesAreSingle, QueuedOnce, InFlight, IsDrawn, Queued
<1>5. MapIsTrue'
  BY DEF GatewayTyped, OpenClawGateway!TypeOK, MapIsTrue,
         OpenClawGateway!WaitersAreKnown, OpenClawGateway!PendingIsAwaited,
         IsDrawn, CallsOwnRequests
<1>6. FaultsAreNoted'
  BY DEF GatewayTyped, OpenClawGateway!TypeOK, FaultsAreNoted, IsDrawn,
         MapIsTrue
<1>7. IdsAreAnswered'
  BY DEF GatewayTyped, OpenClawGateway!TypeOK, IdsAreAnswered, IsDrawn,
         MapIsTrue, Operations
<1>8. CleanIsKnown'
  BY DEF GatewayTyped, OpenClawGateway!TypeOK, CleanIsKnown, CallsOwnRequests,
         InFlight, Queued, IsDrawn
<1>. HIDE DEF GatewayInv
<1>. QED
  BY <1>1, <1>2, <1>3, <1>4, <1>5, <1>6, <1>7, <1>8 DEF GatewayInv

\* Break: GatewayInv is kept.
LEMMA GatewayBreakKeeps ==
  ASSUME GatewayInv, OpenClawGateway!Break
  PROVE  GatewayInv'
<1>. USE DEF GatewayInv, OpenClawGateway!Break, OpenClawGateway!linkVars,
             OpenClawGateway!wireVars, OpenClawGateway!rowVars
<1>0. /\ QueuedOnce' /\ Queued' \subseteq Queued
      /\ outgoing' \in Seq(OpenClawGateway!Requests)
      /\ Len(outgoing') <= Len(outgoing)
  <2>1. CASE outgoing' = outgoing
    BY <2>1 DEF GatewayTyped, OpenClawGateway!TypeOK, FramesAreSingle,
                QueuedOnce, Queued
  <2>2. CASE outgoing # <<>> /\ outgoing' = Tail(outgoing)
    <3>1. outgoing \in Seq(OpenClawGateway!Requests) /\ QueuedOnce
      BY DEF GatewayTyped, OpenClawGateway!TypeOK, FramesAreSingle
    <3>2. Len(outgoing) - 1 <= Len(outgoing)
      BY <3>1
    <3>. HIDE DEF OpenClawGateway!Break
    <3>. QED
      BY <2>2, <3>1, <3>2, HeadLeaves
  <2>. QED
    BY <2>1, <2>2
<1>1. GatewayTyped'
  BY <1>0, ConstantsOfWork
     DEF GatewayTyped, OpenClawGateway!TypeOK
<1>2. IdsSuffice'
  BY DEF IdsSuffice, Asking, IsDrawn, GatewayTyped
<1>3. CallsOwnRequests'
  BY DEF GatewayTyped, CallsOwnRequests, IsDrawn, Operations
<1>4. FramesAreSingle'
  BY <1>0
     DEF FramesAreSingle, InFlight, IsDrawn
<1>5. MapIsTrue'
  BY DEF GatewayTyped, OpenClawGateway!TypeOK, MapIsTrue,
         OpenClawGateway!WaitersAreKnown, OpenClawGateway!PendingIsAwaited,
         IsDrawn, CallsOwnRequests
<1>6. FaultsAreNoted'
  BY DEF GatewayTyped, OpenClawGateway!TypeOK, FaultsAreNoted, IsDrawn,
         MapIsTrue
<1>7. IdsAreAnswered'
  BY DEF GatewayTyped, OpenClawGateway!TypeOK, IdsAreAnswered, IsDrawn
<1>8. CleanIsKnown'
  BY <1>0
     DEF CleanIsKnown, InFlight
<1>. HIDE DEF GatewayInv
<1>. QED
  BY <1>1, <1>2, <1>3, <1>4, <1>5, <1>6, <1>7, <1>8 DEF GatewayInv

\* GatewayServes: GatewayInv is kept.
LEMMA GatewayServesKeeps ==
  ASSUME GatewayInv, NEW r \in OpenClawGateway!Requests,
         OpenClawGateway!GatewayServes(r)
  PROVE  GatewayInv'
<1>. USE DEF GatewayInv, OpenClawGateway!GatewayServes,
             OpenClawGateway!linkVars, OpenClawGateway!wireVars,
             OpenClawGateway!rowVars
<1>1. GatewayTyped'
  BY DEF GatewayTyped, OpenClawGateway!TypeOK, Operations
<1>2. IdsSuffice'
  BY DEF IdsSuffice, Asking, IsDrawn, GatewayTyped
<1>3. CallsOwnRequests'
  BY DEF GatewayTyped, CallsOwnRequests, IsDrawn, Operations
<1>4. FramesAreSingle'
  BY DEF GatewayTyped, FramesAreSingle, QueuedOnce, InFlight, IsDrawn, Queued
<1>5. MapIsTrue'
  BY DEF GatewayTyped, OpenClawGateway!TypeOK, MapIsTrue,
         OpenClawGateway!WaitersAreKnown, OpenClawGateway!PendingIsAwaited,
         IsDrawn, CallsOwnRequests
<1>6. FaultsAreNoted'
  BY DEF GatewayTyped, OpenClawGateway!TypeOK, FaultsAreNoted, IsDrawn,
         MapIsTrue
<1>7. IdsAreAnswered'
  <2>1. IsDrawn(r) /\ r \notin answers /\ reply[r] # "payload"
        /\ request[r].op \in {"activate", "stop"}
    BY DEF FramesAreSingle, InFlight, CallsOwnRequests
  <2>2. /\ remote' \subseteq remote \union {r}
        /\ request[r].op = "activate" \/ remote' = remote \ {request[r].target}
    OBVIOUS
  <2>3. UNCHANGED <<call, request, gatewayIds, reply>>
        /\ answers' \subseteq answers \union {r}
    OBVIOUS
  <2>4. \A q \in remote' : IsDrawn(q)' /\ request[q].op = "activate"
    BY <2>1, <2>2, <2>3 DEF IdsAreAnswered, IsDrawn
  <2>5. ASSUME NEW q \in OpenClawGateway!Requests, request[q].op = "stop",
               q \in answers' \/ reply[q] = "payload"
        PROVE  request[q].target \notin remote'
    <3>1. CASE q = r
      BY <2>2, <2>5, <3>1
    <3>2. CASE q # r
      <4>1. q \in answers \/ reply[q] = "payload"
        BY <2>3, <2>5, <3>2
      <4>2. request[q].target \notin remote
        BY <2>5, <4>1 DEF IdsAreAnswered
      <4>3. request[q].target # r
        BY <2>1 DEF IdsAreAnswered, GatewayTyped, OpenClawGateway!Requests
      <4>. QED
        BY <2>2, <4>2, <4>3
    <3>. QED
      BY <3>1, <3>2
  <2>. QED
    BY <2>3, <2>4, <2>5 DEF IdsAreAnswered, IsDrawn
<1>8. CleanIsKnown'
  BY DEF GatewayTyped, OpenClawGateway!TypeOK, CleanIsKnown, CallsOwnRequests,
         InFlight, Queued, IsDrawn
<1>. HIDE DEF GatewayInv
<1>. QED
  BY <1>1, <1>2, <1>3, <1>4, <1>5, <1>6, <1>7, <1>8 DEF GatewayInv

\* GatewayRefuses: GatewayInv is kept.
LEMMA GatewayRefusesKeeps ==
  ASSUME GatewayInv, NEW r \in OpenClawGateway!Requests,
         OpenClawGateway!GatewayRefuses(r)
  PROVE  GatewayInv'
<1>. USE DEF GatewayInv, OpenClawGateway!GatewayRefuses,
             OpenClawGateway!linkVars, OpenClawGateway!wireVars,
             OpenClawGateway!rowVars
<1>1. GatewayTyped'
  BY DEF GatewayTyped, OpenClawGateway!TypeOK, Operations
<1>2. IdsSuffice'
  BY DEF IdsSuffice, Asking, IsDrawn, GatewayTyped
<1>3. CallsOwnRequests'
  BY DEF GatewayTyped, CallsOwnRequests, IsDrawn, Operations
<1>4. FramesAreSingle'
  BY DEF GatewayTyped, FramesAreSingle, QueuedOnce, InFlight, IsDrawn, Queued
<1>5. MapIsTrue'
  BY DEF GatewayTyped, OpenClawGateway!TypeOK, MapIsTrue,
         OpenClawGateway!WaitersAreKnown, OpenClawGateway!PendingIsAwaited,
         IsDrawn, CallsOwnRequests
<1>6. FaultsAreNoted'
  BY DEF GatewayTyped, OpenClawGateway!TypeOK, FaultsAreNoted, IsDrawn,
         MapIsTrue
<1>7. IdsAreAnswered'
  BY DEF GatewayTyped, OpenClawGateway!TypeOK, IdsAreAnswered, IsDrawn
<1>8. CleanIsKnown'
  BY DEF GatewayTyped, OpenClawGateway!TypeOK, CleanIsKnown, CallsOwnRequests,
         InFlight, Queued, IsDrawn
<1>. HIDE DEF GatewayInv
<1>. QED
  BY <1>1, <1>2, <1>3, <1>4, <1>5, <1>6, <1>7, <1>8 DEF GatewayInv

\* NotConnected: GatewayInv is kept.
LEMMA GatewayNotConnectedKeeps ==
  ASSUME GatewayInv, NEW u \in Users, OpenClawGateway!NotConnected(u)
  PROVE  GatewayInv'
<1>. USE DEF GatewayInv, OpenClawGateway!NotConnected,
             OpenClawGateway!linkVars, OpenClawGateway!wireVars,
             OpenClawGateway!rowVars
<1>0. /\ call' \in [Users -> Operations] /\ Asking' \subseteq Asking
      /\ \A v \in Users : v # u => call'[v] = call[v]
      /\ call'[u].op = call[u].op /\ call'[u].agent = call[u].agent
      /\ call'[u].target = call[u].target /\ call'[u].req = call[u].req
      /\ call'[u].at = "ending"
  BY GoesOn
<1>1. GatewayTyped'
  BY <1>0
     DEF GatewayTyped, OpenClawGateway!TypeOK
<1>2. IdsSuffice'
  BY <1>0, NobodyAsks
<1>3. CallsOwnRequests'
  BY <1>0
     DEF CallsOwnRequests, IsDrawn, OpenClawGateway!Idle,
         OpenClawGateway!Operation, OpenClawGateway!NoRequest
<1>4. FramesAreSingle'
  BY <1>0
     DEF FramesAreSingle, QueuedOnce, InFlight, IsDrawn, Queued
<1>5. MapIsTrue'
  BY <1>0
     DEF OpenClawGateway!TypeOK, MapIsTrue, OpenClawGateway!WaitersAreKnown,
         OpenClawGateway!PendingIsAwaited, IsDrawn, CallsOwnRequests
<1>6. FaultsAreNoted'
  BY <1>0
     DEF OpenClawGateway!TypeOK, FaultsAreNoted, IsDrawn, MapIsTrue
<1>7. IdsAreAnswered'
  BY <1>0
     DEF OpenClawGateway!TypeOK, IdsAreAnswered, IsDrawn
<1>8. CleanIsKnown'
  BY <1>0
     DEF CleanIsKnown, CallsOwnRequests, InFlight, Queued, IsDrawn
<1>. HIDE DEF GatewayInv
<1>. QED
  BY <1>1, <1>2, <1>3, <1>4, <1>5, <1>6, <1>7, <1>8 DEF GatewayInv

\* Ask: GatewayInv is kept.
LEMMA GatewayAskKeeps ==
  ASSUME GatewayInv, NEW u \in Users, OpenClawGateway!Ask(u)
  PROVE  GatewayInv'
<1>. USE DEF GatewayInv
<1>. DEFINE r == OpenClawGateway!Drawn + 1
<1>0. /\ call[u].at = "asking" /\ pending' = pending \union {r}
      /\ request' = [request EXCEPT ![r] = call[u]]
      /\ call' = [call EXCEPT ![u] = [call[u] EXCEPT !.req = r, !.at = "queueing"]]
      /\ UNCHANGED <<link, connected, outgoing, breaks, arrived, answers, refusals,
                     remote, agentRow, gatewayIds, active, reply, blemished>>
  BY DEF OpenClawGateway!Ask, OpenClawGateway!linkVars, OpenClawGateway!wireVars,
         OpenClawGateway!rowVars, GatewayTyped
<1>00. /\ Cardinality(Asking \ {u}) = Cardinality(Asking) - 1
       /\ Cardinality(Asking) \in Nat /\ Cardinality(Asking \ {u}) \in Nat
  <2>1. IsFiniteSet(Asking) /\ u \in Asking
    BY <1>0, ConstantsOfWork, FS_Subset DEF Asking
  <2>. QED
    BY <2>1, FS_RemoveElement, FS_CardinalityType
<1>01. /\ OpenClawGateway!Drawn \in 0 .. MaxRequests - 1
       /\ \A q \in OpenClawGateway!Requests :
            IsDrawn(q) <=> q <= OpenClawGateway!Drawn
       /\ Cardinality(Asking) <= MaxRequests - OpenClawGateway!Drawn
  BY <1>00, DrawnAreFirst, ConstantsOfWork
<1>02. r \in OpenClawGateway!Requests /\ ~IsDrawn(r)
  BY <1>01, ConstantsOfWork DEF OpenClawGateway!Requests
<1>03. /\ call[u].req = 0 /\ call[u].op \in {"activate", "stop"}
       /\ call[u].agent \in Agents /\ call[u] # OpenClawGateway!Idle
  BY <1>0 DEF CallsOwnRequests, OpenClawGateway!Idle, OpenClawGateway!Operation
<1>04. /\ request' \in [OpenClawGateway!Requests -> Operations]
       /\ request'[r] = call[u]
       /\ \A q \in OpenClawGateway!Requests : q # r => request'[q] = request[q]
       /\ \A q \in OpenClawGateway!Requests : IsDrawn(q)' <=> IsDrawn(q) \/ q = r
       /\ \A q : IsDrawn(q)' => q \in OpenClawGateway!Requests
       /\ \A q : IsDrawn(q) => q # r /\ q \in OpenClawGateway!Requests
  BY <1>0, <1>02, <1>03 DEF GatewayTyped, IsDrawn
<1>05. /\ [call[u] EXCEPT !.req = r, !.at = "queueing"] \in Operations
       /\ call[u] \in Operations
  BY <1>02 DEF GatewayTyped, Operations
<1>06. /\ call'[u] = [call[u] EXCEPT !.req = r, !.at = "queueing"]
       /\ call' \in [Users -> Operations]
       /\ \A v \in Users : v # u => call'[v] = call[v]
  BY <1>0, <1>05 DEF GatewayTyped
<1>07. /\ call'[u].req = r /\ call'[u].at = "queueing"
       /\ call'[u].op = call[u].op /\ call'[u].agent = call[u].agent
       /\ call'[u].target = call[u].target
  BY <1>05, <1>06 DEF Operations
<1>08. Asking' = Asking \ {u}
  BY <1>06, <1>07 DEF Asking
<1>09. /\ r \notin InFlight /\ r \notin pending /\ r \notin remote
       /\ reply[r] = "none"
       /\ \A v \in Users : call[v].req # r
  <2>1. r \notin InFlight
    BY <1>02 DEF FramesAreSingle
  <2>2. r \notin pending /\ reply[r] = "none"
    BY <1>02 DEF MapIsTrue
  <2>3. r \notin remote
    BY <1>02 DEF IdsAreAnswered
  <2>4. ASSUME NEW v \in Users PROVE call[v].req # r
    <3>1. r # 0
      BY <1>01
    <3>. QED
      BY <1>02, <3>1 DEF CallsOwnRequests, OpenClawGateway!Idle,
         OpenClawGateway!Operation, OpenClawGateway!NoRequest
  <2>. QED
    BY <2>1, <2>2, <2>3, <2>4
<1>010. r # 0
  BY <1>01
<1>. HIDE DEF r
<1>1. GatewayTyped'
  BY <1>0, <1>02, <1>04, <1>06
     DEF GatewayTyped, OpenClawGateway!TypeOK
<1>2. IdsSuffice'
  <2>1. \A q \in OpenClawGateway!Requests :
          IsDrawn(q)' <=> q <= OpenClawGateway!Drawn + 1
    BY <1>01, <1>04 DEF r, OpenClawGateway!Requests
  <2>2. Cardinality(Asking') <= MaxRequests - (OpenClawGateway!Drawn + 1)
    BY <1>00, <1>01, <1>08, ConstantsOfWork
  <2>3. OpenClawGateway!Drawn + 1 \in 0 .. MaxRequests
    BY <1>01, ConstantsOfWork
  <2>. QED
    BY <2>1, <2>2, <2>3 DEF IdsSuffice
<1>3. CallsOwnRequests'
  BY <1>0, <1>02, <1>03, <1>04, <1>06, <1>07, <1>09, <1>010
     DEF CallsOwnRequests
<1>4. FramesAreSingle'
  BY <1>0, <1>02, <1>03, <1>04, <1>06, <1>07, <1>09
     DEF FramesAreSingle, QueuedOnce, InFlight, Queued
<1>5. MapIsTrue'
  BY <1>0, <1>02, <1>03, <1>04, <1>06, <1>07, <1>09
     DEF MapIsTrue, OpenClawGateway!WaitersAreKnown,
         OpenClawGateway!PendingIsAwaited
<1>6. FaultsAreNoted'
  BY <1>0, <1>02, <1>03, <1>04, <1>06, <1>07, <1>09
     DEF FaultsAreNoted, FramesAreSingle, InFlight, GatewayTyped,
         OpenClawGateway!TypeOK
<1>7. IdsAreAnswered'
  BY <1>0, <1>02, <1>03, <1>04, <1>06, <1>07, <1>09
     DEF IdsAreAnswered, InFlight, GatewayTyped, OpenClawGateway!TypeOK,
         CallsOwnRequests
<1>8. CleanIsKnown'
  BY <1>0, <1>02, <1>03, <1>04, <1>06, <1>07, <1>09
     DEF CleanIsKnown, FramesAreSingle, InFlight, Queued, IdsAreAnswered
<1>. HIDE DEF GatewayInv
<1>. QED
  BY <1>1, <1>2, <1>3, <1>4, <1>5, <1>6, <1>7, <1>8 DEF GatewayInv

\* Enqueue: GatewayInv is kept.
LEMMA GatewayEnqueueKeeps ==
  ASSUME GatewayInv, NEW u \in Users, OpenClawGateway!Enqueue(u)
  PROVE  GatewayInv'
<1>. USE DEF GatewayInv
<1>0. /\ call[u].at = "queueing" /\ Len(outgoing) < Slots
      /\ outgoing' = Append(outgoing, call[u].req)
      /\ OpenClawGateway!Goto(u, "waiting")
      /\ UNCHANGED <<link, connected, breaks, arrived, answers, refusals,
                     remote, agentRow, gatewayIds, active,
                     pending, reply, request, blemished>>
  BY DEF OpenClawGateway!Enqueue, OpenClawGateway!linkVars, OpenClawGateway!wireVars,
         OpenClawGateway!rowVars
<1>00. /\ call' \in [Users -> Operations] /\ Asking' \subseteq Asking
       /\ \A v \in Users : v # u => call'[v] = call[v]
       /\ call'[u].op = call[u].op /\ call'[u].agent = call[u].agent
       /\ call'[u].target = call[u].target /\ call'[u].req = call[u].req
       /\ call'[u].at = "waiting"
  BY <1>0, GoesOn
<1>01. /\ call[u].op \in {"activate", "stop"} /\ call[u].agent \in Agents
       /\ IsDrawn(call[u].req) /\ call[u].req # 0
       /\ call[u].req \in OpenClawGateway!Requests
       /\ request[call[u].req].op = call[u].op
       /\ request[call[u].req].agent = call[u].agent
       /\ request[call[u].req].target = call[u].target
       /\ \A v \in Users : v # u => call[v].req # call[u].req
  BY <1>0 DEF CallsOwnRequests, OpenClawGateway!Idle, OpenClawGateway!Operation,
              IsDrawn
<1>02. call[u].req \notin InFlight
  BY <1>0 DEF FramesAreSingle
<1>03. outgoing \in Seq(OpenClawGateway!Requests) /\ QueuedOnce
  BY DEF GatewayTyped, OpenClawGateway!TypeOK, FramesAreSingle
<1>04. /\ QueuedOnce' /\ Queued' = Queued \union {call[u].req}
       /\ outgoing' \in Seq(OpenClawGateway!Requests)
       /\ Len(outgoing') = Len(outgoing) + 1
  BY <1>0, <1>01, <1>02, <1>03, FrameJoins DEF InFlight
<1>05. Len(outgoing') <= Slots
  BY <1>0, <1>03, <1>04, ConstantsOfWork
<1>1. GatewayTyped'
  BY <1>0, <1>00, <1>01, <1>02, <1>03, <1>04, <1>05
     DEF GatewayTyped, OpenClawGateway!TypeOK
<1>2. IdsSuffice'
  BY <1>0, <1>00, NobodyAsks
<1>3. CallsOwnRequests'
  BY <1>0, <1>00, <1>01
     DEF CallsOwnRequests, IsDrawn, OpenClawGateway!Idle,
         OpenClawGateway!Operation
<1>06. /\ \A v \in Users : call'[v].at = "queueing" => v # u /\ call[v].at = "queueing" /\ call'[v] = call[v]
       /\ \A v \in Users : v # u => call[v].req # call[u].req
  BY <1>00, <1>01
<1>4. FramesAreSingle'
  <2>1. InFlight' = InFlight \union {call[u].req}
    BY <1>0, <1>04 DEF InFlight
  <2>2. /\ Queued' \intersect (arrived' \union answers' \union refusals') = {}
        /\ arrived' \intersect (answers' \union refusals') = {}
        /\ answers' \intersect refusals' = {}
    BY <1>0, <1>02, <1>04 DEF FramesAreSingle, InFlight
  <2>3. \A r \in InFlight' : IsDrawn(r)'
    BY <1>0, <1>01, <2>1 DEF FramesAreSingle, IsDrawn
  <2>4. \A v \in Users : call'[v].at = "queueing" => call'[v].req \notin InFlight'
    BY <1>06, <2>1 DEF FramesAreSingle
  <2>5. \A r \in OpenClawGateway!Requests :
          reply'[r] \in {"payload", "empty"} =>
            /\ r \notin InFlight'
            /\ \A v \in Users : call'[v].at = "queueing" => call'[v].req # r
    BY <1>0, <1>06, <2>1 DEF FramesAreSingle
  <2>. QED
    BY <1>04, <2>2, <2>3, <2>4, <2>5 DEF FramesAreSingle
<1>5. MapIsTrue'
  BY <1>0, <1>00, <1>01
     DEF MapIsTrue, IsDrawn, OpenClawGateway!WaitersAreKnown,
         OpenClawGateway!PendingIsAwaited
<1>6. FaultsAreNoted'
  BY <1>0
     DEF FaultsAreNoted
<1>7. IdsAreAnswered'
  BY <1>0, <1>00, <1>01, <1>02, <1>03, <1>04, <1>05
     DEF IdsAreAnswered, IsDrawn
<1>8. CleanIsKnown'
  BY <1>0, <1>00, <1>01, <1>02, <1>03, <1>04, <1>05
     DEF CleanIsKnown, InFlight
<1>. HIDE DEF GatewayInv
<1>. QED
  BY <1>1, <1>2, <1>3, <1>4, <1>5, <1>6, <1>7, <1>8 DEF GatewayInv

\* Answered: GatewayInv is kept.
LEMMA GatewayAnsweredKeeps ==
  ASSUME GatewayInv, NEW u \in Users, OpenClawGateway!Answered(u)
  PROVE  GatewayInv'
<1>. USE DEF GatewayInv
<1>0. /\ call[u].at = "waiting" /\ reply[call[u].req] # "none"
      /\ OpenClawGateway!Goto(u,
           IF call[u].op = "activate" /\ reply[call[u].req] = "payload"
           THEN "storing" ELSE "ending")
      /\ UNCHANGED <<link, connected, outgoing, breaks, arrived, answers,
                     refusals, remote, agentRow, gatewayIds,
                     active, pending, reply, request, blemished>>
  BY DEF OpenClawGateway!Answered, OpenClawGateway!linkVars, OpenClawGateway!wireVars,
         OpenClawGateway!rowVars
<1>00. /\ call' \in [Users -> Operations] /\ Asking' \subseteq Asking
       /\ \A v \in Users : v # u => call'[v] = call[v]
       /\ call'[u].op = call[u].op /\ call'[u].agent = call[u].agent
       /\ call'[u].target = call[u].target /\ call'[u].req = call[u].req
       /\ call'[u].at = IF call[u].op = "activate" /\ reply[call[u].req] = "payload"
                          THEN "storing" ELSE "ending"
  BY <1>0, GoesOn
<1>01. /\ call[u].op \in {"activate", "stop"} /\ call[u].agent \in Agents
       /\ IsDrawn(call[u].req) /\ call[u].req # 0
       /\ call[u].req \in OpenClawGateway!Requests
       /\ request[call[u].req].op = call[u].op
       /\ request[call[u].req].agent = call[u].agent
       /\ request[call[u].req].target = call[u].target
       /\ \A v \in Users : v # u => call[v].req # call[u].req
  BY <1>0 DEF CallsOwnRequests, OpenClawGateway!Idle, OpenClawGateway!Operation,
              IsDrawn
<1>1. GatewayTyped'
  BY <1>0, <1>00, <1>01
     DEF GatewayTyped, OpenClawGateway!TypeOK
<1>2. IdsSuffice'
  BY <1>0, <1>00, NobodyAsks
<1>3. CallsOwnRequests'
  <2>1. ASSUME NEW v \in Users
        PROVE  \/ call'[v] = OpenClawGateway!Idle
               \/ /\ call'[v].op \in {"activate", "stop"} /\ call'[v].agent \in Agents
                  /\ call'[v].at # "idle"
                  /\ call'[v].at = "asking" => call'[v].req = 0
                  /\ call'[v].at \in {"queueing", "waiting", "storing"} =>
                       call'[v].req # 0
                  /\ call'[v].req # 0 =>
                       /\ IsDrawn(call[v].req)
                       /\ request[call[v].req].op = call[v].op
                       /\ request[call[v].req].agent = call[v].agent
                       /\ request[call[v].req].target = call[v].target
                  /\ call'[v].at = "storing" =>
                       call[v].op = "activate" /\ reply[call[v].req] = "payload"
    <3>1. CASE v = u
      BY <1>0, <1>00, <1>01, <3>1
    <3>2. CASE v # u
      BY <1>00, <3>2 DEF CallsOwnRequests
    <3>. QED
      BY <3>1, <3>2
  <2>2. \A v \in Users : call'[v].op = call[v].op /\ call'[v].agent = call[v].agent
          /\ call'[v].target = call[v].target /\ call'[v].req = call[v].req
    BY <1>00
  <2>. QED
    BY <1>0, <2>1, <2>2 DEF CallsOwnRequests, IsDrawn
<1>4. FramesAreSingle'
  BY <1>0, <1>00, <1>01
     DEF FramesAreSingle, InFlight, IsDrawn, QueuedOnce, Queued
<1>5. MapIsTrue'
  BY <1>0, <1>00, <1>01
     DEF MapIsTrue, IsDrawn, OpenClawGateway!WaitersAreKnown,
         OpenClawGateway!PendingIsAwaited
<1>6. FaultsAreNoted'
  BY <1>0
     DEF FaultsAreNoted
<1>7. IdsAreAnswered'
  BY <1>0, <1>00, <1>01
     DEF IdsAreAnswered, IsDrawn
<1>8. CleanIsKnown'
  <2>. SUFFICES ASSUME NEW a \in Agents \ blemished'
       PROVE
         /\ \A v, w \in Users : call'[v].agent = a /\ call'[w].agent = a => v = w
         /\ \A r \in InFlight' : request'[r].agent = a =>
              \E v \in Users : call'[v].req = r /\ call'[v].at = "waiting"
         /\ \A r \in remote' : request'[r].agent = a =>
              \/ gatewayIds'[a] = r
              \/ \E v \in Users :
                   call'[v].req = r /\ call'[v].at \in {"waiting", "storing"}
              \/ \E v \in Users :
                   /\ call'[v].op = "stop" /\ call'[v].agent = a
                   /\ call'[v].target = r
                   /\ call'[v].at \in {"asking", "queueing", "waiting"}
         /\ \A v \in Users :
              (/\ call'[v].agent = a /\ call'[v].op = "activate"
               /\ call'[v].at \in {"asking", "queueing", "waiting", "storing"})
                => gatewayIds'[a] = 0
    BY DEF CleanIsKnown
  <2>1. a \in Agents \ blemished /\ InFlight' = InFlight
        /\ \A v \in Users : call'[v].op = call[v].op /\ call'[v].agent = call[v].agent
             /\ call'[v].target = call[v].target /\ call'[v].req = call[v].req
    BY <1>0, <1>00 DEF InFlight, Queued
  <2>2. call[u].agent = a => reply[call[u].req] = "payload"
    BY <1>0, <1>01, <2>1 DEF FaultsAreNoted, GatewayTyped, OpenClawGateway!TypeOK
  <2>3. \A v, w \in Users : call'[v].agent = a /\ call'[w].agent = a => v = w
    BY <2>1 DEF CleanIsKnown
  <2>4. ASSUME NEW r \in InFlight', request'[r].agent = a
        PROVE  \E v \in Users : call'[v].req = r /\ call'[v].at = "waiting"
    <3>1. PICK v \in Users : call[v].req = r /\ call[v].at = "waiting"
      BY <1>0, <2>1, <2>4 DEF CleanIsKnown
    <3>2. v # u
      BY <1>0, <1>01, <2>1, <2>2, <2>4, <3>1 DEF FramesAreSingle
    <3>. QED
      BY <1>00, <3>1, <3>2
  <2>5. ASSUME NEW r \in remote', request'[r].agent = a, gatewayIds'[a] # r
        PROVE  \/ \E v \in Users :
                    call'[v].req = r /\ call'[v].at \in {"waiting", "storing"}
               \/ \E v \in Users :
                    /\ call'[v].op = "stop" /\ call'[v].agent = a
                    /\ call'[v].target = r
                    /\ call'[v].at \in {"asking", "queueing", "waiting"}
    <3>1. request[r].op = "activate" /\ r \in remote
      BY <1>0, <2>5 DEF IdsAreAnswered
    <3>2. \/ \E v \in Users : call[v].req = r /\ call[v].at \in {"waiting", "storing"}
          \/ \E v \in Users :
               /\ call[v].op = "stop" /\ call[v].agent = a
               /\ call[v].target = r
               /\ call[v].at \in {"asking", "queueing", "waiting"}
      BY <1>0, <2>1, <2>5 DEF CleanIsKnown
    <3>3. call[u].req = r => call'[u].at = "storing"
      BY <1>0, <1>00, <1>01, <2>2, <2>5, <3>1
    <3>4. ~(call[u].op = "stop" /\ call[u].agent = a /\ call[u].target = r)
      BY <1>01, <2>2, <3>1 DEF IdsAreAnswered
    <3>. QED
      BY <1>00, <2>1, <3>2, <3>3, <3>4
  <2>6. ASSUME NEW v \in Users, call'[v].agent = a, call'[v].op = "activate",
               call'[v].at \in {"asking", "queueing", "waiting", "storing"}
        PROVE  gatewayIds'[a] = 0
    BY <1>0, <1>00, <2>1, <2>6 DEF CleanIsKnown
  <2>. QED
    BY <2>3, <2>4, <2>5, <2>6
<1>. HIDE DEF GatewayInv
<1>. QED
  BY <1>1, <1>2, <1>3, <1>4, <1>5, <1>6, <1>7, <1>8 DEF GatewayInv

\* Store: GatewayInv is kept.
LEMMA GatewayStoreKeeps ==
  ASSUME GatewayInv, NEW u \in Users, OpenClawGateway!Store(u)
  PROVE  GatewayInv'
<1>. USE DEF GatewayInv
<1>0. /\ call[u].at = "storing"
      /\ gatewayIds' = [gatewayIds EXCEPT ![call[u].agent] = call[u].req]
      /\ OpenClawGateway!Goto(u, "ending")
      /\ UNCHANGED <<link, connected, outgoing, breaks, arrived, answers,
                     refusals, remote, agentRow, active, pending,
                     reply, request, blemished>>
  BY DEF OpenClawGateway!Store, OpenClawGateway!linkVars, OpenClawGateway!wireVars,
         OpenClawGateway!rowVars
<1>00. /\ call' \in [Users -> Operations] /\ Asking' \subseteq Asking
       /\ \A v \in Users : v # u => call'[v] = call[v]
       /\ call'[u].op = call[u].op /\ call'[u].agent = call[u].agent
       /\ call'[u].target = call[u].target /\ call'[u].req = call[u].req
       /\ call'[u].at = "ending"
  BY <1>0, GoesOn
<1>01. /\ call[u].op \in {"activate", "stop"} /\ call[u].agent \in Agents
       /\ IsDrawn(call[u].req) /\ call[u].req # 0
       /\ call[u].req \in OpenClawGateway!Requests
       /\ request[call[u].req].op = call[u].op
       /\ request[call[u].req].agent = call[u].agent
       /\ request[call[u].req].target = call[u].target
       /\ \A v \in Users : v # u => call[v].req # call[u].req
  BY <1>0 DEF CallsOwnRequests, OpenClawGateway!Idle, OpenClawGateway!Operation,
              IsDrawn
<1>02. call[u].op = "activate" /\ reply[call[u].req] = "payload"
  BY <1>0 DEF CallsOwnRequests, OpenClawGateway!Idle, OpenClawGateway!Operation
<1>03. /\ gatewayIds' \in [Agents -> OpenClawGateway!Requests \union {0}]
       /\ gatewayIds'[call[u].agent] = call[u].req
       /\ \A a \in Agents : a # call[u].agent => gatewayIds'[a] = gatewayIds[a]
  BY <1>0, <1>01 DEF GatewayTyped, OpenClawGateway!TypeOK,
                     OpenClawGateway!NoRequest
<1>1. GatewayTyped'
  BY <1>0, <1>00, <1>01, <1>02, <1>03
     DEF GatewayTyped, OpenClawGateway!TypeOK, OpenClawGateway!NoRequest
<1>2. IdsSuffice'
  BY <1>0, <1>00, NobodyAsks
<1>3. CallsOwnRequests'
  BY <1>0, <1>00, <1>01
     DEF CallsOwnRequests, IsDrawn, OpenClawGateway!Idle,
         OpenClawGateway!Operation
<1>4. FramesAreSingle'
  BY <1>0, <1>00, <1>01, <1>02, <1>03
     DEF FramesAreSingle, InFlight, IsDrawn, QueuedOnce, Queued
<1>5. MapIsTrue'
  BY <1>0, <1>00, <1>01
     DEF MapIsTrue, IsDrawn, OpenClawGateway!WaitersAreKnown,
         OpenClawGateway!PendingIsAwaited
<1>6. FaultsAreNoted'
  BY <1>0
     DEF FaultsAreNoted
<1>7. IdsAreAnswered'
  BY <1>0, <1>00, <1>01, <1>02, <1>03
     DEF IdsAreAnswered, IsDrawn
<1>8. CleanIsKnown'
  <2>. SUFFICES ASSUME NEW a \in Agents \ blemished'
       PROVE
         /\ \A v, w \in Users : call'[v].agent = a /\ call'[w].agent = a => v = w
         /\ \A r \in InFlight' : request'[r].agent = a =>
              \E v \in Users : call'[v].req = r /\ call'[v].at = "waiting"
         /\ \A r \in remote' : request'[r].agent = a =>
              \/ gatewayIds'[a] = r
              \/ \E v \in Users :
                   call'[v].req = r /\ call'[v].at \in {"waiting", "storing"}
              \/ \E v \in Users :
                   /\ call'[v].op = "stop" /\ call'[v].agent = a
                   /\ call'[v].target = r
                   /\ call'[v].at \in {"asking", "queueing", "waiting"}
         /\ \A v \in Users :
              (/\ call'[v].agent = a /\ call'[v].op = "activate"
               /\ call'[v].at \in {"asking", "queueing", "waiting", "storing"})
                => gatewayIds'[a] = 0
    BY DEF CleanIsKnown
  <2>1. a \in Agents \ blemished /\ InFlight' = InFlight
        /\ \A v \in Users : call'[v].op = call[v].op /\ call'[v].agent = call[v].agent
             /\ call'[v].target = call[v].target /\ call'[v].req = call[v].req
    BY <1>0, <1>00 DEF InFlight, Queued
  <2>2. \A v, w \in Users : call'[v].agent = a /\ call'[w].agent = a => v = w
    BY <2>1 DEF CleanIsKnown
  <2>3. ASSUME NEW r \in InFlight', request'[r].agent = a
        PROVE  \E v \in Users : call'[v].req = r /\ call'[v].at = "waiting"
    <3>1. PICK v \in Users : call[v].req = r /\ call[v].at = "waiting"
      BY <1>0, <2>1, <2>3 DEF CleanIsKnown
    <3>. QED
      BY <1>0, <1>00, <3>1
  <2>4. ASSUME NEW r \in remote', request'[r].agent = a, gatewayIds'[a] # r
        PROVE  \/ \E v \in Users :
                    call'[v].req = r /\ call'[v].at \in {"waiting", "storing"}
               \/ \E v \in Users :
                    /\ call'[v].op = "stop" /\ call'[v].agent = a
                    /\ call'[v].target = r
                    /\ call'[v].at \in {"asking", "queueing", "waiting"}
    <3>1. gatewayIds[a] # r
      <4>1. CASE call[u].agent = a
        <5>1. gatewayIds[a] = 0
          BY <1>0, <1>02, <2>1, <4>1 DEF CleanIsKnown
        <5>2. r # 0
          BY <1>0, <2>4 DEF IdsAreAnswered, IsDrawn, OpenClawGateway!Requests
        <5>. QED
          BY <5>1, <5>2
      <4>2. CASE call[u].agent # a
        BY <1>03, <2>4, <4>2
      <4>. QED
        BY <4>1, <4>2
    <3>2. call[u].req # r
      BY <1>0, <1>01, <1>03, <2>4
    <3>3. \/ \E v \in Users : call[v].req = r /\ call[v].at \in {"waiting", "storing"}
          \/ \E v \in Users :
               /\ call[v].op = "stop" /\ call[v].agent = a
               /\ call[v].target = r
               /\ call[v].at \in {"asking", "queueing", "waiting"}
      BY <1>0, <2>1, <2>4, <3>1 DEF CleanIsKnown
    <3>. QED
      BY <1>00, <1>02, <2>1, <3>2, <3>3
  <2>5. ASSUME NEW v \in Users, call'[v].agent = a, call'[v].op = "activate",
               call'[v].at \in {"asking", "queueing", "waiting", "storing"}
        PROVE  gatewayIds'[a] = 0
    <3>1. v # u
      BY <1>00, <2>5
    <3>2. call[u].agent # a
      BY <2>1, <2>2, <2>5, <3>1
    <3>. QED
      BY <1>00, <1>03, <2>1, <2>5, <3>1, <3>2 DEF CleanIsKnown
  <2>. QED
    BY <2>2, <2>3, <2>4, <2>5
<1>. HIDE DEF GatewayInv
<1>. QED
  BY <1>1, <1>2, <1>3, <1>4, <1>5, <1>6, <1>7, <1>8 DEF GatewayInv

\* Timeout: GatewayInv is kept.
LEMMA GatewayTimeoutKeeps ==
  ASSUME GatewayInv, NEW u \in Users, OpenClawGateway!Timeout(u)
  PROVE  GatewayInv'
<1>. USE DEF GatewayInv
<1>0. /\ call[u].at = "waiting" /\ reply[call[u].req] = "none"
      /\ pending' = pending \ {call[u].req}
      /\ OpenClawGateway!Goto(u, "ending")
      /\ blemished' = blemished \union {call[u].agent}
      /\ UNCHANGED <<link, connected, outgoing, breaks, arrived, answers,
                     refusals, remote, agentRow, gatewayIds,
                     active, reply, request>>
  BY DEF OpenClawGateway!Timeout, OpenClawGateway!linkVars, OpenClawGateway!wireVars,
         OpenClawGateway!rowVars
<1>00. /\ call' \in [Users -> Operations] /\ Asking' \subseteq Asking
       /\ \A v \in Users : v # u => call'[v] = call[v]
       /\ call'[u].op = call[u].op /\ call'[u].agent = call[u].agent
       /\ call'[u].target = call[u].target /\ call'[u].req = call[u].req
       /\ call'[u].at = "ending"
  BY <1>0, GoesOn
<1>01. /\ call[u].op \in {"activate", "stop"} /\ call[u].agent \in Agents
       /\ IsDrawn(call[u].req) /\ call[u].req # 0
       /\ call[u].req \in OpenClawGateway!Requests
       /\ request[call[u].req].op = call[u].op
       /\ request[call[u].req].agent = call[u].agent
       /\ request[call[u].req].target = call[u].target
       /\ \A v \in Users : v # u => call[v].req # call[u].req
  BY <1>0 DEF CallsOwnRequests, OpenClawGateway!Idle, OpenClawGateway!Operation,
              IsDrawn
<1>1. GatewayTyped'
  BY <1>0, <1>00, <1>01
     DEF GatewayTyped, OpenClawGateway!TypeOK
<1>2. IdsSuffice'
  BY <1>0, <1>00, NobodyAsks
<1>3. CallsOwnRequests'
  BY <1>0, <1>00, <1>01
     DEF CallsOwnRequests, IsDrawn, OpenClawGateway!Idle,
         OpenClawGateway!Operation
<1>4. FramesAreSingle'
  BY <1>0, <1>00, <1>01
     DEF FramesAreSingle, InFlight, IsDrawn, QueuedOnce, Queued
<1>5. MapIsTrue'
  BY <1>0, <1>00, <1>01
     DEF MapIsTrue, IsDrawn, OpenClawGateway!WaitersAreKnown,
         OpenClawGateway!PendingIsAwaited
<1>6. FaultsAreNoted'
  BY <1>0
     DEF FaultsAreNoted
<1>7. IdsAreAnswered'
  BY <1>0, <1>00, <1>01
     DEF IdsAreAnswered, IsDrawn
<1>8. CleanIsKnown'
  <2>. SUFFICES ASSUME NEW a \in Agents \ blemished'
       PROVE
         /\ \A v, w \in Users : call'[v].agent = a /\ call'[w].agent = a => v = w
         /\ \A r \in InFlight' : request'[r].agent = a =>
              \E v \in Users : call'[v].req = r /\ call'[v].at = "waiting"
         /\ \A r \in remote' : request'[r].agent = a =>
              \/ gatewayIds'[a] = r
              \/ \E v \in Users :
                   call'[v].req = r /\ call'[v].at \in {"waiting", "storing"}
              \/ \E v \in Users :
                   /\ call'[v].op = "stop" /\ call'[v].agent = a
                   /\ call'[v].target = r
                   /\ call'[v].at \in {"asking", "queueing", "waiting"}
         /\ \A v \in Users :
              (/\ call'[v].agent = a /\ call'[v].op = "activate"
               /\ call'[v].at \in {"asking", "queueing", "waiting", "storing"})
                => gatewayIds'[a] = 0
    BY DEF CleanIsKnown
  <2>1. /\ a \in Agents \ blemished /\ a # call[u].agent /\ InFlight' = InFlight
        /\ \A v \in Users : call'[v].op = call[v].op /\ call'[v].agent = call[v].agent
             /\ call'[v].target = call[v].target /\ call'[v].req = call[v].req
    BY <1>0, <1>00 DEF InFlight, Queued
  <2>2. \A r : request[r].agent = a => call[u].req # r
    BY <1>01, <2>1
  <2>3. \A v \in Users : v # u => call'[v].at = call[v].at
    BY <1>00
  <2>4. \A v, w \in Users : call'[v].agent = a /\ call'[w].agent = a => v = w
    BY <2>1 DEF CleanIsKnown
  <2>5. ASSUME NEW r \in InFlight', request'[r].agent = a
        PROVE  \E v \in Users : call'[v].req = r /\ call'[v].at = "waiting"
    BY <1>0, <2>1, <2>2, <2>3, <2>5 DEF CleanIsKnown
  <2>6. ASSUME NEW r \in remote', request'[r].agent = a
        PROVE  \/ gatewayIds'[a] = r
               \/ \E v \in Users :
                    call'[v].req = r /\ call'[v].at \in {"waiting", "storing"}
               \/ \E v \in Users :
                    /\ call'[v].op = "stop" /\ call'[v].agent = a
                    /\ call'[v].target = r
                    /\ call'[v].at \in {"asking", "queueing", "waiting"}
    <3>1. \/ gatewayIds[a] = r
          \/ \E v \in Users : call[v].req = r /\ call[v].at \in {"waiting", "storing"}
          \/ \E v \in Users :
               /\ call[v].op = "stop" /\ call[v].agent = a
               /\ call[v].target = r
               /\ call[v].at \in {"asking", "queueing", "waiting"}
      BY <1>0, <2>1, <2>6 DEF CleanIsKnown
    <3>. QED
      BY <1>0, <2>1, <2>2, <2>3, <2>6, <3>1
  <2>7. ASSUME NEW v \in Users, call'[v].agent = a, call'[v].op = "activate",
               call'[v].at \in {"asking", "queueing", "waiting", "storing"}
        PROVE  gatewayIds'[a] = 0
    BY <1>0, <1>00, <2>1, <2>3, <2>7 DEF CleanIsKnown
  <2>. QED
    BY <2>4, <2>5, <2>6, <2>7
<1>. HIDE DEF GatewayInv
<1>. QED
  BY <1>1, <1>2, <1>3, <1>4, <1>5, <1>6, <1>7, <1>8 DEF GatewayInv

\* End: GatewayInv is kept.
LEMMA GatewayEndKeeps ==
  ASSUME GatewayInv, NEW u \in Users, OpenClawGateway!End(u)
  PROVE  GatewayInv'
<1>. USE DEF GatewayInv
<1>0. /\ call[u].at = "ending" /\ call' = [call EXCEPT ![u] = OpenClawGateway!Idle]
      /\ active' \in {active \union {call[u].agent}, active \ {call[u].agent}}
      /\ call[u].op = "activate" => agentRow' = agentRow
      /\ call[u].op # "activate" =>
           agentRow' = [agentRow EXCEPT ![call[u].agent] = "stopped"]
      /\ UNCHANGED <<link, connected, outgoing, breaks, arrived, answers, refusals,
                     remote, gatewayIds, pending, reply, request, blemished>>
  BY DEF OpenClawGateway!End, OpenClawGateway!linkVars, OpenClawGateway!wireVars
<1>00. /\ OpenClawGateway!Idle \in Operations
       /\ OpenClawGateway!Idle.op = "idle" /\ OpenClawGateway!Idle.req = 0
       /\ OpenClawGateway!Idle.at = "idle" /\ OpenClawGateway!Idle.target = 0
       /\ OpenClawGateway!Idle.agent = NoAgent
  BY DEF Operations, OpenClawGateway!Idle, OpenClawGateway!Operation,
         OpenClawGateway!NoRequest
<1>01. /\ call' \in [Users -> Operations] /\ call'[u] = OpenClawGateway!Idle
       /\ \A v \in Users : v # u => call'[v] = call[v]
       /\ call[u].agent \in Agents
  BY <1>0, <1>00 DEF GatewayTyped, CallsOwnRequests
<1>02. Asking' \subseteq Asking
  BY <1>00, <1>01 DEF Asking
<1>1. GatewayTyped'
  BY <1>0, <1>00, <1>01
     DEF GatewayTyped, OpenClawGateway!TypeOK
<1>2. IdsSuffice'
  BY <1>0, <1>02, NobodyAsks
<1>3. CallsOwnRequests'
  BY <1>0, <1>00, <1>01
     DEF CallsOwnRequests, IsDrawn
<1>4. FramesAreSingle'
  BY <1>0, <1>00, <1>01
     DEF FramesAreSingle, QueuedOnce, InFlight, Queued, IsDrawn
<1>5. MapIsTrue'
  BY <1>0, <1>00, <1>01
     DEF MapIsTrue, IsDrawn, OpenClawGateway!WaitersAreKnown,
         OpenClawGateway!PendingIsAwaited
<1>6. FaultsAreNoted'
  BY <1>0, <1>00, <1>01
     DEF FaultsAreNoted
<1>7. IdsAreAnswered'
  BY <1>0, <1>00, <1>01
     DEF IdsAreAnswered, IsDrawn
<1>8. CleanIsKnown'
  BY <1>0, <1>00, <1>01, ConstantsOfWork
     DEF CleanIsKnown, InFlight, Queued
<1>. HIDE DEF GatewayInv
<1>. QED
  BY <1>1, <1>2, <1>3, <1>4, <1>5, <1>6, <1>7, <1>8 DEF GatewayInv

\* ActivateBegins: GatewayInv is kept.
LEMMA GatewayActivateBeginsKeeps ==
  ASSUME GatewayInv, NEW u \in Users, NEW a \in Agents,
         OpenClawGateway!ActivateBegins(u, a)
  PROVE  GatewayInv'
<1>. USE DEF GatewayInv
<1>. DEFINE operation == OpenClawGateway!Operation("activate", a, 0, "asking")
<1>0. /\ OpenClawGateway!Begin(u, operation)
      /\ agentRow' = [agentRow EXCEPT ![a] = "active"]
      /\ UNCHANGED <<link, connected, outgoing, breaks, arrived, answers,
                     refusals, remote, gatewayIds, active,
                     pending, reply, request>>
  BY DEF OpenClawGateway!ActivateBegins, OpenClawGateway!linkVars, OpenClawGateway!wireVars,
         OpenClawGateway!rowVars,
         OpenClawGateway!NoRequest
<1>00. /\ operation \in Operations /\ operation.req = 0 /\ operation.agent = a
       /\ operation.op = "activate" /\ operation.target = 0
       /\ operation.at = "asking"
  BY DEF OpenClawGateway!Operation, OpenClawGateway!NoRequest, Operations,
         GatewayTyped, OpenClawGateway!TypeOK
<1>. HIDE DEF operation
<1>01. /\ call[u] = OpenClawGateway!Idle /\ call'[u] = operation
       /\ \A v \in Users : v # u => call'[v] = call[v]
       /\ call' \in [Users -> Operations]
       /\ blemished \subseteq blemished'
       /\ a \notin blemished' =>
            /\ \A v \in Users : call[v].agent # a
            /\ operation.op = "activate" => gatewayIds[a] = 0
       /\ IdsSuffice'
  BY <1>0, <1>00, CallBegins
<1>02. /\ call[u].op = "idle" /\ call[u].req = 0 /\ call[u].at = "idle"
       /\ call[u].target = 0 /\ call[u].agent = NoAgent
  BY <1>01 DEF OpenClawGateway!Idle, OpenClawGateway!Operation,
               OpenClawGateway!NoRequest
<1>1. GatewayTyped'
  BY <1>0, <1>01
     DEF GatewayTyped, OpenClawGateway!TypeOK, OpenClawGateway!NoRequest
<1>2. IdsSuffice'
  BY <1>01
<1>3. CallsOwnRequests'
  BY <1>0, <1>00, <1>01, <1>02
     DEF CallsOwnRequests, IsDrawn
<1>4. FramesAreSingle'
  BY <1>0, <1>00, <1>01, <1>02
     DEF FramesAreSingle, InFlight, IsDrawn, QueuedOnce, Queued
<1>5. MapIsTrue'
  BY <1>0, <1>00, <1>01, <1>02
     DEF MapIsTrue, IsDrawn, OpenClawGateway!WaitersAreKnown,
         OpenClawGateway!PendingIsAwaited
<1>6. FaultsAreNoted'
  BY <1>0, <1>01
     DEF FaultsAreNoted
<1>7. IdsAreAnswered'
  BY <1>0, <1>00, <1>01, <1>02
     DEF IdsAreAnswered, IsDrawn, GatewayTyped, OpenClawGateway!TypeOK
<1>8. CleanIsKnown'
  BY <1>0, <1>00, <1>01, <1>02
     DEF CleanIsKnown, InFlight, Queued, CallsOwnRequests
<1>. HIDE DEF GatewayInv
<1>. QED
  BY <1>1, <1>2, <1>3, <1>4, <1>5, <1>6, <1>7, <1>8 DEF GatewayInv

\* StopBegins: GatewayInv is kept.
LEMMA GatewayStopBeginsKeeps ==
  ASSUME GatewayInv, NEW u \in Users, NEW a \in Agents,
         OpenClawGateway!StopBegins(u, a)
  PROVE  GatewayInv'
<1>. USE DEF GatewayInv
<1>. DEFINE operation == OpenClawGateway!Operation("stop", a, gatewayIds[a], (IF gatewayIds[a] = 0 THEN "ending" ELSE "asking"))
<1>0. /\ OpenClawGateway!Begin(u, operation)
      /\ gatewayIds' = [gatewayIds EXCEPT ![a] = 0]
      /\ UNCHANGED <<link, connected, outgoing, breaks, arrived, answers,
                     refusals, remote, agentRow, active, pending,
                     reply, request>>
  BY DEF OpenClawGateway!StopBegins, OpenClawGateway!linkVars, OpenClawGateway!wireVars,
         OpenClawGateway!rowVars,
         OpenClawGateway!NoRequest
<1>00. /\ operation \in Operations /\ operation.req = 0 /\ operation.agent = a
       /\ operation.op = "stop" /\ operation.target = gatewayIds[a]
       /\ operation.at = (IF gatewayIds[a] = 0 THEN "ending" ELSE "asking")
  BY DEF OpenClawGateway!Operation, OpenClawGateway!NoRequest, Operations,
         GatewayTyped, OpenClawGateway!TypeOK
<1>. HIDE DEF operation
<1>01. /\ call[u] = OpenClawGateway!Idle /\ call'[u] = operation
       /\ \A v \in Users : v # u => call'[v] = call[v]
       /\ call' \in [Users -> Operations]
       /\ blemished \subseteq blemished'
       /\ a \notin blemished' =>
            /\ \A v \in Users : call[v].agent # a
            /\ operation.op = "activate" => gatewayIds[a] = 0
       /\ IdsSuffice'
  BY <1>0, <1>00, CallBegins
<1>02. /\ call[u].op = "idle" /\ call[u].req = 0 /\ call[u].at = "idle"
       /\ call[u].target = 0 /\ call[u].agent = NoAgent
  BY <1>01 DEF OpenClawGateway!Idle, OpenClawGateway!Operation,
               OpenClawGateway!NoRequest
<1>1. GatewayTyped'
  BY <1>0, <1>01
     DEF GatewayTyped, OpenClawGateway!TypeOK, OpenClawGateway!NoRequest
<1>2. IdsSuffice'
  BY <1>01
<1>3. CallsOwnRequests'
  BY <1>0, <1>00, <1>01, <1>02
     DEF CallsOwnRequests, IsDrawn
<1>4. FramesAreSingle'
  BY <1>0, <1>00, <1>01, <1>02
     DEF FramesAreSingle, InFlight, IsDrawn, QueuedOnce, Queued
<1>5. MapIsTrue'
  BY <1>0, <1>00, <1>01, <1>02
     DEF MapIsTrue, IsDrawn, OpenClawGateway!WaitersAreKnown,
         OpenClawGateway!PendingIsAwaited
<1>6. FaultsAreNoted'
  BY <1>0, <1>01
     DEF FaultsAreNoted
<1>7. IdsAreAnswered'
  BY <1>0, <1>00, <1>01, <1>02
     DEF IdsAreAnswered, IsDrawn, GatewayTyped, OpenClawGateway!TypeOK
<1>8. CleanIsKnown'
  BY <1>0, <1>00, <1>01, <1>02
     DEF CleanIsKnown, InFlight, Queued, CallsOwnRequests
<1>. HIDE DEF GatewayInv
<1>. QED
  BY <1>1, <1>2, <1>3, <1>4, <1>5, <1>6, <1>7, <1>8 DEF GatewayInv


\* A step of this part, or of another, keeps GatewayInv.
LEMMA GatewayStep ==
  ASSUME GatewayInv, [OpenClawGateway!Next]_gatewayVars
  PROVE  GatewayInv'
<1>1. CASE UNCHANGED gatewayVars
  <2>. USE <1>1 DEF gatewayVars, GatewayInv
  <2>1. GatewayTyped'
    BY DEF GatewayTyped, OpenClawGateway!TypeOK, Operations
  <2>2. IdsSuffice'
    BY DEF IdsSuffice, Asking, IsDrawn
  <2>3. CallsOwnRequests' /\ FramesAreSingle'
    BY DEF CallsOwnRequests, IsDrawn, FramesAreSingle, QueuedOnce, InFlight, Queued
  <2>4. MapIsTrue' /\ FaultsAreNoted' /\ IdsAreAnswered'
    BY DEF MapIsTrue, FaultsAreNoted, IdsAreAnswered, IsDrawn,
           OpenClawGateway!WaitersAreKnown, OpenClawGateway!PendingIsAwaited
  <2>5. CleanIsKnown'
    BY DEF CleanIsKnown, InFlight, Queued
  <2>. QED
    BY <2>1, <2>2, <2>3, <2>4, <2>5
<1>2. CASE OpenClawGateway!Link \/ OpenClawGateway!Break
  BY <1>2, GatewayConnectKeeps, GatewayTransmitKeeps, GatewayClearFlagsKeeps,
     GatewayClearPendingKeeps, GatewayReceiveKeeps, GatewayBreakKeeps
     DEF OpenClawGateway!Link
<1>3. ASSUME NEW r \in OpenClawGateway!Requests,
             OpenClawGateway!GatewayServes(r) \/ OpenClawGateway!GatewayRefuses(r)
      PROVE  GatewayInv'
  BY <1>3, GatewayServesKeeps, GatewayRefusesKeeps
<1>4. ASSUME NEW u \in Users, OpenClawGateway!Proceed(u) \/ OpenClawGateway!Timeout(u)
      PROVE  GatewayInv'
  BY <1>4, GatewayNotConnectedKeeps, GatewayAskKeeps, GatewayEnqueueKeeps,
     GatewayAnsweredKeeps, GatewayStoreKeeps, GatewayEndKeeps, GatewayTimeoutKeeps
     DEF OpenClawGateway!Proceed
<1>5. ASSUME NEW u \in Users, NEW a \in Agents,
             \/ OpenClawGateway!ActivateBegins(u, a)
             \/ OpenClawGateway!StopBegins(u, a)
      PROVE  GatewayInv'
  BY <1>5, GatewayActivateBeginsKeeps, GatewayStopBeginsKeeps
<1>. QED
  BY <1>1, <1>2, <1>3, <1>4, <1>5 DEF OpenClawGateway!Next

\* GatewayInv holds in every reachable state.
LEMMA GatewayHolds == Spec => []GatewayInv
<1>1. Init => GatewayInv
  <2>. SUFFICES ASSUME Init PROVE GatewayInv
    OBVIOUS
  <2>1. /\ outgoing = <<>> /\ pending = {} /\ arrived = {} /\ answers = {}
        /\ refusals = {} /\ remote = {} /\ blemished = {} /\ active = {}
        /\ link = "down" /\ connected = FALSE
        /\ reply = [r \in OpenClawGateway!Requests |-> "none"]
        /\ call = [u \in Users |-> OpenClawGateway!Idle]
        /\ request = [r \in OpenClawGateway!Requests |-> OpenClawGateway!Idle]
        /\ agentRow = [a \in Agents |-> "registered"]
        /\ gatewayIds = [a \in Agents |-> 0]
    BY DEF Init, OpenClawGateway!Init, OpenClawGateway!NoRequest
  <2>2. OpenClawGateway!Idle \in Operations
    BY DEF OpenClawGateway!Idle, OpenClawGateway!Operation, Operations,
           OpenClawGateway!NoRequest
  <2>3. /\ OpenClawGateway!Idle.at = "idle" /\ OpenClawGateway!Idle.req = 0
        /\ OpenClawGateway!Idle.op = "idle" /\ OpenClawGateway!Idle.target = 0
        /\ OpenClawGateway!Idle.agent = NoAgent
    BY DEF OpenClawGateway!Idle, OpenClawGateway!Operation,
           OpenClawGateway!NoRequest
  <2>4. Queued = {} /\ InFlight = {}
    BY <2>1 DEF Queued, InFlight
  <2>5. \A r \in OpenClawGateway!Requests : ~IsDrawn(r)
    BY <2>1 DEF IsDrawn
  <2>6. GatewayTyped
    <3>1. outgoing \in Seq(OpenClawGateway!Requests) /\ Len(outgoing) <= Slots
      BY <2>1, ConstantsOfWork
    <3>2. gatewayIds \in [Agents -> OpenClawGateway!Requests
                                     \union {OpenClawGateway!NoRequest}]
      BY <2>1 DEF OpenClawGateway!NoRequest
    <3>3. /\ call \in [Users -> Operations]
          /\ request \in [OpenClawGateway!Requests -> Operations]
      BY <2>1, <2>2
    <3>. QED
      BY <2>1, <3>1, <3>2, <3>3 DEF GatewayTyped, OpenClawGateway!TypeOK
  <2>7. IdsSuffice
    <3>1. Asking = {}
      BY <2>1, <2>3 DEF Asking
    <3>2. Cardinality(Asking) = 0
      BY <3>1, FS_EmptySet
    <3>. QED
      BY <2>5, <3>2, ConstantsOfWork DEF IdsSuffice, OpenClawGateway!Requests
  <2>8. CallsOwnRequests
    BY <2>1, <2>3, <2>5 DEF CallsOwnRequests
  <2>9. FramesAreSingle
    BY <2>1, <2>3, <2>4 DEF FramesAreSingle, QueuedOnce, Queued
  <2>10. MapIsTrue
    BY <2>1, <2>3 DEF MapIsTrue, OpenClawGateway!WaitersAreKnown,
                      OpenClawGateway!PendingIsAwaited
  <2>11. FaultsAreNoted
    BY <2>1 DEF FaultsAreNoted
  <2>12. IdsAreAnswered
    BY <2>1, <2>3 DEF IdsAreAnswered
  <2>13. CleanIsKnown
    BY <2>1, <2>3, <2>4, ConstantsOfWork DEF CleanIsKnown
  <2>. QED
    BY <2>6, <2>7, <2>8, <2>9, <2>10, <2>11, <2>12, <2>13 DEF GatewayInv
<1>. QED
  BY <1>1, StepOfParts, GatewayStep, PTL DEF Spec

\* What the runs check of it follows from GatewayInv.
LEMMA OrphansAreExplained == GatewayInv => OpenClawGateway!NoOrphans
<1>. SUFFICES ASSUME GatewayInv, NEW r \in remote,
                     request[r].agent \notin blemished,
                     gatewayIds[request[r].agent] # r
     PROVE  OpenClawGateway!Busy(request[r].agent)
  BY DEF OpenClawGateway!NoOrphans
<1>. DEFINE a == request[r].agent
<1>1. IsDrawn(r) /\ a \in Agents
  BY DEF GatewayInv, IdsAreAnswered, CallsOwnRequests, IsDrawn
<1>2. \/ \E u \in Users : call[u].req = r /\ call[u].at \in {"waiting", "storing"}
      \/ \E u \in Users : call[u].agent = a
  BY <1>1 DEF GatewayInv, CleanIsKnown
<1>3. \A u \in Users : call[u].req = r => call[u].agent = a
  <2>. SUFFICES ASSUME NEW u \in Users, call[u].req = r PROVE call[u].agent = a
    OBVIOUS
  <2>1. r # 0
    BY <1>1 DEF IsDrawn, OpenClawGateway!Requests
  <2>2. call[u] # OpenClawGateway!Idle
    BY <2>1 DEF OpenClawGateway!Idle, OpenClawGateway!Operation,
                OpenClawGateway!NoRequest
  <2>. QED
    BY <2>1, <2>2 DEF GatewayInv, CallsOwnRequests
<1>. QED
  BY <1>2, <1>3 DEF OpenClawGateway!Busy

(****************************************************************************)
(* The theorems.                                                            *)
(****************************************************************************)

\* Every row, message, retry, frame and desk keeps its type, for any numbers of
\* tasks, workers, messages, automations, agents and calls: the channels stay
\* within their capacity, the ids drawn within the requests there are.
THEOREM TypeCorrect == Spec => []TypeOK
<1>1. QueueInv => TaskQueue!TypeOK
  BY DEF QueueInv
<1>2. MessagesInv => TaskMessages!TypeOK
  BY DEF MessagesInv
<1>3. AutomationsInv => Automations!TypeOK
  BY TypedIsTypeOK DEF AutomationsInv
<1>4. GatewayInv => OpenClawGateway!TypeOK
  BY DEF GatewayInv, GatewayTyped
<1>5. DeskInv => AgentDesk!TypeOK
  BY DEF DeskInv
<1>. QED
  BY <1>1, <1>2, <1>3, <1>4, <1>5, QueueHolds, MessagesHold, AutomationsHold,
     GatewayHolds, DeskHolds, PTL DEF TypeOK

\* However many workers, agents, messages and retries there are, and however
\* their claims, crashes, cancels and lost UPDATEs fall: who is told that a task
\* is theirs is its assignee, alone; an acknowledged message was read; a retry
\* stays within its attempts, and one in progress that nobody carries was left
\* so by a fault; a stopped agent keeps no task (task_queue/mod.rs, claim_bounty;
\* automations/engine.rs, process_retry_queue; openclaw/mod.rs, stop_agent).
THEOREM WorkHasOneHolder == Spec => []WorkIsHeld
<1>1. MessagesInv => TaskMessages!AcknowledgedWereRead
  BY DEF MessagesInv
<1>2. QueueInv /\ MessagesInv /\ AutomationsInv /\ DeskInv => WorkIsHeld
  BY <1>1, GrantsAreExclusive, RetriesAreBounded, StoppedAreFree DEF WorkIsHeld
<1>. QED
  BY <1>2, QueueHolds, MessagesHold, AutomationsHold, DeskHolds, PTL

\* For any numbers of callers, agents, requests and breaks: a call that awaits
\* its answer is in the map or has been told, the map keeps nobody else, and an
\* agent that runs at the gateway is known by its id or has a call under way,
\* unless calls on it overlapped or met a fault (openclaw/mod.rs, send_request,
\* handle_frame and the connection's task).
THEOREM GatewayKnowsAll == Spec => []GatewayKnows
<1>1. GatewayInv => GatewayKnows
  BY OrphansAreExplained DEF GatewayInv, MapIsTrue, GatewayKnows
<1>. QED
  BY <1>1, GatewayHolds, PTL


\* Any number of cancels and reports: a task that ended, and that no cancel had
\* read before, is not cancelled any more (task_tools.rs, cancel_task).
THEOREM EndedIsNotCancelled == Spec => CancelsWereUnderWay
<1>. DEFINE Spared ==
       \A t \in Tasks :
         (taskStatus[t] \in TaskQueue!Terminal /\ \A c \in Cancellers : cancelling[c] # t)
         => /\ \A c \in Cancellers : cancelling'[c] # t
            /\ taskStatus'[t] = "cancelled" => taskStatus[t] = "cancelled"
<1>1. TaskQueue!TypeOK /\ TaskQueue!Next => Spared
  <2>. SUFFICES ASSUME TaskQueue!TypeOK, TaskQueue!Next,
                       NEW t \in Tasks, taskStatus[t] \in TaskQueue!Terminal,
                       \A c \in Cancellers : cancelling[c] # t
       PROVE  /\ \A c \in Cancellers : cancelling'[c] # t
              /\ taskStatus'[t] = "cancelled" => taskStatus[t] = "cancelled"
    OBVIOUS
  <2>. USE DEF TaskQueue!TypeOK, TaskQueue!Exists, TaskQueue!Terminal
  <2>1. ASSUME NEW u \in Tasks,
               \/ TaskQueue!CreateTaskTool(u) \/ TaskQueue!ActionRunAgentTask(u)
               \/ TaskQueue!ActionCreateBounty(u)
        PROVE  UNCHANGED cancelling /\ taskStatus'[t] = taskStatus[t]
    BY <2>1 DEF TaskQueue!CreateTaskTool, TaskQueue!ActionRunAgentTask,
                TaskQueue!ActionCreateBounty, TaskQueue!CreateTask
  <2>2. ASSUME NEW u \in Tasks,
               \/ TaskQueue!Report(u) \/ TaskQueue!SpawnSubAgent(u)
               \/ TaskQueue!SubAgentFails(u)
        PROVE  /\ UNCHANGED cancelling
               /\ taskStatus'[t] = "cancelled" => taskStatus[t] = "cancelled"
    BY <2>2 DEF TaskQueue!Report, TaskQueue!SpawnSubAgent,
                TaskQueue!SubAgentFails, TaskQueue!UpdateTaskStatus
  <2>3. ASSUME NEW u \in Tasks, NEW w \in Workers, TaskQueue!ClaimBounty(u, w)
        PROVE  UNCHANGED cancelling /\ taskStatus'[t] = taskStatus[t]
    BY <2>3 DEF TaskQueue!ClaimBounty, TaskQueue!Claimable
  <2>4. ASSUME NEW c \in Cancellers, TaskQueue!CancelWrite(c)
        PROVE  /\ taskStatus'[t] = taskStatus[t]
               /\ \A d \in Cancellers : cancelling'[d] \in {cancelling[d], NoTask}
               /\ cancelling[c] # NoTask
    BY <2>4 DEF TaskQueue!CancelWrite, TaskQueue!UpdateTaskStatus
  <2>5. ASSUME NEW c \in Cancellers, NEW u \in Tasks, TaskQueue!CancelRead(c, u)
        PROVE  /\ taskStatus'[t] = taskStatus[t]
               /\ \A d \in Cancellers : cancelling'[d] # t
    BY <2>5 DEF TaskQueue!CancelRead
  <2>. QED
    BY <2>1, <2>2, <2>3, <2>4, <2>5, ConstantsOfWork DEF TaskQueue!Next
<1>2. QueueInv /\ [Next]_vars => [Spared]_queueVars
  BY <1>1, StepOfParts DEF QueueInv
<1>. QED
  BY <1>2, QueueHolds, PTL DEF Spec, CancelsWereUnderWay,
     TaskQueue!CancelsWereUnderWay, TaskQueue!vars, queueVars

\* No report, claim, cancel or stub takes a result away: update_task_status keeps
\* what the row holds when it brings none (task_queue/mod.rs).
THEOREM ResultsStay == Spec => TaskQueue!ResultsSurvive
<1>1. TaskQueue!Next => hasResult \subseteq hasResult'
  BY DEF TaskQueue!Next, TaskQueue!CreateTaskTool, TaskQueue!ActionRunAgentTask,
         TaskQueue!ActionCreateBounty, TaskQueue!CreateTask, TaskQueue!Report,
         TaskQueue!SpawnSubAgent, TaskQueue!SubAgentFails,
         TaskQueue!UpdateTaskStatus, TaskQueue!ClaimBounty,
         TaskQueue!CancelWrite, TaskQueue!CancelRead
<1>2. [Next]_vars => [hasResult \subseteq hasResult']_queueVars
  BY <1>1, StepOfParts
<1>. QED
  BY <1>2, PTL DEF Spec, TaskQueue!ResultsSurvive, TaskQueue!vars, queueVars

=============================================================================
