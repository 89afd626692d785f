----------------------------- MODULE AgentDesk -----------------------------
(***************************************************************************)
(* The tools manage_agent and assign_task                                  *)
(* (amos-harness/src/tools/openclaw_tools.rs): rows of openclaw_agents and *)
(* openclaw_tasks, written by calls that interleave between their          *)
(* statements, none of which fails here.  The agents' own loops are not part.  *)
(***************************************************************************)
EXTENDS FiniteSets

CONSTANTS
  DeskAgents, NoOne,  \* agents; none
  Jobs,               \* rows of openclaw_tasks
  Calls               \* calls of the tools that may be under way

VARIABLES
  deskStatus,  \* status column; "absent" before register
  job,         \* [Jobs -> agent and status of the row]
  doing        \* [Calls -> what the call has still to do]

deskVars == <<deskStatus, job, doing>>

NoRow == [agent |-> NoOne, status |-> "none"]
AtRest == [step |-> "idle", agent |-> NoOne]

Step(step, a) == [step |-> step, agent |-> a]

Init ==
  /\ deskStatus = [a \in DeskAgents |-> "absent"]
  /\ job = [j \in Jobs |-> NoRow]
  /\ doing = [c \in Calls |-> AtRest]

Register(a) ==
  /\ deskStatus[a] = "absent"
  /\ deskStatus' = [deskStatus EXCEPT ![a] = "registered"]
  /\ UNCHANGED <<job, doing>>

\* assign_task looks the agent up,
AssignFinds(c, a) ==
  /\ doing[c] = AtRest /\ deskStatus[a] # "absent"
  /\ doing' = [doing EXCEPT ![c] = Step("insert", a)]
  /\ UNCHANGED <<deskStatus, job>>

\* inserts the task,
AssignInserts(c, j) ==
  /\ doing[c].step = "insert" /\ job[j] = NoRow
  /\ job' = [job EXCEPT ![j] = [agent |-> doing[c].agent, status |-> "pending"]]
  /\ doing' = [doing EXCEPT ![c].step = "mark"]
  /\ UNCHANGED deskStatus

\* and marks the agent, whatever its row says by now.
AssignMarks(c) ==
  /\ doing[c].step = "mark"
  /\ deskStatus' = [deskStatus EXCEPT ![doing[c].agent] = "working"]
  /\ doing' = [doing EXCEPT ![c] = AtRest]
  /\ UNCHANGED job

\* stop writes the row first,
StopMarks(c, a) ==
  /\ doing[c] = AtRest /\ deskStatus[a] # "absent"
  /\ deskStatus' = [deskStatus EXCEPT ![a] = "stopped"]
  /\ doing' = [doing EXCEPT ![c] = Step("cancel", a)]
  /\ UNCHANGED job

\* then cancels what the agent has been given.
StopCancels(c) ==
  /\ doing[c].step = "cancel"
  /\ job' = [j \in Jobs |->
               IF /\ job[j].agent = doing[c].agent
                  /\ job[j].status \in {"pending", "in_progress"}
               THEN [job[j] EXCEPT !.status = "cancelled"] ELSE job[j]]
  /\ doing' = [doing EXCEPT ![c] = AtRest]
  /\ UNCHANGED deskStatus

Next ==
  \/ \E a \in DeskAgents : Register(a)
  \/ \E c \in Calls, a \in DeskAgents : AssignFinds(c, a) \/ StopMarks(c, a)
  \/ \E c \in Calls, j \in Jobs : AssignInserts(c, j)
  \/ \E c \in Calls : AssignMarks(c) \/ StopCancels(c)

Spec == Init /\ [][Next]_deskVars

(***************************************************************************)
(* Properties.                                                             *)
(***************************************************************************)
TypeOK ==
  /\ deskStatus \in [DeskAgents -> {"absent", "registered", "working",
                                    "stopped"}]
  /\ job \in [Jobs -> [agent : DeskAgents \union {NoOne},
                       status : {"none", "pending", "cancelled"}]]
  /\ doing \in [Calls -> [step : {"idle", "insert", "mark", "cancel"},
                          agent : DeskAgents \union {NoOne}]]

\* However assignments and stops interleave, an agent whose row says 'stopped'
\* when no call on it is under way has no task left to do: the stop writes the
\* row before it cancels, the assignment inserts before it marks
\* (openclaw_tools.rs, stop and AssignTaskTool::execute).
StoppedHasNoTask ==
  \A a \in DeskAgents :
    (deskStatus[a] = "stopped" /\ \A c \in Calls : doing[c].agent # a) =>
      \A j \in Jobs : job[j].agent = a => job[j].status = "cancelled"

=============================================================================
