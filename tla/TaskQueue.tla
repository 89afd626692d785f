----------------------------- MODULE TaskQueue -----------------------------
(***************************************************************************)
(* The task queue (amos-harness/src/task_queue) with the task tools: the   *)
(* `tasks` table, tools and automations that create, tools that cancel,    *)
(* agents that claim external tasks and report on their work, and the      *)
(* sub-agent stub.                                                         *)
(*                                                                         *)
(* Every statement on the tables is atomic; cancel_task is two of them.    *)
(* Agents that report through update_task_status are clients of this API.  *)
(***************************************************************************)
EXTENDS Naturals, FiniteSets

CONSTANTS
  Tasks, External,    \* tasks, and those of category 'external'
  Workers, Nobody,    \* agents that claim, and the NULL of assigned_to
  Cancellers,         \* calls of cancel_task that may be under way
  NoTask              \* none of them

VARIABLES
  taskStatus,   \* "none" before the task exists
  assignee,     \* assigned_to
  hasResult,    \* tasks whose column `result` is set
  spawned,      \* tasks a sub-agent stub was spawned for
  cancelling,   \* the task whose status a cancel_task call has read
  granted       \* history: tasks and the workers told that they got them

vars == <<taskStatus, assignee, hasResult, spawned, cancelling, granted>>

TaskStatus == {"pending", "assigned", "running", "completed", "failed",
               "cancelled"}
Terminal == {"completed", "failed", "cancelled"}

Exists(t) == taskStatus[t] # "none"

Init ==
  /\ taskStatus = [t \in Tasks |-> "none"]
  /\ assignee = [t \in Tasks |-> Nobody]
  /\ hasResult = {}
  /\ spawned = {}
  /\ cancelling = [c \in Cancellers |-> NoTask]
  /\ granted = {}

\* One INSERT; the category says who may claim the task.
CreateTask(t) ==
  /\ ~Exists(t)
  /\ taskStatus' = [taskStatus EXCEPT ![t] = "pending"]
  /\ UNCHANGED <<assignee, hasResult, spawned, cancelling, granted>>

\* The create_task tool and an automation of action run_agent_task insert
\* internal tasks.  (create_bounty, the tool, posts to the relay instead.)
CreateTaskTool(t) == t \notin External /\ CreateTask(t)
ActionRunAgentTask(t) == t \notin External /\ CreateTask(t)

\* An automation of action create_bounty inserts external ones.
ActionCreateBounty(t) == t \in External /\ CreateTask(t)

\* One UPDATE by id, whatever the row holds; COALESCE keeps a result.
UpdateTaskStatus(t, new, withResult) ==
  /\ Exists(t)
  /\ taskStatus' = [taskStatus EXCEPT ![t] = new]
  /\ hasResult' = IF withResult THEN hasResult \union {t} ELSE hasResult

\* What an agent reports of its work.
Report(t) ==
  /\ \/ UpdateTaskStatus(t, "running", FALSE)
     \/ UpdateTaskStatus(t, "completed", TRUE)
     \/ UpdateTaskStatus(t, "failed", FALSE)
  /\ UNCHANGED <<assignee, spawned, cancelling, granted>>

\* Mutant of Claimable: any task that has not ended.
ClaimableUntilEnd(t) ==
  t \in External /\ Exists(t) /\ taskStatus[t] \notin Terminal

\* The condition of the UPDATE: external and still pending.
Claimable(t) ==
  /\ t \in External
  /\ taskStatus[t] = "pending"

ClaimBounty(t, w) ==
  /\ Claimable(t)
  /\ taskStatus' = [taskStatus EXCEPT ![t] = "assigned"]
  /\ assignee' = [assignee EXCEPT ![t] = w]
  /\ granted' = granted \union {<<t, w>>}
  /\ UNCHANGED <<hasResult, spawned, cancelling>>

SpawnSubAgent(t) ==
  /\ Exists(t) /\ t \notin spawned
  /\ spawned' = spawned \union {t}
  /\ UNCHANGED <<taskStatus, assignee, hasResult, cancelling, granted>>

\* The spawned stub marks its task failed.
SubAgentFails(t) ==
  /\ t \in spawned
  /\ UpdateTaskStatus(t, "failed", FALSE)
  /\ UNCHANGED <<assignee, spawned, cancelling, granted>>

\* Mutant of CancelRead: the check of is_terminal is missing.
CancelReadUnchecked(c, t) ==
  /\ cancelling[c] = NoTask
  /\ Exists(t)
  /\ cancelling' = [cancelling EXCEPT ![c] = t]
  /\ UNCHANGED <<taskStatus, assignee, hasResult, spawned, granted>>

\* cancel_task reads the task and refuses one that ended,
CancelRead(c, t) ==
  /\ cancelling[c] = NoTask
  /\ Exists(t) /\ taskStatus[t] \notin Terminal
  /\ cancelling' = [cancelling EXCEPT ![c] = t]
  /\ UNCHANGED <<taskStatus, assignee, hasResult, spawned, granted>>

\* then writes without another look.
CancelWrite(c) ==
  /\ cancelling[c] # NoTask
  /\ UpdateTaskStatus(cancelling[c], "cancelled", FALSE)
  /\ cancelling' = [cancelling EXCEPT ![c] = NoTask]
  /\ UNCHANGED <<assignee, spawned, granted>>

Next ==
  \/ \E t \in Tasks :
       \/ CreateTaskTool(t) \/ ActionRunAgentTask(t) \/ ActionCreateBounty(t)
       \/ Report(t) \/ SpawnSubAgent(t) \/ SubAgentFails(t)
  \/ \E t \in Tasks, w \in Workers : ClaimBounty(t, w)
  \/ \E c \in Cancellers : CancelWrite(c) \/ \E t \in Tasks : CancelRead(c, t)

Spec == Init /\ [][Next]_vars

(***************************************************************************)
(* Properties.                                                             *)
(***************************************************************************)

TypeOK ==
  /\ taskStatus \in [Tasks -> TaskStatus \union {"none"}]
  /\ assignee \in [Tasks -> Workers \union {Nobody}]
  /\ hasResult \subseteq Tasks /\ spawned \subseteq Tasks
  /\ cancelling \in [Cancellers -> Tasks \union {NoTask}]
  /\ granted \subseteq Tasks \X Workers

\* The claims race with cancels, reports and each other: no two workers are
\* told that an external task is theirs, the one who was told stays its assignee,
\* and nobody is given an internal task (task_queue/mod.rs, claim_bounty).
GrantedOnce ==
  \A g \in granted :
    /\ g[1] \in External /\ assignee[g[1]] = g[2]
    /\ \A h \in granted : h[1] = g[1] => h = g

\* A cancel that lost the race against the end of the work overwrites the
\* status, and so does the stub; the result itself is never lost (the COALESCE
\* of update_task_status).
ResultsSurvive ==
  [][hasResult \subseteq hasResult']_vars

\* Whoever finds a task that ended refuses to cancel it: a task that nobody
\* was about to cancel when it ended, and nobody reports on any more, is not
\* cancelled (task_tools.rs, cancel_task).
CancelsWereUnderWay ==
  [][\A t \in Tasks :
       (taskStatus[t] \in Terminal /\ \A c \in Cancellers : cancelling[c] # t)
       => /\ \A c \in Cancellers : cancelling'[c] # t
          /\ taskStatus'[t] = "cancelled" => taskStatus[t] = "cancelled"]_vars

=============================================================================
