---------------------------- MODULE TaskMessages ----------------------------
(***************************************************************************)
(* The messages of tasks (amos-harness/src/task_queue/mod.rs): agents and  *)
(* the assistant post to task_messages, and a session reads what is new    *)
(* and acknowledges what it has read.  Two sessions may do so at once.     *)
(***************************************************************************)
EXTENDS FiniteSets

CONSTANTS
  Messages,  \* ids of rows of task_messages
  Readers    \* pollers of one session

VARIABLES
  posted,       \* messages posted, of either direction
  toAmos,       \* those of direction agent_to_amos
  acknowledged, \* messages marked acknowledged
  batch,        \* [Readers -> what the poller last read]
  delivered     \* history: messages a poller ever read

vars == <<posted, toAmos, acknowledged, batch, delivered>>

Init ==
  /\ posted = {} /\ toAmos = {} /\ acknowledged = {}
  /\ batch = [r \in Readers |-> {}] /\ delivered = {}

\* post_message, of either direction.
PostMessage(m) ==
  /\ m \notin posted
  /\ posted' = posted \union {m}
  /\ \/ toAmos' = toAmos \union {m}
     \/ toAmos' = toAmos
  /\ UNCHANGED <<acknowledged, batch, delivered>>

Unread == toAmos \ acknowledged

\* pending_messages_for_session
ReadMessages(r) ==
  /\ batch' = [batch EXCEPT ![r] = Unread]
  /\ delivered' = delivered \union Unread
  /\ UNCHANGED <<posted, toAmos, acknowledged>>

\* acknowledge_messages with the ids read; an empty list is no statement.
AcknowledgeMessages(r) ==
  /\ batch[r] # {}
  /\ acknowledged' = acknowledged \union batch[r]
  /\ batch' = [batch EXCEPT ![r] = {}]
  /\ UNCHANGED <<posted, toAmos, delivered>>

\* The session ends between the two: its batch is forgotten.
SessionEnds(r) ==
  /\ batch[r] # {}
  /\ batch' = [batch EXCEPT ![r] = {}]
  /\ UNCHANGED <<posted, toAmos, acknowledged, delivered>>

Next ==
  \/ \E m \in Messages : PostMessage(m)
  \/ \E r \in Readers :
       ReadMessages(r) \/ AcknowledgeMessages(r) \/ SessionEnds(r)

Spec == Init /\ [][Next]_vars

(***************************************************************************)
(* Properties.                                                             *)
(***************************************************************************)
TypeOK ==
  /\ posted \subseteq Messages /\ toAmos \subseteq Messages
  /\ acknowledged \subseteq Messages /\ delivered \subseteq Messages
  /\ batch \in [Readers -> SUBSET Messages]

\* No message to the assistant is acknowledged before some session read it,
\* whatever is posted between the read and the acknowledgement.
AcknowledgedWereRead == acknowledged \subseteq delivered

=============================================================================
