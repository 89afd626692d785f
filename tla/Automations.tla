---------------------------- MODULE Automations ----------------------------
(***************************************************************************)
(* The automation engine (amos-harness/src/automations/engine.rs): events  *)
(* in a bounded channel, one task that drains it and spawns an execution   *)
(* per matching automation, chain events up to a depth, the queue of       *)
(* webhook retries in the database and the worker that empties it.         *)
(*                                                                         *)
(* Trigger[a] is what starts automation a: "record", "schedule", "manual", *)
(* "any" for the completion of any automation, or an automation, for the   *)
(* completion of that one.  Action[a] is its action type.  A process that  *)
(* crashes loses the channel, the spawned executions and what the worker   *)
(* holds; the tables stay.                                                 *)
(***************************************************************************)
EXTENDS Naturals, Sequences, SequencesExt, FiniteSetsExt

CONSTANTS
  Autos, NoAuto,   \* automations, and no automation
  Trigger,         \* [Autos -> kinds of event and Autos]
  Action,          \* [Autos -> ActionType]
  Entries,         \* ids of rows of automation_retry_queue
  Capacity,        \* of the event channel: 1024 in the code
  ChainLimit,      \* 5 in the code
  MaxAttempts,     \* 3, the default of the column max_attempts
  Batch,           \* rows claimed at once: 10
  MaxEvents,       \* bound: events from outside
  MaxFaults,       \* bound: crashes and failed statements
  MaxRequeues      \* bound: requeues by the operator

VARIABLES
  autos,     \* [Autos -> AutoStatus]
  channel,   \* sequence of events
  running,   \* [Autos -> [depth -> number of executions under way]]
  retries,   \* [Entries -> row]
  held,      \* sequence of entries the worker claimed and has not settled
  sending,   \* the worker awaits the webhook of Head(held)
  sent,      \* history: webhook calls for an entry since it was (re)queued
  emitted, faults, requeues   \* counters of the bounds

tableVars == <<autos, retries, sent, requeues>>
memoryVars == <<channel, running, held, sending>>
vars == <<tableVars, memoryVars, emitted, faults>>

\* "notify" is a notification to a canvas, "email" one by mail.
ActionType == {"create_record", "update_record", "call_webhook",
               "run_agent_task", "create_bounty", "notify", "email"}
Webhooks == {a \in Autos : Action[a] = "call_webhook"}

AutoStatus == {"absent", "enabled", "disabled", "deleted"}
Known(a) == autos[a] \in {"enabled", "disabled"}

Depths == 0 .. ChainLimit

Event(kind, source, depth) ==
  [kind |-> kind, source |-> source, depth |-> depth]

NoRow == [auto |-> NoAuto, attempt |-> 0, status |-> "gone"]

Init ==
  /\ autos = [a \in Autos |-> "absent"]
  /\ channel = <<>>
  /\ running = [a \in Autos |-> [d \in Depths |-> 0]]
  /\ retries = [e \in Entries |-> NoRow]
  /\ held = <<>> /\ sending = FALSE
  /\ sent = [e \in Entries |-> 0]
  /\ emitted = 0 /\ faults = 0 /\ requeues = 0

\* try_send: an event that finds the channel full is dropped.
TrySend(event) ==
  channel' = IF Len(channel) < Capacity THEN Append(channel, event)
                                        ELSE channel

\* find_matching_automations; conditions on the data are not told apart.
Matching(event) ==
  {a \in Autos :
     /\ autos[a] = "enabled"
     /\ IF event.kind = "completed"
        THEN Trigger[a] \in {"any", event.source}
        ELSE Trigger[a] = event.kind}

\* One execution is spawned for each of the automations.
Spawn(some, depth) ==
  running' = [a \in Autos |->
                IF a \in some THEN [running[a] EXCEPT ![depth] = @ + 1]
                              ELSE running[a]]

Outside ==
  /\ emitted < MaxEvents
  /\ emitted' = emitted + 1

\* A record changes: the schema engine offers the event to the channel.
RecordChanges ==
  /\ Outside
  /\ TrySend(Event("record", NoAuto, 0))
  /\ UNCHANGED <<tableVars, running, held, sending, faults>>

\* test_automation fires an event of its own, past the channel, at every
\* automation with a manual trigger.
TestAutomation(a) ==
  /\ Known(a)
  /\ Outside
  /\ Spawn(Matching(Event("manual", NoAuto, 0)), 0)
  /\ UNCHANGED <<tableVars, channel, held, sending, faults>>

\* The minute tick starts those whose cron expression matches the minute.
CronTick ==
  /\ Outside
  /\ \E due \in SUBSET Matching(Event("schedule", NoAuto, 0)) : Spawn(due, 0)
  /\ UNCHANGED <<tableVars, channel, held, sending, faults>>

Drain ==
  /\ channel # <<>>
  /\ channel' = Tail(channel)
  /\ Spawn(Matching(Head(channel)), Head(channel).depth)
  /\ UNCHANGED <<tableVars, held, sending, emitted, faults>>

Fault ==
  /\ faults < MaxFaults
  /\ faults' = faults + 1

\* The query for automations fails: the event is gone.
DrainFails ==
  /\ channel # <<>> /\ Fault
  /\ channel' = Tail(channel)
  /\ UNCHANGED <<tableVars, running, held, sending, emitted>>

Ends(a, d) ==
  /\ running[a][d] > 0
  /\ running' = [running EXCEPT ![a][d] = @ - 1]

\* What a success offers to the channel: an event of the chain, below the limit.
\* The records that an action writes go through a schema engine of its own that
\* has no channel, so they trigger nothing.
Offered(a, d) ==
  IF d < ChainLimit THEN <<Event("completed", a, d + 1)>> ELSE <<>>

\* execute_action succeeds, logs the run and chains.
Succeed(a, d) ==
  /\ Ends(a, d)
  /\ LET offered == Offered(a, d)
         free == Capacity - Len(channel)
     IN  channel' = channel \o SubSeq(offered, 1, Min({free, Len(offered)}))
  /\ UNCHANGED <<tableVars, held, sending, emitted, faults>>

Free == {e \in Entries : /\ retries[e].status \in {"gone", "succeeded"}
                         /\ e \notin Range(held)}

\* It fails: a webhook is queued for a retry.
FailAndRetry(a, d) ==
  /\ a \in Webhooks /\ Known(a)
  /\ Ends(a, d)
  /\ \E e \in Free :
       /\ retries' = [retries EXCEPT ![e] =
                        [auto |-> a, attempt |-> 1, status |-> "pending"]]
       /\ sent' = [sent EXCEPT ![e] = 0]
  /\ UNCHANGED <<autos, requeues, channel, held, sending, emitted, faults>>

\* Only what needs nothing from outside cannot fail.
CanFail(a) == Action[a] # "notify"

\* Other actions are not retried, nor is a webhook whose row cannot be
\* inserted: the automation is deleted, or the statement fails (here: no row
\* is left).
FailForGood(a, d) ==
  /\ CanFail(a)
  /\ a \notin Webhooks \/ ~Known(a) \/ Free = {}
  /\ Ends(a, d)
  /\ UNCHANGED <<tableVars, channel, held, sending, emitted, faults>>

\* process_retry_queue claims entries that are due; the worker is one task
\* and holds none when it ticks.
ClaimRetries ==
  /\ held = <<>>
  /\ \E due \in SUBSET {e \in Entries : retries[e].status = "pending"} :
       /\ due # {} /\ Cardinality(due) <= Batch
       /\ held' = SetToSeq(due)
       /\ retries' = [e \in Entries |->
            IF e \in due THEN [retries[e] EXCEPT !.status = "in_progress"]
                         ELSE retries[e]]
  /\ UNCHANGED <<autos, sent, requeues, channel, running, sending, emitted,
                 faults>>

\* An UPDATE by id: nothing happens to a row that a cascade removed.
SetRow(e, row) ==
  retries' = IF retries[e].status = "gone" THEN retries
             ELSE [retries EXCEPT ![e] = row]

\* Mutant of NextEntry: a return instead of a continue.
RestForgotten ==
  /\ held' = <<>>
  /\ sending' = FALSE

NextEntry ==
  /\ held' = Tail(held)
  /\ sending' = FALSE

\* The automation is gone, cannot be read, or is disabled.
GiveUpRetry ==
  /\ held # <<>> /\ ~sending
  /\ retries[Head(held)].status # "gone"
  /\ \/ autos[retries[Head(held)].auto] = "disabled" /\ faults' = faults
     \/ Fault
  /\ SetRow(Head(held), [retries[Head(held)] EXCEPT !.status = "dead_letter"])
  /\ NextEntry
  /\ UNCHANGED <<autos, sent, requeues, channel, running, emitted>>

SkipRetry ==
  /\ held # <<>> /\ ~sending
  /\ retries[Head(held)].status = "gone"
  /\ NextEntry
  /\ UNCHANGED <<tableVars, channel, running, emitted, faults>>

CallWebhook ==
  /\ held # <<>> /\ ~sending
  /\ retries[Head(held)].status # "gone"
  /\ autos[retries[Head(held)].auto] = "enabled"
  /\ sending' = TRUE
  /\ sent' = [sent EXCEPT ![Head(held)] = @ + 1]
  /\ UNCHANGED <<autos, retries, requeues, channel, running, held, emitted,
                 faults>>

RetrySucceeds ==
  /\ sending
  /\ SetRow(Head(held), [retries[Head(held)] EXCEPT !.status = "succeeded"])
  /\ NextEntry
  /\ UNCHANGED <<autos, sent, requeues, channel, running, emitted, faults>>

\* The row after a failed retry.
Rescheduled(row) ==
  IF row.attempt + 1 > MaxAttempts
  THEN [row EXCEPT !.status = "dead_letter"]
  ELSE [row EXCEPT !.status = "pending", !.attempt = @ + 1]

RetryFails ==
  /\ sending
  /\ SetRow(Head(held), Rescheduled(retries[Head(held)]))
  /\ NextEntry
  /\ UNCHANGED <<autos, sent, requeues, channel, running, emitted, faults>>

\* The errors of these UPDATEs are dropped: the row stays in progress.
SettleLost ==
  /\ held # <<>> /\ Fault
  /\ NextEntry
  /\ UNCHANGED <<tableVars, channel, running, emitted>>

\* POST /dead-letters/{id}/requeue
Requeue(e) ==
  /\ requeues < MaxRequeues
  /\ retries[e].status = "dead_letter"
  /\ retries' = [retries EXCEPT ![e].status = "pending", ![e].attempt = 1]
  /\ sent' = [sent EXCEPT ![e] = 0]
  /\ requeues' = requeues + 1
  /\ UNCHANGED <<autos, memoryVars, emitted, faults>>

\* manage_automation, and templates that bring automations.
Create(a) ==
  /\ autos[a] = "absent"
  /\ autos' = [autos EXCEPT ![a] = "enabled"]
  /\ UNCHANGED <<retries, sent, requeues, memoryVars, emitted, faults>>

\* The field `enabled` of an update.
SetEnabled(a) ==
  /\ Known(a)
  /\ autos' = [autos EXCEPT ![a] = IF @ = "enabled" THEN "disabled"
                                                    ELSE "enabled"]
  /\ UNCHANGED <<retries, sent, requeues, memoryVars, emitted, faults>>

\* The retry rows of a deleted automation go with it.
Delete(a) ==
  /\ Known(a)
  /\ autos' = [autos EXCEPT ![a] = "deleted"]
  /\ retries' = [e \in Entries |->
                   IF retries[e].auto = a THEN NoRow ELSE retries[e]]
  /\ UNCHANGED <<sent, requeues, memoryVars, emitted, faults>>

Crash ==
  /\ Fault
  /\ channel' = <<>>
  /\ running' = [a \in Autos |-> [d \in Depths |-> 0]]
  /\ held' = <<>> /\ sending' = FALSE
  /\ UNCHANGED <<tableVars, emitted>>

Executions ==
  \E a \in Autos, d \in Depths :
    Succeed(a, d) \/ FailAndRetry(a, d) \/ FailForGood(a, d)

Worker ==
  \/ GiveUpRetry \/ SkipRetry \/ CallWebhook \/ RetrySucceeds \/ RetryFails

Next ==
  \/ RecordChanges \/ CronTick
  \/ Drain \/ DrainFails
  \/ Executions
  \/ ClaimRetries \/ Worker \/ SettleLost
  \/ \E a \in Autos :
       TestAutomation(a) \/ Create(a) \/ SetEnabled(a) \/ Delete(a)
  \/ \E e \in Entries : Requeue(e)
  \/ Crash

Spec == Init /\ [][Next]_vars

\* The runtime polls the drain, each spawned action and the worker; an HTTP
\* call ends by its answer or by the client's timeout; ticks keep coming.
Fairness ==
  /\ WF_vars(Drain) /\ WF_vars(Executions)
  /\ WF_vars(ClaimRetries) /\ WF_vars(Worker)

FairSpec == Spec /\ Fairness

(***************************************************************************)
(* Properties.                                                             *)
(***************************************************************************)

RetryStatus ==
  {"gone", "pending", "in_progress", "succeeded", "dead_letter"}

TypeOK ==
  /\ Action \in [Autos -> ActionType]
  /\ autos \in [Autos -> AutoStatus]
  /\ channel \in Seq([kind : {"record", "completed"},
                      source : Autos \union {NoAuto}, depth : Depths])
  /\ Len(channel) <= Capacity
  /\ running \in [Autos -> [Depths -> Nat]]
  /\ retries \in [Entries -> [auto : Autos \union {NoAuto},
                             attempt : 0 .. MaxAttempts,
                             status : RetryStatus]]
  /\ held \in Seq(Entries)
  /\ sending \in BOOLEAN /\ (sending => held # <<>>)
  /\ sent \in [Entries -> Nat]

\* However crashes, lost updates, disabling and requeues fall, an entry calls
\* its webhook at most max_attempts times between two requeues.
AttemptsBounded ==
  \A e \in Entries : sent[e] <= MaxAttempts

\* An entry is 'in_progress' exactly while the worker holds it, unless a crash
\* or a lost UPDATE came in between: only these leave an entry that nobody
\* will look at again.
InProgressIsHeld ==
  faults = 0 =>
    \A e \in Entries :
      /\ retries[e].status = "in_progress" => e \in Range(held)
      /\ e \in Range(held) => retries[e].status \in {"in_progress", "gone"}

\* Automations that start each other, or themselves, come to an end when
\* events from outside do: the depth of a chain is bounded.
ChainsEnd ==
  <>[](/\ channel = <<>>
       /\ \A a \in Autos, d \in Depths : running[a][d] = 0)

\* A retry that waits is settled in the end, unless a fault leaves it in
\* progress.
RetriesSettle ==
  \A e \in Entries :
    retries[e].status = "pending" ~>
      \/ retries[e].status \in {"succeeded", "dead_letter", "gone"}
      \/ faults > 0

=============================================================================
