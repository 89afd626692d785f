---- MODULE Experiments ------------------------------------------------------
(****************************************************************************)
(* Experiments on the prompt of one agent: the Darwinian loop and a tool    *)
(* propose a change with the help of a model, save the experiment, rewrite  *)
(* the prompt, and later keep the change or put the old prompt back.  A     *)
(* prompt is the set of the changes it contains.                            *)
(****************************************************************************)
EXTENDS Naturals, Sequences

CONSTANTS Swarms, MaxExperiments

VARIABLES prompt, rows, cooling, actor, overlapped, dropped

experimentVars == <<prompt, rows, cooling, actor, overlapped, dropped>>

Actors == {"loop", "tool"}
Steps == {"idle", "asking", "saved", "prompted", "judging", "restored"}

Ids == 1..MaxExperiments
Idle ==
  [step |-> "idle", id |-> 0, swarm |-> CHOOSE w \in Swarms : TRUE, text |-> {},
   keep |-> FALSE]

Init ==
  /\ prompt = {}
  /\ rows = <<>>
  /\ cooling = FALSE
  /\ actor = [a \in Actors |-> Idle]
  /\ overlapped = FALSE
  /\ dropped = FALSE

Active == {i \in DOMAIN rows : rows[i].status = "active"}
OthersIdle(a) == \A b \in Actors \ {a} : actor[b].step = "idle"
Goes(a, step) == actor' = [actor EXCEPT ![a].step = step]

\* The loop leaves an agent alone that has an active experiment in this swarm.
Target(w) ==
  /\ ~cooling
  /\ \A i \in Active : rows[i].swarm # w

\* The prompt is read here and rewritten after the model has answered.
ProposeMutation(a, w) ==
  /\ actor[a].step = "idle"
  /\ a = "loop" => Target(w)
  /\ actor' = [actor EXCEPT ![a] =
       [Idle EXCEPT !.step = "asking", !.swarm = w, !.text = prompt]]
  /\ overlapped' = (overlapped \/ Active # {} \/ ~OthersIdle(a))
  /\ UNCHANGED <<prompt, rows, cooling, dropped>>

Row(a, status) ==
  [swarm |-> actor[a].swarm, by |-> a, original |-> actor[a].text, status |-> status]

SaveExperiment(a) ==
  /\ actor[a].step = "asking"
  /\ Len(rows) < MaxExperiments
  /\ rows' = Append(rows, Row(a, "active"))
  /\ actor' = [actor EXCEPT ![a].step = "saved", ![a].id = Len(rows) + 1]
  /\ UNCHANGED <<prompt, cooling, overlapped, dropped>>

\* Without a model the experiment is only proposed; nobody starts it later.
LlmUnavailable(a) ==
  /\ actor[a].step = "asking"
  /\ Len(rows) < MaxExperiments
  /\ rows' = Append(rows, Row(a, "proposed"))
  /\ actor' = [actor EXCEPT ![a] = Idle]
  /\ UNCHANGED <<prompt, cooling, overlapped, dropped>>

UpdateAgentPrompt(a) ==
  /\ actor[a].step = "saved"
  /\ prompt' = actor[a].text \cup {actor[a].id}
  /\ Goes(a, "prompted")
  /\ UNCHANGED <<rows, cooling, overlapped, dropped>>

SetCooldown(a) ==
  /\ actor[a].step = "prompted"
  /\ cooling' = TRUE
  /\ actor' = [actor EXCEPT ![a] = Idle]
  /\ UNCHANGED <<prompt, rows, overlapped, dropped>>

CooldownEnds ==
  /\ cooling
  /\ cooling' = FALSE
  /\ UNCHANGED <<prompt, rows, actor, overlapped, dropped>>

Judge(a, i, keep) ==
  /\ actor[a].step = "idle"
  /\ i \in Active
  /\ actor' = [actor EXCEPT ![a] =
       [Idle EXCEPT !.step = "judging", !.id = i, !.text = rows[i].original, !.keep = keep]]
  /\ overlapped' = (overlapped \/ ~OthersIdle(a))
  /\ UNCHANGED <<prompt, rows, cooling, dropped>>

\* A mature experiment is kept when the score did not fall.
EvaluateSingle(i) == \E keep \in BOOLEAN : Judge("loop", i, keep)

RevertExperiment(i) == Judge("tool", i, FALSE)

RestoreNothing(a) ==
  /\ actor[a].step = "judging"
  /\ ~actor[a].keep
  /\ Goes(a, "restored")
  /\ UNCHANGED <<prompt, rows, cooling, overlapped, dropped>>

RestorePrompt(a) ==
  /\ actor[a].step = "judging"
  /\ ~actor[a].keep
  /\ prompt' = actor[a].text
  /\ Goes(a, "restored")
  /\ UNCHANGED <<rows, cooling, overlapped, dropped>>

\* Whatever the row says by now.
Settle(a) ==
  /\ \/ actor[a].step = "restored"
     \/ actor[a].step = "judging" /\ actor[a].keep
  /\ rows' = [rows EXCEPT ![actor[a].id].status =
                IF actor[a].keep THEN "accepted" ELSE "reverted"]
  /\ actor' = [actor EXCEPT ![a] = Idle]
  /\ UNCHANGED <<prompt, cooling, overlapped, dropped>>

ExpireStaleExperiments ==
  /\ actor["loop"].step = "idle"
  /\ \E i \in DOMAIN rows : rows[i].status = "proposed"
  /\ \E stale \in SUBSET {i \in DOMAIN rows : rows[i].status = "proposed"} :
       rows' = [i \in DOMAIN rows |->
         IF i \in stale THEN [rows[i] EXCEPT !.status = "expired"] ELSE rows[i]]
  /\ UNCHANGED <<prompt, cooling, actor, overlapped, dropped>>

\* A statement fails, or the harness goes down.
Fails(a) ==
  /\ actor[a].step # "idle"
  /\ actor' = [actor EXCEPT ![a] = Idle]
  /\ dropped' = (dropped \/ actor[a].step \in {"saved", "restored"})
  /\ UNCHANGED <<prompt, rows, cooling, overlapped>>

Next ==
  \/ \E a \in Actors :
       \/ \E w \in Swarms : ProposeMutation(a, w)
       \/ LlmUnavailable(a) \/ SaveExperiment(a)
       \/ UpdateAgentPrompt(a) \/ SetCooldown(a)
       \/ RestorePrompt(a) \/ Settle(a) \/ Fails(a)
  \/ \E i \in Ids : EvaluateSingle(i) \/ RevertExperiment(i)
  \/ CooldownEnds \/ ExpireStaleExperiments

Spec == Init /\ [][Next]_experimentVars

TypeOK ==
  /\ prompt \subseteq Ids
  /\ rows \in Seq([swarm : Swarms, by : Actors, original : SUBSET Ids,
       status : {"proposed", "active", "accepted", "reverted", "expired"}])
  /\ Len(rows) <= MaxExperiments
  /\ cooling \in BOOLEAN /\ overlapped \in BOOLEAN /\ dropped \in BOOLEAN
  /\ \A a \in Actors :
       /\ actor[a].step \in Steps /\ actor[a].id \in 0..Len(rows)
       /\ actor[a].text \subseteq Ids /\ actor[a].keep \in BOOLEAN

----------------------------------------------------------------------------
\* The change of a reverted experiment is in no later prompt, unless another
\* experiment of the agent was under way at the same time: the loop excludes
\* that within a swarm, not across swarms or next to the tool, and the old
\* prompt of the one may hold the change of the other.
RevertedIsGone ==
  overlapped \/ \A i \in DOMAIN rows : rows[i].status = "reverted" => i \notin prompt

\* The change of an accepted experiment stays in the prompt, also through later
\* experiments, unless two overlapped or one lost the statement that goes with
\* the prompt.
AcceptedIsKept ==
  \/ overlapped \/ dropped
  \/ \A i \in DOMAIN rows : rows[i].status = "accepted" => i \in prompt

\* The loop itself never has two experiments under way in one swarm, whatever
\* the tool does and however slowly the model answers.
LoopStartsOne ==
  \A i, j \in Active :
    rows[i].by = "loop" /\ rows[j].by = "loop" /\ rows[i].swarm = rows[j].swarm => i = j
==============================================================================
