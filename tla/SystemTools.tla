---- MODULE SystemTools ------------------------------------------------------
(****************************************************************************)
(* Shell commands with their confirmations, and edits of files.  These      *)
(* share no state; each has its own section.                                *)
(****************************************************************************)
EXTENDS Naturals, Sequences, SequencesExt

(****************************************************************************)
(* Shell commands and the confirmations a destructive one needs.  The tool  *)
(* issues a token instead of running it; the user answers at a route of its *)
(* own, or the agent repeats the call with the token.  Taking a token       *)
(* removes it, whatever comes after.                                        *)
(****************************************************************************)
CONSTANTS ShellCommands, Destructive, MaxTokens, MaxProcesses

VARIABLES issued, pending, expired, denied, processes

confirmationVars == <<issued, pending, expired, denied, processes>>

Tokens == DOMAIN issued
NoToken == 0

ConfirmationsInit ==
  /\ issued = <<>>
  /\ pending = {}
  /\ expired = {}
  /\ denied = {}
  /\ processes = <<>>

\* A process belongs to the call that started it; the call waits for its end
\* or its timeout, the process knows of neither.
Start(command, token) ==
  /\ Len(processes) < MaxProcesses
  /\ processes' = Append(processes, [command |-> command, token |-> token, state |-> "running", call |-> "waits"])

TakesAnyAge(t) == t \in pending

\* A token that is no longer pending, or is too old, is as good as none.
Takes(t) == t \in pending \ expired

IssueToken(command) ==
  /\ Len(issued) < MaxTokens
  /\ issued' = Append(issued, command)
  /\ pending' = pending \cup {Len(issued) + 1}
  /\ UNCHANGED <<expired, denied, processes>>

\* The token is gone even when it was for another command or too old.
TakeToken(command, t) ==
  /\ t \in pending
  /\ pending' = pending \ {t}
  /\ IF Takes(t) /\ issued[t] = command THEN Start(command, t) ELSE UNCHANGED processes
  /\ UNCHANGED <<issued, expired, denied>>

Bash(command) ==
  /\ command \notin Destructive
  /\ Start(command, NoToken)
  /\ UNCHANGED <<issued, pending, expired, denied>>

KeepToken(t, approved) ==
  /\ t \in pending
  /\ UNCHANGED pending
  /\ denied' = IF approved THEN denied ELSE denied \cup {t}
  /\ IF approved /\ Takes(t) THEN Start(issued[t], t) ELSE UNCHANGED processes
  /\ UNCHANGED <<issued, expired>>

\* The route runs what was issued; a refusal takes the token as well.  As
\* another user than root the route cannot start it: the token is spent.
ConfirmCommand(t, approved) ==
  /\ t \in pending
  /\ pending' = pending \ {t}
  /\ denied' = IF approved THEN denied ELSE denied \cup {t}
  /\ \/ approved /\ Takes(t) /\ Start(issued[t], t)
     \/ UNCHANGED processes
  /\ UNCHANGED <<issued, expired>>

TokenExpires(t) ==
  /\ t \in Tokens \ expired
  /\ expired' = expired \cup {t}
  /\ UNCHANGED <<issued, pending, denied, processes>>

\* The call answers with the output, unless it has answered before.
ProcessEnds(p) ==
  /\ processes[p].state = "running"
  /\ processes' = [processes EXCEPT ![p].state = "ended",
                                    ![p].call = IF @ = "waits" THEN "answered" ELSE @]
  /\ UNCHANGED <<issued, pending, expired, denied>>

\* Nothing ends the process of a call that timed out.
TimeOut(p) ==
  /\ processes[p].call = "waits"
  /\ processes' = [processes EXCEPT ![p].call = "timed_out"]
  /\ UNCHANGED <<issued, pending, expired, denied>>

ConfirmationsNext ==
  \/ \E command \in ShellCommands :
       \/ Bash(command)
       \/ command \in Destructive /\ IssueToken(command)
       \/ command \in Destructive /\ \E t \in Tokens : TakeToken(command, t)
  \/ \E t \in Tokens :
       TokenExpires(t) \/ \E approved \in BOOLEAN : ConfirmCommand(t, approved)
  \/ \E p \in DOMAIN processes : ProcessEnds(p) \/ TimeOut(p)

ConfirmationsTypeOK ==
  /\ issued \in Seq(Destructive)
  /\ pending \subseteq Tokens /\ expired \subseteq Tokens /\ denied \subseteq Tokens
  /\ processes \in Seq([command : ShellCommands, token : 0..MaxTokens,
                        state : {"running", "ended"}, call : {"waits", "answered", "timed_out"}])

----------------------------------------------------------------------------
OfToken(t) == {p \in DOMAIN processes : processes[p].token = t}

\* A confirmation is good for one run of the command the user was shown,
\* whichever way it comes back, and however often.
ConfirmedOnce ==
  \A t \in Tokens : \A p, q \in OfToken(t) : p = q /\ processes[p].command = issued[t]

\* What the user refused does not run.
RefusedNeverRuns == \A t \in denied : OfToken(t) = {}

\* A token answered after its five minutes starts nothing.
LateStartsNothing ==
  [][\A t \in expired : \A p \in DOMAIN processes' : processes'[p].token = t => p \in DOMAIN processes]_confirmationVars

(****************************************************************************)
(* The file tools on one file.  A content is a version and the set of the   *)
(* patches applied to it; a patch finds its place if what it builds on is   *)
(* there and it has not been applied.  An edit reads the file, patches in   *)
(* memory and writes it as a whole, over whatever came in between.          *)
(****************************************************************************)
CONSTANTS Editors, Patches, Later, MaxVersions

VARIABLES file, edit, applied, overwritten

fileVars == <<file, edit, applied, overwritten>>

Idle == [stage |-> "idle", read |-> [version |-> 0, patches |-> {}], patches |-> <<>>]
Orders == {<<p>> : p \in Patches} \cup (Patches \X Patches)

FileEditsInit ==
  /\ file = [version |-> 0, patches |-> {}]
  /\ edit = [e \in Editors |-> Idle]
  /\ applied = {}
  /\ overwritten = FALSE

\* A new content; its directories are made as needed.
WriteFile ==
  /\ file.version < MaxVersions
  /\ file' = [version |-> file.version + 1, patches |-> {}]
  /\ applied' = {}
  /\ UNCHANGED <<edit, overwritten>>

EditFile(e) ==
  /\ edit[e] = Idle
  /\ \E order \in Orders : edit' = [edit EXCEPT ![e] = [stage |-> "read", read |-> file, patches |-> order]]
  /\ UNCHANGED <<file, applied, overwritten>>

\* A patch of Later looks for text another patch brings.
Finds(content, p) == p \notin content /\ (p \in Later => content # {})
ApplyPatch(content, p) == IF Finds(content, p) THEN content \cup {p} ELSE content
Patched(e) == FoldLeft(ApplyPatch, edit[e].read.patches, edit[e].patches)

EditEnds(e) == edit' = [edit EXCEPT ![e] = Idle]

\* The patches that were found are reported as applied.
WriteEdited(e) ==
  /\ edit[e].stage = "read"
  /\ Patched(e) # edit[e].read.patches
  /\ EditEnds(e)
  /\ file' = [edit[e].read EXCEPT !.patches = Patched(e)]
  /\ applied' = applied \cup (Patched(e) \ edit[e].read.patches)
  /\ overwritten' = (overwritten \/ file # edit[e].read)

\* Without a patch that was found, or when the write fails, nothing changes.
EditFails(e) ==
  /\ edit[e].stage = "read"
  /\ EditEnds(e)
  /\ UNCHANGED <<file, applied, overwritten>>

FileEditsNext ==
  \/ WriteFile
  \/ \E e \in Editors : EditFile(e) \/ WriteEdited(e) \/ EditFails(e)

Contents == [version : 0..MaxVersions, patches : SUBSET Patches]

FileEditsTypeOK ==
  /\ file \in Contents /\ applied \subseteq Patches /\ overwritten \in BOOLEAN
  /\ edit \in [Editors -> [stage : {"idle", "read"}, read : Contents, patches : Orders \cup {<<>>}]]

----------------------------------------------------------------------------
\* What a call reported as applied is in the file until it is written anew,
\* unless a call wrote over what another had written since it read.
AppliedIsKept == applied \subseteq file.patches \/ overwritten

(****************************************************************************)
(* All of it.                                                               *)
(****************************************************************************)
systemToolsVars == <<confirmationVars, fileVars>>

Init ==
  /\ ConfirmationsInit
  /\ FileEditsInit

Next ==
  \/ ConfirmationsNext /\ UNCHANGED fileVars
  \/ FileEditsNext /\ UNCHANGED confirmationVars

Spec == Init /\ [][Next]_systemToolsVars

TypeOK ==
  /\ ConfirmationsTypeOK
  /\ FileEditsTypeOK
==============================================================================
