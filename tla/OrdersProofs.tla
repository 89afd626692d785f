------------------------------ MODULE OrdersProofs ---------------------------
(****************************************************************************)
(* Confirmations, edits, the context of the bounty agent, reports, work on  *)
(* bounties and its verification: what was ordered is done once and told as *)
(* it went.  Then the turns of a conversation, what is attached to them,    *)
(* and the members of a swarm.                                              *)
(****************************************************************************)
EXTENDS PolicyProofs

(****************************************************************************)
(* Confirmations of commands.                                               *)
(****************************************************************************)

\* A token that may still be taken has no process and was not refused, and each
\* process runs what its token was issued for.
Process == [command : ShellCommands, token : Nat, state : {"running", "ended"},
            call : {"waits", "answered", "timed_out"}]

ConfirmInv ==
  /\ issued \in Seq(ShellCommands)
  /\ pending \subseteq SystemTools!Tokens /\ expired \subseteq SystemTools!Tokens
  /\ denied \subseteq SystemTools!Tokens
  /\ processes \in Seq(Process)
  /\ \A p \in DOMAIN processes :
       processes[p].token # 0 =>
         /\ processes[p].token \in SystemTools!Tokens
         /\ processes[p].command = issued[processes[p].token]
         /\ processes[p].token \notin pending \union denied
  /\ \A p, q \in DOMAIN processes :
       processes[p].token = processes[q].token /\ processes[p].token # 0 => p = q
  /\ pending \cap denied = {}

\* A command started with no token, or with one that may be taken and no longer is.
LEMMA StartKeepsInv ==
  ASSUME ConfirmInv, NEW line \in ShellCommands, NEW t \in Nat,
         SystemTools!Start(line, t), pending' \subseteq pending, t \notin pending',
         issued' = issued, denied' = denied, expired' = expired,
         t # 0 => t \in pending /\ line = issued[t]
  PROVE  ConfirmInv'
<1>. USE DEF ConfirmInv, SystemTools!Tokens
<1>. DEFINE new == [command |-> line, token |-> t, state |-> "running", call |-> "waits"]
<1>1. processes' = Append(processes, new) /\ new \in Process
  BY DEF SystemTools!Start, Process
<1>2. processes \in Seq(Process)
  OBVIOUS
<1>. HIDE DEF new
<1>3. PICK n \in Nat : /\ n = Len(processes) /\ DOMAIN processes = 1 .. n
                       /\ DOMAIN processes' = 1 .. (n + 1) /\ processes' \in Seq(Process)
                       /\ processes'[n + 1] = new
                       /\ \A p \in 1 .. n : processes'[p] = processes[p]
  BY <1>1, <1>2
<1>4. new.token = t /\ new.command = line
  BY DEF new
<1>5. \A p \in 1 .. n : processes[p].token = t => t = 0
  BY <1>3
<1>6. \A p \in DOMAIN processes' :
        processes'[p].token # 0 =>
          /\ processes'[p].token \in SystemTools!Tokens
          /\ processes'[p].command = issued[processes'[p].token]
          /\ processes'[p].token \notin pending' \union denied
  <2>1. \A p \in 1 .. n : processes'[p].token # 0 =>
          /\ processes'[p].token \in SystemTools!Tokens
          /\ processes'[p].command = issued[processes'[p].token]
          /\ processes'[p].token \notin pending' \union denied
    BY <1>3
  <2>2. processes'[n + 1].token # 0 =>
          /\ processes'[n + 1].token \in SystemTools!Tokens
          /\ processes'[n + 1].command = issued[processes'[n + 1].token]
          /\ processes'[n + 1].token \notin pending' \union denied
    BY <1>3, <1>4
  <2>. QED
    BY <1>3, <2>1, <2>2
<1>7. \A p, q \in DOMAIN processes' :
        processes'[p].token = processes'[q].token /\ processes'[p].token # 0 => p = q
  <2>. SUFFICES ASSUME NEW p \in 1 .. (n + 1), NEW q \in 1 .. (n + 1),
                       processes'[p].token = processes'[q].token, processes'[p].token # 0
                PROVE  p = q
    BY <1>3
  <2>1. CASE p \in 1 .. n /\ q \in 1 .. n
    BY <1>3, <2>1
  <2>2. CASE p = n + 1 /\ q \in 1 .. n
    BY <1>3, <1>4, <1>5, <2>2
  <2>3. CASE q = n + 1 /\ p \in 1 .. n
    BY <1>3, <1>4, <1>5, <2>3
  <2>4. CASE p = n + 1 /\ q = n + 1
    BY <2>4
  <2>. QED
    BY <1>3, <2>1, <2>2, <2>3, <2>4
<1>. QED
  BY <1>3, <1>6, <1>7

\* What is pending or refused may change as long as neither gets a token that ran.
LEMMA TokensMove ==
  ASSUME ConfirmInv, pending' \subseteq pending, denied' \subseteq denied \union pending,
         pending' \cap denied' = {}, expired' \subseteq SystemTools!Tokens,
         UNCHANGED <<issued, processes>>
  PROVE  ConfirmInv'
<1>1. \A p \in DOMAIN processes :
        processes[p].token # 0 => processes[p].token \notin pending' \union denied'
  BY DEF ConfirmInv
<1>. QED
  BY <1>1 DEF ConfirmInv, SystemTools!Tokens

\* A process only changes its state and what its call was told.
LEMMA ProcessesMove ==
  ASSUME ConfirmInv, UNCHANGED <<issued, pending, expired, denied>>,
         NEW p \in DOMAIN processes, NEW now \in Process,
         now.command = processes[p].command, now.token = processes[p].token,
         processes' = [processes EXCEPT ![p] = now]
  PROVE  ConfirmInv' /\ DOMAIN processes' = DOMAIN processes
<1>1. processes \in Seq(Process)
  BY DEF ConfirmInv
<1>2. /\ processes' \in Seq(Process) /\ DOMAIN processes' = DOMAIN processes
      /\ \A q \in DOMAIN processes : q # p => processes'[q] = processes[q]
      /\ processes'[p] = now
  BY <1>1
<1>3. \A q \in DOMAIN processes : /\ processes'[q].token = processes[q].token
                                  /\ processes'[q].command = processes[q].command
  BY <1>2
<1>. QED
  BY <1>2, <1>3 DEF ConfirmInv, SystemTools!Tokens

\* A step keeps ConfirmInv, and an expired token starts no process.
LEMMA ConfirmStep ==
  ASSUME ConfirmInv, [SystemTools!ConfirmationsNext]_confirmVars
  PROVE  /\ ConfirmInv'
         /\ \A t \in expired : \A p \in DOMAIN processes' :
              processes'[p].token = t => p \in DOMAIN processes
<1>. DEFINE Goal == /\ ConfirmInv'
                    /\ \A t \in expired : \A p \in DOMAIN processes' :
                         processes'[p].token = t => p \in DOMAIN processes
<1>. SUFFICES Goal
  OBVIOUS
<1>0. /\ SystemTools!Tokens = 1 .. Len(issued) /\ Len(issued) \in Nat /\ 0 \notin SystemTools!Tokens
      /\ expired \subseteq SystemTools!Tokens
      /\ \A t \in SystemTools!Tokens : issued[t] \in ShellCommands /\ t \in Nat
  BY DEF ConfirmInv, SystemTools!Tokens
<1>1. ASSUME NEW line \in ShellCommands, NEW t \in Nat, SystemTools!Start(line, t),
             t \notin expired
      PROVE  \A u \in expired : \A p \in DOMAIN processes' :
               processes'[p].token = u => p \in DOMAIN processes
  <2>. DEFINE new == [command |-> line, token |-> t, state |-> "running", call |-> "waits"]
  <2>1. processes' = Append(processes, new)
    BY <1>1 DEF SystemTools!Start
  <2>2. PICK S : processes \in Seq(S)
    BY DEF ConfirmInv
  <2>3. new.token = t
    OBVIOUS
  <2>. HIDE DEF new
  <2>4. /\ DOMAIN processes = 1 .. Len(processes) /\ Len(processes) \in Nat
        /\ DOMAIN processes' = 1 .. (Len(processes) + 1)
        /\ processes'[Len(processes) + 1] = new
    <3>1. processes' \in Seq(S \union {new})
      BY <2>1, <2>2
    <3>. QED
      BY <2>1, <2>2, <3>1
  <2>. QED
    BY <1>1, <2>3, <2>4
<1>2. ASSUME NEW line \in ShellCommands, SystemTools!Bash(line)
      PROVE  Goal
  <2>1. /\ SystemTools!Start(line, 0) /\ UNCHANGED <<issued, pending, expired, denied>>
    BY <1>2 DEF SystemTools!Bash, SystemTools!NoToken
  <2>2. 0 \notin expired /\ 0 \notin pending'
    BY <1>0, <2>1 DEF ConfirmInv
  <2>. QED
    BY <1>1, <2>1, <2>2, StartKeepsInv
<1>3. ASSUME NEW line \in ShellCommands, SystemTools!IssueToken(line)
      PROVE  Goal
  <2>1. /\ issued' = Append(issued, line) /\ pending' = pending \union {Len(issued) + 1}
        /\ UNCHANGED <<expired, denied, processes>>
    BY <1>3 DEF SystemTools!IssueToken
  <2>2. /\ issued' \in Seq(ShellCommands) /\ DOMAIN issued' = 1 .. (Len(issued) + 1)
        /\ \A t \in 1 .. Len(issued) : issued'[t] = issued[t]
    BY <2>1 DEF ConfirmInv
  <2>3. SystemTools!Tokens' = SystemTools!Tokens \union {Len(issued) + 1}
    BY <1>0, <2>2 DEF SystemTools!Tokens
  <2>4. Len(issued) + 1 \notin SystemTools!Tokens
    BY <1>0
  <2>5. \A p \in DOMAIN processes :
          processes[p].token # 0 =>
            /\ processes[p].token \in SystemTools!Tokens'
            /\ processes[p].command = issued'[processes[p].token]
            /\ processes[p].token \notin pending' \union denied'
    BY <1>0, <2>1, <2>2, <2>3, <2>4 DEF ConfirmInv
  <2>6. /\ pending' \subseteq SystemTools!Tokens' /\ expired' \subseteq SystemTools!Tokens'
        /\ denied' \subseteq SystemTools!Tokens' /\ pending' \cap denied' = {}
    BY <1>0, <2>1, <2>3, <2>4 DEF ConfirmInv
  <2>. QED
    BY <2>1, <2>2, <2>5, <2>6 DEF ConfirmInv
<1>4. ASSUME NEW line \in ShellCommands, NEW t \in SystemTools!Tokens,
             SystemTools!TakeToken(line, t)
      PROVE  Goal
  <2>1. /\ t \in pending /\ pending' = pending \ {t} /\ UNCHANGED <<issued, expired, denied>>
    BY <1>4 DEF SystemTools!TakeToken
  <2>2. CASE SystemTools!Takes(t) /\ issued[t] = line
    <3>1. SystemTools!Start(line, t) /\ t \notin expired
      BY <1>4, <2>2 DEF SystemTools!TakeToken, SystemTools!Takes
    <3>. QED
      BY <1>0, <1>1, <2>1, <2>2, <3>1, StartKeepsInv
  <2>3. CASE ~(SystemTools!Takes(t) /\ issued[t] = line)
    <3>1. processes' = processes
      BY <1>4, <2>3 DEF SystemTools!TakeToken
    <3>2. pending' \cap denied' = {} /\ expired' \subseteq SystemTools!Tokens
      BY <1>0, <2>1 DEF ConfirmInv
    <3>. QED
      BY <2>1, <3>1, <3>2, TokensMove
  <2>. QED
    BY <2>2, <2>3
<1>5. ASSUME NEW t \in SystemTools!Tokens, SystemTools!TokenExpires(t)
      PROVE  Goal
  <2>1. /\ expired' \subseteq SystemTools!Tokens /\ UNCHANGED <<issued, pending, denied, processes>>
    BY <1>0, <1>5 DEF SystemTools!TokenExpires
  <2>2. pending' \cap denied' = {}
    BY <2>1 DEF ConfirmInv
  <2>. QED
    BY <2>1, <2>2, TokensMove
<1>6. ASSUME NEW t \in SystemTools!Tokens, NEW approved \in BOOLEAN,
             SystemTools!ConfirmCommand(t, approved)
      PROVE  Goal
  <2>1. /\ t \in pending /\ pending' = pending \ {t} /\ UNCHANGED <<issued, expired>>
        /\ denied' = IF approved THEN denied ELSE denied \union {t}
        /\ \/ approved /\ SystemTools!Takes(t) /\ SystemTools!Start(issued[t], t)
           \/ UNCHANGED processes
    BY <1>6 DEF SystemTools!ConfirmCommand
  <2>2. CASE approved /\ SystemTools!Takes(t) /\ SystemTools!Start(issued[t], t)
    <3>1. t \notin expired /\ denied' = denied
      BY <2>1, <2>2 DEF SystemTools!Takes
    <3>. QED
      BY <1>0, <1>1, <2>1, <2>2, <3>1, StartKeepsInv
  <2>3. CASE UNCHANGED processes
    <3>1. pending' \cap denied' = {} /\ expired' \subseteq SystemTools!Tokens
      BY <1>0, <2>1 DEF ConfirmInv
    <3>. QED
      BY <2>1, <2>3, <3>1, TokensMove
  <2>. QED
    BY <2>1, <2>2, <2>3
<1>7. ASSUME NEW p \in DOMAIN processes, SystemTools!ProcessEnds(p) \/ SystemTools!TimeOut(p)
      PROVE  Goal
  <2>1. processes[p] \in Process
    BY DEF ConfirmInv
  <2>0. PICK n \in Nat : processes \in [1 .. n -> Process] /\ p \in 1 .. n
    <3>1. processes \in Seq(Process)
      BY DEF ConfirmInv
    <3>2. processes \in [1 .. Len(processes) -> Process] /\ Len(processes) \in Nat
      BY <3>1
    <3>. QED
      BY <3>2
  <2>2. PICK now \in Process :
          /\ processes' = [processes EXCEPT ![p] = now]
          /\ now.command = processes[p].command /\ now.token = processes[p].token
    <3>1. CASE SystemTools!ProcessEnds(p)
      <4>1. PICK answer1 \in {"waits", "answered", "timed_out"} :
              answer1 = IF processes[p].call = "waits" THEN "answered" ELSE processes[p].call
        <5>1. processes[p].call \in {"waits", "answered", "timed_out"}
          BY <2>1 DEF Process
        <5>. QED
          BY <5>1
      <4>2. processes' = [processes EXCEPT ![p] = [processes[p] EXCEPT !.state = "ended", !.call = answer1]]
        BY <2>0, <3>1, <4>1 DEF SystemTools!ProcessEnds
      <4>3. /\ [processes[p] EXCEPT !.state = "ended", !.call = answer1] \in Process
            /\ [processes[p] EXCEPT !.state = "ended", !.call = answer1].command = processes[p].command
            /\ [processes[p] EXCEPT !.state = "ended", !.call = answer1].token = processes[p].token
        BY <2>1 DEF Process
      <4>. QED
        BY <4>2, <4>3
    <3>2. CASE SystemTools!TimeOut(p)
      <4>1. processes' = [processes EXCEPT ![p] = [processes[p] EXCEPT !.call = "timed_out"]]
        BY <2>0, <3>2 DEF SystemTools!TimeOut
      <4>2. /\ [processes[p] EXCEPT !.call = "timed_out"] \in Process
            /\ [processes[p] EXCEPT !.call = "timed_out"].command = processes[p].command
            /\ [processes[p] EXCEPT !.call = "timed_out"].token = processes[p].token
        BY <2>1 DEF Process
      <4>. QED
        BY <4>1, <4>2
    <3>. QED
      BY <1>7, <3>1, <3>2
  <2>3. UNCHANGED <<issued, pending, expired, denied>>
    BY <1>7 DEF SystemTools!ProcessEnds, SystemTools!TimeOut
  <2>. QED
    BY <2>2, <2>3, ProcessesMove
<1>8. CASE UNCHANGED confirmVars
  BY <1>8 DEF confirmVars, ConfirmInv, SystemTools!Tokens
<1>. HIDE DEF Goal
<1>. QED
  BY <1>2, <1>3, <1>4, <1>5, <1>6, <1>7, <1>8 DEF SystemTools!ConfirmationsNext

\* ConfirmInv holds in every reachable state.
LEMMA ConfirmHolds == Spec => []ConfirmInv
<1>1. Init => ConfirmInv
  <2>. SUFFICES ASSUME Init PROVE ConfirmInv
    OBVIOUS
  <2>1. issued = <<>> /\ pending = {} /\ expired = {} /\ denied = {} /\ processes = <<>>
    BY DEF Init, SystemTools!ConfirmationsInit
  <2>. QED
    BY <2>1 DEF ConfirmInv
<1>2. ConfirmInv /\ [Next]_vars => ConfirmInv'
  BY StepOfParts, ConfirmStep
<1>. QED
  BY <1>1, <1>2, PTL DEF Spec

\* What ConfirmInv says of tokens and calls is what the runs check.
LEMMA ConfirmedAsAsked ==
  ASSUME ConfirmInv PROVE SystemTools!ConfirmedOnce /\ SystemTools!RefusedNeverRuns
<1>1. 0 \notin SystemTools!Tokens /\ denied \subseteq SystemTools!Tokens
  BY DEF ConfirmInv, SystemTools!Tokens
<1>2. SystemTools!ConfirmedOnce
  BY <1>1 DEF ConfirmInv, SystemTools!ConfirmedOnce, SystemTools!OfToken
<1>3. SystemTools!RefusedNeverRuns
  BY <1>1 DEF ConfirmInv, SystemTools!RefusedNeverRuns, SystemTools!OfToken
<1>. QED
  BY <1>2, <1>3

(****************************************************************************)
(* Edits of a file.                                                         *)
(****************************************************************************)

\* Patches that are applied in turn take none away.
LEMMA PatchesStay ==
  ASSUME NEW n \in Nat, NEW q \in [1 .. n -> Patches], NEW content \in SUBSET Patches
  PROVE  /\ content \subseteq SystemTools!FoldLeft(SystemTools!ApplyPatch, content, q)
         /\ SystemTools!FoldLeft(SystemTools!ApplyPatch, content, q) \subseteq Patches
<1>. DEFINE D == 1 .. n
            V == {v \in SUBSET Patches : content \subseteq v}
            pick == [s \in SUBSET D |-> Max(s)]
            one == [i \in D |-> [v \in V |-> SystemTools!ApplyPatch(v, q[i])]]
            IsIt(g) == g = [s \in SUBSET D |->
                             IF s = {} THEN content
                             ELSE SystemTools!ApplyPatch(
                                    g[s \ {CHOOSE x \in s : \A y \in s : x >= y}],
                                    q[CHOOSE x \in s : \A y \in s : x >= y])]
<1>0. IsFiniteSet(D) /\ DOMAIN q = D /\ content \in V
  BY FS_Interval
<1>1. \A s \in SUBSET D : /\ pick[s] = CHOOSE x \in s : \A y \in s : x >= y
                          /\ s # {} => pick[s] \in s
  BY MaxIsLast DEF Max
<1>2. \A i \in D, v \in V : /\ one[i][v] = SystemTools!ApplyPatch(v, q[i])
                            /\ one[i][v] \in V
  BY DEF SystemTools!ApplyPatch
<1>3. PICK g \in [SUBSET D -> V] : IsFold(D, content, pick, one, g)
  <2>. HIDE DEF D, V, pick, one
  <2>. QED
    BY <1>0, <1>1, <1>2, FoldExists
<1>4. IsIt(g)
  <2>1. ASSUME NEW s \in SUBSET D
        PROVE  g[s] = IF s = {} THEN content
                      ELSE SystemTools!ApplyPatch(
                             g[s \ {CHOOSE x \in s : \A y \in s : x >= y}],
                             q[CHOOSE x \in s : \A y \in s : x >= y])
    <3>1. g[s] = IF s = {} THEN content ELSE one[pick[s]][g[s \ {pick[s]}]]
      BY <1>3 DEF IsFold
    <3>2. CASE s # {}
      <4>1. pick[s] \in D /\ g[s \ {pick[s]}] \in V
        BY <1>1, <1>3, <3>2
      <4>. HIDE DEF D, V, pick, one
      <4>. QED
        BY <1>1, <1>2, <3>1, <3>2, <4>1
    <3>. QED
      BY <3>1, <3>2
  <2>2. g = [s \in SUBSET D |-> g[s]]
    BY <1>3
  <2>. QED
    BY <2>1, <2>2
<1>5. SystemTools!FoldLeft(SystemTools!ApplyPatch, content, q) = (CHOOSE h : IsIt(h))[D]
  BY <1>0 DEF SystemTools!FoldLeft, SystemTools!MapThenFoldSet, SystemTools!Max
<1>6. PICK h : IsIt(h) /\ SystemTools!FoldLeft(SystemTools!ApplyPatch, content, q) = h[D]
  <2>. HIDE DEF IsIt
  <2>. QED
    BY <1>4, <1>5
<1>7. /\ h[{}] = content
      /\ \A s \in SUBSET D : s # {} => h[s] = SystemTools!ApplyPatch(h[s \ {pick[s]}], q[pick[s]])
  <2>. HIDE DEF pick
  <2>. QED
    BY <1>1, <1>6
<1>8. \A s \in SUBSET D : s # {} /\ h[s \ {pick[s]}] \in V =>
                            h[s] = one[pick[s]][h[s \ {pick[s]}]]
  <2>1. \A s \in SUBSET D : s # {} => pick[s] \in D
    BY <1>1
  <2>. HIDE DEF D, V, pick, one
  <2>. QED
    BY <1>2, <1>7, <2>1
<1>9. \A s \in SUBSET D : h[s] \in V
  <2>1. \A s \in SUBSET D : s # {} => pick[s] \in s
    BY <1>1
  <2>2. \A i \in D, v \in V : one[i][v] \in V
    BY <1>2
  <2>3. h[{}] = content
    BY <1>7
  <2>. HIDE DEF D, V, pick, one, IsIt
  <2>. QED
    <3>1. FoldsWithin(D, V, content, pick, one, h)
      BY <1>8, <2>1, <2>2, <2>3 DEF FoldsWithin
    <3>. QED
      BY <1>0, <3>1, FoldStaysIn
<1>10. h[D] \in V
  BY <1>9
<1>. QED
  BY <1>6, <1>10

FilesInv == SystemTools!FileEditsTypeOK /\ SystemTools!AppliedIsKept

\* A step of this part, or of another, keeps FilesInv.
LEMMA FilesStep ==
  ASSUME FilesInv, [SystemTools!FileEditsNext]_filesVars PROVE FilesInv'
<1>. USE DEF FilesInv
<1>. DEFINE Edits == [stage : {"idle", "read"}, read : SystemTools!Contents,
                      patches : SystemTools!Orders \cup {<<>>}]
<1>0. /\ MaxVersions \in Nat
      /\ file \in SystemTools!Contents /\ applied \subseteq Patches /\ overwritten \in BOOLEAN
      /\ edit \in [Editors -> Edits]
      /\ applied \subseteq file.patches \/ overwritten
      /\ SystemTools!Idle \in Edits
  <2>1. MaxVersions \in Nat
    BY ConstantsOfPolicy
  <2>2. /\ file \in SystemTools!Contents /\ applied \subseteq Patches /\ overwritten \in BOOLEAN
        /\ edit \in [Editors -> Edits]
        /\ applied \subseteq file.patches \/ overwritten
    BY DEF SystemTools!FileEditsTypeOK, SystemTools!AppliedIsKept
  <2>3. SystemTools!Idle \in Edits
    BY <2>1 DEF SystemTools!Idle, SystemTools!Contents
  <2>. QED
    BY <2>1, <2>2, <2>3
<1>1. CASE SystemTools!WriteFile
  <2>1. /\ file' = [version |-> file.version + 1, patches |-> {}] /\ file.version < MaxVersions
        /\ applied' = {} /\ UNCHANGED <<edit, overwritten>>
    BY <1>1 DEF SystemTools!WriteFile
  <2>2. file' \in SystemTools!Contents
    BY <1>0, <2>1 DEF SystemTools!Contents
  <2>. QED
    BY <1>0, <2>1, <2>2 DEF SystemTools!FileEditsTypeOK, SystemTools!AppliedIsKept
<1>2. ASSUME NEW e \in Editors, SystemTools!EditFile(e)
      PROVE  FilesInv'
  <2>1. PICK order \in SystemTools!Orders :
          /\ edit' = [edit EXCEPT ![e] = [stage |-> "read", read |-> file, patches |-> order]]
          /\ UNCHANGED <<file, applied, overwritten>>
    BY <1>2 DEF SystemTools!EditFile
  <2>2. [stage |-> "read", read |-> file, patches |-> order] \in Edits
    BY <1>0
  <2>3. edit' \in [Editors -> Edits]
    <3>. HIDE DEF Edits
    <3>. QED
      BY <1>0, <2>1, <2>2
  <2>. QED
    BY <1>0, <2>1, <2>3 DEF SystemTools!FileEditsTypeOK, SystemTools!AppliedIsKept
<1>3. ASSUME NEW e \in Editors, SystemTools!EditEnds(e)
      PROVE  edit' \in [Editors -> Edits]
  <2>. HIDE DEF Edits
  <2>. QED
    BY <1>0, <1>3 DEF SystemTools!EditEnds
<1>4. ASSUME NEW e \in Editors, SystemTools!WriteEdited(e)
      PROVE  FilesInv'
  <2>1. PICK content \in SystemTools!Contents, q \in SystemTools!Orders \union {<<>>} :
          content = edit[e].read /\ q = edit[e].patches
    <3>1. edit[e] \in Edits
      BY <1>0
    <3>. QED
      BY <3>1
  <2>2. PICK v \in Nat, before \in SUBSET Patches :
          content = [version |-> v, patches |-> before] /\ v \in 0 .. MaxVersions
    BY <1>0 DEF SystemTools!Contents
  <2>3. PICK n \in Nat : q \in [1 .. n -> Patches]
    <3>1. CASE q = <<>>
      <4>1. q \in [1 .. 0 -> Patches]
        BY <3>1
      <4>. QED
        BY <4>1
    <3>2. CASE q \in {<<p>> : p \in Patches}
      <4>1. q \in [1 .. 1 -> Patches]
        BY <3>2
      <4>. QED
        BY <4>1
    <3>3. CASE q \in Patches \X Patches
      <4>1. q \in [1 .. 2 -> Patches]
        <5>1. PICK p \in Patches, r \in Patches : q = <<p, r>>
          BY <3>3
        <5>. QED
          BY <5>1
      <4>. QED
        BY <4>1
    <3>. QED
      BY <3>1, <3>2, <3>3 DEF SystemTools!Orders
  <2>4. PICK after \in SUBSET Patches : after = SystemTools!Patched(e) /\ before \subseteq after
    BY <2>1, <2>2, <2>3, PatchesStay DEF SystemTools!Patched
  <2>5. /\ file' = [version |-> v, patches |-> after]
        /\ applied' = applied \union (after \ before)
        /\ overwritten' = (overwritten \/ file # content)
        /\ SystemTools!EditEnds(e)
    BY <1>4, <2>1, <2>2, <2>4 DEF SystemTools!WriteEdited
  <2>6. file' \in SystemTools!Contents /\ file'.patches = after /\ overwritten' \in BOOLEAN
    BY <2>2, <2>5 DEF SystemTools!Contents
  <2>7. CASE overwritten'
    BY <1>0, <1>3, <2>5, <2>6, <2>7 DEF SystemTools!FileEditsTypeOK, SystemTools!AppliedIsKept
  <2>8. CASE ~overwritten'
    <3>1. file = content /\ ~overwritten
      BY <1>0, <2>5, <2>8
    <3>2. applied' \subseteq after
      BY <1>0, <2>2, <2>4, <2>5, <3>1
    <3>. QED
      BY <1>0, <1>3, <2>5, <2>6, <3>2 DEF SystemTools!FileEditsTypeOK, SystemTools!AppliedIsKept
  <2>. QED
    BY <2>7, <2>8
<1>5. ASSUME NEW e \in Editors, SystemTools!EditFails(e)
      PROVE  FilesInv'
  <2>1. SystemTools!EditEnds(e) /\ UNCHANGED <<file, applied, overwritten>>
    BY <1>5 DEF SystemTools!EditFails
  <2>. QED
    BY <1>0, <1>3, <2>1 DEF SystemTools!FileEditsTypeOK, SystemTools!AppliedIsKept
<1>6. CASE UNCHANGED filesVars
  BY <1>6 DEF filesVars, SystemTools!FileEditsTypeOK, SystemTools!AppliedIsKept
<1>. QED
  BY <1>1, <1>2, <1>4, <1>5, <1>6 DEF SystemTools!FileEditsNext

\* FilesInv holds in every reachable state.
LEMMA FilesHold == Spec => []FilesInv
<1>1. Init => FilesInv
  <2>. SUFFICES ASSUME Init PROVE FilesInv
    OBVIOUS
  <2>1. /\ file = [version |-> 0, patches |-> {}] /\ edit = [e \in Editors |-> SystemTools!Idle]
        /\ applied = {} /\ overwritten = FALSE /\ MaxVersions \in Nat
    BY ConstantsOfPolicy DEF Init, SystemTools!FileEditsInit
  <2>2. [version |-> 0, patches |-> {}] \in SystemTools!Contents
    BY <2>1 DEF SystemTools!Contents
  <2>3. SystemTools!Idle \in [stage : {"idle", "read"}, read : SystemTools!Contents,
                              patches : SystemTools!Orders \cup {<<>>}]
    BY <2>2 DEF SystemTools!Idle
  <2>4. SystemTools!FileEditsTypeOK
    <3>1. edit \in [Editors -> [stage : {"idle", "read"}, read : SystemTools!Contents,
                               patches : SystemTools!Orders \cup {<<>>}]]
      BY <2>1, <2>3
    <3>. QED
      BY <2>1, <2>2, <3>1 DEF SystemTools!FileEditsTypeOK
  <2>. QED
    BY <2>1, <2>4 DEF FilesInv, SystemTools!AppliedIsKept
<1>2. FilesInv /\ [Next]_vars => FilesInv'
  BY StepOfParts, FilesStep
<1>. QED
  BY <1>1, <1>2, PTL DEF Spec

(****************************************************************************)
(* The context of the bounty agent.                                         *)
(****************************************************************************)
ContextLine == [key : AgentContext!Keys, value : Values \cup {Garbled}]
ContextInv ==
  /\ agentContextFile \in Seq(ContextLine)
  /\ AgentContext!ContextAgrees

\* A number that fits its width is not cut.
LEMMA LimitFits == DefaultLimit % LimitWidth = DefaultLimit
<1>1. LimitWidth \in Nat /\ DefaultLimit \in 0 .. (LimitWidth - 1)
  BY ConstantsOfPolicy
<1>. QED
  BY <1>1

\* A key without a line, or with no number on its first line, is not heard, and
\* what is heard stands on a line.
LEMMA FirstIsHeard ==
  ASSUME ContextInv, NEW key, NEW default
  PROVE  /\ AgentContext!Extract(key, default) = default
            \/ AgentContext!Extract(key, default) \in AgentContext!Numbers(key)
         /\ (\E i \in DOMAIN agentContextFile :
               /\ agentContextFile[i].key = key /\ agentContextFile[i].value = Garbled
               /\ \A j \in 1 .. (i - 1) : agentContextFile[j].key # key) =>
              AgentContext!Extract(key, default) = default
<1>. DEFINE with == {i \in DOMAIN agentContextFile : agentContextFile[i].key = key}
<1>1. PICK n \in Nat : DOMAIN agentContextFile = 1 .. n
  BY DEF ContextInv
<1>2. \A i \in DOMAIN agentContextFile :
        agentContextFile[i].value \in Values \/ agentContextFile[i].value = Garbled
  <2>1. \A i \in DOMAIN agentContextFile : agentContextFile[i] \in ContextLine
    BY DEF ContextInv
  <2>. QED
    BY <2>1 DEF ContextLine
<1>3. CASE with = {}
  BY <1>3 DEF AgentContext!Extract
<1>4. CASE with # {}
  <2>1. PICK i \in with : /\ \A j \in with : i <= j
                          /\ i = CHOOSE k \in with : \A j \in with : k <= j
    <3>1. with \subseteq Nat
      BY <1>1
    <3>2. \E i \in with : \A j \in with : i <= j
      <4>. HIDE DEF with
      <4>. QED
        BY <1>4, <3>1, Smallest
    <3>. HIDE DEF with
    <3>. QED
      BY <3>2
  <2>2. AgentContext!Extract(key, default) = IF agentContextFile[i].value = Garbled THEN default
                                             ELSE agentContextFile[i].value
    BY <1>4, <2>1 DEF AgentContext!Extract
  <2>3. agentContextFile[i].value # Garbled => agentContextFile[i].value \in AgentContext!Numbers(key)
    BY <1>2, <2>1 DEF AgentContext!Numbers, AgentContext!Says
  <2>4. ASSUME NEW k \in DOMAIN agentContextFile,
               agentContextFile[k].key = key, agentContextFile[k].value = Garbled,
               \A j \in 1 .. (k - 1) : agentContextFile[j].key # key
        PROVE  i = k
    <3>1. k \in with /\ i <= k /\ i \in 1 .. n /\ k \in 1 .. n
      BY <1>1, <2>1, <2>4
    <3>2. i \notin 1 .. (k - 1)
      BY <2>1, <2>4
    <3>. QED
      BY <3>1, <3>2
  <2>. QED
    BY <2>2, <2>3, <2>4
<1>. QED
  BY <1>3, <1>4

\* A step keeps ContextInv, and a garbled limit read from the file becomes the default.
LEMMA ContextStep ==
  ASSUME ContextInv, [AgentContext!Next]_agentContextVars
  PROVE  /\ ContextInv'
         /\ \A i \in DOMAIN agentContextFile :
              context' # context /\ context'.source = "file"
              /\ agentContextFile[i] = [key |-> "daily_bounty_limit", value |-> Garbled]
              /\ (\A j \in 1..(i - 1) : agentContextFile[j].key # "daily_bounty_limit") =>
                context'.limit = DefaultLimit
<1>. DEFINE limit == AgentContext!Extract("daily_bounty_limit", DefaultLimit)
<1>1. CASE AgentContext!Load
  <2>1. agentContextFile' = agentContextFile
    BY <1>1 DEF AgentContext!Load
  <2>2. CASE AgentContext!Validate(AgentContext!Parsed)
    <3>1. /\ context'.limit = limit % LimitWidth
          /\ context'.quality = Quality /\ context'.points = Points
      BY <1>1, <2>2 DEF AgentContext!Load, AgentContext!Parsed, AgentContext!Validate,
         AgentContext!ExtractNestedYamlU64
    <3>2. limit = DefaultLimit \/ limit \in AgentContext!Numbers("daily_bounty_limit")
      BY FirstIsHeard
    <3>3. AgentContext!ContextAgrees'
      <4>1. AgentContext!Numbers("daily_bounty_limit")' = AgentContext!Numbers("daily_bounty_limit")
        BY <2>1 DEF AgentContext!Numbers, AgentContext!Says
      <4>2. \/ context'.limit = DefaultLimit
            \/ \E v \in AgentContext!Numbers("daily_bounty_limit") : context'.limit = v % LimitWidth
        <5>. HIDE DEF limit
        <5>. QED
          BY <3>1, <3>2, LimitFits
      <4>. QED
        BY <3>1, <4>1, <4>2 DEF AgentContext!ContextAgrees
    <3>4. ASSUME NEW i \in DOMAIN agentContextFile,
                 agentContextFile[i] = [key |-> "daily_bounty_limit", value |-> Garbled],
                 \A j \in 1..(i - 1) : agentContextFile[j].key # "daily_bounty_limit"
          PROVE  context'.limit = DefaultLimit
      <4>1. agentContextFile[i].key = "daily_bounty_limit" /\ agentContextFile[i].value = Garbled
        BY <3>4
      <4>2. limit = DefaultLimit
        BY <3>4, <4>1, FirstIsHeard
      <4>. HIDE DEF limit
      <4>. QED
        BY <3>1, <4>2, LimitFits
    <3>. QED
      BY <2>1, <3>3, <3>4 DEF ContextInv
  <2>3. CASE ~AgentContext!Validate(AgentContext!Parsed)
    <3>1. context' = AgentContext!Defaults
      BY <1>1, <2>3 DEF AgentContext!Load
    <3>. QED
      BY <2>1, <3>1 DEF AgentContext!Defaults, ContextInv, AgentContext!ContextAgrees
  <2>. QED
    BY <2>2, <2>3
<1>2. ASSUME NEW key \in AgentContext!Keys, NEW value \in Values \cup {Garbled},
             AgentContext!WriteLine(key, value)
      PROVE  ContextInv' /\ context' = context
  <2>1. /\ agentContextFile' = Append(agentContextFile, [key |-> key, value |-> value])
        /\ context' = context
    BY <1>2 DEF AgentContext!WriteLine
  <2>2. [key |-> key, value |-> value] \in ContextLine /\ agentContextFile \in Seq(ContextLine)
    BY DEF ContextInv, ContextLine
  <2>3. /\ agentContextFile' \in Seq(ContextLine)
        /\ \A i \in DOMAIN agentContextFile :
             i \in DOMAIN agentContextFile' /\ agentContextFile'[i] = agentContextFile[i]
    BY <2>1, <2>2
  <2>4. AgentContext!Numbers("daily_bounty_limit") \subseteq AgentContext!Numbers("daily_bounty_limit")'
    BY <2>3 DEF AgentContext!Numbers, AgentContext!Says
  <2>5. AgentContext!ContextAgrees'
    BY <2>1, <2>4 DEF ContextInv, AgentContext!ContextAgrees
  <2>. QED
    BY <2>1, <2>3, <2>5 DEF ContextInv
<1>3. CASE UNCHANGED agentContextVars
  BY <1>3 DEF agentContextVars, ContextInv, AgentContext!ContextAgrees, AgentContext!Numbers,
     AgentContext!Says
<1>. QED
  BY <1>1, <1>2, <1>3 DEF AgentContext!Next

\* ContextInv holds in every reachable state.
LEMMA ContextHolds == Spec => []ContextInv
<1>1. Init => ContextInv
  BY DEF Init, AgentContext!Init, ContextInv, AgentContext!ContextAgrees, AgentContext!Defaults
<1>2. ContextInv /\ [Next]_vars => ContextInv'
  BY StepOfParts, ContextStep
<1>. QED
  BY <1>1, <1>2, PTL DEF Spec

(****************************************************************************)
(* Reports to the protocol.                                                 *)
(****************************************************************************)
Intake == [state : {"pending", "evaluated"}, bounty : BountyWork!Ids \cup {0}]

\* A report of the queue leads to the bounty of its number or to none.
QueueInv ==
  /\ intakes \in Seq(Intake) /\ Len(intakes) <= MaxIntakes
  /\ \A i \in DOMAIN intakes :
       /\ intakes[i].bounty \in {0, i}
       /\ intakes[i].state = "pending" => intakes[i].bounty = 0
  /\ bountyStatus \in [BountyWork!Ids -> 0 .. 2]

\* What a session was told is no more than there is now.
ToldInv ==
  /\ protocolIntakeReports \in [Sessions -> [BountyWork!Ids ->
                    [intake : {"none", "pending", "evaluated"}, bounty : BountyWork!Ids \cup {0}, status : 0 .. 2]]]
  /\ \A s \in Sessions, i \in BountyWork!Ids :
       /\ protocolIntakeReports[s][i].intake # "none" => i \in DOMAIN intakes
       /\ protocolIntakeReports[s][i].intake = "evaluated" => intakes[i].state = "evaluated"
       /\ protocolIntakeReports[s][i].bounty # 0 =>
            /\ protocolIntakeReports[s][i].intake = "evaluated" /\ protocolIntakeReports[s][i].bounty = i
            /\ intakes[i].bounty = i /\ protocolIntakeReports[s][i].status <= bountyStatus[i]

\* What a session learned by the first of its requests is no less than what it
\* was told, and the bounty it learned of is the one of the report.
AskedInv ==
  /\ check \in [Sessions -> [id : BountyWork!Ids \cup {0}, intake : {"none", "pending", "evaluated"},
                             found : BountyWork!Ids \cup {0}]]
  /\ \A s \in Sessions :
       check[s] # BountyWork!NoCheck =>
         /\ check[s].id \in DOMAIN intakes /\ check[s].intake # "none"
         /\ check[s].intake = "evaluated" => /\ intakes[check[s].id].state = "evaluated"
                                             /\ check[s].found = intakes[check[s].id].bounty
         /\ check[s].intake = "pending" => /\ check[s].found = 0
                                           /\ protocolIntakeReports[s][check[s].id].intake # "evaluated"

\* The ids that sessions know are of protocolIntakeReports of the queue.
FiledInv ==
  /\ told \in [Sessions -> SUBSET (BountyWork!Ids \cup {UnknownId})] /\ lost \in Nat
  /\ \A s \in Sessions : told[s] \cap BountyWork!Ids \subseteq DOMAIN intakes
  /\ filing \in [Sessions -> BOOLEAN]
  /\ BountyWork!FiledOnceUnlessLost

ReportsInv == QueueInv /\ ToldInv /\ AskedInv /\ FiledInv

\* What was in the queue stays, and what was decided of it.
QueueGrows ==
  /\ DOMAIN intakes \subseteq DOMAIN intakes'
  /\ \A i \in DOMAIN intakes : intakes[i].state = "evaluated" => intakes'[i] = intakes[i]
  /\ \A i \in BountyWork!Ids : bountyStatus[i] <= bountyStatus'[i]

\* A step keeps the queue typed, and intakes only become more.
LEMMA QueueStep ==
  ASSUME ReportsInv, [BountyWork!ProtocolIntakeNext]_protocolIntakeVars
  PROVE  QueueInv' /\ QueueGrows
<1>. DEFINE Goal == QueueInv' /\ QueueGrows
<1>. SUFFICES Goal
  OBVIOUS
<1>0. MaxIntakes \in Nat /\ BountyWork!Ids = 1 .. MaxIntakes
  BY ConstantsOfPolicy DEF BountyWork!Ids
<1>1. PICK n \in Nat : /\ n = Len(intakes) /\ DOMAIN intakes = 1 .. n /\ n <= MaxIntakes
                       /\ intakes \in Seq(Intake) /\ intakes \in [1 .. n -> Intake]
  <2>1. intakes \in Seq(Intake) /\ Len(intakes) <= MaxIntakes
    BY DEF ReportsInv, QueueInv
  <2>. QED
    BY <2>1
<1>2. \A i \in DOMAIN intakes : intakes[i] \in Intake
  BY <1>1
<1>3. bountyStatus \in [BountyWork!Ids -> 0 .. 2]
  BY DEF ReportsInv, QueueInv
<1>4. \A i \in BountyWork!Ids : bountyStatus[i] <= bountyStatus[i]
  BY <1>3
<1>5. ASSUME UNCHANGED <<intakes, bountyStatus>> PROVE Goal
  BY <1>4, <1>5 DEF ReportsInv, QueueInv, QueueGrows
<1>6. ASSUME NEW s \in Sessions, BountyWork!RelayTakes(s) PROVE Goal
  <2>. DEFINE new == [state |-> "pending", bounty |-> 0]
  <2>1. intakes' = Append(intakes, new) /\ Len(intakes) < MaxIntakes /\ UNCHANGED bountyStatus
    BY <1>6 DEF BountyWork!RelayTakes, BountyWork!NoBounty
  <2>2. new \in Intake /\ new.bounty = 0
    BY DEF Intake
  <2>. HIDE DEF new
  <2>3. /\ intakes' \in Seq(Intake) /\ Len(intakes') = n + 1 /\ DOMAIN intakes' = 1 .. (n + 1)
        /\ \A i \in 1 .. n : intakes'[i] = intakes[i]
        /\ intakes'[n + 1] = new
    BY <1>1, <2>1, <2>2
  <2>4. \A i \in DOMAIN intakes' : /\ intakes'[i].bounty \in {0, i}
                                   /\ intakes'[i].state = "pending" => intakes'[i].bounty = 0
    <3>1. \A i \in 1 .. n : /\ intakes'[i].bounty \in {0, i}
                            /\ intakes'[i].state = "pending" => intakes'[i].bounty = 0
      BY <1>1, <2>3 DEF ReportsInv, QueueInv
    <3>. QED
      BY <2>2, <2>3, <3>1
  <2>. QED
    BY <1>0, <1>1, <1>3, <1>4, <2>1, <2>3, <2>4 DEF QueueInv, QueueGrows
<1>7. ASSUME NEW i \in BountyWork!Ids, BountyWork!Evaluate(i) PROVE Goal
  <2>1. PICK b \in {0, i} :
          /\ i \in DOMAIN intakes /\ intakes[i].state = "pending"
          /\ intakes' = [intakes EXCEPT ![i] = [state |-> "evaluated", bounty |-> b]]
          /\ UNCHANGED bountyStatus
    BY <1>7 DEF BountyWork!Evaluate, BountyWork!NoBounty
  <2>. DEFINE new == [state |-> "evaluated", bounty |-> b]
  <2>2. new \in Intake /\ new.bounty = b /\ new.state = "evaluated"
    BY DEF Intake
  <2>. HIDE DEF new
  <2>3. intakes' = [intakes EXCEPT ![i] = new]
    BY <2>1 DEF new
  <2>4. /\ intakes' \in Seq(Intake) /\ Len(intakes') = n /\ DOMAIN intakes' = 1 .. n
        /\ \A j \in 1 .. n : j # i => intakes'[j] = intakes[j]
        /\ intakes'[i] = new
    BY <1>1, <2>1, <2>2, <2>3
  <2>5. \A j \in DOMAIN intakes' : /\ intakes'[j].bounty \in {0, j}
                                   /\ intakes'[j].state = "pending" => intakes'[j].bounty = 0
    <3>1. \A j \in 1 .. n : j # i => /\ intakes'[j].bounty \in {0, j}
                                     /\ intakes'[j].state = "pending" => intakes'[j].bounty = 0
      BY <1>1, <2>4 DEF ReportsInv, QueueInv
    <3>. QED
      BY <2>2, <2>4, <3>1
  <2>6. \A j \in DOMAIN intakes : intakes[j].state = "evaluated" => intakes'[j] = intakes[j]
    BY <1>1, <2>1, <2>4
  <2>. QED
    BY <1>1, <1>3, <1>4, <2>1, <2>4, <2>5, <2>6 DEF QueueInv, QueueGrows
<1>8. ASSUME NEW b \in BountyWork!Ids, BountyWork!BountyMoves(b) PROVE Goal
  <2>1. /\ bountyStatus[b] < 2 /\ bountyStatus' = [bountyStatus EXCEPT ![b] = bountyStatus[b] + 1]
        /\ intakes' = intakes
    BY <1>8 DEF BountyWork!BountyMoves
  <2>2. /\ bountyStatus' \in [BountyWork!Ids -> 0 .. 2]
        /\ \A i \in BountyWork!Ids : bountyStatus[i] <= bountyStatus'[i]
    BY <1>3, <2>1
  <2>. QED
    BY <2>1, <2>2 DEF ReportsInv, QueueInv, QueueGrows
<1>9. ASSUME NEW s \in Sessions, \/ BountyWork!SubmitProtocolIntake(s) \/ BountyWork!RelayRefuses(s)
                                 \/ BountyWork!CheckProtocolIntakeStatus(s) \/ BountyWork!CheckBounty(s)
      PROVE  Goal
  <2>1. UNCHANGED <<intakes, bountyStatus>>
    BY <1>9 DEF BountyWork!SubmitProtocolIntake, BountyWork!RelayRefuses,
       BountyWork!CheckProtocolIntakeStatus, BountyWork!CheckBounty
  <2>. QED
    BY <1>5, <2>1
<1>10. CASE UNCHANGED protocolIntakeVars
  BY <1>5, <1>10 DEF protocolIntakeVars
<1>. HIDE DEF Goal
<1>. QED
  BY <1>6, <1>7, <1>8, <1>9, <1>10 DEF BountyWork!ProtocolIntakeNext

\* As the queue grows, what sessions know of it stays within it.
LEMMA KnownStays ==
  ASSUME ReportsInv, QueueInv', QueueGrows, UNCHANGED <<protocolIntakeReports, check>>
  PROVE  ToldInv' /\ AskedInv'
<1>0. \A s \in Sessions, i \in BountyWork!Ids :
        protocolIntakeReports[s][i].status \in Nat /\ bountyStatus[i] \in Nat /\ bountyStatus'[i] \in Nat
  <2>1. \A s \in Sessions, i \in BountyWork!Ids :
          protocolIntakeReports[s][i] \in [intake : {"none", "pending", "evaluated"}, bounty : BountyWork!Ids \cup {0},
                             status : 0 .. 2]
    BY DEF ReportsInv, ToldInv
  <2>2. \A i \in BountyWork!Ids : bountyStatus[i] \in 0 .. 2 /\ bountyStatus'[i] \in 0 .. 2
    BY DEF ReportsInv, QueueInv
  <2>. QED
    BY <2>1, <2>2
<1>1. ToldInv'
  <2>1. ASSUME NEW s \in Sessions, NEW i \in BountyWork!Ids
        PROVE  /\ protocolIntakeReports[s][i].intake # "none" => i \in DOMAIN intakes'
               /\ protocolIntakeReports[s][i].intake = "evaluated" => intakes'[i].state = "evaluated"
               /\ protocolIntakeReports[s][i].bounty # 0 =>
                    /\ protocolIntakeReports[s][i].intake = "evaluated" /\ protocolIntakeReports[s][i].bounty = i
                    /\ intakes'[i].bounty = i /\ protocolIntakeReports[s][i].status <= bountyStatus'[i]
    <3>1. /\ protocolIntakeReports[s][i].intake # "none" => i \in DOMAIN intakes
          /\ protocolIntakeReports[s][i].intake = "evaluated" => intakes[i].state = "evaluated"
          /\ protocolIntakeReports[s][i].bounty # 0 =>
               /\ protocolIntakeReports[s][i].intake = "evaluated" /\ protocolIntakeReports[s][i].bounty = i
               /\ intakes[i].bounty = i /\ protocolIntakeReports[s][i].status <= bountyStatus[i]
      BY DEF ReportsInv, ToldInv
    <3>2. bountyStatus[i] <= bountyStatus'[i]
      BY DEF QueueGrows
    <3>3. protocolIntakeReports[s][i].status <= bountyStatus[i] => protocolIntakeReports[s][i].status <= bountyStatus'[i]
      BY <1>0, <3>2
    <3>4. protocolIntakeReports[s][i].intake = "evaluated" => i \in DOMAIN intakes /\ intakes'[i] = intakes[i]
      BY <3>1 DEF QueueGrows
    <3>. QED
      BY <3>1, <3>3, <3>4 DEF QueueGrows
  <2>2. protocolIntakeReports' = protocolIntakeReports
    OBVIOUS
  <2>. QED
    BY <2>1, <2>2 DEF ReportsInv, ToldInv
<1>2. AskedInv'
  <2>1. ASSUME NEW s \in Sessions, check[s] # BountyWork!NoCheck
        PROVE  /\ check[s].id \in DOMAIN intakes' /\ check[s].intake # "none"
               /\ check[s].intake = "evaluated" => /\ intakes'[check[s].id].state = "evaluated"
                                                   /\ check[s].found = intakes'[check[s].id].bounty
               /\ check[s].intake = "pending" => /\ check[s].found = 0
                                                 /\ protocolIntakeReports[s][check[s].id].intake # "evaluated"
    <3>1. /\ check[s].id \in DOMAIN intakes /\ check[s].intake # "none"
          /\ check[s].intake = "evaluated" => /\ intakes[check[s].id].state = "evaluated"
                                              /\ check[s].found = intakes[check[s].id].bounty
          /\ check[s].intake = "pending" => /\ check[s].found = 0
                                            /\ protocolIntakeReports[s][check[s].id].intake # "evaluated"
      BY <2>1 DEF ReportsInv, AskedInv
    <3>. QED
      BY <3>1 DEF QueueGrows
  <2>2. check' = check /\ protocolIntakeReports' = protocolIntakeReports /\ BountyWork!NoCheck' = BountyWork!NoCheck
    BY DEF BountyWork!NoCheck
  <2>. QED
    BY <2>1, <2>2 DEF ReportsInv, AskedInv
<1>. QED
  BY <1>1, <1>2

\* The first request reads what the queue has of the report.
LEMMA FirstRequest ==
  ASSUME ReportsInv, NEW s \in Sessions, BountyWork!CheckProtocolIntakeStatus(s)
  PROVE  ToldInv' /\ AskedInv' /\ UNCHANGED <<protocolIntakeReports, intakes>>
<1>0. MaxIntakes \in Nat /\ BountyWork!Ids = 1 .. MaxIntakes
  BY ConstantsOfPolicy DEF BountyWork!Ids
<1>1. PICK i \in told[s] \cap DOMAIN intakes :
        /\ check' = [check EXCEPT ![s] = [id |-> i, intake |-> intakes[i].state, found |-> intakes[i].bounty]]
        /\ UNCHANGED <<intakes, bountyStatus, protocolIntakeReports>>
  BY DEF BountyWork!CheckProtocolIntakeStatus
<1>2. intakes[i] \in Intake /\ i \in BountyWork!Ids
  <2>1. intakes \in Seq(Intake) /\ Len(intakes) <= MaxIntakes
    BY DEF ReportsInv, QueueInv
  <2>. QED
    BY <1>0, <2>1
<1>3. PICK now : now = [id |-> i, intake |-> intakes[i].state, found |-> intakes[i].bounty]
  OBVIOUS
<1>4. /\ now \in [id : BountyWork!Ids \cup {0}, intake : {"none", "pending", "evaluated"},
                  found : BountyWork!Ids \cup {0}]
      /\ now.id = i /\ now.intake = intakes[i].state /\ now.found = intakes[i].bounty
      /\ now.intake \in {"pending", "evaluated"}
  BY <1>2, <1>3 DEF Intake
<1>5. /\ check' \in [Sessions -> [id : BountyWork!Ids \cup {0}, intake : {"none", "pending", "evaluated"},
                                  found : BountyWork!Ids \cup {0}]]
      /\ check'[s] = now /\ \A o \in Sessions : o # s => check'[o] = check[o]
  BY <1>1, <1>3, <1>4 DEF ReportsInv, AskedInv
<1>6. now.intake = "pending" => now.found = 0 /\ protocolIntakeReports[s][now.id].intake # "evaluated"
  <2>1. i \in told[s] /\ i \in DOMAIN intakes
    BY <1>1
  <2>2. intakes[i].state = "pending" => intakes[i].bounty = 0
    BY <2>1 DEF ReportsInv, QueueInv
  <2>3. protocolIntakeReports[s][i].intake = "evaluated" => intakes[i].state = "evaluated"
    BY <1>2, <2>1 DEF ReportsInv, ToldInv
  <2>. QED
    BY <1>4, <2>2, <2>3
<1>7. ASSUME NEW o \in Sessions, check'[o] # BountyWork!NoCheck
      PROVE  /\ check'[o].id \in DOMAIN intakes /\ check'[o].intake # "none"
             /\ check'[o].intake = "evaluated" => /\ intakes[check'[o].id].state = "evaluated"
                                                  /\ check'[o].found = intakes[check'[o].id].bounty
             /\ check'[o].intake = "pending" => /\ check'[o].found = 0
                                                /\ protocolIntakeReports[o][check'[o].id].intake # "evaluated"
  <2>1. CASE o = s
    BY <1>1, <1>4, <1>5, <1>6, <2>1
  <2>2. CASE o # s
    <3>1. check'[o] = check[o]
      BY <1>5, <2>2
    <3>. QED
      BY <1>7, <3>1 DEF ReportsInv, AskedInv
  <2>. QED
    BY <2>1, <2>2
<1>8. UNCHANGED <<intakes, protocolIntakeReports>> /\ BountyWork!NoCheck' = BountyWork!NoCheck
  BY <1>1 DEF BountyWork!NoCheck
<1>9. AskedInv'
  BY <1>5, <1>7, <1>8 DEF AskedInv
<1>10. ToldInv'
  BY <1>1 DEF ReportsInv, ToldInv
<1>. QED
  BY <1>8, <1>9, <1>10

\* The second request tells what the first read, and the bounty as it is now.
LEMMA SecondRequest ==
  ASSUME ReportsInv, NEW s \in Sessions, BountyWork!CheckBounty(s)
  PROVE  /\ ToldInv' /\ AskedInv'
         /\ \A o \in Sessions, i \in BountyWork!Ids :
              /\ BountyWork!Rank(protocolIntakeReports'[o][i]) >= BountyWork!Rank(protocolIntakeReports[o][i])
              /\ protocolIntakeReports[o][i].bounty # 0 /\ protocolIntakeReports'[o][i].bounty # 0 =>
                   protocolIntakeReports'[o][i].status >= protocolIntakeReports[o][i].status
              /\ protocolIntakeReports'[o][i].bounty # 0 =>
                   protocolIntakeReports'[o][i].intake = "evaluated" /\ intakes[i].bounty = protocolIntakeReports'[o][i].bounty
<1>0. MaxIntakes \in Nat /\ BountyWork!Ids = 1 .. MaxIntakes
  BY ConstantsOfPolicy DEF BountyWork!Ids
<1>. DEFINE Told == [intake : {"none", "pending", "evaluated"}, bounty : BountyWork!Ids \cup {0}, status : 0 .. 2]
<1>1. PICK i, c : /\ c = check[s] /\ i = c.id /\ check[s] # BountyWork!NoCheck
                  /\ i \in DOMAIN intakes /\ c.intake \in {"pending", "evaluated"}
                  /\ c.intake = "evaluated" => intakes[i].state = "evaluated" /\ c.found = intakes[i].bounty
                  /\ c.intake = "pending" => c.found = 0 /\ protocolIntakeReports[s][i].intake # "evaluated"
  <2>1. check[s] # BountyWork!NoCheck
    BY DEF BountyWork!CheckBounty
  <2>2. check[s].intake \in {"none", "pending", "evaluated"}
    BY DEF ReportsInv, AskedInv
  <2>. QED
    BY <2>1, <2>2 DEF ReportsInv, AskedInv
<1>2. i \in BountyWork!Ids /\ intakes[i].bounty \in {0, i} /\ bountyStatus[i] \in 0 .. 2
  <2>1. intakes \in Seq(Intake) /\ Len(intakes) <= MaxIntakes
    BY DEF ReportsInv, QueueInv
  <2>2. i \in 1 .. MaxIntakes
    BY <1>0, <1>1, <2>1
  <2>. QED
    BY <1>0, <1>1, <2>2 DEF ReportsInv, QueueInv
<1>3. PICK answered \in BOOLEAN :
        /\ protocolIntakeReports' = [protocolIntakeReports EXCEPT ![s][i] = BountyWork!Report(s, answered)]
        /\ check' = [check EXCEPT ![s] = BountyWork!NoCheck]
        /\ UNCHANGED <<intakes, bountyStatus>>
  BY <1>1 DEF BountyWork!CheckBounty
<1>4. PICK b, now : /\ b = IF answered THEN c.found ELSE 0
                    /\ now = [intake |-> c.intake, bounty |-> b, status |-> IF b = 0 THEN 0 ELSE bountyStatus[b]]
                    /\ now = BountyWork!Report(s, answered)
  BY <1>1 DEF BountyWork!Report, BountyWork!NoBounty
<1>5. b \in {0, i} /\ (b # 0 => c.intake = "evaluated" /\ intakes[i].state = "evaluated" /\ intakes[i].bounty = i)
  BY <1>0, <1>1, <1>2, <1>4
<1>6. /\ now \in Told /\ now.intake = c.intake /\ now.bounty = b
      /\ b # 0 => now.status = bountyStatus[i]
  BY <1>1, <1>2, <1>4, <1>5
<1>7. protocolIntakeReports \in [Sessions -> [BountyWork!Ids -> Told]]
  BY DEF ReportsInv, ToldInv
<1>8. /\ protocolIntakeReports' \in [Sessions -> [BountyWork!Ids -> Told]]
      /\ protocolIntakeReports'[s][i] = now
      /\ \A o \in Sessions, j \in BountyWork!Ids : o # s \/ j # i => protocolIntakeReports'[o][j] = protocolIntakeReports[o][j]
  <2>. HIDE DEF Told
  <2>. QED
    BY <1>2, <1>3, <1>4, <1>6, <1>7
<1>9. ASSUME NEW o \in Sessions, NEW j \in BountyWork!Ids
      PROVE  /\ protocolIntakeReports'[o][j].intake # "none" => j \in DOMAIN intakes
             /\ protocolIntakeReports'[o][j].intake = "evaluated" => intakes[j].state = "evaluated"
             /\ protocolIntakeReports'[o][j].bounty # 0 =>
                  /\ protocolIntakeReports'[o][j].intake = "evaluated" /\ protocolIntakeReports'[o][j].bounty = j
                  /\ intakes[j].bounty = j /\ protocolIntakeReports'[o][j].status <= bountyStatus[j]
  <2>1. CASE o = s /\ j = i
    BY <1>1, <1>2, <1>5, <1>6, <1>8, <2>1
  <2>2. CASE o # s \/ j # i
    <3>1. protocolIntakeReports'[o][j] = protocolIntakeReports[o][j]
      BY <1>8, <2>2
    <3>. QED
      BY <3>1 DEF ReportsInv, ToldInv
  <2>. QED
    BY <2>1, <2>2
<1>10. ASSUME NEW o \in Sessions, NEW j \in BountyWork!Ids
       PROVE  /\ BountyWork!Rank(protocolIntakeReports'[o][j]) >= BountyWork!Rank(protocolIntakeReports[o][j])
              /\ protocolIntakeReports[o][j].bounty # 0 /\ protocolIntakeReports'[o][j].bounty # 0 =>
                   protocolIntakeReports'[o][j].status >= protocolIntakeReports[o][j].status
              /\ protocolIntakeReports'[o][j].bounty # 0 =>
                   protocolIntakeReports'[o][j].intake = "evaluated" /\ intakes[j].bounty = protocolIntakeReports'[o][j].bounty
  <2>0. /\ protocolIntakeReports[o][j] \in Told /\ protocolIntakeReports[o][j].status \in 0 .. 2
        /\ protocolIntakeReports[o][j].intake \in {"none", "pending", "evaluated"}
    BY <1>7
  <2>1. CASE o = s /\ j = i
    <3>1. BountyWork!Rank(protocolIntakeReports'[o][j]) >= BountyWork!Rank(protocolIntakeReports[o][j])
      BY <1>1, <1>6, <1>8, <2>0, <2>1 DEF BountyWork!Rank
    <3>2. protocolIntakeReports[o][j].bounty # 0 => protocolIntakeReports[o][j].status <= bountyStatus[j]
      BY DEF ReportsInv, ToldInv
    <3>3. protocolIntakeReports[o][j].bounty # 0 /\ protocolIntakeReports'[o][j].bounty # 0 =>
            protocolIntakeReports'[o][j].status >= protocolIntakeReports[o][j].status
      BY <1>2, <1>6, <1>8, <2>0, <2>1, <3>2
    <3>. QED
      BY <1>5, <1>6, <1>8, <2>1, <3>1, <3>3
  <2>2. CASE o # s \/ j # i
    <3>1. protocolIntakeReports'[o][j] = protocolIntakeReports[o][j]
      BY <1>8, <2>2
    <3>2. BountyWork!Rank(protocolIntakeReports[o][j]) \in Nat
      BY DEF BountyWork!Rank
    <3>3. protocolIntakeReports[o][j].bounty # 0 =>
            protocolIntakeReports[o][j].intake = "evaluated" /\ intakes[j].bounty = protocolIntakeReports[o][j].bounty
      BY DEF ReportsInv, ToldInv
    <3>4. BountyWork!Rank(protocolIntakeReports'[o][j]) = BountyWork!Rank(protocolIntakeReports[o][j])
      BY <3>1 DEF BountyWork!Rank
    <3>. QED
      BY <2>0, <3>1, <3>2, <3>3, <3>4
  <2>. QED
    BY <2>1, <2>2
<1>11. ToldInv'
  BY <1>3, <1>8, <1>9 DEF ToldInv
<1>12. AskedInv'
  <2>1. check \in [Sessions -> [id : BountyWork!Ids \cup {0}, intake : {"none", "pending", "evaluated"},
                                found : BountyWork!Ids \cup {0}]]
    BY DEF ReportsInv, AskedInv
  <2>2. /\ check' \in [Sessions -> [id : BountyWork!Ids \cup {0}, intake : {"none", "pending", "evaluated"},
                                    found : BountyWork!Ids \cup {0}]]
        /\ check'[s] = BountyWork!NoCheck /\ \A o \in Sessions : o # s => check'[o] = check[o]
    BY <1>3, <2>1 DEF BountyWork!NoCheck, BountyWork!NoBounty
  <2>3. ASSUME NEW o \in Sessions, check'[o] # BountyWork!NoCheck
        PROVE  /\ check'[o].id \in DOMAIN intakes /\ check'[o].intake # "none"
               /\ check'[o].intake = "evaluated" => /\ intakes[check'[o].id].state = "evaluated"
                                                    /\ check'[o].found = intakes[check'[o].id].bounty
               /\ check'[o].intake = "pending" => /\ check'[o].found = 0
                                                  /\ protocolIntakeReports'[o][check'[o].id].intake # "evaluated"
    <3>1. o # s /\ check'[o] = check[o]
      BY <2>2, <2>3
    <3>2. protocolIntakeReports'[o] = protocolIntakeReports[o]
      BY <1>3, <1>7, <3>1
    <3>. QED
      BY <2>3, <3>1, <3>2 DEF ReportsInv, AskedInv
  <2>4. BountyWork!NoCheck' = BountyWork!NoCheck
    BY DEF BountyWork!NoCheck
  <2>. QED
    BY <1>3, <2>2, <2>3, <2>4 DEF AskedInv
<1>. QED
  BY <1>10, <1>11, <1>12

\* The ids known to sessions, taken together.
KnownIds == UNION {told[s] \cap BountyWork!Ids : s \in Sessions}

\* FiledOnceUnlessLost, spelled with the library's number of elements.
LEMMA FiledMeans ==
  BountyWork!FiledOnceUnlessLost <=>
    /\ Cardinality(KnownIds) + lost = Len(intakes)
    /\ \A s, o \in Sessions : s # o => told[s] \cap told[o] \cap BountyWork!Ids = {}
BY DEF BountyWork!FiledOnceUnlessLost, KnownIds, BountyWork!Cardinality, Cardinality

\* The next report gets the next number, and no more than one session is told.
LEMMA RelayTakesOne ==
  ASSUME ReportsInv, QueueInv', QueueGrows, NEW s \in Sessions, BountyWork!RelayTakes(s)
  PROVE  FiledInv'
<1>0. /\ MaxIntakes \in Nat /\ BountyWork!Ids = 1 .. MaxIntakes /\ UnknownId \notin BountyWork!Ids
      /\ IsFiniteSet(Sessions)
  BY ConstantsOfPolicy DEF BountyWork!Ids
<1>1. PICK n \in Nat : /\ n = Len(intakes) /\ DOMAIN intakes = 1 .. n /\ n < MaxIntakes
                       /\ DOMAIN intakes' = 1 .. (n + 1) /\ Len(intakes') = n + 1
  <2>1. intakes \in Seq(Intake) /\ intakes' \in Seq(Intake)
    BY DEF ReportsInv, QueueInv
  <2>2. Len(intakes) < MaxIntakes /\ intakes' = Append(intakes, [state |-> "pending", bounty |-> 0])
    BY DEF BountyWork!RelayTakes, BountyWork!NoBounty
  <2>3. Len(intakes') = Len(intakes) + 1
    BY <2>1, <2>2
  <2>. QED
    BY <2>1, <2>2, <2>3
<1>2. /\ told \in [Sessions -> SUBSET (BountyWork!Ids \cup {UnknownId})] /\ lost \in Nat
      /\ \A o \in Sessions : told[o] \cap BountyWork!Ids \subseteq 1 .. n
      /\ filing \in [Sessions -> BOOLEAN]
      /\ Cardinality(KnownIds) + lost = n
      /\ \A o, u \in Sessions : o # u => told[o] \cap told[u] \cap BountyWork!Ids = {}
  BY <1>1, FiledMeans DEF ReportsInv, FiledInv
<1>3. KnownIds \subseteq 1 .. n /\ IsFiniteSet(KnownIds) /\ Cardinality(KnownIds) \in Nat
  <2>1. KnownIds \subseteq 1 .. n
    BY <1>2 DEF KnownIds
  <2>2. IsFiniteSet(1 .. n)
    BY FS_Interval
  <2>. QED
    BY <2>1, <2>2, FS_Subset, FS_CardinalityType
<1>4. filing' \in [Sessions -> BOOLEAN]
  BY <1>2 DEF BountyWork!RelayTakes
<1>5. BountyWork!Ids' = BountyWork!Ids
  BY DEF BountyWork!Ids
<1>6. CASE told' = [told EXCEPT ![s] = told[s] \cup {n + 1}] /\ lost' = lost
  <2>1. n + 1 \in BountyWork!Ids /\ n + 1 \notin 1 .. n
    BY <1>0, <1>1
  <2>2. /\ told' \in [Sessions -> SUBSET (BountyWork!Ids \cup {UnknownId})]
        /\ told'[s] = told[s] \cup {n + 1} /\ \A o \in Sessions : o # s => told'[o] = told[o]
    BY <1>2, <1>6, <2>1
  <2>3. KnownIds' = KnownIds \union {n + 1}
    BY <1>5, <2>1, <2>2 DEF KnownIds
  <2>4. Cardinality(KnownIds') = Cardinality(KnownIds) + 1
    BY <1>3, <2>1, <2>3, FS_AddElement
  <2>5. \A o \in Sessions : told'[o] \cap BountyWork!Ids \subseteq 1 .. (n + 1)
    BY <1>1, <1>2, <2>2
  <2>6. \A o, u \in Sessions : o # u => told'[o] \cap told'[u] \cap BountyWork!Ids = {}
    BY <1>2, <2>1, <2>2
  <2>7. Cardinality(KnownIds') + lost' = n + 1
    BY <1>2, <1>3, <1>6, <2>4
  <2>8. BountyWork!FiledOnceUnlessLost'
    BY <1>1, <1>5, <2>6, <2>7 DEF BountyWork!FiledOnceUnlessLost, KnownIds,
       BountyWork!Cardinality, Cardinality
  <2>. QED
    BY <1>1, <1>2, <1>4, <1>5, <1>6, <2>2, <2>5, <2>8 DEF FiledInv
<1>7. CASE /\ \/ told' = told \/ told' = [told EXCEPT ![s] = told[s] \cup {UnknownId}]
           /\ lost' = lost + 1
  <2>1. /\ told' \in [Sessions -> SUBSET (BountyWork!Ids \cup {UnknownId})]
        /\ \A o \in Sessions : told'[o] \cap BountyWork!Ids = told[o] \cap BountyWork!Ids
    <3>1. CASE told' = told
      BY <1>2, <3>1
    <3>2. CASE told' = [told EXCEPT ![s] = told[s] \cup {UnknownId}]
      BY <1>0, <1>2, <3>2
    <3>. QED
      BY <1>7, <3>1, <3>2
  <2>2. KnownIds' = KnownIds
    BY <1>5, <2>1 DEF KnownIds
  <2>3. \A o \in Sessions : told'[o] \cap BountyWork!Ids \subseteq 1 .. (n + 1)
    BY <1>1, <1>2, <2>1
  <2>4. \A o, u \in Sessions : o # u => told'[o] \cap told'[u] \cap BountyWork!Ids = {}
    BY <1>2, <2>1
  <2>5. Cardinality(KnownIds') + lost' = n + 1 /\ lost' \in Nat
    BY <1>2, <1>3, <1>7, <2>2
  <2>6. BountyWork!FiledOnceUnlessLost'
    BY <1>1, <1>5, <2>4, <2>5 DEF BountyWork!FiledOnceUnlessLost, KnownIds,
       BountyWork!Cardinality, Cardinality
  <2>. QED
    BY <1>1, <1>2, <1>4, <1>5, <2>1, <2>3, <2>5, <2>6 DEF FiledInv
<1>. QED
  BY <1>1, <1>6, <1>7 DEF BountyWork!RelayTakes

\* What leaves the intakes and what sessions were told alone keeps FiledInv.
LEMMA FiledStays ==
  ASSUME ReportsInv, QueueInv', QueueGrows, Len(intakes') = Len(intakes),
         UNCHANGED <<told, lost>>, filing' \in [Sessions -> BOOLEAN]
  PROVE  FiledInv'
<1>1. BountyWork!Ids' = BountyWork!Ids
  BY DEF BountyWork!Ids
<1>2. BountyWork!FiledOnceUnlessLost'
  BY <1>1 DEF ReportsInv, FiledInv, BountyWork!FiledOnceUnlessLost, BountyWork!Cardinality
<1>. QED
  BY <1>1, <1>2 DEF ReportsInv, FiledInv, QueueGrows

\* A step keeps ReportsInv, and no session is told a lower rank than before.
LEMMA ReportsStep ==
  ASSUME ReportsInv, [BountyWork!ProtocolIntakeNext]_protocolIntakeVars
  PROVE  /\ ReportsInv'
         /\ \A s \in Sessions, i \in BountyWork!Ids :
              /\ BountyWork!Rank(protocolIntakeReports'[s][i]) >= BountyWork!Rank(protocolIntakeReports[s][i])
              /\ protocolIntakeReports[s][i].bounty # 0 /\ protocolIntakeReports'[s][i].bounty # 0 =>
                   protocolIntakeReports'[s][i].status >= protocolIntakeReports[s][i].status
              /\ protocolIntakeReports'[s][i].bounty # 0 =>
                   /\ protocolIntakeReports'[s][i].intake = "evaluated"
                   /\ intakes[i].bounty = protocolIntakeReports'[s][i].bounty
<1>. DEFINE Forward == \A s \in Sessions, i \in BountyWork!Ids :
              /\ BountyWork!Rank(protocolIntakeReports'[s][i]) >= BountyWork!Rank(protocolIntakeReports[s][i])
              /\ protocolIntakeReports[s][i].bounty # 0 /\ protocolIntakeReports'[s][i].bounty # 0 =>
                   protocolIntakeReports'[s][i].status >= protocolIntakeReports[s][i].status
              /\ protocolIntakeReports'[s][i].bounty # 0 =>
                   /\ protocolIntakeReports'[s][i].intake = "evaluated"
                   /\ intakes[i].bounty = protocolIntakeReports'[s][i].bounty
<1>. SUFFICES ReportsInv' /\ Forward
  OBVIOUS
<1>1. QueueInv' /\ QueueGrows
  BY QueueStep
<1>2. ASSUME UNCHANGED protocolIntakeReports PROVE Forward
  <2>. SUFFICES ASSUME NEW s \in Sessions, NEW i \in BountyWork!Ids
                PROVE  /\ BountyWork!Rank(protocolIntakeReports'[s][i])
                            >= BountyWork!Rank(protocolIntakeReports[s][i])
                       /\ protocolIntakeReports[s][i].bounty # 0 /\ protocolIntakeReports'[s][i].bounty # 0 =>
                            protocolIntakeReports'[s][i].status >= protocolIntakeReports[s][i].status
                       /\ protocolIntakeReports'[s][i].bounty # 0 =>
                            /\ protocolIntakeReports'[s][i].intake = "evaluated"
                            /\ intakes[i].bounty = protocolIntakeReports'[s][i].bounty
    OBVIOUS
  <2>1. protocolIntakeReports[s][i].status \in 0 .. 2
    <3>1. protocolIntakeReports[s][i] \in [intake : {"none", "pending", "evaluated"},
            bounty : BountyWork!Ids \cup {0}, status : 0 .. 2]
      BY DEF ReportsInv, ToldInv
    <3>. QED
      BY <3>1
  <2>2. /\ BountyWork!Rank(protocolIntakeReports[s][i]) \in Nat
        /\ BountyWork!Rank(protocolIntakeReports'[s][i]) = BountyWork!Rank(protocolIntakeReports[s][i])
    BY <1>2 DEF BountyWork!Rank
  <2>3. protocolIntakeReports[s][i].bounty # 0 =>
          /\ protocolIntakeReports[s][i].intake = "evaluated"
          /\ intakes[i].bounty = protocolIntakeReports[s][i].bounty
    BY DEF ReportsInv, ToldInv
  <2>. QED
    BY <1>2, <2>1, <2>2, <2>3
<1>3. ASSUME NEW s \in Sessions, BountyWork!RelayTakes(s) PROVE ReportsInv' /\ Forward
  <2>1. UNCHANGED <<protocolIntakeReports, check>>
    BY <1>3 DEF BountyWork!RelayTakes
  <2>. HIDE DEF Forward
  <2>. QED
    BY <1>1, <1>2, <1>3, <2>1, KnownStays, RelayTakesOne DEF ReportsInv
<1>4. ASSUME UNCHANGED <<protocolIntakeReports, check, told, lost>>, Len(intakes') = Len(intakes),
             filing' \in [Sessions -> BOOLEAN]
      PROVE  ReportsInv' /\ Forward
  <2>. HIDE DEF Forward
  <2>. QED
    BY <1>1, <1>2, <1>4, KnownStays, FiledStays DEF ReportsInv
<1>5. filing \in [Sessions -> BOOLEAN] /\ intakes \in Seq(Intake)
  BY DEF ReportsInv, FiledInv, QueueInv
<1>6. ASSUME NEW s \in Sessions, BountyWork!SubmitProtocolIntake(s) \/ BountyWork!RelayRefuses(s)
      PROVE  ReportsInv' /\ Forward
  <2>1. UNCHANGED <<protocolIntakeReports, check, told, lost, intakes>>
    BY <1>6 DEF BountyWork!SubmitProtocolIntake, BountyWork!RelayRefuses
  <2>2. filing' \in [Sessions -> BOOLEAN]
    <3>1. \A t, b, w : BountyWork!ValidateSubmitParams(t, b, w) \in BOOLEAN
      BY DEF BountyWork!ValidateSubmitParams
    <3>2. CASE BountyWork!SubmitProtocolIntake(s)
      <4>1. PICK ok \in BOOLEAN : filing' = [filing EXCEPT ![s] = ok]
        BY <3>1, <3>2 DEF BountyWork!SubmitProtocolIntake
      <4>. QED
        BY <1>5, <4>1
    <3>3. CASE BountyWork!RelayRefuses(s)
      BY <1>5, <3>3 DEF BountyWork!RelayRefuses
    <3>. QED
      BY <1>6, <3>2, <3>3
  <2>. HIDE DEF Forward
  <2>. QED
    BY <1>4, <2>1, <2>2
<1>7. ASSUME NEW i \in BountyWork!Ids, BountyWork!Evaluate(i) \/ BountyWork!BountyMoves(i)
      PROVE  ReportsInv' /\ Forward
  <2>1. UNCHANGED <<protocolIntakeReports, check, told, lost, filing>>
    BY <1>7 DEF BountyWork!Evaluate, BountyWork!BountyMoves
  <2>2. Len(intakes') = Len(intakes)
    <3>1. CASE BountyWork!BountyMoves(i)
      BY <3>1 DEF BountyWork!BountyMoves
    <3>2. CASE BountyWork!Evaluate(i)
      <4>1. PICK b : intakes' = [intakes EXCEPT ![i] = b]
        BY <3>2 DEF BountyWork!Evaluate
      <4>2. DOMAIN intakes' = DOMAIN intakes
        BY <4>1
      <4>3. intakes' \in Seq(Intake)
        BY <1>1 DEF QueueInv
      <4>4. /\ DOMAIN intakes' = 1 .. Len(intakes') /\ Len(intakes') \in Nat
            /\ DOMAIN intakes = 1 .. Len(intakes) /\ Len(intakes) \in Nat
        BY <1>5, <4>3
      <4>5. Len(intakes') = Len(intakes)
        <5>1. PICK m \in Nat, k \in Nat : m = Len(intakes') /\ k = Len(intakes) /\ 1 .. m = 1 .. k
          BY <4>2, <4>4
        <5>2. m \in 1 .. k \/ m = 0
          BY <5>1
        <5>3. k \in 1 .. m \/ k = 0
          BY <5>1
        <5>4. m = k
          <6>1. m > 0 => m <= k
            BY <5>2
          <6>2. k > 0 => k <= m
            BY <5>3
          <6>. QED
            BY <6>1, <6>2
        <5>. QED
          BY <5>1, <5>4
      <4>. QED
        BY <4>5
    <3>. QED
      BY <1>7, <3>1, <3>2
  <2>. HIDE DEF Forward
  <2>. QED
    BY <1>4, <1>5, <2>1, <2>2
<1>8. ASSUME NEW s \in Sessions, BountyWork!CheckProtocolIntakeStatus(s)
      PROVE  ReportsInv' /\ Forward
  <2>1. ToldInv' /\ AskedInv' /\ UNCHANGED <<protocolIntakeReports, intakes>>
    BY <1>8, FirstRequest
  <2>2. FiledInv'
    BY <1>1, <1>5, <1>8, <2>1, FiledStays DEF BountyWork!CheckProtocolIntakeStatus
  <2>. HIDE DEF Forward
  <2>. QED
    BY <1>1, <1>2, <2>1, <2>2 DEF ReportsInv
<1>9. ASSUME NEW s \in Sessions, BountyWork!CheckBounty(s)
      PROVE  ReportsInv' /\ Forward
  <2>1. ToldInv' /\ AskedInv' /\ Forward
    BY <1>9, SecondRequest
  <2>2. FiledInv'
    BY <1>1, <1>5, <1>9, FiledStays DEF BountyWork!CheckBounty
  <2>. HIDE DEF Forward
  <2>. QED
    BY <1>1, <2>1, <2>2 DEF ReportsInv
<1>10. CASE UNCHANGED protocolIntakeVars
  <2>1. UNCHANGED <<protocolIntakeReports, check, told, lost, filing, intakes>>
    BY <1>10 DEF protocolIntakeVars
  <2>. HIDE DEF Forward
  <2>. QED
    BY <1>4, <1>5, <2>1
<1>. HIDE DEF Forward
<1>. QED
  BY <1>3, <1>6, <1>7, <1>8, <1>9, <1>10 DEF BountyWork!ProtocolIntakeNext

\* ReportsInv holds in every reachable state.
LEMMA ReportsHold == Spec => []ReportsInv
<1>1. Init => ReportsInv
  <2>. SUFFICES ASSUME Init PROVE ReportsInv
    OBVIOUS
  <2>1. /\ intakes = <<>> /\ bountyStatus = [b \in BountyWork!Ids |-> 0]
        /\ filing = [s \in Sessions |-> FALSE] /\ told = [s \in Sessions |-> {}] /\ lost = 0
        /\ check = [s \in Sessions |-> BountyWork!NoCheck]
        /\ protocolIntakeReports = [s \in Sessions |-> [i \in BountyWork!Ids |-> BountyWork!NoReport]]
    BY DEF Init, BountyWork!ProtocolIntakeInit
  <2>2. MaxIntakes \in Nat
    BY ConstantsOfPolicy
  <2>3. QueueInv
    BY <2>1, <2>2 DEF QueueInv
  <2>4. ToldInv
    <3>1. BountyWork!NoReport \in [intake : {"none", "pending", "evaluated"},
                                   bounty : BountyWork!Ids \cup {0}, status : 0 .. 2]
      BY DEF BountyWork!NoReport, BountyWork!NoBounty
    <3>2. BountyWork!NoReport.intake = "none" /\ BountyWork!NoReport.bounty = 0
      BY DEF BountyWork!NoReport, BountyWork!NoBounty
    <3>. QED
      BY <2>1, <3>1, <3>2 DEF ToldInv
  <2>5. AskedInv
    <3>1. BountyWork!NoCheck \in [id : BountyWork!Ids \cup {0}, intake : {"none", "pending", "evaluated"},
                                  found : BountyWork!Ids \cup {0}]
      BY DEF BountyWork!NoCheck, BountyWork!NoBounty
    <3>. QED
      BY <2>1, <3>1 DEF AskedInv
  <2>6. FiledInv
    <3>1. KnownIds = {}
      BY <2>1 DEF KnownIds
    <3>2. Cardinality(KnownIds) + lost = Len(intakes)
      BY <2>1, <3>1, FS_EmptySet
    <3>3. BountyWork!FiledOnceUnlessLost
      BY <2>1, <3>2, FiledMeans
    <3>. QED
      BY <2>1, <3>3 DEF FiledInv
  <2>. QED
    BY <2>3, <2>4, <2>5, <2>6 DEF ReportsInv
<1>2. ReportsInv /\ [Next]_vars => ReportsInv'
  BY StepOfParts, ReportsStep
<1>. QED
  BY <1>1, <1>2, PTL DEF Spec

(****************************************************************************)
(* From the work of a bounty to its proof.  What is kept is how the last    *)
(* submission came to be; what it says of sections and addresses follows    *)
(* for any answer.                                                          *)
(****************************************************************************)
AttemptsInv ==
  work.state # "idle" =>
    /\ submission = BountyWork!NoSubmission
    /\ failed \in Nat /\ attempt = failed + 1 /\ attempt <= BountyWork!Attempts(work.state)
MadeInv ==
  BountyWork!Completed =>
    /\ bountyProofAnswer \in BountyWork!Answers
    /\ log \in {BountyWork!TextOf(bountyProofAnswer),
                BountyWork!TextOf(bountyProofAnswer) \cup {Len(bountyProofAnswer) + 1}}
    /\ proof = BountyWork!ParseStructuredProof(bountyProofAnswer, log)
    /\ submission.pr = BountyWork!PrUrl(bountyProofAnswer, log, proof)
WorkProofInv ==
  /\ work.state \in {"idle", "executing", "reworking"}
  /\ AttemptsInv /\ MadeInv
  /\ BountyWork!PartialIsExhausted /\ BountyWork!LocalWorkIsCheap

\* What is submitted is what was worked on, by whom its price says.
LEMMA Submitted ==
  ASSUME NEW status, NEW pr, BountyWork!Submit(status, pr)
  PROVE  /\ submission'.status = status /\ submission'.work = work.state /\ submission'.pr = pr
         /\ BountyWork!LocalWorkIsCheap'
<1>1. /\ submission'.status = status /\ submission'.work = work.state /\ submission'.pr = pr
      /\ submission'.price = work.price
      /\ submission'.provider = BountyWork!ResolveExecutionProvider(work.price)
      /\ submission'.tier = IF work.price <= CostThreshold THEN "local" ELSE "cloud"
  BY DEF BountyWork!Submit
<1>2. submission'.provider = "local" => work.price <= CostThreshold
  BY <1>1 DEF BountyWork!ResolveExecutionProvider
<1>. QED
  BY <1>1, <1>2 DEF BountyWork!LocalWorkIsCheap

\* A step of this part, or of another, keeps WorkProofInv.
LEMMA WorkProofStep ==
  ASSUME WorkProofInv, [BountyWork!BountyProofNext]_bountyProofVars PROVE WorkProofInv'
<1>1. ASSUME NEW state \in {"executing", "reworking"}, BountyWork!Begin(state) PROVE WorkProofInv'
  <2>1. /\ work'.state = state /\ attempt' = 1 /\ failed' = 0 /\ submission' = BountyWork!NoSubmission
    BY <1>1 DEF BountyWork!Begin
  <2>2. /\ submission'.status = "none" /\ submission'.provider = "none"
        /\ BountyWork!NoSubmission' = BountyWork!NoSubmission
    BY <2>1 DEF BountyWork!NoSubmission
  <2>3. 1 <= BountyWork!Attempts(state)
    BY DEF BountyWork!Attempts
  <2>4. AttemptsInv'
    BY <2>1, <2>2, <2>3 DEF AttemptsInv, BountyWork!Attempts
  <2>. QED
    BY <2>1, <2>2, <2>4 DEF WorkProofInv, MadeInv, BountyWork!Completed,
       BountyWork!PartialIsExhausted, BountyWork!LocalWorkIsCheap
<1>2. CASE BountyWork!Answered
  <2>1. PICK a \in BountyWork!Answers :
          /\ bountyProofAnswer' = a /\ log' = BountyWork!Combined(work.state, a)
          /\ proof' = BountyWork!ParseStructuredProof(a, BountyWork!Combined(work.state, a))
          /\ BountyWork!Submit("completed", BountyWork!PrUrl(a, BountyWork!Combined(work.state, a),
                                 BountyWork!ParseStructuredProof(a, BountyWork!Combined(work.state, a))))
    BY <1>2 DEF BountyWork!Answered
  <2>2. work'.state = "idle"
    <3>1. work' = [work EXCEPT !.state = "idle"]
      BY <1>2 DEF BountyWork!Answered
    <3>. QED
      BY <3>1 DEF WorkProofInv
  <2>3. /\ submission'.status = "completed" /\ BountyWork!LocalWorkIsCheap'
        /\ submission'.pr = BountyWork!PrUrl(a, BountyWork!Combined(work.state, a),
                              BountyWork!ParseStructuredProof(a, BountyWork!Combined(work.state, a)))
    BY <2>1, Submitted
  <2>4. log' \in {BountyWork!TextOf(a), BountyWork!TextOf(a) \cup {Len(a) + 1}}
    BY <2>1 DEF BountyWork!Combined
  <2>5. MadeInv'
    BY <2>1, <2>3, <2>4 DEF MadeInv, BountyWork!TextOf, BountyWork!IsText, BountyWork!ParseStructuredProof,
       BountyWork!PrUrl
  <2>. QED
    BY <2>2, <2>3, <2>5 DEF WorkProofInv, AttemptsInv, BountyWork!PartialIsExhausted
<1>3. CASE BountyWork!AttemptFails
  <2>1. /\ work.state # "idle" /\ failed' = failed + 1
        /\ failed \in Nat /\ attempt = failed + 1 /\ attempt <= BountyWork!Attempts(work.state)
        /\ submission = BountyWork!NoSubmission
    BY <1>3 DEF BountyWork!AttemptFails, WorkProofInv, AttemptsInv
  <2>2. CASE BountyWork!TriesLeft
    <3>1. attempt' = attempt + 1 /\ UNCHANGED <<work, submission>>
      BY <1>3, <2>2 DEF BountyWork!AttemptFails
    <3>2. attempt + 1 <= BountyWork!Attempts(work.state)
      BY <2>1, <2>2 DEF BountyWork!TriesLeft, BountyWork!Attempts
    <3>3. AttemptsInv'
      BY <2>1, <3>1, <3>2 DEF AttemptsInv, BountyWork!Attempts, BountyWork!NoSubmission
    <3>4. submission'.status = "none"
      BY <2>1, <3>1 DEF BountyWork!NoSubmission
    <3>. QED
      BY <3>1, <3>3, <3>4 DEF WorkProofInv, MadeInv, BountyWork!Completed, BountyWork!PartialIsExhausted,
         BountyWork!LocalWorkIsCheap
  <2>3. CASE ~BountyWork!TriesLeft
    <3>1. BountyWork!Submit("partial", BountyWork!NoUrl) /\ work' = [work EXCEPT !.state = "idle"]
      BY <1>3, <2>3 DEF BountyWork!AttemptFails
    <3>2. work'.state = "idle"
      BY <3>1 DEF WorkProofInv
    <3>3. /\ submission'.status = "partial" /\ submission'.work = work.state
          /\ BountyWork!LocalWorkIsCheap'
      BY <3>1, Submitted
    <3>4. failed' = BountyWork!Attempts(work.state)
      BY <2>1, <2>3 DEF BountyWork!TriesLeft, BountyWork!Attempts
    <3>. QED
      BY <3>2, <3>3, <3>4 DEF WorkProofInv, AttemptsInv, MadeInv, BountyWork!Completed,
         BountyWork!PartialIsExhausted, BountyWork!Attempts
  <2>. QED
    BY <2>2, <2>3
<1>4. CASE UNCHANGED bountyProofVars
  <2>1. UNCHANGED <<work, attempt, failed, bountyProofAnswer, log, proof, submission>>
    BY <1>4 DEF bountyProofVars
  <2>2. AttemptsInv'
    BY <2>1 DEF WorkProofInv, AttemptsInv, BountyWork!Attempts, BountyWork!NoSubmission
  <2>3. MadeInv'
    BY <2>1 DEF WorkProofInv, MadeInv, BountyWork!Completed, BountyWork!TextOf, BountyWork!IsText,
       BountyWork!ParseStructuredProof, BountyWork!PrUrl
  <2>. QED
    BY <2>1, <2>2, <2>3 DEF WorkProofInv, BountyWork!PartialIsExhausted, BountyWork!LocalWorkIsCheap,
       BountyWork!Attempts
<1>. QED
  BY <1>1, <1>2, <1>3, <1>4 DEF BountyWork!BountyProofNext, BountyWork!ExecuteBounty,
     BountyWork!ExecuteBountyRework

\* WorkProofInv holds in every reachable state.
LEMMA WorkProofHolds == Spec => []WorkProofInv
<1>1. Init => WorkProofInv
  <2>. SUFFICES ASSUME Init PROVE WorkProofInv
    OBVIOUS
  <2>1. work.state = "idle" /\ submission.status = "none" /\ submission.provider = "none"
    BY DEF Init, BountyWork!BountyProofInit, BountyWork!NoSubmission
  <2>. QED
    BY <2>1 DEF WorkProofInv, AttemptsInv, MadeInv, BountyWork!Completed, BountyWork!PartialIsExhausted,
       BountyWork!LocalWorkIsCheap
<1>2. WorkProofInv /\ [Next]_vars => WorkProofInv'
  BY StepOfParts, WorkProofStep
<1>. QED
  BY <1>1, <1>2, PTL DEF Spec

\* The places of an answer, and of its log, are numbers; what is not of the log
\* bears no heading.
LEMMA PlacesOfAnswer ==
  ASSUME NEW a \in BountyWork!Answers, NEW l \in {BountyWork!TextOf(a), BountyWork!TextOf(a) \cup {Len(a) + 1}}
  PROVE  /\ IsFiniteSet(l) /\ l \subseteq Nat
         /\ \A i \in Nat : BountyWork!HeadOf(a, i) \in {"none"} \cup BountyWork!Headings
         /\ \A i \in Nat : BountyWork!HeadOf(a, i) # "none" => i \in l
<1>1. PICK n \in Nat : a \in [1 .. n -> BountyWork!Events]
  <2>1. PICK n \in 0 .. MaxEvents : a \in [1 .. n -> BountyWork!Events]
    BY DEF BountyWork!Answers
  <2>2. MaxEvents \in Nat
    BY ConstantsOfPolicy
  <2>3. n \in Nat
    BY <2>2
  <2>. QED
    BY <2>1, <2>3
<1>2. DOMAIN a = 1 .. n /\ Len(a) = n
  BY <1>1
<1>3. \A i \in DOMAIN a : /\ a[i].head \in {"none"} \cup BountyWork!Headings
                          /\ a[i].head # "none" => BountyWork!IsText(a[i])
  BY <1>1 DEF BountyWork!Events, BountyWork!Headings, BountyWork!IsText
<1>4. l \subseteq 1 .. (n + 1)
  BY <1>2 DEF BountyWork!TextOf
<1>5. IsFiniteSet(1 .. (n + 1))
  BY FS_Interval
<1>6. IsFiniteSet(l)
  BY <1>4, <1>5, FS_Subset
<1>. QED
  BY <1>3, <1>4, <1>6 DEF BountyWork!HeadOf, BountyWork!TextOf

\* The first of a set of numbers is its smallest.
LEMMA FirstIsFirst ==
  ASSUME NEW s, s \subseteq Nat, s # {}
  PROVE  BountyWork!First(s) \in s /\ \A i \in s : BountyWork!First(s) <= i
<1>1. \E i \in s : \A j \in s : i <= j
  BY Smallest
<1>. QED
  BY <1>1 DEF BountyWork!First

\* Two sections of any answer are apart.
LEMMA ApartInAny ==
  ASSUME NEW a, NEW l, l \subseteq Nat
  PROVE  BountyWork!Section(a, l, "pr_url") \cap BountyWork!Section(a, l, "approach") = {}
<1>. SUFFICES ASSUME NEW i \in BountyWork!Section(a, l, "pr_url"), i \in BountyWork!Section(a, l, "approach")
              PROVE  FALSE
  OBVIOUS
<1>. DEFINE u == BountyWork!First(BountyWork!Heads(a, l, "pr_url"))
            p == BountyWork!First(BountyWork!Heads(a, l, "approach"))
<1>1. \A h : BountyWork!Heads(a, l, h) \subseteq Nat
  BY DEF BountyWork!Heads
<1>2. BountyWork!Heads(a, l, "pr_url") # {} /\ BountyWork!Heads(a, l, "approach") # {}
  BY DEF BountyWork!Section
<1>3. u \in BountyWork!Heads(a, l, "pr_url") /\ p \in BountyWork!Heads(a, l, "approach")
  BY <1>1, <1>2, FirstIsFirst
<1>4. /\ u \in l /\ u \in Nat /\ BountyWork!HeadOf(a, u) = "pr_url"
      /\ p \in l /\ p \in Nat /\ BountyWork!HeadOf(a, p) = "approach"
  BY <1>3 DEF BountyWork!Heads
<1>5. /\ i \in Nat /\ i > u
      /\ \A e \in l : e > u /\ BountyWork!HeadOf(a, e) \in BountyWork!Headings \ {"pr_url"} => i < e
  BY <1>2 DEF BountyWork!Section
<1>6. /\ i > p
      /\ \A e \in l : e > p /\ BountyWork!HeadOf(a, e) \in BountyWork!Headings \ {"approach"} => i < e
  BY <1>2 DEF BountyWork!Section
<1>7. p > u => i < p
  BY <1>4, <1>5 DEF BountyWork!Headings
<1>8. u > p => i < u
  BY <1>4, <1>6 DEF BountyWork!Headings
<1>9. u # p
  BY <1>4
<1>. HIDE DEF u, p
<1>. QED
  BY <1>4, <1>5, <1>6, <1>7, <1>8, <1>9

\* A set of no more than one element has one.
LEMMA AtMostOne ==
  ASSUME NEW S, IsFiniteSet(S), Cardinality(S) <= 1, NEW x \in S, NEW y \in S
  PROVE  x = y
<1>. SUFFICES ASSUME x # y PROVE FALSE
  OBVIOUS
<1>1. IsFiniteSet({x}) /\ Cardinality({x}) = 1
  BY FS_Singleton
<1>2. IsFiniteSet({x} \cup {y}) /\ Cardinality({x} \cup {y}) = 2
  <2>1. y \notin {x}
    OBVIOUS
  <2>2. IsFiniteSet({x} \cup {y}) /\ Cardinality({x} \cup {y}) = Cardinality({x}) + 1
    BY <1>1, <2>1, FS_AddElement, Zenon
  <2>. QED
    BY <1>1, <2>2
<1>3. {x} \cup {y} \subseteq S
  OBVIOUS
<1>4. Cardinality({x} \cup {y}) <= Cardinality(S)
  BY <1>3, FS_Subset
<1>5. Cardinality(S) \in Nat
  BY FS_CardinalityType
<1>. QED
  BY <1>2, <1>4, <1>5

\* What is under a heading, up to the next of any.
Block(a, l, h) ==
  {i \in l : \E j \in BountyWork!Heads(a, l, h) :
               j < i /\ \A k \in (j + 1) .. i : BountyWork!HeadOf(a, k) = "none"}

\* In an answer of blocks a section is what is under its heading.
LEMMA SectionIsBlock ==
  ASSUME NEW a \in BountyWork!Answers, NEW l \in {BountyWork!TextOf(a), BountyWork!TextOf(a) \cup {Len(a) + 1}},
         NEW h \in BountyWork!Headings, BountyWork!Cardinality(BountyWork!Heads(a, l, h)) <= 1
  PROVE  BountyWork!Section(a, l, h) = Block(a, l, h)
<1>1. /\ IsFiniteSet(l) /\ l \subseteq Nat
      /\ \A i \in Nat : BountyWork!HeadOf(a, i) \in {"none"} \cup BountyWork!Headings
      /\ \A i \in Nat : BountyWork!HeadOf(a, i) # "none" => i \in l
  BY PlacesOfAnswer
<1>2. CASE BountyWork!Heads(a, l, h) = {}
  BY <1>2 DEF BountyWork!Section, Block
<1>3. ASSUME NEW s \in BountyWork!Heads(a, l, h)
      PROVE  BountyWork!Section(a, l, h) = Block(a, l, h)
  <2>1. BountyWork!Heads(a, l, h) \subseteq l
    BY DEF BountyWork!Heads
  <2>2. BountyWork!Heads(a, l, h) = {s}
    <3>1. IsFiniteSet(BountyWork!Heads(a, l, h))
      BY <1>1, <2>1, FS_Subset
    <3>2. Cardinality(BountyWork!Heads(a, l, h)) <= 1
      BY DEF Cardinality, BountyWork!Cardinality
    <3>3. \A y \in BountyWork!Heads(a, l, h) : y = s
      BY <1>3, <3>1, <3>2, AtMostOne
    <3>. QED
      BY <1>3, <3>3
  <2>3. BountyWork!First(BountyWork!Heads(a, l, h)) = s
    BY <1>1, <2>1, <2>2, FirstIsFirst
  <2>4. BountyWork!Section(a, l, h) =
          {i \in l : i > s /\ \A e \in l : e > s /\ BountyWork!HeadOf(a, e) \in BountyWork!Headings \ {h} => i < e}
    BY <1>3, <2>3 DEF BountyWork!Section
  <2>5. s \in Nat /\ s \in l /\ \A k \in l : BountyWork!HeadOf(a, k) = h => k = s
    BY <1>1, <2>1, <2>2 DEF BountyWork!Heads
  <2>6. ASSUME NEW i \in l, i > s
        PROVE  (\A e \in l : e > s /\ BountyWork!HeadOf(a, e) \in BountyWork!Headings \ {h} => i < e) <=>
               (\A k \in (s + 1) .. i : BountyWork!HeadOf(a, k) = "none")
    <3>1. i \in Nat
      BY <1>1
    <3>2. ASSUME \A e \in l : e > s /\ BountyWork!HeadOf(a, e) \in BountyWork!Headings \ {h} => i < e,
                 NEW k \in (s + 1) .. i
          PROVE  BountyWork!HeadOf(a, k) = "none"
      <4>1. k \in Nat /\ k > s /\ k <= i
        BY <2>5, <3>1
      <4>2. k \in l => BountyWork!HeadOf(a, k) \notin BountyWork!Headings \ {h}
        BY <3>1, <3>2, <4>1
      <4>3. BountyWork!HeadOf(a, k) # h
        BY <1>1, <2>5, <4>1 DEF BountyWork!Headings
      <4>. QED
        BY <1>1, <4>1, <4>2, <4>3
    <3>3. ASSUME \A k \in (s + 1) .. i : BountyWork!HeadOf(a, k) = "none",
                 NEW e \in l, e > s, BountyWork!HeadOf(a, e) \in BountyWork!Headings \ {h}
          PROVE  i < e
      <4>1. e \in Nat /\ BountyWork!HeadOf(a, e) # "none"
        BY <1>1, <3>3 DEF BountyWork!Headings
      <4>2. e \notin (s + 1) .. i
        BY <3>3, <4>1
      <4>. QED
        BY <2>5, <3>1, <3>3, <4>1, <4>2
    <3>. QED
      BY <3>2, <3>3
  <2>. QED
    BY <2>2, <2>4, <2>6 DEF Block
<1>. QED
  BY <1>2, <1>3

\* What the runs check of it follows from WorkProofInv.
LEMMA SectionsHold == WorkProofInv => BountyWork!SectionsAreApart
<1>. SUFFICES ASSUME WorkProofInv, BountyWork!Completed
              PROVE  /\ proof["pr_url"] \cap proof["approach"] = {}
                     /\ BountyWork!InBlocks =>
                          \A h \in BountyWork!Headings : proof[h] = {i \in log : BountyWork!Under(i, h)}
  BY DEF BountyWork!SectionsAreApart
<1>1. /\ bountyProofAnswer \in BountyWork!Answers
      /\ log \in {BountyWork!TextOf(bountyProofAnswer),
                  BountyWork!TextOf(bountyProofAnswer) \cup {Len(bountyProofAnswer) + 1}}
      /\ proof = BountyWork!ParseStructuredProof(bountyProofAnswer, log)
  BY DEF WorkProofInv, MadeInv
<1>2. \A h \in BountyWork!Headings : proof[h] = BountyWork!Section(bountyProofAnswer, log, h)
  BY <1>1 DEF BountyWork!ParseStructuredProof
<1>3. proof["pr_url"] \cap proof["approach"] = {}
  <2>1. log \subseteq Nat
    BY <1>1, PlacesOfAnswer
  <2>. QED
    BY <1>2, <2>1, ApartInAny DEF BountyWork!Headings
<1>4. ASSUME BountyWork!InBlocks, NEW h \in BountyWork!Headings
      PROVE  proof[h] = {i \in log : BountyWork!Under(i, h)}
  <2>1. BountyWork!Cardinality(BountyWork!Heads(bountyProofAnswer, log, h)) <= 1
    BY <1>4 DEF BountyWork!InBlocks
  <2>. QED
    <3>1. BountyWork!Section(bountyProofAnswer, log, h) = Block(bountyProofAnswer, log, h)
      BY <1>1, <2>1, SectionIsBlock
    <3>. QED
      BY <1>2, <3>1 DEF BountyWork!Under, Block
<1>. QED
  BY <1>3, <1>4

\* What the runs check of it follows from WorkProofInv.
LEMMA UrlHolds == WorkProofInv => BountyWork!UrlIsTold
<1>. SUFFICES ASSUME WorkProofInv, BountyWork!Completed
              PROVE  /\ (\E i \in log : BountyWork!BodyOf(bountyProofAnswer, i) = "url") =>
                          submission.pr # BountyWork!NoUrl
                     /\ \/ BountyWork!Cardinality(submission.pr) # 1
                        \/ \E i \in submission.pr : BountyWork!BodyOf(bountyProofAnswer, i) # "url"
                        => \/ submission.pr = {}
                           \/ \A i \in submission.pr :
                                \E j \in BountyWork!Heads(bountyProofAnswer, log, "pr_url") : j < i
  BY DEF BountyWork!UrlIsTold
<1>. DEFINE urls == {i \in log : BountyWork!BodyOf(bountyProofAnswer, i) = "url"}
            heads == BountyWork!Heads(bountyProofAnswer, log, "pr_url")
            section == BountyWork!Section(bountyProofAnswer, log, "pr_url")
<1>1. /\ bountyProofAnswer \in BountyWork!Answers
      /\ log \in {BountyWork!TextOf(bountyProofAnswer),
                  BountyWork!TextOf(bountyProofAnswer) \cup {Len(bountyProofAnswer) + 1}}
      /\ proof = BountyWork!ParseStructuredProof(bountyProofAnswer, log)
      /\ submission.pr = BountyWork!PrUrl(bountyProofAnswer, log, proof)
  BY DEF WorkProofInv, MadeInv
<1>2. log \subseteq Nat
  BY <1>1, PlacesOfAnswer
<1>3. submission.pr = IF section # {} THEN section
                      ELSE IF urls = {} THEN {} ELSE {BountyWork!First(urls)}
  BY <1>1 DEF BountyWork!PrUrl, BountyWork!FirstUrl, BountyWork!ParseStructuredProof, BountyWork!Headings,
     BountyWork!NoUrl
<1>4. urls # {} => submission.pr # {}
  BY <1>3
<1>5. ASSUME NEW i \in section PROVE \E j \in heads : j < i
  <2>1. heads # {} /\ heads \subseteq Nat
    BY <1>2, <1>5 DEF BountyWork!Section, BountyWork!Heads
  <2>2. BountyWork!First(heads) \in heads
    <3>. HIDE DEF heads
    <3>. QED
      BY <2>1, FirstIsFirst
  <2>3. i > BountyWork!First(heads) /\ i \in Nat
    BY <1>2, <2>1 DEF BountyWork!Section
  <2>4. BountyWork!First(heads) \in Nat
    BY <2>1, <2>2
  <2>. QED
    BY <2>2, <2>3, <2>4
<1>6. ASSUME urls # {}, section = {}
      PROVE  /\ BountyWork!Cardinality(submission.pr) = 1
             /\ \A i \in submission.pr : BountyWork!BodyOf(bountyProofAnswer, i) = "url"
  <2>1. BountyWork!First(urls) \in urls
    <3>1. urls \subseteq Nat
      BY <1>2
    <3>. HIDE DEF urls
    <3>. QED
      BY <1>6, <3>1, FirstIsFirst
  <2>2. submission.pr = {BountyWork!First(urls)}
    BY <1>3, <1>6
  <2>3. Cardinality(submission.pr) = 1
    BY <2>2, FS_Singleton
  <2>. QED
    BY <2>1, <2>2, <2>3 DEF Cardinality, BountyWork!Cardinality
<1>7. section = {} /\ urls = {} => submission.pr = {}
  BY <1>3
<1>8. section # {} => submission.pr = section
  BY <1>3
<1>9. BountyWork!NoUrl = {}
  BY DEF BountyWork!NoUrl
<1>10. ASSUME submission.pr # {}, section = {}
       PROVE  /\ BountyWork!Cardinality(submission.pr) = 1
              /\ ~\E i \in submission.pr : BountyWork!BodyOf(bountyProofAnswer, i) # "url"
  BY <1>6, <1>7, <1>10
<1>11. section # {} => \A i \in submission.pr : \E j \in heads : j < i
  BY <1>5, <1>8
<1>. QED
  BY <1>4, <1>9, <1>10, <1>11

(****************************************************************************)
(* Workspaces and verification.  The test a caller waits for is the newest  *)
(* of its own, and those it no longer waits for are older than the last     *)
(* timeout; a command that is ready, at work or answered was the relay's.   *)
(****************************************************************************)
Verification == [pc : {"idle", "lookup", "ready", "testing", "passed", "failed", "skipped"},
                 bounty : Bounties \cup {"none"}, command : Nat]

CommandsInv ==
  /\ command \in [Bounties -> Nat]
  /\ \A b \in Bounties : command[b] <= MaxEdits
  /\ \A b \in Bounties : cached[b] # BountyWork!NotCached => cached[b] \in Nat /\ cached[b] <= command[b]
WorkspacesInv ==
  /\ dirs \subseteq Bounties
  /\ claim \in [Bounties -> {"none", "claimed", "approved", "rejected", "expired"}]
  /\ \A b \in dirs : claim[b] # "none"
VerificationsInv ==
  /\ workspaceCalls \in [Verifiers -> Verification]
  /\ \A c \in Verifiers :
       /\ workspaceCalls[c].pc # "idle" => workspaceCalls[c].bounty \in Bounties
       /\ workspaceCalls[c].pc \in {"ready", "testing", "passed", "failed"} =>
            workspaceCalls[c].command \in 1 .. command[workspaceCalls[c].bounty]
       /\ workspaceCalls[c].pc = "ready" => workspaceCalls[c].bounty \in dirs
\* The newest test of a caller that waits.
Newest(c, t) ==
  /\ t.bounty = workspaceCalls[c].bounty /\ t.command = workspaceCalls[c].command
  /\ \A o \in BountyWork!Own(c) : o = t \/ o.number < t.number
NewestInv ==
  /\ timeouts \in Nat
  /\ \A t \in tests : t.number \in Nat /\ t.number <= timeouts /\ t.bounty \in dirs
  /\ \A c \in Verifiers :
       IF workspaceCalls[c].pc = "testing" THEN \E t \in BountyWork!Own(c) : Newest(c, t)
       ELSE \A t \in BountyWork!Own(c) : t.number < timeouts
OverlapInv ==
  IsFiniteSet(tests) /\ Cardinality(tests) <= Cardinality(BountyWork!Waiting) + timeouts
WorkspaceInv == CommandsInv /\ WorkspacesInv /\ VerificationsInv /\ NewestInv /\ OverlapInv

\* Those who wait are finitely many, and one more or less counts one.
LEMMA WaitingCounts ==
  ASSUME NEW W, W \subseteq Verifiers, NEW c \in Verifiers
  PROVE  /\ IsFiniteSet(W) /\ Cardinality(W) \in Nat
         /\ c \notin W => Cardinality(W \cup {c}) = Cardinality(W) + 1
         /\ c \in W => Cardinality(W \ {c}) = Cardinality(W) - 1
<1>1. IsFiniteSet(W) /\ Cardinality(W) \in Nat
  BY ConstantsOfPolicy, FS_Subset, FS_CardinalityType
<1>2. c \notin W => Cardinality(W \cup {c}) = Cardinality(W) + 1
  BY <1>1, FS_AddElement
<1>3. c \in W => Cardinality(W \ {c}) = Cardinality(W) - 1
  BY <1>1, FS_RemoveElement
<1>. QED
  BY <1>1, <1>2, <1>3

\* A step of no call and no test.
LEMMA OthersMove ==
  ASSUME WorkspaceInv, UNCHANGED <<workspaceCalls, tests, timeouts>>,
         CommandsInv', WorkspacesInv', dirs \subseteq dirs',
         \A b \in Bounties : command[b] <= command'[b]
  PROVE  WorkspaceInv'
<1>1. VerificationsInv'
  <2>. SUFFICES ASSUME NEW c \in Verifiers, workspaceCalls[c].pc \in {"ready", "testing", "passed", "failed"}
                PROVE  workspaceCalls[c].command \in 1 .. command'[workspaceCalls[c].bounty]
    BY DEF WorkspaceInv, VerificationsInv
  <2>1. /\ workspaceCalls[c].bounty \in Bounties
        /\ workspaceCalls[c].command \in 1 .. command[workspaceCalls[c].bounty]
    BY DEF WorkspaceInv, VerificationsInv
  <2>2. PICK now \in Nat, after \in Nat : /\ now = command[workspaceCalls[c].bounty]
                                          /\ after = command'[workspaceCalls[c].bounty] /\ now <= after
    BY <2>1 DEF WorkspaceInv, CommandsInv
  <2>. QED
    BY <2>1, <2>2
<1>2. NewestInv'
  BY DEF WorkspaceInv, NewestInv, Newest, BountyWork!Own
<1>3. OverlapInv'
  BY DEF WorkspaceInv, OverlapInv, BountyWork!Waiting
<1>. QED
  BY <1>1, <1>2, <1>3 DEF WorkspaceInv

\* A call that neither starts nor ends to wait takes a step of its own.
LEMMA VerificationMoves ==
  ASSUME WorkspaceInv, NEW c \in Verifiers, NEW now \in Verification,
         UNCHANGED <<claim, command, cached, dirs, tests, timeouts>>,
         workspaceCalls' = [workspaceCalls EXCEPT ![c] = now],
         workspaceCalls[c].pc # "testing", now.pc # "testing",
         now.pc # "idle" => now.bounty \in Bounties,
         now.pc \in {"ready", "passed", "failed"} => now.command \in 1 .. command[now.bounty],
         now.pc = "ready" => now.bounty \in dirs
  PROVE  WorkspaceInv'
<1>1. /\ workspaceCalls' \in [Verifiers -> Verification] /\ workspaceCalls'[c] = now
      /\ \A d \in Verifiers : d # c => workspaceCalls'[d] = workspaceCalls[d]
  BY DEF WorkspaceInv, VerificationsInv
<1>2. CommandsInv' /\ WorkspacesInv'
  BY DEF WorkspaceInv, CommandsInv, WorkspacesInv, BountyWork!NotCached
<1>3. VerificationsInv'
  BY <1>1 DEF WorkspaceInv, VerificationsInv
<1>4. NewestInv'
  <2>1. ASSUME NEW d \in Verifiers
        PROVE  IF workspaceCalls'[d].pc = "testing" THEN \E t \in BountyWork!Own(d)' : Newest(d, t)'
               ELSE \A t \in BountyWork!Own(d)' : t.number < timeouts'
    <3>1. BountyWork!Own(d)' = BountyWork!Own(d)
      BY DEF BountyWork!Own
    <3>2. CASE d = c
      BY <1>1, <3>1, <3>2 DEF WorkspaceInv, NewestInv
    <3>3. CASE d # c
      <4>1. workspaceCalls'[d] = workspaceCalls[d]
        BY <1>1, <3>3
      <4>2. \A t : Newest(d, t)' <=> Newest(d, t)
        BY <3>1, <4>1 DEF Newest
      <4>. QED
        BY <3>1, <4>1, <4>2 DEF WorkspaceInv, NewestInv
    <3>. QED
      BY <3>2, <3>3
  <2>. QED
    BY <2>1 DEF WorkspaceInv, NewestInv
<1>5. OverlapInv'
  <2>1. BountyWork!Waiting' = BountyWork!Waiting
    BY <1>1 DEF BountyWork!Waiting
  <2>. QED
    BY <2>1 DEF WorkspaceInv, OverlapInv
<1>. QED
  BY <1>2, <1>3, <1>4, <1>5 DEF WorkspaceInv

\* Start: WorkspaceInv is kept.
LEMMA TestStarts ==
  ASSUME WorkspaceInv, NEW c \in Verifiers, BountyWork!Start(c)
  PROVE  WorkspaceInv'
<1>1. PICK t : t = [of |-> c, number |-> timeouts, bounty |-> workspaceCalls[c].bounty,
                    command |-> workspaceCalls[c].command]
  OBVIOUS
<1>2. PICK now : now = [workspaceCalls[c] EXCEPT !.pc = "testing"]
  OBVIOUS
<1>3. /\ workspaceCalls[c].pc = "ready" /\ tests' = tests \cup {t}
      /\ workspaceCalls' = [workspaceCalls EXCEPT ![c] = now]
      /\ UNCHANGED <<claim, command, cached, dirs, timeouts>>
  BY <1>1, <1>2 DEF BountyWork!Start, BountyWork!To
<1>4. workspaceCalls[c] \in Verification /\ workspaceCalls \in [Verifiers -> Verification]
  BY DEF WorkspaceInv, VerificationsInv
<1>5. /\ now \in Verification /\ now.pc = "testing" /\ now.bounty = workspaceCalls[c].bounty
      /\ now.command = workspaceCalls[c].command
  BY <1>2, <1>4 DEF Verification
<1>6. /\ workspaceCalls' \in [Verifiers -> Verification] /\ workspaceCalls'[c] = now
      /\ \A d \in Verifiers : d # c => workspaceCalls'[d] = workspaceCalls[d]
  BY <1>3, <1>4, <1>5
<1>7. CommandsInv' /\ WorkspacesInv'
  BY <1>3 DEF WorkspaceInv, CommandsInv, WorkspacesInv, BountyWork!NotCached
<1>8. VerificationsInv'
  BY <1>3, <1>5, <1>6 DEF WorkspaceInv, VerificationsInv
<1>9. /\ BountyWork!Own(c)' = BountyWork!Own(c) \cup {t}
      /\ \A d \in Verifiers : d # c => BountyWork!Own(d)' = BountyWork!Own(d)
  BY <1>1, <1>3 DEF BountyWork!Own
<1>10. /\ t.number = timeouts /\ t.bounty = workspaceCalls[c].bounty /\ t.command = workspaceCalls[c].command
  BY <1>1
<1>11. NewestInv'
  <2>1. timeouts \in Nat /\ workspaceCalls[c].bounty \in dirs
    BY <1>3 DEF WorkspaceInv, NewestInv, VerificationsInv
  <2>2. \A o \in tests' : o.number \in Nat /\ o.number <= timeouts' /\ o.bounty \in dirs'
    BY <1>3, <1>10, <2>1 DEF WorkspaceInv, NewestInv
  <2>3. ASSUME NEW d \in Verifiers
        PROVE  IF workspaceCalls'[d].pc = "testing" THEN \E o \in BountyWork!Own(d)' : Newest(d, o)'
               ELSE \A o \in BountyWork!Own(d)' : o.number < timeouts'
    <3>1. CASE d = c
      <4>1. \A o \in BountyWork!Own(c) : o.number < timeouts
        BY <1>3 DEF WorkspaceInv, NewestInv
      <4>2. Newest(c, t)'
        BY <1>5, <1>6, <1>9, <1>10, <4>1 DEF Newest
      <4>. QED
        BY <1>5, <1>6, <1>9, <3>1, <4>2
    <3>2. CASE d # c
      <4>1. workspaceCalls'[d] = workspaceCalls[d] /\ BountyWork!Own(d)' = BountyWork!Own(d)
        BY <1>6, <1>9, <3>2
      <4>2. \A o : Newest(d, o)' <=> Newest(d, o)
        BY <4>1 DEF Newest
      <4>. QED
        BY <1>3, <4>1, <4>2 DEF WorkspaceInv, NewestInv
    <3>. QED
      BY <3>1, <3>2
  <2>. QED
    BY <1>3, <2>1, <2>2, <2>3 DEF NewestInv
<1>12. OverlapInv'
  <2>1. /\ BountyWork!Waiting' = BountyWork!Waiting \cup {c} /\ c \notin BountyWork!Waiting
        /\ BountyWork!Waiting \subseteq Verifiers
    BY <1>3, <1>5, <1>6 DEF BountyWork!Waiting
  <2>2. Cardinality(BountyWork!Waiting') = Cardinality(BountyWork!Waiting) + 1
        /\ Cardinality(BountyWork!Waiting) \in Nat
    BY <2>1, WaitingCounts
  <2>3. IsFiniteSet(tests) /\ Cardinality(tests) <= Cardinality(BountyWork!Waiting) + timeouts
        /\ timeouts \in Nat
    BY DEF WorkspaceInv, OverlapInv, NewestInv
  <2>4. IsFiniteSet(tests') /\ Cardinality(tests') <= Cardinality(tests) + 1
    <3>1. Cardinality(tests) \in Nat
      BY <2>3, FS_CardinalityType
    <3>2. CASE t \in tests
      <4>1. tests' = tests
        BY <1>3, <3>2
      <4>. QED
        BY <2>3, <3>1, <4>1
    <3>3. CASE t \notin tests
      <4>1. IsFiniteSet(tests \cup {t}) /\ Cardinality(tests \cup {t}) = Cardinality(tests) + 1
        BY <2>3, <3>3, FS_AddElement
      <4>. QED
        BY <1>3, <3>1, <4>1
    <3>. QED
      BY <3>2, <3>3
  <2>5. Cardinality(tests) \in Nat /\ Cardinality(tests') \in Nat
    BY <2>3, <2>4, FS_CardinalityType
  <2>. QED
    BY <1>3, <2>2, <2>3, <2>4, <2>5 DEF OverlapInv
<1>. QED
  BY <1>7, <1>8, <1>11, <1>12 DEF WorkspaceInv
\* TestEnds: WorkspaceInv is kept.
LEMMA TestFinishes ==
  ASSUME WorkspaceInv, NEW c \in Verifiers, BountyWork!TestEnds(c)
  PROVE  WorkspaceInv'
<1>1. PICK t \in BountyWork!Own(c), verdict \in {"passed", "failed"} :
        /\ tests' = tests \ {t}
        /\ BountyWork!To(c, IF /\ workspaceCalls[c].pc = "testing"
                               /\ \A o \in BountyWork!Own(c) : o.number <= t.number
                            THEN [workspaceCalls[c] EXCEPT !.pc = verdict] ELSE workspaceCalls[c])
  BY DEF BountyWork!TestEnds
<1>. DEFINE ended == workspaceCalls[c].pc = "testing" /\ \A o \in BountyWork!Own(c) : o.number <= t.number
<1>2. UNCHANGED <<claim, command, cached, dirs, timeouts>>
  BY DEF BountyWork!TestEnds
<1>3. workspaceCalls[c] \in Verification /\ workspaceCalls \in [Verifiers -> Verification]
  BY DEF WorkspaceInv, VerificationsInv
<1>4. PICK now \in Verification :
        /\ workspaceCalls' = [workspaceCalls EXCEPT ![c] = now]
        /\ now.bounty = workspaceCalls[c].bounty /\ now.command = workspaceCalls[c].command
        /\ ended => now.pc = verdict
        /\ ~ended => now.pc = workspaceCalls[c].pc
  <2>1. CASE ended
    <3>1. PICK now : now = [workspaceCalls[c] EXCEPT !.pc = verdict]
      OBVIOUS
    <3>2. workspaceCalls' = [workspaceCalls EXCEPT ![c] = now]
      BY <1>1, <2>1, <3>1 DEF BountyWork!To
    <3>3. /\ now \in Verification /\ now.pc = verdict /\ now.bounty = workspaceCalls[c].bounty
          /\ now.command = workspaceCalls[c].command
      BY <1>3, <3>1 DEF Verification
    <3>. HIDE DEF ended
    <3>. QED
      BY <2>1, <3>2, <3>3
  <2>2. CASE ~ended
    <3>1. workspaceCalls' = [workspaceCalls EXCEPT ![c] = workspaceCalls[c]]
      BY <1>1, <2>2 DEF BountyWork!To
    <3>. HIDE DEF ended
    <3>. QED
      BY <1>3, <2>2, <3>1
  <2>. QED
    BY <2>1, <2>2
<1>5. /\ workspaceCalls' \in [Verifiers -> Verification] /\ workspaceCalls'[c] = now
      /\ \A d \in Verifiers : d # c => workspaceCalls'[d] = workspaceCalls[d]
  BY <1>3, <1>4
<1>6. CommandsInv' /\ WorkspacesInv'
  BY <1>2 DEF WorkspaceInv, CommandsInv, WorkspacesInv, BountyWork!NotCached
<1>7. \/ now.pc \in {"passed", "failed"} /\ workspaceCalls[c].pc = "testing"
      \/ now.pc = workspaceCalls[c].pc
  BY <1>4
<1>8. VerificationsInv'
  BY <1>2, <1>4, <1>5, <1>7 DEF WorkspaceInv, VerificationsInv
<1>9. /\ BountyWork!Own(c)' = BountyWork!Own(c) \ {t}
      /\ \A d \in Verifiers : d # c => BountyWork!Own(d)' = BountyWork!Own(d)
  BY <1>1 DEF BountyWork!Own
<1>10. timeouts \in Nat /\ \A o \in tests : o.number \in Nat /\ o.number <= timeouts /\ o.bounty \in dirs
  BY DEF WorkspaceInv, NewestInv
<1>11. BountyWork!Own(c) \subseteq tests
  BY DEF BountyWork!Own
<1>12. NewestInv'
  <2>1. ASSUME NEW d \in Verifiers
        PROVE  IF workspaceCalls'[d].pc = "testing" THEN \E o \in BountyWork!Own(d)' : Newest(d, o)'
               ELSE \A o \in BountyWork!Own(d)' : o.number < timeouts'
    <3>1. CASE d # c
      <4>1. workspaceCalls'[d] = workspaceCalls[d] /\ BountyWork!Own(d)' = BountyWork!Own(d)
        BY <1>5, <1>9, <3>1
      <4>2. \A o : Newest(d, o)' <=> Newest(d, o)
        BY <4>1 DEF Newest
      <4>. QED
        BY <1>2, <4>1, <4>2 DEF WorkspaceInv, NewestInv
    <3>2. CASE d = c /\ ended
      <4>1. PICK n \in BountyWork!Own(c) : Newest(c, n)
        BY <3>2 DEF WorkspaceInv, NewestInv
      <4>2. n = t
        <5>1. n.number \in Nat /\ t.number \in Nat /\ n.number <= t.number
          BY <1>10, <1>11, <3>2
        <5>. QED
          BY <4>1, <5>1 DEF Newest
      <4>3. \A o \in BountyWork!Own(c) \ {t} : o.number < timeouts
        BY <1>10, <1>11, <4>1, <4>2 DEF Newest
      <4>. QED
        BY <1>2, <1>4, <1>5, <1>9, <3>2, <4>3
    <3>3. CASE d = c /\ ~ended /\ workspaceCalls[c].pc = "testing"
      <4>1. PICK n \in BountyWork!Own(c) : Newest(c, n)
        BY <3>3 DEF WorkspaceInv, NewestInv
      <4>2. n # t
        <5>1. PICK o \in BountyWork!Own(c) : ~(o.number <= t.number)
          BY <3>3
        <5>2. o.number \in Nat /\ t.number \in Nat
          BY <1>10, <1>11
        <5>. QED
          BY <4>1, <5>1, <5>2 DEF Newest
      <4>3. n \in BountyWork!Own(c)' /\ Newest(c, n)'
        BY <1>4, <1>5, <1>9, <4>1, <4>2 DEF Newest
      <4>. QED
        BY <1>4, <1>5, <3>3, <4>3
    <3>4. CASE d = c /\ workspaceCalls[c].pc # "testing"
      <4>1. \A o \in BountyWork!Own(c) : o.number < timeouts
        BY <3>4 DEF WorkspaceInv, NewestInv
      <4>2. now.pc # "testing"
        BY <1>7, <3>4
      <4>. QED
        BY <1>2, <1>5, <1>9, <3>4, <4>1, <4>2
    <3>. QED
      BY <3>1, <3>2, <3>3, <3>4
  <2>. QED
    BY <1>1, <1>2, <1>10, <2>1 DEF NewestInv
<1>13. OverlapInv'
  <2>1. IsFiniteSet(tests) /\ Cardinality(tests) <= Cardinality(BountyWork!Waiting) + timeouts
    BY DEF WorkspaceInv, OverlapInv
  <2>2. t \in tests
    BY <1>11
  <2>3. IsFiniteSet(tests \ {t}) /\ Cardinality(tests \ {t}) = Cardinality(tests) - 1
    BY <2>1, <2>2, FS_RemoveElement
  <2>4. Cardinality(tests) \in Nat
    BY <2>1, FS_CardinalityType
  <2>5. /\ BountyWork!Waiting \subseteq Verifiers /\ BountyWork!Waiting' \subseteq Verifiers
        /\ BountyWork!Waiting \ {c} \subseteq BountyWork!Waiting'
        /\ BountyWork!Waiting' \subseteq BountyWork!Waiting
    BY <1>5, <1>7 DEF BountyWork!Waiting
  <2>6. \/ BountyWork!Waiting' = BountyWork!Waiting
        \/ c \in BountyWork!Waiting /\ BountyWork!Waiting' = BountyWork!Waiting \ {c}
    BY <2>5
  <2>7. /\ Cardinality(BountyWork!Waiting) <= Cardinality(BountyWork!Waiting') + 1
        /\ Cardinality(BountyWork!Waiting) \in Nat /\ Cardinality(BountyWork!Waiting') \in Nat
    <3>1. /\ Cardinality(BountyWork!Waiting) \in Nat /\ Cardinality(BountyWork!Waiting') \in Nat
          /\ c \in BountyWork!Waiting =>
               Cardinality(BountyWork!Waiting \ {c}) = Cardinality(BountyWork!Waiting) - 1
      BY <2>5, WaitingCounts
    <3>. QED
      BY <2>6, <3>1
  <2>. QED
    BY <1>1, <1>2, <1>10, <2>1, <2>3, <2>4, <2>7 DEF OverlapInv
<1>. QED
  BY <1>6, <1>8, <1>12, <1>13 DEF WorkspaceInv

\* TestTimesOut: WorkspaceInv is kept.
LEMMA TestIsLate ==
  ASSUME WorkspaceInv, NEW c \in Verifiers, BountyWork!TestTimesOut(c)
  PROVE  WorkspaceInv'
<1>1. PICK now : now = [workspaceCalls[c] EXCEPT !.pc = "failed"]
  OBVIOUS
<1>2. /\ workspaceCalls[c].pc = "testing" /\ timeouts' = timeouts + 1
      /\ workspaceCalls' = [workspaceCalls EXCEPT ![c] = now]
      /\ UNCHANGED <<claim, command, cached, dirs, tests>>
  BY <1>1 DEF BountyWork!TestTimesOut, BountyWork!To
<1>3. workspaceCalls[c] \in Verification /\ workspaceCalls \in [Verifiers -> Verification]
  BY DEF WorkspaceInv, VerificationsInv
<1>4. /\ now \in Verification /\ now.pc = "failed" /\ now.bounty = workspaceCalls[c].bounty
      /\ now.command = workspaceCalls[c].command
  BY <1>1, <1>3 DEF Verification
<1>5. /\ workspaceCalls' \in [Verifiers -> Verification] /\ workspaceCalls'[c] = now
      /\ \A d \in Verifiers : d # c => workspaceCalls'[d] = workspaceCalls[d]
  BY <1>2, <1>3, <1>4
<1>6. CommandsInv' /\ WorkspacesInv'
  BY <1>2 DEF WorkspaceInv, CommandsInv, WorkspacesInv, BountyWork!NotCached
<1>7. VerificationsInv'
  BY <1>2, <1>4, <1>5 DEF WorkspaceInv, VerificationsInv
<1>8. timeouts \in Nat /\ \A o \in tests : o.number \in Nat /\ o.number <= timeouts /\ o.bounty \in dirs
  BY DEF WorkspaceInv, NewestInv
<1>9. NewestInv'
  <2>1. ASSUME NEW d \in Verifiers
        PROVE  IF workspaceCalls'[d].pc = "testing" THEN \E o \in BountyWork!Own(d)' : Newest(d, o)'
               ELSE \A o \in BountyWork!Own(d)' : o.number < timeouts'
    <3>1. BountyWork!Own(d)' = BountyWork!Own(d) /\ BountyWork!Own(d) \subseteq tests
      BY <1>2 DEF BountyWork!Own
    <3>2. \A o \in BountyWork!Own(d) : o.number < timeouts + 1
      BY <1>8, <3>1
    <3>3. CASE d = c
      BY <1>2, <1>4, <1>5, <3>1, <3>2, <3>3
    <3>4. CASE d # c
      <4>1. workspaceCalls'[d] = workspaceCalls[d]
        BY <1>5, <3>4
      <4>2. \A o : Newest(d, o)' <=> Newest(d, o)
        BY <3>1, <4>1 DEF Newest
      <4>. QED
        BY <1>2, <3>1, <3>2, <4>1, <4>2 DEF WorkspaceInv, NewestInv
    <3>. QED
      BY <3>3, <3>4
  <2>2. \A o \in tests' : o.number \in Nat /\ o.number <= timeouts' /\ o.bounty \in dirs'
    BY <1>2, <1>8
  <2>. QED
    BY <1>2, <1>8, <2>1, <2>2 DEF NewestInv
<1>10. OverlapInv'
  <2>1. /\ BountyWork!Waiting' = BountyWork!Waiting \ {c} /\ c \in BountyWork!Waiting
        /\ BountyWork!Waiting \subseteq Verifiers
    BY <1>2, <1>4, <1>5 DEF BountyWork!Waiting
  <2>2. Cardinality(BountyWork!Waiting') = Cardinality(BountyWork!Waiting) - 1
        /\ Cardinality(BountyWork!Waiting) \in Nat
    BY <2>1, WaitingCounts
  <2>3. IsFiniteSet(tests) /\ Cardinality(tests) <= Cardinality(BountyWork!Waiting) + timeouts
    BY DEF WorkspaceInv, OverlapInv
  <2>4. Cardinality(tests) \in Nat
    BY <2>3, FS_CardinalityType
  <2>. QED
    BY <1>2, <1>8, <2>2, <2>3, <2>4 DEF OverlapInv
<1>. QED
  BY <1>6, <1>7, <1>9, <1>10 DEF WorkspaceInv

\* A step of this part, or of another, keeps WorkspaceInv.
LEMMA WorkspaceStep ==
  ASSUME WorkspaceInv, [BountyWork!BountyWorkspaceNext]_workspaceVars PROVE WorkspaceInv'
<1>0. MaxEdits \in Nat
  BY ConstantsOfPolicy
<1>1. CASE BountyWork!PollBounties
  <2>1. PICK listed \in SUBSET Bounties :
          cached' = [b \in Bounties |-> IF b \in listed THEN command[b] ELSE BountyWork!NotCached]
    BY <1>1 DEF BountyWork!PollBounties
  <2>2. UNCHANGED <<claim, command, dirs, workspaceCalls, tests, timeouts>>
    BY <1>1 DEF BountyWork!PollBounties
  <2>3. CommandsInv'
    BY <1>0, <2>1, <2>2 DEF WorkspaceInv, CommandsInv, BountyWork!NotCached
  <2>4. WorkspacesInv' /\ \A b \in Bounties : command[b] <= command'[b]
    BY <2>2 DEF WorkspaceInv, WorkspacesInv, CommandsInv
  <2>. QED
    BY <2>2, <2>3, <2>4, OthersMove
<1>2. ASSUME NEW b \in Bounties,
             BountyWork!ClaimBounty(b) \/ BountyWork!Settle(b) \/ BountyWork!Workspace(b)
      PROVE  WorkspaceInv'
  <2>1. UNCHANGED <<command, cached, workspaceCalls, tests, timeouts>>
    BY <1>2 DEF BountyWork!ClaimBounty, BountyWork!Settle, BountyWork!Workspace
  <2>2. CommandsInv' /\ \A o \in Bounties : command[o] <= command'[o]
    BY <2>1 DEF WorkspaceInv, CommandsInv, BountyWork!NotCached
  <2>3. WorkspacesInv' /\ dirs \subseteq dirs'
    BY <1>2 DEF WorkspaceInv, WorkspacesInv, BountyWork!ClaimBounty, BountyWork!Settle, BountyWork!Workspace,
       BountyWork!Active
  <2>. QED
    BY <2>1, <2>2, <2>3, OthersMove
<1>3. ASSUME NEW b \in Bounties, BountyWork!PosterEdits(b) PROVE WorkspaceInv'
  <2>1. /\ command[b] < MaxEdits /\ command' = [command EXCEPT ![b] = command[b] + 1]
        /\ UNCHANGED <<claim, cached, dirs, workspaceCalls, tests, timeouts>>
    BY <1>3 DEF BountyWork!PosterEdits
  <2>2. command' \in [Bounties -> Nat] /\ \A o \in Bounties : command'[o] <= MaxEdits /\ command[o] <= command'[o]
    BY <1>0, <2>1 DEF WorkspaceInv, CommandsInv
  <2>3. CommandsInv'
    BY <2>1, <2>2 DEF WorkspaceInv, CommandsInv, BountyWork!NotCached
  <2>4. WorkspacesInv'
    BY <2>1 DEF WorkspaceInv, WorkspacesInv
  <2>. QED
    BY <2>1, <2>2, <2>3, <2>4, OthersMove
<1>4. ASSUME NEW c \in Verifiers, NEW b \in Bounties, BountyWork!VerifyBounty(c, b) PROVE WorkspaceInv'
  <2>1. PICK now : now = [pc |-> "lookup", bounty |-> b, command |-> 0]
    OBVIOUS
  <2>2. now \in Verification /\ now.pc = "lookup" /\ now.bounty = b
    BY <2>1 DEF Verification
  <2>3. /\ workspaceCalls[c].pc # "testing" /\ workspaceCalls' = [workspaceCalls EXCEPT ![c] = now]
        /\ UNCHANGED <<claim, command, cached, dirs, tests, timeouts>>
    BY <1>4, <2>1 DEF BountyWork!VerifyBounty, BountyWork!To, BountyWork!NoCommand
  <2>. QED
    BY <2>2, <2>3, VerificationMoves
<1>i. /\ BountyWork!NoCall \in Verification /\ BountyWork!NoCall.pc = "idle"
  BY DEF BountyWork!NoCall, BountyWork!NoCommand, Verification
<1>5. ASSUME NEW c \in Verifiers, BountyWork!LookupBounty(c) PROVE WorkspaceInv'
  <2>1. /\ workspaceCalls[c].pc = "lookup" /\ UNCHANGED <<claim, command, cached, dirs, tests, timeouts>>
        /\ workspaceCalls[c] \in Verification /\ workspaceCalls[c].bounty \in Bounties
    BY <1>5 DEF BountyWork!LookupBounty, WorkspaceInv, VerificationsInv
  <2>2. PICK b \in Bounties, known0 \in Nat, latest \in Nat :
          /\ b = workspaceCalls[c].bounty /\ known0 = BountyWork!Known(b) /\ latest = command[b] /\ known0 <= latest
    <3>1. PICK b \in Bounties : b = workspaceCalls[c].bounty
      BY <2>1
    <3>2. command[b] \in Nat /\ BountyWork!Known(b) \in Nat /\ BountyWork!Known(b) <= command[b]
      BY DEF BountyWork!Known, WorkspaceInv, CommandsInv
    <3>. QED
      BY <3>1, <3>2
  <2>3. CASE known0 = 0
    <3>1. PICK now : now = [workspaceCalls[c] EXCEPT !.pc = "skipped"]
      OBVIOUS
    <3>2. now \in Verification /\ now.pc = "skipped" /\ now.bounty = b
      BY <2>1, <2>2, <3>1 DEF Verification
    <3>3. workspaceCalls' = [workspaceCalls EXCEPT ![c] = now]
      BY <1>5, <2>2, <2>3, <3>1 DEF BountyWork!LookupBounty, BountyWork!To, BountyWork!NoCommand
    <3>. QED
      BY <2>1, <3>2, <3>3, VerificationMoves
  <2>4. CASE known0 # 0 /\ b \notin dirs
    <3>1. workspaceCalls' = [workspaceCalls EXCEPT ![c] = BountyWork!NoCall]
      BY <1>5, <2>2, <2>4 DEF BountyWork!LookupBounty, BountyWork!To, BountyWork!NoCommand
    <3>. QED
      BY <1>i, <2>1, <3>1, VerificationMoves
  <2>5. CASE known0 # 0 /\ b \in dirs
    <3>1. PICK now : now = [pc |-> "ready", bounty |-> b, command |-> known0]
      OBVIOUS
    <3>2. now \in Verification /\ now.pc = "ready" /\ now.bounty = b /\ now.command \in 1 .. command[b]
      BY <2>2, <2>5, <3>1 DEF Verification
    <3>3. workspaceCalls' = [workspaceCalls EXCEPT ![c] = now]
      BY <1>5, <2>2, <2>5, <3>1 DEF BountyWork!LookupBounty, BountyWork!To, BountyWork!NoCommand
    <3>. QED
      BY <2>1, <2>5, <3>2, <3>3, VerificationMoves
  <2>. QED
    BY <2>3, <2>4, <2>5
<1>6. ASSUME NEW c \in Verifiers, BountyWork!LookupFails(c) PROVE WorkspaceInv'
  <2>1. /\ workspaceCalls[c].pc = "lookup" /\ workspaceCalls' = [workspaceCalls EXCEPT ![c] = BountyWork!NoCall]
        /\ UNCHANGED <<claim, command, cached, dirs, tests, timeouts>>
    BY <1>6 DEF BountyWork!LookupFails, BountyWork!To
  <2>. QED
    BY <1>i, <2>1, VerificationMoves
<1>7. CASE UNCHANGED workspaceVars
  <2>1. UNCHANGED <<claim, command, cached, dirs, workspaceCalls, tests, timeouts>>
    BY <1>7 DEF workspaceVars
  <2>2. CommandsInv' /\ WorkspacesInv' /\ \A b \in Bounties : command[b] <= command'[b]
    BY <2>1 DEF WorkspaceInv, CommandsInv, WorkspacesInv, BountyWork!NotCached
  <2>. QED
    BY <2>1, <2>2, OthersMove
<1>. QED
  BY <1>1, <1>2, <1>3, <1>4, <1>5, <1>6, <1>7, TestStarts, TestFinishes, TestIsLate
     DEF BountyWork!BountyWorkspaceNext

\* WorkspaceInv holds in every reachable state.
LEMMA WorkspaceHolds == Spec => []WorkspaceInv
<1>1. Init => WorkspaceInv
  <2>. SUFFICES ASSUME Init PROVE WorkspaceInv
    OBVIOUS
  <2>0. /\ claim = [b \in Bounties |-> "none"] /\ command = [b \in Bounties |-> 0]
        /\ cached = [b \in Bounties |-> BountyWork!NotCached] /\ dirs = {}
        /\ workspaceCalls = [c \in Verifiers |-> BountyWork!NoCall] /\ tests = {} /\ timeouts = 0
    BY DEF Init, BountyWork!BountyWorkspaceInit, BountyWork!NoCommand
  <2>1. CommandsInv /\ WorkspacesInv
    BY <2>0, ConstantsOfPolicy DEF CommandsInv, WorkspacesInv
  <2>2. BountyWork!NoCall \in Verification /\ BountyWork!NoCall.pc = "idle"
    BY DEF BountyWork!NoCall, BountyWork!NoCommand, Verification
  <2>3. VerificationsInv
    BY <2>0, <2>2 DEF VerificationsInv
  <2>4. NewestInv
    BY <2>0, <2>2 DEF NewestInv, BountyWork!Own
  <2>5. BountyWork!Waiting = {}
    BY <2>0, <2>2 DEF BountyWork!Waiting
  <2>6. OverlapInv
    BY <2>0, <2>5, FS_EmptySet DEF OverlapInv
  <2>. QED
    BY <2>1, <2>3, <2>4, <2>6 DEF WorkspaceInv
<1>2. WorkspaceInv /\ [Next]_vars => WorkspaceInv'
  BY StepOfParts, WorkspaceStep
<1>. QED
  BY <1>1, <1>2, PTL DEF Spec

\* What the runs check of it follows from WorkspaceInv.
LEMMA WorkspacesKept ==
  WorkspaceInv => BountyWork!TestsOverlapByTimeouts /\ BountyWork!VerdictsHaveCommands
<1>. SUFFICES ASSUME WorkspaceInv PROVE BountyWork!TestsOverlapByTimeouts /\ BountyWork!VerdictsHaveCommands
  OBVIOUS
<1>1. \A t \in tests : t.bounty \in dirs /\ claim[t.bounty] # "none"
  BY DEF WorkspaceInv, NewestInv, WorkspacesInv
<1>2. BountyWork!Cardinality(tests) <= BountyWork!Cardinality(BountyWork!Waiting) + timeouts
  BY DEF WorkspaceInv, OverlapInv, Cardinality, BountyWork!Cardinality
<1>3. \A c \in BountyWork!Waiting : \E t \in BountyWork!Own(c) :
        t.bounty = workspaceCalls[c].bounty /\ t.command = workspaceCalls[c].command
  BY DEF WorkspaceInv, NewestInv, Newest, BountyWork!Waiting
<1>4. BountyWork!VerdictsHaveCommands
  BY DEF WorkspaceInv, VerificationsInv, WorkspacesInv, BountyWork!VerdictsHaveCommands
<1>. QED
  BY <1>1, <1>2, <1>3, <1>4 DEF BountyWork!TestsOverlapByTimeouts

(****************************************************************************)
(* The theorems.                                                            *)
(****************************************************************************)

\* What was confirmed runs once and what was refused never (take_pending_tool
\* and its callers), an applied edit stays, a specialty is provisioned twice
\* only by a race of two calls, the sections and the address of a proof are
\* those of the answer, a report is filed once unless its answer was lost, and
\* tests of one workspace overlap only by the timeouts there were.
THEOREM OrdersAlwaysFollowed == Spec => []OrdersAreFollowed
<1>1. ConfirmInv => SystemTools!ConfirmedOnce /\ SystemTools!RefusedNeverRuns
  BY ConfirmedAsAsked
<1>2. FilesInv => SystemTools!AppliedIsKept
  BY DEF FilesInv
<1>3. SpecialistsInv => OutsideParties!SecondNeedsARace
  BY SecondIsRace
<1>4. WorkProofInv => /\ BountyWork!SectionsAreApart /\ BountyWork!UrlIsTold
                      /\ BountyWork!PartialIsExhausted /\ BountyWork!LocalWorkIsCheap
  BY SectionsHold, UrlHolds DEF WorkProofInv
<1>5. ReportsInv => BountyWork!FiledOnceUnlessLost
  BY DEF ReportsInv, FiledInv
<1>6. WorkspaceInv => BountyWork!TestsOverlapByTimeouts /\ BountyWork!VerdictsHaveCommands
  BY WorkspacesKept
<1>7. /\ ConfirmInv /\ FilesInv /\ SpecialistsInv /\ WorkProofInv /\ ReportsInv /\ WorkspaceInv
      => OrdersAreFollowed
  BY <1>1, <1>2, <1>3, <1>4, <1>5, <1>6 DEF OrdersAreFollowed
<1>. QED
  BY <1>7, ConfirmHolds, FilesHold, SpecialistsHold, WorkProofHolds, ReportsHold, WorkspaceHolds, PTL

\* No step takes from a stake at its floor, starts what was confirmed too late,
\* deactivates the harness of another specialty, hands a connected wallet over,
\* hears the second number of a key, or takes back what was told of a report.
THEOREM PolicySteps == Spec => StepsOfPolicy
<1>1. DecayInv /\ [Next]_vars => [balance <= TokenEconomy!Floor => balance' = balance]_(TokenEconomy!decayVars)
  BY StepOfParts, DecayStep DEF decayVars, TokenEconomy!decayVars
<1>2. ConfirmInv /\ [Next]_vars =>
        [\A t \in expired : \A p \in DOMAIN processes' :
           processes'[p].token = t => p \in DOMAIN processes]_(SystemTools!confirmationVars)
  BY StepOfParts, ConfirmStep DEF confirmVars, SystemTools!confirmationVars
<1>3. SpecialistsInv /\ [Next]_vars =>
        [\A c \in ToolCalls :
           calls[c].stage = "delete" /\ calls'[c].stage # "delete" /\ running' # running =>
             \A p \in (Specialties \cup {FirstSpecialty}) \ {calls[c].package} :
               OutsideParties!Of(p) \subseteq running']_(OutsideParties!specialistsVars)
  BY StepOfParts, SpecialistsStep DEF specialistsVars, OutsideParties!specialistsVars
<1>4. WalletsInv /\ [Next]_vars =>
        [\A w \in Wallets :
           connected[w] # Nobody /\ connected'[w] # connected[w] =>
             connected'[w] = Nobody]_(OutsideParties!walletsVars)
  BY StepOfParts, WalletsStep DEF walletsVars, OutsideParties!walletsVars
<1>5. ContextInv /\ [Next]_vars =>
        [\A i \in DOMAIN agentContextFile :
           context' # context /\ context'.source = "file"
           /\ agentContextFile[i] = [key |-> "daily_bounty_limit", value |-> Garbled]
           /\ (\A j \in 1..(i - 1) : agentContextFile[j].key # "daily_bounty_limit") =>
             context'.limit = DefaultLimit]_(AgentContext!agentContextVars)
  BY StepOfParts, ContextStep DEF agentContextVars, AgentContext!agentContextVars
<1>6. ReportsInv /\ [Next]_vars =>
        [\A s \in Sessions, i \in BountyWork!Ids :
           /\ BountyWork!Rank(protocolIntakeReports'[s][i]) >= BountyWork!Rank(protocolIntakeReports[s][i])
           /\ protocolIntakeReports[s][i].bounty # BountyWork!NoBounty
              /\ protocolIntakeReports'[s][i].bounty # BountyWork!NoBounty =>
                protocolIntakeReports'[s][i].status >= protocolIntakeReports[s][i].status
           /\ protocolIntakeReports'[s][i].bounty # BountyWork!NoBounty =>
                protocolIntakeReports'[s][i].intake = "evaluated"
                /\ intakes[i].bounty = protocolIntakeReports'[s][i].bounty]_(BountyWork!protocolIntakeVars)
  BY StepOfParts, ReportsStep
     DEF protocolIntakeVars, BountyWork!protocolIntakeVars, BountyWork!NoBounty
<1>11. Spec => TokenEconomy!AtFloorStays
  BY <1>1, DecayHolds, PTL DEF Spec, TokenEconomy!AtFloorStays
<1>12. Spec => SystemTools!LateStartsNothing
  BY <1>2, ConfirmHolds, PTL DEF Spec, SystemTools!LateStartsNothing
<1>13. Spec => OutsideParties!OnlyTheAskedGoes
  BY <1>3, SpecialistsHold, PTL DEF Spec, OutsideParties!OnlyTheAskedGoes
<1>14. Spec => OutsideParties!HandedOverByDisconnection
  BY <1>4, WalletsHold, PTL DEF Spec, OutsideParties!HandedOverByDisconnection
<1>15. Spec => AgentContext!FirstLineCounts
  BY <1>5, ContextHolds, PTL DEF Spec, AgentContext!FirstLineCounts
<1>16. Spec => BountyWork!ReportsGoForward
  BY <1>6, ReportsHold, PTL DEF Spec, BountyWork!ReportsGoForward
<1>. QED
  BY <1>11, <1>12, <1>13, <1>14, <1>15, <1>16 DEF StepsOfPolicy

(****************************************************************************)
(* The turns of a session.  While the session is there its messages only    *)
(* become more, so a count read later is no smaller; and of two turns that  *)
(* never ran together, one was over before the other counted anything.      *)
(****************************************************************************)
Roles == {"user", "assistant"}
Message == [turn : Turns, role : Roles, seq : Nat, stamp : Turns \cup {NoTurn}]
ChatTurn == [stage : AgentProxy!Stages, seq : Nat, text : BOOLEAN, usage : BOOLEAN]

\* A turn has at most one message of each role, and numbers are counts of before.
MessagesInv ==
  /\ deleted \in BOOLEAN /\ messages \subseteq Message /\ IsFiniteSet(messages)
  /\ deleted => messages = {}
  /\ \A m, n \in messages : m.turn = n.turn /\ m.role = n.role => m = n
  /\ \A m \in messages : m.seq < Cardinality(messages)

\* What a turn saved follows from how far it is.
TurnsInv ==
  /\ turns \in [Turns -> ChatTurn]
  /\ \A m \in messages :
       /\ turns[m.turn].stage \notin {"new", "saveUser"}
       /\ m.role = "assistant" => turns[m.turn].stage \in {"touch", "stamp", "over"}
       /\ m.role = "user" /\ turns[m.turn].stage = "save" => m.seq < turns[m.turn].seq
       /\ m.stamp # NoTurn => turns[m.stamp].stage = "over"
  /\ \A t \in Turns :
       ~deleted /\ turns[t].stage \in {"saveUser", "save"} => turns[t].seq <= Cardinality(messages)

\* One turn was over before another counted.
Precedes(u, t) ==
  /\ turns[u].stage = "over"
  /\ \A m \in messages : m.turn = u =>
       /\ m.seq < turns[t].seq
       /\ \A n \in messages : n.turn = t => m.seq < n.seq
ApartInv ==
  \A t, u \in Turns :
    t # u /\ turns[t].stage # "new" /\ turns[u].stage # "new" /\ {t, u} \notin together =>
      Precedes(t, u) \/ Precedes(u, t)

TotalsInv ==
  /\ totals \in [Turns -> 0 .. 1]
  /\ \A t \in Turns : turns[t].stage \notin {"stamp", "over"} => totals[t] = 0

\* Two messages for each turn bound every number.
BoundInv ==
  /\ \A m \in messages : m.seq < 2 * Cardinality(Turns)
  /\ \A t \in Turns : turns[t].seq < 2 * Cardinality(Turns)

ChatInv ==
  /\ MessagesInv /\ TurnsInv /\ ApartInv /\ TotalsInv /\ BoundInv
  /\ AgentProxy!AnswerFollowsQuestion /\ AgentProxy!StampedByItsOwnTurn

\* The messages are fewer while a turn has one yet to save.
LEMMA MessagesAreFew ==
  ASSUME MessagesInv, NEW t \in Turns, NEW r \in Roles,
         \A m \in messages : ~(m.turn = t /\ m.role = r)
  PROVE  Cardinality(messages) < 2 * Cardinality(Turns)
<1>. DEFINE All == Turns \X Roles
            Rest == All \ {<<t, r>>}
            f == [m \in messages |-> <<m.turn, m.role>>]
<1>1. IsFiniteSet(Turns) /\ IsFiniteSet(Roles) /\ Cardinality(Roles) = 2
  <2>1. IsFiniteSet({"user"}) /\ Cardinality({"user"}) = 1
    BY FS_Singleton
  <2>2. Roles = {"user"} \cup {"assistant"} /\ "assistant" \notin {"user"}
    BY DEF Roles
  <2>. QED
    <3>1. IsFiniteSet({"user"} \cup {"assistant"}) /\ Cardinality({"user"} \cup {"assistant"}) = 1 + 1
      <4>1. "assistant" \notin {"user"}
        OBVIOUS
      <4>. QED
        BY <2>1, <4>1, FS_AddElement, Zenon
    <3>2. IsFiniteSet(Turns)
      BY ConstantsOfPolicy
    <3>. QED
      BY <2>2, <3>1, <3>2
<1>2. IsFiniteSet(All) /\ Cardinality(All) = Cardinality(Turns) * Cardinality(Roles)
  BY <1>1, FS_Product
<1>3. Cardinality(Turns) \in Nat
  BY <1>1, FS_CardinalityType
<1>4. IsFiniteSet(Rest) /\ Cardinality(Rest) = Cardinality(All) - 1
  <2>1. <<t, r>> \in All
    OBVIOUS
  <2>. HIDE DEF All
  <2>. QED
    BY <1>2, <2>1, FS_RemoveElement
<1>5. f \in Injection(messages, Rest)
  <2>1. \A m \in messages : m.turn \in Turns /\ m.role \in Roles
    BY DEF MessagesInv, Message
  <2>2. \A m \in messages : <<m.turn, m.role>> \in Rest
    BY <2>1
  <2>3. \A m, n \in messages : <<m.turn, m.role>> = <<n.turn, n.role>> => m = n
    BY DEF MessagesInv
  <2>. HIDE DEF Rest
  <2>4. f \in [messages -> Rest]
    BY <2>2
  <2>5. \A m, n \in messages : f[m] = f[n] => m = n
    BY <2>3
  <2>. QED
    BY <2>4, <2>5 DEF Injection, IsInjective
<1>6. Cardinality(messages) <= Cardinality(Rest)
  <2>. HIDE DEF f, Rest
  <2>. QED
    BY <1>4, <1>5, FS_Injection
<1>7. Cardinality(messages) \in Nat
  BY FS_CardinalityType DEF MessagesInv
<1>. HIDE DEF All, Rest
<1>. QED
  BY <1>1, <1>2, <1>3, <1>4, <1>6, <1>7

\* A turn goes on and the messages stay.
TurnGoes(t, new) ==
  \/ /\ turns[t].stage \in {"ask", "stream", "touch"} /\ new.seq = turns[t].seq
     /\ new.stage \notin {"new", "saveUser", "save"}
     /\ turns[t].stage = "touch" => new.stage \in {"stamp", "over"}
  \/ /\ turns[t].stage = "new" /\ new.stage = "saveUser" /\ new.seq = Cardinality(messages)
     /\ \A u \in Turns : turns[u].stage \notin {"new", "over"} => {t, u} \in together'
  \/ turns[t].stage = "count" /\ new.stage = "save" /\ new.seq = Cardinality(messages)

\* A turn that goes to its next stage, and only that, keeps ChatInv.
LEMMA TurnGoesOn ==
  ASSUME ChatInv, NEW t \in Turns, NEW new \in ChatTurn, turns' = [turns EXCEPT ![t] = new],
         UNCHANGED <<deleted, messages>>, together \subseteq together', TotalsInv', TurnGoes(t, new)
  PROVE  ChatInv'
<1>1. \A u \in Turns : turns'[u] = IF u = t THEN new ELSE turns[u]
  BY DEF ChatInv, TurnsInv
<1>2. Cardinality(messages) \in Nat
  BY FS_CardinalityType DEF ChatInv, MessagesInv
<1>3. \A m \in messages : m \in Message /\ m.turn \in Turns /\ m.seq \in Nat /\ m.role \in Roles
                          /\ m.seq < Cardinality(messages)
  BY DEF ChatInv, MessagesInv, Message
<1>4. \A u \in Turns : turns[u].seq \in Nat
  BY DEF ChatInv, TurnsInv, ChatTurn
<1>5. turns[t].stage # "over"
  BY DEF TurnGoes
<1>6. MessagesInv'
  BY DEF ChatInv, MessagesInv
<1>7. TurnsInv'
  <2>1. turns' \in [Turns -> ChatTurn]
    BY DEF ChatInv, TurnsInv
  <2>2. \A m \in messages :
          /\ turns'[m.turn].stage \notin {"new", "saveUser"}
          /\ m.role = "assistant" => turns'[m.turn].stage \in {"touch", "stamp", "over"}
    BY <1>1, <1>3 DEF ChatInv, TurnsInv, TurnGoes
  <2>3. \A m \in messages : m.role = "user" /\ turns'[m.turn].stage = "save" => m.seq < turns'[m.turn].seq
    BY <1>1, <1>3 DEF ChatInv, TurnsInv, TurnGoes
  <2>4. \A m \in messages : m.stamp # NoTurn => turns'[m.stamp].stage = "over"
    <3>1. \A m \in messages : m.stamp \in Turns \cup {NoTurn}
      BY <1>3 DEF Message
    <3>. QED
      BY <1>1, <1>5, <3>1 DEF ChatInv, TurnsInv
  <2>5. \A u \in Turns :
          ~deleted /\ turns'[u].stage \in {"saveUser", "save"} => turns'[u].seq <= Cardinality(messages)
    BY <1>1, <1>2 DEF ChatInv, TurnsInv, TurnGoes
  <2>. QED
    BY <2>1, <2>2, <2>3, <2>4, <2>5 DEF TurnsInv
<1>8. ApartInv'
  <2>. SUFFICES ASSUME NEW x \in Turns, NEW y \in Turns, x # y, turns'[x].stage # "new",
                       turns'[y].stage # "new", {x, y} \notin together'
                PROVE  Precedes(x, y)' \/ Precedes(y, x)'
    BY DEF ApartInv
  <2>1. ASSUME NEW u \in Turns, u # t, turns'[u].stage # "new", {t, u} \notin together'
        PROVE  Precedes(u, t)'
    <3>1. turns'[u] = turns[u] /\ turns'[t] = new
      BY <1>1, <2>1
    <3>2. CASE turns[t].stage # "new"
      <4>1. Precedes(u, t)
        BY <1>5, <2>1, <3>1, <3>2 DEF ChatInv, ApartInv, Precedes
      <4>2. new.seq = turns[t].seq \/ new.seq = Cardinality(messages)
        BY DEF TurnGoes
      <4>. QED
        BY <1>3, <3>1, <4>1, <4>2 DEF Precedes
    <3>3. CASE turns[t].stage = "new"
      <4>1. new.seq = Cardinality(messages) /\ turns[u].stage = "over"
        BY <2>1, <3>1, <3>3 DEF TurnGoes
      <4>2. \A n \in messages : n.turn # t
        BY <3>3 DEF ChatInv, TurnsInv
      <4>. QED
        BY <1>3, <3>1, <4>1, <4>2 DEF Precedes
    <3>. QED
      BY <3>2, <3>3
  <2>2. CASE x = t
    BY <2>1, <2>2
  <2>3. CASE y = t
    <3>1. {t, x} \notin together'
      <4>1. {t, x} = {x, y}
        BY <2>3
      <4>. QED
        BY <4>1
    <3>. QED
      BY <2>1, <2>3, <3>1
  <2>4. CASE x # t /\ y # t
    <3>1. turns'[x] = turns[x] /\ turns'[y] = turns[y] /\ {x, y} \notin together
      BY <1>1, <2>4
    <3>2. Precedes(x, y) \/ Precedes(y, x)
      BY <3>1 DEF ChatInv, ApartInv
    <3>. QED
      BY <3>1, <3>2 DEF Precedes
  <2>. QED
    BY <2>2, <2>3, <2>4
<1>9. BoundInv'
  <2>1. new.seq < 2 * Cardinality(Turns)
    <3>1. CASE new.seq = turns[t].seq
      BY <3>1 DEF ChatInv, BoundInv
    <3>2. CASE turns[t].stage \in {"new", "count"} /\ new.seq = Cardinality(messages)
      <4>1. \A m \in messages : ~(m.turn = t /\ m.role = "assistant")
        BY <3>2 DEF ChatInv, TurnsInv
      <4>. QED
        BY <3>2, <4>1, MessagesAreFew DEF ChatInv, Roles
    <3>. QED
      BY <3>1, <3>2 DEF TurnGoes
  <2>. QED
    BY <1>1, <2>1 DEF ChatInv, BoundInv
<1>10. AgentProxy!AnswerFollowsQuestion' /\ AgentProxy!StampedByItsOwnTurn'
  BY DEF ChatInv, AgentProxy!AnswerFollowsQuestion, AgentProxy!StampedByItsOwnTurn, AgentProxy!Answers
<1>. QED
  BY <1>6, <1>7, <1>8, <1>9, <1>10 DEF ChatInv

\* A turn saves a message of its own, or nothing when the session is gone.
LEMMA TurnSaves ==
  ASSUME ChatInv, NEW t \in Turns, NEW role \in Roles, NEW to \in AgentProxy!Stages,
         \/ role = "user" /\ turns[t].stage = "saveUser" /\ to = "ask"
         \/ role = "assistant" /\ turns[t].stage = "save" /\ to = "touch",
         turns' = [turns EXCEPT ![t].stage = to], messages' = AgentProxy!Saved(t, role),
         UNCHANGED <<deleted, together, totals>>
  PROVE  ChatInv'
<1>. DEFINE m0 == [turn |-> t, role |-> role, seq |-> turns[t].seq, stamp |-> NoTurn]
<1>0. turns \in [Turns -> ChatTurn] /\ turns[t].stage # "over" /\ turns[t].stage # "new"
  BY DEF ChatInv, TurnsInv
<1>1. \A u \in Turns : /\ turns'[u] \in ChatTurn
                       /\ turns'[u].seq = turns[u].seq
                       /\ turns'[u].stage = IF u = t THEN to ELSE turns[u].stage
  BY <1>0 DEF ChatTurn
<1>2. turns' \in [Turns -> ChatTurn]
  BY <1>0, <1>1
<1>3. Cardinality(messages) \in Nat /\ IsFiniteSet(messages)
  BY FS_CardinalityType DEF ChatInv, MessagesInv
<1>4. \A m \in messages : m \in Message /\ m.turn \in Turns /\ m.seq \in Nat /\ m.role \in Roles
                          /\ m.seq < Cardinality(messages) /\ m.stamp \in Turns \cup {NoTurn}
  BY DEF ChatInv, MessagesInv, Message
<1>5. \A u \in Turns : turns[u].seq \in Nat
  BY <1>0 DEF ChatTurn
<1>6. /\ m0 \in Message /\ m0.turn = t /\ m0.role = role /\ m0.seq = turns[t].seq /\ m0.stamp = NoTurn
  BY <1>5 DEF Message
<1>7. \A m \in messages : ~(m.turn = t /\ m.role = role)
  BY DEF ChatInv, TurnsInv
<1>8. PICK more \in SUBSET {m0} : messages' = messages \cup more /\ (deleted => more = {})
  BY DEF AgentProxy!Saved
<1>9. \A m \in messages' : m \in messages \/ (m = m0 /\ ~deleted)
  BY <1>8
<1>. HIDE DEF m0
<1>10. /\ IsFiniteSet(messages') /\ Cardinality(messages') \in Nat
       /\ Cardinality(messages') >= Cardinality(messages)
       /\ m0 \in messages' => Cardinality(messages') > Cardinality(messages)
  <2>1. m0 \notin messages
    BY <1>6, <1>7
  <2>2. CASE more = {}
    BY <1>3, <1>8, <2>1, <2>2
  <2>3. CASE more = {m0}
    <3>1. messages' = messages \cup {m0}
      BY <1>8, <2>3
    <3>2. /\ IsFiniteSet(messages \cup {m0})
          /\ Cardinality(messages \cup {m0}) = IF m0 \in messages THEN Cardinality(messages) ELSE Cardinality(messages) + 1
      BY <1>3, FS_AddElement, Zenon
    <3>. QED
      BY <1>3, <2>1, <3>1, <3>2
  <2>. QED
    BY <2>2, <2>3
<1>11. MessagesInv'
  <2>1. messages' \subseteq Message /\ (deleted' => messages' = {})
    BY <1>4, <1>6, <1>8 DEF ChatInv, MessagesInv
  <2>2. \A m, n \in messages' : m.turn = n.turn /\ m.role = n.role => m = n
    BY <1>6, <1>7, <1>9 DEF ChatInv, MessagesInv
  <2>3. \A m \in messages' : m.seq < Cardinality(messages')
    <3>1. ASSUME m0 \in messages', ~deleted PROVE m0.seq < Cardinality(messages')
      <4>1. m0.seq <= Cardinality(messages)
        BY <1>6, <3>1 DEF ChatInv, TurnsInv
      <4>. QED
        BY <1>3, <1>5, <1>6, <1>10, <3>1, <4>1
    <3>. QED
      BY <1>3, <1>4, <1>9, <1>10, <3>1
  <2>. QED
    BY <1>10, <2>1, <2>2, <2>3 DEF ChatInv, MessagesInv
<1>12. TurnsInv'
  <2>1. \A m \in messages' :
          /\ turns'[m.turn].stage \notin {"new", "saveUser"}
          /\ m.role = "assistant" => turns'[m.turn].stage \in {"touch", "stamp", "over"}
          /\ m.role = "user" /\ turns'[m.turn].stage = "save" => m.seq < turns'[m.turn].seq
    BY <1>1, <1>4, <1>6, <1>9 DEF ChatInv, TurnsInv
  <2>2. \A m \in messages' : m.stamp # NoTurn => turns'[m.stamp].stage = "over"
    BY <1>0, <1>1, <1>4, <1>6, <1>9 DEF ChatInv, TurnsInv
  <2>3. \A u \in Turns :
          ~deleted' /\ turns'[u].stage \in {"saveUser", "save"} => turns'[u].seq <= Cardinality(messages')
    BY <1>1, <1>3, <1>5, <1>10 DEF ChatInv, TurnsInv
  <2>. QED
    BY <1>2, <2>1, <2>2, <2>3 DEF TurnsInv
<1>13. ApartInv'
  <2>1. ASSUME NEW x \in Turns, NEW y \in Turns, Precedes(x, y), x # y, turns[y].stage # "new"
        PROVE  Precedes(x, y)'
    <3>1. x # t
      BY <1>0, <2>1 DEF Precedes
    <3>2. \A m \in messages' : m.turn = x => m \in messages
      BY <1>6, <1>9, <3>1
    <3>3. \A m \in messages : m.turn = x => m.seq < turns[y].seq
      BY <2>1 DEF Precedes
    <3>4. \A n \in messages' : n.turn = y => n \in messages \/ n.seq = turns[y].seq
      BY <1>6, <1>9
    <3>. QED
      BY <1>1, <2>1, <3>1, <3>2, <3>3, <3>4 DEF Precedes
  <2>2. \A x \in Turns : turns'[x].stage # "new" => turns[x].stage # "new"
    BY <1>0, <1>1
  <2>. QED
    BY <2>1, <2>2 DEF ChatInv, ApartInv
<1>14. TotalsInv' /\ BoundInv'
  <2>1. TotalsInv'
    BY <1>1 DEF ChatInv, TotalsInv
  <2>2. BoundInv'
    BY <1>1, <1>6, <1>9 DEF ChatInv, BoundInv
  <2>. QED
    BY <2>1, <2>2
<1>15. AgentProxy!AnswerFollowsQuestion'
  <2>. SUFFICES ASSUME NEW q \in messages', NEW a \in messages', q.turn = a.turn, q.role = "user", a.role = "assistant"
                PROVE  q.seq < a.seq
    BY DEF AgentProxy!AnswerFollowsQuestion
  <2>1. CASE q \in messages /\ a \in messages
    BY <2>1 DEF ChatInv, AgentProxy!AnswerFollowsQuestion
  <2>2. CASE q \in messages /\ a = m0
    <3>1. turns[t].stage = "save"
      BY <1>6, <2>2
    <3>. QED
      BY <1>6, <2>2, <3>1 DEF ChatInv, TurnsInv
  <2>3. CASE a \in messages /\ q = m0
    <3>1. turns[t].stage = "saveUser"
      BY <1>6, <2>3
    <3>. QED
      BY <1>6, <2>3, <3>1 DEF ChatInv, TurnsInv
  <2>4. ~(q = m0 /\ a = m0)
    BY <1>6
  <2>. QED
    BY <1>9, <2>1, <2>2, <2>3, <2>4
<1>16. AgentProxy!StampedByItsOwnTurn'
  <2>. SUFFICES ASSUME NEW m \in messages', m.stamp \notin {NoTurn, m.turn}, NEW n \in messages',
                       n.role = "assistant", n.turn = m.stamp
                PROVE  {m.stamp, m.turn} \in together
    BY DEF AgentProxy!StampedByItsOwnTurn, AgentProxy!Answers
  <2>1. m \in messages
    BY <1>6, <1>9
  <2>2. turns[m.stamp].stage = "over"
    BY <2>1 DEF ChatInv, TurnsInv
  <2>3. n \in messages
    BY <1>0, <1>6, <1>9, <2>2
  <2>. QED
    BY <2>1, <2>3 DEF ChatInv, AgentProxy!StampedByItsOwnTurn, AgentProxy!Answers
<1>. QED
  BY <1>11, <1>12, <1>13, <1>14, <1>15, <1>16 DEF ChatInv

\* A turn stamps the last answer and is over.
LEMMA TurnStamps ==
  ASSUME ChatInv, NEW t \in Turns, AgentProxy!StampUsage(t)
  PROVE  ChatInv'
<1>0. /\ turns \in [Turns -> ChatTurn] /\ turns[t].stage = "stamp"
      /\ turns' = [turns EXCEPT ![t].stage = "over"] /\ UNCHANGED <<deleted, together, totals>>
  BY DEF ChatInv, TurnsInv, AgentProxy!StampUsage, AgentProxy!Goes
<1>1. \A u \in Turns : /\ turns'[u] \in ChatTurn
                       /\ turns'[u].seq = turns[u].seq
                       /\ turns'[u].stage = IF u = t THEN "over" ELSE turns[u].stage
  BY <1>0 DEF ChatTurn, AgentProxy!Stages
<1>2. turns' \in [Turns -> ChatTurn]
  BY <1>0, <1>1
<1>3. Cardinality(messages) \in Nat /\ IsFiniteSet(messages)
  BY FS_CardinalityType DEF ChatInv, MessagesInv
<1>4. \A m \in messages : m \in Message /\ m.turn \in Turns /\ m.seq \in Nat /\ m.role \in Roles
                          /\ m.stamp \in Turns \cup {NoTurn}
  BY DEF ChatInv, MessagesInv, Message
<1>5. CASE UNCHANGED messages
  <2>1. TurnsInv'
    BY <1>0, <1>1, <1>2, <1>4, <1>5 DEF ChatInv, TurnsInv
  <2>2. ApartInv'
    BY <1>0, <1>1, <1>5 DEF ChatInv, ApartInv, Precedes
  <2>. QED
    BY <1>0, <1>1, <1>5, <2>1, <2>2 DEF ChatInv, MessagesInv, TotalsInv, BoundInv,
       AgentProxy!AnswerFollowsQuestion, AgentProxy!StampedByItsOwnTurn, AgentProxy!Answers
<1>6. ASSUME NEW m \in AgentProxy!LastAnswer, messages' = (messages \ {m}) \cup {[m EXCEPT !.stamp = t]}
      PROVE  ChatInv'
  <2>. DEFINE m1 == [m EXCEPT !.stamp = t]
  <2>1. /\ m \in messages /\ m.role = "assistant"
        /\ \A n \in messages : n.role = "assistant" => n.seq <= m.seq
    BY <1>6 DEF AgentProxy!LastAnswer, AgentProxy!Answers
  <2>2. m1 \in Message /\ m1.turn = m.turn /\ m1.role = m.role /\ m1.seq = m.seq /\ m1.stamp = t
    BY <1>4, <2>1 DEF Message
  <2>3. messages' = (messages \ {m}) \cup {m1}
    BY <1>6
  <2>. HIDE DEF m1
  <2>4. \A x \in messages' : (x \in messages /\ x # m) \/ x = m1
    BY <2>3
  <2>5. \A x \in messages' : \E o \in messages : o.turn = x.turn /\ o.role = x.role /\ o.seq = x.seq
    BY <2>1, <2>2, <2>4
  <2>6. IsFiniteSet(messages') /\ Cardinality(messages') = Cardinality(messages)
    <3>1. CASE m1 = m
      BY <1>3, <2>1, <2>3, <3>1
    <3>2. CASE m1 # m
      <4>1. m1 \notin messages \ {m}
        BY <2>1, <2>2 DEF ChatInv, MessagesInv
      <4>2. /\ IsFiniteSet(messages \ {m})
            /\ Cardinality(messages \ {m}) = IF m \in messages THEN Cardinality(messages) - 1 ELSE Cardinality(messages)
        BY <1>3, FS_RemoveElement, Zenon
      <4>3. PICK rest : rest = messages \ {m}
        OBVIOUS
      <4>4. IsFiniteSet(rest) /\ Cardinality(rest) = Cardinality(messages) - 1 /\ m1 \notin rest
            /\ messages' = rest \cup {m1}
        BY <2>1, <2>3, <4>1, <4>2, <4>3
      <4>5. /\ IsFiniteSet(rest \cup {m1})
            /\ Cardinality(rest \cup {m1}) = IF m1 \in rest THEN Cardinality(rest) ELSE Cardinality(rest) + 1
        BY <4>4, FS_AddElement, Zenon
      <4>. QED
        BY <1>3, <4>4, <4>5
    <3>. QED
      BY <3>1, <3>2
  <2>7. MessagesInv'
    <3>1. \A x, y \in messages' : x.turn = y.turn /\ x.role = y.role => x = y
      BY <2>1, <2>2, <2>4 DEF ChatInv, MessagesInv
    <3>2. \A x \in messages' : x \in Message /\ x.seq < Cardinality(messages')
      BY <1>4, <2>1, <2>2, <2>4, <2>6 DEF ChatInv, MessagesInv
    <3>3. ~deleted
      BY <2>1 DEF ChatInv, MessagesInv
    <3>. QED
      BY <1>0, <2>6, <3>1, <3>2, <3>3 DEF ChatInv, MessagesInv
  <2>8. TurnsInv'
    <3>1. \A x \in messages' :
            /\ turns'[x.turn].stage \notin {"new", "saveUser"}
            /\ x.role = "assistant" => turns'[x.turn].stage \in {"touch", "stamp", "over"}
            /\ x.role = "user" /\ turns'[x.turn].stage = "save" => x.seq < turns'[x.turn].seq
      BY <1>1, <1>4, <2>5 DEF ChatInv, TurnsInv
    <3>2. \A x \in messages' : x.stamp # NoTurn => turns'[x.stamp].stage = "over"
      BY <1>0, <1>1, <1>4, <2>2, <2>4 DEF ChatInv, TurnsInv
    <3>3. \A u \in Turns :
            ~deleted' /\ turns'[u].stage \in {"saveUser", "save"} => turns'[u].seq <= Cardinality(messages')
      BY <1>0, <1>1, <2>6 DEF ChatInv, TurnsInv
    <3>. QED
      BY <1>2, <3>1, <3>2, <3>3 DEF TurnsInv
  <2>9. ApartInv'
    <3>1. ASSUME NEW x \in Turns, NEW y \in Turns, Precedes(x, y)
          PROVE  Precedes(x, y)'
      BY <1>0, <1>1, <2>5, <3>1 DEF Precedes
    <3>2. \A x \in Turns : turns'[x].stage # "new" => turns[x].stage # "new"
      BY <1>0, <1>1
    <3>. QED
      BY <1>0, <3>1, <3>2 DEF ChatInv, ApartInv
  <2>10. TotalsInv' /\ BoundInv'
    <3>1. TotalsInv'
      BY <1>0, <1>1 DEF ChatInv, TotalsInv
    <3>2. BoundInv'
      BY <1>1, <2>5 DEF ChatInv, BoundInv
    <3>. QED
      BY <3>1, <3>2
  <2>11. AgentProxy!AnswerFollowsQuestion'
    BY <2>5 DEF ChatInv, AgentProxy!AnswerFollowsQuestion
  <2>12. AgentProxy!StampedByItsOwnTurn'
    <3>. SUFFICES ASSUME NEW x \in messages', x.stamp \notin {NoTurn, x.turn}, NEW n \in messages',
                         n.role = "assistant", n.turn = x.stamp
                  PROVE  {x.stamp, x.turn} \in together
      BY <1>0 DEF AgentProxy!StampedByItsOwnTurn, AgentProxy!Answers
    <3>1. PICK o \in messages : o.role = "assistant" /\ o.turn = x.stamp /\ o.seq = n.seq
      BY <2>5
    <3>2. CASE x \in messages
      BY <3>1, <3>2 DEF ChatInv, AgentProxy!StampedByItsOwnTurn, AgentProxy!Answers
    <3>3. CASE x = m1
      <4>1. x.stamp = t /\ x.turn = m.turn /\ t # m.turn /\ m.turn \in Turns
        BY <1>4, <2>1, <2>2, <3>3
      <4>2. o.seq <= m.seq /\ o.seq \in Nat /\ m.seq \in Nat
        BY <1>4, <2>1, <3>1
      <4>3. ~Precedes(m.turn, t)
        BY <2>1, <3>1, <4>1, <4>2 DEF Precedes
      <4>4. ~Precedes(t, m.turn)
        BY <1>0 DEF Precedes
      <4>5. turns[t].stage # "new" /\ turns[m.turn].stage # "new"
        BY <1>0, <2>1 DEF ChatInv, TurnsInv
      <4>. QED
        BY <4>1, <4>3, <4>4, <4>5 DEF ChatInv, ApartInv
    <3>. QED
      BY <2>4, <3>2, <3>3
  <2>. QED
    BY <2>7, <2>8, <2>9, <2>10, <2>11, <2>12 DEF ChatInv
<1>. QED
  BY <1>5, <1>6 DEF AgentProxy!StampUsage

\* DeleteSession: ChatInv is kept.
LEMMA SessionGoes ==
  ASSUME ChatInv, AgentProxy!DeleteSession
  PROVE  ChatInv'
<1>1. deleted' = TRUE /\ messages' = {} /\ UNCHANGED <<turns, together, totals>>
  BY DEF AgentProxy!DeleteSession
<1>2. IsFiniteSet({})
  BY FS_EmptySet
<1>3. MessagesInv'
  BY <1>1, <1>2 DEF MessagesInv
<1>4. TurnsInv' /\ ApartInv' /\ TotalsInv' /\ BoundInv'
  <2>1. TurnsInv'
    BY <1>1 DEF ChatInv, TurnsInv
  <2>2. ApartInv'
    BY <1>1 DEF ChatInv, ApartInv, Precedes
  <2>. QED
    BY <1>1, <2>1, <2>2 DEF ChatInv, TotalsInv, BoundInv
<1>. QED
  BY <1>1, <1>3, <1>4 DEF ChatInv, AgentProxy!AnswerFollowsQuestion, AgentProxy!StampedByItsOwnTurn

\* A step of this part, or of another, keeps ChatInv.
LEMMA ChatStep ==
  ASSUME ChatInv, [AgentProxy!ChatTurnsNext]_chatVars
  PROVE  ChatInv'
<1>0. turns \in [Turns -> ChatTurn] /\ Cardinality(messages) \in Nat
      /\ totals \in [Turns -> 0 .. 1]
  BY FS_CardinalityType DEF ChatInv, TurnsInv, MessagesInv, TotalsInv
<1>1. ASSUME NEW t \in Turns, AgentProxy!CountUser(t)
      PROVE  ChatInv'
  <2>. DEFINE new == [turns[t] EXCEPT !.stage = "saveUser", !.seq = Cardinality(messages)]
  <2>0. AgentProxy!MessageCount = Cardinality(messages) /\ turns[t] \in ChatTurn
    BY <1>0 DEF AgentProxy!MessageCount, Cardinality, AgentProxy!Cardinality
  <2>a. new \in ChatTurn /\ new.stage = "saveUser" /\ new.seq = Cardinality(messages)
    BY <1>0, <2>0 DEF ChatTurn, AgentProxy!Stages
  <2>b. turns' = [turns EXCEPT ![t] = new]
    <3>1. turns' = [turns EXCEPT ![t].stage = "saveUser", ![t].seq = Cardinality(messages)]
      BY <1>1, <2>0 DEF AgentProxy!CountUser
    <3>. QED
      BY <1>0, <3>1
  <2>1. /\ new \in ChatTurn /\ turns' = [turns EXCEPT ![t] = new]
        /\ new.stage = "saveUser" /\ new.seq = Cardinality(messages)
    BY <2>a, <2>b
  <2>2. /\ turns[t].stage = "new" /\ UNCHANGED <<deleted, messages, totals>>
        /\ together \subseteq together'
        /\ \A u \in Turns : turns[u].stage \notin {"new", "over"} => {t, u} \in together'
    BY <1>1 DEF AgentProxy!CountUser, AgentProxy!Underway
  <2>. HIDE DEF new
  <2>3. TotalsInv'
    BY <1>0, <2>1, <2>2 DEF ChatInv, TotalsInv
  <2>. QED
    BY <2>1, <2>2, <2>3, TurnGoesOn DEF TurnGoes
<1>2. ASSUME NEW t \in Turns, AgentProxy!CountAnswer(t)
      PROVE  ChatInv'
  <2>. DEFINE new == [turns[t] EXCEPT !.stage = "save", !.seq = Cardinality(messages)]
  <2>0. AgentProxy!MessageCount = Cardinality(messages) /\ turns[t] \in ChatTurn
    BY <1>0 DEF AgentProxy!MessageCount, Cardinality, AgentProxy!Cardinality
  <2>a. new \in ChatTurn /\ new.stage = "save" /\ new.seq = Cardinality(messages)
    BY <1>0, <2>0 DEF ChatTurn, AgentProxy!Stages
  <2>b. turns' = [turns EXCEPT ![t] = new]
    <3>1. turns' = [turns EXCEPT ![t].stage = "save", ![t].seq = Cardinality(messages)]
      BY <1>2, <2>0 DEF AgentProxy!CountAnswer
    <3>. QED
      BY <1>0, <3>1
  <2>1. /\ new \in ChatTurn /\ turns' = [turns EXCEPT ![t] = new]
        /\ new.stage = "save" /\ new.seq = Cardinality(messages)
    BY <2>a, <2>b
  <2>2. turns[t].stage = "count" /\ UNCHANGED <<deleted, messages, together, totals>>
    BY <1>2 DEF AgentProxy!CountAnswer
  <2>. HIDE DEF new
  <2>3. TotalsInv'
    BY <1>0, <2>1, <2>2 DEF ChatInv, TotalsInv
  <2>. QED
    BY <2>1, <2>2, <2>3, TurnGoesOn DEF TurnGoes
<1>3. ASSUME NEW t \in Turns, AgentProxy!Ask(t) \/ AgentProxy!MessageDelta(t) \/ AgentProxy!AgentEnd(t)
                              \/ AgentProxy!StreamEnds(t)
      PROVE  ChatInv'
  <2>1. PICK new \in ChatTurn :
          /\ turns' = [turns EXCEPT ![t] = new] /\ turns[t].stage \in {"ask", "stream"}
          /\ new.seq = turns[t].seq /\ new.stage \in {"stream", "over", "count", "touch"}
          /\ new.stage = "over" => turns[t].stage = "ask"
    <3>1. CASE AgentProxy!Ask(t)
      <4>1. PICK to \in {"stream", "over"} : AgentProxy!Goes(t, "ask", to)
        BY <3>1 DEF AgentProxy!Ask
      <4>2. [turns[t] EXCEPT !.stage = to] \in ChatTurn
        BY <1>0 DEF ChatTurn, AgentProxy!Stages
      <4>3. [turns[t] EXCEPT !.stage = to].seq = turns[t].seq /\ [turns[t] EXCEPT !.stage = to].stage = to
        BY <1>0 DEF ChatTurn
      <4>. QED
        BY <1>0, <4>1, <4>2, <4>3 DEF AgentProxy!Goes
    <3>2. CASE AgentProxy!MessageDelta(t)
      <4>1. [turns[t] EXCEPT !.text = TRUE] \in ChatTurn
        BY <1>0 DEF ChatTurn
      <4>2. /\ [turns[t] EXCEPT !.text = TRUE].seq = turns[t].seq
            /\ [turns[t] EXCEPT !.text = TRUE].stage = "stream" /\ turns[t].stage = "stream"
            /\ turns' = [turns EXCEPT ![t] = [turns[t] EXCEPT !.text = TRUE]]
        BY <1>0, <3>2 DEF ChatTurn, AgentProxy!MessageDelta
      <4>. QED
        BY <4>1, <4>2
    <3>3. CASE AgentProxy!AgentEnd(t)
      <4>1. [turns[t] EXCEPT !.usage = TRUE] \in ChatTurn
        BY <1>0 DEF ChatTurn
      <4>2. /\ [turns[t] EXCEPT !.usage = TRUE].seq = turns[t].seq
            /\ [turns[t] EXCEPT !.usage = TRUE].stage = "stream" /\ turns[t].stage = "stream"
            /\ turns' = [turns EXCEPT ![t] = [turns[t] EXCEPT !.usage = TRUE]]
        BY <1>0, <3>3 DEF ChatTurn, AgentProxy!AgentEnd
      <4>. QED
        BY <4>1, <4>2
    <3>4. CASE AgentProxy!StreamEnds(t)
      <4>1. PICK to \in {"count", "touch"} : AgentProxy!Goes(t, "stream", to)
        BY <3>4 DEF AgentProxy!StreamEnds
      <4>2. [turns[t] EXCEPT !.stage = to] \in ChatTurn
        BY <1>0 DEF ChatTurn, AgentProxy!Stages
      <4>3. [turns[t] EXCEPT !.stage = to].seq = turns[t].seq /\ [turns[t] EXCEPT !.stage = to].stage = to
        BY <1>0 DEF ChatTurn
      <4>. QED
        BY <1>0, <4>1, <4>2, <4>3 DEF AgentProxy!Goes
    <3>. QED
      BY <1>3, <3>1, <3>2, <3>3, <3>4
  <2>2. UNCHANGED <<deleted, messages, together, totals>>
    BY <1>3 DEF AgentProxy!Ask, AgentProxy!MessageDelta, AgentProxy!AgentEnd, AgentProxy!StreamEnds
  <2>3. TotalsInv'
    BY <1>0, <2>1, <2>2 DEF ChatInv, TotalsInv
  <2>. QED
    BY <2>1, <2>2, <2>3, TurnGoesOn DEF TurnGoes
<1>4. ASSUME NEW t \in Turns, AgentProxy!TouchSession(t)
      PROVE  ChatInv'
  <2>1. PICK to \in {"stamp", "over"} : AgentProxy!Goes(t, "touch", to)
    BY <1>4 DEF AgentProxy!TouchSession
  <2>. DEFINE new == [turns[t] EXCEPT !.stage = to]
  <2>2. /\ new \in ChatTurn /\ new.stage = to /\ new.seq = turns[t].seq
        /\ turns' = [turns EXCEPT ![t] = new] /\ turns[t].stage = "touch"
    BY <1>0, <2>1 DEF ChatTurn, AgentProxy!Stages, AgentProxy!Goes
  <2>3. /\ UNCHANGED <<deleted, messages, together>>
        /\ totals' = totals \/ totals' = [totals EXCEPT ![t] = @ + 1]
    BY <1>4 DEF AgentProxy!TouchSession
  <2>. HIDE DEF new
  <2>4. totals[t] = 0
    BY <2>2 DEF ChatInv, TotalsInv
  <2>5. TotalsInv'
    BY <1>0, <2>2, <2>3, <2>4 DEF ChatInv, TotalsInv
  <2>. QED
    BY <2>2, <2>3, <2>5, TurnGoesOn DEF TurnGoes
<1>5. ASSUME NEW t \in Turns, AgentProxy!SaveUser(t)
      PROVE  ChatInv'
  BY <1>5, TurnSaves DEF AgentProxy!SaveUser, AgentProxy!Goes, Roles, AgentProxy!Stages
<1>6. ASSUME NEW t \in Turns, AgentProxy!SaveAnswer(t)
      PROVE  ChatInv'
  BY <1>6, TurnSaves DEF AgentProxy!SaveAnswer, AgentProxy!Goes, Roles, AgentProxy!Stages
<1>7. CASE UNCHANGED chatVars
  BY <1>7 DEF chatVars, ChatInv, MessagesInv, TurnsInv, ApartInv, Precedes, TotalsInv, BoundInv,
     AgentProxy!AnswerFollowsQuestion, AgentProxy!StampedByItsOwnTurn, AgentProxy!Answers
<1>. QED
  BY <1>1, <1>2, <1>3, <1>4, <1>5, <1>6, <1>7, TurnStamps, SessionGoes DEF AgentProxy!ChatTurnsNext

\* ChatInv holds in every reachable state.
LEMMA ChatHolds == Spec => []ChatInv
<1>1. Init => ChatInv
  <2>. SUFFICES ASSUME Init PROVE ChatInv
    OBVIOUS
  <2>1. /\ deleted = FALSE /\ messages = {} /\ together = {}
        /\ turns = [t \in Turns |-> [stage |-> "new", seq |-> 0, text |-> FALSE, usage |-> FALSE]]
        /\ totals = [t \in Turns |-> 0]
    BY DEF Init, AgentProxy!ChatTurnsInit
  <2>2. IsFiniteSet({}) /\ Cardinality({}) = 0
    BY FS_EmptySet
  <2>3. MessagesInv
    BY <2>1, <2>2 DEF MessagesInv
  <2>4. TurnsInv
    BY <2>1, <2>2 DEF TurnsInv, ChatTurn, AgentProxy!Stages
  <2>5. BoundInv
    <3>1. ASSUME NEW t \in Turns PROVE 0 < 2 * Cardinality(Turns)
      <4>1. IsFiniteSet(Turns)
        BY ConstantsOfPolicy
      <4>2. Cardinality(Turns) \in Nat /\ Cardinality(Turns) # 0
        BY <4>1, FS_CardinalityType, FS_EmptySet
      <4>. QED
        BY <4>2
    <3>. QED
      BY <2>1, <3>1 DEF BoundInv
  <2>6. ApartInv /\ TotalsInv
    BY <2>1 DEF ApartInv, TotalsInv
  <2>. QED
    BY <2>1, <2>3, <2>4, <2>5, <2>6 DEF ChatInv, AgentProxy!AnswerFollowsQuestion,
       AgentProxy!StampedByItsOwnTurn
<1>2. ChatInv /\ [Next]_vars => ChatInv'
  BY StepOfParts, ChatStep
<1>. QED
  BY <1>1, <1>2, PTL DEF Spec

(****************************************************************************)
(* Uploads.  A row is inserted for a file that is there, and the file goes  *)
(* only after somebody asked for its deletion; what a chat loaded was       *)
(* checked when it was uploaded, whatever became of it since.               *)
(****************************************************************************)
UploadBlock == [of : Uploads, kind : AgentProxy!BlockKinds, bytes : AgentProxy!Bytes]
Upload == AgentProxy!Uploaded \cup {AgentProxy!NoUpload}
Checked(f) == f \in Upload /\ (f # AgentProxy!NoUpload => AgentProxy!ValidateUploadMime(f))
ChatOfUploads == [stage : {"idle", "row", "file", "sent", "passed"},
                  attached : Seq(Uploads \cup {Malformed}), blocks : Seq(UploadBlock), loaded : Upload]

FilesOfUploads ==
  /\ files \subseteq Uploads /\ ingested \subseteq Uploads
  /\ uploadsRows \in [Uploads -> Upload] /\ uploading \in [Uploads -> Upload]
  /\ deleting \in [Uploads -> {"no", "file", "row", "failed", "done"}]
  /\ \A u \in Uploads :
       /\ Checked(uploadsRows[u]) /\ Checked(uploading[u])
       /\ uploading[u] # AgentProxy!NoUpload =>
            u \in files /\ uploadsRows[u] = AgentProxy!NoUpload /\ deleting[u] = "no"
       /\ uploadsRows[u] # AgentProxy!NoUpload /\ deleting[u] = "no" => u \in files

\* A chat on its way has answered the first of its attachments, each in its place.
ChatOfUploadsInv ==
  /\ chat \in ChatOfUploads /\ Checked(chat.loaded)
  /\ chat.stage \in {"row", "file"} => Len(chat.blocks) < Len(chat.attached)
  /\ chat.stage = "sent" => Len(chat.blocks) = Len(chat.attached)
  /\ chat.stage = "file" => AgentProxy!Current # Malformed
  /\ chat.stage \in {"row", "file", "sent"} =>
       \A i \in DOMAIN chat.blocks : chat.blocks[i].of = chat.attached[i]
  /\ AgentProxy!ImagesAreImages

UploadsInv == FilesOfUploads /\ ChatOfUploadsInv

\* Where there is no upload, none is unchecked.
LEMMA NoUploadIsUpload == Checked(AgentProxy!NoUpload)
BY DEF Checked, Upload

\* The steps on rows and files keep each row's file.
LEMMA FilesMove ==
  ASSUME FilesOfUploads, NEW u \in Uploads,
         \/ AgentProxy!UploadFile(u) \/ AgentProxy!InsertRow(u) \/ AgentProxy!DeleteUpload(u)
         \/ AgentProxy!RemoveFile(u) \/ AgentProxy!DropRow(u)
  PROVE  FilesOfUploads' /\ UNCHANGED chat
<1>0. /\ uploadsRows \in [Uploads -> Upload] /\ uploading \in [Uploads -> Upload]
      /\ deleting \in [Uploads -> {"no", "file", "row", "failed", "done"}]
      /\ files \subseteq Uploads /\ ingested \subseteq Uploads
  BY DEF FilesOfUploads
<1>1. CASE AgentProxy!UploadFile(u)
  <2>1. PICK f \in AgentProxy!Uploaded :
          AgentProxy!ValidateUploadMime(f) /\ uploading' = [uploading EXCEPT ![u] = f]
    BY <1>1 DEF AgentProxy!UploadFile, AgentProxy!StoreFile
  <2>2. Checked(f)
    BY <2>1 DEF Checked, Upload
  <2>3. /\ files' = files \cup {u} /\ UNCHANGED <<uploadsRows, deleting, chat, ingested>>
        /\ uploadsRows[u] = AgentProxy!NoUpload /\ deleting[u] = "no"
    BY <1>1 DEF AgentProxy!UploadFile, AgentProxy!StoreFile, AgentProxy!New
  <2>. QED
    BY <1>0, <2>1, <2>2, <2>3 DEF FilesOfUploads, Checked
<1>2. CASE AgentProxy!InsertRow(u)
  <2>1. /\ uploading[u] # AgentProxy!NoUpload
        /\ uploading' = [uploading EXCEPT ![u] = AgentProxy!NoUpload]
        /\ uploadsRows' = [uploadsRows EXCEPT ![u] = uploading[u]] \/ uploadsRows' = uploadsRows
        /\ UNCHANGED <<files, deleting, chat, ingested>>
    BY <1>2 DEF AgentProxy!InsertRow
  <2>2. \A v \in Uploads : Checked(uploadsRows'[v]) /\ Checked(uploading'[v])
    BY <1>0, <2>1, NoUploadIsUpload DEF FilesOfUploads
  <2>3. uploadsRows' \in [Uploads -> Upload] /\ uploading' \in [Uploads -> Upload]
    BY <1>0, <2>1, NoUploadIsUpload DEF Checked
  <2>. QED
    BY <1>0, <2>1, <2>2, <2>3 DEF FilesOfUploads
<1>3. CASE AgentProxy!DeleteUpload(u)
  BY <1>0, <1>3 DEF AgentProxy!DeleteUpload, FilesOfUploads, Checked
<1>4. CASE AgentProxy!RemoveFile(u)
  <2>1. /\ deleting[u] = "file" /\ deleting' = [deleting EXCEPT ![u] = "row"]
        /\ files' = files \/ files' = files \ {u}
        /\ UNCHANGED <<uploadsRows, uploading, chat, ingested>>
    BY <1>4 DEF AgentProxy!RemoveFile
  <2>. QED
    BY <1>0, <2>1 DEF FilesOfUploads, Checked
<1>5. CASE AgentProxy!DropRow(u)
  <2>1. /\ deleting[u] = "row" /\ UNCHANGED <<files, uploading, chat, ingested>>
        /\ \/ /\ uploadsRows' = [uploadsRows EXCEPT ![u] = AgentProxy!NoUpload]
              /\ deleting' = [deleting EXCEPT ![u] = "done"]
           \/ deleting' = [deleting EXCEPT ![u] = "failed"] /\ UNCHANGED uploadsRows
    BY <1>5 DEF AgentProxy!DropRow
  <2>2. \A v \in Uploads : Checked(uploadsRows'[v]) /\ Checked(uploading'[v])
    BY <1>0, <2>1, NoUploadIsUpload DEF FilesOfUploads
  <2>3. uploadsRows' \in [Uploads -> Upload]
    BY <1>0, <2>1, NoUploadIsUpload DEF Checked
  <2>. QED
    BY <1>0, <2>1, <2>2, <2>3 DEF FilesOfUploads
<1>. QED
  BY <1>1, <1>2, <1>3, <1>4, <1>5

\* A block for the attachment it is the turn of.
LEMMA PushesOne ==
  ASSUME ChatOfUploadsInv, chat.stage \in {"row", "file"}, AgentProxy!Current # Malformed,
         NEW block, block.kind \in AgentProxy!BlockKinds, block.bytes \in AgentProxy!Bytes,
         block.kind = "image" => block.bytes = "image", AgentProxy!Push(block)
  PROVE  ChatOfUploadsInv'
<1>. DEFINE at == AgentProxy!Current
            b == [of |-> at, kind |-> block.kind, bytes |-> block.bytes]
            n == Len(chat.blocks) + 1
<1>0. /\ chat \in ChatOfUploads /\ chat.blocks \in Seq(UploadBlock) /\ Len(chat.blocks) < Len(chat.attached)
      /\ chat.attached \in Seq(Uploads \cup {Malformed})
  BY DEF ChatOfUploadsInv, ChatOfUploads
<1>1. n \in 1 .. Len(chat.attached) /\ at = chat.attached[n]
  BY <1>0 DEF AgentProxy!Current, AgentProxy!Position
<1>2. at \in Uploads
  BY <1>0, <1>1
<1>3. b \in UploadBlock
  BY <1>2 DEF UploadBlock
<1>4. Append(chat.blocks, b) \in Seq(UploadBlock)
  BY <1>0, <1>3
<1>5. PICK s \in {"sent", "row"} :
        /\ s = IF n = Len(chat.attached) THEN "sent" ELSE "row"
        /\ chat' = [chat EXCEPT !.blocks = Append(chat.blocks, b), !.loaded = AgentProxy!NoUpload, !.stage = s]
  BY <1>0 DEF AgentProxy!Push, AgentProxy!Position
<1>6. /\ chat'.blocks = Append(chat.blocks, b) /\ chat'.loaded = AgentProxy!NoUpload
      /\ chat'.stage = s /\ chat'.attached = chat.attached
  BY <1>0, <1>5 DEF ChatOfUploads
<1>7. chat' \in ChatOfUploads
  BY <1>0, <1>4, <1>5, NoUploadIsUpload DEF ChatOfUploads, Checked
<1>8. /\ Len(chat'.blocks) = n
      /\ \A i \in 1 .. n : chat'.blocks[i] = IF i = n THEN b ELSE chat.blocks[i]
      /\ DOMAIN chat'.blocks = 1 .. n
  <2>. HIDE DEF b
  <2>. QED
    BY <1>0, <1>3, <1>6
<1>9. \A i \in DOMAIN chat'.blocks : chat'.blocks[i].of = chat'.attached[i]
  BY <1>0, <1>1, <1>6, <1>8 DEF ChatOfUploadsInv
<1>10. AgentProxy!ImagesAreImages'
  BY <1>0, <1>8 DEF ChatOfUploadsInv, AgentProxy!ImagesAreImages
<1>11. Checked(chat'.loaded)
  BY <1>6, NoUploadIsUpload
<1>12. /\ chat'.stage \in {"row", "file"} => Len(chat'.blocks) < Len(chat'.attached)
       /\ chat'.stage = "sent" => Len(chat'.blocks) = Len(chat'.attached)
       /\ chat'.stage # "file"
  <2>. HIDE DEF b
  <2>. QED
    BY <1>0, <1>1, <1>5, <1>6, <1>8
<1>13. Checked(chat.loaded)' 
  BY <1>11 DEF Checked, AgentProxy!ValidateUploadMime
<1>. QED
  BY <1>7, <1>9, <1>10, <1>12, <1>13 DEF ChatOfUploadsInv

\* A step of this part, or of another, keeps UploadsInv.
LEMMA UploadsStep ==
  ASSUME UploadsInv, [AgentProxy!UploadsNext]_uploadsVars
  PROVE  UploadsInv'
<1>0. /\ FilesOfUploads /\ ChatOfUploadsInv /\ chat \in ChatOfUploads
      /\ chat.blocks \in Seq(UploadBlock) /\ chat.attached \in Seq(Uploads \cup {Malformed})
      /\ chat.loaded \in Upload /\ uploadsRows \in [Uploads -> Upload]
  BY DEF UploadsInv, ChatOfUploadsInv, ChatOfUploads, FilesOfUploads
<1>1. ASSUME UNCHANGED chat PROVE ChatOfUploadsInv'
  BY <1>0, <1>1 DEF ChatOfUploadsInv, Checked, AgentProxy!ValidateUploadMime, AgentProxy!Current,
     AgentProxy!Position, AgentProxy!ImagesAreImages
<1>2. ASSUME UNCHANGED <<files, uploadsRows, uploading, deleting>>, ingested' \subseteq Uploads
      PROVE  FilesOfUploads'
  BY <1>0, <1>2 DEF FilesOfUploads, Checked
<1>3. ASSUME NEW u \in Uploads,
             \/ AgentProxy!UploadFile(u) \/ AgentProxy!InsertRow(u) \/ AgentProxy!DeleteUpload(u)
             \/ AgentProxy!RemoveFile(u) \/ AgentProxy!DropRow(u)
      PROVE  UploadsInv'
  BY <1>0, <1>1, <1>3, FilesMove DEF UploadsInv
<1>4. ingested \subseteq Uploads
  BY <1>0 DEF FilesOfUploads
<1>5. CASE AgentProxy!ProxyChat
  <2>1. PICK n \in 1 .. MaxAttached : \E ids \in [1 .. n -> Uploads \cup {Malformed}] :
          chat' = [AgentProxy!NoChat EXCEPT !.stage = "row", !.attached = ids]
    BY <1>5 DEF AgentProxy!ProxyChat
  <2>2. PICK ids \in [1 .. n -> Uploads \cup {Malformed}] :
          chat' = [AgentProxy!NoChat EXCEPT !.stage = "row", !.attached = ids]
    BY <2>1
  <2>3. MaxAttached \in Nat
    BY ConstantsOfPolicy
  <2>4. ids \in Seq(Uploads \cup {Malformed}) /\ Len(ids) = n /\ n >= 1
    BY <2>2, <2>3
  <2>5. /\ chat'.stage = "row" /\ chat'.attached = ids /\ chat'.blocks = <<>>
        /\ chat'.loaded = AgentProxy!NoUpload
    BY <2>2 DEF AgentProxy!NoChat
  <2>6. chat' \in ChatOfUploads
    <3>1. AgentProxy!NoChat \in ChatOfUploads
      BY NoUploadIsUpload DEF AgentProxy!NoChat, ChatOfUploads, Checked
    <3>. QED
      BY <2>2, <2>4, <3>1 DEF ChatOfUploads
  <2>7. Checked(chat.loaded)'
    BY <2>5, NoUploadIsUpload DEF Checked, AgentProxy!ValidateUploadMime
  <2>8. ChatOfUploadsInv'
    BY <2>4, <2>5, <2>6, <2>7 DEF ChatOfUploadsInv, AgentProxy!ImagesAreImages
  <2>. QED
    BY <1>2, <1>4, <1>5, <2>8 DEF AgentProxy!ProxyChat, UploadsInv
<1>6. CASE AgentProxy!Malformation
  <2>1. chat' = [chat EXCEPT !.stage = "passed"]
    BY <1>6 DEF AgentProxy!Malformation
  <2>2. /\ chat'.stage = "passed" /\ chat'.blocks = chat.blocks /\ chat'.loaded = chat.loaded
        /\ chat' \in ChatOfUploads
    BY <1>0, <2>1 DEF ChatOfUploads
  <2>3. Checked(chat.loaded)'
    BY <1>0, <2>2 DEF ChatOfUploadsInv, Checked, AgentProxy!ValidateUploadMime
  <2>4. ChatOfUploadsInv'
    BY <1>0, <2>2, <2>3 DEF ChatOfUploadsInv, AgentProxy!ImagesAreImages
  <2>. QED
    BY <1>2, <1>4, <1>6, <2>4 DEF AgentProxy!Malformation, UploadsInv
<1>7. CASE AgentProxy!LoadRow
  <2>1. chat.stage = "row" /\ AgentProxy!Current # Malformed
        /\ UNCHANGED <<files, uploadsRows, uploading, deleting, ingested>>
    BY <1>7 DEF AgentProxy!LoadRow
  <2>2. CASE AgentProxy!Push(AgentProxy!Note)
    <3>1. /\ AgentProxy!Note.kind = "note" /\ AgentProxy!Note.bytes = "other"
      BY DEF AgentProxy!Note
    <3>2. ChatOfUploadsInv'
      BY <1>0, <2>1, <2>2, <3>1, PushesOne DEF AgentProxy!BlockKinds, AgentProxy!Bytes
    <3>. QED
      BY <1>2, <1>4, <2>1, <3>2 DEF UploadsInv
  <2>3. CASE /\ uploadsRows[AgentProxy!Current] # AgentProxy!NoUpload
             /\ chat' = [chat EXCEPT !.stage = "file", !.loaded = uploadsRows[AgentProxy!Current]]
    <3>1. PICK at \in Uploads : at = AgentProxy!Current
      BY <1>0, <2>1 DEF ChatOfUploadsInv, AgentProxy!Current, AgentProxy!Position
    <3>2. PICK f \in Upload : f = uploadsRows[at] /\ Checked(f)
      BY <1>0 DEF FilesOfUploads
    <3>3. chat' = [chat EXCEPT !.stage = "file", !.loaded = f]
      BY <2>3, <3>1, <3>2
    <3>4. /\ chat'.stage = "file" /\ chat'.blocks = chat.blocks /\ chat'.attached = chat.attached
          /\ chat'.loaded = f /\ chat' \in ChatOfUploads
      BY <1>0, <3>3 DEF ChatOfUploads
    <3>5. Checked(chat.loaded)' /\ AgentProxy!Current' = AgentProxy!Current
      BY <3>2, <3>4 DEF Checked, AgentProxy!ValidateUploadMime, AgentProxy!Current, AgentProxy!Position
    <3>6. ChatOfUploadsInv'
      BY <1>0, <2>1, <3>4, <3>5 DEF ChatOfUploadsInv, AgentProxy!ImagesAreImages
    <3>. QED
      BY <1>2, <1>4, <2>1, <3>6 DEF UploadsInv
  <2>. QED
    BY <1>7, <2>2, <2>3 DEF AgentProxy!LoadRow
<1>8. CASE AgentProxy!LoadFails
  <2>1. /\ AgentProxy!Note.kind = "note" /\ AgentProxy!Note.bytes = "other"
    BY DEF AgentProxy!Note
  <2>2. ChatOfUploadsInv'
    BY <1>0, <1>8, <2>1, PushesOne DEF AgentProxy!LoadFails, ChatOfUploadsInv, AgentProxy!BlockKinds, AgentProxy!Bytes
  <2>. QED
    BY <1>2, <1>4, <1>8, <2>2 DEF AgentProxy!LoadFails, UploadsInv
<1>9. CASE AgentProxy!ProcessAttachment
  <2>1. PICK kind \in AgentProxy!BlocksFor(chat.loaded) :
          /\ AgentProxy!Push([kind |-> kind, bytes |-> chat.loaded.bytes])
          /\ ingested' = IF kind = "text" THEN ingested \cup {AgentProxy!Current} ELSE ingested
    BY <1>9 DEF AgentProxy!ProcessAttachment
  <2>2. /\ chat.stage = "file" /\ AgentProxy!Current \in files /\ AgentProxy!Current # Malformed
        /\ UNCHANGED <<files, uploadsRows, uploading, deleting>>
    BY <1>0, <1>9 DEF AgentProxy!ProcessAttachment, ChatOfUploadsInv
  <2>3. kind \in AgentProxy!BlockKinds /\ (kind = "image" => chat.loaded.declared = "image")
    <3>1. AgentProxy!Extraction(chat.loaded) \subseteq {"text", "document", "note"}
      BY DEF AgentProxy!Extraction
    <3>. QED
      BY <2>1, <3>1 DEF AgentProxy!BlocksFor, AgentProxy!BlockKinds
  <2>4. chat.loaded.bytes \in AgentProxy!Bytes
    BY <1>0 DEF Upload, AgentProxy!Uploaded, AgentProxy!NoUpload, AgentProxy!Bytes
  <2>5. kind = "image" => chat.loaded.bytes = "image"
    <3>1. AgentProxy!NoUpload.declared = "none"
      BY DEF AgentProxy!NoUpload
    <3>. QED
      BY <1>0, <2>3, <3>1 DEF ChatOfUploadsInv, Checked, AgentProxy!ValidateUploadMime
  <2>6. PICK block : block = [kind |-> kind, bytes |-> chat.loaded.bytes]
    OBVIOUS
  <2>7. ChatOfUploadsInv'
    <3>1. block.kind = kind /\ block.bytes = chat.loaded.bytes /\ AgentProxy!Push(block)
      BY <2>1, <2>6
    <3>. QED
      BY <1>0, <2>2, <2>3, <2>4, <2>5, <3>1, PushesOne
  <2>8. ingested' \subseteq Uploads
    BY <1>0, <1>4, <2>1, <2>2 DEF FilesOfUploads
  <2>. QED
    BY <1>2, <2>2, <2>7, <2>8 DEF UploadsInv
<1>10. CASE AgentProxy!AgentAnswers
  <2>1. chat' = AgentProxy!NoChat
    BY <1>10 DEF AgentProxy!AgentAnswers
  <2>2. /\ chat'.stage = "idle" /\ chat'.blocks = <<>> /\ chat'.loaded = AgentProxy!NoUpload
        /\ chat' \in ChatOfUploads
    BY <2>1, NoUploadIsUpload DEF AgentProxy!NoChat, ChatOfUploads, Checked
  <2>3. Checked(chat.loaded)'
    BY <2>2, NoUploadIsUpload DEF Checked, AgentProxy!ValidateUploadMime
  <2>4. ChatOfUploadsInv'
    BY <2>2, <2>3 DEF ChatOfUploadsInv, AgentProxy!ImagesAreImages
  <2>. QED
    BY <1>2, <1>4, <1>10, <2>4 DEF AgentProxy!AgentAnswers, UploadsInv
<1>11. CASE UNCHANGED uploadsVars
  BY <1>1, <1>2, <1>4, <1>11 DEF uploadsVars, UploadsInv
<1>. QED
  BY <1>3, <1>5, <1>6, <1>7, <1>8, <1>9, <1>10, <1>11 DEF AgentProxy!UploadsNext

\* UploadsInv holds in every reachable state.
LEMMA UploadsHold == Spec => []UploadsInv
<1>1. Init => UploadsInv
  <2>. SUFFICES ASSUME Init PROVE UploadsInv
    OBVIOUS
  <2>1. /\ files = {} /\ ingested = {} /\ chat = AgentProxy!NoChat
        /\ uploadsRows = [u \in Uploads |-> AgentProxy!NoUpload]
        /\ uploading = [u \in Uploads |-> AgentProxy!NoUpload]
        /\ deleting = [u \in Uploads |-> "no"]
    BY DEF Init, AgentProxy!UploadsInit
  <2>2. FilesOfUploads
    BY <2>1, NoUploadIsUpload DEF FilesOfUploads, Checked
  <2>3. /\ chat.stage = "idle" /\ chat.blocks = <<>> /\ chat.loaded = AgentProxy!NoUpload
        /\ chat \in ChatOfUploads
    BY <2>1, NoUploadIsUpload DEF AgentProxy!NoChat, ChatOfUploads, Checked
  <2>4. ChatOfUploadsInv
    BY <2>3, NoUploadIsUpload DEF ChatOfUploadsInv, AgentProxy!ImagesAreImages
  <2>. QED
    BY <2>2, <2>4 DEF UploadsInv
<1>2. UploadsInv /\ [Next]_vars => UploadsInv'
  BY StepOfParts, UploadsStep
<1>. QED
  BY <1>1, <1>2, PTL DEF Spec

(****************************************************************************)
(* Members of a swarm and the switch that turns it on and off.              *)
(****************************************************************************)
SwarmSettings == SwarmRouting!Settings
SwarmCall ==
  {SwarmRouting!IdleCaller}
    \cup [step : {"resizing", "switching"}, row : SwarmSettings]
    \cup [step : {"adding"}, agent : Joining]
    \cup [step : {"deleting"}]
Adding == {c \in SwarmCallers : swarmCall[c].step = "adding"}
IsUpdate(call) == call.step \in {"resizing", "switching"}

SwarmMembersInv ==
  /\ settings \in SwarmSettings /\ joined \subseteq Joining
  /\ roomiest \in SwarmSizes /\ asked \in BOOLEAN /\ crossed \in BOOLEAN
  /\ swarmCall \in [SwarmCallers -> SwarmCall]
  /\ IsFiniteSet(joined)
  /\ settings.max <= roomiest
  /\ Cardinality(joined) + Cardinality(Adding) <= roomiest + Cardinality(SwarmCallers) - 1
  /\ \A c \in SwarmCallers : IsUpdate(swarmCall[c]) => swarmCall[c].row.alive
  /\ ~crossed =>
       /\ \A c, d \in SwarmCallers : IsUpdate(swarmCall[c]) /\ IsUpdate(swarmCall[d]) => c = d
       /\ settings.alive =>
            /\ settings.enabled = asked
            /\ \A c \in SwarmCallers :
                 swarmCall[c].step = "resizing" => swarmCall[c].row.enabled = settings.enabled

\* What a call on a swarm carries at each of its steps.
LEMMA CallShapes ==
  ASSUME NEW call \in SwarmCall
  PROVE  /\ call.step \in {"idle", "resizing", "switching", "adding", "deleting"}
         /\ IsUpdate(call) => call.row \in SwarmSettings
         /\ call.step = "adding" => call.agent \in Joining
BY DEF SwarmCall, SwarmRouting!IdleCaller, IsUpdate

\* An update of the settings of a swarm has the form of settings.
LEMMA SettingsShape ==
  ASSUME NEW row \in SwarmSettings
  PROVE  /\ row.alive \in BOOLEAN /\ row.enabled \in BOOLEAN /\ row.max \in SwarmSizes
         /\ \A n \in SwarmSizes : /\ [row EXCEPT !.max = n] \in SwarmSettings
                                  /\ [row EXCEPT !.max = n].alive = row.alive
                                  /\ [row EXCEPT !.max = n].enabled = row.enabled
         /\ \A on \in BOOLEAN : /\ [row EXCEPT !.enabled = on] \in SwarmSettings
                                /\ [row EXCEPT !.enabled = on].alive = row.alive
                                /\ [row EXCEPT !.enabled = on].enabled = on
         /\ [row EXCEPT !.alive = FALSE] \in SwarmSettings
         /\ [row EXCEPT !.alive = FALSE].alive = FALSE
         /\ [row EXCEPT !.alive = FALSE].max = row.max
BY DEF SwarmSettings, SwarmRouting!Settings

\* How many callers are about to add a member.
LEMMA FewAdd ==
  /\ IsFiniteSet(SwarmCallers) /\ Cardinality(SwarmCallers) \in Nat /\ Cardinality(SwarmCallers) >= 1
  /\ IsFiniteSet(Adding) /\ Cardinality(Adding) \in Nat /\ Cardinality(Adding) <= Cardinality(SwarmCallers)
  /\ IsFiniteSet(Adding') /\ Cardinality(Adding') \in Nat
  /\ Cardinality(Adding') <= Cardinality(SwarmCallers)
<1>1. IsFiniteSet(SwarmCallers) /\ SwarmCallers # {}
  BY ConstantsOfPolicy
<1>2. Cardinality(SwarmCallers) \in Nat /\ Cardinality(SwarmCallers) # 0
  BY <1>1, FS_CardinalityType, FS_EmptySet
<1>3. \A S \in SUBSET SwarmCallers :
        IsFiniteSet(S) /\ Cardinality(S) \in Nat /\ Cardinality(S) <= Cardinality(SwarmCallers)
  BY <1>1, FS_Subset, FS_CardinalityType
<1>4. Adding \in SUBSET SwarmCallers /\ Adding' \in SUBSET SwarmCallers
  BY DEF Adding
<1>. QED
  BY <1>1, <1>2, <1>3, <1>4

\* The sizes of a swarm are naturals.
LEMMA SizesAreNatural == SwarmSizes \subseteq Nat
BY ConstantsOfPolicy

\* A caller begins: it updates, adds or deletes.
LEMMA SwarmCallBegins ==
  ASSUME SwarmMembersInv, NEW c \in SwarmCallers, NEW call \in SwarmCall,
         SwarmRouting!Begins(c, call)
  PROVE  /\ swarmCall' \in [SwarmCallers -> SwarmCall] /\ swarmCall'[c] = call
         /\ \A d \in SwarmCallers \ {c} : swarmCall'[d] = swarmCall[d]
         /\ swarmCall[c].step = "idle" /\ settings.alive
         /\ call.step # "adding" => Adding' = Adding
BY DEF SwarmMembersInv, SwarmRouting!Begins, SwarmRouting!IdleCaller, Adding

\* A caller ends.
LEMMA SwarmCallEnds ==
  ASSUME SwarmMembersInv, NEW c \in SwarmCallers, SwarmRouting!Ends(c)
  PROVE  /\ swarmCall' \in [SwarmCallers -> SwarmCall] /\ swarmCall'[c].step = "idle"
         /\ \A d \in SwarmCallers \ {c} : swarmCall'[d] = swarmCall[d]
         /\ Adding' = Adding \ {c}
BY DEF SwarmMembersInv, SwarmRouting!Ends, SwarmRouting!IdleCaller, Adding, SwarmCall

\* ReadForUpdate: SwarmMembersInv is kept.
LEMMA SwarmReads ==
  ASSUME SwarmMembersInv, NEW c \in SwarmCallers, NEW step \in {"resizing", "switching"},
         NEW row \in SwarmSettings, row.alive = settings.alive,
         step = "resizing" => row.enabled = settings.enabled,
         SwarmRouting!ReadForUpdate(c, step, row)
  PROVE  SwarmMembersInv'
<1>. DEFINE call == [step |-> step, row |-> row]
<1>1. call \in SwarmCall /\ call.step = step /\ call.row = row /\ SwarmRouting!Begins(c, call)
  BY DEF SwarmCall, SwarmRouting!ReadForUpdate
<1>. HIDE DEF call
<1>2. /\ swarmCall' \in [SwarmCallers -> SwarmCall] /\ swarmCall'[c] = call
      /\ \A d \in SwarmCallers \ {c} : swarmCall'[d] = swarmCall[d]
      /\ settings.alive /\ Adding' = Adding
  BY <1>1, SwarmCallBegins
<1>3. UNCHANGED <<settings, joined, roomiest, asked>>
  BY DEF SwarmRouting!ReadForUpdate
<1>4. crossed' \in BOOLEAN
      /\ (~crossed' => ~crossed /\ \A d \in SwarmCallers : ~IsUpdate(swarmCall[d]))
  <2>1. crossed' = (crossed \/ \E d \in SwarmCallers : SwarmRouting!Updating(d)) /\ crossed \in BOOLEAN
    BY DEF SwarmRouting!ReadForUpdate, SwarmMembersInv
  <2>2. \A d \in SwarmCallers : SwarmRouting!Updating(d) <=> IsUpdate(swarmCall[d])
    BY DEF SwarmRouting!Updating, IsUpdate
  <2>. QED
    BY <2>1, <2>2
<1>5. \A d \in SwarmCallers : IsUpdate(swarmCall'[d]) => swarmCall'[d].row.alive
  BY <1>1, <1>2 DEF SwarmMembersInv
<1>6. ASSUME ~crossed'
      PROVE  /\ \A b, d \in SwarmCallers : IsUpdate(swarmCall'[b]) /\ IsUpdate(swarmCall'[d]) => b = d
             /\ \A d \in SwarmCallers :
                  swarmCall'[d].step = "resizing" => swarmCall'[d].row.enabled = settings.enabled
  BY <1>1, <1>2, <1>4, <1>6 DEF IsUpdate
<1>. QED
  BY <1>2, <1>3, <1>4, <1>5, <1>6 DEF SwarmMembersInv

\* UpdateSettings: SwarmMembersInv is kept.
LEMMA SwarmUpdates ==
  ASSUME SwarmMembersInv, NEW c \in SwarmCallers, SwarmRouting!UpdateSettings(c)
  PROVE  SwarmMembersInv'
<1>1. /\ swarmCall' \in [SwarmCallers -> SwarmCall] /\ swarmCall'[c].step = "idle"
      /\ \A d \in SwarmCallers \ {c} : swarmCall'[d] = swarmCall[d]
      /\ Adding' = Adding \ {c}
  BY SwarmCallEnds DEF SwarmRouting!UpdateSettings
<1>2. IsUpdate(swarmCall[c]) /\ UNCHANGED <<joined, crossed>>
  BY DEF SwarmRouting!UpdateSettings, SwarmRouting!Updating, IsUpdate
<1>3. Adding' = Adding
  BY <1>1, <1>2 DEF Adding, IsUpdate
<1>4. /\ swarmCall[c] \in SwarmCall /\ settings \in SwarmSettings
      /\ swarmCall[c].row \in SwarmSettings /\ swarmCall[c].row.alive
  BY <1>2, CallShapes DEF SwarmMembersInv
<1>5. PICK row \in SwarmSettings : row = swarmCall[c].row
  BY <1>4
<1>6. row.max \in Nat /\ roomiest \in Nat /\ settings.max \in Nat /\ row.max \in SwarmSizes
  BY <1>4, <1>5, SettingsShape, SizesAreNatural DEF SwarmMembersInv
<1>7. \A d \in SwarmCallers : IsUpdate(swarmCall'[d]) => swarmCall'[d] = swarmCall[d] /\ d # c
  BY <1>1 DEF IsUpdate
<1>8. CASE ~settings.alive
  <2>1. UNCHANGED <<settings, roomiest, asked>>
    BY <1>8 DEF SwarmRouting!UpdateSettings
  <2>. QED
    BY <1>1, <1>2, <1>3, <1>7, <1>8, <2>1 DEF SwarmMembersInv
<1>9. CASE settings.alive
  <2>1. /\ settings' = row /\ roomiest' = SwarmRouting!Larger(roomiest, row.max)
        /\ asked' = IF swarmCall[c].step = "switching" THEN row.enabled ELSE asked
    BY <1>5, <1>9 DEF SwarmRouting!UpdateSettings
  <2>2. roomiest' \in SwarmSizes /\ roomiest' \in Nat /\ roomiest <= roomiest' /\ row.max <= roomiest'
    BY <1>6, <2>1 DEF SwarmRouting!Larger, SwarmMembersInv
  <2>3. asked' \in BOOLEAN
    BY <1>5, <2>1, SettingsShape DEF SwarmMembersInv
  <2>4. Cardinality(joined) \in Nat /\ Cardinality(Adding) \in Nat /\ Cardinality(SwarmCallers) \in Nat
    BY FewAdd, FS_CardinalityType DEF SwarmMembersInv
  <2>5. Cardinality(joined) + Cardinality(Adding) <= roomiest' + Cardinality(SwarmCallers) - 1
    BY <1>6, <2>2, <2>4 DEF SwarmMembersInv
  <2>6. ASSUME ~crossed
        PROVE  /\ row.enabled = asked'
               /\ \A d \in SwarmCallers : ~IsUpdate(swarmCall'[d])
    <3>1. swarmCall[c].step = "resizing" => row.enabled = settings.enabled /\ settings.enabled = asked
      BY <1>5, <1>9, <2>6 DEF SwarmMembersInv
    <3>2. row.enabled = asked'
      BY <1>2, <2>1, <3>1 DEF IsUpdate
    <3>. QED
      BY <1>2, <1>7, <2>6, <3>2 DEF SwarmMembersInv
  <2>7. \A d \in SwarmCallers : swarmCall'[d].step = "resizing" => IsUpdate(swarmCall'[d])
    BY DEF IsUpdate
  <2>. QED
    BY <1>1, <1>2, <1>3, <1>7, <2>1, <2>2, <2>3, <2>5, <2>6, <2>7 DEF SwarmMembersInv
<1>. QED
  BY <1>8, <1>9

\* CountMembers: SwarmMembersInv is kept.
LEMMA SwarmCounts ==
  ASSUME SwarmMembersInv, NEW c \in SwarmCallers, NEW a \in Joining, SwarmRouting!CountMembers(c, a)
  PROVE  SwarmMembersInv'
<1>. DEFINE call == [step |-> "adding", agent |-> a]
<1>1. call \in SwarmCall /\ call.step = "adding" /\ SwarmRouting!Begins(c, call)
      /\ UNCHANGED <<settings, joined, roomiest, asked, crossed>>
  BY DEF SwarmCall, SwarmRouting!CountMembers
<1>2. Cardinality(joined) < settings.max
  BY DEF SwarmRouting!CountMembers, SwarmRouting!Cardinality, Cardinality
<1>. HIDE DEF call
<1>3. /\ swarmCall' \in [SwarmCallers -> SwarmCall] /\ swarmCall'[c] = call
      /\ \A d \in SwarmCallers \ {c} : swarmCall'[d] = swarmCall[d]
  BY <1>1, SwarmCallBegins
<1>4. \A d \in SwarmCallers : IsUpdate(swarmCall'[d]) => swarmCall'[d] = swarmCall[d]
  BY <1>1, <1>3 DEF IsUpdate
<1>5. Cardinality(joined) + Cardinality(Adding') <= roomiest + Cardinality(SwarmCallers) - 1
  <2>1. Cardinality(joined) \in Nat /\ settings.max \in Nat /\ roomiest \in Nat /\ settings.max <= roomiest
    BY SettingsShape, SizesAreNatural, FS_CardinalityType DEF SwarmMembersInv
  <2>. QED
    BY <1>2, <2>1, FewAdd
<1>6. \A d \in SwarmCallers : swarmCall'[d].step = "resizing" => IsUpdate(swarmCall'[d])
  BY DEF IsUpdate
<1>. QED
  BY <1>1, <1>3, <1>4, <1>5, <1>6 DEF SwarmMembersInv

\* A step that lets go of a call on the swarm and of members, or adds the one it holds.
LEMMA SwarmInserts ==
  ASSUME SwarmMembersInv, NEW c \in SwarmCallers, SwarmRouting!InsertMember(c)
  PROVE  SwarmMembersInv'
<1>1. /\ swarmCall' \in [SwarmCallers -> SwarmCall] /\ swarmCall'[c].step = "idle"
      /\ \A d \in SwarmCallers \ {c} : swarmCall'[d] = swarmCall[d]
      /\ Adding' = Adding \ {c}
      /\ swarmCall[c].step = "adding" /\ c \in Adding
      /\ UNCHANGED <<settings, roomiest, asked, crossed>>
      /\ joined' = joined \/ joined' = joined \cup {swarmCall[c].agent}
  BY SwarmCallEnds DEF SwarmRouting!InsertMember, Adding
<1>2. swarmCall[c].agent \in Joining
  BY <1>1, CallShapes DEF SwarmMembersInv
<1>3. Cardinality(Adding') = Cardinality(Adding) - 1
  <2>1. IsFiniteSet(Adding)
    BY FewAdd
  <2>2. Cardinality(Adding \ {c}) = IF c \in Adding THEN Cardinality(Adding) - 1 ELSE Cardinality(Adding)
    BY <2>1, FS_RemoveElement, Zenon
  <2>. QED
    BY <1>1, <2>2
<1>4. IsFiniteSet(joined') /\ Cardinality(joined') \in Nat /\ Cardinality(joined') <= Cardinality(joined) + 1
      /\ Cardinality(joined) \in Nat
  <2>. DEFINE a == swarmCall[c].agent
  <2>1. IsFiniteSet(joined)
    BY DEF SwarmMembersInv
  <2>2. /\ IsFiniteSet(joined \cup {a})
        /\ Cardinality(joined \cup {a}) = IF a \in joined THEN Cardinality(joined) ELSE Cardinality(joined) + 1
    BY <2>1, FS_AddElement, Zenon
  <2>3. Cardinality(joined) \in Nat
    BY <2>1, FS_CardinalityType
  <2>4. CASE joined' = joined
    BY <2>1, <2>3, <2>4
  <2>5. CASE joined' = joined \cup {a}
    <3>. HIDE DEF a
    <3>. QED
      BY <2>2, <2>3, <2>5
  <2>. QED
    BY <1>1, <2>4, <2>5
<1>5. Cardinality(joined') + Cardinality(Adding') <= roomiest + Cardinality(SwarmCallers) - 1
  <2>1. roomiest \in Nat
    BY SizesAreNatural DEF SwarmMembersInv
  <2>2. Cardinality(joined) + Cardinality(Adding) <= roomiest + Cardinality(SwarmCallers) - 1
    BY DEF SwarmMembersInv
  <2>. QED
    BY <1>3, <1>4, <2>1, <2>2, FewAdd
<1>6. \A d \in SwarmCallers :
        IsUpdate(swarmCall'[d]) \/ swarmCall'[d].step = "resizing" => swarmCall'[d] = swarmCall[d]
  BY <1>1 DEF IsUpdate
<1>. QED
  BY <1>1, <1>2, <1>4, <1>5, <1>6 DEF SwarmMembersInv

\* DeleteMember, DeleteMembers, DeleteMemberSwarm: SwarmMembersInv is kept.
LEMMA SwarmLetsGo ==
  ASSUME SwarmMembersInv, NEW c \in SwarmCallers, NEW a,
         \/ SwarmRouting!DeleteMember(a) \/ SwarmRouting!DeleteMembers(c)
         \/ SwarmRouting!DeleteMemberSwarm(c)
  PROVE  SwarmMembersInv'
<1>1. /\ swarmCall' \in [SwarmCallers -> SwarmCall]
      /\ \A d \in SwarmCallers :
           IsUpdate(swarmCall'[d]) \/ swarmCall'[d].step = "resizing" => swarmCall'[d] = swarmCall[d]
      /\ Adding' \subseteq Adding
  <2>1. CASE SwarmRouting!DeleteMember(a)
    BY <2>1 DEF SwarmMembersInv, SwarmRouting!DeleteMember, Adding
  <2>2. CASE SwarmRouting!DeleteMembers(c)
    <3>1. [step |-> "deleting"] \in SwarmCall /\ SwarmRouting!Begins(c, [step |-> "deleting"])
      BY <2>2 DEF SwarmCall, SwarmRouting!DeleteMembers
    <3>2. /\ swarmCall' \in [SwarmCallers -> SwarmCall] /\ swarmCall'[c].step = "deleting"
          /\ \A d \in SwarmCallers \ {c} : swarmCall'[d] = swarmCall[d]
      BY <3>1, SwarmCallBegins
    <3>. QED
      BY <3>2 DEF IsUpdate, Adding
  <2>3. CASE SwarmRouting!DeleteMemberSwarm(c)
    <3>1. /\ swarmCall' \in [SwarmCallers -> SwarmCall] /\ swarmCall'[c].step = "idle"
          /\ \A d \in SwarmCallers \ {c} : swarmCall'[d] = swarmCall[d]
          /\ Adding' = Adding \ {c}
      BY <2>3, SwarmCallEnds DEF SwarmRouting!DeleteMemberSwarm
    <3>. QED
      BY <3>1 DEF IsUpdate
  <2>. QED
    BY <2>1, <2>2, <2>3
<1>2. /\ joined' \subseteq joined /\ UNCHANGED <<roomiest, asked, crossed>>
      /\ settings' = settings \/ settings' = [settings EXCEPT !.alive = FALSE]
  BY DEF SwarmRouting!DeleteMember, SwarmRouting!DeleteMembers, SwarmRouting!DeleteMemberSwarm
<1>3. /\ IsFiniteSet(joined) /\ roomiest \in Nat
      /\ Cardinality(joined) + Cardinality(Adding) <= roomiest + Cardinality(SwarmCallers) - 1
  BY SizesAreNatural DEF SwarmMembersInv
<1>4. IsFiniteSet(joined') /\ Cardinality(joined') \in Nat /\ Cardinality(joined) \in Nat
      /\ Cardinality(joined') <= Cardinality(joined)
  BY <1>2, <1>3, FS_Subset, FS_CardinalityType
<1>5. Cardinality(Adding') <= Cardinality(Adding)
  BY <1>1, FewAdd, FS_Subset
<1>6. Cardinality(joined') + Cardinality(Adding') <= roomiest + Cardinality(SwarmCallers) - 1
  BY <1>3, <1>4, <1>5, FewAdd
<1>7. /\ settings' \in SwarmSettings /\ settings'.max = settings.max
      /\ settings'.alive => settings' = settings
  <2>1. settings \in SwarmSettings
    BY DEF SwarmMembersInv
  <2>2. CASE settings' = settings
    BY <2>1, <2>2
  <2>3. CASE settings' = [settings EXCEPT !.alive = FALSE]
    BY <2>1, <2>3, SettingsShape
  <2>. QED
    BY <1>2, <2>2, <2>3
<1>. QED
  BY <1>1, <1>2, <1>4, <1>6, <1>7 DEF SwarmMembersInv

\* A step of this part, or of another, keeps SwarmMembersInv.
LEMMA SwarmMembersStep ==
  ASSUME SwarmMembersInv, [SwarmRouting!SwarmMembersNext]_swarmMembersVars
  PROVE  SwarmMembersInv'
<1>1. CASE UNCHANGED swarmMembersVars
  BY <1>1 DEF swarmMembersVars, SwarmMembersInv, Adding
<1>2. ASSUME NEW c \in SwarmCallers, NEW n \in SwarmSizes, SwarmRouting!Resize(c, n)
      PROVE  SwarmMembersInv'
  <2>1. settings \in SwarmSettings
    BY DEF SwarmMembersInv
  <2>2. PICK row \in SwarmSettings :
         row = [settings EXCEPT !.max = n] /\ row.alive = settings.alive /\ row.enabled = settings.enabled
    BY <2>1, SettingsShape
  <2>3. SwarmRouting!ReadForUpdate(c, "resizing", row)
    BY <1>2, <2>2 DEF SwarmRouting!Resize
  <2>. QED
    BY <2>2, <2>3, SwarmReads
<1>3. ASSUME NEW c \in SwarmCallers, NEW on \in BOOLEAN, SwarmRouting!Switch(c, on)
      PROVE  SwarmMembersInv'
  <2>1. settings \in SwarmSettings
    BY DEF SwarmMembersInv
  <2>2. PICK row \in SwarmSettings :
         row = [settings EXCEPT !.enabled = on] /\ row.alive = settings.alive
    BY <2>1, SettingsShape
  <2>3. SwarmRouting!ReadForUpdate(c, "switching", row)
    BY <1>3, <2>2 DEF SwarmRouting!Switch
  <2>. QED
    BY <2>2, <2>3, SwarmReads
<1>4. ASSUME NEW c \in SwarmCallers, SwarmRouting!DeleteMembers(c) \/ SwarmRouting!DeleteMemberSwarm(c)
      PROVE  SwarmMembersInv'
  BY <1>4, SwarmLetsGo
<1>5. ASSUME NEW a \in Joining, SwarmRouting!DeleteMember(a)
      PROVE  SwarmMembersInv'
  <2>1. \E c : c \in SwarmCallers
    BY ConstantsOfPolicy
  <2>. QED
    BY <1>5, <2>1, SwarmLetsGo
<1>. QED
  BY <1>1, <1>2, <1>3, <1>4, <1>5, SwarmUpdates, SwarmCounts, SwarmInserts
     DEF SwarmRouting!SwarmMembersNext

\* SwarmMembersInv holds in every reachable state.
LEMMA SwarmMembersHold == Spec => []SwarmMembersInv
<1>1. ASSUME Init PROVE SwarmMembersInv
  <2>1. SwarmRouting!SwarmMembersInit
    BY <1>1 DEF Init
  <2>2. SwarmRouting!Least \in SwarmSizes
    <3>1. SwarmSizes \subseteq Nat /\ SwarmSizes # {}
      BY ConstantsOfPolicy
    <3>2. \E n \in SwarmSizes : \A k \in SwarmSizes : n <= k
      BY <3>1, Smallest
    <3>. QED
      BY <3>2 DEF SwarmRouting!Least
  <2>3. /\ settings \in SwarmSettings /\ settings.max = roomiest /\ settings.alive
        /\ settings.enabled = asked /\ asked = TRUE /\ crossed = FALSE
        /\ roomiest \in SwarmSizes /\ joined = {}
        /\ swarmCall \in [SwarmCallers -> SwarmCall]
        /\ \A c \in SwarmCallers : swarmCall[c].step = "idle"
    BY <2>1, <2>2 DEF SwarmRouting!SwarmMembersInit, SwarmSettings, SwarmRouting!Settings, SwarmCall,
       SwarmRouting!IdleCaller
  <2>4. IsFiniteSet(joined) /\ Cardinality(joined) = 0
    BY <2>3, FS_EmptySet
  <2>5. Adding = {}
    BY <2>3 DEF Adding
  <2>6. Cardinality(Adding) = 0
    BY <2>5, FS_EmptySet
  <2>7. roomiest \in Nat /\ settings.max <= roomiest
    BY <2>3, SizesAreNatural
  <2>8. Cardinality(joined) + Cardinality(Adding) <= roomiest + Cardinality(SwarmCallers) - 1
    BY <2>4, <2>6, <2>7, FewAdd
  <2>9. \A c \in SwarmCallers : ~IsUpdate(swarmCall[c]) /\ swarmCall[c].step # "resizing"
    BY <2>3 DEF IsUpdate
  <2>. QED
    BY <2>3, <2>4, <2>7, <2>8, <2>9 DEF SwarmMembersInv
<1>2. SwarmMembersInv /\ [Next]_vars => SwarmMembersInv'
  BY StepOfParts, SwarmMembersStep
<1>. QED
  BY <1>1, <1>2, PTL DEF Spec

\* What SwarmMembersInv says of members and switches is what the runs check.
LEMMA SwarmMembersAreWithin ==
  ASSUME SwarmMembersInv
  PROVE  SwarmRouting!MembersWithin /\ SwarmRouting!LastSwitchStands /\ SwarmRouting!SwarmMembersTypeOK
<1>1. Cardinality(joined) <= roomiest + Cardinality(SwarmCallers) - 1
  <2>1. Cardinality(joined) \in Nat /\ roomiest \in Nat
    BY SizesAreNatural, FS_CardinalityType DEF SwarmMembersInv
  <2>2. Cardinality(joined) + Cardinality(Adding) <= roomiest + Cardinality(SwarmCallers) - 1
    BY DEF SwarmMembersInv
  <2>. QED
    BY <2>1, <2>2, FewAdd
<1>2. SwarmRouting!MembersWithin
  BY <1>1 DEF SwarmRouting!MembersWithin, SwarmRouting!Cardinality, Cardinality
<1>3. \A c \in SwarmCallers : swarmCall[c].step \in {"idle", "resizing", "switching", "adding", "deleting"}
  BY CallShapes DEF SwarmMembersInv
<1>. QED
  BY <1>2, <1>3 DEF SwarmMembersInv, SwarmRouting!LastSwitchStands, SwarmRouting!SwarmMembersTypeOK,
     SwarmSettings

==============================================================================
