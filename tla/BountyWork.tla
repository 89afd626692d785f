---- MODULE BountyWork -------------------------------------------------------
(****************************************************************************)
(* The work on a bounty: executions and their proofs, workspaces and        *)
(* verification, and reports to the protocol.  These share no state; each   *)
(* has its own section.                                                     *)
(****************************************************************************)
EXTENDS Naturals, FiniteSets, Sequences

(****************************************************************************)
(* From the work of a bounty to its proof.  The loop sends the task to the  *)
(* agent service, which answers with a stream of events; a first execution  *)
(* is tried three times, a rework once.  The text of the answer is cut into *)
(* sections by their headings, the address of the pull request is looked    *)
(* for, and what the submit tool passes on reaches the relay.               *)
(****************************************************************************)
CONSTANTS Prices, CostThreshold, HasLocalModel, MaxEvents

VARIABLES work, attempt, failed, answer, log, proof, submission

bountyProofVars == <<work, attempt, failed, answer, log, proof, submission>>

Headings == {"pr_url", "approach"}
\* Events are lines of text, with a heading or not, the start of a tool and
\* an error the service reports.
Events ==
  [head : {"none"}, body : {"text", "url", "tool", "error"}]
    \cup [head : Headings, body : {"none", "text", "url"}]
Answers == UNION {[1..n -> Events] : n \in 0..MaxEvents}

NoUrl == {}
NoProof == [h \in Headings |-> {}]
NoSubmission == [status |-> "none", work |-> "none", price |-> 0, provider |-> "none", tier |-> "none", pr |-> NoUrl]

BountyProofInit ==
  /\ work = [state |-> "idle", price |-> 0]
  /\ attempt = 0
  /\ failed = 0
  /\ answer = <<>>
  /\ log = {}
  /\ proof = NoProof
  /\ submission = NoSubmission

\* The local model, if there is one, works on what is cheap enough.
ResolveExecutionProvider(price) ==
  IF HasLocalModel /\ price <= CostThreshold THEN "local" ELSE "cloud"

Begin(state) ==
  /\ work.state = "idle"
  /\ \E p \in Prices : work' = [state |-> state, price |-> p]
  /\ attempt' = 1 /\ failed' = 0
  /\ answer' = <<>> /\ log' = {} /\ proof' = NoProof /\ submission' = NoSubmission

ExecuteBounty == Begin("executing")
ExecuteBountyRework == Begin("reworking")

Attempts(state) == IF state = "executing" THEN 3 ELSE 1

IsText(e) == e.body \notin {"tool", "error"}
TextOf(a) == {i \in DOMAIN a : IsText(a[i])}

\* The log is the places of its lines: those of text, and after the last event
\* the line that names the tools, which is added to a first execution.  Without
\* text the body is taken as it came, which has no headings.
Combined(state, a) ==
  IF TextOf(a) # {} /\ state = "executing" /\ \E i \in DOMAIN a : a[i].body = "tool"
  THEN TextOf(a) \cup {Len(a) + 1} ELSE TextOf(a)

HeadOf(a, i) == IF i \in DOMAIN a THEN a[i].head ELSE "none"
BodyOf(a, i) == IF i \in DOMAIN a THEN a[i].body ELSE "text"

Heads(a, l, h) == {i \in l : HeadOf(a, i) = h}
First(s) == CHOOSE i \in s : \A j \in s : i <= j

\* A section is what stands below the line of its first heading, up to the
\* next heading of another: what stands on the line of the heading is not of it.
Section(a, l, h) ==
  IF Heads(a, l, h) = {} THEN {}
  ELSE LET start == First(Heads(a, l, h))
           ends == {i \in l : i > start /\ HeadOf(a, i) \in Headings \ {h}}
       IN  {i \in l : i > start /\ \A e \in ends : i < e}

ParseStructuredProof(a, l) == [h \in Headings |-> Section(a, l, h)]

FirstUrl(a, l) ==
  LET urls == {i \in l : BodyOf(a, i) = "url"} IN IF urls = {} THEN NoUrl ELSE {First(urls)}

\* The section of the pull request, or the first address of one in the text.
PrUrl(a, l, p) == IF p["pr_url"] # {} THEN p["pr_url"] ELSE FirstUrl(a, l)

Submit(status, pr) ==
  submission' = [status |-> status, work |-> work.state, price |-> work.price,
                 provider |-> ResolveExecutionProvider(work.price),
                 tier |-> IF work.price <= CostThreshold THEN "local" ELSE "cloud", pr |-> pr]

\* An answer is one whatever the events say, errors too.
Answered ==
  /\ work.state # "idle"
  /\ \E a \in Answers :
       LET l == Combined(work.state, a)
           p == ParseStructuredProof(a, l)
       IN  /\ answer' = a /\ log' = l /\ proof' = p
           /\ Submit("completed", PrUrl(a, l, p))
  /\ work' = [work EXCEPT !.state = "idle"]
  /\ UNCHANGED <<attempt, failed>>

TriesLeft == attempt < Attempts(work.state)

\* No service, an error status, or no answer within the time of a call.
AttemptFails ==
  /\ work.state # "idle"
  /\ failed' = failed + 1
  /\ IF TriesLeft
     THEN /\ attempt' = attempt + 1
          /\ UNCHANGED <<work, submission>>
     ELSE /\ Submit("partial", NoUrl)
          /\ work' = [work EXCEPT !.state = "idle"]
          /\ UNCHANGED attempt
  /\ UNCHANGED <<answer, log, proof>>

BountyProofNext == ExecuteBounty \/ ExecuteBountyRework \/ Answered \/ AttemptFails

BountyProofTypeOK ==
  /\ work \in [state : {"idle", "executing", "reworking"}, price : Prices \cup {0}]
  /\ attempt \in 0..3 /\ failed \in 0..3
  /\ answer \in Answers /\ log \subseteq 1..(MaxEvents + 1)
  /\ proof \in [Headings -> SUBSET (1..(MaxEvents + 1))]
  /\ submission.status \in {"none", "completed", "partial"}
  /\ submission.provider \in {"none", "local", "cloud"} /\ submission.tier \in {"none", "local", "cloud"}

----------------------------------------------------------------------------
Completed == submission.status = "completed"
\* The answer keeps to the headings it is told, each on a line of its own.
InBlocks ==
  /\ \A h \in Headings : Cardinality(Heads(answer, log, h)) <= 1
  /\ \A i \in log : HeadOf(answer, i) # "none" => BodyOf(answer, i) = "none"
Under(i, h) ==
  \E j \in Heads(answer, log, h) : j < i /\ \A k \in (j + 1)..i : HeadOf(answer, k) = "none"

\* No line is in two sections, and in an answer of blocks the lines below a
\* heading, up to the next one, are its section, the list of tools included.
SectionsAreApart ==
  Completed =>
    /\ proof["pr_url"] \cap proof["approach"] = {}
    /\ InBlocks => \A h \in Headings : proof[h] = {i \in log : Under(i, h)}

\* What the relay is told of the pull request is one address, or what the
\* answer has below the heading: more than an address there, or the list of
\* tools, spoils it.  An address in the text is never passed over for none.
UrlIsTold ==
  Completed =>
    /\ (\E i \in log : BodyOf(answer, i) = "url") => submission.pr # NoUrl
    /\ (Cardinality(submission.pr) # 1 \/ \E i \in submission.pr : BodyOf(answer, i) # "url") =>
         submission.pr = {} \/ \A i \in submission.pr : \E j \in Heads(answer, log, "pr_url") : j < i

\* A proof tells of failure only when every attempt failed, and there are
\* three of a first execution and one of a rework.
PartialIsExhausted ==
  submission.status = "partial" => failed = Attempts(submission.work)

\* What the local model worked on is told to be of the local tier.
LocalWorkIsCheap ==
  submission.provider = "local" => submission.tier = "local" /\ submission.price <= CostThreshold

(****************************************************************************)
(* Where the agents of a harness work on the bounties they claimed, and the *)
(* test that tells them whether the work would pass.  A test is a shell     *)
(* command of the bounty, taken from the cache of bounties or the relay and *)
(* run in the workspace; when its time is over its caller is answered, but  *)
(* the command goes on.                                                     *)
(****************************************************************************)
CONSTANTS Bounties, Verifiers, MaxEdits, MaxTests

VARIABLES claim, command, cached, dirs, calls, tests, timeouts

bountyWorkspaceVars == <<claim, command, cached, dirs, calls, tests, timeouts>>

\* Commands are versions, the first of them none at all.
NoCommand == 0
Commands == 0..MaxEdits
NotCached == MaxEdits + 1
NoCall == [pc |-> "idle", bounty |-> "none", command |-> NoCommand]

BountyWorkspaceInit ==
  /\ claim = [b \in Bounties |-> "none"]
  /\ command = [b \in Bounties |-> NoCommand]
  /\ cached = [b \in Bounties |-> NotCached]
  /\ dirs = {}
  /\ calls = [c \in Verifiers |-> NoCall]
  /\ tests = {}
  /\ timeouts = 0

\* The newest row of the bounty; one that was rejected or expired is not active.
Active(b) == claim[b] \in {"claimed", "approved"}

ClaimBounty(b) ==
  /\ ~Active(b)
  /\ claim' = [claim EXCEPT ![b] = "claimed"]
  /\ UNCHANGED <<command, cached, dirs, calls, tests, timeouts>>
Settle(b) ==
  /\ claim[b] = "claimed"
  /\ \E s \in {"approved", "rejected", "expired"} : claim' = [claim EXCEPT ![b] = s]
  /\ UNCHANGED <<command, cached, dirs, calls, tests, timeouts>>

PosterEdits(b) ==
  /\ command[b] < MaxEdits
  /\ command' = [command EXCEPT ![b] = @ + 1]
  /\ UNCHANGED <<claim, cached, dirs, calls, tests, timeouts>>

\* The cache is written anew with the bounties the relay lists.
PollBounties ==
  /\ \E listed \in SUBSET Bounties :
       cached' = [b \in Bounties |-> IF b \in listed THEN command[b] ELSE NotCached]
  /\ UNCHANGED <<claim, command, dirs, calls, tests, timeouts>>

Workspace(b) ==
  /\ Active(b) /\ dirs' = dirs \cup {b}
  /\ UNCHANGED <<claim, command, cached, calls, tests, timeouts>>

To(c, call) == calls' = [calls EXCEPT ![c] = call]

\* verify_bounty asks for an active claim first.
VerifyBounty(c, b) ==
  /\ calls[c].pc \in {"idle", "passed", "failed", "skipped"} /\ Active(b)
  /\ To(c, [pc |-> "lookup", bounty |-> b, command |-> NoCommand])
  /\ UNCHANGED <<claim, command, cached, dirs, tests, timeouts>>

Known(b) == IF cached[b] # NotCached THEN cached[b] ELSE command[b]

LookupBounty(c) ==
  /\ calls[c].pc = "lookup"
  /\ LET b == calls[c].bounty IN
       To(c, IF Known(b) = NoCommand THEN [calls[c] EXCEPT !.pc = "skipped"]
             ELSE IF b \notin dirs THEN NoCall
             ELSE [pc |-> "ready", bounty |-> b, command |-> Known(b)])
  /\ UNCHANGED <<claim, command, cached, dirs, tests, timeouts>>

\* A bounty that is not cached and that the relay does not give.
LookupFails(c) ==
  /\ calls[c].pc = "lookup" /\ cached[calls[c].bounty] = NotCached
  /\ To(c, NoCall)
  /\ UNCHANGED <<claim, command, cached, dirs, tests, timeouts>>

Start(c) ==
  /\ calls[c].pc = "ready" /\ timeouts + Cardinality(tests) < MaxTests
  /\ tests' = tests \cup {[of |-> c, number |-> timeouts, bounty |-> calls[c].bounty, command |-> calls[c].command]}
  /\ To(c, [calls[c] EXCEPT !.pc = "testing"])
  /\ UNCHANGED <<claim, command, cached, dirs, timeouts>>

Own(c) == {t \in tests : t.of = c}

\* A command ends; the newest of a caller is the one it waits for.
TestEnds(c) ==
  /\ \E t \in Own(c), verdict \in {"passed", "failed"} :
       /\ tests' = tests \ {t}
       /\ To(c, IF calls[c].pc = "testing" /\ \A o \in Own(c) : o.number <= t.number
                THEN [calls[c] EXCEPT !.pc = verdict] ELSE calls[c])
  /\ UNCHANGED <<claim, command, cached, dirs, timeouts>>

\* The time of a test is over: its caller is told it failed, it runs on.
TestTimesOut(c) ==
  /\ calls[c].pc = "testing" /\ timeouts < MaxTests
  /\ To(c, [calls[c] EXCEPT !.pc = "failed"])
  /\ timeouts' = timeouts + 1
  /\ UNCHANGED <<claim, command, cached, dirs, tests>>

BountyWorkspaceNext ==
  \/ PollBounties
  \/ \E b \in Bounties : ClaimBounty(b) \/ Settle(b) \/ PosterEdits(b) \/ Workspace(b)
  \/ \E c \in Verifiers :
       \/ \E b \in Bounties : VerifyBounty(c, b)
       \/ LookupBounty(c) \/ LookupFails(c) \/ Start(c) \/ TestEnds(c) \/ TestTimesOut(c)

BountyWorkspaceTypeOK ==
  /\ claim \in [Bounties -> {"none", "claimed", "approved", "rejected", "expired"}]
  /\ command \in [Bounties -> Commands] /\ cached \in [Bounties -> Commands \cup {NotCached}]
  /\ dirs \subseteq Bounties
  /\ \A c \in Verifiers : calls[c].pc \in {"idle", "lookup", "ready", "testing", "passed", "failed", "skipped"}
  /\ \A t \in tests : t.of \in Verifiers /\ t.number \in 0..MaxTests /\ t.bounty \in Bounties
  /\ timeouts \in 0..MaxTests

----------------------------------------------------------------------------
Waiting == {c \in Verifiers : calls[c].pc = "testing"}

\* Commands run in workspaces of bounties that were claimed, and more of them
\* than there are callers who wait only as many as ran out of time; the one a
\* caller waits for is of the bounty and with the command it was told of.
TestsOverlapByTimeouts ==
  /\ \A t \in tests : t.bounty \in dirs /\ claim[t.bounty] # "none"
  /\ Cardinality(tests) <= Cardinality(Waiting) + timeouts
  /\ \A c \in Waiting : \E t \in Own(c) : t.bounty = calls[c].bounty /\ t.command = calls[c].command

\* A verdict is reached by a command, and by none that the relay did not have
\* for the bounty; a workspace is only made for a bounty that was claimed.
VerdictsHaveCommands ==
  /\ \A c \in Verifiers : calls[c].pc \in {"passed", "failed"} =>
       calls[c].command \in 1..command[calls[c].bounty]
  /\ \A b \in dirs : claim[b] # "none"

(****************************************************************************)
(* Reports to the protocol's intake queue, filed from a conversation and    *)
(* asked after later.  A filing whose answer is lost is filed again by the  *)
(* session, which knows no id of the first.  A status is put together from  *)
(* two requests, the report's and that of the bounty it led to.             *)
(****************************************************************************)
CONSTANTS MaxIntakes, Sessions, UnknownId

VARIABLES intakes, bountyStatus, filing, told, lost, check, reports

protocolIntakeVars == <<intakes, bountyStatus, filing, told, lost, check, reports>>

Ids == 1..MaxIntakes
NoBounty == 0
\* open, submitted, approved
Statuses == 0..2
NoCheck == [id |-> 0, intake |-> "none", found |-> NoBounty]
NoReport == [intake |-> "none", bounty |-> NoBounty, status |-> 0]

ProtocolIntakeInit ==
  /\ intakes = <<>>
  /\ bountyStatus = [b \in Ids |-> 0]
  /\ filing = [s \in Sessions |-> FALSE]
  /\ told = [s \in Sessions |-> {}]
  /\ lost = 0
  /\ check = [s \in Sessions |-> NoCheck]
  /\ reports = [s \in Sessions |-> [i \in Ids |-> NoReport]]

\* What the caller gives, told apart by what the validation asks of it.
Titles == {"blank", "fits", "long"}
Bodies == {"blank", "short", "fits", "long"}
SubmitterWallets == {"none", "plausible", "other"}
ValidateSubmitParams(title, body, wallet) == title = "fits" /\ body = "fits" /\ wallet # "other"

\* A session asks again until it is told an id.
SubmitProtocolIntake(s) ==
  /\ ~filing[s] /\ told[s] = {} /\ Len(intakes) < MaxIntakes
  /\ \E title \in Titles, body \in Bodies, wallet \in SubmitterWallets :
       filing' = [filing EXCEPT ![s] = ValidateSubmitParams(title, body, wallet)]
  /\ UNCHANGED <<intakes, bountyStatus, told, lost, check, reports>>

\* The relay takes the report; its answer comes, cannot be read, or is lost.
RelayTakes(s) ==
  /\ filing[s] /\ Len(intakes) < MaxIntakes
  /\ intakes' = Append(intakes, [state |-> "pending", bounty |-> NoBounty])
  /\ filing' = [filing EXCEPT ![s] = FALSE]
  /\ \/ told' = [told EXCEPT ![s] = @ \cup {Len(intakes) + 1}] /\ UNCHANGED lost
     \/ told' = [told EXCEPT ![s] = @ \cup {UnknownId}] /\ lost' = lost + 1
     \/ lost' = lost + 1 /\ UNCHANGED told
  /\ UNCHANGED <<bountyStatus, check, reports>>

RelayRefuses(s) ==
  /\ filing[s]
  /\ filing' = [filing EXCEPT ![s] = FALSE]
  /\ UNCHANGED <<intakes, bountyStatus, told, lost, check, reports>>

\* The Oracle rejects a report or makes a bounty of it, which is worked on.
Evaluate(i) ==
  /\ i \in DOMAIN intakes /\ intakes[i].state = "pending"
  /\ \E b \in {NoBounty, i} : intakes' = [intakes EXCEPT ![i] = [state |-> "evaluated", bounty |-> b]]
  /\ UNCHANGED <<bountyStatus, filing, told, lost, check, reports>>
BountyMoves(b) ==
  /\ b \in DOMAIN intakes /\ intakes[b].bounty = b /\ bountyStatus[b] < 2
  /\ bountyStatus' = [bountyStatus EXCEPT ![b] = @ + 1]
  /\ UNCHANGED <<intakes, filing, told, lost, check, reports>>

\* The first request; an id the relay does not know, and any failure, ends it.
CheckProtocolIntakeStatus(s) ==
  /\ check[s] = NoCheck
  /\ \E i \in told[s] \cap DOMAIN intakes :
       check' = [check EXCEPT ![s] = [id |-> i, intake |-> intakes[i].state, found |-> intakes[i].bounty]]
  /\ UNCHANGED <<intakes, bountyStatus, filing, told, lost, reports>>

\* The summary of the bounty is left out if its request fails.
Report(s, answered) ==
  LET c == check[s]
      b == IF answered THEN c.found ELSE NoBounty
  IN  [intake |-> c.intake, bounty |-> b, status |-> IF b = NoBounty THEN 0 ELSE bountyStatus[b]]

CheckBounty(s) ==
  /\ check[s] # NoCheck
  /\ \E answered \in BOOLEAN : reports' = [reports EXCEPT ![s][check[s].id] = Report(s, answered)]
  /\ check' = [check EXCEPT ![s] = NoCheck]
  /\ UNCHANGED <<intakes, bountyStatus, filing, told, lost>>

ProtocolIntakeNext ==
  \/ \E s \in Sessions :
       \/ SubmitProtocolIntake(s) \/ RelayTakes(s) \/ RelayRefuses(s)
       \/ CheckProtocolIntakeStatus(s) \/ CheckBounty(s)
  \/ \E i \in Ids : Evaluate(i) \/ BountyMoves(i)

ProtocolIntakeTypeOK ==
  /\ intakes \in Seq([state : {"pending", "evaluated"}, bounty : Ids \cup {NoBounty}])
  /\ bountyStatus \in [Ids -> Statuses]
  /\ filing \in [Sessions -> BOOLEAN] /\ told \in [Sessions -> SUBSET (Ids \cup {UnknownId})]
  /\ lost \in 0..MaxIntakes
  /\ check \in [Sessions -> [id : Ids \cup {0}, intake : {"none", "pending", "evaluated"}, found : Ids \cup {NoBounty}]]
  /\ reports \in [Sessions -> [Ids -> [intake : {"none", "pending", "evaluated"}, bounty : Ids \cup {NoBounty}, status : Statuses]]]

----------------------------------------------------------------------------
Rank(r) == IF r.intake = "none" THEN 0 ELSE IF r.intake = "pending" THEN 1 ELSE 2

\* Every report of the queue is known by its id to the one session that filed
\* it, unless its answer was lost or could not be read.
FiledOnceUnlessLost ==
  /\ Cardinality(UNION {told[s] \cap Ids : s \in Sessions}) + lost = Len(intakes)
  /\ \A s, o \in Sessions : s # o => told[s] \cap told[o] \cap Ids = {}

\* What a session is told of a report never goes back, though of the bounty it
\* may be told nothing again; a bounty is told of no report that has none.
ReportsGoForward ==
  [][ \A s \in Sessions, i \in Ids :
        /\ Rank(reports'[s][i]) >= Rank(reports[s][i])
        /\ reports[s][i].bounty # NoBounty /\ reports'[s][i].bounty # NoBounty =>
             reports'[s][i].status >= reports[s][i].status
        /\ reports'[s][i].bounty # NoBounty =>
             reports'[s][i].intake = "evaluated" /\ intakes[i].bounty = reports'[s][i].bounty ]_protocolIntakeVars

(****************************************************************************)
(* All of it.                                                               *)
(****************************************************************************)
bountyWorkVars == <<bountyProofVars, bountyWorkspaceVars, protocolIntakeVars>>

Init ==
  /\ BountyProofInit
  /\ BountyWorkspaceInit
  /\ ProtocolIntakeInit

Next ==
  \/ BountyProofNext /\ UNCHANGED <<bountyWorkspaceVars, protocolIntakeVars>>
  \/ BountyWorkspaceNext /\ UNCHANGED <<bountyProofVars, protocolIntakeVars>>
  \/ ProtocolIntakeNext /\ UNCHANGED <<bountyProofVars, bountyWorkspaceVars>>

Spec == Init /\ [][Next]_bountyWorkVars

TypeOK ==
  /\ BountyProofTypeOK
  /\ BountyWorkspaceTypeOK
  /\ ProtocolIntakeTypeOK
==============================================================================
