---- MODULE ServerProcess ----------------------------------------------------
(****************************************************************************)
(* The process of the server: starts, signals and the drain; and the        *)
(* limiters before every request.  These share no state; each has its own   *)
(* section.                                                                 *)
(****************************************************************************)
EXTENDS Naturals, FiniteSets, Integers

(****************************************************************************)
(* The life of harness processes which share a database, as they do in a    *)
(* rolling deploy or after a restart.  A start has steps that end it when   *)
(* they fail and steps that do not; its fleet is set to work long before    *)
(* it listens.  A signal lets open requests end, but not for ever.          *)
(****************************************************************************)
CONSTANTS MaxProcesses, FleetSize, MaxRequests, DrainDeadline, RequestTimeout

VARIABLES procs, rows, requests

processVars == <<procs, rows, requests>>

\* Processes are numbered as they start.
Processes == 1..MaxProcesses
Agents == 1..FleetSize
Slots == 1..MaxRequests

NoAgent == [status |-> "none", claim |-> "none"]
NoRequest == [kind |-> "none", age |-> 0]
Unstarted == [pc |-> "none", next |-> 1, beside |-> {}, drained |-> 0]

HarnessProcessInit ==
  /\ procs = [p \in Processes |-> Unstarted]
  /\ rows = [p \in Processes |-> [a \in Agents |-> NoAgent]]
  /\ requests = [p \in Processes |-> [s \in Slots |-> NoRequest]]

Steps == {"connect", "assemble", "reconcile", "count", "deploy", "activate", "bind"}
Alive(p) == procs[p].pc \in Steps \cup {"serving", "draining"}
Runs(p, a) == Alive(p) /\ rows[p][a].status # "none"

Begin(p) ==
  /\ procs[p].pc = "none" /\ \A q \in Processes : q < p => procs[q].pc # "none"
  /\ procs' = [procs EXCEPT ![p].pc = "connect"]
  /\ UNCHANGED <<rows, requests>>

\* A step that ends the process when it fails.
Step(p, from, to) ==
  /\ procs[p].pc = from
  /\ \E pc \in {to, "exited"} : procs' = [procs EXCEPT ![p].pc = pc]
  /\ UNCHANGED <<rows, requests>>

\* The configuration, the database and its migrations, Redis.
Connect(p) == Step(p, "connect", "assemble")
\* The vault, the storage, the tools and packages and the agents known; mail,
\* Bedrock, embeddings and images are done without.
Assemble(p) == Step(p, "assemble", "reconcile")
\* The relay, the automations, the refresh of credentials and the platform are
\* at work when the packages are activated.
ActivatePackages(p) == Step(p, "activate", "bind")
Bind(p) == Step(p, "bind", "serving")

Reset(row) == IF row.status \in {"active", "working"} THEN [row EXCEPT !.status = "idle"] ELSE row
ResetAll == rows' = [q \in Processes |-> [a \in Agents |-> Reset(rows[q][a])]]

\* Rows of autonomous agents are reset, of whichever process; its failure is
\* only told to the log.
ReconcileOnStartup(p) ==
  /\ procs[p].pc = "reconcile"
  /\ ResetAll \/ UNCHANGED rows
  /\ procs' = [procs EXCEPT ![p].pc = "count"]
  /\ UNCHANGED requests

CountWorking(p) ==
  /\ procs[p].pc = "count"
  /\ LET found == \E q \in Processes, a \in Agents : rows[q][a].status \in {"active", "working"} IN
       procs' = [procs EXCEPT ![p] = [@ EXCEPT !.pc = IF found THEN "activate" ELSE "deploy",
                                               !.beside = {q \in Processes \ {p} : procs[q].pc = "deploy"}]]
  /\ UNCHANGED <<rows, requests>>

CountAgents(p) ==
  /\ procs[p].pc = "count"
  /\ LET found == \E q \in Processes, a \in Agents : rows[q][a].status # "none" IN
       procs' = [procs EXCEPT ![p] = [@ EXCEPT !.pc = IF found THEN "activate" ELSE "deploy",
                                               !.beside = {q \in Processes \ {p} : procs[q].pc = "deploy"}]]
  /\ UNCHANGED <<rows, requests>>

\* One agent after the other; one that cannot be deployed is passed over.
DeployAgent(p) ==
  /\ procs[p].pc = "deploy" /\ procs[p].next \in Agents
  /\ \/ rows' = [rows EXCEPT ![p][procs[p].next].status = "active"]
     \/ UNCHANGED rows
  /\ procs' = [procs EXCEPT ![p].next = @ + 1]
  /\ UNCHANGED requests

\* The loops of the fleet, the relay, automations and credentials start.
DeployEnds(p) ==
  /\ procs[p].pc = "deploy" /\ procs[p].next = FleetSize + 1
  /\ procs' = [procs EXCEPT ![p].pc = "activate"]
  /\ UNCHANGED <<rows, requests>>

ClaimBounty(p, a) ==
  /\ Runs(p, a) /\ rows[p][a].claim # "claimed"
  /\ rows' = [rows EXCEPT ![p][a] = [status |-> "working", claim |-> "claimed"]]
  /\ UNCHANGED <<procs, requests>>
\* Approved at once, or with the row still at work until its state is asked for.
SubmitProof(p, a) ==
  /\ Runs(p, a) /\ rows[p][a].claim = "claimed"
  /\ \/ rows' = [rows EXCEPT ![p][a] = [status |-> "idle", claim |-> "none"]]
     \/ rows' = [rows EXCEPT ![p][a].claim = "submitted"]
  /\ UNCHANGED <<procs, requests>>
CheckBountyStatus(p, a) ==
  /\ Runs(p, a) /\ rows[p][a].claim = "submitted"
  /\ rows' = [rows EXCEPT ![p][a] = [status |-> "idle", claim |-> "none"]]
  /\ UNCHANGED <<procs, requests>>

\* A request has its time until it is answered, a stream as long as it flows.
Accept(p, s) ==
  /\ procs[p].pc = "serving" /\ requests[p][s] = NoRequest
  /\ \E k \in {"plain", "stream"} : requests' = [requests EXCEPT ![p][s] = [kind |-> k, age |-> 0]]
  /\ UNCHANGED <<procs, rows>>
Answer(p, s) ==
  /\ requests[p][s] # NoRequest /\ requests' = [requests EXCEPT ![p][s] = NoRequest]
  /\ UNCHANGED <<procs, rows>>

\* Without a handler a signal ends the process; with it, it drains.
ShutdownSignal(p) ==
  /\ Alive(p) /\ procs[p].pc # "draining"
  /\ procs' = [procs EXCEPT ![p].pc = IF @ = "serving" THEN "draining" ELSE "exited"]
  /\ UNCHANGED <<rows, requests>>

Close(p, last) ==
  /\ procs' = [procs EXCEPT ![p].pc = last]
  /\ requests' = [requests EXCEPT ![p] = [s \in Slots |-> NoRequest]]
  /\ UNCHANGED rows

Drained(p) ==
  /\ procs[p].pc = "draining" /\ \A s \in Slots : requests[p][s] = NoRequest
  /\ Close(p, "exited")

DrainWatchdog(p) ==
  /\ procs[p].pc = "draining" /\ procs[p].drained = DrainDeadline
  /\ Close(p, "exited")

Crash(p) == Alive(p) /\ Close(p, "crashed")

\* Neither the watchdog nor the time of a request waits.
Tick ==
  /\ \A p \in Processes : procs[p].pc = "draining" => procs[p].drained < DrainDeadline
  /\ \A p \in Processes, s \in Slots : requests[p][s].kind = "plain" => requests[p][s].age < RequestTimeout
  /\ \E p \in Processes : procs[p].pc \in {"serving", "draining"}
  /\ procs' = [p \in Processes |->
       IF procs[p].pc = "draining" THEN [procs[p] EXCEPT !.drained = @ + 1] ELSE procs[p]]
  /\ requests' = [p \in Processes |-> [s \in Slots |->
       LET r == requests[p][s] IN IF r.kind = "plain" THEN [r EXCEPT !.age = @ + 1] ELSE r]]
  /\ UNCHANGED rows

HarnessProcessNext ==
  \/ Tick
  \/ \E p \in Processes :
       \/ Begin(p) \/ Connect(p) \/ Assemble(p) \/ ActivatePackages(p) \/ Bind(p)
       \/ ReconcileOnStartup(p) \/ CountAgents(p) \/ DeployAgent(p) \/ DeployEnds(p)
       \/ \E a \in Agents : ClaimBounty(p, a) \/ SubmitProof(p, a) \/ CheckBountyStatus(p, a)
       \/ \E s \in Slots : Accept(p, s) \/ Answer(p, s)
       \/ ShutdownSignal(p) \/ Drained(p) \/ DrainWatchdog(p) \/ Crash(p)

HarnessProcessTypeOK ==
  /\ \A p \in Processes :
       /\ procs[p].pc \in Steps \cup {"none", "serving", "draining", "exited", "crashed"}
       /\ procs[p].next \in 1..(FleetSize + 1) /\ procs[p].beside \subseteq Processes
       /\ procs[p].drained \in 0..DrainDeadline
  /\ rows \in [Processes -> [Agents -> [status : {"none", "active", "working", "idle"}, claim : {"none", "claimed", "submitted"}]]]
  /\ requests \in [Processes -> [Slots -> [kind : {"none", "plain", "stream"}, age : 0..RequestTimeout]]]

----------------------------------------------------------------------------
Works(p, a) == Runs(p, a) /\ rows[p][a].claim = "claimed"

\* The row of an agent says that it works as long as it does; only another
\* process, whose start takes it for the trace of a crash, makes it lie.
RowsTellTheWork ==
  [][\A p \in Processes, a \in Agents :
       Works(p, a) /\ Works(p, a)' /\ rows[p][a].status = "working" =>
         \/ rows'[p][a].status = "working"
         \/ \E q \in Processes \ {p} : procs[q].pc = "reconcile" /\ procs'[q].pc = "count"]_processVars

Deployers == {p \in Processes : \E a \in Agents : rows[p][a].status # "none"}

\* A database has the initial fleet of one process, however often processes
\* fail and start; a second is deployed only by one which counted the agents
\* while another had counted and not yet deployed them.
FleetOfOneStart ==
  \A p, q \in Deployers : p # q => p \in procs[q].beside \/ q \in procs[p].beside

\* A process that was told to stop ends when its requests have ended, however
\* slow, or at the deadline and not before; a request that fits into what is
\* left of the time is not cut.
DrainIsGraceful ==
  [][\A p \in Processes : procs[p].pc = "draining" /\ procs'[p].pc = "exited" =>
       \/ requests[p] = [s \in Slots |-> NoRequest]
       \/ procs[p].drained = DrainDeadline]_processVars

(****************************************************************************)
(* The token buckets before the routes.  A bucket is made when a client is  *)
(* first seen, refilled only when it is used, and taken away when it was    *)
(* idle long enough.  Every protected request takes from the bucket of the  *)
(* API, is then authenticated, and a chat takes from its own bucket too.    *)
(****************************************************************************)
CONSTANTS Clients, ApiBurst, ChatBurst, ApiRate, ChatRate, EvictAfter

VARIABLES buckets, answer

rateVars == <<buckets, answer>>

Limiters == {"api", "chat"}
Burst == [api |-> ApiBurst, chat |-> ChatBurst]
PerTick == [api |-> ApiRate, chat |-> ChatRate]
Absent == [tokens |-> -1, idle |-> 0]
Buckets == [tokens : 0..Burst["api"] \cup 0..Burst["chat"], idle : 0..EvictAfter + 1]
NoAnswer == "none"
Answers == {NoAnswer, "served", "api limit", "chat limit", "unauthorized"}

RateLimitInit ==
  /\ buckets = [l \in Limiters |-> [c \in Clients |-> Absent]]
  /\ answer = NoAnswer

Least(a, b) == IF a < b THEN a ELSE b

\* Idle times are told apart as far as eviction does.
Second ==
  /\ buckets' = [l \in Limiters |-> [c \in Clients |->
       IF buckets[l][c] = Absent THEN Absent
       ELSE [buckets[l][c] EXCEPT !.idle = Least(@ + 1, EvictAfter + 1)]]]
  /\ answer' = NoAnswer

Refilled(l, b) == IF b = Absent THEN Burst[l] ELSE Least(Burst[l], b.tokens + b.idle * PerTick[l])

\* The fill of a bucket is guessed from the burst instead of the rate.
IsStale(l, b) == b # Absent /\ b.tokens + b.idle * Burst[l] >= Burst[l] /\ b.idle > EvictAfter

StaleWhenGuessedFull(l) ==
  /\ buckets' = [buckets EXCEPT ![l] = [c \in Clients |->
       LET b == @[c] IN IF b # Absent /\ b.tokens + b.idle * Burst[l] >= Burst[l] THEN Absent ELSE b]]
  /\ answer' = NoAnswer

Cleanup(l) ==
  /\ buckets' = [buckets EXCEPT ![l] = [c \in Clients |-> IF IsStale(l, @[c]) THEN Absent ELSE @[c]]]
  /\ answer' = NoAnswer

IsGiven(l, b) == Refilled(l, b) >= 1

\* A bucket is refilled whether or not it gives a token.
TryAcquire(l, b) ==
  [tokens |-> IF IsGiven(l, b) THEN Refilled(l, b) - 1 ELSE Refilled(l, b), idle |-> 0]

\* A request by the buckets it uses, in the order of the layers.
Acquire(c, ls) ==
  buckets' = [l \in Limiters |-> IF l \in ls THEN [buckets[l] EXCEPT ![c] = TryAcquire(l, @)] ELSE buckets[l]]

\* An API key of the database, a token in the header or one in the cookie:
\* the first that is good will do, a bad one before it does no harm.
Credentials == SUBSET {"api key", "bearer", "cookie"}
Authenticate(good) == good # {}

Request(c, chat, good) ==
  \/ /\ ~IsGiven("api", buckets["api"][c]) /\ answer' = "api limit"
     /\ Acquire(c, {"api"})
  \/ /\ IsGiven("api", buckets["api"][c]) /\ ~Authenticate(good) /\ answer' = "unauthorized"
     /\ Acquire(c, {"api"})
  \/ /\ IsGiven("api", buckets["api"][c]) /\ Authenticate(good) /\ chat
     /\ answer' = IF IsGiven("chat", buckets["chat"][c]) THEN "served" ELSE "chat limit"
     /\ Acquire(c, Limiters)
  \/ /\ IsGiven("api", buckets["api"][c]) /\ Authenticate(good) /\ ~chat /\ answer' = "served"
     /\ Acquire(c, {"api"})

RateLimitNext ==
  \/ Second
  \/ \E l \in Limiters : Cleanup(l)
  \/ \E c \in Clients, chat \in BOOLEAN, good \in Credentials : Request(c, chat, good)

RateLimitTypeOK ==
  /\ buckets \in [Limiters -> [Clients -> Buckets \cup {Absent}]]
  /\ answer \in Answers

----------------------------------------------------------------------------
Level(l, c) == Refilled(l, buckets[l][c])

\* What a client can still ask for: with time it grows by the rate up to the
\* burst, and otherwise it only falls, one token for one request of that client.
LevelsFollow(l) ==
  \/ \A c \in Clients : Level(l, c)' = Least(Burst[l], Level(l, c) + PerTick[l])
  \/ \E one \in Clients : \A c \in Clients :
       Level(l, c)' = IF c = one /\ answer' # NoAnswer /\ Level(l, c) > 0 THEN Level(l, c) - 1 ELSE Level(l, c)
  \/ \A c \in Clients : Level(l, c)' = Level(l, c)

\* A bucket that is made late, refilled late and evicted behaves as one that
\* is filled at its rate all the time: forgetting a client, or refusing it,
\* gives it nothing that waiting would not have.
BucketsKeepTheRate == [][\A l \in Limiters : LevelsFollow(l)]_rateVars

\* Requests that are not served are limited as well: one that is refused for
\* its credentials, or by the bucket of the chat, took a token of the API, and
\* a chat token is only taken for a request with credentials.
RefusalsCost ==
  [][/\ answer' \in {"unauthorized", "chat limit", "served"} =>
          \E c \in Clients : Level("api", c)' = Level("api", c) - 1
     /\ answer' = "unauthorized" => \A c \in Clients : Level("chat", c)' = Level("chat", c)]_rateVars

(****************************************************************************)
(* All of it.                                                               *)
(****************************************************************************)
serverProcessVars == <<processVars, rateVars>>

Init ==
  /\ HarnessProcessInit
  /\ RateLimitInit

Next ==
  \/ HarnessProcessNext /\ UNCHANGED rateVars
  \/ RateLimitNext /\ UNCHANGED processVars

Spec == Init /\ [][Next]_serverProcessVars

TypeOK ==
  /\ HarnessProcessTypeOK
  /\ RateLimitTypeOK
==============================================================================
