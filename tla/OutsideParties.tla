---- MODULE OutsideParties ---------------------------------------------------
(****************************************************************************)
(* Parties outside the harness: external agents, wallets of tenants, and    *)
(* sibling harnesses.  These share no state; each has its own section.      *)
(****************************************************************************)
EXTENDS Naturals, FiniteSets

(****************************************************************************)
(* Agents that come from outside: they register under a name, ask for tools *)
(* within the trust of their row, poll for work and hand in results.  Work  *)
(* that is polled is not taken: several may do the same item, and the first *)
(* result counts.                                                           *)
(****************************************************************************)
CONSTANTS Names, Items, Categories, PollLimit, NoCategory

VARIABLES agents, items, doing, tool, accepted

externalAgentsVars == <<agents, items, doing, tool, accepted>>

Open == {"pending", "assigned", "in_progress"}
Ended == {"completed", "failed"}
SidecarTrust == 5
OthersTrust == 1

TrustLevelForCategory(k) ==
  CASE k = "memory" -> 1
    [] k = "canvas" -> 2
    [] k = "task_queue" -> 3
    [] k = "platform" -> 4
    [] OTHER -> 2

ExternalAgentsInit ==
  /\ agents = [n \in Names |-> 0]
  /\ items = [i \in Items |-> "pending"]
  /\ doing = [n \in Names |-> {}]
  /\ tool = [n \in Names |-> [category |-> NoCategory, trust |-> 0]]
  /\ accepted = [i \in Items |-> 0]

\* Registering again under the same name sets the trust anew.
EapRegister(n) ==
  /\ \E trust \in {SidecarTrust, OthersTrust} : agents' = [agents EXCEPT ![n] = trust]
  /\ UNCHANGED <<items, doing, tool, accepted>>

StopAgent(n) ==
  /\ agents[n] > 0
  /\ agents' = [agents EXCEPT ![n] = 0]
  /\ UNCHANGED <<items, doing, tool, accepted>>

\* The trust is read from the row of an active agent and compared once; a
\* level that changes while the tool runs does not stop it.
EapToolExecute(n, k) ==
  /\ agents[n] > 0 /\ tool[n].category = NoCategory
  /\ agents[n] >= TrustLevelForCategory(k)
  /\ tool' = [tool EXCEPT ![n] = [category |-> k, trust |-> agents[n]]]
  /\ UNCHANGED <<agents, items, doing, accepted>>

\* An answer, an error or the end of the time a tool has.
ToolEnds(n) ==
  /\ tool[n].category # NoCategory
  /\ tool' = [tool EXCEPT ![n] = [category |-> NoCategory, trust |-> 0]]
  /\ UNCHANGED <<agents, items, doing, accepted>>

\* The first pending items are told to whoever asks, registered or not, and
\* stay pending.
EapPollTasks(n) ==
  /\ \E told \in SUBSET {i \in Items : items[i] = "pending"} :
       /\ Cardinality(told) =
            (IF Cardinality({i \in Items : items[i] = "pending"}) < PollLimit
             THEN Cardinality({i \in Items : items[i] = "pending"}) ELSE PollLimit)
       /\ doing' = [doing EXCEPT ![n] = @ \cup told]
  /\ UNCHANGED <<agents, items, tool, accepted>>

\* What becomes of work outside these routes.
AssignItem(i) ==
  /\ items[i] \in Open
  /\ items' \in {[items EXCEPT ![i] = s] : s \in {"assigned", "in_progress"}}
  /\ UNCHANGED <<agents, doing, tool, accepted>>

\* One statement asks whether the item is open and ends it.
EapSubmitTaskResult(n, i, status) ==
  /\ i \in doing[n] /\ status \in Ended
  /\ IF items[i] \in Open
     THEN /\ items' = [items EXCEPT ![i] = status]
          /\ accepted' = [accepted EXCEPT ![i] = @ + 1]
     ELSE UNCHANGED <<items, accepted>>
  /\ doing' = [doing EXCEPT ![n] = @ \ {i}]
  /\ UNCHANGED <<agents, tool>>

ExternalAgentsNext ==
  \/ \E n \in Names :
       \/ EapRegister(n) \/ StopAgent(n) \/ ToolEnds(n) \/ EapPollTasks(n)
       \/ \E k \in Categories : EapToolExecute(n, k)
       \/ \E i \in Items, status \in Ended : EapSubmitTaskResult(n, i, status)
  \/ \E i \in Items : AssignItem(i)

ExternalAgentsTypeOK ==
  /\ agents \in [Names -> {0, OthersTrust, SidecarTrust}]
  /\ items \in [Items -> Open \cup Ended]
  /\ doing \in [Names -> SUBSET Items]
  /\ tool \in [Names -> [category : Categories \cup {NoCategory}, trust : 0..SidecarTrust]]
  /\ accepted \in [Items -> 0..2]

----------------------------------------------------------------------------
\* However many agents polled an item and hand it in, one result is accepted
\* and it is never replaced.
OneResultCounts ==
  \A i \in Items : accepted[i] = IF items[i] \in Ended THEN 1 ELSE 0

\* No tool runs for an agent whose trust, when the tool was asked for, was
\* below the one its category needs, whatever registrations follow.
RunsWithinTrust ==
  \A n \in Names :
    tool[n].category # NoCategory => tool[n].trust >= TrustLevelForCategory(tool[n].category)

(****************************************************************************)
(* Wallets of tenants: a signature proves one, a row connects it, and what  *)
(* a tenant sends about a bounty carries the connected wallet.  Asking who  *)
(* has a wallet and writing the row are separate statements, so it is the   *)
(* table's unique keys that decide between two who ask at once.             *)
(****************************************************************************)
CONSTANTS Tenants, Wallets, WalletCalls, Nobody

VARIABLES connected, requests, answeredTo, injected

walletsVars == <<connected, requests, answeredTo, injected>>

NoWalletCall == [stage |-> "idle", tenant |-> Nobody, wallet |-> Nobody]

\* "answeredTo": the pairs a caller was answeredTo are verified; "injected": the pairs of
\* tenant and wallet that went to the relay.
WalletsInit ==
  /\ connected = [w \in Wallets |-> Nobody]
  /\ requests = [c \in WalletCalls |-> NoWalletCall]
  /\ answeredTo = {}
  /\ injected = {}

\* A fresh nonce and a signature of the wallet's key come before anything else.
ConnectWallet(c, t, w) ==
  /\ requests[c].stage = "idle"
  /\ requests' = [requests EXCEPT ![c] = [stage |-> "verified", tenant |-> t, wallet |-> w]]
  /\ UNCHANGED <<connected, answeredTo, injected>>

CheckOwner(c) ==
  /\ requests[c].stage = "verified"
  /\ requests' = [requests EXCEPT ![c] =
                    IF connected[@.wallet] \in {Nobody, @.tenant} THEN [@ EXCEPT !.stage = "free"] ELSE NoWalletCall]
  /\ UNCHANGED <<connected, answeredTo, injected>>

PrimaryOf(t) == {w \in Wallets : connected[w] = t}

Verified(c) ==
  /\ answeredTo' = answeredTo \cup {<<requests[c].tenant, requests[c].wallet>>}
  /\ requests' = [requests EXCEPT ![c] = NoWalletCall]
  /\ UNCHANGED <<injected>>

\* A row of the same wallet keeps its tenant, whoever it is by now, and the
\* caller is answeredTo success all the same.
UpdateVerified(c) ==
  /\ requests[c].stage = "free"
  /\ connected[requests[c].wallet] # Nobody
  /\ UNCHANGED connected
  /\ Verified(c)

InsertWallet(c) ==
  /\ requests[c].stage = "free"
  /\ connected[requests[c].wallet] = Nobody
  /\ PrimaryOf(requests[c].tenant) = {}
  /\ connected' = [connected EXCEPT ![requests[c].wallet] = requests[c].tenant]
  /\ Verified(c)

\* One primary wallet to a tenant: the second is refused by the table, and so
\* is whatever else the database does not take.
InsertFails(c) ==
  /\ requests[c].stage = "free"
  /\ requests' = [requests EXCEPT ![c] = NoWalletCall]
  /\ UNCHANGED <<connected, answeredTo, injected>>

DisconnectWallet(t) ==
  /\ PrimaryOf(t) # {}
  /\ connected' = [w \in Wallets |-> IF connected[w] = t THEN Nobody ELSE connected[w]]
  /\ UNCHANGED <<requests, answeredTo, injected>>

\* A claim or a submission of a tenant without a wallet goes out as it came.
InjectWalletAddress(t) ==
  /\ \E w \in PrimaryOf(t) : injected' = injected \cup {<<t, w>>}
  /\ UNCHANGED <<connected, requests, answeredTo>>

WalletsNext ==
  \/ \E t \in Tenants :
       \/ DisconnectWallet(t) \/ InjectWalletAddress(t)
       \/ \E c \in WalletCalls, w \in Wallets : ConnectWallet(c, t, w)
  \/ \E c \in WalletCalls : CheckOwner(c) \/ UpdateVerified(c) \/ InsertWallet(c) \/ InsertFails(c)

WalletsTypeOK ==
  /\ connected \in [Wallets -> Tenants \cup {Nobody}]
  /\ requests \in [WalletCalls -> [stage : {"idle", "verified", "free"},
                                   tenant : Tenants \cup {Nobody}, wallet : Wallets \cup {Nobody}]]
  /\ answeredTo \subseteq Tenants \X Wallets /\ injected \subseteq Tenants \X Wallets

----------------------------------------------------------------------------
\* What a tenant sends to the relay names a wallet that this tenant proved to
\* have, though the answer to a proof says nothing about whose the row is.
InjectedWasProved == injected \subseteq answeredTo

\* A connected wallet passes to another tenant only through a disconnection,
\* also when both found it free.
HandedOverByDisconnection ==
  [][ \A w \in Wallets :
        connected[w] # Nobody /\ connected'[w] # connected[w] => connected'[w] = Nobody ]_walletsVars

(****************************************************************************)
(* Specialist harnesses beside this one.  The platform runs them; this side *)
(* keeps a list of siblings that every tool refreshes, looks at, and acts   *)
(* upon, in separate steps.  The list names only those with an address, and *)
(* falls back to the environment when the platform does not answer.         *)
(****************************************************************************)
CONSTANTS Specialties, FirstSpecialty, EnvSpecialties, ToolCalls, MaxHarnesses, NoSpecialty

VARIABLES running, made, known, envUnwritten, calls

specialistsVars == <<running, made, known, envUnwritten, calls>>

\* A sibling of the environment has no number of the platform.
EnvSiblings == {[id |-> 0, package |-> p, address |-> TRUE] : p \in EnvSpecialties}
Idle == [stage |-> "idle", does |-> "list", package |-> NoSpecialty, answer |-> {},
         target |-> 0, certain |-> TRUE]

\* The platform may run specialists before this harness knows of any.
SpecialistsInit ==
  /\ running = {[id |-> 1, package |-> FirstSpecialty, address |-> TRUE]}
  /\ made = 1
  /\ known = {}
  /\ envUnwritten = (EnvSpecialties # {})
  /\ calls = [c \in ToolCalls |-> Idle]

\* The list of the environment is written by a task of its own, at any time.
WriteEnvSiblings ==
  /\ envUnwritten
  /\ known' = EnvSiblings
  /\ envUnwritten' = FALSE
  /\ calls' = [c \in ToolCalls |-> [calls[c] EXCEPT !.certain = FALSE]]
  /\ UNCHANGED <<running, made>>

Alone(c) == \A d \in ToolCalls \ {c} : calls[d].stage = "idle"

Begin(c, does, p) ==
  /\ calls[c].stage = "idle"
  /\ calls' = [d \in ToolCalls |->
                 IF d = c THEN [Idle EXCEPT !.stage = "refresh", !.does = does, !.package = p, !.certain = Alone(c)]
                 ELSE [calls[d] EXCEPT !.certain = FALSE]]
  /\ UNCHANGED <<running, made, known, envUnwritten>>

ListAvailableSpecialists(c) == Begin(c, "list", NoSpecialty)
ActivateSpecialist(c, p) == Begin(c, "activate", p)
DeactivateSpecialist(c, p) == Begin(c, "deactivate", p)

Addressed == {h \in running : h.address}

\* What the platform answers is true when it answers.
FetchFromPlatform(c) ==
  /\ calls[c].stage = "refresh"
  /\ calls' = [calls EXCEPT ![c].answer = Addressed, ![c].stage = "fetched"]
  /\ UNCHANGED <<running, made, known, envUnwritten>>

FetchFails(c) ==
  /\ calls[c].stage = "refresh"
  /\ known' = IF EnvSiblings # {} THEN EnvSiblings ELSE known
  /\ calls' = [calls EXCEPT ![c].stage = "look", ![c].certain = FALSE]
  /\ UNCHANGED <<running, made, envUnwritten>>

RefreshEnds(c) ==
  /\ calls[c].stage = "fetched"
  /\ known' = calls[c].answer
  /\ calls' = [calls EXCEPT ![c].stage = "look"]
  /\ UNCHANGED <<running, made, envUnwritten>>

Matches(c) == {h \in known : h.package = calls[c].package}

\* The list decides: what is there needs no activation, what is not there none
\* of the other, and of several with the package one goes.
Look(c) ==
  /\ calls[c].stage = "look"
  /\ \/ calls[c].does = "activate" /\ Matches(c) = {} /\ calls' = [calls EXCEPT ![c].stage = "provision"]
     \/ /\ calls[c].does = "deactivate"
        /\ \E h \in Matches(c) : calls' = [calls EXCEPT ![c].stage = "delete", ![c].target = h.id]
     \/ /\ calls[c].does = "list" \/ (calls[c].does = "activate") = (Matches(c) # {})
        /\ calls' = [calls EXCEPT ![c] = Idle]
  /\ UNCHANGED <<running, made, known, envUnwritten>>

\* An answered request is followed by a refresh of the list.
Answered(c) == \/ calls' = [calls EXCEPT ![c] = [Idle EXCEPT !.stage = "refresh"]]
               \/ calls' = [calls EXCEPT ![c] = Idle]

\* The request may be carried out though its answer is lost.
Provision(c) ==
  /\ calls[c].stage = "provision"
  /\ \/ /\ made < MaxHarnesses
        /\ made' = made + 1
        /\ running' = running \cup {[id |-> made', package |-> calls[c].package, address |-> FALSE]}
        /\ Answered(c)
     \/ calls' = [calls EXCEPT ![c] = Idle] /\ UNCHANGED <<running, made>>
  /\ UNCHANGED <<known, envUnwritten>>

\* A target the platform does not know, one of the environment too, is refused.
Deprovision(c) ==
  /\ calls[c].stage = "delete"
  /\ \/ /\ \E h \in running : h.id = calls[c].target /\ running' = running \ {h}
        /\ Answered(c)
     \/ calls' = [calls EXCEPT ![c] = Idle] /\ UNCHANGED running
  /\ UNCHANGED <<made, known, envUnwritten>>

HarnessStarts ==
  /\ \E h \in running : ~h.address /\ running' = (running \ {h}) \cup {[h EXCEPT !.address = TRUE]}
  /\ UNCHANGED <<made, known, envUnwritten, calls>>

SpecialistsNext ==
  \/ WriteEnvSiblings \/ HarnessStarts
  \/ \E c \in ToolCalls :
       \/ ListAvailableSpecialists(c)
       \/ \E p \in Specialties : ActivateSpecialist(c, p) \/ DeactivateSpecialist(c, p)
       \/ FetchFromPlatform(c) \/ FetchFails(c) \/ RefreshEnds(c)
       \/ Look(c) \/ Provision(c) \/ Deprovision(c)

Siblings == [id : 0..MaxHarnesses, package : Specialties \cup {FirstSpecialty} \cup EnvSpecialties, address : BOOLEAN]
SpecialistsTypeOK ==
  /\ running \subseteq Siblings /\ made \in 0..MaxHarnesses /\ known \subseteq Siblings /\ envUnwritten \in BOOLEAN
  /\ calls \in [ToolCalls ->
       [stage : {"idle", "refresh", "fetched", "look", "provision", "delete"},
        does : {"list", "activate", "deactivate"}, package : Specialties \cup {NoSpecialty},
        answer : SUBSET Siblings, target : 0..MaxHarnesses, certain : BOOLEAN]]

----------------------------------------------------------------------------
\* A call that nothing overlaps, and whose refresh the platform answered, gives
\* no second harness to a specialty that had one with an address when it asked.
SecondNeedsARace ==
  \A c \in ToolCalls :
    calls[c].stage = "provision" /\ calls[c].certain =>
      \A h \in calls[c].answer : h.package # calls[c].package

Of(p) == {h \in running : h.package = p}

\* A deactivation takes the only harness of its specialty and none of another,
\* whatever became of the list while it asked, or nothing at all.
OnlyTheAskedGoes ==
  [][ \A c \in ToolCalls :
        calls[c].stage = "delete" /\ calls'[c].stage # "delete" /\ running' # running =>
          \A p \in (Specialties \cup {FirstSpecialty}) \ {calls[c].package} : Of(p) \subseteq running' ]_specialistsVars

(****************************************************************************)
(* All of it.                                                               *)
(****************************************************************************)
outsidePartiesVars == <<externalAgentsVars, walletsVars, specialistsVars>>

Init ==
  /\ ExternalAgentsInit
  /\ WalletsInit
  /\ SpecialistsInit

Next ==
  \/ ExternalAgentsNext /\ UNCHANGED <<walletsVars, specialistsVars>>
  \/ WalletsNext /\ UNCHANGED <<externalAgentsVars, specialistsVars>>
  \/ SpecialistsNext /\ UNCHANGED <<externalAgentsVars, walletsVars>>

Spec == Init /\ [][Next]_outsidePartiesVars

TypeOK ==
  /\ ExternalAgentsTypeOK
  /\ WalletsTypeOK
  /\ SpecialistsTypeOK
==============================================================================
