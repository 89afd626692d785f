---- MODULE SwarmRouting -----------------------------------------------------
(****************************************************************************)
(* Swarms of agents: their tree and routing, membership, fitness and        *)
(* weights.  These share no state; each has its own section.                *)
(****************************************************************************)
EXTENDS Naturals, FiniteSets, Sequences, SequencesExt

(****************************************************************************)
(* Swarms of agents: the tree of swarms and their members, and the router   *)
(* that finds an agent for a task.  Swarms are numbered in the order of     *)
(* their creation; 0 is no swarm.  What callers do to each other inside an  *)
(* operation is in SwarmMembers.                                            *)
(****************************************************************************)
CONSTANTS MaxSwarms, SwarmAgents

VARIABLES swarmCount, tree, members

swarmVars == <<swarmCount, tree, members>>

SwarmIds == 1..MaxSwarms
Strategies == {"fitness", "hierarchical"}
Gone == [parent |-> 0, alive |-> FALSE, enabled |-> FALSE, strategy |-> "fitness"]

SwarmsInit ==
  /\ swarmCount = 0
  /\ tree = [w \in SwarmIds |-> Gone]
  /\ members = [w \in SwarmIds |-> {}]

Alive == {w \in SwarmIds : tree[w].alive}

\* A parent is named when a swarm is made, and never changed.
CreateSwarm(parent, strategy) ==
  /\ swarmCount < MaxSwarms
  /\ parent \in Alive \cup {0}
  /\ swarmCount' = swarmCount + 1
  /\ tree' = [tree EXCEPT ![swarmCount + 1] =
       [parent |-> parent, alive |-> TRUE, enabled |-> TRUE, strategy |-> strategy]]
  /\ UNCHANGED members

UpdateSwarm(w, enabled, strategy) ==
  /\ w \in Alive
  /\ tree' = [tree EXCEPT ![w].enabled = enabled, ![w].strategy = strategy]
  /\ UNCHANGED <<swarmCount, members>>

\* The members go first; the database frees the children of the row.
DeleteSwarm(w) ==
  /\ w \in Alive
  /\ tree' = [v \in SwarmIds |->
       IF v = w THEN Gone
       ELSE IF tree[v].parent = w THEN [tree[v] EXCEPT !.parent = 0] ELSE tree[v]]
  /\ members' = [members EXCEPT ![w] = {}]
  /\ UNCHANGED swarmCount

AddMember(w, a) ==
  /\ w \in Alive
  /\ members' = [members EXCEPT ![w] = @ \cup {a}]
  /\ UNCHANGED <<swarmCount, tree>>

RemoveMember(w, a) ==
  /\ a \in members[w]
  /\ members' = [members EXCEPT ![w] = @ \ {a}]
  /\ UNCHANGED <<swarmCount, tree>>

SwarmsNext ==
  \/ \E p \in 0..MaxSwarms, s \in Strategies : CreateSwarm(p, s)
  \/ \E w \in SwarmIds :
       \/ \E e \in BOOLEAN, s \in Strategies : UpdateSwarm(w, e, s)
       \/ DeleteSwarm(w)
       \/ \E a \in SwarmAgents : AddMember(w, a) \/ RemoveMember(w, a)

SwarmsTypeOK ==
  /\ swarmCount \in 0..MaxSwarms
  /\ \A w \in SwarmIds :
       tree[w].parent \in 0..(w - 1) /\ tree[w].strategy \in Strategies
  /\ members \in [SwarmIds -> SUBSET SwarmAgents]

----------------------------------------------------------------------------
\* The router.  Which of several agents a strategy prefers is left open; the
\* order in which the swarms below one are tried is not.
ChildSwarms(w) == {v \in Alive : tree[v].parent = w}
First(S) == CHOOSE v \in S : \A u \in S : v <= u

RouteHierarchical(S, r) ==
  LET able == {v \in S : tree[v].enabled /\ r[v] # {}} IN
    IF able = {} THEN {} ELSE r[First(able)]

RouteByFitness(w) == members[w]

RouteTask ==
  LET r[w \in SwarmIds] ==
        IF w \notin Alive \/ ~tree[w].enabled THEN {}
        ELSE IF tree[w].strategy = "hierarchical" /\ ChildSwarms(w) # {}
               THEN RouteHierarchical(ChildSwarms(w), r)
               ELSE RouteByFitness(w)
  IN r

\* The swarms from which a task comes down to w, w itself first.
Above ==
  LET up[w \in SwarmIds] ==
        {w} \cup (IF /\ tree[w].parent # 0
                     /\ tree[tree[w].parent].enabled
                     /\ tree[tree[w].parent].strategy = "hierarchical"
                    THEN up[tree[w].parent] ELSE {})
  IN up
Hands(w) ==
  /\ w \in Alive /\ tree[w].enabled
  /\ tree[w].strategy = "hierarchical" => ChildSwarms(w) = {}

\* A task is refused only when no enabled team below the swarm has a member,
\* and otherwise goes to a member of one: a disabled or empty swarm on the way
\* hides its own branch and no other.
RefusedOnlyWhenEmpty ==
  LET r == RouteTask
      up == Above IN
    \A w \in Alive :
      LET teams == {v \in Alive : w \in up[v] /\ Hands(v) /\ members[v] # {}} IN
        tree[w].enabled =>
          /\ (r[w] = {}) = (teams = {})
          /\ teams # {} => \E v \in teams : r[w] = members[v]

(****************************************************************************)
(* Several callers on one swarm: members are counted before they are        *)
(* inserted, and an update of the settings writes back the whole row it     *)
(* read.                                                                    *)
(****************************************************************************)
CONSTANTS Joining, SwarmSizes, SwarmCallers

VARIABLES settings, joined, swarmCall, roomiest, asked, crossed

memberVars == <<settings, joined, swarmCall, roomiest, asked, crossed>>

Settings == [alive : BOOLEAN, enabled : BOOLEAN, max : SwarmSizes]
IdleCaller == [step |-> "idle"]
Least == CHOOSE n \in SwarmSizes : \A k \in SwarmSizes : n <= k
Larger(m, n) == IF m > n THEN m ELSE n

SwarmMembersInit ==
  /\ settings = [alive |-> TRUE, enabled |-> TRUE, max |-> Least]
  /\ joined = {}
  /\ swarmCall = [c \in SwarmCallers |-> IdleCaller]
  /\ roomiest = Least
  /\ asked = TRUE
  /\ crossed = FALSE

Begins(c, call) ==
  /\ swarmCall[c] = IdleCaller
  /\ settings.alive
  /\ swarmCall' = [swarmCall EXCEPT ![c] = call]
Ends(c) == swarmCall' = [swarmCall EXCEPT ![c] = IdleCaller]
Updating(c) == swarmCall[c].step \in {"resizing", "switching"}

\* The request names one setting; the others are those of the row read here.
ReadForUpdate(c, step, row) ==
  /\ Begins(c, [step |-> step, row |-> row])
  /\ crossed' = (crossed \/ \E d \in SwarmCallers : Updating(d))
  /\ UNCHANGED <<settings, joined, roomiest, asked>>

Resize(c, n) == ReadForUpdate(c, "resizing", [settings EXCEPT !.max = n])

Switch(c, on) == ReadForUpdate(c, "switching", [settings EXCEPT !.enabled = on])

UpdateSettings(c) ==
  /\ Updating(c)
  /\ IF settings.alive
       THEN /\ settings' = swarmCall[c].row
            /\ roomiest' = Larger(roomiest, swarmCall[c].row.max)
            /\ asked' = IF swarmCall[c].step = "switching" THEN swarmCall[c].row.enabled ELSE asked
       ELSE UNCHANGED <<settings, roomiest, asked>>
  /\ Ends(c)
  /\ UNCHANGED <<joined, crossed>>

CountMembers(c, a) ==
  /\ Cardinality(joined) < settings.max
  /\ Begins(c, [step |-> "adding", agent |-> a])
  /\ UNCHANGED <<settings, joined, roomiest, asked, crossed>>

\* The insert fails for a swarm that is gone and for an agent that is in.
InsertMember(c) ==
  /\ swarmCall[c].step = "adding"
  /\ joined' = IF settings.alive THEN joined \cup {swarmCall[c].agent} ELSE joined
  /\ Ends(c)
  /\ UNCHANGED <<settings, roomiest, asked, crossed>>

DeleteMember(a) ==
  /\ a \in joined
  /\ joined' = joined \ {a}
  /\ UNCHANGED <<settings, swarmCall, roomiest, asked, crossed>>

DeleteMembers(c) ==
  /\ Begins(c, [step |-> "deleting"])
  /\ joined' = {}
  /\ UNCHANGED <<settings, roomiest, asked, crossed>>

\* Members that came in between go with the row.
DeleteMemberSwarm(c) ==
  /\ swarmCall[c].step = "deleting"
  /\ settings' = [settings EXCEPT !.alive = FALSE]
  /\ joined' = {}
  /\ Ends(c)
  /\ UNCHANGED <<roomiest, asked, crossed>>

SwarmMembersNext ==
  \/ \E c \in SwarmCallers :
       \/ \E n \in SwarmSizes : Resize(c, n)
       \/ \E on \in BOOLEAN : Switch(c, on)
       \/ \E a \in Joining : CountMembers(c, a)
       \/ UpdateSettings(c) \/ InsertMember(c) \/ DeleteMembers(c) \/ DeleteMemberSwarm(c)
  \/ \E a \in Joining : DeleteMember(a)

SwarmMembersTypeOK ==
  /\ settings \in Settings
  /\ joined \subseteq Joining
  /\ roomiest \in SwarmSizes /\ asked \in BOOLEAN /\ crossed \in BOOLEAN
  /\ \A c \in SwarmCallers :
       swarmCall[c].step \in {"idle", "resizing", "switching", "adding", "deleting"}

----------------------------------------------------------------------------
\* A swarm passes the largest size it was ever given by no more than the other
\* callers that add members at the same time.
MembersWithin ==
  Cardinality(joined) <= roomiest + Cardinality(SwarmCallers) - 1

\* A swarm is routed to or left out as the last switch said, unless two updates
\* crossed: then one writes back what it read before the other.
LastSwitchStands ==
  crossed \/ ~settings.alive \/ settings.enabled = asked

(****************************************************************************)
(* Scorecards of the agents of one swarm.  A collection computes, for one   *)
(* agent after the other, an internal metric and one that is pushed by a    *)
(* webhook, keeps both on the rows of their functions, and reads them back  *)
(* from there for the card.  The rows are shared by all the agents and all  *)
(* the collections.  A value is named by what it is a value of: the agent   *)
(* of an internal metric, the number of a report.                           *)
(****************************************************************************)
CONSTANTS Scored, Collections, MaxCollections, MaxReports, Nobody

VARIABLES internalLast, hookLast, reports, raced, collection, collections, cards, score

fitnessVars == <<internalLast, hookLast, reports, raced, collection, collections, cards, score>>

Phases == {"idle", "next", "internal", "hook", "card", "score"}
Idle == [phase |-> "idle", left |-> {}, agent |-> Nobody, hook |-> 0, computed |-> FALSE,
         alone |-> TRUE]
NoCard == [internal |-> Nobody, hook |-> 0, sound |-> TRUE]

FitnessInit ==
  /\ internalLast = Nobody
  /\ hookLast = 0
  /\ reports = 0
  /\ raced = FALSE
  /\ collection = [c \in Collections |-> Idle]
  /\ collections = 0
  /\ cards = [a \in Scored |-> NoCard]
  /\ score = [a \in Scored |-> Nobody]

Underway == {c \in Collections : collection[c].phase # "idle"}
HoldsHook == {c \in Collections : collection[c].phase \in {"internal", "hook"}}
Goes(c, phase) == collection' = [collection EXCEPT ![c].phase = phase]

\* The loop, a tool and a route all collect; none waits for another.
CollectScorecards(c) ==
  /\ collection[c].phase = "idle"
  /\ collections < MaxCollections
  /\ collections' = collections + 1
  /\ collection' = [d \in Collections |->
       IF d = c THEN [Idle EXCEPT !.phase = "next", !.left = Scored,
                                  !.hook = hookLast, !.alone = Underway = {}]
       ELSE [collection[d] EXCEPT !.alone = FALSE]]
  /\ UNCHANGED <<internalLast, hookLast, reports, raced, cards, score>>

\* The functions are listed, with their last values, for every agent anew.
ListFunctions(c, a) ==
  /\ collection[c].phase = "next"
  /\ a \in collection[c].left
  /\ collection' = [collection EXCEPT ![c].phase = "internal", ![c].agent = a,
       ![c].left = @ \ {a}, ![c].computed = FALSE, ![c].hook = hookLast]
  /\ UNCHANGED <<internalLast, hookLast, reports, raced, collections, cards, score>>

ComputeInternal(c) ==
  /\ collection[c].phase = "internal"
  /\ internalLast' = collection[c].agent
  /\ collection' = [collection EXCEPT ![c].phase = "hook", ![c].computed = TRUE]
  /\ UNCHANGED <<hookLast, reports, raced, collections, cards, score>>

\* A metric that fails is left out of the score; its last value stays.
MetricFails(c) ==
  /\ collection[c].phase = "internal"
  /\ Goes(c, "hook")
  /\ UNCHANGED <<internalLast, hookLast, reports, raced, collections, cards, score>>

\* The pushed value was read with the list, and is written back.
KeepHook(c) ==
  /\ collection[c].phase = "hook"
  /\ hookLast' = collection[c].hook
  /\ Goes(c, "card")
  /\ UNCHANGED <<internalLast, reports, raced, collections, cards, score>>

\* The breakdown is read back from the rows.
InsertScorecard(c) ==
  /\ collection[c].phase = "card"
  /\ cards' = [cards EXCEPT ![collection[c].agent] =
       [internal |-> internalLast, hook |-> hookLast,
        sound |-> collection[c].computed /\ collection[c].alone]]
  /\ Goes(c, "score")
  /\ UNCHANGED <<internalLast, hookLast, reports, raced, collections, score>>

After(c) == IF collection[c].left = {} THEN "idle" ELSE "next"

\* The member's score was made of the values themselves, not of the rows.
UpdateMember(c) ==
  /\ collection[c].phase = "score"
  /\ score' = [score EXCEPT ![collection[c].agent] =
       IF collection[c].computed THEN collection[c].agent ELSE Nobody]
  /\ Goes(c, After(c))
  /\ UNCHANGED <<internalLast, hookLast, reports, raced, collections, cards>>

\* Its failure is not noticed.
UpdateMemberFails(c) ==
  /\ collection[c].phase = "score"
  /\ Goes(c, After(c))
  /\ UNCHANGED <<internalLast, hookLast, reports, raced, collections, cards, score>>

CollectionFails(c) ==
  /\ collection[c].phase \in {"next", "card"}
  /\ collection' = [collection EXCEPT ![c] = Idle]
  /\ UNCHANGED <<internalLast, hookLast, reports, raced, collections, cards, score>>

RecordWebhook ==
  /\ reports < MaxReports
  /\ reports' = reports + 1
  /\ hookLast' = reports + 1
  /\ raced' = (raced \/ HoldsHook # {})
  /\ UNCHANGED <<internalLast, collection, collections, cards, score>>

FitnessNext ==
  \/ RecordWebhook
  \/ \E c \in Collections :
       \/ CollectScorecards(c) \/ ComputeInternal(c) \/ MetricFails(c) \/ KeepHook(c)
       \/ InsertScorecard(c) \/ UpdateMember(c) \/ UpdateMemberFails(c) \/ CollectionFails(c)
       \/ \E a \in Scored : ListFunctions(c, a)

Cards == [internal : Scored \cup {Nobody}, hook : 0..MaxReports, sound : BOOLEAN]

FitnessTypeOK ==
  /\ internalLast \in Scored \cup {Nobody}
  /\ hookLast \in 0..MaxReports /\ reports \in 0..MaxReports /\ raced \in BOOLEAN
  /\ collections \in 0..MaxCollections
  /\ \A c \in Collections :
       collection[c].phase \in Phases /\ collection[c].left \subseteq Scored
  /\ cards \in [Scored -> Cards] /\ score \in [Scored -> Scored \cup {Nobody}]

----------------------------------------------------------------------------
\* The breakdown of a card is about the card's own agent, unless its metric
\* failed or another collection ran at the same time.
BreakdownIsOwn ==
  \A a \in Scored :
    cards[a].sound /\ cards[a] # NoCard => cards[a].internal = a

\* A report is there until the next one, unless it came between the moment a
\* collection had listed the functions and the moment it wrote them back.
ReportsStay == hookLast = reports \/ raced

\* No score is made of another agent's metric, however collections overlap.
ScoresAreOwn == \A a \in Scored : score[a] \in {a, Nobody}

(****************************************************************************)
(* The weights of the members of one swarm, raised and lowered by the       *)
(* Darwinian loop: the members are read, ranked by fitness, and the weights *)
(* of the first and the last quarter are written one by one while others    *)
(* add and remove members.  Weights are in hundredths, rounded.             *)
(****************************************************************************)
CONSTANTS Weighed, Weights, Fitnesses, MaxRounds

VARIABLES weighed, weightOf, fitnessOf, rounds, plan, rank

weightVars == <<weighed, weightOf, fitnessOf, rounds, plan, rank>>

MaxWeight == 250
MinWeight == 30

\* A plan lists the updates that are left; ranked is the order it was made from.
SwarmWeightsInit ==
  /\ weighed = {}
  /\ weightOf = [a \in Weighed |-> 100]
  /\ fitnessOf = [a \in Weighed |-> 0]
  /\ rounds = 0
  /\ plan = <<>>
  /\ rank = <<>>

WeighMember(a, w) ==
  /\ a \notin weighed
  /\ weighed' = weighed \cup {a}
  /\ weightOf' = [weightOf EXCEPT ![a] = w]
  /\ fitnessOf' = [fitnessOf EXCEPT ![a] = 0]
  /\ UNCHANGED <<rounds, plan, rank>>

DropMember(a) ==
  /\ a \in weighed
  /\ weighed' = weighed \ {a}
  /\ weightOf' = [weightOf EXCEPT ![a] = 100]
  /\ fitnessOf' = [fitnessOf EXCEPT ![a] = 0]
  /\ UNCHANGED <<rounds, plan, rank>>

Score(a, f) ==
  /\ a \in weighed
  /\ f # fitnessOf[a]
  /\ fitnessOf' = [fitnessOf EXCEPT ![a] = f]
  /\ UNCHANGED <<weighed, weightOf, rounds, plan, rank>>

LeastWeight(m, n) == IF m < n THEN m ELSE n
Most(m, n) == IF m > n THEN m ELSE n
Boosted(w) == LeastWeight((w * 105) \div 100, MaxWeight)
Penalised(w) == Most((w * 95) \div 100, MinWeight)

\* Members of equal fitness come in any order.
Rankings == {s \in SetToSeqs(weighed) :
               \A i, j \in DOMAIN s : i < j => fitnessOf[s[i]] >= fitnessOf[s[j]]}

AdjustWeights(s) ==
  LET q == Len(s) \div 4 IN
    [i \in DOMAIN s |->
      [who |-> s[i],
       weight |-> IF i <= q THEN Boosted(weightOf[s[i]])
                  ELSE IF i > Len(s) - q THEN Penalised(weightOf[s[i]])
                  ELSE weightOf[s[i]]]]

\* Only weights that changed are written.
Changed(updates) ==
  FoldLeft(LAMBDA kept, u : IF u.weight # weightOf[u.who] THEN Append(kept, u) ELSE kept,
           <<>>, updates)

ReadMembers ==
  /\ plan = <<>>
  /\ rounds < MaxRounds
  /\ Cardinality(weighed) >= 4
  /\ \E s \in Rankings :
       /\ plan' = Changed(AdjustWeights(s))
       /\ rank' = IF plan' = <<>> THEN <<>> ELSE [i \in DOMAIN s |->
                     [who |-> s[i], fitness |-> fitnessOf[s[i]], weight |-> weightOf[s[i]]]]
  /\ rounds' = rounds + 1
  /\ UNCHANGED <<weighed, weightOf, fitnessOf>>

\* A member that left since is not there to be updated.
WriteWeight ==
  /\ plan # <<>>
  /\ plan' = Tail(plan)
  /\ weightOf' = IF Head(plan).who \in weighed
                   THEN [weightOf EXCEPT ![Head(plan).who] = Head(plan).weight] ELSE weightOf
  /\ rank' = IF Len(plan) = 1 THEN <<>> ELSE rank
  /\ UNCHANGED <<weighed, fitnessOf, rounds>>

\* One failed update ends the round for the swarm.
WriteFails ==
  /\ plan # <<>>
  /\ plan' = <<>>
  /\ rank' = <<>>
  /\ UNCHANGED <<weighed, weightOf, fitnessOf, rounds>>

SwarmWeightsNext ==
  \/ \E a \in Weighed :
       \/ DropMember(a)
       \/ \E w \in Weights : WeighMember(a, w)
       \/ \E f \in Fitnesses : Score(a, f)
  \/ ReadMembers \/ WriteWeight \/ WriteFails

SwarmWeightsTypeOK ==
  /\ weighed \subseteq Weighed
  /\ \A a \in Weighed : weightOf[a] \in Nat /\ fitnessOf[a] \in Fitnesses
  /\ rounds \in 0..MaxRounds
  /\ \A i \in DOMAIN plan : plan[i].who \in Weighed

----------------------------------------------------------------------------
Before(u) == LET i == CHOOSE k \in DOMAIN rank : rank[k].who = u.who IN rank[i]
Within(w) == w \in MinWeight..MaxWeight

\* A weight beyond a bound, set by hand, is pulled back whichever way.
Rises(u) == Within(Before(u).weight) /\ u.weight > Before(u).weight
Falls(u) == Within(Before(u).weight) /\ u.weight < Before(u).weight

\* A round rewards nobody whose fitness is below that of one it punishes: of
\* two updates one of which raises and one lowers a weight, the raised member
\* was at least as fit.
FitterNeverLoses ==
  \A i, j \in DOMAIN plan :
    Rises(plan[i]) /\ Falls(plan[j]) => Before(plan[i]).fitness >= Before(plan[j]).fitness

\* At most a quarter of the members rises and at most a quarter falls.
QuartersOnly ==
  /\ 4 * Cardinality({i \in DOMAIN plan : Rises(plan[i])}) <= Len(rank)
  /\ 4 * Cardinality({i \in DOMAIN plan : Falls(plan[i])}) <= Len(rank)

(****************************************************************************)
(* All of it.                                                               *)
(****************************************************************************)
swarmRoutingVars == <<swarmVars, memberVars, fitnessVars, weightVars>>

Init ==
  /\ SwarmsInit
  /\ SwarmMembersInit
  /\ FitnessInit
  /\ SwarmWeightsInit

Next ==
  \/ SwarmsNext /\ UNCHANGED <<memberVars, fitnessVars, weightVars>>
  \/ SwarmMembersNext /\ UNCHANGED <<swarmVars, fitnessVars, weightVars>>
  \/ FitnessNext /\ UNCHANGED <<swarmVars, memberVars, weightVars>>
  \/ SwarmWeightsNext /\ UNCHANGED <<swarmVars, memberVars, fitnessVars>>

Spec == Init /\ [][Next]_swarmRoutingVars

TypeOK ==
  /\ SwarmsTypeOK
  /\ SwarmMembersTypeOK
  /\ FitnessTypeOK
  /\ SwarmWeightsTypeOK
==============================================================================
