------------------------------ MODULE AgentsProofs ---------------------------
(****************************************************************************)
(* Swarms of agents: fitness and weights, and the router that finds one of  *)
(* them for a task.  Then the stream of an answer, and with it what is      *)
(* proved of chats.                                                         *)
(****************************************************************************)
EXTENDS OrdersProofs

(****************************************************************************)
(* Scorecards.                                                              *)
(****************************************************************************)
CollectionRun ==
  [phase : SwarmRouting!Phases, left : SUBSET Scored, agent : Scored \cup {Nobody},
   hook : 0 .. MaxReports, computed : BOOLEAN, alone : BOOLEAN]

FitnessInv ==
  /\ SwarmRouting!FitnessTypeOK
  /\ collection \in [Collections -> CollectionRun]
  /\ \A c \in Collections :
       /\ collection[c].phase \notin {"idle", "next"} => collection[c].agent \in Scored
       /\ collection[c].phase = "internal" => ~collection[c].computed
       /\ collection[c].phase # "idle" /\ collection[c].alone =>
            \A d \in Collections : d # c => collection[d].phase = "idle"
       /\ collection[c].phase \in {"hook", "card"} /\ collection[c].computed /\ collection[c].alone =>
            internalLast = collection[c].agent
  /\ ~raced =>
       /\ hookLast = reports
       /\ \A c \in Collections :
            collection[c].phase \in {"internal", "hook"} => collection[c].hook = reports
  /\ SwarmRouting!BreakdownIsOwn /\ SwarmRouting!ScoresAreOwn

\* A collection that becomes what fits, while nothing else of it moves.
LEMMA CollectionGoes ==
  ASSUME FitnessInv, NEW c \in Collections, NEW new \in CollectionRun,
         collection[c].phase # "idle",
         collection' = [collection EXCEPT ![c] = new],
         new.phase \notin {"idle", "next"} => new.agent \in Scored,
         new.phase = "internal" => ~new.computed,
         new.phase # "idle" /\ new.alone => collection[c].alone,
         new.phase \in {"hook", "card"} /\ new.computed /\ new.alone => internalLast' = new.agent,
         internalLast' # internalLast => collection[c].phase # "idle",
         ~raced /\ new.phase \in {"internal", "hook"} => new.hook = reports
  PROVE  /\ collection' \in [Collections -> CollectionRun]
         /\ \A d \in Collections :
              collection'[d].phase \in SwarmRouting!Phases /\ collection'[d].left \subseteq Scored
         /\ \A d \in Collections :
              /\ collection'[d].phase \notin {"idle", "next"} => collection'[d].agent \in Scored
              /\ collection'[d].phase = "internal" => ~collection'[d].computed
              /\ collection'[d].phase # "idle" /\ collection'[d].alone =>
                   \A e \in Collections : e # d => collection'[e].phase = "idle"
              /\ collection'[d].phase \in {"hook", "card"} /\ collection'[d].computed
                 /\ collection'[d].alone => internalLast' = collection'[d].agent
         /\ ~raced => \A d \in Collections :
              collection'[d].phase \in {"internal", "hook"} => collection'[d].hook = reports
<1>1. /\ collection' \in [Collections -> CollectionRun] /\ collection'[c] = new
      /\ \A d \in Collections \ {c} : collection'[d] = collection[d]
  BY DEF FitnessInv
<1>2. \A d \in Collections : collection'[d] \in CollectionRun
  BY <1>1
<1>3. \A d \in Collections \ {c} : collection[d].phase # "idle" => ~collection[d].alone
  BY DEF FitnessInv
<1>4. \A d \in Collections :
        collection'[d].phase # "idle" /\ collection'[d].alone =>
          \A e \in Collections : e # d => collection'[e].phase = "idle"
  BY <1>1, <1>3 DEF FitnessInv
<1>5. \A d \in Collections :
        collection'[d].phase \in {"hook", "card"} /\ collection'[d].computed
        /\ collection'[d].alone => internalLast' = collection'[d].agent
  BY <1>1, <1>3 DEF FitnessInv
<1>. QED
  BY <1>1, <1>2, <1>4, <1>5 DEF FitnessInv, CollectionRun

\* A step of this part, or of another, keeps FitnessInv.
LEMMA FitnessStep ==
  ASSUME FitnessInv, [SwarmRouting!FitnessNext]_fitnessVars
  PROVE  FitnessInv'
<1>0. MaxReports \in Nat /\ MaxCollections \in Nat
  BY ConstantsOfPolicy
<1>a. \A c \in Collections : collection[c] \in CollectionRun
  BY DEF FitnessInv
<1>1. CASE SwarmRouting!RecordWebhook
  <2>1. /\ reports' = reports + 1 /\ hookLast' = reports + 1 /\ reports' \in 0 .. MaxReports
        /\ UNCHANGED <<internalLast, collection, collections, cards, score>>
    BY <1>0, <1>1 DEF SwarmRouting!RecordWebhook, FitnessInv, SwarmRouting!FitnessTypeOK
  <2>2. raced' \in BOOLEAN /\ (~raced' => SwarmRouting!HoldsHook = {})
    <3>1. raced' = (raced \/ SwarmRouting!HoldsHook # {}) /\ raced \in BOOLEAN
      BY <1>1 DEF SwarmRouting!RecordWebhook, FitnessInv, SwarmRouting!FitnessTypeOK
    <3>. QED
      BY <3>1
  <2>3. ~raced' => \A c \in Collections : collection[c].phase \notin {"internal", "hook"}
    BY <2>2 DEF SwarmRouting!HoldsHook
  <2>. QED
    BY <2>1, <2>2, <2>3 DEF FitnessInv, SwarmRouting!FitnessTypeOK, SwarmRouting!BreakdownIsOwn,
       SwarmRouting!ScoresAreOwn
<1>2. ASSUME NEW c \in Collections, SwarmRouting!CollectScorecards(c)
      PROVE  FitnessInv'
  <2>. DEFINE mine == [SwarmRouting!Idle EXCEPT !.phase = "next", !.left = Scored, !.hook = hookLast,
                                                !.alone = SwarmRouting!Underway = {}]
  <2>1. /\ collection[c].phase = "idle" /\ collections' = collections + 1
        /\ collections' \in 0 .. MaxCollections
        /\ UNCHANGED <<internalLast, hookLast, reports, raced, cards, score>>
        /\ collection' = [d \in Collections |->
             IF d = c THEN mine ELSE [collection[d] EXCEPT !.alone = FALSE]]
    <3>1. collections \in 0 .. MaxCollections
      BY DEF FitnessInv, SwarmRouting!FitnessTypeOK
    <3>3. collections < MaxCollections /\ collections' = collections + 1
      BY <1>2, Zenon DEF SwarmRouting!CollectScorecards
    <3>2. collections' \in 0 .. MaxCollections
      BY <1>0, <3>1, <3>3
    <3>. QED
      BY <1>2, <3>2 DEF SwarmRouting!CollectScorecards
  <2>2. /\ mine \in CollectionRun /\ mine.phase = "next"
        /\ mine.alone => \A d \in Collections : collection[d].phase = "idle"
    <3>1. (SwarmRouting!Underway = {}) \in BOOLEAN /\ hookLast \in 0 .. MaxReports
      BY DEF FitnessInv, SwarmRouting!FitnessTypeOK
    <3>2. 0 \in 0 .. MaxReports
      BY <1>0
    <3>3. mine \in CollectionRun /\ mine.phase = "next" /\ mine.alone = (SwarmRouting!Underway = {})
      BY <3>1, <3>2 DEF CollectionRun, SwarmRouting!Idle, SwarmRouting!Phases
    <3>. QED
      BY <3>3 DEF SwarmRouting!Underway
  <2>. HIDE DEF mine
  <2>3. \A r \in CollectionRun :
          /\ [r EXCEPT !.alone = FALSE] \in CollectionRun
          /\ [r EXCEPT !.alone = FALSE].phase = r.phase /\ [r EXCEPT !.alone = FALSE].alone = FALSE
          /\ [r EXCEPT !.alone = FALSE].agent = r.agent /\ [r EXCEPT !.alone = FALSE].hook = r.hook
          /\ [r EXCEPT !.alone = FALSE].computed = r.computed
    BY DEF CollectionRun
  <2>4. /\ collection'[c] = mine /\ collection' \in [Collections -> CollectionRun]
        /\ \A d \in Collections \ {c} :
             /\ collection'[d].phase = collection[d].phase /\ ~collection'[d].alone
             /\ collection'[d].agent = collection[d].agent /\ collection'[d].hook = collection[d].hook
             /\ collection'[d].computed = collection[d].computed
    BY <1>a, <2>1, <2>2, <2>3
  <2>5. \A d \in Collections : collection'[d] \in CollectionRun
    BY <2>4
  <2>6. \A d \in Collections :
          collection'[d].phase \in SwarmRouting!Phases /\ collection'[d].left \subseteq Scored
    BY <2>5 DEF CollectionRun
  <2>7. \A d \in Collections :
          /\ collection'[d].phase \notin {"idle", "next"} => collection'[d].agent \in Scored
          /\ collection'[d].phase = "internal" => ~collection'[d].computed
          /\ collection'[d].phase # "idle" /\ collection'[d].alone =>
               \A e \in Collections : e # d => collection'[e].phase = "idle"
          /\ collection'[d].phase \in {"hook", "card"} => ~collection'[d].alone
    BY <2>2, <2>4 DEF FitnessInv
  <2>8. ~raced => \A d \in Collections :
          collection'[d].phase \in {"internal", "hook"} => collection'[d].hook = reports
    BY <2>2, <2>4 DEF FitnessInv
  <2>. QED
    BY <2>1, <2>4, <2>6, <2>7, <2>8 DEF FitnessInv, SwarmRouting!FitnessTypeOK,
       SwarmRouting!BreakdownIsOwn, SwarmRouting!ScoresAreOwn
\* The other steps are of one collection.
<1>3. ASSUME NEW c \in Collections, collection[c].phase # "idle", NEW new \in CollectionRun,
             collection' = [collection EXCEPT ![c] = new],
             new.phase \notin {"idle", "next"} => new.agent \in Scored,
             new.phase = "internal" => ~new.computed,
         new.phase = "internal" => ~new.computed,
             new.phase # "idle" /\ new.alone => collection[c].alone,
             new.phase \in {"hook", "card"} /\ new.computed /\ new.alone => internalLast' = new.agent,
             ~raced /\ new.phase \in {"internal", "hook"} => new.hook = reports,
             internalLast' \in Scored \cup {Nobody}, hookLast' \in 0 .. MaxReports,
             ~raced => hookLast' = reports, cards' \in [Scored -> SwarmRouting!Cards],
             score' \in [Scored -> Scored \cup {Nobody}],
             SwarmRouting!BreakdownIsOwn', SwarmRouting!ScoresAreOwn',
             UNCHANGED <<reports, raced, collections>>
      PROVE  FitnessInv'
  <2>1. /\ collection' \in [Collections -> CollectionRun]
        /\ \A d \in Collections :
             collection'[d].phase \in SwarmRouting!Phases /\ collection'[d].left \subseteq Scored
        /\ \A d \in Collections :
             /\ collection'[d].phase \notin {"idle", "next"} => collection'[d].agent \in Scored
             /\ collection'[d].phase = "internal" => ~collection'[d].computed
             /\ collection'[d].phase # "idle" /\ collection'[d].alone =>
                  \A e \in Collections : e # d => collection'[e].phase = "idle"
             /\ collection'[d].phase \in {"hook", "card"} /\ collection'[d].computed
                /\ collection'[d].alone => internalLast' = collection'[d].agent
        /\ ~raced => \A d \in Collections :
             collection'[d].phase \in {"internal", "hook"} => collection'[d].hook = reports
    BY <1>3, CollectionGoes
  <2>2. SwarmRouting!FitnessTypeOK'
    BY <1>3, <2>1 DEF FitnessInv, SwarmRouting!FitnessTypeOK
  <2>. QED
    BY <1>3, <2>1, <2>2 DEF FitnessInv
<1>b. /\ internalLast \in Scored \cup {Nobody} /\ hookLast \in 0 .. MaxReports
      /\ cards \in [Scored -> SwarmRouting!Cards] /\ score \in [Scored -> Scored \cup {Nobody}]
      /\ SwarmRouting!BreakdownIsOwn /\ SwarmRouting!ScoresAreOwn
      /\ ~raced => hookLast = reports
  BY DEF FitnessInv, SwarmRouting!FitnessTypeOK
<1>c. cards' = cards => SwarmRouting!BreakdownIsOwn'
  BY <1>b DEF SwarmRouting!BreakdownIsOwn
<1>d. score' = score => SwarmRouting!ScoresAreOwn'
  BY <1>b DEF SwarmRouting!ScoresAreOwn
<1>4. ASSUME NEW c \in Collections, NEW a \in Scored, SwarmRouting!ListFunctions(c, a)
      PROVE  FitnessInv'
  <2>. DEFINE new == [collection[c] EXCEPT !.phase = "internal", !.agent = a, !.left = @ \ {a},
                                           !.computed = FALSE, !.hook = hookLast]
  <2>1. /\ new \in CollectionRun /\ new.phase = "internal" /\ new.agent = a /\ new.hook = hookLast
        /\ ~new.computed
        /\ new.alone = collection[c].alone
    BY <1>a, <1>b DEF CollectionRun, SwarmRouting!Phases
  <2>2. collection' = [collection EXCEPT ![c] = new]
    BY <1>4 DEF SwarmRouting!ListFunctions, FitnessInv
  <2>3. /\ collection[c].phase = "next"
        /\ UNCHANGED <<internalLast, hookLast, reports, raced, collections, cards, score>>
    BY <1>4 DEF SwarmRouting!ListFunctions
  <2>. HIDE DEF new
  <2>. QED
    BY <1>3, <1>b, <1>c, <1>d, <2>1, <2>2, <2>3
<1>5. ASSUME NEW c \in Collections, SwarmRouting!ComputeInternal(c)
      PROVE  FitnessInv'
  <2>. DEFINE new == [collection[c] EXCEPT !.phase = "hook", !.computed = TRUE]
  <2>1. /\ new \in CollectionRun /\ new.phase = "hook" /\ new.agent = collection[c].agent
        /\ new.hook = collection[c].hook /\ new.alone = collection[c].alone
    BY <1>a DEF CollectionRun, SwarmRouting!Phases
  <2>2. collection' = [collection EXCEPT ![c] = new]
    BY <1>5 DEF SwarmRouting!ComputeInternal, FitnessInv
  <2>3. /\ collection[c].phase = "internal" /\ internalLast' = collection[c].agent
        /\ UNCHANGED <<hookLast, reports, raced, collections, cards, score>>
    BY <1>5 DEF SwarmRouting!ComputeInternal
  <2>4. collection[c].agent \in Scored /\ (~raced => collection[c].hook = reports)
    BY <2>3 DEF FitnessInv
  <2>. HIDE DEF new
  <2>. QED
    BY <1>3, <1>b, <1>c, <1>d, <2>1, <2>2, <2>3, <2>4
<1>6. ASSUME NEW c \in Collections, SwarmRouting!MetricFails(c)
      PROVE  FitnessInv'
  <2>. DEFINE new == [collection[c] EXCEPT !.phase = "hook"]
  <2>1. /\ new \in CollectionRun /\ new.phase = "hook" /\ new.agent = collection[c].agent
        /\ new.hook = collection[c].hook /\ new.alone = collection[c].alone
        /\ new.computed = collection[c].computed
    BY <1>a DEF CollectionRun, SwarmRouting!Phases
  <2>2. collection' = [collection EXCEPT ![c] = new]
    BY <1>6 DEF SwarmRouting!MetricFails, SwarmRouting!Goes, FitnessInv
  <2>3. /\ collection[c].phase = "internal"
        /\ UNCHANGED <<internalLast, hookLast, reports, raced, collections, cards, score>>
    BY <1>6 DEF SwarmRouting!MetricFails
  <2>4. collection[c].agent \in Scored /\ (~raced => collection[c].hook = reports)
        /\ ~collection[c].computed
    BY <2>3 DEF FitnessInv
  <2>. HIDE DEF new
  <2>. QED
    BY <1>3, <1>b, <1>c, <1>d, <2>1, <2>2, <2>3, <2>4
<1>7. ASSUME NEW c \in Collections, SwarmRouting!KeepHook(c)
      PROVE  FitnessInv'
  <2>. DEFINE new == [collection[c] EXCEPT !.phase = "card"]
  <2>1. /\ new \in CollectionRun /\ new.phase = "card" /\ new.agent = collection[c].agent
        /\ new.alone = collection[c].alone /\ new.computed = collection[c].computed
    BY <1>a DEF CollectionRun, SwarmRouting!Phases
  <2>2. collection' = [collection EXCEPT ![c] = new]
    BY <1>7 DEF SwarmRouting!KeepHook, SwarmRouting!Goes, FitnessInv
  <2>3. /\ collection[c].phase = "hook" /\ hookLast' = collection[c].hook
        /\ UNCHANGED <<internalLast, reports, raced, collections, cards, score>>
    BY <1>7 DEF SwarmRouting!KeepHook
  <2>4. /\ collection[c].agent \in Scored /\ (~raced => collection[c].hook = reports)
        /\ collection[c].computed /\ collection[c].alone => internalLast = collection[c].agent
    BY <2>3 DEF FitnessInv
  <2>5. collection[c].hook \in 0 .. MaxReports
    BY <1>a DEF CollectionRun
  <2>. HIDE DEF new
  <2>. QED
    BY <1>3, <1>b, <1>c, <1>d, <2>1, <2>2, <2>3, <2>4, <2>5
<1>8. ASSUME NEW c \in Collections, SwarmRouting!InsertScorecard(c)
      PROVE  FitnessInv'
  <2>. DEFINE new == [collection[c] EXCEPT !.phase = "score"]
              card == [internal |-> internalLast, hook |-> hookLast,
                       sound |-> collection[c].computed /\ collection[c].alone]
  <2>1. /\ new \in CollectionRun /\ new.phase = "score" /\ new.agent = collection[c].agent
        /\ new.alone = collection[c].alone
    BY <1>a DEF CollectionRun, SwarmRouting!Phases
  <2>2. collection' = [collection EXCEPT ![c] = new]
    BY <1>8 DEF SwarmRouting!InsertScorecard, SwarmRouting!Goes, FitnessInv
  <2>3. /\ collection[c].phase = "card" /\ cards' = [cards EXCEPT ![collection[c].agent] = card]
        /\ UNCHANGED <<internalLast, hookLast, reports, raced, collections, score>>
    BY <1>8 DEF SwarmRouting!InsertScorecard
  <2>4. /\ collection[c].agent \in Scored
        /\ collection[c].computed /\ collection[c].alone => internalLast = collection[c].agent
    BY <2>3 DEF FitnessInv
  <2>5. card \in SwarmRouting!Cards /\ (card.sound => card.internal = collection[c].agent)
    <3>1. (collection[c].computed /\ collection[c].alone) \in BOOLEAN
      OBVIOUS
    <3>. QED
      BY <1>b, <2>4, <3>1 DEF SwarmRouting!Cards
  <2>. HIDE DEF new, card
  <2>6. cards' \in [Scored -> SwarmRouting!Cards] /\ SwarmRouting!BreakdownIsOwn'
    BY <1>b, <2>3, <2>4, <2>5 DEF SwarmRouting!BreakdownIsOwn
  <2>. QED
    BY <1>3, <1>b, <1>d, <2>1, <2>2, <2>3, <2>4, <2>6
<1>9. ASSUME NEW c \in Collections,
             SwarmRouting!UpdateMember(c) \/ SwarmRouting!UpdateMemberFails(c)
      PROVE  FitnessInv'
  <2>. DEFINE new == [collection[c] EXCEPT !.phase = SwarmRouting!After(c)]
  <2>1. /\ new \in CollectionRun /\ new.phase \in {"idle", "next"}
        /\ new.alone = collection[c].alone
    <3>1. SwarmRouting!After(c) \in {"idle", "next"}
      BY DEF SwarmRouting!After
    <3>. QED
      BY <1>a, <3>1 DEF CollectionRun, SwarmRouting!Phases
  <2>2. collection' = [collection EXCEPT ![c] = new]
    BY <1>9 DEF SwarmRouting!UpdateMember, SwarmRouting!UpdateMemberFails, SwarmRouting!Goes, FitnessInv
  <2>3. /\ collection[c].phase = "score"
        /\ UNCHANGED <<internalLast, hookLast, reports, raced, collections, cards>>
        /\ score' = score \/ \E v \in {collection[c].agent, Nobody} :
                              score' = [score EXCEPT ![collection[c].agent] = v]
    BY <1>9 DEF SwarmRouting!UpdateMember, SwarmRouting!UpdateMemberFails
  <2>4. collection[c].agent \in Scored
    BY <2>3 DEF FitnessInv
  <2>5. score' \in [Scored -> Scored \cup {Nobody}] /\ SwarmRouting!ScoresAreOwn'
    BY <1>b, <2>3, <2>4 DEF SwarmRouting!ScoresAreOwn
  <2>. HIDE DEF new
  <2>. QED
    BY <1>3, <1>b, <1>c, <2>1, <2>2, <2>3, <2>5
<1>10. ASSUME NEW c \in Collections, SwarmRouting!CollectionFails(c)
       PROVE  FitnessInv'
  <2>1. SwarmRouting!Idle \in CollectionRun /\ SwarmRouting!Idle.phase = "idle"
    <3>1. 0 \in 0 .. MaxReports
      BY <1>0
    <3>. QED
      BY <3>1 DEF SwarmRouting!Idle, CollectionRun, SwarmRouting!Phases
  <2>2. /\ collection[c].phase # "idle" /\ collection' = [collection EXCEPT ![c] = SwarmRouting!Idle]
        /\ UNCHANGED <<internalLast, hookLast, reports, raced, collections, cards, score>>
    BY <1>10 DEF SwarmRouting!CollectionFails
  <2>. QED
    BY <1>3, <1>b, <1>c, <1>d, <2>1, <2>2
<1>11. CASE UNCHANGED fitnessVars
  BY <1>11 DEF fitnessVars, FitnessInv, SwarmRouting!FitnessTypeOK, SwarmRouting!BreakdownIsOwn,
     SwarmRouting!ScoresAreOwn
<1>. QED
  BY <1>1, <1>2, <1>4, <1>5, <1>6, <1>7, <1>8, <1>9, <1>10, <1>11 DEF SwarmRouting!FitnessNext

\* FitnessInv holds in every reachable state.
LEMMA FitnessHolds == Spec => []FitnessInv
<1>1. ASSUME Init PROVE FitnessInv
  <2>0. MaxReports \in Nat /\ MaxCollections \in Nat
    BY ConstantsOfPolicy
  <2>1. SwarmRouting!FitnessInit
    BY <1>1 DEF Init
  <2>2. 0 \in 0 .. MaxReports /\ 0 \in 0 .. MaxCollections
    BY <2>0
  <2>3. SwarmRouting!Idle \in CollectionRun /\ SwarmRouting!Idle.phase = "idle"
        /\ SwarmRouting!Idle.left = {}
    BY <2>2 DEF SwarmRouting!Idle, CollectionRun, SwarmRouting!Phases
  <2>4. SwarmRouting!NoCard \in SwarmRouting!Cards
    BY <2>2 DEF SwarmRouting!NoCard, SwarmRouting!Cards
  <2>5. /\ collection \in [Collections -> CollectionRun]
        /\ \A c \in Collections : collection[c].phase = "idle" /\ collection[c].left = {}
    BY <2>1, <2>3 DEF SwarmRouting!FitnessInit
  <2>6. /\ cards \in [Scored -> SwarmRouting!Cards] /\ \A a \in Scored : cards[a] = SwarmRouting!NoCard
        /\ score \in [Scored -> Scored \cup {Nobody}] /\ \A a \in Scored : score[a] = Nobody
        /\ hookLast = 0 /\ reports = 0 /\ collections = 0 /\ raced = FALSE /\ internalLast = Nobody
    BY <2>1, <2>4 DEF SwarmRouting!FitnessInit
  <2>. QED
    BY <2>2, <2>5, <2>6 DEF FitnessInv, SwarmRouting!FitnessTypeOK, SwarmRouting!BreakdownIsOwn,
       SwarmRouting!ScoresAreOwn, SwarmRouting!Phases
<1>2. FitnessInv /\ [Next]_vars => FitnessInv'
  BY StepOfParts, FitnessStep
<1>. QED
  BY <1>1, <1>2, PTL DEF Spec

(****************************************************************************)
(* Weights of the members of a swarm.                                       *)
(****************************************************************************)
WeightUpdate == [who : Weighed, weight : Nat]
RankedMember == [who : Weighed, fitness : Fitnesses, weight : Nat]

\* The weight a member gets at its place among n.
WeightAt(k, n, weight) ==
  IF k <= n \div 4 THEN SwarmRouting!Boosted(weight)
  ELSE IF k > n - n \div 4 THEN SwarmRouting!Penalised(weight)
  ELSE weight

WeightsTyped ==
  /\ weighed \subseteq Weighed
  /\ weightOf \in [Weighed -> Nat] /\ fitnessOf \in [Weighed -> Fitnesses]
  /\ rounds \in 0 .. MaxRounds
  /\ plan \in Seq(WeightUpdate) /\ rank \in Seq(RankedMember)

\* A plan is of different members, each at its place in the ranking.
PlanInv ==
  /\ \A i, j \in DOMAIN plan : plan[i].who = plan[j].who => i = j
  /\ \A i, j \in DOMAIN rank : rank[i].who = rank[j].who => i = j
  /\ \A i, j \in DOMAIN rank : i < j => rank[i].fitness >= rank[j].fitness
  /\ \A i \in DOMAIN plan : \E k \in DOMAIN rank :
       rank[k].who = plan[i].who /\ plan[i].weight = WeightAt(k, Len(rank), rank[k].weight)

WeightsInv == WeightsTyped /\ PlanInv

\* Boosts and penalties give naturals, and go in their direction.
LEMMA WeightsAreNatural ==
  ASSUME NEW w \in Nat
  PROVE  /\ SwarmRouting!Boosted(w) \in Nat /\ SwarmRouting!Penalised(w) \in Nat
         /\ SwarmRouting!Within(w) => SwarmRouting!Boosted(w) >= w /\ SwarmRouting!Penalised(w) <= w
<1>1. PICK a \in Nat, b \in Nat : a = (w * 105) \div 100 /\ b = (w * 95) \div 100
  <2>1. w * 105 \in Nat /\ w * 95 \in Nat
    OBVIOUS
  <2>. QED
    BY <2>1, Division
<1>2. a >= w /\ b <= w
  <2>1. a * 100 <= w * 105 /\ w * 105 < a * 100 + 100
    BY <1>1, Division
  <2>2. b * 100 <= w * 95
    BY <1>1, Division
  <2>. QED
    BY <2>1, <2>2
<1>3. SwarmRouting!Boosted(w) = IF a < 250 THEN a ELSE 250
  BY <1>1 DEF SwarmRouting!Boosted, SwarmRouting!LeastWeight, SwarmRouting!MaxWeight
<1>4. SwarmRouting!Penalised(w) = IF b > 30 THEN b ELSE 30
  BY <1>1 DEF SwarmRouting!Penalised, SwarmRouting!Most, SwarmRouting!MinWeight
<1>5. SwarmRouting!Within(w) => w >= 30 /\ w <= 250
  BY DEF SwarmRouting!Within, SwarmRouting!MaxWeight, SwarmRouting!MinWeight
<1>. QED
  BY <1>2, <1>3, <1>4, <1>5

\* The new weight of the k-th of n members is a natural.
LEMMA WeightAtIsNatural ==
  ASSUME NEW k, NEW n, NEW w \in Nat PROVE WeightAt(k, n, w) \in Nat
BY WeightsAreNatural DEF WeightAt

\* The updates that are kept are of different members if all were.
LEMMA KeptAreApart ==
  ASSUME NEW n \in Nat, NEW updates \in [1 .. n -> WeightUpdate],
         \A i, j \in 1 .. n : updates[i].who = updates[j].who => i = j
  PROVE  LET kept == SwarmRouting!Changed(updates)
         IN  /\ kept \in Seq(WeightUpdate)
             /\ \A i, j \in DOMAIN kept : kept[i].who = kept[j].who => i = j
             /\ \A i \in DOMAIN kept : \E k \in 1 .. n : kept[i] = updates[k]
<1>. DEFINE D == 1 .. n
            V == Seq(WeightUpdate)
            Step(kept, u) == IF u.weight # weightOf[u.who] THEN Append(kept, u) ELSE kept
            one == [i \in D |-> [v \in V |-> Step(v, updates[i])]]
            IsIt(g) == g = [s \in SUBSET D |->
                             IF s = {} THEN <<>> ELSE Step(g[s \ {Max(s)}], updates[Max(s)])]
            Q(kept, m) == /\ \A i, j \in DOMAIN kept : kept[i].who = kept[j].who => i = j
                          /\ \A i \in DOMAIN kept : \E k \in 1 .. m : k <= n /\ kept[i] = updates[k]
            P == [m \in Nat |-> {kept \in V : Q(kept, m)}]
<1>1. \A i \in D, v \in V : one[i][v] = Step(v, updates[i]) /\ one[i][v] \in V
  <2>1. \A i \in D : updates[i] \in WeightUpdate
    OBVIOUS
  <2>. QED
    BY <2>1
<1>2. StepsWithin(n, V, <<>>, one)
  BY <1>1 DEF StepsWithin
<1>3. PICK g \in [SUBSET D -> V] :
        /\ g[{}] = <<>>
        /\ \A s \in SUBSET D : s # {} =>
             /\ Max(s) \in D /\ g[s \ {Max(s)}] \in V
             /\ g[s] = one[Max(s)][g[s \ {Max(s)}]]
  <2>. HIDE DEF V, one
  <2>. QED
    BY <1>2, LeftFoldExists
<1>4. IsIt(g)
  <2>1. \A s \in SUBSET D : g[s] = IF s = {} THEN <<>> ELSE Step(g[s \ {Max(s)}], updates[Max(s)])
    <3>. HIDE DEF V, one, Step
    <3>. QED
      BY <1>1, <1>3
  <2>2. g = [s \in SUBSET D |-> g[s]]
    OBVIOUS
  <2>. HIDE DEF Step
  <2>. QED
    BY <2>1, <2>2
<1>5. SwarmRouting!Changed(updates) = (CHOOSE h : IsIt(h))[D]
  <2>1. DOMAIN updates = D
    OBVIOUS
  <2>. QED
    BY <2>1 DEF SwarmRouting!Changed, SwarmRouting!FoldLeft, SwarmRouting!MapThenFoldSet,
       SwarmRouting!Max, Max
<1>6. PICK h : IsIt(h) /\ SwarmRouting!Changed(updates) = h[D]
  <2>. HIDE DEF IsIt
  <2>. QED
    BY <1>4, <1>5
<1>7. IsLeft(n, V, <<>>, one, h)
  <2>1. h[{}] = <<>> /\ \A s \in SUBSET D : s # {} => h[s] = Step(h[s \ {Max(s)}], updates[Max(s)])
    <3>. HIDE DEF Step
    <3>. QED
      BY <1>6
  <2>2. ASSUME NEW s \in SUBSET D, s # {}, h[s \ {Max(s)}] \in V
        PROVE  h[s] = one[Max(s)][h[s \ {Max(s)}]]
    <3>1. Max(s) \in D
      BY <2>2, LastPlace
    <3>. HIDE DEF V, one, Step, IsIt, P, D
    <3>. QED
      BY <1>1, <2>1, <2>2, <3>1
  <2>. HIDE DEF V, one, Step, IsIt, P
  <2>. QED
    BY <2>1, <2>2 DEF IsLeft
<1>8. <<>> \in P[0]
  OBVIOUS
<1>9. ASSUME NEW i \in D, NEW v \in V, v \in P[i - 1]
      PROVE  one[i][v] \in P[i]
  <2>1. /\ \A j, k \in DOMAIN v : v[j].who = v[k].who => j = k
        /\ \A j \in DOMAIN v : \E k \in 1 .. (i - 1) : k <= n /\ v[j] = updates[k]
    BY <1>9
  <2>2. PICK w \in V : w = one[i][v] /\ (w = v \/ w = Append(v, updates[i]))
    BY <1>1
  <2>3. ASSUME w = v PROVE Q(w, i)
    BY <2>1, <2>3
  <2>4. ASSUME w = Append(v, updates[i]) PROVE Q(w, i)
    <3>1. /\ Len(v) \in Nat /\ DOMAIN v = 1 .. Len(v) /\ DOMAIN w = 1 .. (Len(v) + 1)
          /\ w[Len(v) + 1] = updates[i] /\ \A j \in DOMAIN v : w[j] = v[j]
      BY <2>4
    <3>2. \A j \in DOMAIN v : v[j].who # updates[i].who
      BY <2>1
    <3>3. \A j, k \in DOMAIN w : w[j].who = w[k].who => j = k
      BY <2>1, <3>1, <3>2
    <3>4. \A j \in DOMAIN w : \E k \in 1 .. i : k <= n /\ w[j] = updates[k]
      BY <2>1, <3>1
    <3>. QED
      BY <3>3, <3>4
  <2>5. Q(w, i)
    BY <2>2, <2>3, <2>4
  <2>6. i \in Nat
    OBVIOUS
  <2>. HIDE DEF V, Q, one
  <2>. QED
    BY <2>2, <2>5, <2>6
<1>10. h[1 .. n] \in V /\ h[1 .. n] \in P[n]
  <2>. HIDE DEF V, one, IsIt, P
  <2>. QED
    BY <1>2, <1>7, <1>8, <1>9, LeftFoldGoes
<1>11. PICK kept \in V : kept = h[D] /\ kept = SwarmRouting!Changed(updates) /\ kept \in P[n]
  <2>. HIDE DEF V, IsIt, P
  <2>. QED
    BY <1>6, <1>10
<1>. QED
  BY <1>11

\* A ranking is an order of the members, the fittest first.
LEMMA RankingsAre ==
  ASSUME WeightsTyped, NEW s \in SwarmRouting!Rankings
  PROVE  \E n \in Nat :
           /\ s \in [1 .. n -> weighed] /\ Len(s) = n /\ s \in Seq(weighed)
           /\ \A i, j \in 1 .. n : s[i] = s[j] => i = j
           /\ \A i, j \in 1 .. n : i < j => fitnessOf[s[i]] >= fitnessOf[s[j]]
<1>1. IsFiniteSet(Weighed)
  BY ConstantsOfPolicy
<1>2. IsFiniteSet(weighed)
  BY <1>1, FS_Subset DEF WeightsTyped
<1>3. PICK n \in Nat : n = Cardinality(weighed)
  BY <1>2, FS_CardinalityType
<1>4. /\ s \in [1 .. n -> weighed]
      /\ \A i, j \in 1 .. n : i # j => s[i] # s[j]
      /\ \A i, j \in DOMAIN s : i < j => fitnessOf[s[i]] >= fitnessOf[s[j]]
  BY <1>3 DEF SwarmRouting!Rankings, SwarmRouting!SetToSeqs, SwarmRouting!Cardinality, Cardinality
<1>5. s \in Seq(weighed) /\ Len(s) = n
  BY <1>4
<1>. QED
  BY <1>4, <1>5

\* ReadMembers: WeightsInv is kept.
LEMMA ReadMembersPlans ==
  ASSUME WeightsInv, SwarmRouting!ReadMembers PROVE WeightsInv'
<1>1. PICK s \in SwarmRouting!Rankings :
        /\ plan' = SwarmRouting!Changed(SwarmRouting!AdjustWeights(s))
        /\ rank' = IF plan' = <<>> THEN <<>> ELSE [i \in DOMAIN s |->
              [who |-> s[i], fitness |-> fitnessOf[s[i]], weight |-> weightOf[s[i]]]]
  BY DEF SwarmRouting!ReadMembers
<1>2. PICK n \in Nat :
        /\ s \in [1 .. n -> weighed] /\ Len(s) = n /\ s \in Seq(weighed)
        /\ \A i, j \in 1 .. n : s[i] = s[j] => i = j
        /\ \A i, j \in 1 .. n : i < j => fitnessOf[s[i]] >= fitnessOf[s[j]]
  BY RankingsAre DEF WeightsInv
<1>. DEFINE updates == SwarmRouting!AdjustWeights(s)
            order == [i \in 1 .. n |->
              [who |-> s[i], fitness |-> fitnessOf[s[i]], weight |-> weightOf[s[i]]]]
<1>3. \A i \in 1 .. n : s[i] \in Weighed /\ weightOf[s[i]] \in Nat /\ fitnessOf[s[i]] \in Fitnesses
  BY <1>2 DEF WeightsInv, WeightsTyped
<1>4. updates = [i \in 1 .. n |-> [who |-> s[i], weight |-> WeightAt(i, n, weightOf[s[i]])]]
  BY <1>2 DEF SwarmRouting!AdjustWeights, WeightAt
<1>5. /\ updates \in [1 .. n -> WeightUpdate]
      /\ \A i \in 1 .. n : updates[i].who = s[i] /\ updates[i].weight = WeightAt(i, n, weightOf[s[i]])
  <2>1. \A i \in 1 .. n : WeightAt(i, n, weightOf[s[i]]) \in Nat
    BY <1>3, WeightAtIsNatural
  <2>. HIDE DEF updates
  <2>. QED
    BY <1>3, <1>4, <2>1 DEF WeightUpdate
<1>6. /\ order \in Seq(RankedMember) /\ Len(order) = n /\ DOMAIN order = 1 .. n
      /\ \A i \in 1 .. n : /\ order[i].who = s[i] /\ order[i].fitness = fitnessOf[s[i]]
                           /\ order[i].weight = weightOf[s[i]]
  <2>1. order \in [1 .. n -> RankedMember]
    BY <1>3 DEF RankedMember
  <2>2. order \in Seq(RankedMember) /\ Len(order) = n
    BY <2>1
  <2>. QED
    BY <2>2
<1>7. rank' = IF plan' = <<>> THEN <<>> ELSE order
  BY <1>1, <1>2
<1>. HIDE DEF updates, order
<1>8. /\ plan' \in Seq(WeightUpdate)
      /\ \A i, j \in DOMAIN plan' : plan'[i].who = plan'[j].who => i = j
      /\ \A i \in DOMAIN plan' : \E k \in 1 .. n : plan'[i] = updates[k]
  <2>1. \A i, j \in 1 .. n : updates[i].who = updates[j].who => i = j
    BY <1>2, <1>5
  <2>2. plan' = SwarmRouting!Changed(updates)
    BY <1>1 DEF updates
  <2>. QED
    BY <1>5, <2>1, <2>2, KeptAreApart
<1>9. UNCHANGED <<weighed, weightOf, fitnessOf>> /\ rounds' \in 0 .. MaxRounds
  <2>1. MaxRounds \in Nat
    BY ConstantsOfPolicy
  <2>2. rounds \in 0 .. MaxRounds /\ rounds < MaxRounds /\ rounds' = rounds + 1
        /\ UNCHANGED <<weighed, weightOf, fitnessOf>>
    BY DEF SwarmRouting!ReadMembers, WeightsInv, WeightsTyped
  <2>. QED
    BY <2>1, <2>2
<1>10. CASE plan' = <<>>
  <2>1. rank' = <<>> /\ <<>> \in Seq(RankedMember) /\ DOMAIN <<>> = {}
    BY <1>7, <1>10
  <2>. QED
    BY <1>8, <1>9, <1>10, <2>1 DEF WeightsInv, WeightsTyped, PlanInv
<1>11. CASE plan' # <<>>
  <2>1. rank' = order
    BY <1>7, <1>11
  <2>2. \A i, j \in DOMAIN rank' : rank'[i].who = rank'[j].who => i = j
    BY <1>2, <1>6, <2>1
  <2>3. \A i, j \in DOMAIN rank' : i < j => rank'[i].fitness >= rank'[j].fitness
    BY <1>2, <1>6, <2>1
  <2>4. ASSUME NEW i \in DOMAIN plan'
        PROVE  \E k \in DOMAIN rank' : /\ rank'[k].who = plan'[i].who
                                       /\ plan'[i].weight = WeightAt(k, Len(rank'), rank'[k].weight)
    <3>1. PICK k \in 1 .. n : plan'[i] = updates[k]
      BY <1>8
    <3>. QED
      BY <1>5, <1>6, <2>1, <3>1
  <2>5. PlanInv'
    BY <1>8, <2>2, <2>3, <2>4 DEF PlanInv, WeightAt
  <2>. QED
    BY <1>6, <1>8, <1>9, <2>1, <2>5 DEF WeightsInv, WeightsTyped
<1>. QED
  BY <1>10, <1>11

\* WriteWeight: WeightsInv is kept.
LEMMA WriteWeightKeeps ==
  ASSUME WeightsInv, SwarmRouting!WriteWeight PROVE WeightsInv'
<1>1. /\ plan # <<>> /\ plan \in Seq(WeightUpdate) /\ plan' = Tail(plan)
      /\ weightOf' = IF Head(plan).who \in weighed
                       THEN [weightOf EXCEPT ![Head(plan).who] = Head(plan).weight] ELSE weightOf
      /\ rank' = IF Len(plan) = 1 THEN <<>> ELSE rank
      /\ UNCHANGED <<weighed, fitnessOf, rounds>>
  BY DEF SwarmRouting!WriteWeight, WeightsInv, WeightsTyped
<1>2. PICK u \in WeightUpdate : u = Head(plan)
  BY <1>1
<1>3. weightOf' \in [Weighed -> Nat]
  BY <1>1, <1>2 DEF WeightUpdate, WeightsInv, WeightsTyped
<1>4. /\ plan' \in Seq(WeightUpdate)
      /\ \A i \in DOMAIN plan' : i + 1 \in DOMAIN plan /\ plan'[i] = plan[i + 1]
      /\ Len(plan) = 1 => plan' = <<>>
  BY <1>1
<1>5. \A i, j \in DOMAIN plan' : plan'[i].who = plan'[j].who => i = j
  <2>1. \A i \in DOMAIN plan' : i \in Nat
    BY <1>4
  <2>2. \A i, j \in DOMAIN plan' : plan'[i].who = plan'[j].who => i + 1 = j + 1
    BY <1>4 DEF WeightsInv, PlanInv
  <2>. QED
    BY <2>1, <2>2
<1>6. CASE Len(plan) = 1
  <2>1. plan' = <<>> /\ rank' = <<>> /\ <<>> \in Seq(RankedMember) /\ DOMAIN <<>> = {}
    BY <1>1, <1>4, <1>6
  <2>. QED
    BY <1>1, <1>3, <1>4, <2>1 DEF WeightsInv, WeightsTyped, PlanInv
<1>7. CASE Len(plan) # 1
  <2>1. rank' = rank
    BY <1>1, <1>7
  <2>2. PlanInv'
    BY <1>4, <1>5, <2>1 DEF WeightsInv, PlanInv, WeightAt
  <2>. QED
    BY <1>1, <1>3, <1>4, <2>1, <2>2 DEF WeightsInv, WeightsTyped
<1>. QED
  BY <1>6, <1>7

\* SwarmWeightsNext: WeightsInv is kept.
LEMMA WeightsStep ==
  ASSUME WeightsInv, SwarmRouting!SwarmWeightsNext \/ UNCHANGED weightsVars
  PROVE  WeightsInv'
<1>0. Weights \subseteq Nat /\ 0 \in Fitnesses
  BY ConstantsOfPolicy
<1>1. ASSUME UNCHANGED <<plan, rank>> PROVE PlanInv'
  BY <1>1 DEF WeightsInv, PlanInv, WeightAt
<1>2. ASSUME NEW a \in Weighed, SwarmRouting!DropMember(a) PROVE WeightsInv'
  <2>1. /\ weighed' = weighed \ {a} /\ weightOf' = [weightOf EXCEPT ![a] = 100]
        /\ fitnessOf' = [fitnessOf EXCEPT ![a] = 0] /\ UNCHANGED <<rounds, plan, rank>>
    BY <1>2 DEF SwarmRouting!DropMember
  <2>. QED
    BY <1>0, <1>1, <2>1 DEF WeightsInv, WeightsTyped
<1>3. ASSUME NEW a \in Weighed, NEW w \in Weights, SwarmRouting!WeighMember(a, w) PROVE WeightsInv'
  <2>1. /\ weighed' = weighed \cup {a} /\ weightOf' = [weightOf EXCEPT ![a] = w]
        /\ fitnessOf' = [fitnessOf EXCEPT ![a] = 0] /\ UNCHANGED <<rounds, plan, rank>>
    BY <1>3 DEF SwarmRouting!WeighMember
  <2>. QED
    BY <1>0, <1>1, <2>1 DEF WeightsInv, WeightsTyped
<1>4. ASSUME NEW a \in Weighed, NEW f \in Fitnesses, SwarmRouting!Score(a, f) PROVE WeightsInv'
  <2>1. fitnessOf' = [fitnessOf EXCEPT ![a] = f] /\ UNCHANGED <<weighed, weightOf, rounds, plan, rank>>
    BY <1>4 DEF SwarmRouting!Score
  <2>. QED
    BY <1>1, <2>1 DEF WeightsInv, WeightsTyped
<1>5. CASE SwarmRouting!WriteFails
  <2>1. plan' = <<>> /\ rank' = <<>> /\ UNCHANGED <<weighed, weightOf, fitnessOf, rounds>>
    BY <1>5 DEF SwarmRouting!WriteFails
  <2>2. <<>> \in Seq(RankedMember) /\ <<>> \in Seq(WeightUpdate) /\ DOMAIN <<>> = {}
    OBVIOUS
  <2>. QED
    BY <2>1, <2>2 DEF WeightsInv, WeightsTyped, PlanInv
<1>6. CASE UNCHANGED weightsVars
  BY <1>1, <1>6 DEF weightsVars, WeightsInv, WeightsTyped
<1>. QED
  BY <1>2, <1>3, <1>4, <1>5, <1>6, ReadMembersPlans, WriteWeightKeeps DEF SwarmRouting!SwarmWeightsNext

\* WeightsInv holds in every reachable state.
LEMMA WeightsHold == Spec => []WeightsInv
<1>1. ASSUME Init PROVE WeightsInv
  <2>1. SwarmRouting!SwarmWeightsInit
    BY <1>1 DEF Init
  <2>2. 0 \in Fitnesses /\ MaxRounds \in Nat
    BY ConstantsOfPolicy
  <2>3. <<>> \in Seq(RankedMember) /\ <<>> \in Seq(WeightUpdate) /\ DOMAIN <<>> = {}
    OBVIOUS
  <2>. QED
    BY <2>1, <2>2, <2>3 DEF SwarmRouting!SwarmWeightsInit, WeightsInv, WeightsTyped, PlanInv
<1>2. WeightsInv /\ [Next]_vars => WeightsInv'
  BY StepOfParts, WeightsStep
<1>. QED
  BY <1>1, <1>2, PTL DEF Spec

\* A weight rises in the first quarter of the ranking and falls in the last.
LEMMA PlaceOfUpdate ==
  ASSUME WeightsInv, NEW i \in DOMAIN plan
  PROVE  \E k \in 1 .. Len(rank) :
           /\ SwarmRouting!Before(plan[i]) = rank[k] /\ rank[k].who = plan[i].who
           /\ SwarmRouting!Rises(plan[i]) => k <= Len(rank) \div 4
           /\ SwarmRouting!Falls(plan[i]) => k > Len(rank) - Len(rank) \div 4
<1>1. PICK k \in DOMAIN rank :
        rank[k].who = plan[i].who /\ plan[i].weight = WeightAt(k, Len(rank), rank[k].weight)
  BY DEF WeightsInv, PlanInv
<1>2. k \in 1 .. Len(rank) /\ rank[k] \in RankedMember
  BY <1>1 DEF WeightsInv, WeightsTyped
<1>3. SwarmRouting!Before(plan[i]) = rank[k]
  <2>1. PICK c \in DOMAIN rank :
          rank[c].who = plan[i].who
          /\ c = CHOOSE d \in DOMAIN rank : rank[d].who = plan[i].who
    BY <1>1
  <2>2. c = k
    BY <1>1, <2>1 DEF WeightsInv, PlanInv
  <2>. QED
    BY <2>1, <2>2 DEF SwarmRouting!Before
<1>4. PICK w \in Nat : w = rank[k].weight
  BY <1>2 DEF RankedMember
<1>5. /\ SwarmRouting!Rises(plan[i]) =>
           SwarmRouting!Within(w) /\ WeightAt(k, Len(rank), w) > w
      /\ SwarmRouting!Falls(plan[i]) =>
           SwarmRouting!Within(w) /\ WeightAt(k, Len(rank), w) < w
  BY <1>1, <1>3, <1>4 DEF SwarmRouting!Rises, SwarmRouting!Falls
<1>6. PICK up \in Nat, down \in Nat :
        /\ up = SwarmRouting!Boosted(w) /\ down = SwarmRouting!Penalised(w)
        /\ SwarmRouting!Within(w) => up >= w /\ down <= w
  BY <1>4, WeightsAreNatural
<1>7. PICK n \in Nat, q \in Nat : n = Len(rank) /\ q = Len(rank) \div 4 /\ q <= n
  <2>1. PICK n \in Nat : n = Len(rank)
    BY DEF WeightsInv, WeightsTyped
  <2>2. n \div 4 \in Nat /\ n \div 4 <= n
    OBVIOUS
  <2>. QED
    BY <2>1, <2>2
<1>8. WeightAt(k, Len(rank), w) = IF k <= q THEN up ELSE IF k > n - q THEN down ELSE w
  BY <1>6, <1>7 DEF WeightAt
<1>9. /\ SwarmRouting!Rises(plan[i]) => k <= q
      /\ SwarmRouting!Falls(plan[i]) => k > n - q
  <2>1. k \in Nat
    BY <1>2
  <2>2. PICK v : v = WeightAt(k, Len(rank), w) /\ v = IF k <= q THEN up ELSE IF k > n - q THEN down ELSE w
    BY <1>8
  <2>3. SwarmRouting!Within(w) /\ v > w => k <= q
    BY <1>4, <1>6, <1>7, <2>1, <2>2
  <2>4. SwarmRouting!Within(w) /\ v < w => k > n - q
    BY <1>4, <1>6, <1>7, <2>1, <2>2
  <2>. QED
    BY <1>5, <2>2, <2>3, <2>4
<1>. QED
  BY <1>1, <1>2, <1>3, <1>7, <1>9

\* Different updates are at different places: those that share a property of
\* the place are no more than the places with that property.
LEMMA UpdatesArePlaces ==
  ASSUME WeightsInv, NEW S \in SUBSET (DOMAIN plan), NEW q \in Nat, NEW m \in Nat,
         \A i \in S : \E k \in (m + 1) .. (m + q) : k \in DOMAIN rank /\ rank[k].who = plan[i].who
  PROVE  IsFiniteSet(S) /\ Cardinality(S) \in Nat /\ Cardinality(S) <= q
<1>. DEFINE T == (m + 1) .. (m + q)
            f == [i \in S |-> CHOOSE k \in T : k \in DOMAIN rank /\ rank[k].who = plan[i].who]
<1>1. IsFiniteSet(T) /\ Cardinality(T) = q
  <2>1. m + 1 \in Int /\ m + q \in Int
    OBVIOUS
  <2>2. IsFiniteSet(T) /\ Cardinality(T) = IF m + 1 > m + q THEN 0 ELSE (m + q) - (m + 1) + 1
    BY <2>1, FS_Interval
  <2>. QED
    BY <2>2
<1>2. \A i \in S : f[i] \in T /\ f[i] \in DOMAIN rank /\ rank[f[i]].who = plan[i].who
  OBVIOUS
<1>3. \A i, j \in S : f[i] = f[j] => i = j
  BY <1>2 DEF WeightsInv, PlanInv
<1>4. f \in Injection(S, T)
  BY <1>2, <1>3 DEF Injection, IsInjective
<1>5. IsFiniteSet(S) /\ Cardinality(S) <= Cardinality(T)
  BY <1>1, <1>4, FS_Injection
<1>. QED
  BY <1>1, <1>5, FS_CardinalityType

\* What WeightsInv says of weights is what the runs check.
LEMMA WeightsAreFair ==
  ASSUME WeightsInv
  PROVE  /\ SwarmRouting!FitterNeverLoses /\ SwarmRouting!QuartersOnly
         /\ SwarmRouting!SwarmWeightsTypeOK
<1>1. PICK n \in Nat, q \in Nat : n = Len(rank) /\ q = Len(rank) \div 4 /\ 4 * q <= n /\ 2 * q <= n
  <2>1. PICK n \in Nat : n = Len(rank)
    BY DEF WeightsInv, WeightsTyped
  <2>2. n \div 4 \in Nat /\ 4 * (n \div 4) <= n
    OBVIOUS
  <2>. QED
    BY <2>1, <2>2
<1>2. DOMAIN rank = 1 .. n
  BY <1>1 DEF WeightsInv, WeightsTyped
<1>3. ASSUME NEW i \in DOMAIN plan, NEW j \in DOMAIN plan,
             SwarmRouting!Rises(plan[i]), SwarmRouting!Falls(plan[j])
      PROVE  SwarmRouting!Before(plan[i]).fitness >= SwarmRouting!Before(plan[j]).fitness
  <2>1. PICK k \in 1 .. n : SwarmRouting!Before(plan[i]) = rank[k] /\ k <= q
    BY <1>1, <1>3, PlaceOfUpdate
  <2>2. PICK l \in 1 .. n : SwarmRouting!Before(plan[j]) = rank[l] /\ l > n - q
    BY <1>1, <1>3, PlaceOfUpdate
  <2>3. k < l
    BY <1>1, <2>1, <2>2
  <2>4. rank[k].fitness >= rank[l].fitness
    BY <1>2, <2>3 DEF WeightsInv, PlanInv
  <2>. QED
    BY <2>1, <2>2, <2>4
<1>. DEFINE up == {i \in DOMAIN plan : SwarmRouting!Rises(plan[i])}
            down == {i \in DOMAIN plan : SwarmRouting!Falls(plan[i])}
<1>4. Cardinality(up) \in Nat /\ Cardinality(up) <= q
  <2>1. ASSUME NEW i \in up
        PROVE  \E k \in (0 + 1) .. (0 + q) : k \in DOMAIN rank /\ rank[k].who = plan[i].who
    <3>1. PICK k \in 1 .. n : rank[k].who = plan[i].who /\ k <= q
      BY <1>1, PlaceOfUpdate
    <3>. QED
      BY <1>1, <1>2, <3>1
  <2>. HIDE DEF up
  <2>2. up \in SUBSET (DOMAIN plan)
    BY DEF up
  <2>. QED
    BY <2>1, <2>2, UpdatesArePlaces
<1>5. Cardinality(down) \in Nat /\ Cardinality(down) <= q
  <2>0. PICK m \in Nat : m = n - q
    BY <1>1
  <2>1. ASSUME NEW i \in down
        PROVE  \E k \in (m + 1) .. (m + q) : k \in DOMAIN rank /\ rank[k].who = plan[i].who
    <3>1. PICK k \in 1 .. n : rank[k].who = plan[i].who /\ k > n - q
      BY <1>1, PlaceOfUpdate
    <3>. QED
      BY <1>1, <1>2, <2>0, <3>1
  <2>. HIDE DEF down
  <2>2. down \in SUBSET (DOMAIN plan)
    BY DEF down
  <2>. QED
    BY <2>1, <2>2, UpdatesArePlaces
<1>6. SwarmRouting!QuartersOnly
  <2>1. SwarmRouting!Cardinality(up) = Cardinality(up) /\ SwarmRouting!Cardinality(down) = Cardinality(down)
    BY DEF SwarmRouting!Cardinality, Cardinality
  <2>. HIDE DEF up, down
  <2>2. PICK a \in Nat, b \in Nat : a = Cardinality(up) /\ b = Cardinality(down)
    BY <1>4, <1>5
  <2>3. 4 * a <= n /\ 4 * b <= n
    BY <1>1, <1>4, <1>5, <2>2
  <2>4. 4 * SwarmRouting!Cardinality(up) <= Len(rank) /\ 4 * SwarmRouting!Cardinality(down) <= Len(rank)
    BY <1>1, <2>1, <2>2, <2>3
  <2>. QED
    BY <2>4 DEF SwarmRouting!QuartersOnly, up, down
<1>7. SwarmRouting!SwarmWeightsTypeOK
  <2>1. /\ weighed \subseteq Weighed /\ rounds \in 0 .. MaxRounds
        /\ \A a \in Weighed : weightOf[a] \in Nat /\ fitnessOf[a] \in Fitnesses
    BY DEF WeightsInv, WeightsTyped
  <2>2. \A i \in DOMAIN plan : plan[i].who \in Weighed
    <3>1. \A i \in DOMAIN plan : plan[i] \in WeightUpdate
      BY DEF WeightsInv, WeightsTyped
    <3>. QED
      BY <3>1 DEF WeightUpdate
  <2>. QED
    BY <2>1, <2>2 DEF SwarmRouting!SwarmWeightsTypeOK
<1>. QED
  BY <1>3, <1>6, <1>7 DEF SwarmRouting!FitterNeverLoses

(****************************************************************************)
(* The tree of swarms and the router.                                       *)
(****************************************************************************)
SwarmId == SwarmRouting!SwarmIds
SwarmNode == [parent : 0 .. MaxSwarms, alive : BOOLEAN, enabled : BOOLEAN,
              strategy : SwarmRouting!Strategies]

SwarmsInv ==
  /\ swarmCount \in 0 .. MaxSwarms
  /\ tree \in [SwarmId -> SwarmNode] /\ members \in [SwarmId -> SUBSET SwarmAgents]
  /\ \A w \in SwarmId : tree[w].parent < w
  /\ \A w \in SwarmId : tree[w].parent # 0 => tree[w].alive
  /\ \A w \in SwarmId : tree[w].alive => w <= swarmCount

\* A deleted swarm is a node, without a parent.
LEMMA GoneIsNode ==
  SwarmRouting!Gone \in SwarmNode /\ SwarmRouting!Gone.parent = 0 /\ ~SwarmRouting!Gone.alive
<1>1. 0 \in 0 .. MaxSwarms
  BY ConstantsOfPolicy
<1>. QED
  BY <1>1 DEF SwarmRouting!Gone, SwarmNode, SwarmRouting!Strategies

\* An update of a swarm has the form of a swarm.
LEMMA NodeShape ==
  ASSUME NEW node \in SwarmNode
  PROVE  /\ node.parent \in Nat /\ node.parent <= MaxSwarms /\ node.alive \in BOOLEAN
         /\ \A e \in BOOLEAN, s \in SwarmRouting!Strategies :
              LET new == [node EXCEPT !.enabled = e, !.strategy = s]
              IN  new \in SwarmNode /\ new.parent = node.parent /\ new.alive = node.alive
         /\ LET new == [node EXCEPT !.parent = 0]
            IN  new \in SwarmNode /\ new.parent = 0 /\ new.alive = node.alive
<1>1. 0 \in 0 .. MaxSwarms /\ \A p \in 0 .. MaxSwarms : p \in Nat /\ p <= MaxSwarms
  BY ConstantsOfPolicy
<1>2. node.parent \in 0 .. MaxSwarms /\ node.alive \in BOOLEAN
  BY DEF SwarmNode
<1>3. ASSUME NEW e \in BOOLEAN, NEW s \in SwarmRouting!Strategies
      PROVE  LET new == [node EXCEPT !.enabled = e, !.strategy = s]
             IN  new \in SwarmNode /\ new.parent = node.parent /\ new.alive = node.alive
  BY DEF SwarmNode
<1>4. LET new == [node EXCEPT !.parent = 0]
      IN  new \in SwarmNode /\ new.parent = 0 /\ new.alive = node.alive
  BY <1>1 DEF SwarmNode
<1>. QED
  BY <1>1, <1>2, <1>3, <1>4

\* SwarmsNext: SwarmsInv is kept.
LEMMA SwarmsStep ==
  ASSUME SwarmsInv, SwarmRouting!SwarmsNext \/ UNCHANGED swarmsVars PROVE SwarmsInv'
<1>0. MaxSwarms \in Nat
  BY ConstantsOfPolicy
<1>1. SwarmId = 1 .. MaxSwarms
  BY DEF SwarmId, SwarmRouting!SwarmIds
<1>a. \A w \in SwarmId : tree[w] \in SwarmNode
  BY DEF SwarmsInv
<1>2. ASSUME NEW p \in 0 .. MaxSwarms, NEW s \in SwarmRouting!Strategies,
             SwarmRouting!CreateSwarm(p, s)
      PROVE  SwarmsInv'
  <2>. DEFINE node == [parent |-> p, alive |-> TRUE, enabled |-> TRUE, strategy |-> s]
  <2>1. PICK new \in SwarmId : new = swarmCount + 1
    BY <1>0, <1>1, <1>2 DEF SwarmRouting!CreateSwarm, SwarmsInv
  <2>2. /\ swarmCount' = new /\ tree' = [tree EXCEPT ![new] = node] /\ UNCHANGED members
        /\ p \in SwarmRouting!Alive \cup {0}
    BY <1>2, <2>1 DEF SwarmRouting!CreateSwarm
  <2>3. p < new
    BY <1>1, <2>1, <2>2 DEF SwarmRouting!Alive, SwarmsInv, SwarmId
  <2>4. node \in SwarmNode /\ node.parent = p /\ node.alive
    BY DEF SwarmNode
  <2>. HIDE DEF node
  <2>5. /\ tree' \in [SwarmId -> SwarmNode] /\ \A w \in SwarmId : tree'[w].parent < w
        /\ \A w \in SwarmId : tree'[w].parent # 0 => tree'[w].alive
    BY <2>2, <2>3, <2>4 DEF SwarmsInv
  <2>6. \A w \in SwarmId : tree'[w].alive => w <= new
    BY <1>0, <1>1, <2>1, <2>2, <2>4 DEF SwarmsInv
  <2>. QED
    BY <1>1, <2>1, <2>2, <2>5, <2>6 DEF SwarmsInv
<1>3. ASSUME NEW w \in SwarmId, NEW e \in BOOLEAN, NEW s \in SwarmRouting!Strategies,
             SwarmRouting!UpdateSwarm(w, e, s)
      PROVE  SwarmsInv'
  <2>1. PICK node \in SwarmNode : node = tree[w]
    BY <1>a
  <2>2. PICK new \in SwarmNode : /\ new = [node EXCEPT !.enabled = e, !.strategy = s]
                                 /\ new.parent = node.parent /\ new.alive = node.alive
    BY NodeShape
  <2>3. tree' = [tree EXCEPT ![w] = new] /\ UNCHANGED <<swarmCount, members>>
    BY <1>3, <2>1, <2>2 DEF SwarmRouting!UpdateSwarm, SwarmsInv
  <2>. QED
    BY <2>1, <2>2, <2>3 DEF SwarmsInv
<1>4. ASSUME NEW w \in SwarmId, SwarmRouting!DeleteSwarm(w)
      PROVE  SwarmsInv'
  <2>1. /\ tree' = [v \in SwarmId |->
             IF v = w THEN SwarmRouting!Gone
             ELSE IF tree[v].parent = w THEN [tree[v] EXCEPT !.parent = 0] ELSE tree[v]]
        /\ members' = [members EXCEPT ![w] = {}] /\ UNCHANGED swarmCount
    BY <1>4 DEF SwarmRouting!DeleteSwarm, SwarmId
  <2>2. ASSUME NEW v \in SwarmId
        PROVE  /\ tree'[v] \in SwarmNode /\ tree'[v].parent \in {0, tree[v].parent}
               /\ tree'[v].alive => tree[v].alive
               /\ tree'[v].parent # 0 => tree'[v].alive
    <3>1. CASE v = w
      BY <2>1, <3>1, GoneIsNode
    <3>2. CASE v # w /\ tree[v].parent = w
      BY <1>a, <2>1, <3>2, NodeShape
    <3>3. CASE v # w /\ tree[v].parent # w
      BY <1>a, <2>1, <3>3 DEF SwarmsInv
    <3>. QED
      BY <3>1, <3>2, <3>3
  <2>3. tree' \in [SwarmId -> SwarmNode]
    <3>1. tree' = [v \in SwarmId |-> tree'[v]]
      BY <2>1
    <3>. QED
      BY <2>2, <3>1
  <2>4. \A v \in SwarmId : tree'[v].parent < v
    BY <1>1, <2>2 DEF SwarmsInv
  <2>5. members' \in [SwarmId -> SUBSET SwarmAgents]
    BY <2>1 DEF SwarmsInv
  <2>. QED
    BY <2>1, <2>2, <2>3, <2>4, <2>5 DEF SwarmsInv
<1>5. ASSUME NEW w \in SwarmId, NEW a \in SwarmAgents,
             SwarmRouting!AddMember(w, a) \/ SwarmRouting!RemoveMember(w, a)
      PROVE  SwarmsInv'
  <2>1. /\ UNCHANGED <<swarmCount, tree>>
        /\ members' = [members EXCEPT ![w] = @ \cup {a}] \/ members' = [members EXCEPT ![w] = @ \ {a}]
    BY <1>5 DEF SwarmRouting!AddMember, SwarmRouting!RemoveMember
  <2>. QED
    BY <2>1 DEF SwarmsInv
<1>6. CASE UNCHANGED swarmsVars
  BY <1>6 DEF swarmsVars, SwarmsInv
<1>. QED
  BY <1>2, <1>3, <1>4, <1>5, <1>6 DEF SwarmRouting!SwarmsNext, SwarmId

\* SwarmsInv holds in every reachable state.
LEMMA SwarmsHold == Spec => []SwarmsInv
<1>1. ASSUME Init PROVE SwarmsInv
  <2>1. SwarmRouting!SwarmsInit
    BY <1>1 DEF Init
  <2>2. MaxSwarms \in Nat
    BY ConstantsOfPolicy
  <2>. QED
    BY <2>1, <2>2, GoneIsNode DEF SwarmRouting!SwarmsInit, SwarmsInv, SwarmId, SwarmRouting!SwarmIds
<1>2. SwarmsInv /\ [Next]_vars => SwarmsInv'
  BY StepOfParts, SwarmsStep
<1>. QED
  BY <1>1, <1>2, PTL DEF Spec

------------------------------------------------------------------------------
\* Where a task given to a swarm goes, if it goes as r says from those below.
RouteFrom(w, r) ==
  IF w \notin SwarmRouting!Alive \/ ~tree[w].enabled THEN {}
  ELSE IF tree[w].strategy = "hierarchical" /\ SwarmRouting!ChildSwarms(w) # {}
         THEN SwarmRouting!RouteHierarchical(SwarmRouting!ChildSwarms(w), r)
         ELSE SwarmRouting!RouteByFitness(w)
IsRoute(r) == r = [w \in SwarmId |-> RouteFrom(w, r)]

\* The swarms above one, if those above its parent are as up says.
AboveFrom(w, up) ==
  {w} \cup (IF /\ tree[w].parent # 0
               /\ tree[tree[w].parent].enabled
               /\ tree[tree[w].parent].strategy = "hierarchical"
              THEN up[tree[w].parent] ELSE {})
IsAbove(up) == up = [w \in SwarmId |-> AboveFrom(w, up)]

\* The swarms below one have larger numbers, the one above it a smaller one.
LEMMA TreeGoesDown ==
  ASSUME SwarmsInv
  PROVE  /\ SwarmId \subseteq Nat \ {0} /\ SwarmId = 1 .. MaxSwarms /\ MaxSwarms \in Nat
         /\ SwarmRouting!Alive \subseteq SwarmId
         /\ \A w \in SwarmId : tree[w].parent \in Nat /\ tree[w].parent < w
         /\ \A w \in SwarmId : tree[w].parent # 0 => tree[w].parent \in SwarmId
         /\ \A w \in SwarmId : SwarmRouting!ChildSwarms(w) = {v \in SwarmId : tree[v].parent = w}
         /\ \A w \in SwarmId : \A v \in SwarmRouting!ChildSwarms(w) : v \in SwarmId /\ w < v
<1>1. MaxSwarms \in Nat
  BY ConstantsOfPolicy
<1>2. SwarmId = 1 .. MaxSwarms /\ SwarmRouting!Alive = {w \in SwarmId : tree[w].alive}
  BY DEF SwarmId, SwarmRouting!SwarmIds, SwarmRouting!Alive
<1>3. \A w \in SwarmId : tree[w] \in SwarmNode /\ tree[w].parent < w
                         /\ (tree[w].parent # 0 => tree[w].alive)
  BY DEF SwarmsInv
<1>4. \A w \in SwarmId : tree[w].parent \in Nat
  BY <1>3, NodeShape
<1>5. \A w \in SwarmId : tree[w].parent # 0 => tree[w].parent \in SwarmId
  BY <1>1, <1>2, <1>3, <1>4
<1>6. \A w \in SwarmId : SwarmRouting!ChildSwarms(w) = {v \in SwarmId : tree[v].parent = w}
  <2>1. \A w \in SwarmId : w # 0
    BY <1>2
  <2>. QED
    BY <1>2, <1>3, <2>1 DEF SwarmRouting!ChildSwarms
<1>. QED
  BY <1>1, <1>2, <1>3, <1>4, <1>5, <1>6

\* A task given to a swarm that asks those below it goes where the first of
\* them that can take it sends it.
LEMMA RouteBelow ==
  ASSUME SwarmsInv, NEW w \in SwarmId, NEW r
  PROVE  LET able == {v \in SwarmRouting!ChildSwarms(w) : tree[v].enabled /\ r[v] # {}}
             to == SwarmRouting!RouteHierarchical(SwarmRouting!ChildSwarms(w), r)
         IN  /\ able = {} => to = {}
             /\ able # {} => SwarmRouting!First(able) \in able /\ to = r[SwarmRouting!First(able)]
<1>. DEFINE able == {v \in SwarmRouting!ChildSwarms(w) : tree[v].enabled /\ r[v] # {}}
<1>1. able \subseteq Nat
  BY TreeGoesDown
<1>2. ASSUME able # {} PROVE SwarmRouting!First(able) \in able
  <2>. HIDE DEF able
  <2>1. \E v \in able : \A u \in able : v <= u
    BY <1>1, <1>2, Smallest
  <2>. QED
    BY <2>1 DEF SwarmRouting!First
<1>. QED
  BY <1>2 DEF SwarmRouting!RouteHierarchical

\* A route from w depends only on the swarms numbered after w.
LEMMA RouteLooksDown ==
  ASSUME SwarmsInv, NEW w \in SwarmId, NEW r, NEW q,
         \A v \in SwarmId : w < v => r[v] = q[v]
  PROVE  RouteFrom(w, r) = RouteFrom(w, q)
<1>. DEFINE C == SwarmRouting!ChildSwarms(w)
            able(x) == {v \in C : tree[v].enabled /\ x[v] # {}}
<1>1. \A v \in C : r[v] = q[v]
  BY TreeGoesDown
<1>2. able(r) = able(q)
  BY <1>1
<1>3. SwarmRouting!RouteHierarchical(C, r) = SwarmRouting!RouteHierarchical(C, q)
  <2>1. CASE able(r) = {}
    BY <1>2, <2>1, RouteBelow
  <2>2. CASE able(r) # {}
    <3>1. /\ SwarmRouting!First(able(r)) \in able(r)
          /\ SwarmRouting!RouteHierarchical(C, r) = r[SwarmRouting!First(able(r))]
      BY <2>2, RouteBelow
    <3>2. SwarmRouting!RouteHierarchical(C, q) = q[SwarmRouting!First(able(q))]
      BY <1>2, <2>2, RouteBelow
    <3>. QED
      BY <1>1, <1>2, <3>1, <3>2
  <2>. QED
    BY <2>1, <2>2
<1>. QED
  BY <1>3 DEF RouteFrom
\* There is a function that says where each task goes.
LEMMA RouteExists == ASSUME SwarmsInv PROVE \E r : IsRoute(r)
<1>. DEFINE n == MaxSwarms
            T == {k \in Nat : k <= n => \E r : /\ r = [w \in SwarmId |-> r[w]]
                                               /\ \A w \in SwarmId : w > n - k => r[w] = RouteFrom(w, r)}
<1>0. n \in Nat /\ SwarmId = 1 .. n
  BY TreeGoesDown
<1>1. 0 \in T
  <2>. DEFINE r == [w \in SwarmId |-> {}]
  <2>1. r = [w \in SwarmId |-> r[w]]
    OBVIOUS
  <2>2. \A w \in SwarmId : ~(w > n - 0)
    BY <1>0
  <2>. HIDE DEF r, n
  <2>. QED
    BY <2>1, <2>2
<1>2. ASSUME NEW k \in Nat, k \in T PROVE k + 1 \in T
  <2>. SUFFICES ASSUME k + 1 <= n
                PROVE  \E q : /\ q = [w \in SwarmId |-> q[w]]
                              /\ \A w \in SwarmId : w > n - (k + 1) => q[w] = RouteFrom(w, q)
    OBVIOUS
  <2>1. PICK r : /\ r = [w \in SwarmId |-> r[w]]
                 /\ \A w \in SwarmId : w > n - k => r[w] = RouteFrom(w, r)
    BY <1>0, <1>2
  <2>2. PICK u \in SwarmId : u = n - k
    BY <1>0
  <2>. DEFINE q == [w \in SwarmId |-> IF w = u THEN RouteFrom(u, r) ELSE r[w]]
  <2>3. q = [w \in SwarmId |-> q[w]] /\ \A w \in SwarmId : w # u => q[w] = r[w]
    OBVIOUS
  <2>4. q[u] = RouteFrom(u, r)
    OBVIOUS
  <2>. HIDE DEF q
  <2>5. ASSUME NEW w \in SwarmId, w > n - (k + 1) PROVE q[w] = RouteFrom(w, q)
    <3>1. w \in Nat /\ u \in Nat /\ w >= u
      BY <1>0, <2>2, <2>5
    <3>2. \A v \in SwarmId : w < v => r[v] = q[v]
      BY <1>0, <2>3, <3>1
    <3>3. RouteFrom(w, r) = RouteFrom(w, q)
      BY <3>2, RouteLooksDown
    <3>4. CASE w = u
      BY <2>4, <3>3, <3>4
    <3>5. CASE w # u
      <4>1. w > n - k
        BY <2>2, <3>1, <3>5
      <4>. QED
        BY <2>1, <2>3, <3>3, <3>5, <4>1
    <3>. QED
      BY <3>4, <3>5
  <2>. QED
    BY <2>3, <2>5
<1>3. n \in T
  <2>1. Nat \subseteq T
    <3>. HIDE DEF T
    <3>. QED
      BY <1>1, <1>2, Upwards
  <2>. QED
    BY <1>0, <2>1
<1>4. PICK r : /\ r = [w \in SwarmId |-> r[w]]
               /\ \A w \in SwarmId : w > n - n => r[w] = RouteFrom(w, r)
  BY <1>0, <1>3
<1>5. \A w \in SwarmId : r[w] = RouteFrom(w, r)
  BY <1>0, <1>4
<1>6. [w \in SwarmId |-> r[w]] = [w \in SwarmId |-> RouteFrom(w, r)]
  BY <1>5
<1>. QED
  BY <1>4, <1>6 DEF IsRoute

\* There is a function that says which swarms are above each.
LEMMA AboveExists == ASSUME SwarmsInv PROVE \E up : IsAbove(up)
<1>. DEFINE T == {k \in Nat : k <= MaxSwarms =>
                    \E up : /\ up = [w \in SwarmId |-> up[w]]
                            /\ \A w \in SwarmId : w <= k => up[w] = AboveFrom(w, up)}
<1>0. MaxSwarms \in Nat /\ SwarmId = 1 .. MaxSwarms
  BY TreeGoesDown
<1>1. 0 \in T
  <2>. DEFINE up == [w \in SwarmId |-> {}]
  <2>1. up = [w \in SwarmId |-> up[w]]
    OBVIOUS
  <2>2. \A w \in SwarmId : ~(w <= 0)
    BY <1>0
  <2>. HIDE DEF up
  <2>. QED
    BY <2>1, <2>2
<1>2. ASSUME NEW k \in Nat, k \in T PROVE k + 1 \in T
  <2>. SUFFICES ASSUME k + 1 <= MaxSwarms
                PROVE  \E q : /\ q = [w \in SwarmId |-> q[w]]
                              /\ \A w \in SwarmId : w <= k + 1 => q[w] = AboveFrom(w, q)
    OBVIOUS
  <2>1. PICK up : /\ up = [w \in SwarmId |-> up[w]]
                  /\ \A w \in SwarmId : w <= k => up[w] = AboveFrom(w, up)
    BY <1>0, <1>2
  <2>2. PICK u \in SwarmId : u = k + 1
    BY <1>0
  <2>. DEFINE q == [w \in SwarmId |-> IF w = u THEN AboveFrom(u, up) ELSE up[w]]
  <2>3. q = [w \in SwarmId |-> q[w]] /\ \A w \in SwarmId : w # u => q[w] = up[w]
    OBVIOUS
  <2>4. q[u] = AboveFrom(u, up)
    OBVIOUS
  <2>. HIDE DEF q
  <2>5. ASSUME NEW w \in SwarmId, w <= k + 1 PROVE q[w] = AboveFrom(w, q)
    <3>1. tree[w].parent # 0 => q[tree[w].parent] = up[tree[w].parent]
      <4>1. tree[w].parent # 0 => tree[w].parent \in SwarmId /\ tree[w].parent \in Nat
                                  /\ tree[w].parent < w
        BY TreeGoesDown
      <4>2. w \in Nat /\ u \in Nat
        BY <1>0
      <4>. QED
        BY <2>2, <2>3, <2>5, <4>1, <4>2
    <3>2. AboveFrom(w, up) = AboveFrom(w, q)
      BY <3>1 DEF AboveFrom
    <3>3. CASE w = u
      BY <2>4, <3>2, <3>3
    <3>4. CASE w # u
      <4>1. w <= k
        BY <1>0, <2>2, <2>5, <3>4
      <4>. QED
        BY <2>1, <2>3, <3>2, <3>4, <4>1
    <3>. QED
      BY <3>3, <3>4
  <2>. QED
    BY <2>3, <2>5
<1>3. MaxSwarms \in T
  <2>1. Nat \subseteq T
    <3>. HIDE DEF T
    <3>. QED
      BY <1>1, <1>2, Upwards
  <2>. QED
    BY <1>0, <2>1
<1>4. PICK up : /\ up = [w \in SwarmId |-> up[w]]
                /\ \A w \in SwarmId : w <= MaxSwarms => up[w] = AboveFrom(w, up)
  BY <1>0, <1>3
<1>5. \A w \in SwarmId : up[w] = AboveFrom(w, up)
  BY <1>0, <1>4
<1>6. [w \in SwarmId |-> up[w]] = [w \in SwarmId |-> AboveFrom(w, up)]
  BY <1>5
<1>. QED
  BY <1>4, <1>6 DEF IsAbove

\* The router and the walk upward satisfy the equations that define them.
LEMMA RouterIs ==
  ASSUME SwarmsInv
  PROVE  IsRoute(SwarmRouting!RouteTask) /\ IsAbove(SwarmRouting!Above)
<1>1. SwarmRouting!RouteTask = CHOOSE r : IsRoute(r)
  BY DEF SwarmRouting!RouteTask, IsRoute, RouteFrom, SwarmId
<1>2. SwarmRouting!Above = CHOOSE up : IsAbove(up)
  BY DEF SwarmRouting!Above, IsAbove, AboveFrom, SwarmId
<1>. HIDE DEF IsRoute, IsAbove
<1>3. IsRoute(CHOOSE r : IsRoute(r))
  BY RouteExists
<1>4. IsAbove(CHOOSE up : IsAbove(up))
  BY AboveExists
<1>. QED
  BY <1>1, <1>2, <1>3, <1>4

\* A swarm is above another through one of those directly below it.
LEMMA AboveThroughChild ==
  ASSUME SwarmsInv, NEW up, IsAbove(up)
  PROVE  \A v \in SwarmId, w \in SwarmId :
           w \in up[v] <=> \/ v = w
                           \/ /\ tree[w].enabled /\ tree[w].strategy = "hierarchical"
                              /\ \E c \in SwarmRouting!ChildSwarms(w) : c \in up[v]
<1>. DEFINE Asks(w) == tree[w].enabled /\ tree[w].strategy = "hierarchical"
            Through(v, w) == Asks(w) /\ \E c \in SwarmRouting!ChildSwarms(w) : c \in up[v]
            T == {k \in Nat : \A v \in SwarmId, w \in SwarmId :
                                v <= k => (w \in up[v] <=> v = w \/ Through(v, w))}
<1>0. SwarmId \subseteq Nat \ {0}
  BY TreeGoesDown
<1>1. \A v \in SwarmId : up[v] = AboveFrom(v, up)
  <2>. DEFINE f == [v \in SwarmId |-> AboveFrom(v, up)]
  <2>1. up = f
    BY DEF IsAbove
  <2>2. \A v \in SwarmId : f[v] = AboveFrom(v, up)
    OBVIOUS
  <2>. HIDE DEF f
  <2>. QED
    BY <2>1, <2>2
<1>2. 0 \in T
  BY <1>0
<1>3. ASSUME NEW k \in Nat, k \in T PROVE k + 1 \in T
  <2>. SUFFICES ASSUME NEW v \in SwarmId, NEW w \in SwarmId, v <= k + 1
                PROVE  w \in up[v] <=> v = w \/ Through(v, w)
    OBVIOUS
  <2>1. PICK p : p = tree[v].parent
    OBVIOUS
  <2>2. up[v] = {v} \cup (IF p # 0 /\ Asks(p) THEN up[p] ELSE {})
    BY <1>1, <2>1 DEF AboveFrom
  <2>3. p # 0 => p \in SwarmId /\ v \in SwarmRouting!ChildSwarms(p)
                 /\ (w \in up[p] <=> p = w \/ Through(p, w))
    <3>1. p # 0 => p \in SwarmId /\ p \in Nat /\ p < v
      BY <2>1, TreeGoesDown
    <3>2. v \in Nat
      BY <1>0
    <3>3. p # 0 => p \in SwarmId /\ p <= k
      BY <3>1, <3>2
    <3>4. p # 0 => v \in SwarmRouting!ChildSwarms(p)
      BY <2>1, <3>3, TreeGoesDown
    <3>. QED
      BY <1>3, <3>3, <3>4
  <2>. HIDE DEF Asks, T
  <2>4. ASSUME w \in up[v], v # w PROVE Through(v, w)
    <3>1. p # 0 /\ Asks(p) /\ w \in up[p]
      BY <2>2, <2>4
    <3>2. up[p] \subseteq up[v] /\ v \in up[v]
      BY <2>2, <3>1
    <3>. QED
      BY <2>3, <3>1, <3>2
  <2>5. v \in up[v]
    BY <2>2
  <2>6. ASSUME Through(v, w) PROVE w \in up[v]
    <3>1. PICK c \in SwarmRouting!ChildSwarms(w) : c \in up[v]
      BY <2>6
    <3>2. CASE c = v
      <4>1. p = w /\ w # 0
        BY <1>0, <2>1, <3>1, <3>2, TreeGoesDown
      <4>2. w \in up[w]
        BY <1>1 DEF AboveFrom
      <4>. QED
        BY <2>2, <2>6, <4>1, <4>2
    <3>3. CASE c # v
      <4>1. p # 0 /\ Asks(p) /\ c \in up[p]
        BY <2>2, <3>1, <3>3
      <4>2. w \in up[p]
        BY <2>3, <2>6, <4>1
      <4>. QED
        BY <2>2, <4>1, <4>2
    <3>. QED
      BY <3>2, <3>3
  <2>. QED
    BY <2>4, <2>5, <2>6
<1>4. Nat \subseteq T
  <2>. HIDE DEF T
  <2>. QED
    BY <1>2, <1>3, Upwards
<1>5. \A v \in SwarmId, w \in SwarmId : w \in up[v] <=> v = w \/ Through(v, w)
  <2>1. \A v \in SwarmId : v \in T /\ v \in Nat
    BY <1>0, <1>4
  <2>. QED
    BY <2>1
<1>. QED
  BY <1>5

\* The teams a task of a swarm can come down to.
Teams(up, w) ==
  {v \in SwarmRouting!Alive : w \in up[v] /\ SwarmRouting!Hands(v) /\ members[v] # {}}
ComesDown(r, up, w) ==
  /\ r[w] = {} <=> Teams(up, w) = {}
  /\ Teams(up, w) # {} => \E v \in Teams(up, w) : r[w] = members[v]

\* A swarm that asks those below it: its teams are theirs.
LEMMA AsksThoseBelow ==
  ASSUME SwarmsInv, NEW up, IsAbove(up), NEW r, NEW w \in SwarmRouting!Alive,
         tree[w].enabled, tree[w].strategy = "hierarchical", SwarmRouting!ChildSwarms(w) # {},
         r[w] = SwarmRouting!RouteHierarchical(SwarmRouting!ChildSwarms(w), r),
         \A c \in SwarmRouting!ChildSwarms(w) : ComesDown(r, up, c) /\ (~tree[c].enabled => r[c] = {})
  PROVE  ComesDown(r, up, w)
<1>. DEFINE C == SwarmRouting!ChildSwarms(w)
            able == {v \in C : tree[v].enabled /\ r[v] # {}}
            c == SwarmRouting!First(able)
<1>0. w \in SwarmId /\ C \subseteq SwarmId /\ SwarmRouting!Alive \subseteq SwarmId
  BY TreeGoesDown
<1>1. ~SwarmRouting!Hands(w)
  BY DEF SwarmRouting!Hands
<1>2. \A v \in SwarmId : w \in up[v] <=> v = w \/ \E d \in C : d \in up[v]
  BY <1>0, AboveThroughChild
<1>3. \A v : v \in Teams(up, w) <=> \E d \in C : v \in Teams(up, d)
  BY <1>0, <1>1, <1>2 DEF Teams
<1>4. able = {d \in C : Teams(up, d) # {}}
  BY DEF ComesDown
<1>5. /\ able = {} => r[w] = {}
      /\ able # {} => c \in able /\ r[w] = r[c]
  BY <1>0, RouteBelow
<1>. HIDE DEF able, c, C
<1>6. CASE able = {}
  <2>1. Teams(up, w) = {}
    BY <1>3, <1>4, <1>6
  <2>. QED
    BY <1>5, <1>6, <2>1 DEF ComesDown
<1>7. CASE able # {}
  <2>1. c \in C /\ Teams(up, c) # {}
    BY <1>4, <1>5, <1>7
  <2>2. r[c] # {} /\ \E v \in Teams(up, c) : r[c] = members[v]
    BY <2>1 DEF ComesDown, C
  <2>3. PICK v \in Teams(up, c) : r[c] = members[v]
    BY <2>2
  <2>4. v \in Teams(up, w)
    BY <1>3, <2>1
  <2>. QED
    BY <1>5, <1>7, <2>2, <2>3, <2>4 DEF ComesDown
<1>. QED
  BY <1>6, <1>7

\* One that hands the task to its own members.
LEMMA HandsItself ==
  ASSUME SwarmsInv, NEW up, IsAbove(up), NEW r, NEW w \in SwarmRouting!Alive, tree[w].enabled,
         ~(tree[w].strategy = "hierarchical" /\ SwarmRouting!ChildSwarms(w) # {}),
         r[w] = members[w]
  PROVE  ComesDown(r, up, w)
<1>0. w \in SwarmId /\ SwarmRouting!Alive \subseteq SwarmId
  BY TreeGoesDown
<1>1. SwarmRouting!Hands(w)
  BY DEF SwarmRouting!Hands
<1>2. \A v \in SwarmId : w \in up[v] <=> v = w
  BY <1>0, AboveThroughChild
<1>3. \A v : v \in Teams(up, w) <=> v = w /\ members[w] # {}
  BY <1>0, <1>1, <1>2 DEF Teams
<1>. QED
  BY <1>3 DEF ComesDown

\* One that is off takes no task, and none comes down through it.
LEMMA OffTakesNothing ==
  ASSUME SwarmsInv, NEW up, IsAbove(up), NEW r, NEW w \in SwarmRouting!Alive, ~tree[w].enabled,
         r[w] = {}
  PROVE  ComesDown(r, up, w)
<1>0. w \in SwarmId /\ SwarmRouting!Alive \subseteq SwarmId
  BY TreeGoesDown
<1>1. ~SwarmRouting!Hands(w)
  BY DEF SwarmRouting!Hands
<1>2. \A v \in SwarmId : w \in up[v] <=> v = w
  BY <1>0, AboveThroughChild
<1>3. Teams(up, w) = {}
  BY <1>0, <1>1, <1>2 DEF Teams
<1>. QED
  BY <1>3 DEF ComesDown

\* A task given to a swarm comes to the members of a team at or below it, if there is one.
LEMMA EveryTaskComesDown ==
  ASSUME SwarmsInv, NEW r, IsRoute(r), NEW up, IsAbove(up)
  PROVE  \A w \in SwarmRouting!Alive : ComesDown(r, up, w)
<1>. DEFINE T == {k \in Nat : \A w \in SwarmRouting!Alive : w > MaxSwarms - k => ComesDown(r, up, w)}
<1>0. /\ MaxSwarms \in Nat /\ SwarmId = 1 .. MaxSwarms /\ SwarmRouting!Alive \subseteq SwarmId
      /\ \A w \in SwarmId : w \in Nat /\ w <= MaxSwarms /\ w > 0
  BY TreeGoesDown
<1>1. \A w \in SwarmId : r[w] = RouteFrom(w, r)
  <2>. DEFINE f == [w \in SwarmId |-> RouteFrom(w, r)]
  <2>1. r = f
    BY DEF IsRoute
  <2>2. \A w \in SwarmId : f[w] = RouteFrom(w, r)
    OBVIOUS
  <2>. HIDE DEF f
  <2>. QED
    BY <2>1, <2>2
<1>2. 0 \in T
  BY <1>0
<1>3. ASSUME NEW k \in Nat, k \in T PROVE k + 1 \in T
  <2>. SUFFICES ASSUME NEW w \in SwarmRouting!Alive, w > MaxSwarms - (k + 1)
                PROVE  ComesDown(r, up, w)
    OBVIOUS
  <2>1. w \in SwarmId /\ r[w] = RouteFrom(w, r)
    BY <1>0, <1>1
  <2>2. \A c \in SwarmRouting!ChildSwarms(w) : c \in SwarmRouting!Alive /\ c \in SwarmId /\ w < c
    BY <2>1, TreeGoesDown DEF SwarmRouting!ChildSwarms
  <2>3. \A c \in SwarmRouting!ChildSwarms(w) : ComesDown(r, up, c)
    <3>1. \A c \in SwarmRouting!ChildSwarms(w) : c > MaxSwarms - k
      BY <1>0, <2>1, <2>2
    <3>. QED
      BY <1>3, <2>2, <3>1
  <2>4. \A c \in SwarmRouting!ChildSwarms(w) : ~tree[c].enabled => r[c] = {}
    BY <1>1, <2>2 DEF RouteFrom
  <2>5. CASE ~tree[w].enabled
    BY <2>1, <2>5, OffTakesNothing DEF RouteFrom
  <2>6. CASE tree[w].enabled /\ tree[w].strategy = "hierarchical" /\ SwarmRouting!ChildSwarms(w) # {}
    <3>1. r[w] = SwarmRouting!RouteHierarchical(SwarmRouting!ChildSwarms(w), r)
      BY <2>1, <2>6 DEF RouteFrom
    <3>. QED
      BY <2>3, <2>4, <2>6, <3>1, AsksThoseBelow
  <2>7. CASE tree[w].enabled /\ ~(tree[w].strategy = "hierarchical" /\ SwarmRouting!ChildSwarms(w) # {})
    <3>1. r[w] = members[w]
      BY <2>1, <2>7 DEF RouteFrom, SwarmRouting!RouteByFitness
    <3>. QED
      BY <2>7, <3>1, HandsItself
  <2>. QED
    BY <2>5, <2>6, <2>7
<1>4. Nat \subseteq T
  <2>. HIDE DEF T
  <2>. QED
    BY <1>2, <1>3, Upwards
<1>5. MaxSwarms \in T
  BY <1>0, <1>4
<1>. QED
  BY <1>0, <1>5

\* What SwarmsInv says of the tree is what the runs check of the router.
LEMMA SwarmsAreRouted ==
  ASSUME SwarmsInv PROVE SwarmRouting!RefusedOnlyWhenEmpty /\ SwarmRouting!SwarmsTypeOK
<1>. DEFINE r == SwarmRouting!RouteTask
            up == SwarmRouting!Above
<1>1. \A w \in SwarmRouting!Alive : ComesDown(r, up, w)
  <2>1. IsRoute(r) /\ IsAbove(up)
    BY RouterIs
  <2>. HIDE DEF r, up
  <2>. QED
    BY <2>1, EveryTaskComesDown
<1>2. SwarmRouting!RefusedOnlyWhenEmpty
  <2>1. \A w \in SwarmRouting!Alive :
          /\ (r[w] = {}) = (Teams(up, w) = {})
          /\ Teams(up, w) # {} => \E v \in Teams(up, w) : r[w] = members[v]
    BY <1>1 DEF ComesDown
  <2>. QED
    BY <2>1 DEF SwarmRouting!RefusedOnlyWhenEmpty, Teams
<1>3. \A w \in SwarmId : tree[w].parent \in 0 .. (w - 1) /\ tree[w].strategy \in SwarmRouting!Strategies
  <2>1. \A w \in SwarmId : tree[w] \in SwarmNode
    BY DEF SwarmsInv
  <2>2. \A w \in SwarmId : w \in Nat /\ tree[w].parent \in Nat /\ tree[w].parent < w
    BY TreeGoesDown
  <2>. QED
    BY <2>1, <2>2 DEF SwarmNode
<1>. QED
  BY <1>2, <1>3 DEF SwarmRouting!SwarmsTypeOK, SwarmsInv, SwarmId

(****************************************************************************)
(* Swarms as a whole.                                                       *)
(****************************************************************************)
\* What an experiment reverts is gone and what it accepts stays; a task given
\* to a swarm is refused only when no team below it could take it; a swarm
\* keeps to its size and its last switch; a score is of the agent it is
\* written for; and of a round of weights the fitter member never loses to one
\* less fit, with at most a quarter moved either way.
THEOREM SwarmsAlwaysFair == Spec => []SwarmsAreFair
<1>1. FitnessInv => SwarmRouting!BreakdownIsOwn /\ SwarmRouting!ReportsStay /\ SwarmRouting!ScoresAreOwn
  BY DEF FitnessInv, SwarmRouting!ReportsStay
<1>2. ExperimentsInv /\ SwarmsInv /\ SwarmMembersInv /\ FitnessInv /\ WeightsInv => SwarmsAreFair
  BY <1>1, ExperimentsAreFair, SwarmsAreRouted, SwarmMembersAreWithin, WeightsAreFair DEF SwarmsAreFair
<1>. QED
  BY <1>2, ExperimentsHold, SwarmsHold, SwarmMembersHold, FitnessHolds, WeightsHold, PTL

(****************************************************************************)
(* The stream of an answer.                                                 *)
(****************************************************************************)
\* q lists the numbers of S, the smaller ones first.
Enumerates(q, S) ==
  /\ q \in Seq(S)
  /\ \A j, k \in DOMAIN q : j < k => q[j] < q[k]
  /\ \A x \in S : \E k \in DOMAIN q : q[k] = x

\* An enumeration is as long as its set is large.
LEMMA EnumeratesAsMany ==
  ASSUME NEW S \in SUBSET Nat, NEW q, Enumerates(q, S)
  PROVE  /\ Len(q) \in Nat /\ Len(q) = Cardinality(S) /\ IsFiniteSet(S)
         /\ q \in [1 .. Cardinality(S) -> S]
<1>1. PICK n \in Nat : n = Len(q) /\ q \in [1 .. n -> S] /\ DOMAIN q = 1 .. n
  BY DEF Enumerates
<1>2. \A j, k \in 1 .. n : q[j] = q[k] => j = k
  <2>1. \A j, k \in 1 .. n : j < k => q[j] < q[k] /\ q[j] \in Nat /\ q[k] \in Nat
    BY <1>1 DEF Enumerates
  <2>. QED
    BY <2>1
<1>3. q \in Bijection(1 .. n, S)
  BY <1>1, <1>2 DEF Enumerates, Bijection, Injection, Surjection, IsInjective
<1>4. ExistsBijection(1 .. n, S)
  BY <1>3 DEF ExistsBijection
<1>. QED
  BY <1>1, <1>4, FS_CountingElements, FS_NatBijection

\* There is one enumeration of a set of naturals in order.
LEMMA EnumerationsAgree ==
  ASSUME NEW S \in SUBSET Nat, NEW n \in Nat, NEW a \in [1 .. n -> S], NEW b \in [1 .. n -> S],
         \A j, k \in 1 .. n : j < k => a[j] < a[k], \A x \in S : \E k \in 1 .. n : a[k] = x,
         \A j, k \in 1 .. n : j < k => b[j] < b[k], \A x \in S : \E k \in 1 .. n : b[k] = x
  PROVE  a = b
<1>. DEFINE T == {k \in Nat : \A j \in 1 .. n : j <= k => a[j] = b[j]}
<1>1. 0 \in T
  OBVIOUS
<1>2. ASSUME NEW k \in Nat, k \in T PROVE k + 1 \in T
  <2>. SUFFICES ASSUME k + 1 \in 1 .. n PROVE a[k + 1] = b[k + 1]
    BY <1>2
  <2>1. PICK i \in 1 .. n : i = k + 1
    OBVIOUS
  <2>2. PICK c \in 1 .. n : a[c] = b[i]
    OBVIOUS
  <2>3. PICK d \in 1 .. n : b[d] = a[i]
    OBVIOUS
  <2>4. \A j \in 1 .. n : j < i => a[j] = b[j]
    BY <1>2, <2>1
  <2>5. \A j \in 1 .. n : a[j] \in Nat /\ b[j] \in Nat
    OBVIOUS
  <2>6. ~(c < i)
    <3>1. c < i => a[c] = b[c] /\ b[c] < b[i]
      BY <2>4
    <3>. QED
      BY <2>2, <2>5, <3>1
  <2>7. ~(d < i)
    <3>1. d < i => a[d] = b[d] /\ a[d] < a[i]
      BY <2>4
    <3>. QED
      BY <2>3, <2>5, <3>1
  <2>8. a[i] <= b[i]
    <3>1. c = i \/ i < c
      BY <2>6
    <3>2. i < c => a[i] < a[c]
      OBVIOUS
    <3>3. a[i] \in Nat /\ a[c] \in Nat /\ b[i] \in Nat
      BY <2>5
    <3>. QED
      BY <2>2, <3>1, <3>2, <3>3
  <2>9. b[i] <= a[i]
    <3>1. d = i \/ i < d
      BY <2>7
    <3>2. i < d => b[i] < b[d]
      OBVIOUS
    <3>3. b[i] \in Nat /\ b[d] \in Nat /\ a[i] \in Nat
      BY <2>5
    <3>. QED
      BY <2>3, <3>1, <3>2, <3>3
  <2>. QED
    BY <2>1, <2>5, <2>8, <2>9
<1>3. Nat \subseteq T
  <2>. HIDE DEF T
  <2>. QED
    BY <1>1, <1>2, Upwards
<1>4. \A j \in 1 .. n : a[j] = b[j]
  BY <1>3
<1>. QED
  BY <1>4

\* There is one way to list numbers in their order, and InOrder is it.
LEMMA InOrderIs ==
  ASSUME NEW S \in SUBSET Nat, NEW q, Enumerates(q, S) PROVE AgentProxy!InOrder(S) = q
<1>. DEFINE Sorted(s) == \A i, j \in DOMAIN s : i < j => s[i] < s[j]
<1>1. PICK n \in Nat : n = Cardinality(S) /\ Len(q) = n /\ q \in [1 .. n -> S] /\ IsFiniteSet(S)
  BY EnumeratesAsMany
<1>2. Sorted(q)
  BY DEF Enumerates
<1>3. AgentProxy!InOrder(S) = CHOOSE s \in [1 .. n -> S] : Sorted(s)
  <2>1. AgentProxy!Cardinality(S) = n
    BY <1>1 DEF AgentProxy!Cardinality, Cardinality
  <2>. QED
    BY <2>1 DEF AgentProxy!InOrder
<1>. DEFINE o == AgentProxy!InOrder(S)
<1>4. o \in [1 .. n -> S] /\ Sorted(o)
  BY <1>1, <1>2, <1>3
<1>. HIDE DEF o
<1>5. \A j, k \in 1 .. n : j < k => o[j] < o[k]
  BY <1>4
<1>6. \A x \in S : \E k \in 1 .. n : o[k] = x
  <2>1. \A j, k \in 1 .. n : o[j] = o[k] => j = k
    <3>1. \A j, k \in 1 .. n : j < k => o[j] < o[k] /\ o[j] \in Nat /\ o[k] \in Nat
      BY <1>4, <1>5
    <3>. QED
      BY <3>1
  <2>2. o \in Injection(1 .. n, S)
    BY <1>4, <2>1 DEF Injection, IsInjective
  <2>3. Cardinality(1 .. n) = Cardinality(S)
    <3>1. 1 \in Int /\ n \in Int
      OBVIOUS
    <3>2. Cardinality(1 .. n) = IF 1 > n THEN 0 ELSE n - 1 + 1
      BY <3>1, FS_Interval
    <3>. QED
      BY <1>1, <3>2
  <2>4. o \in Surjection(1 .. n, S)
    BY <1>1, <2>2, <2>3, FS_Injection
  <2>. QED
    BY <2>4 DEF Surjection
<1>7. /\ \A j, k \in 1 .. n : j < k => q[j] < q[k]
      /\ \A x \in S : \E k \in 1 .. n : q[k] = x
  BY <1>1, <1>2 DEF Enumerates
<1>8. o = q
  BY <1>1, <1>4, <1>5, <1>6, <1>7, EnumerationsAgree
<1>. QED
  BY <1>8 DEF o

StreamTool == [start : Nat, inputs : Seq(Nat)]
StreamEvent == [kind : {"text", "tool", "usage", "error", "stop"}, of : Nat, inputs : Seq(Nat)]
StreamAnswer == [state : {"waits", "answered", "failed"}, text : Seq(Nat),
                 tools : Seq(Nat \X Seq(Nat)), usage : Nat]

\* The block of a tool that is open after the first m frames.
OpenAt(fr, m) ==
  {i \in DOMAIN fr : /\ i <= m /\ fr[i] = "toolStart"
                     /\ \A j \in DOMAIN fr : fr[j] = "blockStop" => ~(i < j /\ j <= m)}
Starts(fr) == {i \in DOMAIN fr : fr[i] = "toolStart"}
Stops(fr) == {i \in DOMAIN fr : fr[i] = "blockStop"}

\* What the service sends: no two blocks are open at a time, and an exception
\* is the last it says.
FramesInv(fr, state) ==
  /\ fr \in Seq(AgentProxy!FrameKinds) /\ Len(fr) <= MaxFrames
  /\ state \in {"open", "closed", "read", "broken"}
  /\ \A i \in DOMAIN fr : fr[i] \in {"input", "blockStop"} => OpenAt(fr, i - 1) # {}
  /\ \A i \in DOMAIN fr : fr[i] \in {"text", "usage", "toolStart"} => OpenAt(fr, i - 1) = {}
  /\ \A i \in DOMAIN fr : fr[i] = "exception" => i = Len(fr) /\ state # "open"
  /\ Cardinality(Starts(fr)) = Cardinality(Stops(fr)) + (IF OpenAt(fr, Len(fr)) = {} THEN 0 ELSE 1)
  /\ state \in {"closed", "read"} /\ OpenAt(fr, Len(fr)) # {} =>
       \E i \in DOMAIN fr : fr[i] = "exception"

\* The inputs are all of those of the tool that starts at i.
WholeTool(fr, i, inputs) ==
  /\ i \in DOMAIN fr /\ fr[i] = "toolStart"
  /\ \E j \in DOMAIN fr :
       /\ fr[j] = "blockStop" /\ i < j
       /\ \A l \in DOMAIN fr : fr[l] = "blockStop" => ~(i < l /\ l < j)
       /\ Enumerates(inputs, {l \in DOMAIN fr : fr[l] = "input" /\ i < l /\ l < j})

\* The frames among the first m of which there was an event.
Emitted(fr, m) ==
  {i \in DOMAIN fr :
     /\ i <= m
     /\ \/ fr[i] \in {"text", "usage", "exception"}
        \/ /\ fr[i] = "toolStart"
           /\ \E j \in DOMAIN fr : fr[j] = "blockStop" /\ i < j /\ j <= m}

EventFits(fr, e) ==
  \/ fr[e.of] \in {"text", "usage"} /\ e.kind = fr[e.of]
  \/ fr[e.of] = "exception" /\ e.kind = "error"
  \/ e.kind = "tool" /\ WholeTool(fr, e.of, e.inputs)

ToolInv(fr, call, m) ==
  /\ call \in StreamTool
  /\ call.start = 0 => call.inputs = <<>> /\ OpenAt(fr, m) = {}
  /\ call.start # 0 =>
       /\ call.start \in OpenAt(fr, m)
       /\ Enumerates(call.inputs, {l \in DOMAIN fr : fr[l] = "input" /\ call.start < l /\ l <= m})

\* The answer has the frame, or an event later than i is later than all it has.
Taken(fr, a, i) ==
  \/ \E k \in DOMAIN a.text : a.text[k] = i
  \/ \E k \in DOMAIN a.tools : a.tools[k][1] = i
  \/ fr[i] = "usage" /\ i <= a.usage
  \/ fr[i] = "exception" /\ a.state = "failed"
LaterThanTaken(a, i) ==
  /\ \A k \in DOMAIN a.text : a.text[k] < i
  /\ \A k \in DOMAIN a.tools : a.tools[k][1] < i
  /\ a.usage < i

AnswerInv(fr, a, m) ==
  /\ a \in StreamAnswer
  /\ \A j, k \in DOMAIN a.text : j < k => a.text[j] < a.text[k]
  /\ \A k \in DOMAIN a.text : a.text[k] \in Emitted(fr, m) /\ fr[a.text[k]] = "text"
  /\ \A j, k \in DOMAIN a.tools : j < k => a.tools[j][1] < a.tools[k][1]
  /\ \A k \in DOMAIN a.tools : a.tools[k][1] \in Emitted(fr, m) /\ WholeTool(fr, a.tools[k][1], a.tools[k][2])
  /\ a.usage # 0 => a.usage \in Emitted(fr, m) /\ fr[a.usage] = "usage"

OutInv(fr, a, out, m) ==
  /\ out \in Seq(StreamEvent)
  /\ \A k \in DOMAIN out : out[k].kind # "stop" =>
       out[k].of \in Emitted(fr, m) /\ EventFits(fr, out[k]) /\ LaterThanTaken(a, out[k].of)
  /\ \A j, k \in DOMAIN out : j < k =>
       out[j].kind # "stop" /\ (out[k].kind # "stop" => out[j].of < out[k].of)
  /\ \A i \in Emitted(fr, m) :
       Taken(fr, a, i) \/ \E k \in DOMAIN out : out[k].kind # "stop" /\ out[k].of = i
NoStop(out) == \A k \in DOMAIN out : out[k].kind # "stop"

StreamIs(fr, state, n, call, out, a) ==
  /\ FramesInv(fr, state)
  /\ n \in Nat /\ n <= 2 * Len(fr)
  /\ ToolInv(fr, call, n \div 2)
  /\ AnswerInv(fr, a, n \div 2)
  /\ OutInv(fr, a, out, n \div 2)
  /\ ~NoStop(out) => state = "read" /\ n = 2 * Len(fr)
  /\ a.state = "answered" /\ state # "broken" => out = <<>> /\ state = "read" /\ n = 2 * Len(fr)

StreamInv ==
  /\ wire = [frames |-> wire.frames, state |-> wire.state]
  /\ StreamIs(wire.frames, wire.state, arrived, parser, events, answer)

\* One more frame leaves the earlier ones in place.
LEMMA FramesGrow ==
  ASSUME NEW fr \in Seq(AgentProxy!FrameKinds), NEW kind \in AgentProxy!FrameKinds
  PROVE  LET new == Append(fr, kind)
             n == Len(fr)
         IN  /\ new \in Seq(AgentProxy!FrameKinds) /\ n \in Nat /\ Len(new) = n + 1
             /\ DOMAIN fr = 1 .. n /\ DOMAIN new = 1 .. (n + 1) /\ new[n + 1] = kind
             /\ \A i \in 1 .. n : new[i] = fr[i]
             /\ \A m \in 0 .. n : OpenAt(new, m) = OpenAt(fr, m) /\ Emitted(new, m) = Emitted(fr, m)
             /\ OpenAt(new, n + 1) = IF kind = "toolStart" THEN OpenAt(fr, n) \cup {n + 1}
                                     ELSE IF kind = "blockStop" THEN {} ELSE OpenAt(fr, n)
             /\ Starts(new) = IF kind = "toolStart" THEN Starts(fr) \cup {n + 1} ELSE Starts(fr)
             /\ Stops(new) = IF kind = "blockStop" THEN Stops(fr) \cup {n + 1} ELSE Stops(fr)
             /\ \A i, inputs : WholeTool(fr, i, inputs) => WholeTool(new, i, inputs)
<1>. DEFINE new == Append(fr, kind)
            n == Len(fr)
<1>1. /\ new \in Seq(AgentProxy!FrameKinds) /\ n \in Nat /\ Len(new) = n + 1
      /\ DOMAIN fr = 1 .. n /\ DOMAIN new = 1 .. (n + 1) /\ new[n + 1] = kind
      /\ \A i \in 1 .. n : new[i] = fr[i]
  OBVIOUS
<1>. HIDE DEF new, n
<1>2. n + 1 \notin 1 .. n /\ 1 .. (n + 1) = (1 .. n) \cup {n + 1}
  BY <1>1
<1>3. ASSUME NEW m \in 0 .. n
      PROVE  OpenAt(new, m) = OpenAt(fr, m) /\ Emitted(new, m) = Emitted(fr, m)
  <2>1. ~(n + 1 <= m)
    BY <1>1
  <2>2. OpenAt(new, m) = OpenAt(fr, m)
    BY <1>1, <1>2, <2>1 DEF OpenAt
  <2>3. Emitted(new, m) = Emitted(fr, m)
    BY <1>1, <1>2, <2>1 DEF Emitted
  <2>. QED
    BY <2>2, <2>3
<1>4. OpenAt(new, n + 1) = IF kind = "toolStart" THEN OpenAt(fr, n) \cup {n + 1}
                           ELSE IF kind = "blockStop" THEN {} ELSE OpenAt(fr, n)
  <2>1. \A i \in 1 .. n : i <= n /\ i <= n + 1 /\ i < n + 1 /\ ~(n + 1 < i)
    BY <1>1
  <2>2. ~(n + 1 < n + 1) /\ n + 1 <= n + 1
    BY <1>1
  <2>3. CASE kind = "toolStart"
    BY <1>1, <1>2, <2>1, <2>2, <2>3 DEF OpenAt
  <2>4. CASE kind = "blockStop"
    BY <1>1, <1>2, <2>1, <2>2, <2>4 DEF OpenAt
  <2>5. CASE kind \notin {"toolStart", "blockStop"}
    BY <1>1, <1>2, <2>1, <2>2, <2>5 DEF OpenAt
  <2>. QED
    BY <2>3, <2>4, <2>5
<1>5. /\ Starts(new) = IF kind = "toolStart" THEN Starts(fr) \cup {n + 1} ELSE Starts(fr)
      /\ Stops(new) = IF kind = "blockStop" THEN Stops(fr) \cup {n + 1} ELSE Stops(fr)
  BY <1>1, <1>2 DEF Starts, Stops
<1>6. ASSUME NEW i, NEW inputs, WholeTool(fr, i, inputs) PROVE WholeTool(new, i, inputs)
  <2>1. i \in 1 .. n /\ fr[i] = "toolStart"
    BY <1>1, <1>6 DEF WholeTool
  <2>2. PICK j \in 1 .. n :
          /\ fr[j] = "blockStop" /\ i < j
          /\ \A l \in 1 .. n : fr[l] = "blockStop" => ~(i < l /\ l < j)
          /\ Enumerates(inputs, {l \in 1 .. n : fr[l] = "input" /\ i < l /\ l < j})
    BY <1>1, <1>6 DEF WholeTool
  <2>3. ~(n + 1 < j)
    BY <1>1
  <2>4. {l \in 1 .. n : fr[l] = "input" /\ i < l /\ l < j}
          = {l \in 1 .. (n + 1) : new[l] = "input" /\ i < l /\ l < j}
    BY <1>1, <1>2, <2>3
  <2>5. \A l \in 1 .. (n + 1) : new[l] = "blockStop" => ~(i < l /\ l < j)
    BY <1>1, <1>2, <2>2, <2>3
  <2>6. i \in 1 .. (n + 1) /\ new[i] = "toolStart" /\ j \in 1 .. (n + 1) /\ new[j] = "blockStop"
    BY <1>1, <1>2, <2>1, <2>2
  <2>7. Enumerates(inputs, {l \in 1 .. (n + 1) : new[l] = "input" /\ i < l /\ l < j})
    BY <2>2, <2>4
  <2>. QED
    BY <1>1, <2>2, <2>5, <2>6, <2>7 DEF WholeTool
<1>. QED
  BY <1>1, <1>3, <1>4, <1>5, <1>6 DEF new, n

\* What has been parsed, taken and put out stays so when a frame is sent.
LEMMA SentChangesNothing ==
  ASSUME NEW fr \in Seq(AgentProxy!FrameKinds), NEW kind \in AgentProxy!FrameKinds,
         NEW m \in 0 .. Len(fr), NEW call, NEW a, NEW out,
         ToolInv(fr, call, m), AnswerInv(fr, a, m), OutInv(fr, a, out, m)
  PROVE  LET new == Append(fr, kind)
         IN  ToolInv(new, call, m) /\ AnswerInv(new, a, m) /\ OutInv(new, a, out, m)
<1>. DEFINE new == Append(fr, kind)
<1>0. /\ Len(fr) \in Nat /\ DOMAIN fr = 1 .. Len(fr) /\ DOMAIN new = 1 .. (Len(fr) + 1)
      /\ \A i \in 1 .. Len(fr) : new[i] = fr[i]
      /\ \A p \in 0 .. Len(fr) : OpenAt(new, p) = OpenAt(fr, p) /\ Emitted(new, p) = Emitted(fr, p)
      /\ \A i, inputs : WholeTool(fr, i, inputs) => WholeTool(new, i, inputs)
  BY FramesGrow
<1>. HIDE DEF new
<1>1. PICK n \in Nat :
        /\ n = Len(fr) /\ DOMAIN fr = 1 .. n /\ DOMAIN new = 1 .. (n + 1)
        /\ \A i \in 1 .. n : new[i] = fr[i]
        /\ OpenAt(new, m) = OpenAt(fr, m) /\ Emitted(new, m) = Emitted(fr, m)
        /\ \A i, inputs : WholeTool(fr, i, inputs) => WholeTool(new, i, inputs)
  BY <1>0
<1>2. \A i \in Emitted(fr, m) : i \in 1 .. n
  BY <1>1 DEF Emitted
<1>3. \A i \in Emitted(fr, m) : fr[i] = new[i]
  BY <1>1, <1>2
<1>4. ToolInv(new, call, m)
  <2>1. m \in Nat /\ m <= n
    BY <1>1
  <2>2. \A s : {l \in 1 .. n : fr[l] = "input" /\ s < l /\ l <= m}
                 = {l \in 1 .. (n + 1) : new[l] = "input" /\ s < l /\ l <= m}
    <3>1. ~(n + 1 <= m) /\ 1 .. (n + 1) = (1 .. n) \cup {n + 1}
      BY <2>1
    <3>. QED
      BY <1>1, <3>1
  <2>. QED
    BY <1>1, <2>2 DEF ToolInv
<1>5. AnswerInv(new, a, m)
  BY <1>1, <1>3 DEF AnswerInv
<1>6. OutInv(new, a, out, m)
  <2>1. \A i \in Emitted(fr, m) : Taken(fr, a, i) => Taken(new, a, i)
    BY <1>3 DEF Taken
  <2>2. \A k \in DOMAIN out : out[k].kind # "stop" => EventFits(new, out[k])
    BY <1>1, <1>3 DEF EventFits, OutInv
  <2>. QED
    BY <1>1, <2>1, <2>2 DEF OutInv
<1>. QED
  BY <1>4, <1>5, <1>6 DEF new

\* The service sends what the frames before allow.
LEMMA FramesSend ==
  ASSUME NEW fr, FramesInv(fr, "open"), Len(fr) < MaxFrames,
         NEW kind \in AgentProxy!FrameKinds,
         kind \in (IF Cardinality(Starts(fr)) > Cardinality(Stops(fr))
                     THEN {"input", "blockStop", "exception"}
                     ELSE {"text", "toolStart", "usage", "exception"})
  PROVE  FramesInv(Append(fr, kind), IF kind = "exception" THEN "closed" ELSE "open")
<1>. DEFINE new == Append(fr, kind)
            st == IF kind = "exception" THEN "closed" ELSE "open"
<1>0. MaxFrames \in Nat
  BY ConstantsOfPolicy
<1>1. fr \in Seq(AgentProxy!FrameKinds)
  BY DEF FramesInv
<1>2. /\ new \in Seq(AgentProxy!FrameKinds) /\ Len(fr) \in Nat /\ Len(new) = Len(fr) + 1
      /\ DOMAIN fr = 1 .. Len(fr) /\ DOMAIN new = 1 .. (Len(fr) + 1) /\ new[Len(fr) + 1] = kind
      /\ \A i \in 1 .. Len(fr) : new[i] = fr[i]
      /\ \A m \in 0 .. Len(fr) : OpenAt(new, m) = OpenAt(fr, m) /\ Emitted(new, m) = Emitted(fr, m)
      /\ OpenAt(new, Len(fr) + 1) = IF kind = "toolStart" THEN OpenAt(fr, Len(fr)) \cup {Len(fr) + 1}
                                    ELSE IF kind = "blockStop" THEN {} ELSE OpenAt(fr, Len(fr))
      /\ Starts(new) = IF kind = "toolStart" THEN Starts(fr) \cup {Len(fr) + 1} ELSE Starts(fr)
      /\ Stops(new) = IF kind = "blockStop" THEN Stops(fr) \cup {Len(fr) + 1} ELSE Stops(fr)
  BY <1>1, FramesGrow
<1>. HIDE DEF new
<1>3. PICK n \in Nat : n = Len(fr)
  BY <1>2
<1>4. /\ IsFiniteSet(Starts(fr)) /\ IsFiniteSet(Stops(fr))
      /\ Cardinality(Starts(fr)) \in Nat /\ Cardinality(Stops(fr)) \in Nat
  <2>1. IsFiniteSet(1 .. n)
    <3>1. 1 \in Int /\ n \in Int
      OBVIOUS
    <3>. QED
      BY <3>1, FS_Interval
  <2>2. Starts(fr) \in SUBSET (1 .. n) /\ Stops(fr) \in SUBSET (1 .. n)
    BY <1>2, <1>3 DEF Starts, Stops
  <2>. QED
    BY <2>1, <2>2, FS_Subset, FS_CardinalityType
<1>5. n + 1 \notin Starts(fr) /\ n + 1 \notin Stops(fr)
  BY <1>2, <1>3 DEF Starts, Stops
<1>6. /\ Cardinality(Starts(fr) \cup {n + 1}) = Cardinality(Starts(fr)) + 1
      /\ Cardinality(Stops(fr) \cup {n + 1}) = Cardinality(Stops(fr)) + 1
  BY <1>4, <1>5, FS_AddElement, Zenon
<1>7. Cardinality(Starts(fr)) = Cardinality(Stops(fr)) + (IF OpenAt(fr, n) = {} THEN 0 ELSE 1)
  BY <1>3 DEF FramesInv
<1>8. /\ OpenAt(fr, n) # {} => kind \in {"input", "blockStop", "exception"}
      /\ OpenAt(fr, n) = {} => kind \in {"text", "toolStart", "usage", "exception"}
  BY <1>4, <1>7
<1>9. Cardinality(Starts(new)) = Cardinality(Stops(new)) + (IF OpenAt(new, n + 1) = {} THEN 0 ELSE 1)
  <2>1. CASE kind = "toolStart"
    BY <1>2, <1>3, <1>4, <1>6, <1>7, <1>8, <2>1
  <2>2. CASE kind = "blockStop"
    BY <1>2, <1>3, <1>4, <1>6, <1>7, <1>8, <2>2
  <2>3. CASE kind \notin {"toolStart", "blockStop"}
    BY <1>2, <1>3, <1>7, <2>3
  <2>. QED
    BY <2>1, <2>2, <2>3
<1>10. \A i \in 1 .. n : i - 1 \in 0 .. n /\ OpenAt(new, i - 1) = OpenAt(fr, i - 1)
  BY <1>2, <1>3
<1>11. (n + 1) - 1 = n /\ n \in 0 .. n /\ OpenAt(new, n) = OpenAt(fr, n)
       /\ 1 .. (n + 1) = (1 .. n) \cup {n + 1}
  BY <1>2, <1>3
<1>12. /\ \A i \in DOMAIN new : new[i] \in {"input", "blockStop"} => OpenAt(new, i - 1) # {}
       /\ \A i \in DOMAIN new : new[i] \in {"text", "usage", "toolStart"} => OpenAt(new, i - 1) = {}
  BY <1>2, <1>3, <1>8, <1>10, <1>11 DEF FramesInv
<1>13. \A i \in DOMAIN new : new[i] = "exception" => i = Len(new) /\ st # "open"
  <2>1. \A i \in 1 .. n : fr[i] # "exception"
    BY <1>2, <1>3 DEF FramesInv
  <2>. QED
    BY <1>2, <1>3, <1>11, <2>1
<1>14. st \in {"closed", "read"} /\ OpenAt(new, Len(new)) # {} => \E i \in DOMAIN new : new[i] = "exception"
  <2>1. st \in {"closed", "read"} => new[n + 1] = "exception" /\ n + 1 \in DOMAIN new
    BY <1>2, <1>3
  <2>. QED
    BY <2>1
<1>15. Len(new) <= MaxFrames
  BY <1>0, <1>2, <1>3
<1>16. Len(new) = n + 1
  BY <1>2, <1>3
<1>17. FramesInv(new, st)
  <2>1. st \in {"open", "closed", "read", "broken"}
    OBVIOUS
  <2>. HIDE DEF st
  <2>. QED
    BY <1>2, <1>9, <1>12, <1>13, <1>14, <1>15, <1>16, <2>1 DEF FramesInv
<1>. QED
  BY <1>17 DEF new

\* A frame that the model sends keeps the stream's invariant.
LEMMA SendKeeps ==
  ASSUME NEW fr, NEW n, NEW call, NEW out, NEW a, StreamIs(fr, "open", n, call, out, a),
         Len(fr) < MaxFrames, NEW kind \in AgentProxy!FrameKinds,
         kind \in (IF Cardinality(Starts(fr)) > Cardinality(Stops(fr))
                     THEN {"input", "blockStop", "exception"}
                     ELSE {"text", "toolStart", "usage", "exception"})
  PROVE  StreamIs(Append(fr, kind), IF kind = "exception" THEN "closed" ELSE "open", n, call, out, a)
<1>. DEFINE new == Append(fr, kind)
            st == IF kind = "exception" THEN "closed" ELSE "open"
<1>1. /\ FramesInv(fr, "open") /\ n \in Nat /\ n <= 2 * Len(fr)
      /\ ToolInv(fr, call, n \div 2) /\ AnswerInv(fr, a, n \div 2) /\ OutInv(fr, a, out, n \div 2)
      /\ NoStop(out) /\ a.state # "answered"
  BY DEF StreamIs
<1>2. fr \in Seq(AgentProxy!FrameKinds) /\ Len(fr) \in Nat /\ Len(new) = Len(fr) + 1
  BY <1>1 DEF FramesInv
<1>3. n \div 2 \in 0 .. Len(fr) /\ n <= 2 * Len(new)
  BY <1>1, <1>2
<1>4. FramesInv(new, st)
  BY <1>1, FramesSend
<1>5. ToolInv(new, call, n \div 2) /\ AnswerInv(new, a, n \div 2) /\ OutInv(new, a, out, n \div 2)
  BY <1>1, <1>2, <1>3, SentChangesNothing
<1>. HIDE DEF new, st
<1>6. StreamIs(new, st, n, call, out, a)
  BY <1>1, <1>3, <1>4, <1>5 DEF StreamIs
<1>. QED
  BY <1>6 DEF new, st

\* At most one block is open.
LEMMA OneIsOpen ==
  ASSUME NEW fr, NEW st, FramesInv(fr, st), NEW m \in Nat,
         NEW i \in OpenAt(fr, m)
  PROVE  /\ i \in DOMAIN fr /\ i \in Nat \ {0} /\ i <= m /\ fr[i] = "toolStart"
         /\ \A l \in DOMAIN fr : i < l /\ l <= m => fr[l] \in {"input", "exception"}
         /\ OpenAt(fr, m) = {i}
<1>1. PICK n \in Nat : n = Len(fr) /\ DOMAIN fr = 1 .. n /\ fr \in Seq(AgentProxy!FrameKinds)
  BY DEF FramesInv
<1>2. /\ i \in 1 .. n /\ i <= m /\ fr[i] = "toolStart"
      /\ \A j \in 1 .. n : fr[j] = "blockStop" => ~(i < j /\ j <= m)
  BY <1>1 DEF OpenAt
<1>3. ASSUME NEW l \in 1 .. n, i < l, l <= m PROVE fr[l] \in {"input", "exception"}
  <2>1. i <= l - 1 /\ \A j \in 1 .. n : j <= l - 1 => j <= m
    BY <1>1, <1>2, <1>3
  <2>2. i \in OpenAt(fr, l - 1)
    BY <1>1, <1>2, <2>1 DEF OpenAt
  <2>3. fr[l] \notin {"text", "usage", "toolStart"}
    BY <1>1, <2>2 DEF FramesInv
  <2>4. fr[l] # "blockStop"
    BY <1>2, <1>3
  <2>5. fr[l] \in AgentProxy!FrameKinds
    BY <1>1
  <2>. QED
    BY <2>3, <2>4, <2>5 DEF AgentProxy!FrameKinds
<1>4. ASSUME NEW j \in OpenAt(fr, m), i # j PROVE FALSE
  <2>1. /\ j \in 1 .. n /\ j <= m /\ fr[j] = "toolStart"
        /\ \A l \in 1 .. n : fr[l] = "blockStop" => ~(j < l /\ l <= m)
    BY <1>1 DEF OpenAt
  <2>2. ~(i < j)
    BY <1>3, <2>1
  <2>3. j < i
    BY <1>2, <1>4, <2>1, <2>2
  <2>4. j <= i - 1 /\ \A l \in 1 .. n : l <= i - 1 => l <= m
    BY <1>1, <1>2, <2>1, <2>3
  <2>5. j \in OpenAt(fr, i - 1)
    BY <1>1, <2>1, <2>4 DEF OpenAt
  <2>. QED
    BY <1>1, <1>2, <2>5 DEF FramesInv
<1>5. OpenAt(fr, m) = {i}
  BY <1>4
<1>6. i \in Nat \ {0}
  BY <1>2
<1>. QED
  BY <1>1, <1>2, <1>3, <1>5, <1>6

\* What the next frame opens, closes and puts out.
LEMMA NextFrame ==
  ASSUME NEW fr, NEW st, FramesInv(fr, st), NEW p \in DOMAIN fr
  PROVE  /\ p \in Nat \ {0} /\ p - 1 \in Nat /\ fr[p] \in AgentProxy!FrameKinds
         /\ fr[p] \in {"text", "usage", "exception"} =>
              /\ Emitted(fr, p) = Emitted(fr, p - 1) \cup {p} /\ OpenAt(fr, p) = OpenAt(fr, p - 1)
         /\ fr[p] = "toolStart" => Emitted(fr, p) = Emitted(fr, p - 1) /\ OpenAt(fr, p) = {p}
         /\ fr[p] = "input" =>
              Emitted(fr, p) = Emitted(fr, p - 1) /\ OpenAt(fr, p) = OpenAt(fr, p - 1)
         /\ fr[p] = "blockStop" => \E i \in OpenAt(fr, p - 1) :
              Emitted(fr, p) = Emitted(fr, p - 1) \cup {i} /\ OpenAt(fr, p) = {}
         /\ fr[p] \in {"input", "blockStop"} => OpenAt(fr, p - 1) # {}
<1>1. PICK n \in Nat : n = Len(fr) /\ DOMAIN fr = 1 .. n /\ fr \in Seq(AgentProxy!FrameKinds)
  BY DEF FramesInv
<1>2. /\ p \in 1 .. n /\ p \in Nat \ {0} /\ p - 1 \in Nat /\ fr[p] \in AgentProxy!FrameKinds
      /\ \A l \in 1 .. n : l \in Nat /\ (l <= p <=> l <= p - 1 \/ l = p)
      /\ ~(p <= p - 1) /\ \A l \in 1 .. n : l <= p - 1 => ~(p < l) /\ l < p
  BY <1>1
<1>3. fr[p] \in {"text", "usage", "exception"} =>
        /\ Emitted(fr, p) = Emitted(fr, p - 1) \cup {p} /\ OpenAt(fr, p) = OpenAt(fr, p - 1)
  BY <1>1, <1>2 DEF Emitted, OpenAt
<1>4. fr[p] = "toolStart" => Emitted(fr, p) = Emitted(fr, p - 1) /\ OpenAt(fr, p) = {p}
  <2>. SUFFICES ASSUME fr[p] = "toolStart" PROVE Emitted(fr, p) = Emitted(fr, p - 1) /\ OpenAt(fr, p) = {p}
    OBVIOUS
  <2>1. OpenAt(fr, p - 1) = {}
    BY <1>2 DEF FramesInv
  <2>2. Emitted(fr, p) = Emitted(fr, p - 1)
    BY <1>1, <1>2 DEF Emitted
  <2>3. \A j \in 1 .. n : ~(p < j /\ j <= p)
    BY <1>2
  <2>4. p \in OpenAt(fr, p)
    BY <1>1, <1>2, <2>3 DEF OpenAt
  <2>5. OpenAt(fr, p) = {p}
    BY <1>2, <2>4, OneIsOpen
  <2>. QED
    BY <2>2, <2>5
<1>5. fr[p] = "input" => Emitted(fr, p) = Emitted(fr, p - 1) /\ OpenAt(fr, p) = OpenAt(fr, p - 1)
  BY <1>1, <1>2 DEF Emitted, OpenAt
<1>6. fr[p] \in {"input", "blockStop"} => OpenAt(fr, p - 1) # {}
  BY DEF FramesInv
<1>7. ASSUME fr[p] = "blockStop", NEW i \in OpenAt(fr, p - 1)
      PROVE  Emitted(fr, p) = Emitted(fr, p - 1) \cup {i} /\ OpenAt(fr, p) = {}
  <2>1. OpenAt(fr, p - 1) = {i} /\ i \in 1 .. n /\ i <= p - 1 /\ fr[i] = "toolStart" /\ i < p
    BY <1>1, <1>2, OneIsOpen
  <2>2. \A l \in 1 .. n : l <= p /\ fr[l] = "toolStart" => l < p
    BY <1>2, <1>7
  <2>3. OpenAt(fr, p) = {}
    BY <1>1, <1>2, <1>7, <2>2 DEF OpenAt
  <2>4. ASSUME NEW l \in Emitted(fr, p) PROVE l \in Emitted(fr, p - 1) \cup {i}
    <3>1. l \in 1 .. n /\ l <= p /\ l # p
      BY <1>1, <1>7, <2>4 DEF Emitted
    <3>2. l <= p - 1
      BY <1>2, <3>1
    <3>3. CASE fr[l] \in {"text", "usage", "exception"}
      BY <1>1, <3>1, <3>2, <3>3 DEF Emitted
    <3>4. CASE fr[l] = "toolStart" /\ l # i
      <4>1. l \notin OpenAt(fr, p - 1)
        BY <2>1, <3>4
      <4>2. PICK j \in 1 .. n : fr[j] = "blockStop" /\ l < j /\ j <= p - 1
        BY <1>1, <3>1, <3>2, <3>4, <4>1 DEF OpenAt
      <4>. QED
        BY <1>1, <3>1, <3>2, <3>4, <4>2 DEF Emitted
    <3>. QED
      BY <2>4, <3>3, <3>4 DEF Emitted
  <2>5. Emitted(fr, p - 1) \subseteq Emitted(fr, p)
    BY <1>1, <1>2 DEF Emitted
  <2>6. i \in Emitted(fr, p)
    <3>1. i <= p /\ p <= p /\ p \in 1 .. n
      BY <1>2, <2>1
    <3>. QED
      BY <1>1, <1>7, <2>1, <3>1 DEF Emitted
  <2>. QED
    BY <2>3, <2>4, <2>5, <2>6
<1>. QED
  BY <1>2, <1>3, <1>4, <1>5, <1>6, <1>7

\* All that was put out comes before the block that is open.
LEMMA EmittedIsBefore ==
  ASSUME NEW fr, NEW st, FramesInv(fr, st), NEW p \in DOMAIN fr
  PROVE  /\ \A l \in Emitted(fr, p - 1) : l \in Nat \ {0} /\ l < p
         /\ \A i \in OpenAt(fr, p - 1), l \in Emitted(fr, p - 1) : l < i
<1>1. PICK n \in Nat : n = Len(fr) /\ DOMAIN fr = 1 .. n
  BY DEF FramesInv
<1>2. \A l \in Emitted(fr, p - 1) : l \in 1 .. n /\ l <= p - 1
  BY <1>1 DEF Emitted
<1>3. ASSUME NEW i \in OpenAt(fr, p - 1), NEW l \in Emitted(fr, p - 1), ~(l < i) PROVE FALSE
  <2>1. /\ i \in 1 .. n /\ i <= p - 1 /\ fr[i] = "toolStart"
        /\ \A k \in 1 .. n : i < k /\ k <= p - 1 => fr[k] \in {"input", "exception"}
    <3>1. p - 1 \in Nat
      BY <1>1
    <3>. QED
      BY <1>1, <3>1, OneIsOpen
  <2>2. l # i
    BY <1>1, <1>3, <2>1 DEF Emitted, OpenAt
  <2>3. i < l
    BY <1>2, <1>3, <2>1, <2>2
  <2>4. fr[l] = "exception"
    BY <1>2, <2>1, <2>3 DEF Emitted
  <2>5. l = n
    BY <1>1, <1>2, <2>4 DEF FramesInv
  <2>. QED
    BY <1>1, <1>2, <2>5
<1>. QED
  BY <1>1, <1>2, <1>3

\* What was put out stays in its order when one more event comes behind it.
LEMMA EmitKeeps ==
  ASSUME NEW fr, NEW st, FramesInv(fr, st), NEW p \in DOMAIN fr,
         NEW a, AnswerInv(fr, a, p - 1), NEW out, OutInv(fr, a, out, p - 1), NoStop(out),
         NEW e \in StreamEvent, e.kind # "stop", EventFits(fr, e), e.of # 0,
         Emitted(fr, p) = Emitted(fr, p - 1) \cup {e.of},
         \A l \in Emitted(fr, p - 1) : l < e.of
  PROVE  OutInv(fr, a, Append(out, e), p) /\ NoStop(Append(out, e)) /\ Append(out, e) \in Seq(StreamEvent)
<1>. DEFINE new == Append(out, e)
<1>1. PICK n \in Nat :
        /\ n = Len(out) /\ DOMAIN out = 1 .. n /\ DOMAIN new = 1 .. (n + 1) /\ new[n + 1] = e
        /\ \A k \in 1 .. n : new[k] = out[k]
        /\ new \in Seq(StreamEvent) /\ 1 .. (n + 1) = (1 .. n) \cup {n + 1} /\ n + 1 \notin 1 .. n
  <2>1. out \in Seq(StreamEvent)
    BY DEF OutInv
  <2>2. PICK n \in Nat : n = Len(out)
    BY <2>1
  <2>3. /\ DOMAIN out = 1 .. n /\ DOMAIN new = 1 .. (n + 1) /\ new[n + 1] = e
        /\ \A k \in 1 .. n : new[k] = out[k]
        /\ new \in Seq(StreamEvent)
    BY <2>1, <2>2
  <2>4. 1 .. (n + 1) = (1 .. n) \cup {n + 1} /\ n + 1 \notin 1 .. n
    OBVIOUS
  <2>. QED
    BY <2>2, <2>3, <2>4
<1>. HIDE DEF new
<1>2. LaterThanTaken(a, e.of)
  <2>1. /\ \A k \in DOMAIN a.text : a.text[k] \in Emitted(fr, p - 1)
        /\ \A k \in DOMAIN a.tools : a.tools[k][1] \in Emitted(fr, p - 1)
        /\ a.usage # 0 => a.usage \in Emitted(fr, p - 1)
    BY DEF AnswerInv
  <2>2. e.of \in Nat
    BY DEF StreamEvent
  <2>3. a.usage < e.of
    BY <2>1, <2>2
  <2>. QED
    BY <2>1, <2>3 DEF LaterThanTaken
<1>3. \A k \in 1 .. n : out[k].of \in Emitted(fr, p - 1) /\ out[k].kind # "stop"
  BY <1>1 DEF OutInv, NoStop
<1>4. NoStop(new)
  BY <1>1, <1>3 DEF NoStop
<1>5. \A k \in DOMAIN new :
        new[k].of \in Emitted(fr, p) /\ EventFits(fr, new[k]) /\ LaterThanTaken(a, new[k].of)
  BY <1>1, <1>2, <1>3 DEF OutInv
<1>6. \A j, k \in DOMAIN new : j < k => new[j].of < new[k].of
  <2>1. \A j, k \in 1 .. n : j < k => out[j].of < out[k].of
    BY <1>1, <1>3 DEF OutInv
  <2>2. \A j \in 1 .. n : out[j].of < e.of
    BY <1>3
  <2>3. \A j \in 1 .. n : ~(n + 1 < j)
    OBVIOUS
  <2>. QED
    BY <1>1, <2>1, <2>2, <2>3
<1>7. \A i \in Emitted(fr, p) : Taken(fr, a, i) \/ \E k \in DOMAIN new : new[k].kind # "stop" /\ new[k].of = i
  <2>1. \A i \in Emitted(fr, p - 1) :
          Taken(fr, a, i) \/ \E k \in 1 .. n : out[k].kind # "stop" /\ out[k].of = i
    BY <1>1 DEF OutInv
  <2>2. \A i \in Emitted(fr, p - 1) :
          Taken(fr, a, i) \/ \E k \in DOMAIN new : new[k].kind # "stop" /\ new[k].of = i
    BY <1>1, <2>1
  <2>3. n + 1 \in DOMAIN new /\ new[n + 1].kind # "stop" /\ new[n + 1].of = e.of
    BY <1>1
  <2>. QED
    BY <2>2, <2>3
<1>8. OutInv(fr, a, new, p)
  BY <1>1, <1>4, <1>5, <1>6, <1>7 DEF OutInv, NoStop
<1>. QED
  BY <1>1, <1>4, <1>8 DEF new

\* One frame more is parsed.
LEMMA ParseKeeps ==
  ASSUME NEW st, FramesInv(wire.frames, st), NEW p \in DOMAIN wire.frames,
         NEW a, AnswerInv(wire.frames, a, p - 1),
         NEW acc \in [tool : StreamTool, out : Seq(StreamEvent)],
         ToolInv(wire.frames, acc.tool, p - 1), OutInv(wire.frames, a, acc.out, p - 1), NoStop(acc.out)
  PROVE  LET new == AgentProxy!ParseEvent(acc, p)
         IN  /\ new \in [tool : StreamTool, out : Seq(StreamEvent)]
             /\ ToolInv(wire.frames, new.tool, p) /\ OutInv(wire.frames, a, new.out, p) /\ NoStop(new.out)
<1>1. PICK fr : fr = wire.frames
  OBVIOUS
<1>. DEFINE Goes == \E t \in StreamTool, o \in Seq(StreamEvent) :
              /\ AgentProxy!ParseEvent(acc, p) = [tool |-> t, out |-> o]
              /\ ToolInv(fr, t, p) /\ OutInv(fr, a, o, p) /\ NoStop(o)
<1>2. /\ p \in Nat \ {0} /\ p - 1 \in Nat /\ fr[p] \in AgentProxy!FrameKinds
      /\ fr[p] \in {"text", "usage", "exception"} =>
           /\ Emitted(fr, p) = Emitted(fr, p - 1) \cup {p} /\ OpenAt(fr, p) = OpenAt(fr, p - 1)
      /\ fr[p] = "toolStart" => Emitted(fr, p) = Emitted(fr, p - 1) /\ OpenAt(fr, p) = {p}
      /\ fr[p] = "input" =>
           Emitted(fr, p) = Emitted(fr, p - 1) /\ OpenAt(fr, p) = OpenAt(fr, p - 1)
      /\ fr[p] = "blockStop" => \E i \in OpenAt(fr, p - 1) :
           Emitted(fr, p) = Emitted(fr, p - 1) \cup {i} /\ OpenAt(fr, p) = {}
      /\ fr[p] \in {"input", "blockStop"} => OpenAt(fr, p - 1) # {}
  BY <1>1, NextFrame
<1>3. /\ \A l \in Emitted(fr, p - 1) : l \in Nat \ {0} /\ l < p
      /\ \A i \in OpenAt(fr, p - 1), l \in Emitted(fr, p - 1) : l < i
  BY <1>1, EmittedIsBefore
<1>4. PICK tl \in StreamTool, out \in Seq(StreamEvent) :
        /\ acc = [tool |-> tl, out |-> out] /\ ToolInv(fr, tl, p - 1)
        /\ OutInv(fr, a, out, p - 1) /\ NoStop(out)
  <2>1. acc.tool \in StreamTool /\ acc.out \in Seq(StreamEvent) /\ acc = [tool |-> acc.tool, out |-> acc.out]
    OBVIOUS
  <2>. QED
    BY <1>1, <2>1
<1>5. /\ tl.start \in Nat /\ tl.inputs \in Seq(Nat)
      /\ tl.start = 0 <=> OpenAt(fr, p - 1) = {}
      /\ tl.start # 0 => tl.start \in OpenAt(fr, p - 1) /\ OpenAt(fr, p - 1) = {tl.start}
  <2>1. tl.start # 0 => tl.start \in OpenAt(fr, p - 1)
    BY <1>4 DEF ToolInv
  <2>2. tl.start # 0 => OpenAt(fr, p - 1) = {tl.start}
    BY <1>1, <1>2, <2>1, OneIsOpen
  <2>. QED
    BY <1>4, <2>1, <2>2 DEF ToolInv, StreamTool
<1>6. \A s \in Nat : fr[p] # "input" =>
        {l \in DOMAIN fr : fr[l] = "input" /\ s < l /\ l <= p}
          = {l \in DOMAIN fr : fr[l] = "input" /\ s < l /\ l <= p - 1}
  <2>1. \A l \in DOMAIN fr : l <= p <=> l <= p - 1 \/ l = p
    BY <1>1, <1>2 DEF FramesInv
  <2>. QED
    BY <2>1
<1>7. ASSUME fr[p] \in {"text", "usage", "exception"} PROVE Goes
  <2>. DEFINE e == AgentProxy!Event(IF fr[p] = "exception" THEN "error" ELSE fr[p], p, <<>>)
  <2>1. e \in StreamEvent /\ e.kind # "stop" /\ e.of = p /\ EventFits(fr, e)
    BY <1>2, <1>7 DEF StreamEvent, AgentProxy!Event, EventFits
  <2>2. AgentProxy!ParseEvent(acc, p) = [tool |-> tl, out |-> Append(out, e)]
    BY <1>1, <1>4, <1>7 DEF AgentProxy!ParseEvent
  <2>. HIDE DEF e
  <2>3. /\ OutInv(fr, a, Append(out, e), p) /\ NoStop(Append(out, e)) /\ Append(out, e) \in Seq(StreamEvent)
    BY <1>1, <1>2, <1>3, <1>4, <1>7, <2>1, EmitKeeps
  <2>4. ToolInv(fr, tl, p)
    BY <1>2, <1>4, <1>5, <1>6, <1>7 DEF ToolInv
  <2>. QED
    BY <1>4, <2>2, <2>3, <2>4
<1>8. ASSUME fr[p] = "toolStart" PROVE Goes
  <2>. DEFINE t == [start |-> p, inputs |-> <<>>]
  <2>1. t \in StreamTool /\ t.start = p /\ t.inputs = <<>>
    BY <1>2 DEF StreamTool
  <2>2. AgentProxy!ParseEvent(acc, p) = [tool |-> t, out |-> out]
    BY <1>1, <1>4, <1>8 DEF AgentProxy!ParseEvent
  <2>. HIDE DEF t
  <2>3. {l \in DOMAIN fr : fr[l] = "input" /\ p < l /\ l <= p} = {}
    BY <1>1, <1>2 DEF FramesInv
  <2>4. Enumerates(<<>>, {})
    BY DEF Enumerates
  <2>5. ToolInv(fr, t, p)
    BY <1>2, <1>8, <2>1, <2>3, <2>4 DEF ToolInv
  <2>6. OutInv(fr, a, out, p)
    BY <1>2, <1>4, <1>8 DEF OutInv
  <2>. QED
    BY <1>4, <2>1, <2>2, <2>5, <2>6
<1>9. ASSUME fr[p] = "input" PROVE Goes
  <2>. DEFINE t == [start |-> tl.start, inputs |-> Append(tl.inputs, p)]
              old == {l \in DOMAIN fr : fr[l] = "input" /\ tl.start < l /\ l <= p - 1}
              all == {l \in DOMAIN fr : fr[l] = "input" /\ tl.start < l /\ l <= p}
  <2>1. t \in StreamTool /\ t.start = tl.start /\ t.inputs = Append(tl.inputs, p)
    BY <1>2, <1>5 DEF StreamTool
  <2>2. AgentProxy!ParseEvent(acc, p) = [tool |-> t, out |-> out]
    BY <1>1, <1>4, <1>5, <1>9 DEF AgentProxy!ParseEvent, StreamTool
  <2>. HIDE DEF t
  <2>3. tl.start # 0 /\ tl.start \in OpenAt(fr, p) /\ Enumerates(tl.inputs, old)
    BY <1>2, <1>4, <1>5, <1>9 DEF ToolInv
  <2>4. tl.start < p
    BY <1>1, <1>2, <1>5, <2>3, OneIsOpen
  <2>5. all = old \cup {p} /\ \A l \in old : l < p
    <3>1. \A l \in DOMAIN fr : (l <= p <=> l <= p - 1 \/ l = p) /\ (l <= p - 1 => l < p)
      BY <1>1, <1>2 DEF FramesInv
    <3>. QED
      BY <1>1, <1>9, <2>4, <3>1
  <2>6. old \subseteq Nat
    BY <1>1 DEF FramesInv
  <2>. HIDE DEF old, all
  <2>7. Enumerates(Append(tl.inputs, p), all)
    <3>1. PICK n \in Nat : n = Len(tl.inputs) /\ DOMAIN tl.inputs = 1 .. n /\ tl.inputs \in Seq(old)
      BY <2>3 DEF Enumerates
    <3>. DEFINE q == Append(tl.inputs, p)
    <3>2. /\ q \in Seq(all) /\ DOMAIN q = 1 .. (n + 1) /\ q[n + 1] = p
          /\ \A k \in 1 .. n : q[k] = tl.inputs[k] /\ q[k] \in old
          /\ 1 .. (n + 1) = (1 .. n) \cup {n + 1}
      <4>1. \A k \in 1 .. n : tl.inputs[k] \in old
        BY <3>1
      <4>2. tl.inputs \in Seq(all) /\ p \in all
        BY <2>5, <3>1
      <4>3. q \in Seq(all) /\ DOMAIN q = 1 .. (n + 1) /\ q[n + 1] = p
            /\ \A k \in 1 .. n : q[k] = tl.inputs[k]
        BY <3>1, <4>2
      <4>4. 1 .. (n + 1) = (1 .. n) \cup {n + 1}
        OBVIOUS
      <4>. QED
        BY <4>1, <4>3, <4>4
    <3>. HIDE DEF q
    <3>3. \A j, k \in DOMAIN q : j < k => q[j] < q[k]
      <4>1. \A j, k \in 1 .. n : j < k => q[j] < q[k]
        BY <2>3, <3>1, <3>2 DEF Enumerates
      <4>2. \A j \in 1 .. n : q[j] < p /\ ~(n + 1 < j)
        BY <2>5, <3>2
      <4>. QED
        BY <3>2, <4>1, <4>2
    <3>4. \A x \in all : \E k \in DOMAIN q : q[k] = x
      <4>1. \A x \in old : \E k \in 1 .. n : q[k] = x
        BY <2>3, <3>1, <3>2 DEF Enumerates
      <4>2. n + 1 \in 1 .. (n + 1)
        OBVIOUS
      <4>. QED
        BY <2>5, <3>2, <4>1, <4>2
    <3>5. Enumerates(q, all)
      BY <3>2, <3>3, <3>4 DEF Enumerates
    <3>. QED
      BY <3>5 DEF q
  <2>8. ToolInv(fr, t, p)
    BY <2>1, <2>3, <2>7 DEF ToolInv, all
  <2>9. OutInv(fr, a, out, p)
    BY <1>2, <1>4, <1>9 DEF OutInv
  <2>. QED
    BY <1>4, <2>1, <2>2, <2>8, <2>9
<1>10. ASSUME fr[p] = "blockStop" PROVE Goes
  <2>. DEFINE e == AgentProxy!Event("tool", tl.start, tl.inputs)
  <2>1. tl.start # 0 /\ tl.start \in OpenAt(fr, p - 1)
    BY <1>2, <1>5, <1>10
  <2>2. /\ tl.start \in DOMAIN fr /\ fr[tl.start] = "toolStart" /\ tl.start <= p - 1
        /\ \A j \in DOMAIN fr : fr[j] = "blockStop" => ~(tl.start < j /\ j <= p - 1)
    BY <2>1 DEF OpenAt
  <2>3. tl.start < p /\ \A l \in DOMAIN fr : l < p <=> l <= p - 1
    BY <1>1, <1>2, <1>5, <2>2 DEF FramesInv
  <2>4. Enumerates(tl.inputs, {l \in DOMAIN fr : fr[l] = "input" /\ tl.start < l /\ l < p})
    <3>1. Enumerates(tl.inputs, {l \in DOMAIN fr : fr[l] = "input" /\ tl.start < l /\ l <= p - 1})
      BY <1>4, <2>1 DEF ToolInv
    <3>2. {l \in DOMAIN fr : fr[l] = "input" /\ tl.start < l /\ l <= p - 1}
            = {l \in DOMAIN fr : fr[l] = "input" /\ tl.start < l /\ l < p}
      BY <2>3
    <3>. QED
      BY <3>1, <3>2
  <2>5. WholeTool(fr, tl.start, tl.inputs)
    BY <1>1, <1>10, <2>2, <2>3, <2>4 DEF WholeTool
  <2>6. e \in StreamEvent /\ e.kind # "stop" /\ e.of = tl.start /\ EventFits(fr, e)
    BY <1>5, <2>5 DEF StreamEvent, AgentProxy!Event, EventFits
  <2>7. AgentProxy!ParseEvent(acc, p) = [tool |-> AgentProxy!NoTool, out |-> Append(out, e)]
    BY <1>1, <1>4, <1>10, <2>1 DEF AgentProxy!ParseEvent, AgentProxy!None
  <2>8. AgentProxy!NoTool \in StreamTool /\ ToolInv(fr, AgentProxy!NoTool, p)
    <3>1. OpenAt(fr, p) = {}
      BY <1>2, <1>10
    <3>. QED
      BY <3>1 DEF AgentProxy!NoTool, AgentProxy!None, StreamTool, ToolInv
  <2>9. Emitted(fr, p) = Emitted(fr, p - 1) \cup {tl.start} /\ \A l \in Emitted(fr, p - 1) : l < tl.start
    BY <1>2, <1>3, <1>5, <1>10, <2>1
  <2>. HIDE DEF e
  <2>10. /\ OutInv(fr, a, Append(out, e), p) /\ NoStop(Append(out, e)) /\ Append(out, e) \in Seq(StreamEvent)
    BY <1>1, <1>4, <2>1, <2>6, <2>9, EmitKeeps
  <2>. QED
    BY <2>7, <2>8, <2>10
<1>11. Goes
  BY <1>2, <1>7, <1>8, <1>9, <1>10 DEF AgentProxy!FrameKinds
<1>12. PICK t \in StreamTool, o \in Seq(StreamEvent) :
         /\ AgentProxy!ParseEvent(acc, p) = [tool |-> t, out |-> o]
         /\ ToolInv(fr, t, p) /\ OutInv(fr, a, o, p) /\ NoStop(o)
  BY <1>11
<1>. QED
  BY <1>1, <1>12

\* The parser gives a tool and events.
LEMMA ParseIsTyped ==
  ASSUME NEW acc \in [tool : StreamTool, out : Seq(StreamEvent)], NEW p \in Nat
  PROVE  AgentProxy!ParseEvent(acc, p) \in [tool : StreamTool, out : Seq(StreamEvent)]
<1>1. PICK s \in Nat, inputs \in Seq(Nat), out \in Seq(StreamEvent) :
        acc = [tool |-> [start |-> s, inputs |-> inputs], out |-> out]
  BY DEF StreamTool
<1>2. /\ [start |-> s, inputs |-> inputs] \in StreamTool /\ [start |-> p, inputs |-> <<>>] \in StreamTool
      /\ [start |-> s, inputs |-> Append(inputs, p)] \in StreamTool
      /\ AgentProxy!NoTool \in StreamTool
  BY DEF StreamTool, AgentProxy!NoTool, AgentProxy!None
<1>3. /\ AgentProxy!Event("tool", s, inputs) \in StreamEvent
      /\ AgentProxy!Event("text", p, <<>>) \in StreamEvent
      /\ AgentProxy!Event("usage", p, <<>>) \in StreamEvent
      /\ AgentProxy!Event("error", p, <<>>) \in StreamEvent
  BY DEF StreamEvent, AgentProxy!Event
<1>4. \A e \in StreamEvent : Append(out, e) \in Seq(StreamEvent)
  OBVIOUS
<1>. DEFINE kind == wire.frames[p]
<1>5. CASE kind = "toolStart"
  BY <1>1, <1>2, <1>5 DEF AgentProxy!ParseEvent
<1>6. CASE kind = "input"
  <2>1. AgentProxy!ParseEvent(acc, p) = [tool |-> [start |-> s, inputs |-> Append(inputs, p)], out |-> out]
    BY <1>1, <1>6 DEF AgentProxy!ParseEvent
  <2>. QED
    BY <1>2, <2>1
<1>7. CASE kind = "blockStop"
  <2>1. PICK v : v = [tool |-> AgentProxy!NoTool, out |-> Append(out, AgentProxy!Event("tool", s, inputs))]
    OBVIOUS
  <2>2. v \in [tool : StreamTool, out : Seq(StreamEvent)]
    BY <1>2, <1>3, <1>4, <2>1
  <2>3. AgentProxy!ParseEvent(acc, p) = v \/ AgentProxy!ParseEvent(acc, p) = acc
    BY <1>1, <1>7, <2>1 DEF AgentProxy!ParseEvent
  <2>. QED
    BY <2>2, <2>3, Zenon
<1>. DEFINE Put(e) == [tool |-> [start |-> s, inputs |-> inputs], out |-> Append(out, e)]
<1>11. \A e \in StreamEvent : Put(e) \in [tool : StreamTool, out : Seq(StreamEvent)]
  BY <1>2, <1>4
<1>8. CASE kind \in {"text", "usage"}
  <2>1. AgentProxy!ParseEvent(acc, p) = Put(AgentProxy!Event(kind, p, <<>>))
    BY <1>1, <1>8 DEF AgentProxy!ParseEvent
  <2>2. AgentProxy!Event(kind, p, <<>>) \in StreamEvent
    BY <1>3, <1>8
  <2>. HIDE DEF Put
  <2>. QED
    BY <1>11, <2>1, <2>2
<1>9. CASE kind = "exception"
  <2>1. AgentProxy!ParseEvent(acc, p) = Put(AgentProxy!Event("error", p, <<>>))
    BY <1>1, <1>9 DEF AgentProxy!ParseEvent
  <2>. HIDE DEF Put
  <2>. QED
    BY <1>3, <1>11, <2>1
<1>10. CASE kind \notin {"toolStart", "input", "blockStop", "text", "usage", "exception"}
  <2>1. AgentProxy!ParseEvent(acc, p) = acc
    BY <1>10 DEF AgentProxy!ParseEvent
  <2>. QED
    BY <2>1
<1>. QED
  BY <1>5, <1>6, <1>7, <1>8, <1>9, <1>10

\* The frames that became whole are the next ones.
LEMMA WholeFramesAre ==
  ASSUME NEW upTo, NEW m \in Nat, NEW d \in Nat, arrived \div 2 = m, upTo \div 2 = m + d
  PROVE  LET seq == AgentProxy!WholeFrames(upTo)
         IN  DOMAIN seq = 1 .. d /\ \A k \in 1 .. d : seq[k] = m + k
<1>. DEFINE count == [i \in 1 .. (m + d) |-> i]
<1>1. count \in Seq(Nat) /\ Len(count) = m + d
  OBVIOUS
<1>2. AgentProxy!WholeFrames(upTo) = SubSeq(count, 1 + m, m + d)
  BY DEF AgentProxy!WholeFrames, AgentProxy!Size
<1>3. \A i \in 1 .. (m + d) : count[i] = i
  OBVIOUS
<1>. HIDE DEF count
<1>. DEFINE seq == SubSeq(count, 1 + m, m + d)
<1>4. (m + d) - (1 + m) + 1 = d /\ \A k \in 1 .. d : k + (1 + m) - 1 = m + k /\ m + k \in 1 .. (m + d)
  OBVIOUS
<1>5. Len(seq) = d /\ DOMAIN seq = 1 .. d
  BY <1>1, <1>4
<1>6. \A k \in 1 .. d : seq[k] = count[m + k]
  BY <1>1, <1>4
<1>. QED
  BY <1>2, <1>3, <1>4, <1>5, <1>6

\* A chunk is parsed frame by frame.
LEMMA ChunkParses ==
  ASSUME NEW st, FramesInv(wire.frames, st), NEW upTo, NEW m \in Nat, NEW d \in Nat,
         arrived \div 2 = m, upTo \div 2 = m + d, m + d <= Len(wire.frames),
         NEW a, AnswerInv(wire.frames, a, m), ToolInv(wire.frames, parser, m),
         OutInv(wire.frames, a, events, m), NoStop(events)
  PROVE  LET done == AgentProxy!FoldLeft(AgentProxy!ParseEvent, [tool |-> parser, out |-> events],
                                         AgentProxy!WholeFrames(upTo))
         IN  /\ ToolInv(wire.frames, done.tool, m + d)
             /\ OutInv(wire.frames, a, done.out, m + d) /\ NoStop(done.out)
<1>. DEFINE D == 1 .. d
            V == [tool : StreamTool, out : Seq(StreamEvent)]
            base == [tool |-> parser, out |-> events]
            seq == AgentProxy!WholeFrames(upTo)
            Step(acc, i) == AgentProxy!ParseEvent(acc, i)
            one == [k \in D |-> [acc \in V |-> Step(acc, m + k)]]
            IsIt(g) == g = [s \in SUBSET D |->
                             IF s = {} THEN base ELSE Step(g[s \ {Max(s)}], seq[Max(s)])]
            Fine(acc, p) == /\ ToolInv(wire.frames, acc.tool, p)
                            /\ OutInv(wire.frames, a, acc.out, p) /\ NoStop(acc.out)
            P == [k \in Nat |-> {acc \in V : Fine(acc, m + k)}]
<1>1. DOMAIN seq = D /\ \A k \in D : seq[k] = m + k
  BY WholeFramesAre
<1>2. base \in V /\ base.tool = parser /\ base.out = events
  <2>1. parser \in StreamTool /\ events \in Seq(StreamEvent)
    BY DEF ToolInv, OutInv
  <2>. QED
    BY <2>1
<1>3. \A k \in D, acc \in V : one[k][acc] = Step(acc, m + k) /\ one[k][acc] \in V
  <2>1. \A k \in D : m + k \in Nat
    OBVIOUS
  <2>. QED
    BY <2>1, ParseIsTyped
<1>. HIDE DEF base, seq, V
<1>4. StepsWithin(d, V, base, one)
  BY <1>2, <1>3 DEF StepsWithin
<1>5. PICK g \in [SUBSET D -> V] :
        /\ g[{}] = base
        /\ \A s \in SUBSET D : s # {} =>
             /\ Max(s) \in D /\ g[s \ {Max(s)}] \in V
             /\ g[s] = one[Max(s)][g[s \ {Max(s)}]]
  <2>. HIDE DEF one
  <2>. QED
    BY <1>4, LeftFoldExists
<1>6. IsIt(g)
  <2>1. \A s \in SUBSET D : g[s] = IF s = {} THEN base ELSE Step(g[s \ {Max(s)}], seq[Max(s)])
    <3>. HIDE DEF one, Step
    <3>. QED
      BY <1>1, <1>3, <1>5
  <2>2. g = [s \in SUBSET D |-> g[s]]
    OBVIOUS
  <2>. HIDE DEF Step
  <2>. QED
    BY <2>1, <2>2
<1>. DEFINE done == AgentProxy!FoldLeft(AgentProxy!ParseEvent, base, seq)
<1>7. done = (CHOOSE h : IsIt(h))[D]
  BY <1>1 DEF AgentProxy!FoldLeft, AgentProxy!MapThenFoldSet, AgentProxy!Max, Max
<1>. HIDE DEF done
<1>8. PICK h : IsIt(h) /\ done = h[D]
  <2>. HIDE DEF IsIt
  <2>. QED
    BY <1>6, <1>7
<1>9. IsLeft(d, V, base, one, h)
  <2>1. h[{}] = base /\ \A s \in SUBSET D : s # {} => h[s] = Step(h[s \ {Max(s)}], seq[Max(s)])
    <3>. HIDE DEF Step
    <3>. QED
      BY <1>8
  <2>2. ASSUME NEW s \in SUBSET D, s # {}, h[s \ {Max(s)}] \in V
        PROVE  h[s] = one[Max(s)][h[s \ {Max(s)}]]
    <3>1. Max(s) \in D
      BY <2>2, LastPlace
    <3>. HIDE DEF one, Step, IsIt, P, D
    <3>. QED
      BY <1>1, <1>3, <2>1, <2>2, <3>1
  <2>. HIDE DEF one, Step, IsIt, P
  <2>. QED
    BY <2>1, <2>2 DEF IsLeft
<1>10. base \in P[0]
  <2>1. Fine(base, m) /\ m + 0 = m
    BY <1>2
  <2>. HIDE DEF Fine
  <2>. QED
    BY <1>2, <2>1
<1>11. ASSUME NEW k \in D, NEW acc \in V, acc \in P[k - 1] PROVE one[k][acc] \in P[k]
  <2>1. PICK p \in DOMAIN wire.frames : p = m + k /\ p - 1 = m + (k - 1) /\ p - 1 \in Nat /\ m <= p - 1
    BY DEF FramesInv
  <2>2. k - 1 \in Nat /\ k \in Nat
    OBVIOUS
  <2>3. Fine(acc, p - 1)
    <3>. HIDE DEF Fine
    <3>. QED
      BY <1>11, <2>1, <2>2
  <2>4. AnswerInv(wire.frames, a, p - 1)
    <3>1. \A i : i \in Emitted(wire.frames, m) => i \in Emitted(wire.frames, p - 1)
      <4>1. \A i \in DOMAIN wire.frames : i \in Nat
        BY DEF FramesInv
      <4>2. \A i \in DOMAIN wire.frames : i <= m => i <= p - 1
        BY <2>1, <4>1
      <4>. QED
        BY <4>2 DEF Emitted
    <3>. QED
      BY <3>1 DEF AnswerInv
  <2>5. Fine(Step(acc, p), p)
    BY <2>1, <2>3, <2>4, ParseKeeps DEF V
  <2>6. one[k][acc] = Step(acc, p) /\ one[k][acc] \in V
    BY <1>3, <2>1
  <2>. HIDE DEF Fine, Step, one
  <2>. QED
    BY <2>1, <2>2, <2>5, <2>6
<1>12. h[1 .. d] \in V /\ h[1 .. d] \in P[d]
  <2>. HIDE DEF one, IsIt, P
  <2>. QED
    BY <1>4, <1>9, <1>10, <1>11, LeftFoldGoes
<1>13. Fine(done, m + d)
  <2>. HIDE DEF Fine
  <2>. QED
    BY <1>8, <1>12
<1>. QED
  BY <1>13 DEF done, base, seq

\* An end of the stream leaves what has been read.
LEMMA EndKeeps ==
  ASSUME NEW fr, NEW n, NEW call, NEW out, NEW a, NEW st, StreamIs(fr, st, n, call, out, a),
         \/ st = "open" /\ OpenAt(fr, Len(fr)) = {}
         \/ st = "closed" /\ OpenAt(fr, Len(fr)) = {}
  PROVE  StreamIs(fr, "closed", n, call, out, a)
<1>1. FramesInv(fr, "closed")
  BY DEF StreamIs, FramesInv
<1>2. NoStop(out) /\ a.state # "answered"
  BY DEF StreamIs
<1>. QED
  BY <1>1, <1>2 DEF StreamIs

\* A connection that breaks keeps the stream's invariant.
LEMMA BreakKeeps ==
  ASSUME NEW fr, NEW n, NEW call, NEW out, NEW a, NEW st, StreamIs(fr, st, n, call, out, a),
         st \in {"open", "closed"}
  PROVE  StreamIs(fr, "broken", n, call, out, a)
<1>1. FramesInv(fr, "broken")
  BY DEF StreamIs, FramesInv
<1>2. NoStop(out)
  BY DEF StreamIs
<1>. QED
  BY <1>1, <1>2 DEF StreamIs

\* The end of a broken stream ends the answer, and keeps the invariant.
LEMMA CloseKeeps ==
  ASSUME NEW fr, NEW n, NEW call, NEW out, NEW a, StreamIs(fr, "broken", n, call, out, a),
         out = <<>>, a.state = "waits"
  PROVE  StreamIs(fr, "broken", n, call, out, [a EXCEPT !.state = "answered"])
<1>. DEFINE b == [a EXCEPT !.state = "answered"]
<1>1. a \in StreamAnswer
  BY DEF StreamIs, AnswerInv
<1>2. /\ b \in StreamAnswer /\ b.text = a.text /\ b.tools = a.tools /\ b.usage = a.usage
  BY <1>1 DEF StreamAnswer
<1>. HIDE DEF b
<1>3. AnswerInv(fr, b, n \div 2)
  BY <1>2 DEF StreamIs, AnswerInv
<1>4. OutInv(fr, b, out, n \div 2)
  <2>1. \A i : Taken(fr, a, i) => Taken(fr, b, i)
    BY <1>2 DEF Taken
  <2>2. OutInv(fr, a, out, n \div 2)
    BY DEF StreamIs
  <2>. QED
    BY <1>2, <2>1, <2>2 DEF OutInv, LaterThanTaken
<1>5. StreamIs(fr, "broken", n, call, out, b)
  BY <1>3, <1>4 DEF StreamIs
<1>. QED
  BY <1>5 DEF b

\* The last event says that all was read.
LEMMA StopKeeps ==
  ASSUME NEW fr, NEW n, NEW call, NEW out, NEW a, StreamIs(fr, "closed", n, call, out, a),
         n = 2 * Len(fr)
  PROVE  StreamIs(fr, "read", n, call, Append(out, AgentProxy!Event("stop", AgentProxy!None, <<>>)), a)
<1>. DEFINE e == AgentProxy!Event("stop", AgentProxy!None, <<>>)
            new == Append(out, e)
<1>1. e \in StreamEvent /\ e.kind = "stop"
  BY DEF StreamEvent, AgentProxy!Event, AgentProxy!None
<1>2. OutInv(fr, a, out, n \div 2) /\ NoStop(out) /\ a.state # "answered" /\ FramesInv(fr, "closed")
  BY DEF StreamIs
<1>. HIDE DEF e
<1>3. PICK c \in Nat : c = Len(out) /\ DOMAIN out = 1 .. c /\ DOMAIN new = 1 .. (c + 1)
        /\ new[c + 1] = e /\ (\A k \in 1 .. c : new[k] = out[k]) /\ new \in Seq(StreamEvent)
        /\ 1 .. (c + 1) = (1 .. c) \cup {c + 1} /\ \A k \in 1 .. c : ~(c + 1 < k)
  <2>1. out \in Seq(StreamEvent)
    BY <1>2 DEF OutInv
  <2>2. PICK c \in Nat : c = Len(out)
    BY <2>1
  <2>3. DOMAIN out = 1 .. c /\ DOMAIN new = 1 .. (c + 1)
        /\ new[c + 1] = e /\ (\A k \in 1 .. c : new[k] = out[k]) /\ new \in Seq(StreamEvent)
    BY <1>1, <2>1, <2>2
  <2>4. 1 .. (c + 1) = (1 .. c) \cup {c + 1} /\ \A k \in 1 .. c : ~(c + 1 < k)
    OBVIOUS
  <2>. QED
    BY <2>2, <2>3, <2>4
<1>. HIDE DEF new
<1>4. \A k \in DOMAIN new : new[k].kind # "stop" => k \in 1 .. c /\ new[k] = out[k]
  BY <1>1, <1>3
<1>5. OutInv(fr, a, new, n \div 2)
  <2>1. \A k \in DOMAIN new : new[k].kind # "stop" =>
          new[k].of \in Emitted(fr, n \div 2) /\ EventFits(fr, new[k]) /\ LaterThanTaken(a, new[k].of)
    BY <1>2, <1>3, <1>4 DEF OutInv
  <2>2. \A j, k \in DOMAIN new : j < k =>
          new[j].kind # "stop" /\ (new[k].kind # "stop" => new[j].of < new[k].of)
    <3>1. \A j, k \in 1 .. c : j < k => out[j].kind # "stop" /\ out[j].of < out[k].of
      BY <1>2, <1>3 DEF OutInv, NoStop
    <3>2. \A j \in 1 .. c : out[j].kind # "stop"
      BY <1>2, <1>3 DEF NoStop
    <3>3. ~(c + 1 < c + 1)
      OBVIOUS
    <3>. QED
      BY <1>1, <1>3, <3>1, <3>2, <3>3
  <2>3. \A i \in Emitted(fr, n \div 2) :
          Taken(fr, a, i) \/ \E k \in DOMAIN new : new[k].kind # "stop" /\ new[k].of = i
    <3>1. \A i \in Emitted(fr, n \div 2) :
            Taken(fr, a, i) \/ \E k \in 1 .. c : out[k].kind # "stop" /\ out[k].of = i
      BY <1>2, <1>3 DEF OutInv
    <3>. QED
      BY <1>3, <3>1
  <2>. QED
    BY <1>3, <2>1, <2>2, <2>3 DEF OutInv
<1>6. FramesInv(fr, "read")
  BY <1>2 DEF FramesInv
<1>7. StreamIs(fr, "read", n, call, new, a)
  BY <1>2, <1>5, <1>6 DEF StreamIs
<1>. QED
  BY <1>7 DEF new, e

\* The answer b has the first event, and what it had.
LEMMA TakeFirst ==
  ASSUME NEW fr, NEW a, NEW b, NEW out, NEW m, OutInv(fr, a, out, m), out # <<>>,
         \A i \in Emitted(fr, m) : Taken(fr, a, i) => Taken(fr, b, i),
         out[1].kind # "stop" => Taken(fr, b, out[1].of),
         \A k \in DOMAIN out : 1 < k /\ out[k].kind # "stop" => LaterThanTaken(b, out[k].of)
  PROVE  /\ OutInv(fr, b, Tail(out), m)
         /\ NoStop(out) => NoStop(Tail(out))
         /\ out[1].kind = "stop" => Tail(out) = <<>>
<1>. DEFINE new == Tail(out)
<1>1. out \in Seq(StreamEvent)
  BY DEF OutInv
<1>2. PICK c \in Nat : c + 1 = Len(out) /\ DOMAIN out = 1 .. (c + 1)
  <2>1. Len(out) \in Nat \ {0} /\ DOMAIN out = 1 .. Len(out)
    BY <1>1
  <2>2. Len(out) - 1 \in Nat /\ (Len(out) - 1) + 1 = Len(out)
    BY <2>1
  <2>. QED
    BY <2>1, <2>2
<1>3. /\ new \in Seq(StreamEvent) /\ Len(new) = c /\ DOMAIN new = 1 .. c
      /\ \A k \in 1 .. c : new[k] = out[k + 1]
  BY <1>1, <1>2
<1>4. /\ \A k \in 1 .. c : k + 1 \in 1 .. (c + 1) /\ 1 < k + 1
      /\ \A j, k \in 1 .. c : j < k => j + 1 < k + 1
      /\ \A k \in 1 .. (c + 1) : k # 1 => k - 1 \in 1 .. c /\ (k - 1) + 1 = k
      /\ 1 \in 1 .. (c + 1)
  OBVIOUS
<1>. HIDE DEF new
<1>5. \A k \in DOMAIN new : new[k].kind # "stop" =>
        new[k].of \in Emitted(fr, m) /\ EventFits(fr, new[k]) /\ LaterThanTaken(b, new[k].of)
  <2>1. \A k \in 1 .. c : out[k + 1].kind # "stop" =>
          /\ out[k + 1].of \in Emitted(fr, m) /\ EventFits(fr, out[k + 1])
          /\ LaterThanTaken(b, out[k + 1].of)
    BY <1>2, <1>4 DEF OutInv
  <2>. QED
    BY <1>3, <2>1
<1>6. \A j, k \in DOMAIN new : j < k =>
        new[j].kind # "stop" /\ (new[k].kind # "stop" => new[j].of < new[k].of)
  <2>1. \A j, k \in 1 .. c : j < k =>
          out[j + 1].kind # "stop" /\ (out[k + 1].kind # "stop" => out[j + 1].of < out[k + 1].of)
    BY <1>2, <1>4 DEF OutInv
  <2>2. ASSUME NEW j \in 1 .. c, NEW k \in 1 .. c, j < k
        PROVE  new[j].kind # "stop" /\ (new[k].kind # "stop" => new[j].of < new[k].of)
    <3>1. new[j] = out[j + 1] /\ new[k] = out[k + 1]
      BY <1>3
    <3>. QED
      BY <2>1, <2>2, <3>1
  <2>. QED
    BY <1>3, <2>2
<1>7. \A i \in Emitted(fr, m) :
        Taken(fr, b, i) \/ \E k \in DOMAIN new : new[k].kind # "stop" /\ new[k].of = i
  <2>. SUFFICES ASSUME NEW i \in Emitted(fr, m), ~Taken(fr, b, i)
                PROVE  \E k \in DOMAIN new : new[k].kind # "stop" /\ new[k].of = i
    OBVIOUS
  <2>1. PICK k \in 1 .. (c + 1) : out[k].kind # "stop" /\ out[k].of = i
    BY <1>2 DEF OutInv
  <2>2. k # 1
    BY <2>1
  <2>3. PICK l \in 1 .. c : l + 1 = k
    BY <1>4, <2>2
  <2>4. new[l] = out[k]
    BY <1>3, <2>3
  <2>. QED
    BY <1>3, <2>1, <2>4
<1>8. OutInv(fr, b, new, m)
  BY <1>3, <1>5, <1>6, <1>7 DEF OutInv
<1>9. NoStop(out) => NoStop(new)
  BY <1>2, <1>3, <1>4 DEF NoStop
<1>10. out[1].kind = "stop" => new = <<>>
  <2>1. out[1].kind = "stop" => c = 0
    BY <1>2, <1>4 DEF OutInv
  <2>. QED
    BY <1>3, <2>1
<1>. QED
  BY <1>8, <1>9, <1>10 DEF new

\* Text taken from the stream is appended once, after what was before it.
LEMMA TakeText ==
  ASSUME NEW fr, NEW st, FramesInv(fr, st), NEW m, NEW a, AnswerInv(fr, a, m),
         NEW i \in Emitted(fr, m), fr[i] = "text", LaterThanTaken(a, i),
         NEW b, b = [a EXCEPT !.text = Append(@, i)]
  PROVE  /\ AnswerInv(fr, b, m) /\ b.state = a.state
         /\ \A l \in Emitted(fr, m) : Taken(fr, a, l) => Taken(fr, b, l)
         /\ Taken(fr, b, i)
         /\ \A l \in Emitted(fr, m) : i < l /\ LaterThanTaken(a, l) => LaterThanTaken(b, l)
<1>. DEFINE new == Append(a.text, i)
<1>1. a \in StreamAnswer /\ i \in Nat
  BY DEF AnswerInv, Emitted, FramesInv
<1>2. PICK c \in Nat :
        /\ DOMAIN a.text = 1 .. c /\ DOMAIN new = 1 .. (c + 1) /\ new[c + 1] = i
        /\ \A k \in 1 .. c : new[k] = a.text[k]
        /\ new \in Seq(Nat) /\ 1 .. (c + 1) = (1 .. c) \cup {c + 1} /\ \A k \in 1 .. c : ~(c + 1 < k)
  <2>1. a.text \in Seq(Nat)
    BY <1>1 DEF StreamAnswer
  <2>2. PICK c \in Nat : c = Len(a.text)
    BY <2>1
  <2>3. /\ DOMAIN a.text = 1 .. c /\ DOMAIN new = 1 .. (c + 1) /\ new[c + 1] = i
        /\ \A k \in 1 .. c : new[k] = a.text[k]
        /\ new \in Seq(Nat)
    BY <1>1, <2>1, <2>2
  <2>4. 1 .. (c + 1) = (1 .. c) \cup {c + 1} /\ \A k \in 1 .. c : ~(c + 1 < k)
    OBVIOUS
  <2>. QED
    BY <2>3, <2>4
<1>3. /\ b \in StreamAnswer /\ b.text = new /\ b.tools = a.tools /\ b.usage = a.usage /\ b.state = a.state
  BY <1>1, <1>2 DEF StreamAnswer
<1>. HIDE DEF new
<1>4. \A j, k \in DOMAIN new : j < k => new[j] < new[k]
  <2>1. /\ \A j, k \in 1 .. c : j < k => new[j] < new[k]
        /\ \A j \in 1 .. c : new[j] < i
    BY <1>2 DEF AnswerInv, LaterThanTaken
  <2>2. ~(c + 1 < c + 1)
    OBVIOUS
  <2>. QED
    BY <1>2, <2>1, <2>2
<1>5. \A k \in DOMAIN new : new[k] \in Emitted(fr, m) /\ fr[new[k]] = "text"
  BY <1>2 DEF AnswerInv
<1>6. AnswerInv(fr, b, m)
  BY <1>3, <1>4, <1>5 DEF AnswerInv
<1>7. \A l \in Emitted(fr, m) : Taken(fr, a, l) => Taken(fr, b, l)
  <2>1. \A l : (\E k \in DOMAIN a.text : a.text[k] = l) => \E k \in DOMAIN new : new[k] = l
    BY <1>2
  <2>. QED
    BY <1>3, <2>1 DEF Taken
<1>8. Taken(fr, b, i)
  <2>1. c + 1 \in DOMAIN new
    BY <1>2
  <2>. QED
    BY <1>2, <1>3, <2>1 DEF Taken
<1>9. \A l \in Emitted(fr, m) : i < l /\ LaterThanTaken(a, l) => LaterThanTaken(b, l)
  BY <1>2, <1>3 DEF LaterThanTaken
<1>. QED
  BY <1>3, <1>6, <1>7, <1>8, <1>9

\* One more tool at the end of the list: what new is to s.
WithTool(s, new, i, inputs) ==
  \E c \in Nat :
    /\ DOMAIN s = 1 .. c /\ DOMAIN new = 1 .. (c + 1)
    /\ new[c + 1][1] = i /\ new[c + 1][2] = inputs
    /\ \A k \in 1 .. c : new[k][1] = s[k][1] /\ new[k][2] = s[k][2]
    /\ 1 .. (c + 1) = (1 .. c) \cup {c + 1} /\ \A k \in 1 .. c : ~(c + 1 < k)

\* Append does what WithTool says.
LEMMA OneMoreTool ==
  ASSUME NEW s \in Seq(Nat \X Seq(Nat)), NEW i \in Nat, NEW inputs \in Seq(Nat), NEW new,
         new = Append(s, <<i, inputs>>)
  PROVE  WithTool(s, new, i, inputs) /\ new \in Seq(Nat \X Seq(Nat))
<1>1. <<i, inputs>> \in Nat \X Seq(Nat)
  OBVIOUS
<1>2. PICK p : p = <<i, inputs>>
  OBVIOUS
<1>3. PICK c \in Nat : c = Len(s)
  OBVIOUS
<1>4. PICK T : T = Nat \X Seq(Nat) /\ s \in Seq(T) /\ p \in T
  BY <1>1, <1>2
<1>5. new = Append(s, p)
  BY <1>2
<1>6. /\ DOMAIN s = 1 .. c /\ DOMAIN new = 1 .. (c + 1) /\ new[c + 1] = p
      /\ \A k \in 1 .. c : new[k] = s[k]
      /\ new \in Seq(T)
  BY <1>3, <1>4, <1>5
<1>7. 1 .. (c + 1) = (1 .. c) \cup {c + 1} /\ \A k \in 1 .. c : ~(c + 1 < k)
  OBVIOUS
<1>8. p[1] = i /\ p[2] = inputs
  BY <1>2
<1>9. new[c + 1][1] = i /\ new[c + 1][2] = inputs
  BY <1>6, <1>8, Zenon
<1>10. \A k \in 1 .. c : new[k][1] = s[k][1] /\ new[k][2] = s[k][2]
  BY <1>6, Zenon
<1>11. WithTool(s, new, i, inputs)
  BY <1>6, <1>7, <1>9, <1>10, Zenon DEF WithTool
<1>. QED
  BY <1>4, <1>6, <1>11, Zenon

\* A tool taken from the stream is appended once, whole, after what was before it.
LEMMA TakeTool ==
  ASSUME NEW fr, NEW st, FramesInv(fr, st), NEW m, NEW a, AnswerInv(fr, a, m),
         NEW i \in Emitted(fr, m), NEW inputs \in Seq(Nat), WholeTool(fr, i, inputs),
         LaterThanTaken(a, i), NEW new, WithTool(a.tools, new, i, inputs),
         NEW b \in StreamAnswer, b.tools = new,
         b.text = a.text, b.usage = a.usage, b.state = a.state
  PROVE  /\ AnswerInv(fr, b, m) /\ b.state = a.state
         /\ \A l \in Emitted(fr, m) : Taken(fr, a, l) => Taken(fr, b, l)
         /\ Taken(fr, b, i)
         /\ \A l \in Emitted(fr, m) : i < l /\ LaterThanTaken(a, l) => LaterThanTaken(b, l)
<1>1. a \in StreamAnswer /\ i \in Nat
  BY DEF AnswerInv, Emitted, FramesInv
<1>2. PICK c \in Nat :
        /\ DOMAIN a.tools = 1 .. c /\ DOMAIN new = 1 .. (c + 1)
        /\ new[c + 1][1] = i /\ new[c + 1][2] = inputs
        /\ \A k \in 1 .. c : new[k][1] = a.tools[k][1] /\ new[k][2] = a.tools[k][2]
        /\ 1 .. (c + 1) = (1 .. c) \cup {c + 1} /\ \A k \in 1 .. c : ~(c + 1 < k)
  BY DEF WithTool
<1>3. /\ b \in StreamAnswer /\ b.text = a.text /\ b.tools = new /\ b.usage = a.usage /\ b.state = a.state
  OBVIOUS
<1>4. /\ new[c + 1][1] = i /\ new[c + 1][2] = inputs
      /\ \A k \in 1 .. c : new[k][1] = a.tools[k][1] /\ new[k][2] = a.tools[k][2]
  BY <1>2
<1>5. \A j, k \in DOMAIN new : j < k => new[j][1] < new[k][1]
  <2>1. /\ \A j, k \in 1 .. c : j < k => new[j][1] < new[k][1]
        /\ \A j \in 1 .. c : new[j][1] < i
    BY <1>2, <1>4 DEF AnswerInv, LaterThanTaken
  <2>. QED
    <3>. SUFFICES ASSUME NEW j \in 1 .. (c + 1), NEW k \in 1 .. (c + 1), j < k
                  PROVE  new[j][1] < new[k][1]
      BY <1>2
    <3>1. j \in 1 .. c
      OBVIOUS
    <3>2. CASE k \in 1 .. c
      BY <2>1, <3>1, <3>2
    <3>3. CASE k = c + 1
      BY <1>4, <2>1, <3>1, <3>3
    <3>. QED
      BY <3>2, <3>3
<1>6. \A k \in DOMAIN new : new[k][1] \in Emitted(fr, m) /\ WholeTool(fr, new[k][1], new[k][2])
  <2>1. \A k \in 1 .. c : a.tools[k][1] \in Emitted(fr, m) /\ WholeTool(fr, a.tools[k][1], a.tools[k][2])
    BY <1>2 DEF AnswerInv
  <2>2. \A k \in 1 .. c : new[k][1] \in Emitted(fr, m) /\ WholeTool(fr, new[k][1], new[k][2])
    <3>. SUFFICES ASSUME NEW k \in 1 .. c
                  PROVE  new[k][1] \in Emitted(fr, m) /\ WholeTool(fr, new[k][1], new[k][2])
      OBVIOUS
    <3>1. new[k][1] = a.tools[k][1] /\ new[k][2] = a.tools[k][2]
      BY <1>4
    <3>. QED
      BY <2>1, <3>1, Zenon
  <2>3. new[c + 1][1] \in Emitted(fr, m) /\ WholeTool(fr, new[c + 1][1], new[c + 1][2])
    BY <1>4, Zenon
  <2>4. \A k \in DOMAIN new : k \in 1 .. c \/ k = c + 1
    BY <1>2
  <2>. QED
    BY <2>2, <2>3, <2>4, Zenon
<1>7. AnswerInv(fr, b, m)
  BY <1>3, <1>5, <1>6 DEF AnswerInv
<1>8. \A l \in Emitted(fr, m) : Taken(fr, a, l) => Taken(fr, b, l)
  <2>1. \A l : (\E k \in DOMAIN a.tools : a.tools[k][1] = l) => \E k \in DOMAIN new : new[k][1] = l
    BY <1>2, <1>4
  <2>. QED
    BY <1>3, <2>1 DEF Taken
<1>9. Taken(fr, b, i)
  <2>1. c + 1 \in DOMAIN new
    BY <1>2
  <2>. QED
    BY <1>3, <1>4, <2>1 DEF Taken
<1>10. \A l \in Emitted(fr, m) : i < l /\ LaterThanTaken(a, l) => LaterThanTaken(b, l)
  BY <1>2, <1>3, <1>4 DEF LaterThanTaken
<1>. QED
  BY <1>3, <1>7, <1>8, <1>9, <1>10

\* A usage taken from the stream replaces the one before it.
LEMMA TakeUsage ==
  ASSUME NEW fr, NEW st, FramesInv(fr, st), NEW m, NEW a, AnswerInv(fr, a, m),
         NEW i \in Emitted(fr, m), fr[i] = "usage", LaterThanTaken(a, i),
         NEW b, b = [a EXCEPT !.usage = i]
  PROVE  /\ AnswerInv(fr, b, m) /\ b.state = a.state
         /\ \A l \in Emitted(fr, m) : Taken(fr, a, l) => Taken(fr, b, l)
         /\ Taken(fr, b, i)
         /\ \A l \in Emitted(fr, m) : i < l /\ LaterThanTaken(a, l) => LaterThanTaken(b, l)
<1>1. a \in StreamAnswer /\ i \in Nat /\ \A l \in Emitted(fr, m) : l \in Nat
  BY DEF AnswerInv, Emitted, FramesInv
<1>2. /\ b \in StreamAnswer /\ b.text = a.text /\ b.tools = a.tools /\ b.usage = i /\ b.state = a.state
  BY <1>1 DEF StreamAnswer
<1>3. a.usage \in Nat /\ a.usage < i
  BY <1>1 DEF StreamAnswer, LaterThanTaken
<1>4. AnswerInv(fr, b, m)
  BY <1>2 DEF AnswerInv
<1>5. \A l \in Emitted(fr, m) : Taken(fr, a, l) => Taken(fr, b, l)
  <2>1. \A l \in Nat : l <= a.usage => l <= i
    BY <1>1, <1>3
  <2>. QED
    BY <1>1, <1>2, <2>1 DEF Taken
<1>6. Taken(fr, b, i)
  <2>1. i <= i
    BY <1>1
  <2>. QED
    BY <1>2, <2>1 DEF Taken
<1>7. \A l \in Emitted(fr, m) : i < l /\ LaterThanTaken(a, l) => LaterThanTaken(b, l)
  BY <1>2 DEF LaterThanTaken
<1>. QED
  BY <1>2, <1>4, <1>5, <1>6, <1>7

\* The answer is over.
LEMMA TakeEnd ==
  ASSUME NEW fr, NEW m, NEW a, AnswerInv(fr, a, m), NEW s \in {"answered", "failed"},
         a.state = "waits",
         NEW b, b = [a EXCEPT !.state = s]
  PROVE  /\ AnswerInv(fr, b, m) /\ b.state = s
         /\ \A l \in Emitted(fr, m) : Taken(fr, a, l) => Taken(fr, b, l)
         /\ \A l : s = "failed" /\ fr[l] = "exception" => Taken(fr, b, l)
         /\ \A l : LaterThanTaken(a, l) => LaterThanTaken(b, l)
<1>1. a \in StreamAnswer
  BY DEF AnswerInv
<1>2. /\ b \in StreamAnswer /\ b.text = a.text /\ b.tools = a.tools /\ b.usage = a.usage /\ b.state = s
  BY <1>1 DEF StreamAnswer
<1>3. AnswerInv(fr, b, m)
  BY <1>2 DEF AnswerInv
<1>4. \A l : Taken(fr, a, l) => Taken(fr, b, l)
  BY <1>2 DEF Taken
<1>5. \A l : s = "failed" /\ fr[l] = "exception" => Taken(fr, b, l)
  BY <1>2 DEF Taken
<1>6. \A l : LaterThanTaken(a, l) => LaterThanTaken(b, l)
  BY <1>2 DEF LaterThanTaken
<1>. QED
  BY <1>2, <1>3, <1>4, <1>5, <1>6


\* The call takes the next event.
LEMMA TakeKeeps ==
  ASSUME NEW fr, NEW n, NEW call, NEW out, NEW a, NEW st, StreamIs(fr, st, n, call, out, a),
         out # <<>>, a.state = "waits", NEW b,
         out[1].kind = "text" => b = [a EXCEPT !.text = Append(@, out[1].of)],
         out[1].kind = "tool" => b = [a EXCEPT !.tools = Append(@, <<out[1].of, out[1].inputs>>)],
         out[1].kind = "usage" => b = [a EXCEPT !.usage = out[1].of],
         out[1].kind = "stop" => b = [a EXCEPT !.state = "answered"],
         out[1].kind = "error" => b = [a EXCEPT !.state = "failed"]
  PROVE  StreamIs(fr, st, n, call, Tail(out), b)
<1>1. PICK m : m = n \div 2
  OBVIOUS
<1>2. /\ FramesInv(fr, st) /\ n \in Nat /\ n <= 2 * Len(fr) /\ ToolInv(fr, call, m)
      /\ AnswerInv(fr, a, m) /\ OutInv(fr, a, out, m)
      /\ ~NoStop(out) => st = "read" /\ n = 2 * Len(fr)
  BY <1>1 DEF StreamIs
<1>3. PICK e \in StreamEvent : e = out[1] /\ 1 \in DOMAIN out
  <2>1. out \in Seq(StreamEvent)
    BY <1>2 DEF OutInv
  <2>. QED
    BY <2>1
<1>4. e.kind # "stop" => e.of \in Emitted(fr, m) /\ EventFits(fr, e) /\ LaterThanTaken(a, e.of)
  BY <1>2, <1>3 DEF OutInv
<1>5. \A k \in DOMAIN out : 1 < k /\ out[k].kind # "stop" =>
        out[k].of \in Emitted(fr, m) /\ LaterThanTaken(a, out[k].of) /\ e.of < out[k].of
  BY <1>2, <1>3 DEF OutInv
<1>. DEFINE Good == /\ AnswerInv(fr, b, m)
                    /\ \A i \in Emitted(fr, m) : Taken(fr, a, i) => Taken(fr, b, i)
                    /\ e.kind # "stop" => Taken(fr, b, e.of)
                    /\ \A l \in Emitted(fr, m) :
                         e.of < l /\ LaterThanTaken(a, l) => LaterThanTaken(b, l) 
                    /\ b.state = "answered" => e.kind = "stop"
<1>6. ASSUME e.kind = "text" PROVE Good
  <2>1. e.of \in Emitted(fr, m) /\ fr[e.of] = "text" /\ LaterThanTaken(a, e.of)
    BY <1>4, <1>6 DEF EventFits
  <2>2. PICK i \in Emitted(fr, m) : i = e.of
    BY <2>1
  <2>3. b = [a EXCEPT !.text = Append(@, i)]
    BY <1>3, <1>6, <2>2
  <2>4. /\ AnswerInv(fr, b, m) /\ b.state = a.state
        /\ \A l \in Emitted(fr, m) : Taken(fr, a, l) => Taken(fr, b, l)
        /\ Taken(fr, b, i)
        /\ \A l \in Emitted(fr, m) : i < l /\ LaterThanTaken(a, l) => LaterThanTaken(b, l)
    BY <1>2, <2>1, <2>2, <2>3, TakeText
  <2>5. Good
    BY <2>2, <2>3, <2>4
  <2>. QED
    BY <2>5
<1>7. ASSUME e.kind = "tool" PROVE Good
  <2>1. e.of \in Emitted(fr, m) /\ WholeTool(fr, e.of, e.inputs) /\ LaterThanTaken(a, e.of)
    BY <1>4, <1>7 DEF EventFits
  <2>2. PICK i \in Emitted(fr, m), inputs \in Seq(Nat) : i = e.of /\ inputs = e.inputs
    BY <2>1 DEF StreamEvent
  <2>3. b = [a EXCEPT !.tools = Append(@, <<i, inputs>>)]
    BY <1>3, <1>7, <2>2
  <2>6. WholeTool(fr, i, inputs) /\ LaterThanTaken(a, i) /\ FramesInv(fr, st) /\ AnswerInv(fr, a, m)
    BY <1>2, <2>1, <2>2, Zenon
  <2>7. PICK new : new = Append(a.tools, <<i, inputs>>)
    OBVIOUS
  <2>8. a \in StreamAnswer /\ a.tools \in Seq(Nat \X Seq(Nat)) /\ i \in Nat
    BY <1>2, <2>2 DEF AnswerInv, StreamAnswer, Emitted, FramesInv
  <2>9. WithTool(a.tools, new, i, inputs) /\ new \in Seq(Nat \X Seq(Nat))
    BY <2>2, <2>7, <2>8, OneMoreTool
  <2>10. b = [a EXCEPT !.tools = new]
    BY <2>3, <2>7
  <2>11. /\ b \in StreamAnswer /\ b.tools = new
         /\ b.text = a.text /\ b.usage = a.usage /\ b.state = a.state
    BY <2>8, <2>9, <2>10 DEF StreamAnswer
  <2>4. /\ AnswerInv(fr, b, m) /\ b.state = a.state
        /\ \A l \in Emitted(fr, m) : Taken(fr, a, l) => Taken(fr, b, l)
        /\ Taken(fr, b, i)
        /\ \A l \in Emitted(fr, m) : i < l /\ LaterThanTaken(a, l) => LaterThanTaken(b, l)
    BY <2>2, <2>6, <2>9, <2>11, TakeTool
  <2>5. Good
    BY <2>2, <2>3, <2>4
  <2>. QED
    BY <2>5
<1>8. ASSUME e.kind = "usage" PROVE Good
  <2>1. e.of \in Emitted(fr, m) /\ fr[e.of] = "usage" /\ LaterThanTaken(a, e.of)
    BY <1>4, <1>8 DEF EventFits
  <2>2. PICK i \in Emitted(fr, m) : i = e.of
    BY <2>1
  <2>3. b = [a EXCEPT !.usage = i]
    BY <1>3, <1>8, <2>2
  <2>4. /\ AnswerInv(fr, b, m) /\ b.state = a.state
        /\ \A l \in Emitted(fr, m) : Taken(fr, a, l) => Taken(fr, b, l)
        /\ Taken(fr, b, i)
        /\ \A l \in Emitted(fr, m) : i < l /\ LaterThanTaken(a, l) => LaterThanTaken(b, l)
    BY <1>2, <2>1, <2>2, <2>3, TakeUsage
  <2>5. Good
    BY <2>2, <2>3, <2>4
  <2>. QED
    BY <2>5
<1>9. ASSUME e.kind \in {"stop", "error"} PROVE Good
  <2>1. PICK s \in {"answered", "failed"} : s = IF e.kind = "stop" THEN "answered" ELSE "failed"
    OBVIOUS
  <2>2. b = [a EXCEPT !.state = s]
    BY <1>3, <1>9, <2>1
  <2>3. /\ AnswerInv(fr, b, m) /\ b.state = s
        /\ \A l \in Emitted(fr, m) : Taken(fr, a, l) => Taken(fr, b, l)
        /\ \A l : s = "failed" /\ fr[l] = "exception" => Taken(fr, b, l)
        /\ \A l : LaterThanTaken(a, l) => LaterThanTaken(b, l)
    BY <1>2, <2>2, TakeEnd
  <2>4. e.kind = "error" => fr[e.of] = "exception"
    BY <1>4 DEF EventFits, WholeTool
  <2>5. e.kind # "stop" => Taken(fr, b, e.of)
    BY <1>9, <2>1, <2>2, <2>3, <2>4
  <2>6. Good
    BY <2>1, <2>2, <2>3, <2>5
  <2>. QED
    BY <2>6
<1>10. Good
  BY <1>6, <1>7, <1>8, <1>9 DEF StreamEvent
<1>11. \A k \in DOMAIN out : 1 < k /\ out[k].kind # "stop" => LaterThanTaken(b, out[k].of)
  BY <1>5, <1>10
<1>12. /\ OutInv(fr, b, Tail(out), m)
       /\ NoStop(out) => NoStop(Tail(out))
       /\ out[1].kind = "stop" => Tail(out) = <<>>
  <2>1. OutInv(fr, a, out, m)
    BY <1>2
  <2>2. \A i \in Emitted(fr, m) : Taken(fr, a, i) => Taken(fr, b, i)
    BY <1>10
  <2>3. out[1].kind # "stop" => Taken(fr, b, out[1].of)
    BY <1>3, <1>10
  <2>. QED
    BY <1>11, <2>1, <2>2, <2>3, TakeFirst
<1>13. e.kind = "stop" => ~NoStop(out)
  BY <1>3 DEF NoStop
<1>. HIDE DEF Good
<1>14. AnswerInv(fr, b, m) /\ (b.state = "answered" => e.kind = "stop")
  BY <1>10 DEF Good
<1>. QED
  BY <1>1, <1>2, <1>3, <1>12, <1>13, <1>14 DEF StreamIs

\* A frame is parsed as soon as it is whole.
LEMMA ChunkKeeps ==
  ASSUME StreamInv, NEW k \in 1 .. (AgentProxy!Size * Len(wire.frames) - arrived),
         wire.state # "broken", answer.state = "waits"
  PROVE  LET done == AgentProxy!FoldLeft(AgentProxy!ParseEvent, [tool |-> parser, out |-> events],
                                         AgentProxy!WholeFrames(arrived + k))
         IN  StreamIs(wire.frames, wire.state, arrived + k, done.tool, done.out, answer)
<1>. DEFINE done == AgentProxy!FoldLeft(AgentProxy!ParseEvent, [tool |-> parser, out |-> events],
                                        AgentProxy!WholeFrames(arrived + k))
            fr == wire.frames
            st == wire.state
<1>1. PICK m \in Nat : m = arrived \div 2
  BY DEF StreamInv, StreamIs
<1>2. /\ FramesInv(fr, st) /\ arrived \in Nat /\ arrived <= 2 * Len(fr)
      /\ ToolInv(fr, parser, m) /\ AnswerInv(fr, answer, m) /\ OutInv(fr, answer, events, m)
      /\ ~NoStop(events) => arrived = 2 * Len(fr)
  BY <1>1 DEF StreamInv, StreamIs
<1>3. PICK len \in Nat : len = Len(fr) /\ DOMAIN fr = 1 .. len
  BY <1>2 DEF FramesInv
<1>4. /\ k \in Nat /\ k > 0 /\ arrived + k \in Nat /\ arrived + k <= 2 * len /\ arrived # 2 * len
  BY <1>2, <1>3 DEF AgentProxy!Size
<1>5. PICK d \in Nat : m + d = (arrived + k) \div 2 /\ m + d <= len
  <2>1. /\ (arrived + k) \div 2 \in Nat /\ arrived \div 2 <= (arrived + k) \div 2
        /\ (arrived + k) \div 2 <= len
    BY <1>2, <1>3, <1>4
  <2>2. (arrived + k) \div 2 - m \in Nat /\ m + ((arrived + k) \div 2 - m) = (arrived + k) \div 2
    BY <1>1, <2>1
  <2>. QED
    BY <2>1, <2>2
<1>6. NoStop(events)
  BY <1>2, <1>3, <1>4
<1>7. /\ ToolInv(fr, done.tool, m + d) /\ OutInv(fr, answer, done.out, m + d) /\ NoStop(done.out)
  BY <1>1, <1>2, <1>3, <1>5, <1>6, ChunkParses
<1>. HIDE DEF done
<1>8. AnswerInv(fr, answer, m + d)
  <2>1. \A i : i \in Emitted(fr, m) => i \in Emitted(fr, m + d)
    <3>1. \A i \in DOMAIN fr : i <= m => i <= m + d
      BY <1>3, <1>5
    <3>. QED
      BY <3>1 DEF Emitted
  <2>. QED
    BY <1>2, <2>1 DEF AnswerInv
<1>9. StreamIs(fr, st, arrived + k, done.tool, done.out, answer)
  BY <1>2, <1>3, <1>4, <1>5, <1>7, <1>8 DEF StreamIs
<1>. QED
  BY <1>9 DEF done

\* A step of this part, or of another, keeps StreamInv.
LEMMA StreamStep ==
  ASSUME StreamInv, [AgentProxy!BedrockStreamNext]_streamVars
  PROVE  StreamInv'
<1>1. PICK fr, st : fr = wire.frames /\ st = wire.state /\ wire = [frames |-> fr, state |-> st]
  BY DEF StreamInv
<1>2. StreamIs(fr, st, arrived, parser, events, answer)
  BY <1>1 DEF StreamInv
<1>3. FramesInv(fr, st) /\ fr \in Seq(AgentProxy!FrameKinds)
  BY <1>2 DEF StreamIs, FramesInv
<1>4. AgentProxy!OpenTool <=> Cardinality(Starts(fr)) > Cardinality(Stops(fr))
  BY <1>1 DEF AgentProxy!OpenTool, Starts, Stops, AgentProxy!Cardinality, Cardinality
<1>5. CASE AgentProxy!SendFrame
  <2>1. PICK kind \in IF AgentProxy!OpenTool THEN {"input", "blockStop", "exception"}
                      ELSE {"text", "toolStart", "usage", "exception"} :
          wire' = [frames |-> Append(fr, kind), state |-> IF kind = "exception" THEN "closed" ELSE "open"]
    BY <1>1, <1>5 DEF AgentProxy!SendFrame
  <2>2. st = "open" /\ Len(fr) < MaxFrames /\ UNCHANGED <<arrived, parser, events, answer>>
    BY <1>1, <1>5 DEF AgentProxy!SendFrame
  <2>3. kind \in AgentProxy!FrameKinds
    BY <2>1 DEF AgentProxy!FrameKinds
  <2>4. StreamIs(Append(fr, kind), IF kind = "exception" THEN "closed" ELSE "open", arrived, parser, events, answer)
    BY <1>2, <1>4, <2>1, <2>2, <2>3, SendKeeps
  <2>. QED
    BY <2>1, <2>2, <2>4 DEF StreamInv
<1>6. CASE AgentProxy!EndStream
  <2>1. st = "open" /\ ~AgentProxy!OpenTool /\ wire' = [frames |-> fr, state |-> "closed"]
        /\ UNCHANGED <<arrived, parser, events, answer>>
    BY <1>1, <1>6 DEF AgentProxy!EndStream
  <2>2. OpenAt(fr, Len(fr)) = {}
    <3>1. Cardinality(Starts(fr)) = Cardinality(Stops(fr)) + (IF OpenAt(fr, Len(fr)) = {} THEN 0 ELSE 1)
      BY <1>3 DEF FramesInv
    <3>2. Cardinality(Stops(fr)) \in Nat
      <4>1. PICK n \in Nat : DOMAIN fr = 1 .. n
        BY <1>3
      <4>2. IsFiniteSet(1 .. n)
        <5>1. 1 \in Int /\ n \in Int
          OBVIOUS
        <5>. QED
          BY <5>1, FS_Interval
      <4>3. Stops(fr) \in SUBSET (1 .. n)
        BY <4>1 DEF Stops
      <4>. QED
        BY <4>2, <4>3, FS_Subset, FS_CardinalityType
    <3>. QED
      BY <1>4, <2>1, <3>1, <3>2
  <2>3. StreamIs(fr, "closed", arrived, parser, events, answer)
    BY <1>2, <2>1, <2>2, EndKeeps
  <2>. QED
    BY <2>1, <2>3 DEF StreamInv
<1>7. CASE AgentProxy!BreakConnection
  <2>1. st \in {"open", "closed"} /\ wire' = [frames |-> fr, state |-> "broken"]
        /\ UNCHANGED <<arrived, parser, events, answer>>
    BY <1>1, <1>7 DEF AgentProxy!BreakConnection
  <2>2. StreamIs(fr, "broken", arrived, parser, events, answer)
    BY <1>2, <2>1, BreakKeeps
  <2>. QED
    BY <2>1, <2>2 DEF StreamInv
<1>8. CASE AgentProxy!Chunk
  <2>1. PICK k \in 1 .. (AgentProxy!Size * Len(wire.frames) - arrived) :
          LET done == AgentProxy!FoldLeft(AgentProxy!ParseEvent, [tool |-> parser, out |-> events],
                                          AgentProxy!WholeFrames(arrived + k))
          IN  arrived' = arrived + k /\ parser' = done.tool /\ events' = done.out
    BY <1>8 DEF AgentProxy!Chunk
  <2>2. wire.state # "broken" /\ answer.state = "waits" /\ UNCHANGED <<wire, answer>>
    BY <1>8 DEF AgentProxy!Chunk, AgentProxy!Listened
  <2>3. StreamIs(wire.frames, wire.state, arrived', parser', events', answer)
    BY <2>1, <2>2, ChunkKeeps
  <2>. QED
    BY <1>1, <2>2, <2>3 DEF StreamInv
<1>9. CASE AgentProxy!StopAtEnd
  <2>1. /\ st = "closed" /\ arrived = 2 * Len(fr) /\ wire' = [frames |-> fr, state |-> "read"]
        /\ events' = Append(events, AgentProxy!Event("stop", AgentProxy!None, <<>>))
        /\ UNCHANGED <<arrived, parser, answer>>
    BY <1>1, <1>9 DEF AgentProxy!StopAtEnd, AgentProxy!Size
  <2>2. StreamIs(fr, "read", arrived, parser, Append(events, AgentProxy!Event("stop", AgentProxy!None, <<>>)), answer)
    BY <1>2, <2>1, StopKeeps
  <2>. QED
    BY <2>1, <2>2 DEF StreamInv
<1>10. CASE AgentProxy!TakeEvent
  <2>1. /\ answer.state = "waits" /\ events # <<>> /\ events' = Tail(events)
        /\ UNCHANGED <<wire, arrived, parser>>
    BY <1>10 DEF AgentProxy!TakeEvent, AgentProxy!Listened
  <2>2. PICK e : e = events[1] /\ e = Head(events)
    OBVIOUS
  <2>3. /\ e.kind = "text" => answer' = [answer EXCEPT !.text = Append(@, e.of)]
        /\ e.kind = "tool" => answer' = [answer EXCEPT !.tools = Append(@, <<e.of, e.inputs>>)]
        /\ e.kind = "usage" => answer' = [answer EXCEPT !.usage = e.of]
        /\ e.kind = "stop" => answer' = [answer EXCEPT !.state = "answered"]
        /\ e.kind = "error" => answer' = [answer EXCEPT !.state = "failed"]
    BY <1>10, <2>2 DEF AgentProxy!TakeEvent
  <2>4. StreamIs(fr, st, arrived, parser, Tail(events), answer')
    BY <1>2, <2>1, <2>2, <2>3, TakeKeeps
  <2>. QED
    BY <1>1, <2>1, <2>4 DEF StreamInv
<1>11. CASE AgentProxy!ChannelCloses
  <2>1. /\ st = "broken" /\ answer.state = "waits" /\ events = <<>>
        /\ answer' = [answer EXCEPT !.state = "answered"] /\ UNCHANGED <<wire, arrived, parser, events>>
    BY <1>1, <1>11 DEF AgentProxy!ChannelCloses, AgentProxy!Listened
  <2>2. StreamIs(fr, "broken", arrived, parser, events, [answer EXCEPT !.state = "answered"])
    BY <1>2, <2>1, CloseKeeps
  <2>. QED
    BY <1>1, <2>1, <2>2 DEF StreamInv
<1>12. CASE UNCHANGED streamVars
  BY <1>12 DEF streamVars, StreamInv
<1>. QED
  BY <1>5, <1>6, <1>7, <1>8, <1>9, <1>10, <1>11, <1>12 DEF AgentProxy!BedrockStreamNext

\* StreamInv holds in every reachable state.
LEMMA StreamHolds == Spec => []StreamInv
<1>1. Init => StreamInv
  <2>. SUFFICES ASSUME Init PROVE StreamInv
    OBVIOUS
  <2>1. /\ wire = [frames |-> <<>>, state |-> "open"] /\ arrived = 0 /\ parser = AgentProxy!NoTool
        /\ events = <<>>
        /\ answer = [state |-> "waits", text |-> <<>>, tools |-> <<>>, usage |-> 0]
    BY DEF Init, AgentProxy!BedrockStreamInit, AgentProxy!None
  <2>2. OpenAt(<<>>, 0) = {} /\ Emitted(<<>>, 0) = {} /\ Starts(<<>>) = {} /\ Stops(<<>>) = {}
    BY DEF OpenAt, Emitted, Starts, Stops
  <2>3. MaxFrames \in Nat
    BY ConstantsOfPolicy
  <2>4. FramesInv(<<>>, "open")
    BY <2>2, <2>3, FS_EmptySet DEF FramesInv
  <2>5. ToolInv(<<>>, AgentProxy!NoTool, 0)
    BY <2>2 DEF ToolInv, AgentProxy!NoTool, AgentProxy!None, StreamTool
  <2>6. AnswerInv(<<>>, answer, 0)
    BY <2>1 DEF AnswerInv, StreamAnswer
  <2>7. OutInv(<<>>, answer, <<>>, 0) /\ NoStop(<<>>)
    BY <2>2 DEF OutInv, NoStop
  <2>8. 0 \div 2 = 0 /\ Len(<<>>) = 0
    OBVIOUS
  <2>. QED
    BY <2>1, <2>4, <2>5, <2>6, <2>7, <2>8 DEF StreamInv, StreamIs
<1>2. StreamInv /\ [Next]_vars => StreamInv'
  BY StepOfParts, StreamStep
<1>. QED
  BY <1>1, <1>2, PTL DEF Spec


\* The call of a tool has the input between its start and the next stop.
LEMMA WholeToolIs ==
  ASSUME StreamInv, NEW i, NEW inputs, WholeTool(wire.frames, i, inputs)
  PROVE  /\ i \in DOMAIN wire.frames /\ wire.frames[i] = "toolStart"
         /\ \E j \in AgentProxy!Sent("blockStop") : j > i
         /\ inputs = AgentProxy!InOrder({j \in AgentProxy!Sent("input") : i < j /\ j < AgentProxy!StopOf(i)})
<1>0. PICK fr : fr = wire.frames
  OBVIOUS
<1>1. PICK n \in Nat : fr = wire.frames /\ DOMAIN fr = 1 .. n
  BY <1>0 DEF StreamInv, StreamIs, FramesInv
<1>2. PICK j \in 1 .. n :
        /\ fr[j] = "blockStop" /\ i < j
        /\ \A l \in 1 .. n : fr[l] = "blockStop" => ~(i < l /\ l < j)
        /\ Enumerates(inputs, {l \in 1 .. n : fr[l] = "input" /\ i < l /\ l < j})
  BY <1>1 DEF WholeTool
<1>3. i \in 1 .. n /\ fr[i] = "toolStart"
  BY <1>1 DEF WholeTool
<1>4. \A kind : AgentProxy!Sent(kind) = {l \in 1 .. n : fr[l] = kind}
  BY <1>1 DEF AgentProxy!Sent
<1>5. AgentProxy!StopOf(i) = j
  <2>. DEFINE S == {l \in AgentProxy!Sent("blockStop") : l > i}
  <2>1. j \in S /\ S \subseteq Nat
    BY <1>2, <1>3, <1>4
  <2>2. \A l \in S : j <= l
    BY <1>2, <1>3, <1>4
  <2>. HIDE DEF S
  <2>3. AgentProxy!Min(S) = j
    <3>1. \A x \in S : (\A y \in S : x <= y) => x = j
      BY <2>1, <2>2
    <3>2. AgentProxy!Min(S) = CHOOSE x \in S : \A y \in S : x <= y
      BY DEF AgentProxy!Min
    <3>. QED
      BY <2>1, <2>2, <3>1, <3>2
  <2>. QED
    BY <2>3 DEF AgentProxy!StopOf, S
<1>6. {l \in AgentProxy!Sent("input") : i < l /\ l < AgentProxy!StopOf(i)}
        = {l \in 1 .. n : fr[l] = "input" /\ i < l /\ l < j}
  BY <1>4, <1>5
<1>7. {l \in 1 .. n : fr[l] = "input" /\ i < l /\ l < j} \in SUBSET Nat
  OBVIOUS
<1>8. inputs = AgentProxy!InOrder({l \in 1 .. n : fr[l] = "input" /\ i < l /\ l < j})
  BY <1>2, <1>7, InOrderIs
<1>9. j \in AgentProxy!Sent("blockStop") /\ j > i
  BY <1>2, <1>3, <1>4
<1>. QED
  BY <1>1, <1>3, <1>6, <1>8, <1>9

\* When all was read and nothing is left, the answer has all that was sent.
LEMMA AnsweredIsAll ==
  ASSUME StreamInv, answer.state = "answered", wire.state # "broken"
  PROVE  /\ AgentProxy!Sent("exception") = {}
         /\ Enumerates(answer.text, AgentProxy!Sent("text"))
         /\ \A i \in AgentProxy!Sent("toolStart") : \E k \in DOMAIN answer.tools : answer.tools[k][1] = i
         /\ \A i \in AgentProxy!Sent("usage") : i <= answer.usage
         /\ answer.usage # 0 => answer.usage \in AgentProxy!Sent("usage")
<1>0. PICK fr : fr = wire.frames
  OBVIOUS
<1>1. PICK n \in Nat : fr = wire.frames /\ DOMAIN fr = 1 .. n /\ Len(fr) = n
  BY <1>0 DEF StreamInv, StreamIs, FramesInv
<1>2. PICK a : a = answer
  OBVIOUS
<1>3. /\ FramesInv(fr, wire.state) /\ wire.state = "read" /\ events = <<>> /\ arrived = 2 * n
      /\ AnswerInv(fr, a, arrived \div 2) /\ OutInv(fr, a, events, arrived \div 2)
  BY <1>1, <1>2 DEF StreamInv, StreamIs
<1>4. arrived \div 2 = n
  BY <1>3
<1>5. AnswerInv(fr, a, n) /\ \A i \in Emitted(fr, n) : Taken(fr, a, i)
  BY <1>3, <1>4 DEF OutInv
<1>6. \A kind : AgentProxy!Sent(kind) = {l \in 1 .. n : fr[l] = kind}
  BY <1>1 DEF AgentProxy!Sent
<1>7. /\ \A k \in DOMAIN a.text : fr[a.text[k]] = "text" /\ a.text[k] \in 1 .. n
      /\ \A k \in DOMAIN a.tools : fr[a.tools[k][1]] = "toolStart"
      /\ a.usage # 0 => fr[a.usage] = "usage" /\ a.usage \in 1 .. n
      /\ a.text \in Seq(Nat) /\ a.state = "answered"
  BY <1>1, <1>2, <1>5 DEF AnswerInv, WholeTool, Emitted, StreamAnswer
<1>8. \A i \in 1 .. n : fr[i] \in {"text", "usage", "exception"} => i \in Emitted(fr, n)
  BY <1>1 DEF Emitted
<1>9. AgentProxy!Sent("exception") = {}
  BY <1>5, <1>6, <1>7, <1>8 DEF Taken
<1>10. OpenAt(fr, n) = {}
  BY <1>1, <1>3, <1>6, <1>9 DEF FramesInv
<1>11. \A i \in 1 .. n : fr[i] = "toolStart" => i \in Emitted(fr, n)
  <2>1. \A i \in 1 .. n : i <= n
    OBVIOUS
  <2>2. \A i \in 1 .. n : fr[i] = "toolStart" => \E j \in 1 .. n : fr[j] = "blockStop" /\ i < j
    BY <1>1, <1>10, <2>1 DEF OpenAt
  <2>. QED
    BY <1>1, <2>1, <2>2 DEF Emitted
<1>12. Enumerates(a.text, AgentProxy!Sent("text"))
  <2>1. \A x \in AgentProxy!Sent("text") : \E k \in DOMAIN a.text : a.text[k] = x
    BY <1>5, <1>6, <1>7, <1>8 DEF Taken
  <2>2. a.text \in Seq(AgentProxy!Sent("text"))
    <3>1. \A k \in DOMAIN a.text : a.text[k] \in AgentProxy!Sent("text")
      BY <1>6, <1>7
    <3>2. PICK l \in Nat : DOMAIN a.text = 1 .. l /\ a.text = [k \in 1 .. l |-> a.text[k]]
      BY <1>7
    <3>. QED
      BY <3>1, <3>2
  <2>. QED
    BY <1>5, <2>1, <2>2 DEF AnswerInv, Enumerates
<1>13. \A i \in AgentProxy!Sent("toolStart") : \E k \in DOMAIN a.tools : a.tools[k][1] = i
  BY <1>5, <1>6, <1>7, <1>11 DEF Taken
<1>14. \A i \in AgentProxy!Sent("usage") : i <= a.usage
  BY <1>5, <1>6, <1>7, <1>8 DEF Taken
<1>15. a.usage # 0 => a.usage \in AgentProxy!Sent("usage")
  BY <1>6, <1>7
<1>. QED
  BY <1>2, <1>9, <1>12, <1>13, <1>14, <1>15

\* An answered call has the tools that were sent, in order.
LEMMA ToolsAreSent ==
  ASSUME StreamInv, answer.state = "answered", wire.state # "broken"
  PROVE  answer.tools = AgentProxy!ToolsSent
<1>. DEFINE S == AgentProxy!Sent("toolStart")
            q == [k \in DOMAIN answer.tools |-> answer.tools[k][1]]
<1>1. S \in SUBSET Nat
  BY DEF StreamInv, StreamIs, FramesInv, AgentProxy!Sent
<1>2. /\ answer.tools \in Seq(Nat \X Seq(Nat))
      /\ \A j, k \in DOMAIN answer.tools : j < k => answer.tools[j][1] < answer.tools[k][1]
      /\ \A k \in DOMAIN answer.tools : WholeTool(wire.frames, answer.tools[k][1], answer.tools[k][2])
  BY DEF StreamInv, StreamIs, AnswerInv, StreamAnswer
<1>3. \A k \in DOMAIN answer.tools :
        /\ answer.tools[k][1] \in S
        /\ answer.tools[k][2] = AgentProxy!InOrder({j \in AgentProxy!Sent("input") :
                                   answer.tools[k][1] < j /\ j < AgentProxy!StopOf(answer.tools[k][1])})
  BY <1>2, WholeToolIs DEF AgentProxy!Sent
<1>4. PICK n \in Nat : DOMAIN answer.tools = 1 .. n
  BY <1>2
<1>5. Enumerates(q, S)
  <2>1. q \in [1 .. n -> S]
    BY <1>3, <1>4
  <2>2. q \in Seq(S)
    <3>. HIDE DEF q, S
    <3>. QED
      BY <2>1
  <2>3. DOMAIN q = 1 .. n /\ \A j, k \in 1 .. n : j < k => q[j] < q[k]
    BY <1>2, <1>4
  <2>4. \A x \in S : \E k \in 1 .. n : q[k] = x
    BY <1>4, AnsweredIsAll
  <2>. HIDE DEF q, S
  <2>. QED
    BY <2>2, <2>3, <2>4 DEF Enumerates
<1>6. /\ AgentProxy!InOrder(S) = q
      /\ Len(q) = Cardinality(S)
  <2>. HIDE DEF q, S
  <2>. QED
    BY <1>1, <1>5, InOrderIs, EnumeratesAsMany
<1>7. AgentProxy!Cardinality(S) = n
  <2>1. Len(q) = n
    <3>1. q \in [1 .. n -> Nat]
      BY <1>1, <1>3, <1>4
    <3>. HIDE DEF q
    <3>. QED
      BY <3>1
  <2>2. AgentProxy!Cardinality(S) = Cardinality(S)
    BY DEF AgentProxy!Cardinality, Cardinality
  <2>. HIDE DEF q, S
  <2>. QED
    BY <1>6, <2>1, <2>2
<1>8. AgentProxy!ToolsSent
        = [k \in 1 .. n |-> <<q[k], AgentProxy!InOrder({j \in AgentProxy!Sent("input") :
                                      q[k] < j /\ j < AgentProxy!StopOf(q[k])})>>]
  <2>. HIDE DEF q
  <2>. QED
    BY <1>6, <1>7 DEF AgentProxy!ToolsSent
<1>9. \A k \in 1 .. n : answer.tools[k] = <<q[k], AgentProxy!InOrder({j \in AgentProxy!Sent("input") :
                                                     q[k] < j /\ j < AgentProxy!StopOf(q[k])})>>
  <2>1. \A k \in 1 .. n : answer.tools[k] = <<answer.tools[k][1], answer.tools[k][2]>>
    BY <1>2, <1>4
  <2>2. \A k \in 1 .. n : q[k] = answer.tools[k][1]
    BY <1>4
  <2>. HIDE DEF q
  <2>. QED
    BY <1>3, <1>4, <2>1, <2>2
<1>10. answer.tools = [k \in 1 .. n |-> answer.tools[k]]
  <2>1. PICK f : f = answer.tools
    OBVIOUS
  <2>2. f = [k \in 1 .. n |-> f[k]]
    BY <1>2, <1>4, <2>1
  <2>. QED
    BY <2>1, <2>2
<1>. QED
  <2>. HIDE DEF q
  <2>. QED
    BY <1>8, <1>9, <1>10

\* What StreamInv says of frames and answer is what the runs check.
LEMMA StreamIsWhole ==
  ASSUME StreamInv
  PROVE  AgentProxy!AnswerIsWhatWasSent /\ AgentProxy!ExceptionsFail /\ AgentProxy!ToolsAreWhole
<1>1. \A kind : AgentProxy!Sent(kind) \in SUBSET Nat
  BY DEF StreamInv, StreamIs, FramesInv, AgentProxy!Sent
<1>2. AgentProxy!AnswerIsWhatWasSent
  <2>. SUFFICES ASSUME answer.state = "answered", wire.state # "broken"
                PROVE  /\ answer.text = AgentProxy!InOrder(AgentProxy!Sent("text"))
                       /\ answer.tools = AgentProxy!ToolsSent
                       /\ answer.usage = (IF AgentProxy!Sent("usage") = {} THEN AgentProxy!None
                                          ELSE AgentProxy!Max(AgentProxy!Sent("usage")))
    BY DEF AgentProxy!AnswerIsWhatWasSent
  <2>1. answer.text = AgentProxy!InOrder(AgentProxy!Sent("text"))
    BY <1>1, AnsweredIsAll, InOrderIs
  <2>0. PICK S : S = AgentProxy!Sent("usage")
    OBVIOUS
  <2>2. PICK u \in Nat : S = AgentProxy!Sent("usage") /\ u = answer.usage
    BY <2>0 DEF StreamInv, StreamIs, AnswerInv, StreamAnswer
  <2>3. /\ \A i \in S : i <= u
        /\ u # 0 => u \in S
        /\ 0 \notin S /\ S \subseteq Nat
    <3>1. 0 \notin S
      BY <2>2 DEF StreamInv, StreamIs, FramesInv, AgentProxy!Sent
    <3>. QED
      BY <1>1, <2>2, <3>1, AnsweredIsAll
  <2>4. S # {} => AgentProxy!Max(S) = u
    <3>1. ASSUME S # {} PROVE u \in S
      <4>1. PICK i \in S : i \in Nat /\ i <= u
        BY <2>3, <3>1
      <4>2. i # 0
        BY <2>3, Zenon
      <4>3. u # 0
        BY <4>1, <4>2
      <4>. QED
        BY <2>3, <4>3
    <3>2. \A x \in S : (\A y \in S : x >= y) => x = u
      BY <2>3, <3>1
    <3>3. AgentProxy!Max(S) = CHOOSE x \in S : \A y \in S : x >= y
      BY DEF AgentProxy!Max
    <3>4. u \in S => \A y \in S : u >= y
      BY <2>3
    <3>. QED
      BY <3>1, <3>2, <3>3, <3>4
  <2>5. S = {} => u = 0
    BY <2>3
  <2>6. answer.usage = IF S = {} THEN 0 ELSE AgentProxy!Max(S)
    BY <2>2, <2>4, <2>5
  <2>. QED
    BY <2>1, <2>2, <2>6, ToolsAreSent DEF AgentProxy!None
<1>3. AgentProxy!ExceptionsFail
  BY AnsweredIsAll DEF AgentProxy!ExceptionsFail
<1>4. AgentProxy!ToolsAreWhole
  <2>1. \A k \in DOMAIN answer.tools : WholeTool(wire.frames, answer.tools[k][1], answer.tools[k][2])
    BY DEF StreamInv, StreamIs, AnswerInv
  <2>. QED
    BY <2>1, WholeToolIs DEF AgentProxy!ToolsAreWhole
<1>. QED
  BY <1>2, <1>3, <1>4

(****************************************************************************)
(* Chats as a whole.                                                        *)
(****************************************************************************)
\* However turns, uploads, deletions and calls of the admin interleave, and
\* however a stream is cut: an answer follows its question and is what the
\* model sent, usage is stamped on the turn's own answer, each attachment is
\* answered in its place, an image is one, and at most one provider is active,
\* with a key that works (routes/agent_proxy.rs, routes/uploads.rs,
\* routes/llm_providers.rs, bedrock.rs).
THEOREM ChatsAlwaysWhole == Spec => []ChatsAreWhole
<1>1. ProvidersInv => LlmProviders!OneActive /\ LlmProviders!ActiveHasKey
  BY SingleIsOne DEF ProvidersInv
<1>2. UploadsInv => /\ AgentProxy!RowsHaveFiles /\ AgentProxy!AttachmentsAnswered
                    /\ AgentProxy!ImagesAreImages
  BY DEF UploadsInv, FilesOfUploads, ChatOfUploadsInv, ChatOfUploads, AgentProxy!RowsHaveFiles,
     AgentProxy!AttachmentsAnswered
<1>3. ChatInv => AgentProxy!AnswerFollowsQuestion /\ AgentProxy!StampedByItsOwnTurn
  BY DEF ChatInv
<1>4. KeysInv => LlmProviders!KeysWork
  BY DEF KeysInv
<1>5. ProvidersInv /\ KeysInv /\ ChatInv /\ UploadsInv /\ StreamInv => ChatsAreWhole
  BY <1>1, <1>2, <1>3, <1>4, StreamIsWhole DEF ChatsAreWhole
<1>. QED
  BY <1>5, ProvidersHold, KeysHold, ChatHolds, UploadsHold, StreamHolds, PTL

==============================================================================
