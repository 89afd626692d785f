-------------------------- MODULE RecordsProofs ------------------------------
(****************************************************************************)
(* Theorems about the parts that keep records, composed as in MCRecords:    *)
(* each part keeps an inductive invariant of its own, whatever part moves;  *)
(* the theorems put them together.  First what is exchanged with others,    *)
(* then overlapping calls on one history, canvas, collection, site, app or  *)
(* board, then templates, packages, processes and limiters, and last what no*)
(* step may do.                                                             *)
(****************************************************************************)
EXTENDS MCRecords, TLAPS, FiniteSetTheorems

(****************************************************************************)
(* A step of the whole is a step of each part, or leaves it alone.          *)
(****************************************************************************)
LEMMA StepOfParts ==
  ASSUME [Next]_vars
  PROVE  /\ [Polling!PlatformSyncNext]_platformVars
         /\ [RelayRegistration!Next]_registrationVars
         /\ [OAuthConnections!Next]_oauthVars
         /\ [IntegrationSync!IntegrationsNext]_integrationsVars
         /\ [Polling!PolledCachesNext]_cachesVars
         /\ [IntegrationSync!EtlSyncNext]_etlVars
         /\ [RecordKeeping!RevisionsNext]_revisionsVars
         /\ [CanvasPages!CanvasesNext]_canvasVars
         /\ [RecordKeeping!SchemaRecordsNext]_schemaVars
         /\ [Sites!Next]_sitesVars
         /\ [Education!CoursesNext]_coursesVars
         /\ [Education!LearnerRecordsNext]_learnersVars
         /\ [Education!ScormManifestNext]_manifestVars
         /\ [CanvasViews!CanvasGenerationNext]_generationVars
         /\ [SocialPackage!SocialPostsNext]_socialVars
         /\ [WorkspaceSetup!PackagesNext]_packagesVars
         /\ [CanvasPages!AppsNext]_appsVars
         /\ [SocialPackage!CalendarTableNext]_calendarVars
         /\ [WorkspaceSetup!TemplatesNext]_templatesVars
         /\ [CanvasViews!KanbanBoardNext]_kanbanVars
         /\ [ServerProcess!RateLimitNext]_rateVars
         /\ [ServerProcess!HarnessProcessNext]_processVars
BY DEF Next, vars, Still

(****************************************************************************)
(* The client of the platform.                                              *)
(****************************************************************************)

\* The counters a chat has added to are the first ones, in the order of
\* Additions; what it added is in one place.
LEMMA FourCounters ==
  /\ Polling!Counters = {"tokens_input", "tokens_output", "messages", "model_usage"}
  /\ Polling!Additions[1] = "tokens_input" /\ Polling!Additions[2] = "tokens_output"
  /\ Polling!Additions[3] = "messages" /\ Polling!Additions[4] = "model_usage"
  /\ Polling!Takings[1] = "model_usage" /\ Polling!Takings[2] = "messages"
  /\ Polling!Takings[3] = "tokens_input" /\ Polling!Takings[4] = "tokens_output"
<1>1. /\ Polling!Additions[1] = "tokens_input" /\ Polling!Additions[2] = "tokens_output"
      /\ Polling!Additions[3] = "messages" /\ Polling!Additions[4] = "model_usage"
  BY DEF Polling!Additions
<1>2. /\ Polling!Takings[1] = "model_usage" /\ Polling!Takings[2] = "messages"
      /\ Polling!Takings[3] = "tokens_input" /\ Polling!Takings[4] = "tokens_output"
  BY DEF Polling!Takings
<1>3. 1 .. 4 = {1, 2, 3, 4}
  OBVIOUS
<1>. QED
  BY <1>1, <1>2, <1>3 DEF Polling!Counters

InPlaces(k) == counter[k] \union report[k] \union told[k] \union forgotten[k]

InOnePlace(k) ==
  /\ counter[k] \intersect (report[k] \union told[k] \union forgotten[k]) = {}
  /\ report[k] \intersect (told[k] \union forgotten[k]) = {}
  /\ told[k] \intersect forgotten[k] = {}

\* What is in the counter of the n-th addition was recorded as such.
InOrder(n, k) == \A c \in InPlaces(k) : recorded[c] >= n

\* The totals lose nothing but what they hold, and are drained after the usage.
UsageFollowsInput ==
  LET known == told["tokens_input"] \union forgotten["tokens_input"]
  IN  /\ told["model_usage"] \union forgotten["model_usage"] \subseteq known
      /\ taken >= 3 => report["model_usage"] \subseteq known \union report["tokens_input"]
      /\ taken < 3 => report["tokens_input"] = {}
      /\ taken < 1 => report["model_usage"] = {}
      /\ taken < 2 => report["messages"] = {}
      /\ taken < 4 => report["tokens_output"] = {}

PlatformInv ==
  /\ Polling!PlatformSyncTypeOK
  /\ \A k \in Polling!Counters : InOnePlace(k)
  /\ InOrder(1, "tokens_input") /\ InOrder(2, "tokens_output")
  /\ InOrder(3, "messages") /\ InOrder(4, "model_usage")
  /\ \A c \in Chats : recorded[c] >= 1 => c \in InPlaces("tokens_input")
  /\ UsageFollowsInput

\* The types of the platform's books, spelled out.
LEMMA PlatformBooks ==
  Polling!PlatformSyncTypeOK <=>
    /\ recorded \in [Chats -> 0 .. 4] /\ taken \in 0 .. 4
    /\ counter \in [Polling!Counters -> SUBSET Chats]
    /\ report \in [Polling!Counters -> SUBSET Chats]
    /\ told \in [Polling!Counters -> SUBSET Chats]
    /\ forgotten \in [Polling!Counters -> SUBSET Chats]
BY DEF Polling!PlatformSyncTypeOK

\* The same of the next state.
LEMMA PlatformBooksNext ==
  Polling!PlatformSyncTypeOK' <=>
    /\ recorded' \in [Chats -> 0 .. 4] /\ taken' \in 0 .. 4
    /\ counter' \in [Polling!Counters -> SUBSET Chats]
    /\ report' \in [Polling!Counters -> SUBSET Chats]
    /\ told' \in [Polling!Counters -> SUBSET Chats]
    /\ forgotten' \in [Polling!Counters -> SUBSET Chats]
BY DEF Polling!PlatformSyncTypeOK

\* Record: PlatformInv is kept.
LEMMA RecordKeepsBooks ==
  ASSUME PlatformInv, NEW c \in Chats, Polling!Record(c) PROVE PlatformInv'
<1>. USE DEF PlatformInv
<1>1. PICK n \in {1, 2, 3, 4}, k \in Polling!Counters :
        /\ n = recorded[c] + 1 /\ k = Polling!Additions[n]
        /\ counter' = [counter EXCEPT ![k] = counter[k] \union {c}]
        /\ recorded' = [recorded EXCEPT ![c] = n]
        /\ UNCHANGED <<taken, report, told, forgotten>>
  <2>1. /\ recorded[c] + 1 \in {1, 2, 3, 4}
        /\ Polling!Additions[recorded[c] + 1] \in Polling!Counters
    BY FourCounters, PlatformBooks DEF Polling!Record
  <2>. QED
    BY <2>1 DEF Polling!Record
<1>2. c \notin InPlaces(k)
  BY <1>1, FourCounters, PlatformBooks DEF InOrder
<1>3. /\ counter'[k] = counter[k] \union {c}
      /\ \A j \in Polling!Counters : j # k => counter'[j] = counter[j]
      /\ recorded'[c] = n /\ \A d \in Chats : d # c => recorded'[d] = recorded[d]
  BY <1>1, PlatformBooks
<1>4. /\ InPlaces(k)' = InPlaces(k) \union {c}
      /\ \A j \in Polling!Counters : j # k => InPlaces(j)' = InPlaces(j)
  BY <1>1, <1>3 DEF InPlaces
<1>5. Polling!PlatformSyncTypeOK'
  BY <1>1, PlatformBooks, PlatformBooksNext
<1>6. \A j \in Polling!Counters : InOnePlace(j)'
  <2>. TAKE j \in Polling!Counters
  <2>1. CASE j = k
    BY <1>1, <1>2, <1>3, <2>1 DEF InOnePlace, InPlaces
  <2>2. CASE j # k
    BY <1>1, <1>3, <2>2 DEF InOnePlace
  <2>. QED
    BY <2>1, <2>2
<1>7. \A j \in Polling!Counters : InPlaces(j) \subseteq Chats
  BY PlatformBooks DEF InPlaces
<1>8. ASSUME NEW m \in 1 .. 4, NEW j \in Polling!Counters, InOrder(m, j),
             j = k => m = n
      PROVE  InOrder(m, j)'
  BY <1>1, <1>3, <1>4, <1>7, <1>8, PlatformBooks DEF InOrder
<1>9. /\ InOrder(1, "tokens_input")' /\ InOrder(2, "tokens_output")'
      /\ InOrder(3, "messages")' /\ InOrder(4, "model_usage")'
  BY <1>1, <1>8, FourCounters
<1>10. \A d \in Chats : recorded'[d] >= 1 => d \in InPlaces("tokens_input")'
  <2>1. n = 1 => k = "tokens_input"
    BY <1>1, FourCounters
  <2>2. n # 1 => recorded[c] >= 1
    BY <1>1, PlatformBooks
  <2>. QED
    BY <1>1, <1>3, <1>4, <2>1, <2>2, FourCounters, PlatformBooks
<1>11. UsageFollowsInput'
  BY <1>1 DEF UsageFollowsInput
<1>. QED
  BY <1>5, <1>6, <1>9, <1>10, <1>11

\* Take: PlatformInv is kept.
LEMMA TakeKeepsBooks ==
  ASSUME PlatformInv, Polling!Take PROVE PlatformInv'
<1>. USE DEF PlatformInv
<1>. DEFINE k == Polling!Takings[taken + 1]
<1>1. /\ taken \in 0 .. 3 /\ k \in Polling!Counters
      /\ report' = [report EXCEPT ![k] = counter[k]]
      /\ counter' = [counter EXCEPT ![k] = {}]
      /\ taken' = taken + 1
      /\ UNCHANGED <<recorded, told, forgotten>>
  BY FourCounters, PlatformBooks DEF Polling!Take
<1>2. report[k] = {}
  BY <1>1, FourCounters DEF UsageFollowsInput
<1>3. /\ report'[k] = counter[k] /\ counter'[k] = {}
      /\ \A j \in Polling!Counters :
           j # k => report'[j] = report[j] /\ counter'[j] = counter[j]
  BY <1>1, PlatformBooks
<1>4. \A j \in Polling!Counters : InPlaces(j)' = InPlaces(j)
  BY <1>1, <1>2, <1>3 DEF InPlaces
<1>5. Polling!PlatformSyncTypeOK'
  BY <1>1, PlatformBooks, PlatformBooksNext
<1>6. \A j \in Polling!Counters : InOnePlace(j)'
  BY <1>1, <1>2, <1>3 DEF InOnePlace
<1>7. /\ InOrder(1, "tokens_input")' /\ InOrder(2, "tokens_output")'
      /\ InOrder(3, "messages")' /\ InOrder(4, "model_usage")'
  BY <1>1, <1>4, FourCounters DEF InOrder
<1>8. \A d \in Chats : recorded'[d] >= 1 => d \in InPlaces("tokens_input")'
  BY <1>1, <1>4, FourCounters
<1>9. UsageFollowsInput'
  <2>1. \A c \in InPlaces("model_usage") : c \in InPlaces("tokens_input")
    BY PlatformBooks, FourCounters DEF InOrder, InPlaces
  <2>2. CASE taken = 2
    BY <1>1, <1>2, <1>3, <2>1, <2>2, FourCounters DEF UsageFollowsInput, InPlaces
  <2>3. CASE taken # 2
    BY <1>1, <1>3, <2>3, FourCounters DEF UsageFollowsInput
  <2>. QED
    BY <2>2, <2>3
<1>. QED
  BY <1>5, <1>6, <1>7, <1>8, <1>9

\* A report, or what a restart forgets, goes to one of the two books.
LEMMA ReportKeepsBooks ==
  ASSUME PlatformInv,
         Polling!SkipReport \/ Polling!SendReport \/ Polling!Restart
  PROVE  PlatformInv'
<1>. USE DEF PlatformInv
<1>1. /\ \A k \in Polling!Counters : report'[k] = {} /\ InPlaces(k)' = InPlaces(k)
      /\ \A k \in Polling!Counters : InOnePlace(k)'
      /\ \/ UNCHANGED recorded
         \/ recorded' = [c \in Chats |-> IF recorded[c] = 0 THEN 0 ELSE 4]
      /\ taken' = 0
      /\ \/ /\ taken = 4
            /\ \A k \in Polling!Counters :
                 told'[k] \union forgotten'[k]
                   = told[k] \union forgotten[k] \union report[k]
         \/ \A k \in Polling!Counters :
              told'[k] \union forgotten'[k] = InPlaces(k)
  <2>1. CASE Polling!SkipReport \/ Polling!SendReport
    BY <2>1, PlatformBooks DEF Polling!SkipReport, Polling!SendReport, Polling!Done,
       Polling!Add, Polling!Empty, InPlaces, InOnePlace
  <2>2. CASE Polling!Restart
    BY <2>2, PlatformBooks DEF Polling!Restart, Polling!Add, Polling!Empty,
       InPlaces, InOnePlace
  <2>. QED
    BY <2>1, <2>2
<1>2. Polling!PlatformSyncTypeOK'
  BY PlatformBooks, PlatformBooksNext DEF Polling!SkipReport, Polling!SendReport,
     Polling!Restart, Polling!Done, Polling!Add, Polling!Empty
<1>3. \A c \in Chats : /\ recorded'[c] >= recorded[c]
                       /\ recorded'[c] >= 1 => recorded[c] >= 1
  BY <1>1, PlatformBooks
<1>4. \A k \in Polling!Counters : InPlaces(k) \subseteq Chats
  BY PlatformBooks DEF InPlaces
<1>5. /\ InOrder(1, "tokens_input")' /\ InOrder(2, "tokens_output")'
      /\ InOrder(3, "messages")' /\ InOrder(4, "model_usage")'
  BY <1>1, <1>2, <1>3, <1>4, FourCounters, PlatformBooks, PlatformBooksNext
     DEF InOrder
<1>6. \A d \in Chats : recorded'[d] >= 1 => d \in InPlaces("tokens_input")'
  BY <1>1, <1>3, FourCounters
<1>7. UsageFollowsInput'
  <2>1. \A c \in InPlaces("model_usage") : c \in InPlaces("tokens_input")
    BY PlatformBooks, FourCounters DEF InOrder, InPlaces
  <2>2. told'["model_usage"] \union forgotten'["model_usage"]
          \subseteq told'["tokens_input"] \union forgotten'["tokens_input"]
    BY <1>1, <2>1, FourCounters DEF UsageFollowsInput
  <2>. QED
    BY <1>1, <2>2, FourCounters DEF UsageFollowsInput
<1>. QED
  BY <1>1, <1>2, <1>5, <1>6, <1>7

\* PlatformInv holds in every reachable state.
LEMMA PlatformHolds == Spec => []PlatformInv
<1>1. Init => PlatformInv
  <2>. SUFFICES ASSUME Init PROVE PlatformInv
    OBVIOUS
  <2>1. /\ recorded = [c \in Chats |-> 0] /\ taken = 0
        /\ \A k \in Polling!Counters :
             counter[k] = {} /\ report[k] = {} /\ told[k] = {} /\ forgotten[k] = {}
    BY DEF Init, Polling!PlatformSyncInit, Polling!Empty
  <2>2. Polling!PlatformSyncTypeOK
    BY PlatformBooks DEF Init, Polling!PlatformSyncInit, Polling!Empty
  <2>. QED
    BY <2>1, <2>2, FourCounters
       DEF PlatformInv, InOnePlace, InOrder, InPlaces, UsageFollowsInput
<1>2. ASSUME PlatformInv, [Polling!PlatformSyncNext]_platformVars PROVE PlatformInv'
  <2>1. CASE UNCHANGED platformVars
    BY <1>2, <2>1, PlatformBooks, PlatformBooksNext
       DEF platformVars, PlatformInv, InOnePlace, InOrder, InPlaces, UsageFollowsInput
  <2>2. CASE Polling!PlatformSyncNext
    BY <1>2, <2>2, RecordKeepsBooks, TakeKeepsBooks, ReportKeepsBooks
       DEF Polling!PlatformSyncNext
  <2>. QED
    BY <1>2, <2>1, <2>2
<1>. QED
  BY <1>1, <1>2, StepOfParts, PTL DEF Spec

\* What the runs check of it follows from PlatformInv.
LEMMA UsageIsMetered == PlatformInv => Polling!MeteredOnce /\ Polling!UsageNeverAhead
<1>. SUFFICES ASSUME PlatformInv PROVE Polling!MeteredOnce /\ Polling!UsageNeverAhead
  OBVIOUS
<1>1. Polling!UsageNeverAhead
  BY DEF PlatformInv, UsageFollowsInput, Polling!UsageNeverAhead
<1>2. ASSUME NEW k \in Polling!Counters, NEW i \in 1 .. 4, NEW j \in 1 .. 4, i # j
      PROVE  <<counter[k], report[k], told[k], forgotten[k]>>[i]
               \intersect <<counter[k], report[k], told[k], forgotten[k]>>[j] = {}
  BY <1>2 DEF PlatformInv, InOnePlace
<1>. QED
  BY <1>1, <1>2 DEF Polling!MeteredOnce

(****************************************************************************)
(* Registration with the relay.                                             *)
(****************************************************************************)

\* A call that was given an identity, or returned one, has the relay's; a call
\* between the relay's answer and the row is what keeps the agent from being
\* stuck.
RegistrationInv ==
  /\ RelayRegistration!TypeOK
  /\ identity \in {0, registered}
  /\ \A c \in Callers :
       stage[c] \in {"given", "ok"} => answer[c] = registered /\ registered # 0
  /\ RelayRegistration!StuckOnlyByLoss

\* The steps of a caller keep the one identity.
LEMMA CallKeepsIdentity ==
  ASSUME RegistrationInv, NEW c \in Callers,
         \/ RelayRegistration!LookUp(c) \/ RelayRegistration!Register(c)
         \/ RelayRegistration!Conflict(c) \/ RelayRegistration!RegisterFails(c)
         \/ RelayRegistration!AnswerLost(c) \/ RelayRegistration!Cache(c)
         \/ RelayRegistration!CacheFails(c)
  PROVE  RegistrationInv'
<1>. USE ConstantsOfRecords
     DEF RegistrationInv, RelayRegistration!TypeOK, RelayRegistration!Stages,
         RelayRegistration!StuckOnlyByLoss, RelayRegistration!Moves
<1>1. CASE RelayRegistration!LookUp(c)
  BY <1>1 DEF RelayRegistration!LookUp
<1>2. CASE RelayRegistration!Register(c)
  BY <1>2 DEF RelayRegistration!Register
<1>3. CASE RelayRegistration!Conflict(c)
  BY <1>3 DEF RelayRegistration!Conflict
<1>4. CASE RelayRegistration!RegisterFails(c)
  BY <1>4 DEF RelayRegistration!RegisterFails
<1>5. CASE RelayRegistration!AnswerLost(c)
  BY <1>5 DEF RelayRegistration!AnswerLost
<1>6. CASE RelayRegistration!Cache(c)
  BY <1>6 DEF RelayRegistration!Cache
<1>7. CASE RelayRegistration!CacheFails(c)
  BY <1>7 DEF RelayRegistration!CacheFails
<1>. QED
  BY <1>1, <1>2, <1>3, <1>4, <1>5, <1>6, <1>7

\* RegistrationInv holds in every reachable state.
LEMMA RegistrationHolds == Spec => []RegistrationInv
<1>1. Init => RegistrationInv
  <2>. SUFFICES ASSUME Init PROVE RegistrationInv
    OBVIOUS
  <2>1. wallet \in BOOLEAN
    BY Zenon DEF Init, RelayRegistration!Init
  <2>2. stage \in [Callers -> RelayRegistration!Stages]
    BY DEF Init, RelayRegistration!Init, RelayRegistration!Stages
  <2>. QED
    BY <2>1, <2>2, ConstantsOfRecords
       DEF Init, RelayRegistration!Init, RegistrationInv, RelayRegistration!TypeOK,
           RelayRegistration!StuckOnlyByLoss
<1>2. ASSUME RegistrationInv, [RelayRegistration!Next]_registrationVars
      PROVE  RegistrationInv'
  <2>1. CASE RelayRegistration!SetWallet
    BY <1>2, <2>1 DEF RelayRegistration!SetWallet, RegistrationInv,
       RelayRegistration!TypeOK, RelayRegistration!StuckOnlyByLoss
  <2>2. CASE UNCHANGED registrationVars
    BY <1>2, <2>2 DEF registrationVars, RegistrationInv,
       RelayRegistration!TypeOK, RelayRegistration!StuckOnlyByLoss
  <2>. QED
    BY <1>2, <2>1, <2>2, CallKeepsIdentity DEF RelayRegistration!Next
<1>. QED
  BY <1>1, <1>2, StepOfParts, PTL DEF Spec

(****************************************************************************)
(* OAuth connections.                                                       *)
(****************************************************************************)

\* A state is taken out once, by the callback that exchanges its code.
ConsentsInv ==
  /\ states \intersect exchanging = {}
  /\ \A s \in Consents :
       /\ exchanges[s] <= 1
       /\ s \in states \union exchanging => s \in started
       /\ s \notin started \/ s \in states => exchanges[s] = 0 /\ code[s] = NoReply
       /\ s \in exchanging => exchanges[s] = IF code[s] = NoReply THEN 0 ELSE 1

\* A token that waits to be written is nowhere else; the row's is accepted,
\* or its successor is about to be written.
Waiting(t) ==
  t # 0 /\ \E s \in exchanging : code[s] = t

TokensInv ==
  /\ \A s \in exchanging : code[s] # NoReply => code[s] \in accepted \union {0}
  /\ \A s, q \in exchanging :
       code[s] = code[q] /\ code[s] \notin {0, NoReply} => s = q
  /\ \A s \in exchanging :
       code[s] \notin {0, NoReply} =>
         code[s] # refresh /\ code[s] # refreshing /\ code[s] # refreshed
  /\ refresh <= issued /\ refreshing <= issued
  /\ refreshing = 0 => refreshed = NoReply
  /\ refreshed \notin {0, NoReply, Rejected} =>
       refreshed \in accepted /\ refreshed # refreshing
  /\ ~blemished =>
       \/ refresh \in accepted \union {0}
       \/ refresh = refreshing /\ refreshed \notin {0, NoReply, Rejected}

OAuthInv ==
  /\ OAuthConnections!TypeOK
  /\ ConsentsInv
  /\ TokensInv
  /\ connStatus = "revoked" /\ ~blemished => refresh = 0 /\ refreshing = 0

\* A step of this part, or of another, keeps OAuthInv.
LEMMA OAuthStep ==
  ASSUME OAuthInv, [OAuthConnections!Next]_oauthVars PROVE OAuthInv'
<1>0. /\ MaxTokens \in Nat /\ issued \in Nat /\ Rejected # NoReply
      /\ NoReply \notin 0 .. MaxTokens /\ Rejected \notin 0 .. MaxTokens
  BY ConstantsOfRecords DEF OAuthInv, OAuthConnections!TypeOK
<1>. USE <1>0
     DEF OAuthInv, OAuthConnections!TypeOK, ConsentsInv, TokensInv,
         OAuthConnections!row, OAuthConnections!consent,
         OAuthConnections!provider, OAuthConnections!refresher
<1>1. CASE OAuthConnections!InitiateOAuth
  BY <1>1 DEF OAuthConnections!InitiateOAuth
<1>2. CASE OAuthConnections!TokenAges
  BY <1>2 DEF OAuthConnections!TokenAges
<1>3. CASE OAuthConnections!RevokeConnection
  <2>. USE <1>3 DEF OAuthConnections!RevokeConnection
  <2>1. OAuthConnections!TypeOK'
    <3>1. blemished' \in BOOLEAN /\ due' \in BOOLEAN
      BY Zenon
    <3>. QED
      BY <3>1
  <2>2. ConsentsInv'
    OBVIOUS
  <2>3. TokensInv'
    OBVIOUS
  <2>4. (connStatus = "revoked" /\ ~blemished => refresh = 0 /\ refreshing = 0)'
    OBVIOUS
  <2>. QED
    BY <2>1, <2>2, <2>3, <2>4
<1>4. CASE OAuthConnections!ProcessDue
  BY <1>4 DEF OAuthConnections!ProcessDue
<1>5. CASE OAuthConnections!ProviderRefreshes
  <2>1. PICK v \in 0 .. MaxTokens :
          /\ refreshing \in accepted /\ refreshed = NoReply /\ refreshed' = v
          /\ \/ /\ v = issued + 1 /\ issued' = v
                /\ accepted' = (accepted \ {refreshing}) \union {v}
             \/ v = 0 /\ UNCHANGED <<issued, accepted>>
          /\ UNCHANGED <<started, states, exchanging, code, exchanges, connStatus,
                         refresh, due, refreshing, blemished>>
    <3>1. issued < MaxTokens => issued + 1 \in 0 .. MaxTokens
      OBVIOUS
    <3>. QED
      BY <1>5, <3>1 DEF OAuthConnections!ProviderRefreshes
  <2>2. OAuthConnections!TypeOK'
    <3>. HIDE DEF ConsentsInv, TokensInv
    <3>1. accepted \subseteq 1 .. issued /\ issued \in 0 .. MaxTokens
      OBVIOUS
    <3>. HIDE DEF OAuthInv, OAuthConnections!TypeOK
    <3>2. issued' \in 0 .. MaxTokens
      BY <2>1, <3>1
    <3>3. accepted' \subseteq 1 .. issued'
      <4>1. CASE v = 0
        <5>1. issued' = issued /\ accepted' = accepted
          BY <2>1, <3>1, <4>1
        <5>. QED
          BY <3>1, <5>1
      <4>2. CASE v # 0
        <5>1. issued' = issued + 1 /\ accepted' \subseteq accepted \union {issued + 1}
          BY <2>1, <3>1, <4>2
        <5>. QED
          BY <3>1, <5>1
      <4>. QED
        BY <4>1, <4>2
    <3>. USE DEF OAuthInv, OAuthConnections!TypeOK
    <3>. QED
      BY <2>1, <3>2, <3>3
  <2>3. TokensInv'
    <3>. HIDE DEF ConsentsInv
    <3>1. CASE v = 0
      BY <2>1, <3>1
    <3>2. CASE v # 0
      BY <2>1, <3>2
    <3>. QED
      BY <3>1, <3>2
  <2>. QED
    BY <2>1, <2>2, <2>3
<1>6. CASE OAuthConnections!ProviderRejects
  BY <1>6 DEF OAuthConnections!ProviderRejects
<1>7. CASE OAuthConnections!RefreshOne
  <2>. USE <1>7 DEF OAuthConnections!RefreshOne, OAuthConnections!RefreshEnds
  <2>1. OAuthConnections!TypeOK'
    <3>1. blemished' \in BOOLEAN /\ due' \in BOOLEAN
      BY Zenon
    <3>. QED
      BY <3>1
  <2>2. ConsentsInv'
    OBVIOUS
  <2>3. TokensInv'
    OBVIOUS
  <2>4. (connStatus = "revoked" /\ ~blemished => refresh = 0 /\ refreshing = 0)'
    OBVIOUS
  <2>. QED
    BY <2>1, <2>2, <2>3, <2>4
<1>8. CASE OAuthConnections!RefreshLost
  <2>. USE <1>8 DEF OAuthConnections!RefreshLost, OAuthConnections!RefreshEnds
  <2>1. OAuthConnections!TypeOK'
    <3>1. blemished' \in BOOLEAN /\ due' \in BOOLEAN
      BY Zenon
    <3>. QED
      BY <3>1
  <2>2. ConsentsInv'
    OBVIOUS
  <2>3. TokensInv'
    <3>1. ~blemished' => ~blemished /\ refreshed \in {NoReply, 0, Rejected}
      BY Zenon
    <3>. QED
      BY <3>1
  <2>4. (connStatus = "revoked" /\ ~blemished => refresh = 0 /\ refreshing = 0)'
    OBVIOUS
  <2>. QED
    BY <2>1, <2>2, <2>3, <2>4
<1>9. ASSUME NEW s \in Consents, OAuthConnections!StartConsent(s) PROVE OAuthInv'
  BY <1>9 DEF OAuthConnections!StartConsent
<1>10. ASSUME NEW s \in Consents, OAuthConnections!StateExpires(s) PROVE OAuthInv'
  BY <1>10 DEF OAuthConnections!StateExpires
<1>11. ASSUME NEW s \in Consents, OAuthConnections!Callback(s) PROVE OAuthInv'
  BY <1>11 DEF OAuthConnections!Callback
<1>12. ASSUME NEW s \in Consents, OAuthConnections!Exchange(s) PROVE OAuthInv'
  <2>1. PICK v \in 0 .. MaxTokens :
          /\ s \in exchanging /\ code[s] = NoReply
          /\ exchanges' = [exchanges EXCEPT ![s] = exchanges[s] + 1]
          /\ code' = [code EXCEPT ![s] = v]
          /\ \/ v = issued + 1 /\ issued' = v /\ accepted' = accepted \union {v}
             \/ v = 0 /\ UNCHANGED <<issued, accepted>>
          /\ UNCHANGED <<started, states, exchanging, connStatus, refresh, due,
                         refreshing, refreshed, blemished>>
    <3>1. issued < MaxTokens => issued + 1 \in 0 .. MaxTokens
      OBVIOUS
    <3>. QED
      BY <1>12, <3>1 DEF OAuthConnections!Exchange
  <2>2. /\ code'[s] = v /\ \A q \in Consents : q # s => code'[q] = code[q]
        /\ accepted \subseteq accepted' /\ accepted' \subseteq 1 .. issued'
        /\ v # 0 => v \notin accepted /\ v > issued /\ v \in accepted'
        /\ issued' \in 0 .. MaxTokens /\ issued <= issued'
        /\ exchanges[s] = 0 /\ exchanges' \in [Consents -> 0 .. 2]
        /\ code' \in [Consents -> (0 .. MaxTokens) \union {NoReply}]
    <3>. HIDE DEF TokensInv
    <3>1. /\ code'[s] = v /\ \A q \in Consents : q # s => code'[q] = code[q]
          /\ code' \in [Consents -> (0 .. MaxTokens) \union {NoReply}]
      BY <2>1
    <3>2. exchanges[s] = 0 /\ exchanges' \in [Consents -> 0 .. 2]
      BY <2>1
    <3>3. /\ accepted \subseteq accepted' /\ accepted' \subseteq 1 .. issued'
          /\ v # 0 => v \notin accepted /\ v > issued /\ v \in accepted'
          /\ issued' \in 0 .. MaxTokens /\ issued <= issued'
      <4>1. accepted \subseteq 1 .. issued /\ issued \in 0 .. MaxTokens
        OBVIOUS
      <4>. HIDE DEF OAuthInv, OAuthConnections!TypeOK, ConsentsInv
      <4>2. issued' \in 0 .. MaxTokens /\ issued <= issued'
        BY <2>1, <4>1
      <4>3. accepted \subseteq accepted'
        BY <2>1
      <4>4. CASE v = 0
        <5>0. issued' = issued /\ accepted' = accepted
          BY <2>1, <4>1, <4>4
        <5>1. accepted' \subseteq 1 .. issued'
          BY <4>1, <5>0
        <5>. QED
          BY <4>2, <4>3, <4>4, <5>1
      <4>5. CASE v # 0
        <5>0. issued' = issued + 1 /\ accepted' = accepted \union {issued + 1}
          BY <2>1, <4>1, <4>5
        <5>1. accepted' \subseteq 1 .. issued'
          BY <4>1, <5>0
        <5>2. v \notin accepted /\ v > issued /\ v \in accepted'
          BY <2>1, <4>1, <4>5
        <5>. QED
          BY <4>2, <4>3, <5>1, <5>2
      <4>. QED
        BY <4>4, <4>5
    <3>. QED
      BY <3>1, <3>2, <3>3
  <2>3. OAuthConnections!TypeOK'
    <3>. HIDE DEF TokensInv, ConsentsInv
    <3>. QED
      BY <2>1, <2>2
  <2>4. ConsentsInv'
    <3>. HIDE DEF TokensInv
    <3>. QED
      BY <2>1
  <2>5. TokensInv'
    <3>. HIDE DEF ConsentsInv
    <3>. QED
      BY <2>1, <2>2
  <2>. QED
    BY <2>1, <2>3, <2>4, <2>5
<1>13. ASSUME NEW s \in Consents, OAuthConnections!ExchangeFails(s) PROVE OAuthInv'
  BY <1>13 DEF OAuthConnections!ExchangeFails
<1>14. ASSUME NEW s \in Consents, OAuthConnections!CallbackWrites(s) PROVE OAuthInv'
  <2>. USE <1>14 DEF OAuthConnections!CallbackWrites
  <2>1. OAuthConnections!TypeOK'
    <3>1. blemished' \in BOOLEAN /\ due' \in BOOLEAN
      BY Zenon
    <3>. QED
      BY <3>1
  <2>2. ConsentsInv'
    OBVIOUS
  <2>3. TokensInv'
    OBVIOUS
  <2>4. (connStatus = "revoked" /\ ~blemished => refresh = 0 /\ refreshing = 0)'
    OBVIOUS
  <2>. QED
    BY <2>1, <2>2, <2>3, <2>4
<1>15. CASE UNCHANGED oauthVars
  BY <1>15 DEF oauthVars
<1>. QED
  BY <1>1, <1>2, <1>3, <1>4, <1>5, <1>6, <1>7, <1>8, <1>9, <1>10, <1>11, <1>12,
     <1>13, <1>14, <1>15 DEF OAuthConnections!Next

\* OAuthInv holds in every reachable state.
LEMMA OAuthHolds == Spec => []OAuthInv
<1>1. Init => OAuthInv
  <2>. SUFFICES ASSUME Init PROVE OAuthInv
    OBVIOUS
  <2>. USE ConstantsOfRecords DEF Init, OAuthConnections!Init
  <2>1. OAuthConnections!TypeOK
    <3>1. blemished \in BOOLEAN /\ due \in BOOLEAN
      BY Zenon
    <3>. QED
      BY <3>1 DEF OAuthConnections!TypeOK
  <2>2. ConsentsInv /\ TokensInv
    BY DEF ConsentsInv, TokensInv
  <2>. QED
    BY <2>1, <2>2 DEF OAuthInv
<1>. QED
  BY <1>1, OAuthStep, StepOfParts, PTL DEF Spec

\* What the runs check of it follows from OAuthInv.
LEMMA ConsentsAreWorthOne ==
  OAuthInv => /\ OAuthConnections!ConsentUsedOnce
              /\ OAuthConnections!ActiveCanRefresh
              /\ OAuthConnections!RevokedIsEmpty
<1>1. OAuthInv => OAuthConnections!ActiveCanRefresh
  BY DEF OAuthInv, TokensInv, OAuthConnections!ActiveCanRefresh
<1>. QED
  BY <1>1 DEF OAuthInv, ConsentsInv, OAuthConnections!ConsentUsedOnce,
              OAuthConnections!RevokedIsEmpty

(****************************************************************************)
(* Integrations and calls through them.                                     *)
(****************************************************************************)

\* A call that will not carry what it was to carry: it found no credential, or
\* its credential went before it looked.
Bare(x) ==
  \/ apiCall[x] \in {"connection", "credential"} /\ ~authorised[x]
  \/ apiCall[x] = "connection" /\ through[x] \notin credential

\* While nothing failed: operations go first in a deletion and come back after
\* it only, and a bare call's connection is gone with them.
DeletionsAreOrdered ==
  /\ \A c \in Conns : connection[c] = "unlinked" => deleting = 2
  /\ deleting \in 1 .. 4 \/ ~integration => ~operations
  /\ \A x \in ApiCalls : Bare(x) =>
       /\ connection[through[x]] \in {"unlinked", "gone"}
       /\ deleting \in 1 .. 4 \/ ~integration
  /\ \A x \in ApiCalls : apiCall[x] = "sent" => authorised[x]

IntegrationsInv ==
  /\ IntegrationSync!IntegrationsTypeOK
  /\ \A c \in Conns : connection[c] = "linked" => c \in credential
  /\ \A x \in ApiCalls :
       apiCall[x] # "idle" => connection[through[x]] # "none"
  /\ \A c \in creating : connection[c] = "none"
  /\ deleting # 0 => integration
  /\ ~spoilt => DeletionsAreOrdered

\* IntegrationsInv holds at the start.
LEMMA IntegrationsInit == Init => IntegrationsInv
<1>. SUFFICES ASSUME Init PROVE IntegrationsInv
  OBVIOUS
<1>. USE DEF Init, IntegrationSync!IntegrationsInit
<1>1. integration \in BOOLEAN /\ operations \in BOOLEAN /\ spoilt \in BOOLEAN
  BY Zenon
<1>2. (CHOOSE c \in Conns : TRUE) \in Conns
  BY ConstantsOfRecords
<1>3. authorised \in [ApiCalls -> BOOLEAN]
  OBVIOUS
<1>4. IntegrationSync!IntegrationsTypeOK
  BY <1>1, <1>2, <1>3 DEF IntegrationSync!IntegrationsTypeOK, IntegrationSync!Stages
<1>. QED
  BY <1>4 DEF IntegrationsInv, DeletionsAreOrdered, Bare

\* A step of this part, or of another, keeps IntegrationsInv.
LEMMA IntegrationsStep ==
  ASSUME IntegrationsInv, [IntegrationSync!IntegrationsNext]_integrationsVars
  PROVE  IntegrationsInv'
<1>. USE DEF IntegrationsInv, IntegrationSync!IntegrationsTypeOK,
             DeletionsAreOrdered, Bare, IntegrationSync!calls, IntegrationSync!rows,
             IntegrationSync!To, IntegrationSync!Stages
<1>1. CASE IntegrationSync!CreateIntegration
  BY <1>1 DEF IntegrationSync!CreateIntegration
<1>2. CASE IntegrationSync!UpsertOperations
  <2>. USE <1>2 DEF IntegrationSync!UpsertOperations
  <2>1. spoilt' \in BOOLEAN
    BY Zenon
  <2>2. ~spoilt' => ~spoilt /\ deleting = 0
    BY Zenon
  <2>. QED
    BY <2>1, <2>2
<1>3. CASE IntegrationSync!BeginDelete
  BY <1>3 DEF IntegrationSync!BeginDelete
<1>4. CASE IntegrationSync!DeleteStep
  BY <1>4 DEF IntegrationSync!DeleteStep, IntegrationSync!Unlink, IntegrationSync!Drop
<1>5. CASE IntegrationSync!DeleteStepFails
  BY <1>5 DEF IntegrationSync!DeleteStepFails
<1>6. ASSUME NEW c \in Conns, IntegrationSync!StoreCredential(c)
      PROVE  IntegrationsInv'
  BY <1>6 DEF IntegrationSync!StoreCredential
<1>7. ASSUME NEW c \in Conns, IntegrationSync!InsertConnection(c)
      PROVE  IntegrationsInv'
  BY <1>7 DEF IntegrationSync!InsertConnection
<1>8. ASSUME NEW c \in Conns, IntegrationSync!DeleteConnection(c)
      PROVE  IntegrationsInv'
  BY <1>8 DEF IntegrationSync!DeleteConnection
<1>9. ASSUME NEW x \in ApiCalls, IntegrationSync!ReadCredential(x)
      PROVE  IntegrationsInv'
  <2>. USE <1>9 DEF IntegrationSync!ReadCredential
  <2>1. authorised' \in [ApiCalls -> BOOLEAN]
    <3>1. (authorised[x] /\ through[x] \in credential) \in BOOLEAN
      BY Zenon
    <3>. QED
      BY <3>1
  <2>2. \A y \in ApiCalls : y # x => /\ authorised'[y] = authorised[y]
                                    /\ apiCall'[y] = apiCall[y]
    OBVIOUS
  <2>3. \/ /\ apiCall'[x] = "credential"
           /\ authorised'[x] <=> authorised[x] /\ through[x] \in credential
        \/ apiCall'[x] = "error"
    OBVIOUS
  <2>. QED
    BY <2>1, <2>2, <2>3
<1>10. ASSUME NEW x \in ApiCalls, IntegrationSync!ReadOperation(x)
      PROVE  IntegrationsInv'
  BY <1>10 DEF IntegrationSync!ReadOperation
<1>11. ASSUME NEW x \in ApiCalls, NEW c \in Conns, IntegrationSync!ReadConnection(x, c)
       PROVE  IntegrationsInv'
  <2>. USE <1>11 DEF IntegrationSync!ReadConnection
  <2>1. authorised' \in [ApiCalls -> BOOLEAN]
    <3>1. (connection[c] = "linked") \in BOOLEAN
      BY Zenon
    <3>. QED
      BY <3>1
  <2>2. \A y \in ApiCalls : y # x => /\ authorised'[y] = authorised[y]
                                    /\ apiCall'[y] = apiCall[y]
                                    /\ through'[y] = through[y]
    OBVIOUS
  <2>3. /\ apiCall'[x] = "connection" /\ through'[x] = c
        /\ authorised'[x] <=> connection[c] = "linked"
    OBVIOUS
  <2>. QED
    BY <2>1, <2>2, <2>3
<1>12. CASE UNCHANGED integrationsVars
  BY <1>12 DEF integrationsVars
<1>. QED
  BY <1>1, <1>2, <1>3, <1>4, <1>5, <1>6, <1>7, <1>8, <1>9, <1>10, <1>11, <1>12
     DEF IntegrationSync!IntegrationsNext

\* IntegrationsInv holds in every reachable state.
LEMMA IntegrationsHold == Spec => []IntegrationsInv
BY IntegrationsInit, IntegrationsStep, StepOfParts, PTL DEF Spec

\* What the runs check of it follows from IntegrationsInv.
LEMMA CallsCarryCredentials ==
  IntegrationsInv => IntegrationSync!NoBareCalls /\ IntegrationSync!UnlinkedByDeletion
BY DEF IntegrationsInv, IntegrationSync!IntegrationsTypeOK, DeletionsAreOrdered,
       IntegrationSync!NoBareCalls, IntegrationSync!UnlinkedByDeletion

\* For any numbers of chats, calls, consents, tokens, connections and losses:
\* usage is metered once and not ahead of the totals (platform_sync.rs), all
\* registrations return the relay's identity and only a loss makes an agent
\* stuck (relay_registration.rs, ensure_registered_with_relay), a consent is
\* exchanged once and an active row can refresh (oauth.rs, oauth_refresh.rs),
\* and no call goes out without its credential (executor.rs, execute).
THEOREM OutsideStaysKnown == Spec => []OutsideIsKnown
<1>1. RegistrationInv =>
        RelayRegistration!OneIdentity /\ RelayRegistration!StuckOnlyByLoss
  BY DEF RegistrationInv, RelayRegistration!OneIdentity
<1>2. PlatformInv /\ RegistrationInv /\ OAuthInv /\ IntegrationsInv
        => OutsideIsKnown
  BY <1>1, UsageIsMetered, ConsentsAreWorthOne, CallsCarryCredentials
     DEF OutsideIsKnown
<1>. QED
  BY <1>2, PlatformHolds, RegistrationHolds, OAuthHolds, IntegrationsHold, PTL

(****************************************************************************)
(* Polled caches.                                                           *)
(****************************************************************************)

\* An answer under way is of the poll under way, so it is no older than what is
\* cached.
CachesInv ==
  /\ Polling!PolledCachesTypeOK
  /\ \A s \in Sources :
       /\ asked[s] # NoEdition => s \in polling /\ asked[s] <= published[s]
       /\ cached[s] # NoEdition =>
            /\ cached[s] <= published[s]
            /\ asked[s] # NoEdition => cached[s] <= asked[s]

\* A step of this part, or of another, keeps CachesInv.
LEMMA CachesStep ==
  ASSUME CachesInv, [Polling!PolledCachesNext]_cachesVars PROVE CachesInv'
<1>. USE ConstantsOfRecords DEF CachesInv, Polling!PolledCachesTypeOK
<1>1. ASSUME NEW s \in Sources, Polling!Publish(s) PROVE CachesInv'
  BY <1>1 DEF Polling!Publish
<1>2. ASSUME NEW s \in Sources, Polling!Tick(s) PROVE CachesInv'
  BY <1>2 DEF Polling!Tick
<1>3. ASSUME NEW s \in Sources, Polling!Answer(s) PROVE CachesInv'
  BY <1>3 DEF Polling!Answer
<1>4. ASSUME NEW s \in Sources, Polling!Store(s) PROVE CachesInv'
  BY <1>4 DEF Polling!Store, Polling!Over
<1>5. ASSUME NEW s \in Sources, Polling!PollFails(s) PROVE CachesInv'
  BY <1>5 DEF Polling!PollFails, Polling!Over
<1>6. CASE UNCHANGED cachesVars
  BY <1>6 DEF cachesVars
<1>. QED
  BY <1>1, <1>2, <1>3, <1>4, <1>5, <1>6 DEF Polling!PolledCachesNext

\* CachesInv holds in every reachable state.
LEMMA CachesHold == Spec => []CachesInv
<1>1. Init => CachesInv
  BY ConstantsOfRecords
     DEF Init, Polling!PolledCachesInit, CachesInv, Polling!PolledCachesTypeOK
<1>. QED
  BY <1>1, CachesStep, StepOfParts, PTL DEF Spec

\* No poll puts an older edition in a cache than the one there.
LEMMA CachesGoForward == Spec => Polling!CachesMoveForward
<1>. DEFINE Forward == \A s \in Sources :
                         cached[s] # NoEdition => cached'[s] >= cached[s]
<1>1. CachesInv /\ Polling!PolledCachesNext => Forward
  <2>. SUFFICES ASSUME CachesInv, NEW s \in Sources,
                       \/ Polling!Publish(s) \/ Polling!Tick(s) \/ Polling!Answer(s)
                       \/ Polling!Store(s) \/ Polling!PollFails(s)
       PROVE  Forward
    BY DEF Polling!PolledCachesNext
  <2>. USE ConstantsOfRecords DEF CachesInv, Polling!PolledCachesTypeOK
  <2>1. CASE Polling!Store(s)
    BY <2>1 DEF Polling!Store, Polling!Over
  <2>2. CASE UNCHANGED cached
    BY <2>2
  <2>. QED
    BY <2>1, <2>2 DEF Polling!Publish, Polling!Tick, Polling!Answer, Polling!PollFails
<1>2. CachesInv /\ [Next]_vars => [Forward]_cachesVars
  BY <1>1, StepOfParts
<1>. QED
  BY <1>2, CachesHold, PTL
     DEF Spec, Polling!CachesMoveForward, Polling!cacheVars, cachesVars

(****************************************************************************)
(* Synchronisation of records.                                              *)
(****************************************************************************)
LEMMA Elements ==
  ASSUME NEW S, NEW s \in Seq(S)
  PROVE  Len(s) \in Nat /\ \A k \in 1 .. Len(s) : s[k] \in S
OBVIOUS

\* The head and the tail of a sequence, element by element.
LEMMA HeadAndTail ==
  ASSUME NEW S, NEW s \in Seq(S), s # <<>>
  PROVE  /\ Head(s) = s[1] /\ s[1] \in S /\ Tail(s) \in Seq(S) /\ Len(s) >= 1
         /\ Len(Tail(s)) = Len(s) - 1 /\ Len(s) \in Nat
         /\ \A k \in 1 .. Len(s) - 1 : Tail(s)[k] = s[k + 1]
         /\ \A k \in 1 .. Len(s) : s[k] \in S
OBVIOUS

\* A sequence with one more element, element by element.
LEMMA AtTheEnd ==
  ASSUME NEW S, NEW s \in Seq(S), NEW e \in S
  PROVE  /\ Append(s, e) \in Seq(S) /\ Len(Append(s, e)) = Len(s) + 1
         /\ Append(s, e)[Len(s) + 1] = e /\ Len(s) \in Nat
         /\ \A k \in 1 .. Len(s) : Append(s, e)[k] = s[k] /\ s[k] \in S
OBVIOUS

\* Another element in a place of its own.
LEMMA InItsPlace ==
  ASSUME NEW S, NEW s \in Seq(S), NEW i \in DOMAIN s, NEW e \in S
  PROVE  /\ [s EXCEPT ![i] = e] \in Seq(S) /\ Len([s EXCEPT ![i] = e]) = Len(s)
         /\ i \in 1 .. Len(s)
         /\ \A k \in 1 .. Len(s) : [s EXCEPT ![i] = e][k] = IF k = i THEN e ELSE s[k]
OBVIOUS

Fetched == IntegrationSync!Records \X (1 .. MaxVersion)
SyncRows == [id : 1 .. made, hash : 1 .. MaxVersion]

EtlTyped ==
  /\ mode \in {"none", "full", "incremental"}
  /\ remote \in Seq(1 .. MaxVersion) /\ Len(remote) <= RemoteTotal
  /\ cursor \in 0 .. RemoteTotal
  /\ phase \in [SyncRuns -> IntegrationSync!Phases]
  /\ batch \in [SyncRuns -> Seq(Fetched)]
  /\ from \in [SyncRuns -> 0 .. RemoteTotal]
  /\ made \in Nat /\ found \in [SyncRuns -> SyncRows \union {NoRow}]
  /\ syncRow \in [IntegrationSync!Records -> SyncRows \union {NoRow}]
  /\ data \subseteq IntegrationSync!Records \X (1 .. made) \X (1 .. MaxVersion)
  /\ lost \subseteq IntegrationSync!Records /\ etlFaults \in 0 .. MaxFaults
  /\ overlapped \in BOOLEAN

\* What a run has fetched and not loaded is in the order of the source; while it
\* loads, the record in hand is the first.
InHand(r) == batch[r][1][1]
Loading(r) == phase[r] \in {"insert", "link", "update", "hash"}

RunIsOrdered(r) ==
  /\ phase[r] = "idle" => batch[r] = <<>>
  /\ \A k \in 1 .. Len(batch[r]) :
       \A j \in 1 .. k - 1 : batch[r][j][1] < batch[r][k][1]
  /\ phase[r] = "fetch" => \A k \in 1 .. Len(batch[r]) : batch[r][k][1] <= from[r]
  /\ Loading(r) => batch[r] # <<>>
  /\ phase[r] \in {"link", "update", "hash"} => found[r] \in SyncRows
  /\ phase[r] \in {"update", "hash"} =>
       /\ syncRow[InHand(r)] \in SyncRows
       /\ syncRow[InHand(r)].id = found[r].id

RunsAreOrdered == \A r \in SyncRuns : RunIsOrdered(r)

\* A record behind the cursor, or behind where a run fetches, is synchronised,
\* lost, or carried by a run that has saved the cursor or by this one.
Carries(r, i) == \E k \in 1 .. Len(batch[r]) : batch[r][k][1] = i

Met(i) ==
  \/ syncRow[i] # NoRow \/ i \in lost
  \/ \E r \in SyncRuns : phase[r] \notin {"idle", "fetch"} /\ Carries(r, i)

NothingIsPassed ==
  /\ \A i \in 1 .. cursor : Met(i)
  /\ \A r \in SyncRuns : phase[r] = "fetch" =>
       \A i \in 1 .. from[r] : Met(i) \/ Carries(r, i)

\* While one run at most is under way: an id is of one record, a record without
\* sync row has none, but for the one in hand, and hashes follow versions.
Alone ==
  \A r, q \in SyncRuns : phase[r] # "idle" /\ phase[q] # "idle" => r = q

IdsAreOwned ==
  /\ \A d \in data, i \in IntegrationSync!Records :
       syncRow[i] # NoRow /\ syncRow[i].id = d[2] => d[1] = i
  /\ \A d, e \in data : d[2] = e[2] => d = e
  /\ \A i, j \in IntegrationSync!Records :
       syncRow[i] # NoRow /\ syncRow[j] # NoRow /\ syncRow[i].id = syncRow[j].id
         => i = j
  /\ \A r \in SyncRuns : phase[r] = "link" =>
       /\ \A i \in IntegrationSync!Records :
            syncRow[i] # NoRow => syncRow[i].id # found[r].id
       /\ \A d \in data : d[2] = found[r].id => d[1] = InHand(r)

HashesFollow ==
  /\ \A i \in IntegrationSync!Records : syncRow[i] # NoRow =>
       i <= Len(remote) /\ syncRow[i].hash <= remote[i]
  /\ \A r \in SyncRuns : \A k \in 1 .. Len(batch[r]) :
       LET i == batch[r][k][1]
       IN  /\ i <= Len(remote) /\ batch[r][k][2] <= remote[i]
           /\ syncRow[i] # NoRow => syncRow[i].hash <= batch[r][k][2]
  /\ \A r \in SyncRuns :
       /\ phase[r] = "insert" => syncRow[InHand(r)] = NoRow
       /\ phase[r] = "link" =>
            /\ syncRow[InHand(r)] = NoRow /\ found[r].hash = batch[r][1][2]
            /\ \A d \in data : d[2] = found[r].id => d[3] = batch[r][1][2]
       /\ phase[r] = "hash" =>
            \A d \in data : d[2] = found[r].id => d[3] = batch[r][1][2]

OneCopyEach ==
  /\ \A d, e \in data : d[1] = e[1] => d = e
  /\ \A d \in data : \/ syncRow[d[1]] # NoRow
                     \/ \E r \in SyncRuns : phase[r] = "link" /\ InHand(r) = d[1]

AloneInv ==
  /\ Alone /\ IdsAreOwned /\ HashesFollow
  /\ \A d \in data :
       LET row == syncRow[d[1]]
       IN  row # NoRow /\ row.id = d[2] => row.hash <= d[3]
  /\ lost = {} => OneCopyEach

EtlInv ==
  /\ EtlTyped /\ RunsAreOrdered /\ NothingIsPassed
  /\ ~overlapped => AloneInv

OthersStay(r) ==
  \A q \in SyncRuns : q # r =>
    /\ phase'[q] = phase[q] /\ batch'[q] = batch[q]
    /\ from'[q] = from[q] /\ found'[q] = found[q]

\* Who is met stays met: no step takes a sync row or a loss back, and a run lets
\* go only of what it has linked or lost.
LEMMA PassedStays ==
  ASSUME NothingIsPassed, cursor \in 0 .. RemoteTotal, cursor' = cursor,
         from \in [SyncRuns -> 0 .. RemoteTotal],
         \A i \in IntegrationSync!Records : Met(i) => Met(i)',
         \A r \in SyncRuns : phase'[r] = "fetch" =>
           phase[r] = "fetch" /\ from'[r] = from[r] /\ batch'[r] = batch[r]
  PROVE  NothingIsPassed'
<1>1. RemoteTotal \in Nat
  BY ConstantsOfRecords
<1>2. \A i \in 1 .. cursor : i \in IntegrationSync!Records
  BY <1>1 DEF IntegrationSync!Records
<1>3. \A r \in SyncRuns : \A i \in 1 .. from[r] : i \in IntegrationSync!Records
  BY <1>1 DEF IntegrationSync!Records
<1>4. \A r \in SyncRuns : phase'[r] = "fetch" =>
        \A i \in 1 .. from'[r] : Met(i)' \/ Carries(r, i)'
  BY <1>3 DEF NothingIsPassed, Carries
<1>. QED
  BY <1>2, <1>4 DEF NothingIsPassed

\* The sizes the synchronisation counts with are naturals.
LEMMA SizesOfSync ==
  ASSUME EtlTyped
  PROVE  /\ RemoteTotal \in Nat /\ MaxVersion \in Nat /\ MaxVersion >= 1
         /\ Len(remote) \in Nat
         /\ \A i \in 1 .. Len(remote) : remote[i] \in 1 .. MaxVersion /\ remote[i] \in Nat
         /\ \A r \in SyncRuns : \A k \in 1 .. Len(batch[r]) :
              /\ batch[r][k][1] \in IntegrationSync!Records
              /\ batch[r][k][1] \in Nat /\ batch[r][k][1] >= 1
              /\ batch[r][k][2] \in 1 .. MaxVersion /\ batch[r][k][2] \in Nat
         /\ \A i \in IntegrationSync!Records : i \in Nat /\ i >= 1
<1>1. /\ RemoteTotal \in Nat /\ MaxVersion \in Nat /\ MaxVersion >= 1
      /\ \A i \in IntegrationSync!Records : i \in Nat /\ i >= 1
  BY ConstantsOfRecords DEF IntegrationSync!Records
<1>2. Len(remote) \in Nat
  <2>1. remote \in Seq(1 .. MaxVersion)
    BY DEF EtlTyped
  <2>. QED
    BY <2>1
<1>3. \A i \in 1 .. Len(remote) : remote[i] \in 1 .. MaxVersion
  <2>1. remote \in Seq(1 .. MaxVersion)
    BY DEF EtlTyped
  <2>. QED
    BY <2>1, Elements
<1>4. \A i \in 1 .. Len(remote) : remote[i] \in Nat
  BY <1>1, <1>3
<1>5. ASSUME NEW r \in SyncRuns, NEW k \in 1 .. Len(batch[r])
      PROVE  /\ batch[r][k][1] \in IntegrationSync!Records
             /\ batch[r][k][1] \in Nat /\ batch[r][k][1] >= 1
             /\ batch[r][k][2] \in 1 .. MaxVersion /\ batch[r][k][2] \in Nat
  <2>1. batch[r][k] \in Fetched
    BY DEF EtlTyped
  <2>2. batch[r][k][1] \in IntegrationSync!Records /\ batch[r][k][2] \in 1 .. MaxVersion
    BY <2>1 DEF Fetched
  <2>. QED
    BY <1>1, <2>2
<1>. QED
  BY <1>1, <1>2, <1>3, <1>4, <1>5

\* CreateSyncConfig, SourceChanges, DeleteRecord: EtlInv is kept.
LEMMA SourceKeepsSync ==
  ASSUME EtlInv, \/ \E m \in {"full", "incremental"} : IntegrationSync!CreateSyncConfig(m)
                 \/ IntegrationSync!SourceChanges
                 \/ IntegrationSync!DeleteRecord
  PROVE  EtlInv'
<1>1. /\ EtlTyped /\ RunsAreOrdered /\ NothingIsPassed
      /\ ~overlapped => AloneInv
  BY DEF EtlInv
<1>2. /\ UNCHANGED <<cursor, phase, batch, from, found, made, syncRow, lost,
                     overlapped>>
      /\ data' \subseteq data
  BY DEF IntegrationSync!CreateSyncConfig, IntegrationSync!SourceChanges,
         IntegrationSync!DeleteRecord, IntegrationSync!run, IntegrationSync!tables
<1>3. /\ remote' \in Seq(1 .. MaxVersion)
      /\ Len(remote') <= RemoteTotal /\ Len(remote) <= Len(remote')
      /\ \A i \in 1 .. Len(remote) : remote[i] <= remote'[i]
  <2>0. remote \in Seq(1 .. MaxVersion) /\ Len(remote) <= RemoteTotal
    BY <1>1 DEF EtlTyped
  <2>1. CASE UNCHANGED remote
    <3>1. \A i \in 1 .. Len(remote) : remote[i] <= remote[i]
      BY <1>1, SizesOfSync
    <3>. QED
      BY <1>1, <2>0, <2>1, <3>1, SizesOfSync
  <2>2. CASE Len(remote) < RemoteTotal /\ remote' = Append(remote, 1)
    <3>1. 1 \in 1 .. MaxVersion
      BY <1>1, SizesOfSync
    <3>2. /\ remote' \in Seq(1 .. MaxVersion) /\ Len(remote') = Len(remote) + 1
          /\ \A i \in 1 .. Len(remote) : remote'[i] = remote[i]
      BY <2>0, <2>2, <3>1, AtTheEnd
    <3>3. \A i \in 1 .. Len(remote) : remote[i] <= remote'[i]
      BY <1>1, <3>2, SizesOfSync
    <3>4. Len(remote') <= RemoteTotal /\ Len(remote) <= Len(remote')
      BY <1>1, <2>2, <3>2, SizesOfSync
    <3>. QED
      BY <3>2, <3>3, <3>4
  <2>3. ASSUME NEW i \in DOMAIN remote, remote[i] < MaxVersion,
               remote' = [remote EXCEPT ![i] = remote[i] + 1]
        PROVE  <1>3!:
    <3>1. /\ \A j \in 1 .. Len(remote) : remote[j] \in Nat
          /\ MaxVersion \in Nat /\ RemoteTotal \in Nat /\ Len(remote) \in Nat
      BY <1>1, SizesOfSync
    <3>2. PICK n \in Nat : n = remote[i]
      BY <2>0, <3>1, InItsPlace, SizesOfSync, <1>1
    <3>3. n + 1 \in 1 .. MaxVersion
      BY <2>3, <3>1, <3>2
    <3>4. remote' = [remote EXCEPT ![i] = n + 1]
      BY <2>3, <3>2
    <3>5. /\ remote' \in Seq(1 .. MaxVersion) /\ Len(remote') = Len(remote)
          /\ \A j \in 1 .. Len(remote) : remote'[j] = IF j = i THEN n + 1 ELSE remote[j]
      BY <2>0, <3>3, <3>4, InItsPlace
    <3>6. ASSUME NEW j \in 1 .. Len(remote) PROVE remote[j] <= remote'[j]
      <4>1. PICK old \in Nat : old = remote[j]
        BY <3>1
      <4>2. remote'[j] = IF j = i THEN n + 1 ELSE remote[j]
        BY <3>5
      <4>3. j = i => old = n
        BY <3>2, <4>1
      <4>4. remote'[j] = IF j = i THEN old + 1 ELSE old
        BY <4>1, <4>2, <4>3
      <4>5. old <= old + 1 /\ old <= old
        OBVIOUS
      <4>. QED
        BY <4>1, <4>4, <4>5
    <3>. QED
      BY <2>0, <3>1, <3>5, <3>6
  <2>. QED
    BY <2>1, <2>2, <2>3 DEF IntegrationSync!CreateSyncConfig,
       IntegrationSync!SourceChanges, IntegrationSync!DeleteRecord
<1>4. EtlTyped'
  <2>1. mode' \in {"none", "full", "incremental"} /\ etlFaults' \in 0 .. MaxFaults
    BY <1>1, ConstantsOfRecords
       DEF EtlTyped, IntegrationSync!CreateSyncConfig, IntegrationSync!SourceChanges,
           IntegrationSync!DeleteRecord
  <2>. QED
    BY <1>1, <1>2, <1>3, <2>1 DEF EtlTyped, SyncRows
<1>5. RunsAreOrdered'
  BY <1>1, <1>2 DEF RunsAreOrdered, RunIsOrdered, Loading, InHand, SyncRows
<1>6. NothingIsPassed'
  BY <1>1, <1>2 DEF NothingIsPassed, Met, Carries
<1>7. ASSUME ~overlapped' PROVE AloneInv'
  <2>1. AloneInv
    BY <1>1, <1>2, <1>7
  <2>2. Alone' /\ IdsAreOwned'
    BY <1>2, <2>1 DEF AloneInv, Alone, IdsAreOwned, InHand
  <2>3. HashesFollow'
    <3>1. \A i \in IntegrationSync!Records : syncRow[i] # NoRow =>
            i \in 1 .. Len(remote) /\ syncRow[i].hash <= remote[i]
                /\ syncRow[i].hash \in Nat /\ remote[i] \in Nat /\ remote'[i] \in Nat
      <4>. SUFFICES ASSUME NEW i \in IntegrationSync!Records, syncRow[i] # NoRow
           PROVE  /\ i \in 1 .. Len(remote) /\ syncRow[i].hash <= remote[i]
                  /\ syncRow[i].hash \in Nat /\ remote[i] \in Nat /\ remote'[i] \in Nat
        OBVIOUS
      <4>1. i <= Len(remote) /\ syncRow[i].hash <= remote[i]
        BY <2>1 DEF AloneInv, HashesFollow
      <4>2. i \in 1 .. Len(remote) /\ i \in 1 .. Len(remote') /\ remote[i] \in Nat
        BY <1>1, <1>3, <4>1, SizesOfSync
      <4>3. remote'[i] \in 1 .. MaxVersion /\ remote'[i] \in Nat
        BY <1>1, <1>3, <4>2, SizesOfSync
      <4>4. syncRow[i].hash \in Nat
        BY <1>1, SizesOfSync DEF EtlTyped, SyncRows
      <4>. QED
        BY <4>1, <4>2, <4>3, <4>4
    <3>2. \A i \in IntegrationSync!Records : syncRow'[i] # NoRow =>
            i <= Len(remote') /\ syncRow'[i].hash <= remote'[i]
      BY <1>1, <1>2, <1>3, <3>1, SizesOfSync
    <3>3. \A r \in SyncRuns : \A k \in 1 .. Len(batch[r]) :
            /\ batch[r][k][1] \in 1 .. Len(remote) /\ batch[r][k][2] <= remote[batch[r][k][1]]
            /\ batch[r][k][2] \in Nat /\ remote[batch[r][k][1]] \in Nat
            /\ remote'[batch[r][k][1]] \in Nat
      <4>. TAKE r \in SyncRuns
      <4>. TAKE k \in 1 .. Len(batch[r])
      <4>1. /\ batch[r][k][1] <= Len(remote) /\ batch[r][k][2] <= remote[batch[r][k][1]]
        BY <2>1 DEF AloneInv, HashesFollow
      <4>2. /\ batch[r][k][1] \in 1 .. Len(remote) /\ batch[r][k][2] \in Nat
            /\ batch[r][k][1] \in 1 .. Len(remote')
        BY <1>1, <1>3, <4>1, SizesOfSync
      <4>3. \A i \in 1 .. Len(remote') : remote'[i] \in 1 .. MaxVersion
        <5>1. remote' \in Seq(1 .. MaxVersion)
          BY <1>3
        <5>. QED
          BY <5>1, Elements
      <4>. QED
        BY <1>1, <4>1, <4>2, <4>3, SizesOfSync
    <3>4. \A r \in SyncRuns : \A k \in 1 .. Len(batch'[r]) :
            LET i == batch'[r][k][1]
            IN  /\ i <= Len(remote') /\ batch'[r][k][2] <= remote'[i]
                /\ syncRow'[i] # NoRow => syncRow'[i].hash <= batch'[r][k][2]
      <4>. SUFFICES ASSUME NEW r \in SyncRuns, NEW k \in 1 .. Len(batch[r])
           PROVE  LET i == batch[r][k][1]
                  IN  /\ i <= Len(remote') /\ batch[r][k][2] <= remote'[i]
                      /\ syncRow[i] # NoRow => syncRow[i].hash <= batch[r][k][2]
        BY <1>2
      <4>. DEFINE i == batch[r][k][1]
      <4>1. /\ i \in 1 .. Len(remote) /\ batch[r][k][2] <= remote[i]
            /\ batch[r][k][2] \in Nat /\ remote[i] \in Nat /\ remote'[i] \in Nat
            /\ remote[i] <= remote'[i]
        BY <1>3, <3>3
      <4>2. syncRow[i] # NoRow => syncRow[i].hash <= batch[r][k][2]
        BY <2>1 DEF AloneInv, HashesFollow
      <4>3. i <= Len(remote')
        BY <1>1, <1>3, <4>1, SizesOfSync
      <4>4. batch[r][k][2] <= remote'[i]
        BY <4>1
      <4>. QED
        BY <4>2, <4>3, <4>4
    <3>. QED
      BY <1>2, <2>1, <3>2, <3>4 DEF AloneInv, HashesFollow, InHand
  <2>4. \A d \in data' :
          LET row == syncRow'[d[1]]
          IN  row # NoRow /\ row.id = d[2] => row.hash <= d[3]
    BY <1>2, <2>1 DEF AloneInv
  <2>5. lost' = {} => OneCopyEach'
    BY <1>2, <2>1 DEF AloneInv, OneCopyEach, InHand
  <2>. QED
    BY <2>1, <2>2, <2>3, <2>4, <2>5 DEF AloneInv
<1>. QED
  BY <1>4, <1>5, <1>6, <1>7 DEF EtlInv

\* While one run is at work no other is.
LEMMA OthersAreIdle ==
  ASSUME RunsAreOrdered, Alone, NEW r \in SyncRuns, phase[r] # "idle"
  PROVE  \A q \in SyncRuns : q # r => phase[q] = "idle" /\ batch[q] = <<>>
BY DEF RunsAreOrdered, RunIsOrdered, Alone

\* StartRun: EtlInv is kept.
LEMMA StartKeepsSync ==
  ASSUME EtlInv, NEW r \in SyncRuns, IntegrationSync!StartRun(r)
  PROVE  EtlInv'
<1>1. /\ EtlTyped /\ RunsAreOrdered /\ NothingIsPassed
      /\ ~overlapped => AloneInv
  BY DEF EtlInv
<1>2. /\ phase[r] = "idle" /\ batch[r] = <<>>
      /\ phase' = [phase EXCEPT ![r] = "fetch"]
      /\ from' = [from EXCEPT ![r] = IF mode = "incremental" THEN cursor ELSE 0]
      /\ UNCHANGED <<mode, remote, cursor, batch, found, data, made, syncRow, lost,
                     etlFaults>>
  BY <1>1 DEF IntegrationSync!StartRun, IntegrationSync!Moves, IntegrationSync!tables,
              RunsAreOrdered, RunIsOrdered
<1>3. /\ overlapped' \in BOOLEAN
      /\ ~overlapped' => ~overlapped /\ \A q \in SyncRuns : phase[q] = "idle"
  BY Zenon DEF IntegrationSync!StartRun
<1>4. EtlTyped'
  <2>1. phase' \in [SyncRuns -> IntegrationSync!Phases]
    BY <1>1, <1>2 DEF EtlTyped, IntegrationSync!Phases
  <2>2. from' \in [SyncRuns -> 0 .. RemoteTotal]
    BY <1>1, <1>2, SizesOfSync DEF EtlTyped
  <2>. QED
    BY <1>1, <1>2, <1>3, <2>1, <2>2 DEF EtlTyped, SyncRows
<1>5. /\ phase'[r] = "fetch" /\ from'[r] \in {cursor, 0}
      /\ \A q \in SyncRuns : q # r => phase'[q] = phase[q] /\ from'[q] = from[q]
  BY <1>1, <1>2 DEF EtlTyped
<1>6. RunsAreOrdered'
  <2>. SUFFICES ASSUME NEW q \in SyncRuns PROVE RunIsOrdered(q)'
    BY DEF RunsAreOrdered
  <2>1. CASE q = r
    BY <1>2, <1>5, <2>1 DEF RunIsOrdered, Loading
  <2>2. CASE q # r
    BY <1>1, <1>2, <1>5, <2>2 DEF RunsAreOrdered, RunIsOrdered, Loading, InHand, SyncRows
  <2>. QED
    BY <2>1, <2>2
<1>7. NothingIsPassed'
  <2>1. \A i \in IntegrationSync!Records : Met(i) => Met(i)'
    BY <1>2, <1>5 DEF Met, Carries
  <2>2. RemoteTotal \in Nat /\ cursor \in 0 .. RemoteTotal
        /\ \A q \in SyncRuns : from[q] \in 0 .. RemoteTotal
    BY <1>1, SizesOfSync DEF EtlTyped
  <2>3. \A i \in 1 .. cursor' : Met(i)'
    BY <1>1, <1>2, <2>1, <2>2 DEF NothingIsPassed, IntegrationSync!Records
  <2>4. ASSUME NEW q \in SyncRuns, phase'[q] = "fetch", NEW i \in 1 .. from'[q]
        PROVE  Met(i)' \/ Carries(q, i)'
    <3>1. CASE q = r
      BY <1>2, <1>5, <2>2, <2>3, <2>4, <3>1
    <3>2. CASE q # r
      <4>1. i \in 1 .. from[q] /\ phase[q] = "fetch" /\ i \in IntegrationSync!Records
        BY <1>5, <2>2, <2>4, <3>2 DEF IntegrationSync!Records
      <4>2. Met(i) \/ Carries(q, i)
        BY <1>1, <4>1 DEF NothingIsPassed
      <4>. QED
        BY <1>2, <2>1, <4>1, <4>2 DEF Carries
    <3>. QED
      BY <3>1, <3>2
  <2>. QED
    BY <2>3, <2>4 DEF NothingIsPassed
<1>8. ASSUME ~overlapped' PROVE AloneInv'
  <2>1. AloneInv /\ \A q \in SyncRuns : phase[q] = "idle" /\ batch[q] = <<>>
    BY <1>1, <1>3, <1>8 DEF RunsAreOrdered, RunIsOrdered
  <2>2. \A q \in SyncRuns : phase'[q] \in {"idle", "fetch"} /\ batch'[q] = <<>>
    BY <1>2, <1>5, <2>1
  <2>3. Alone' /\ IdsAreOwned'
    BY <1>2, <1>5, <2>1, <2>2 DEF AloneInv, Alone, IdsAreOwned
  <2>4. HashesFollow'
    BY <1>2, <2>1, <2>2 DEF AloneInv, HashesFollow
  <2>5. lost' = {} => OneCopyEach'
    BY <1>2, <2>1 DEF AloneInv, OneCopyEach
  <2>. QED
    BY <1>2, <2>1, <2>3, <2>4, <2>5 DEF AloneInv
<1>. QED
  BY <1>4, <1>6, <1>7, <1>8 DEF EtlInv

\* FetchPage: EtlInv is kept.
LEMMA FetchKeepsSync ==
  ASSUME EtlInv, NEW r \in SyncRuns, IntegrationSync!FetchPage(r)
  PROVE  EtlInv'
<1>1. /\ EtlTyped /\ RunsAreOrdered /\ NothingIsPassed
      /\ ~overlapped => AloneInv
  BY DEF EtlInv
<1>0. PICK n \in Nat : n = from[r] + 1
  BY <1>1, SizesOfSync DEF EtlTyped
<1>2. /\ phase[r] = "fetch" /\ from[r] < Len(remote)
      /\ batch' = [batch EXCEPT ![r] = Append(batch[r], <<n, remote[n]>>)]
      /\ from' = [from EXCEPT ![r] = n]
      /\ UNCHANGED <<mode, remote, cursor, phase, found, data, made, syncRow, lost,
                     overlapped, etlFaults>>
  BY <1>0, <1>1 DEF IntegrationSync!FetchPage, IntegrationSync!MorePages,
              IntegrationSync!tables, EtlTyped
<1>3. /\ n \in 1 .. Len(remote) /\ n \in IntegrationSync!Records /\ n \in 0 .. RemoteTotal
      /\ remote[n] \in 1 .. MaxVersion /\ from[r] \in Nat
  <2>1. from[r] \in 0 .. RemoteTotal /\ Len(remote) <= RemoteTotal
    BY <1>1 DEF EtlTyped
  <2>2. n \in 1 .. Len(remote)
    BY <1>0, <1>1, <1>2, <2>1, SizesOfSync
  <2>. QED
    BY <1>0, <1>1, <1>2, <2>1, <2>2, SizesOfSync DEF IntegrationSync!Records
<1>4. /\ batch[r] \in Seq(Fetched) /\ <<n, remote[n]>> \in Fetched
  BY <1>1, <1>3 DEF EtlTyped, Fetched
<1>5. /\ batch'[r] \in Seq(Fetched) /\ Len(batch'[r]) = Len(batch[r]) + 1
      /\ batch'[r][Len(batch[r]) + 1] = <<n, remote[n]>> /\ Len(batch[r]) \in Nat
      /\ \A k \in 1 .. Len(batch[r]) : batch'[r][k] = batch[r][k]
  <2>1. batch'[r] = Append(batch[r], <<n, remote[n]>>)
    BY <1>1, <1>2 DEF EtlTyped
  <2>. QED
    BY <1>4, <2>1, AtTheEnd
<1>6. /\ from'[r] = n
      /\ \A q \in SyncRuns : q # r => batch'[q] = batch[q] /\ from'[q] = from[q]
  BY <1>1, <1>2 DEF EtlTyped
<1>7. EtlTyped'
  <2>1. batch' \in [SyncRuns -> Seq(Fetched)]
    BY <1>1, <1>2, <1>5, <1>6 DEF EtlTyped
  <2>2. from' \in [SyncRuns -> 0 .. RemoteTotal]
    BY <1>1, <1>2, <1>3 DEF EtlTyped
  <2>. QED
    BY <1>1, <1>2, <2>1, <2>2 DEF EtlTyped, SyncRows
<1>8. \A k \in 1 .. Len(batch[r]) : batch[r][k][1] <= from[r] /\ batch[r][k][1] < n
  BY <1>0, <1>1, <1>2, <1>3, SizesOfSync DEF RunsAreOrdered, RunIsOrdered
<1>9. RunsAreOrdered'
  <2>. SUFFICES ASSUME NEW q \in SyncRuns PROVE RunIsOrdered(q)'
    BY DEF RunsAreOrdered
  <2>1. CASE q = r
    <3>1. ASSUME NEW k \in 1 .. Len(batch'[r]), NEW j \in 1 .. k - 1
          PROVE  batch'[r][j][1] < batch'[r][k][1]
      <4>1. j \in 1 .. Len(batch[r])
        BY <1>5
      <4>2. CASE k = Len(batch[r]) + 1
        BY <1>5, <1>8, <4>1, <4>2
      <4>3. CASE k # Len(batch[r]) + 1
        <5>1. k \in 1 .. Len(batch[r])
          BY <1>5, <4>3
        <5>2. batch[r][j][1] < batch[r][k][1]
          BY <1>1, <5>1 DEF RunsAreOrdered, RunIsOrdered
        <5>. QED
          BY <1>5, <4>1, <5>1, <5>2
      <4>. QED
        BY <4>2, <4>3
    <3>2. \A k \in 1 .. Len(batch'[r]) : batch'[r][k][1] <= n
      <4>. TAKE k \in 1 .. Len(batch'[r])
      <4>1. CASE k = Len(batch[r]) + 1
        BY <1>3, <1>5, <4>1
      <4>2. CASE k # Len(batch[r]) + 1
        <5>1. k \in 1 .. Len(batch[r])
          BY <1>5, <4>2
        <5>. QED
          <6>1. batch'[r][k][1] < n /\ batch[r][k][1] \in Nat
            BY <1>1, <1>5, <1>8, <5>1, SizesOfSync
          <6>. QED
            BY <1>5, <5>1, <6>1
      <4>. QED
        BY <4>1, <4>2
    <3>. QED
      BY <1>2, <1>6, <2>1, <3>1, <3>2 DEF RunIsOrdered, Loading
  <2>2. CASE q # r
    BY <1>1, <1>2, <1>6, <2>2 DEF RunsAreOrdered, RunIsOrdered, Loading, InHand, SyncRows
  <2>. QED
    BY <2>1, <2>2
<1>10. NothingIsPassed'
  <2>1. \A i \in IntegrationSync!Records : Met(i) => Met(i)'
    BY <1>2, <1>6 DEF Met, Carries
  <2>2. \A i : Carries(r, i) => Carries(r, i)'
    BY <1>5 DEF Carries
  <2>3. Carries(r, n)'
    BY <1>5 DEF Carries
  <2>4. RemoteTotal \in Nat /\ cursor \in 0 .. RemoteTotal
        /\ \A q \in SyncRuns : from[q] \in 0 .. RemoteTotal
    BY <1>1, SizesOfSync DEF EtlTyped
  <2>5. \A i \in 1 .. cursor' : Met(i)'
    BY <1>1, <1>2, <2>1, <2>4 DEF NothingIsPassed, IntegrationSync!Records
  <2>6. ASSUME NEW q \in SyncRuns, phase'[q] = "fetch", NEW i \in 1 .. from'[q]
        PROVE  Met(i)' \/ Carries(q, i)'
    <3>1. CASE q = r /\ i = n
      BY <2>3, <3>1
    <3>2. CASE q # r \/ i # n
      <4>1. i \in 1 .. from[q] /\ phase[q] = "fetch" /\ i \in IntegrationSync!Records
        BY <1>2, <1>3, <1>6, <1>0, <2>4, <2>6, <3>2 DEF IntegrationSync!Records
      <4>2. Met(i) \/ Carries(q, i)
        BY <1>1, <4>1 DEF NothingIsPassed
      <4>3. q # r => (Carries(q, i) => Carries(q, i)')
        BY <1>6 DEF Carries
      <4>. QED
        BY <2>1, <2>2, <4>1, <4>2, <4>3
    <3>. QED
      BY <3>1, <3>2
  <2>. QED
    BY <2>5, <2>6 DEF NothingIsPassed
<1>11. ASSUME ~overlapped' PROVE AloneInv'
  <2>1. AloneInv
    BY <1>1, <1>2, <1>11
  <2>2. \A q \in SyncRuns : phase[q] \in {"insert", "link", "hash"} =>
          batch'[q] = batch[q]
    BY <1>2, <1>6
  <2>3. Alone' /\ IdsAreOwned'
    BY <1>2, <2>1, <2>2 DEF AloneInv, Alone, IdsAreOwned, InHand
  <2>4. HashesFollow'
    <3>1. ASSUME NEW k \in 1 .. Len(batch'[r])
          PROVE  LET i == batch'[r][k][1]
                 IN  /\ i <= Len(remote) /\ batch'[r][k][2] <= remote[i]
                     /\ syncRow[i] # NoRow => syncRow[i].hash <= batch'[r][k][2]
      <4>1. CASE k = Len(batch[r]) + 1
        <5>1. batch'[r][k][1] = n /\ batch'[r][k][2] = remote[n]
          BY <1>5, <4>1
        <5>2. n <= Len(remote) /\ remote[n] <= remote[n]
          BY <1>1, <1>3, SizesOfSync
        <5>. QED
          BY <1>3, <2>1, <5>1, <5>2 DEF AloneInv, HashesFollow
      <4>2. CASE k # Len(batch[r]) + 1
        <5>1. k \in 1 .. Len(batch[r])
          BY <1>5, <4>2
        <5>. QED
          BY <1>5, <2>1, <5>1 DEF AloneInv, HashesFollow
      <4>. QED
        BY <4>1, <4>2
    <3>2. \A q \in SyncRuns : q # r => batch'[q] = batch[q]
      BY <1>6
    <3>. QED
      BY <1>2, <2>1, <2>2, <3>1, <3>2 DEF AloneInv, HashesFollow, InHand
  <2>5. lost' = {} => OneCopyEach'
    BY <1>2, <2>1, <2>2 DEF AloneInv, OneCopyEach, InHand
  <2>. QED
    BY <1>2, <2>1, <2>3, <2>4, <2>5 DEF AloneInv
<1>. QED
  BY <1>7, <1>9, <1>10, <1>11 DEF EtlInv

\* What a run leaves when it ends: idle, with nothing in hand.
Leaves(r) ==
  /\ phase' = [phase EXCEPT ![r] = "idle"]
  /\ batch' = [batch EXCEPT ![r] = <<>>]
  /\ from' = [from EXCEPT ![r] = 0]
  /\ found' = [found EXCEPT ![r] = NoRow]

\* FetchFails, RunDies, RunEnds: EtlInv is kept.
LEMMA EndKeepsSync ==
  ASSUME EtlInv, NEW r \in SyncRuns,
         \/ IntegrationSync!FetchFails(r)
         \/ IntegrationSync!RunDies(r)
         \/ IntegrationSync!RunEnds(r)
  PROVE  EtlInv'
<1>1. /\ EtlTyped /\ RunsAreOrdered /\ NothingIsPassed
      /\ ~overlapped => AloneInv
  BY DEF EtlInv
<1>2. /\ Leaves(r) /\ phase[r] # "idle"
      /\ UNCHANGED <<mode, remote, cursor, made, overlapped, data, syncRow>>
  BY DEF IntegrationSync!FetchFails, IntegrationSync!RunDies, IntegrationSync!RunEnds,
         IntegrationSync!Abort, IntegrationSync!Moves, IntegrationSync!tables,
         IntegrationSync!KeepCursor, Leaves
<1>3. /\ phase'[r] = "idle" /\ batch'[r] = <<>> /\ from'[r] = 0 /\ found'[r] = NoRow
      /\ OthersStay(r)
  BY <1>1, <1>2 DEF EtlTyped, Leaves, OthersStay
<1>4. /\ lost \subseteq lost' /\ lost' \subseteq IntegrationSync!Records
      /\ etlFaults' \in 0 .. MaxFaults
      /\ phase[r] # "fetch" => \A i \in IntegrationSync!Records : Carries(r, i) => i \in lost'
  <2>1. CASE IntegrationSync!FetchFails(r)
    BY <1>1, <2>1 DEF IntegrationSync!FetchFails, EtlTyped
  <2>2. CASE IntegrationSync!RunDies(r)
    <3>1. lost' = lost \union {batch[r][i][1] : i \in 1 .. Len(batch[r])}
      <4>1. batch[r] \in Seq(Fetched)
        BY <1>1 DEF EtlTyped
      <4>2. DOMAIN batch[r] = 1 .. Len(batch[r])
        BY <4>1
      <4>. QED
        BY <2>2, <4>2 DEF IntegrationSync!RunDies
    <3>2. lost' \subseteq IntegrationSync!Records
      BY <1>1, <3>1, SizesOfSync DEF EtlTyped
    <3>3. etlFaults' \in 0 .. MaxFaults
      BY <1>1, <2>2, ConstantsOfRecords DEF IntegrationSync!RunDies, EtlTyped
    <3>. QED
      BY <3>1, <3>2, <3>3 DEF Carries
  <2>3. CASE IntegrationSync!RunEnds(r)
    <3>1. batch[r] = <<>> /\ UNCHANGED <<lost, etlFaults>>
      BY <2>3 DEF IntegrationSync!RunEnds
    <3>2. \A i : ~Carries(r, i)
      BY <3>1 DEF Carries
    <3>. QED
      BY <1>1, <3>1, <3>2 DEF EtlTyped
  <2>. QED
    BY <2>1, <2>2, <2>3
<1>5. EtlTyped'
  <2>1. /\ phase' \in [SyncRuns -> IntegrationSync!Phases]
        /\ batch' \in [SyncRuns -> Seq(Fetched)]
        /\ found' \in [SyncRuns -> SyncRows \union {NoRow}]
    BY <1>1, <1>2 DEF EtlTyped, Leaves, IntegrationSync!Phases
  <2>2. from' \in [SyncRuns -> 0 .. RemoteTotal]
    BY <1>1, <1>2, SizesOfSync DEF EtlTyped, Leaves
  <2>. QED
    BY <1>1, <1>2, <1>4, <2>1, <2>2 DEF EtlTyped, SyncRows
<1>6. RunsAreOrdered'
  <2>. SUFFICES ASSUME NEW q \in SyncRuns PROVE RunIsOrdered(q)'
    BY DEF RunsAreOrdered
  <2>1. CASE q = r
    BY <1>3, <2>1 DEF RunIsOrdered, Loading
  <2>2. CASE q # r
    BY <1>1, <1>2, <1>3, <2>2
       DEF RunsAreOrdered, RunIsOrdered, Loading, InHand, SyncRows, OthersStay
  <2>. QED
    BY <2>1, <2>2
<1>7. NothingIsPassed'
  <2>1. \A i \in IntegrationSync!Records : Met(i) => Met(i)'
    BY <1>2, <1>3, <1>4 DEF Met, Carries, OthersStay
  <2>2. \A q \in SyncRuns : phase'[q] = "fetch" =>
          phase[q] = "fetch" /\ from'[q] = from[q] /\ batch'[q] = batch[q]
    BY <1>3 DEF OthersStay
  <2>. QED
    BY <1>1, <1>2, <2>1, <2>2, PassedStays DEF EtlTyped
<1>8. ASSUME ~overlapped' PROVE AloneInv'
  <2>1. AloneInv
    BY <1>1, <1>2, <1>8
  <2>2. \A q \in SyncRuns : q # r => phase[q] = "idle" /\ batch[q] = <<>>
    BY <1>1, <1>2, <2>1, OthersAreIdle DEF AloneInv
  <2>3. \A q \in SyncRuns : phase'[q] = "idle" /\ batch'[q] = <<>>
    BY <1>3, <2>2 DEF OthersStay
  <2>4. Alone' /\ IdsAreOwned'
    BY <1>2, <2>1, <2>3 DEF AloneInv, Alone, IdsAreOwned
  <2>5. HashesFollow'
    BY <1>2, <2>1, <2>3 DEF AloneInv, HashesFollow
  <2>6. ASSUME lost' = {} PROVE OneCopyEach'
    <3>1. OneCopyEach
      BY <1>4, <2>1, <2>6 DEF AloneInv
    <3>2. phase[r] # "link"
      <4>. SUFFICES ASSUME phase[r] = "link" PROVE FALSE
        OBVIOUS
      <4>1. batch[r] # <<>> /\ batch[r] \in Seq(Fetched)
        BY <1>1 DEF RunsAreOrdered, RunIsOrdered, Loading, EtlTyped
      <4>2. 1 \in 1 .. Len(batch[r])
        BY <4>1
      <4>3. Carries(r, batch[r][1][1]) /\ batch[r][1][1] \in IntegrationSync!Records
        BY <1>1, <4>2, SizesOfSync DEF Carries
      <4>. QED
        BY <1>4, <2>6, <4>3
    <3>. QED
      BY <1>2, <2>2, <3>1, <3>2 DEF OneCopyEach
  <2>. QED
    BY <1>2, <2>1, <2>4, <2>5, <2>6 DEF AloneInv
<1>. QED
  BY <1>5, <1>6, <1>7, <1>8 DEF EtlInv

\* SaveCursor: EtlInv is kept.
LEMMA SaveKeepsSync ==
  ASSUME EtlInv, NEW r \in SyncRuns, IntegrationSync!SaveCursor(r)
  PROVE  EtlInv'
<1>1. /\ EtlTyped /\ RunsAreOrdered /\ NothingIsPassed
      /\ ~overlapped => AloneInv
  BY DEF EtlInv
<1>2. /\ phase[r] = "fetch" /\ phase' = [phase EXCEPT ![r] = "check"]
      /\ from' = [from EXCEPT ![r] = 0] /\ cursor' \in {from[r], cursor}
      /\ UNCHANGED <<mode, remote, batch, found, data, made, syncRow, lost,
                     overlapped, etlFaults>>
  BY DEF IntegrationSync!SaveCursor, IntegrationSync!Moves, IntegrationSync!tables
<1>3. /\ phase'[r] = "check" /\ from'[r] = 0
      /\ \A q \in SyncRuns : q # r => phase'[q] = phase[q] /\ from'[q] = from[q]
  BY <1>1, <1>2 DEF EtlTyped
<1>4. EtlTyped'
  <2>1. phase' \in [SyncRuns -> IntegrationSync!Phases]
    BY <1>1, <1>2 DEF EtlTyped, IntegrationSync!Phases
  <2>2. from' \in [SyncRuns -> 0 .. RemoteTotal] /\ cursor' \in 0 .. RemoteTotal
    BY <1>1, <1>2, SizesOfSync DEF EtlTyped
  <2>. QED
    BY <1>1, <1>2, <2>1, <2>2 DEF EtlTyped, SyncRows
<1>5. RunsAreOrdered'
  <2>. SUFFICES ASSUME NEW q \in SyncRuns PROVE RunIsOrdered(q)'
    BY DEF RunsAreOrdered
  <2>1. CASE q = r
    BY <1>1, <1>2, <1>3, <2>1 DEF RunsAreOrdered, RunIsOrdered, Loading
  <2>2. CASE q # r
    BY <1>1, <1>2, <1>3, <2>2 DEF RunsAreOrdered, RunIsOrdered, Loading, InHand, SyncRows
  <2>. QED
    BY <2>1, <2>2
<1>6. NothingIsPassed'
  <2>1. \A i \in IntegrationSync!Records : Met(i) => Met(i)'
    BY <1>2, <1>3 DEF Met, Carries
  <2>2. RemoteTotal \in Nat /\ cursor \in 0 .. RemoteTotal
        /\ \A q \in SyncRuns : from[q] \in 0 .. RemoteTotal
    BY <1>1, SizesOfSync DEF EtlTyped
  <2>3. \A i : Carries(r, i) => Met(i)'
    BY <1>2, <1>3 DEF Met, Carries
  <2>4. \A i \in 1 .. cursor' : Met(i)'
    BY <1>1, <1>2, <2>1, <2>2, <2>3 DEF NothingIsPassed, IntegrationSync!Records
  <2>5. ASSUME NEW q \in SyncRuns, phase'[q] = "fetch", NEW i \in 1 .. from'[q]
        PROVE  Met(i)' \/ Carries(q, i)'
    <3>1. phase[q] = "fetch" /\ i \in 1 .. from[q] /\ i \in IntegrationSync!Records
      BY <1>3, <2>2, <2>5 DEF IntegrationSync!Records
    <3>2. Met(i) \/ Carries(q, i)
      BY <1>1, <3>1 DEF NothingIsPassed
    <3>. QED
      BY <1>2, <2>1, <3>1, <3>2 DEF Carries
  <2>. QED
    BY <2>4, <2>5 DEF NothingIsPassed
<1>7. ASSUME ~overlapped' PROVE AloneInv'
  <2>1. AloneInv
    BY <1>1, <1>2, <1>7
  <2>2. Alone' /\ IdsAreOwned'
    BY <1>2, <1>3, <2>1 DEF AloneInv, Alone, IdsAreOwned, InHand
  <2>3. HashesFollow'
    BY <1>2, <1>3, <2>1 DEF AloneInv, HashesFollow, InHand
  <2>4. lost' = {} => OneCopyEach'
    BY <1>2, <1>3, <2>1 DEF AloneInv, OneCopyEach, InHand
  <2>. QED
    BY <1>2, <2>1, <2>2, <2>3, <2>4 DEF AloneInv
<1>. QED
  BY <1>4, <1>5, <1>6, <1>7 DEF EtlInv

\* What a run does when it is through with the record in hand.
Pops(r) ==
  /\ phase[r] \notin {"idle", "fetch"} /\ batch[r] # <<>>
  /\ phase' = [phase EXCEPT ![r] = "check"]
  /\ batch' = [batch EXCEPT ![r] = Tail(batch[r])]
  /\ found' = [found EXCEPT ![r] = NoRow]
  /\ UNCHANGED <<mode, remote, cursor, from, made, overlapped, data>>

\* A record in hand is done with, and the batch is shorter by it.
LEMMA Popped ==
  ASSUME EtlTyped, RunsAreOrdered, NEW r \in SyncRuns, Pops(r)
  PROVE  /\ phase'[r] = "check" /\ found'[r] = NoRow /\ OthersStay(r)
         /\ batch'[r] \in Seq(Fetched) /\ Len(batch'[r]) \in Nat
         /\ Len(batch[r]) = Len(batch'[r]) + 1
         /\ \A k \in 1 .. Len(batch'[r]) :
              /\ batch'[r][k] = batch[r][k + 1] /\ k + 1 \in 1 .. Len(batch[r])
              /\ InHand(r) < batch'[r][k][1]
         /\ InHand(r) \in IntegrationSync!Records
         /\ \A i : Carries(r, i) => Carries(r, i)' \/ i = InHand(r)
<1>1. batch[r] \in Seq(Fetched) /\ batch[r] # <<>>
  BY DEF EtlTyped, Pops
<1>2. /\ phase'[r] = "check" /\ found'[r] = NoRow /\ OthersStay(r)
      /\ batch'[r] = Tail(batch[r])
  BY DEF EtlTyped, Pops, OthersStay
<1>3. /\ batch'[r] \in Seq(Fetched) /\ Len(batch'[r]) = Len(batch[r]) - 1
      /\ Len(batch[r]) \in Nat /\ Len(batch[r]) >= 1
      /\ \A k \in 1 .. Len(batch[r]) - 1 : batch'[r][k] = batch[r][k + 1]
  BY <1>1, <1>2, HeadAndTail
<1>4. ASSUME NEW k \in 1 .. Len(batch'[r])
      PROVE  /\ batch'[r][k] = batch[r][k + 1] /\ k + 1 \in 1 .. Len(batch[r])
             /\ InHand(r) < batch'[r][k][1]
  <2>1. batch'[r][k] = batch[r][k + 1] /\ k + 1 \in 1 .. Len(batch[r]) /\ 1 \in 1 .. (k + 1) - 1
    BY <1>3
  <2>2. batch[r][1][1] < batch[r][k + 1][1]
    BY <2>1 DEF RunsAreOrdered, RunIsOrdered
  <2>. QED
    BY <2>1, <2>2 DEF InHand
<1>5. InHand(r) \in IntegrationSync!Records
  BY <1>3, SizesOfSync DEF InHand
<1>6. ASSUME NEW i, Carries(r, i), i # InHand(r) PROVE Carries(r, i)'
  <2>1. PICK k \in 1 .. Len(batch[r]) : batch[r][k][1] = i
    BY <1>6 DEF Carries
  <2>2. k # 1
    BY <1>6, <2>1 DEF InHand
  <2>3. k - 1 \in 1 .. Len(batch'[r]) /\ (k - 1) + 1 = k
    BY <1>3, <2>2
  <2>4. batch'[r][k - 1] = batch[r][(k - 1) + 1]
    BY <1>3, <2>3
  <2>5. batch'[r][k - 1][1] = i
    BY <2>1, <2>3, <2>4
  <2>. QED
    BY <2>3, <2>5 DEF Carries
<1>7. Len(batch'[r]) \in Nat /\ Len(batch[r]) = Len(batch'[r]) + 1
  BY <1>3
<1>. QED
  BY <1>2, <1>3, <1>4, <1>5, <1>6, <1>7

\* Sync rows keep the id they name, and the record that was in hand is settled.
LEMMA PopKeepsOrder ==
  ASSUME EtlTyped, RunsAreOrdered, NothingIsPassed, NEW r \in SyncRuns, Pops(r),
         lost \subseteq lost',
         \A i \in IntegrationSync!Records : syncRow[i] # NoRow =>
           syncRow'[i] \in SyncRows /\ syncRow'[i].id = syncRow[i].id,
         syncRow'[InHand(r)] # NoRow \/ InHand(r) \in lost'
  PROVE  RunsAreOrdered' /\ NothingIsPassed'
<1>1. made' = made /\ cursor' = cursor /\ from' = from /\ SyncRows' = SyncRows
  BY DEF Pops, SyncRows
<1>2. NoRow \notin SyncRows
  <2>1. made \in Nat /\ MaxVersion \in Nat
    BY SizesOfSync DEF EtlTyped
  <2>. QED
    BY <2>1, ConstantsOfRecords DEF SyncRows
<1>3. ASSUME NEW q \in SyncRuns PROVE RunIsOrdered(q)'
  <2>1. CASE q = r
    <3>1. ASSUME NEW k \in 1 .. Len(batch'[r]), NEW j \in 1 .. k - 1
          PROVE  batch'[r][j][1] < batch'[r][k][1]
      <4>1. j \in 1 .. Len(batch'[r]) /\ j + 1 \in 1 .. (k + 1) - 1
        BY Popped
      <4>2. /\ batch'[r][k] = batch[r][k + 1] /\ k + 1 \in 1 .. Len(batch[r])
            /\ batch'[r][j] = batch[r][j + 1]
        BY <4>1, Popped
      <4>3. batch[r][j + 1][1] < batch[r][k + 1][1]
        BY <4>1, <4>2 DEF RunsAreOrdered, RunIsOrdered
      <4>. QED
        BY <4>2, <4>3
    <3>. QED
      BY <2>1, <3>1, Popped DEF RunIsOrdered, Loading
  <2>2. CASE q # r
    <3>1. phase'[q] = phase[q] /\ batch'[q] = batch[q] /\ from'[q] = from[q]
          /\ found'[q] = found[q]
      BY <2>2, Popped DEF OthersStay
    <3>2. phase[q] \in {"update", "hash"} =>
            syncRow'[InHand(q)] \in SyncRows /\ syncRow'[InHand(q)].id = found[q].id
      <4>. SUFFICES ASSUME phase[q] \in {"update", "hash"}
           PROVE syncRow'[InHand(q)] \in SyncRows /\ syncRow'[InHand(q)].id = found[q].id
        OBVIOUS
      <4>1. /\ batch[q] # <<>> /\ syncRow[InHand(q)] \in SyncRows
            /\ syncRow[InHand(q)].id = found[q].id
        BY DEF RunsAreOrdered, RunIsOrdered, Loading
      <4>2. batch[q] \in Seq(Fetched) /\ batch[q] # <<>>
        BY <4>1 DEF EtlTyped
      <4>3. 1 \in 1 .. Len(batch[q])
        BY <4>2
      <4>4. InHand(q) \in IntegrationSync!Records
        BY <4>3, SizesOfSync DEF InHand
      <4>. QED
        BY <1>2, <4>1, <4>4
    <3>. QED
      BY <1>1, <3>1, <3>2 DEF RunsAreOrdered, RunIsOrdered, Loading, InHand
  <2>. QED
    BY <2>1, <2>2
<1>4. ASSUME NEW i \in IntegrationSync!Records, Met(i) PROVE Met(i)'
  <2>1. CASE syncRow[i] # NoRow
    BY <1>2, <2>1 DEF Met
  <2>2. CASE i \in lost
    BY <2>2 DEF Met
  <2>3. ASSUME NEW q \in SyncRuns, phase[q] \notin {"idle", "fetch"}, Carries(q, i)
        PROVE  Met(i)'
    <3>1. CASE q = r
      BY <2>3, <3>1, Popped DEF Met
    <3>2. CASE q # r
      BY <2>3, <3>2, Popped DEF Met, Carries, OthersStay
    <3>. QED
      BY <3>1, <3>2
  <2>. QED
    BY <1>4, <2>1, <2>2, <2>3 DEF Met
<1>5. \A q \in SyncRuns : phase'[q] = "fetch" =>
        phase[q] = "fetch" /\ from'[q] = from[q] /\ batch'[q] = batch[q]
  BY <1>1, Popped DEF OthersStay
<1>6. NothingIsPassed'
  BY <1>1, <1>4, <1>5, PassedStays DEF EtlTyped
<1>. QED
  BY <1>3, <1>6 DEF RunsAreOrdered

\* The record in hand is settled with a row of its own, or is lost.
LEMMA PopKeepsAlone ==
  ASSUME EtlTyped, RunsAreOrdered, AloneInv, NEW r \in SyncRuns, Pops(r),
         \A i \in IntegrationSync!Records : i # InHand(r) => syncRow'[i] = syncRow[i],
         syncRow'[InHand(r)] # NoRow =>
           /\ InHand(r) <= Len(remote)
           /\ syncRow'[InHand(r)].hash <= remote[InHand(r)]
           /\ \A d \in data : syncRow'[InHand(r)].id = d[2] =>
                d[1] = InHand(r) /\ syncRow'[InHand(r)].hash <= d[3]
           /\ \A j \in IntegrationSync!Records : j # InHand(r) /\ syncRow[j] # NoRow =>
                syncRow[j].id # syncRow'[InHand(r)].id,
         lost' = {} => lost = {} /\ syncRow'[InHand(r)] # NoRow
  PROVE  AloneInv'
<1>0. InHand(r) \in IntegrationSync!Records /\ remote' = remote /\ data' = data
      /\ phase[r] # "idle"
  BY Popped DEF Pops
<1>1. \A q \in SyncRuns : q # r =>
        phase[q] = "idle" /\ phase'[q] = "idle" /\ batch'[q] = <<>>
  BY <1>0, OthersAreIdle, Popped DEF AloneInv, OthersStay
<1>2. \A q \in SyncRuns : phase'[q] \in {"idle", "check"}
  BY <1>1, Popped
<1>3. Alone'
  BY <1>1 DEF Alone
<1>4. IdsAreOwned'
  <2>1. ASSUME NEW d \in data, NEW i \in IntegrationSync!Records,
               syncRow'[i] # NoRow, syncRow'[i].id = d[2]
        PROVE  d[1] = i
    BY <2>1 DEF AloneInv, IdsAreOwned
  <2>2. ASSUME NEW i \in IntegrationSync!Records, NEW j \in IntegrationSync!Records,
               syncRow'[i] # NoRow, syncRow'[j] # NoRow, syncRow'[i].id = syncRow'[j].id
        PROVE  i = j
    BY <2>2 DEF AloneInv, IdsAreOwned
  <2>3. \A d, e \in data : d[2] = e[2] => d = e
    BY DEF AloneInv, IdsAreOwned
  <2>. QED
    BY <1>0, <1>2, <2>1, <2>2, <2>3 DEF IdsAreOwned
<1>5. HashesFollow'
  <2>1. \A i \in IntegrationSync!Records : syncRow'[i] # NoRow =>
          i <= Len(remote) /\ syncRow'[i].hash <= remote[i]
    BY DEF AloneInv, HashesFollow
  <2>2. ASSUME NEW k \in 1 .. Len(batch'[r])
        PROVE  LET i == batch'[r][k][1]
               IN  /\ i <= Len(remote) /\ batch'[r][k][2] <= remote[i]
                   /\ syncRow'[i] # NoRow => syncRow'[i].hash <= batch'[r][k][2]
    <3>1. /\ batch'[r][k] = batch[r][k + 1] /\ k + 1 \in 1 .. Len(batch[r])
          /\ InHand(r) < batch'[r][k][1]
      BY Popped
    <3>2. batch'[r][k][1] \in IntegrationSync!Records /\ batch'[r][k][1] \in Nat
          /\ InHand(r) \in Nat
      BY <1>0, <3>1, SizesOfSync
    <3>3. syncRow'[batch'[r][k][1]] = syncRow[batch'[r][k][1]]
      BY <3>1, <3>2
    <3>. QED
      BY <3>1, <3>3 DEF AloneInv, HashesFollow
  <2>3. \A q \in SyncRuns : q # r => Len(batch'[q]) = 0
    BY <1>1
  <2>4. \A q \in SyncRuns : \A k \in 1 .. Len(batch'[q]) :
          LET i == batch'[q][k][1]
          IN  /\ i <= Len(remote) /\ batch'[q][k][2] <= remote[i]
              /\ syncRow'[i] # NoRow => syncRow'[i].hash <= batch'[q][k][2]
    BY <2>2, <2>3
  <2>. QED
    BY <1>0, <1>2, <2>1, <2>4 DEF HashesFollow
<1>6. \A d \in data' :
        LET row == syncRow'[d[1]]
        IN  row # NoRow /\ row.id = d[2] => row.hash <= d[3]
  <2>1. \A d \in data : d[1] \in IntegrationSync!Records
    BY DEF EtlTyped
  <2>. QED
    BY <1>0, <2>1 DEF AloneInv
<1>7. ASSUME lost' = {} PROVE OneCopyEach'
  <2>1. OneCopyEach /\ syncRow'[InHand(r)] # NoRow
    BY <1>7 DEF AloneInv
  <2>2. \A d \in data : d[1] \in IntegrationSync!Records
    BY DEF EtlTyped
  <2>3. ASSUME NEW d \in data PROVE syncRow'[d[1]] # NoRow
    <3>1. CASE syncRow[d[1]] # NoRow
      BY <2>1, <2>2, <3>1
    <3>2. CASE \E q \in SyncRuns : phase[q] = "link" /\ InHand(q) = d[1]
      BY <1>1, <2>1, <3>2
    <3>. QED
      BY <2>1, <3>1, <3>2 DEF OneCopyEach
  <2>. QED
    BY <1>0, <2>1, <2>3 DEF OneCopyEach
<1>. QED
  BY <1>3, <1>4, <1>5, <1>6, <1>7 DEF AloneInv

\* Being done with a record keeps the types.
LEMMA PopTyped ==
  ASSUME EtlTyped, NEW r \in SyncRuns, Pops(r),
         syncRow' \in [IntegrationSync!Records -> SyncRows \union {NoRow}],
         lost' \subseteq IntegrationSync!Records, etlFaults' \in 0 .. MaxFaults
  PROVE  EtlTyped'
<1>1. batch[r] \in Seq(Fetched) /\ batch[r] # <<>>
  BY DEF EtlTyped, Pops
<1>2. Tail(batch[r]) \in Seq(Fetched)
  BY <1>1, HeadAndTail
<1>3. batch' \in [SyncRuns -> Seq(Fetched)]
  BY <1>2 DEF EtlTyped, Pops
<1>4. phase' \in [SyncRuns -> IntegrationSync!Phases]
      /\ found' \in [SyncRuns -> SyncRows \union {NoRow}]
  BY DEF EtlTyped, Pops, IntegrationSync!Phases
<1>5. SyncRows' = SyncRows
  BY DEF Pops, SyncRows
<1>. QED
  BY <1>3, <1>4, <1>5 DEF EtlTyped, Pops

\* The record in hand is the first of the batch.
LEMMA InHandOf ==
  ASSUME EtlTyped, NEW r \in SyncRuns, batch[r] # <<>>
  PROVE  /\ IntegrationSync!Id(r) = InHand(r) /\ InHand(r) \in IntegrationSync!Records
         /\ IntegrationSync!Version(r) = batch[r][1][2]
         /\ batch[r][1][2] \in 1 .. MaxVersion /\ 1 \in 1 .. Len(batch[r])
<1>1. batch[r] \in Seq(Fetched)
  BY DEF EtlTyped
<1>2. Head(batch[r]) = batch[r][1] /\ 1 \in 1 .. Len(batch[r])
  BY <1>1, HeadAndTail
<1>. QED
  BY <1>2, SizesOfSync DEF IntegrationSync!Id, IntegrationSync!Version, InHand

\* A row of the synchronisation is what its id and hash say.
LEMMA RowsAreRows ==
  ASSUME EtlTyped
  PROVE  /\ NoRow \notin SyncRows
         /\ \A row \in SyncRows :
              /\ row.id \in 1 .. made /\ row.hash \in 1 .. MaxVersion
              /\ row = [id |-> row.id, hash |-> row.hash]
<1>1. made \in Nat /\ MaxVersion \in Nat
  BY SizesOfSync DEF EtlTyped
<1>. QED
  BY <1>1, ConstantsOfRecords DEF SyncRows

\* The four ways to be through with a record: its hash says nothing is new, its
\* sync row is written, its hash is, or a statement failed.
LEMMA SkipKeepsSync ==
  ASSUME EtlInv, NEW r \in SyncRuns, IntegrationSync!Check(r),
         syncRow[IntegrationSync!Id(r)] # NoRow, IntegrationSync!NextRecord(r)
  PROVE  EtlInv'
<1>1. /\ EtlTyped /\ RunsAreOrdered /\ NothingIsPassed
      /\ ~overlapped => AloneInv
  BY DEF EtlInv
<1>2. Pops(r) /\ UNCHANGED <<syncRow, lost, etlFaults>>
  BY DEF IntegrationSync!Check, IntegrationSync!NextRecord, IntegrationSync!Moves, Pops,
         IntegrationSync!tables
<1>3. InHand(r) \in IntegrationSync!Records /\ syncRow[InHand(r)] # NoRow
  BY <1>1, <1>2, InHandOf DEF Pops
<1>4. EtlTyped'
  <2>1. /\ syncRow \in [IntegrationSync!Records -> SyncRows \union {NoRow}]
        /\ lost \subseteq IntegrationSync!Records /\ etlFaults \in 0 .. MaxFaults
    BY <1>1 DEF EtlTyped
  <2>. QED
    BY <1>1, <1>2, <2>1, PopTyped
<1>5. \A i \in IntegrationSync!Records : syncRow[i] # NoRow => syncRow[i] \in SyncRows
  BY <1>1 DEF EtlTyped
<1>6. RunsAreOrdered' /\ NothingIsPassed'
  BY <1>1, <1>2, <1>3, <1>5, PopKeepsOrder
<1>7. ASSUME ~overlapped' PROVE AloneInv'
  <2>1. AloneInv
    BY <1>1, <1>2, <1>7 DEF Pops
  <2>2. InHand(r) <= Len(remote) /\ syncRow[InHand(r)].hash <= remote[InHand(r)]
    BY <1>3, <2>1 DEF AloneInv, HashesFollow
  <2>3. \A d \in data : syncRow[InHand(r)].id = d[2] => d[1] = InHand(r)
    BY <1>3, <2>1 DEF AloneInv, IdsAreOwned
  <2>4. \A d \in data : syncRow[InHand(r)].id = d[2] => syncRow[InHand(r)].hash <= d[3]
    BY <1>3, <2>1, <2>3 DEF AloneInv
  <2>5. \A j \in IntegrationSync!Records : j # InHand(r) /\ syncRow[j] # NoRow =>
          syncRow[j].id # syncRow[InHand(r)].id
    BY <1>3, <2>1 DEF AloneInv, IdsAreOwned
  <2>. QED
    BY <1>1, <1>2, <1>3, <2>1, <2>2, <2>3, <2>4, <2>5, PopKeepsAlone
<1>. QED
  BY <1>4, <1>6, <1>7 DEF EtlInv

\* StatementFails: EtlInv is kept.
LEMMA FailureKeepsSync ==
  ASSUME EtlInv, NEW r \in SyncRuns, IntegrationSync!StatementFails(r)
  PROVE  EtlInv'
<1>1. /\ EtlTyped /\ RunsAreOrdered /\ NothingIsPassed
      /\ ~overlapped => AloneInv
  BY DEF EtlInv
<1>2. batch[r] # <<>>
  BY <1>1 DEF IntegrationSync!StatementFails, RunsAreOrdered, RunIsOrdered, Loading
<1>3. /\ Pops(r) /\ UNCHANGED syncRow /\ lost' = lost \union {InHand(r)}
  BY <1>1, <1>2, InHandOf
     DEF IntegrationSync!StatementFails, IntegrationSync!NextRecord, IntegrationSync!Moves,
         Pops, IntegrationSync!Keep, IntegrationSync!KeepCursor
<1>4. InHand(r) \in IntegrationSync!Records
  BY <1>1, <1>2, InHandOf
<1>5. EtlTyped'
  <2>1. etlFaults' \in 0 .. MaxFaults
    BY <1>1, ConstantsOfRecords DEF IntegrationSync!StatementFails, EtlTyped
  <2>2. /\ syncRow \in [IntegrationSync!Records -> SyncRows \union {NoRow}]
        /\ lost \subseteq IntegrationSync!Records
    BY <1>1 DEF EtlTyped
  <2>3. lost' \subseteq IntegrationSync!Records
    BY <1>3, <1>4, <2>2
  <2>. QED
    BY <1>1, <1>3, <2>1, <2>2, <2>3, PopTyped
<1>6. \A i \in IntegrationSync!Records : syncRow[i] # NoRow => syncRow[i] \in SyncRows
  BY <1>1 DEF EtlTyped
<1>7. RunsAreOrdered' /\ NothingIsPassed'
  <2>1. lost \subseteq lost' /\ InHand(r) \in lost'
    BY <1>3
  <2>. QED
    BY <1>1, <1>3, <1>6, <2>1, PopKeepsOrder
<1>8. ASSUME ~overlapped' PROVE AloneInv'
  <2>1. AloneInv
    BY <1>1, <1>3, <1>8 DEF Pops
  <2>2. ASSUME syncRow[InHand(r)] # NoRow
        PROVE  /\ InHand(r) <= Len(remote)
               /\ syncRow[InHand(r)].hash <= remote[InHand(r)]
               /\ \A d \in data : syncRow[InHand(r)].id = d[2] =>
                    d[1] = InHand(r) /\ syncRow[InHand(r)].hash <= d[3]
               /\ \A j \in IntegrationSync!Records : j # InHand(r) /\ syncRow[j] # NoRow =>
                    syncRow[j].id # syncRow[InHand(r)].id
    <3>1. InHand(r) <= Len(remote) /\ syncRow[InHand(r)].hash <= remote[InHand(r)]
      BY <1>4, <2>1, <2>2 DEF AloneInv, HashesFollow
    <3>2. \A d \in data : syncRow[InHand(r)].id = d[2] => d[1] = InHand(r)
      BY <1>4, <2>1, <2>2 DEF AloneInv, IdsAreOwned
    <3>3. \A d \in data : syncRow[InHand(r)].id = d[2] => syncRow[InHand(r)].hash <= d[3]
      BY <2>1, <2>2, <3>2 DEF AloneInv
    <3>4. \A j \in IntegrationSync!Records : j # InHand(r) /\ syncRow[j] # NoRow =>
            syncRow[j].id # syncRow[InHand(r)].id
      BY <1>4, <2>1, <2>2 DEF AloneInv, IdsAreOwned
    <3>. QED
      BY <3>1, <3>2, <3>3, <3>4
  <2>3. lost' # {}
    BY <1>3
  <2>. QED
    BY <1>1, <1>3, <2>1, <2>2, <2>3, PopKeepsAlone
<1>. QED
  BY <1>5, <1>7, <1>8 DEF EtlInv

\* InsertSyncRow: EtlInv is kept.
LEMMA LinkKeepsSync ==
  ASSUME EtlInv, NEW r \in SyncRuns, IntegrationSync!InsertSyncRow(r)
  PROVE  EtlInv'
<1>1. /\ EtlTyped /\ RunsAreOrdered /\ NothingIsPassed
      /\ ~overlapped => AloneInv
  BY DEF EtlInv
<1>2. phase[r] = "link" /\ batch[r] # <<>> /\ found[r] \in SyncRows
  BY <1>1 DEF IntegrationSync!InsertSyncRow, RunsAreOrdered, RunIsOrdered, Loading
<1>3. /\ Pops(r) /\ UNCHANGED etlFaults
      /\ \/ /\ syncRow[InHand(r)] = NoRow /\ UNCHANGED lost
            /\ syncRow' = [syncRow EXCEPT ![InHand(r)] = found[r]]
         \/ /\ syncRow[InHand(r)] # NoRow /\ UNCHANGED syncRow
            /\ lost' = lost \union {InHand(r)}
  BY <1>1, <1>2, InHandOf
     DEF IntegrationSync!InsertSyncRow, IntegrationSync!NextRecord, IntegrationSync!Moves,
         Pops, IntegrationSync!Keep, IntegrationSync!KeepCursor
<1>4. InHand(r) \in IntegrationSync!Records
  BY <1>1, <1>2, InHandOf
<1>5. /\ syncRow \in [IntegrationSync!Records -> SyncRows \union {NoRow}]
      /\ lost \subseteq IntegrationSync!Records /\ etlFaults \in 0 .. MaxFaults
      /\ NoRow \notin SyncRows
  BY <1>1, RowsAreRows DEF EtlTyped
<1>6. /\ syncRow' \in [IntegrationSync!Records -> SyncRows \union {NoRow}]
      /\ lost' \subseteq IntegrationSync!Records /\ lost \subseteq lost'
      /\ \A i \in IntegrationSync!Records : i # InHand(r) => syncRow'[i] = syncRow[i]
      /\ \A i \in IntegrationSync!Records : syncRow[i] # NoRow => syncRow'[i] = syncRow[i]
      /\ \/ syncRow[InHand(r)] = NoRow /\ syncRow'[InHand(r)] = found[r] /\ lost' = lost
         \/ syncRow[InHand(r)] # NoRow /\ lost' # {} /\ InHand(r) \in lost'
  BY <1>2, <1>3, <1>4, <1>5
<1>7. EtlTyped'
  BY <1>1, <1>3, <1>5, <1>6, PopTyped
<1>8. \A i \in IntegrationSync!Records : syncRow[i] # NoRow =>
           syncRow'[i] \in SyncRows /\ syncRow'[i].id = syncRow[i].id
  BY <1>5, <1>6
<1>9. syncRow'[InHand(r)] # NoRow \/ InHand(r) \in lost'
  BY <1>2, <1>5, <1>6
<1>10. RunsAreOrdered' /\ NothingIsPassed'
  BY <1>1, <1>3, <1>6, <1>8, <1>9, PopKeepsOrder
<1>11. ASSUME ~overlapped' PROVE AloneInv'
  <2>1. AloneInv
    BY <1>1, <1>3, <1>11 DEF Pops
  <2>2. /\ syncRow[InHand(r)] = NoRow /\ syncRow'[InHand(r)] = found[r] /\ lost' = lost
        /\ found[r].hash = batch[r][1][2] /\ found[r].hash \in 1 .. MaxVersion
    BY <1>1, <1>2, <1>6, <2>1, RowsAreRows DEF AloneInv, HashesFollow
  <2>3. InHand(r) <= Len(remote) /\ batch[r][1][2] <= remote[InHand(r)]
    BY <1>1, <1>2, <2>1, InHandOf DEF AloneInv, HashesFollow, InHand
  <2>4. \A d \in data : found[r].id = d[2] => d[1] = InHand(r) /\ d[3] = found[r].hash
    BY <1>2, <2>1, <2>2 DEF AloneInv, IdsAreOwned, HashesFollow
  <2>5. \A d \in data : found[r].id = d[2] => d[1] = InHand(r) /\ found[r].hash <= d[3]
    <3>1. found[r].hash <= found[r].hash
      BY <1>1, <2>2, SizesOfSync
    <3>. QED
      BY <2>4, <3>1
  <2>6. \A j \in IntegrationSync!Records : syncRow[j] # NoRow =>
          syncRow[j].id # found[r].id
    BY <1>2, <2>1 DEF AloneInv, IdsAreOwned
  <2>. QED
    BY <1>1, <1>2, <1>3, <1>5, <1>6, <2>1, <2>2, <2>3, <2>5, <2>6, PopKeepsAlone
<1>. QED
  BY <1>7, <1>10, <1>11 DEF EtlInv

\* UpdateHash: EtlInv is kept.
LEMMA HashKeepsSync ==
  ASSUME EtlInv, NEW r \in SyncRuns, IntegrationSync!UpdateHash(r)
  PROVE  EtlInv'
<1>1. /\ EtlTyped /\ RunsAreOrdered /\ NothingIsPassed
      /\ ~overlapped => AloneInv
  BY DEF EtlInv
<1>2. /\ phase[r] = "hash" /\ batch[r] # <<>> /\ syncRow[InHand(r)] \in SyncRows
      /\ syncRow[InHand(r)].id = found[r].id
  BY <1>1 DEF IntegrationSync!UpdateHash, RunsAreOrdered, RunIsOrdered, Loading
<1>3. /\ Pops(r) /\ UNCHANGED <<etlFaults, lost>>
      /\ syncRow' = [syncRow EXCEPT ![InHand(r)].hash = batch[r][1][2]]
  BY <1>1, <1>2, InHandOf
     DEF IntegrationSync!UpdateHash, IntegrationSync!NextRecord, IntegrationSync!Moves,
         Pops, IntegrationSync!Keep, IntegrationSync!KeepCursor
<1>4. InHand(r) \in IntegrationSync!Records /\ batch[r][1][2] \in 1 .. MaxVersion
  BY <1>1, <1>2, InHandOf
<1>5. /\ syncRow \in [IntegrationSync!Records -> SyncRows \union {NoRow}]
      /\ lost \subseteq IntegrationSync!Records /\ etlFaults \in 0 .. MaxFaults
      /\ NoRow \notin SyncRows
  BY <1>1, RowsAreRows DEF EtlTyped
<1>6. /\ syncRow'[InHand(r)] \in SyncRows
      /\ syncRow'[InHand(r)].id = found[r].id
      /\ syncRow'[InHand(r)].hash = batch[r][1][2]
  BY <1>2, <1>3, <1>4, <1>5 DEF SyncRows
<1>7. /\ syncRow' \in [IntegrationSync!Records -> SyncRows \union {NoRow}]
      /\ \A i \in IntegrationSync!Records : i # InHand(r) => syncRow'[i] = syncRow[i]
  BY <1>3, <1>4, <1>5, <1>6
<1>8. EtlTyped'
  BY <1>1, <1>3, <1>5, <1>7, PopTyped
<1>9. \A i \in IntegrationSync!Records : syncRow[i] # NoRow =>
           syncRow'[i] \in SyncRows /\ syncRow'[i].id = syncRow[i].id
  BY <1>2, <1>5, <1>6, <1>7
<1>10. RunsAreOrdered' /\ NothingIsPassed'
  BY <1>1, <1>3, <1>5, <1>6, <1>9, PopKeepsOrder
<1>11. ASSUME ~overlapped' PROVE AloneInv'
  <2>1. AloneInv
    BY <1>1, <1>3, <1>11 DEF Pops
  <2>2. InHand(r) <= Len(remote) /\ batch[r][1][2] <= remote[InHand(r)]
    BY <1>1, <1>2, <2>1, InHandOf DEF AloneInv, HashesFollow, InHand
  <2>3. \A d \in data : found[r].id = d[2] => d[1] = InHand(r)
    BY <1>2, <1>4, <1>5, <2>1 DEF AloneInv, IdsAreOwned
  <2>4. \A d \in data : found[r].id = d[2] => d[3] = batch[r][1][2]
    BY <1>2, <2>1 DEF AloneInv, HashesFollow
  <2>5. batch[r][1][2] <= batch[r][1][2]
    BY <1>1, <1>4, SizesOfSync
  <2>6. \A j \in IntegrationSync!Records : j # InHand(r) /\ syncRow[j] # NoRow =>
          syncRow[j].id # found[r].id
    BY <1>2, <1>4, <1>5, <2>1 DEF AloneInv, IdsAreOwned
  <2>7. \A d \in data : syncRow'[InHand(r)].id = d[2] =>
          d[1] = InHand(r) /\ syncRow'[InHand(r)].hash <= d[3]
    BY <1>6, <2>3, <2>4, <2>5
  <2>. QED
    BY <1>1, <1>3, <1>5, <1>6, <1>7, <2>1, <2>2, <2>6, <2>7, PopKeepsAlone
<1>. QED
  BY <1>8, <1>10, <1>11 DEF EtlInv

\* The steps before: a sync row is read, a record is made, or written to.
LEMMA CheckKeepsSync ==
  ASSUME EtlInv, NEW r \in SyncRuns, IntegrationSync!Check(r)
  PROVE  EtlInv'
<1>1. /\ EtlTyped /\ RunsAreOrdered /\ NothingIsPassed
      /\ ~overlapped => AloneInv
  BY DEF EtlInv
<1>2. /\ phase[r] = "check" /\ batch[r] # <<>>
      /\ UNCHANGED <<mode, remote, cursor, from, data, made, syncRow, lost,
                     overlapped, etlFaults>>
  BY DEF IntegrationSync!Check, IntegrationSync!tables
<1>3. IntegrationSync!Id(r) = InHand(r) /\ InHand(r) \in IntegrationSync!Records
  BY <1>1, <1>2, InHandOf
<1>4. CASE syncRow[IntegrationSync!Id(r)] # NoRow /\ IntegrationSync!NextRecord(r)
  BY <1>4, SkipKeepsSync
<1>5. ASSUME UNCHANGED batch,
             \/ /\ syncRow[InHand(r)] = NoRow /\ UNCHANGED found
                /\ phase' = [phase EXCEPT ![r] = "insert"]
             \/ /\ syncRow[InHand(r)] # NoRow
                /\ found' = [found EXCEPT ![r] = syncRow[InHand(r)]]
                /\ phase' = [phase EXCEPT ![r] = "update"]
      PROVE  EtlInv'
  <2>1. /\ \/ syncRow[InHand(r)] = NoRow /\ phase'[r] = "insert" /\ found'[r] = found[r]
           \/ /\ syncRow[InHand(r)] # NoRow /\ phase'[r] = "update"
              /\ found'[r] = syncRow[InHand(r)]
        /\ OthersStay(r)
    BY <1>1, <1>2, <1>5 DEF EtlTyped, OthersStay
  <2>2. syncRow[InHand(r)] # NoRow => syncRow[InHand(r)] \in SyncRows
    BY <1>1, <1>3 DEF EtlTyped
  <2>3. EtlTyped'
    <3>1. phase' \in [SyncRuns -> IntegrationSync!Phases]
          /\ found' \in [SyncRuns -> SyncRows \union {NoRow}]
      BY <1>1, <1>5, <2>2 DEF EtlTyped, IntegrationSync!Phases
    <3>. QED
      BY <1>1, <1>2, <1>5, <3>1 DEF EtlTyped, SyncRows
  <2>4. RunsAreOrdered'
    <3>. SUFFICES ASSUME NEW q \in SyncRuns PROVE RunIsOrdered(q)'
      BY DEF RunsAreOrdered
    <3>1. CASE q = r
      BY <1>1, <1>2, <1>5, <2>1, <2>2, <3>1
         DEF RunsAreOrdered, RunIsOrdered, Loading, InHand, SyncRows
    <3>2. CASE q # r
      BY <1>1, <1>2, <2>1, <3>2
         DEF RunsAreOrdered, RunIsOrdered, Loading, InHand, SyncRows, OthersStay
    <3>. QED
      BY <3>1, <3>2
  <2>5. NothingIsPassed'
    <3>1. \A i \in IntegrationSync!Records : Met(i) => Met(i)'
      BY <1>2, <1>5, <2>1 DEF Met, Carries, OthersStay
    <3>2. \A q \in SyncRuns : phase'[q] = "fetch" =>
            phase[q] = "fetch" /\ from'[q] = from[q] /\ batch'[q] = batch[q]
      BY <2>1 DEF OthersStay
    <3>. QED
      BY <1>1, <1>2, <3>1, <3>2, PassedStays DEF EtlTyped
  <2>6. ASSUME ~overlapped' PROVE AloneInv'
    <3>1. AloneInv
      BY <1>1, <1>2, <2>6
    <3>2. \A q \in SyncRuns : q # r => phase'[q] = "idle" /\ phase[q] = "idle"
      BY <1>1, <1>2, <2>1, <3>1, OthersAreIdle DEF AloneInv, OthersStay
    <3>3. Alone' /\ IdsAreOwned'
      BY <1>2, <2>1, <3>1, <3>2 DEF AloneInv, Alone, IdsAreOwned
    <3>4. HashesFollow'
      BY <1>2, <1>5, <2>1, <3>1, <3>2 DEF AloneInv, HashesFollow, InHand
    <3>5. lost' = {} => OneCopyEach'
      BY <1>2, <2>1, <3>1, <3>2 DEF AloneInv, OneCopyEach
    <3>. QED
      BY <1>2, <3>1, <3>3, <3>4, <3>5 DEF AloneInv
  <2>. QED
    BY <2>3, <2>4, <2>5, <2>6 DEF EtlInv
<1>. QED
  BY <1>3, <1>4, <1>5 DEF IntegrationSync!Check, IntegrationSync!Moves

\* InsertData: EtlInv is kept.
LEMMA InsertKeepsSync ==
  ASSUME EtlInv, NEW r \in SyncRuns, IntegrationSync!InsertData(r)
  PROVE  EtlInv'
<1>1. /\ EtlTyped /\ RunsAreOrdered /\ NothingIsPassed
      /\ ~overlapped => AloneInv
  BY DEF EtlInv
<1>2. phase[r] = "insert" /\ batch[r] # <<>>
  BY <1>1 DEF IntegrationSync!InsertData, RunsAreOrdered, RunIsOrdered, Loading
<1>3. /\ InHand(r) \in IntegrationSync!Records /\ batch[r][1][2] \in 1 .. MaxVersion
      /\ 1 \in 1 .. Len(batch[r])
  BY <1>1, <1>2, InHandOf
<1>4. PICK n \in Nat : n = made + 1
  BY <1>1 DEF EtlTyped
<1>5. PICK v \in 1 .. MaxVersion : v = batch[r][1][2]
  BY <1>3
<1>6. PICK h \in IntegrationSync!Records : h = InHand(r)
  BY <1>3
<1>7. /\ made' = n /\ data' = data \union {<<h, n, v>>}
      /\ found' = [found EXCEPT ![r] = [id |-> n, hash |-> v]]
      /\ phase' = [phase EXCEPT ![r] = "link"]
      /\ UNCHANGED <<mode, remote, cursor, from, overlapped, batch, syncRow,
                     lost, etlFaults>>
  BY <1>1, <1>2, <1>4, <1>5, <1>6, InHandOf
     DEF IntegrationSync!InsertData, IntegrationSync!Moves
<1>8. /\ made \in Nat /\ n \notin 1 .. made /\ n \in 1 .. n /\ 1 .. made \subseteq 1 .. n
      /\ MaxVersion \in Nat
  BY <1>1, <1>4, SizesOfSync DEF EtlTyped
<1>9. SyncRows \subseteq SyncRows' /\ [id |-> n, hash |-> v] \in SyncRows'
  BY <1>7, <1>8 DEF SyncRows
<1>10. /\ phase'[r] = "link" /\ found'[r] = [id |-> n, hash |-> v]
       /\ \A q \in SyncRuns : q # r => phase'[q] = phase[q] /\ found'[q] = found[q]
  BY <1>1, <1>7 DEF EtlTyped
<1>11. EtlTyped'
  <2>1. phase' \in [SyncRuns -> IntegrationSync!Phases]
    BY <1>1, <1>7 DEF EtlTyped, IntegrationSync!Phases
  <2>2. found' \in [SyncRuns -> (SyncRows \union {NoRow})']
    BY <1>1, <1>7, <1>9 DEF EtlTyped
  <2>3. syncRow' \in [IntegrationSync!Records -> (SyncRows \union {NoRow})']
    BY <1>1, <1>7, <1>9 DEF EtlTyped
  <2>4. data' \subseteq IntegrationSync!Records \X (1 .. made') \X (1 .. MaxVersion)
    <3>1. data \subseteq IntegrationSync!Records \X (1 .. made) \X (1 .. MaxVersion)
      BY <1>1 DEF EtlTyped
    <3>2. \A d \in data : d \in IntegrationSync!Records \X (1 .. n) \X (1 .. MaxVersion)
      BY <1>8, <3>1
    <3>3. <<h, n, v>> \in IntegrationSync!Records \X (1 .. n) \X (1 .. MaxVersion)
      BY <1>8
    <3>. QED
      BY <1>7, <3>2, <3>3
  <2>. QED
    BY <1>1, <1>4, <1>7, <2>1, <2>2, <2>3, <2>4 DEF EtlTyped
<1>12. RunsAreOrdered'
  <2>. SUFFICES ASSUME NEW q \in SyncRuns PROVE RunIsOrdered(q)'
    BY DEF RunsAreOrdered
  <2>1. CASE q = r
    BY <1>1, <1>2, <1>7, <1>9, <1>10, <2>1
       DEF RunsAreOrdered, RunIsOrdered, Loading
  <2>2. CASE q # r
    BY <1>1, <1>7, <1>9, <1>10, <2>2
       DEF RunsAreOrdered, RunIsOrdered, Loading, InHand
  <2>. QED
    BY <2>1, <2>2
<1>13. NothingIsPassed'
  <2>1. \A i \in IntegrationSync!Records : Met(i) => Met(i)'
    BY <1>7, <1>10 DEF Met, Carries
  <2>2. \A q \in SyncRuns : phase'[q] = "fetch" =>
          phase[q] = "fetch" /\ from'[q] = from[q] /\ batch'[q] = batch[q]
    BY <1>7, <1>10
  <2>. QED
    BY <1>1, <1>7, <2>1, <2>2, PassedStays DEF EtlTyped
<1>14. ASSUME ~overlapped' PROVE AloneInv'
  <2>1. AloneInv /\ syncRow[h] = NoRow
    BY <1>1, <1>2, <1>6, <1>7, <1>14 DEF AloneInv, HashesFollow
  <2>2. \A q \in SyncRuns : q # r => phase'[q] = "idle" /\ phase[q] = "idle"
    BY <1>1, <1>2, <1>10, <2>1, OthersAreIdle DEF AloneInv
  <2>3. /\ \A d \in data : d[2] \in 1 .. made /\ d[2] # n
        /\ \A i \in IntegrationSync!Records : syncRow[i] # NoRow => syncRow[i].id # n
    BY <1>1, <1>8 DEF EtlTyped, SyncRows
  <2>4. InHand(r)' = h
    BY <1>6, <1>7 DEF InHand
  <2>5. Alone'
    BY <1>2, <1>10, <2>1, <2>2 DEF AloneInv, Alone
  <2>6. IdsAreOwned'
    <3>1. \A d \in data', i \in IntegrationSync!Records :
            syncRow[i] # NoRow /\ syncRow[i].id = d[2] => d[1] = i
      BY <1>7, <2>1, <2>3 DEF AloneInv, IdsAreOwned
    <3>2. \A d, e \in data' : d[2] = e[2] => d = e
      BY <1>7, <2>1, <2>3 DEF AloneInv, IdsAreOwned
    <3>3. \A i \in IntegrationSync!Records : syncRow[i] # NoRow => syncRow[i].id # found'[r].id
      BY <1>10, <2>3
    <3>4. \A d \in data' : d[2] = found'[r].id => d[1] = h
      BY <1>7, <1>10, <2>3
    <3>5. \A i, j \in IntegrationSync!Records :
            syncRow[i] # NoRow /\ syncRow[j] # NoRow /\ syncRow[i].id = syncRow[j].id
              => i = j
      BY <2>1 DEF AloneInv, IdsAreOwned
    <3>. QED
      BY <1>7, <2>2, <2>4, <3>1, <3>2, <3>3, <3>4, <3>5 DEF IdsAreOwned
  <2>7. HashesFollow'
    <3>1. \A d \in data' : d[2] = found'[r].id => d[3] = v
      BY <1>7, <1>10, <2>3
    <3>2. found'[r].hash = v /\ batch'[r][1][2] = v /\ syncRow'[h] = NoRow
      BY <1>5, <1>7, <1>10, <2>1
    <3>3. \A q \in SyncRuns :
            /\ phase'[q] = "link" => q = r
            /\ phase'[q] \notin {"insert", "hash"}
      BY <1>10, <2>2
    <3>4. /\ \A i \in IntegrationSync!Records : syncRow'[i] # NoRow =>
               i <= Len(remote') /\ syncRow'[i].hash <= remote'[i]
          /\ \A q \in SyncRuns : \A k \in 1 .. Len(batch'[q]) :
               LET i == batch'[q][k][1]
               IN  /\ i <= Len(remote') /\ batch'[q][k][2] <= remote'[i]
                   /\ syncRow'[i] # NoRow => syncRow'[i].hash <= batch'[q][k][2]
      BY <1>7, <2>1 DEF AloneInv, HashesFollow
    <3>. QED
      BY <2>4, <3>1, <3>2, <3>3, <3>4 DEF HashesFollow
  <2>8. \A d \in data' :
          LET row == syncRow'[d[1]]
          IN  row # NoRow /\ row.id = d[2] => row.hash <= d[3]
    BY <1>7, <2>1 DEF AloneInv
  <2>9. ASSUME lost' = {} PROVE OneCopyEach'
    <3>1. OneCopyEach
      BY <1>7, <2>1, <2>9 DEF AloneInv
    <3>2. \A d \in data : d[1] # h /\ syncRow[d[1]] # NoRow
      BY <1>2, <2>1, <2>2, <3>1 DEF OneCopyEach
    <3>. QED
      BY <1>7, <1>10, <2>4, <3>1, <3>2 DEF OneCopyEach
  <2>. QED
    BY <2>5, <2>6, <2>7, <2>8, <2>9 DEF AloneInv
<1>. QED
  BY <1>11, <1>12, <1>13, <1>14 DEF EtlInv

\* UpdateData: EtlInv is kept.
LEMMA UpdateKeepsSync ==
  ASSUME EtlInv, NEW r \in SyncRuns, IntegrationSync!UpdateData(r)
  PROVE  EtlInv'
<1>1. /\ EtlTyped /\ RunsAreOrdered /\ NothingIsPassed
      /\ ~overlapped => AloneInv
  BY DEF EtlInv
<1>2. /\ phase[r] = "update" /\ batch[r] # <<>> /\ syncRow[InHand(r)] \in SyncRows
      /\ syncRow[InHand(r)].id = found[r].id
  BY <1>1 DEF IntegrationSync!UpdateData, RunsAreOrdered, RunIsOrdered, Loading
<1>3. /\ InHand(r) \in IntegrationSync!Records /\ batch[r][1][2] \in 1 .. MaxVersion
      /\ 1 \in 1 .. Len(batch[r]) /\ syncRow[InHand(r)] # NoRow
  BY <1>1, <1>2, InHandOf, RowsAreRows
<1>4. PICK v \in 1 .. MaxVersion : v = batch[r][1][2]
  BY <1>3
<1>5. /\ data' = {IF d[2] = found[r].id THEN <<d[1], d[2], v>> ELSE d : d \in data}
      /\ phase' = [phase EXCEPT ![r] = "hash"]
      /\ UNCHANGED <<mode, remote, cursor, from, found, batch, made, syncRow, lost,
                     overlapped, etlFaults>>
  BY <1>1, <1>2, <1>4, InHandOf
     DEF IntegrationSync!UpdateData, IntegrationSync!Updated, IntegrationSync!Moves,
         IntegrationSync!Keep, IntegrationSync!KeepCursor
<1>6. /\ phase'[r] = "hash"
      /\ \A q \in SyncRuns : q # r => phase'[q] = phase[q]
  BY <1>1, <1>5 DEF EtlTyped
<1>7. \A e \in data' : \E d \in data :
        /\ e[1] = d[1] /\ e[2] = d[2]
        /\ e = IF d[2] = found[r].id THEN <<d[1], d[2], v>> ELSE d
        /\ e[3] = IF d[2] = found[r].id THEN v ELSE d[3]
  BY <1>5
<1>8. EtlTyped'
  <2>1. phase' \in [SyncRuns -> IntegrationSync!Phases]
    BY <1>1, <1>5 DEF EtlTyped, IntegrationSync!Phases
  <2>2. data' \subseteq IntegrationSync!Records \X (1 .. made) \X (1 .. MaxVersion)
    <3>1. data \subseteq IntegrationSync!Records \X (1 .. made) \X (1 .. MaxVersion)
      BY <1>1 DEF EtlTyped
    <3>2. \A d \in data : d[1] \in IntegrationSync!Records /\ d[2] \in 1 .. made
      BY <3>1
    <3>. QED
      BY <1>7, <3>1, <3>2
  <2>. QED
    BY <1>1, <1>5, <2>1, <2>2 DEF EtlTyped, SyncRows
<1>9. RunsAreOrdered'
  <2>. SUFFICES ASSUME NEW q \in SyncRuns PROVE RunIsOrdered(q)'
    BY DEF RunsAreOrdered
  <2>1. CASE q = r
    BY <1>1, <1>2, <1>5, <1>6, <2>1
       DEF RunsAreOrdered, RunIsOrdered, Loading, InHand, SyncRows
  <2>2. CASE q # r
    BY <1>1, <1>5, <1>6, <2>2 DEF RunsAreOrdered, RunIsOrdered, Loading, InHand, SyncRows
  <2>. QED
    BY <2>1, <2>2
<1>10. NothingIsPassed'
  <2>1. \A i \in IntegrationSync!Records : Met(i) => Met(i)'
    BY <1>2, <1>5, <1>6 DEF Met, Carries
  <2>2. \A q \in SyncRuns : phase'[q] = "fetch" =>
          phase[q] = "fetch" /\ from'[q] = from[q] /\ batch'[q] = batch[q]
    BY <1>5, <1>6
  <2>. QED
    BY <1>1, <1>5, <2>1, <2>2, PassedStays DEF EtlTyped
<1>11. ASSUME ~overlapped' PROVE AloneInv'
  <2>1. AloneInv
    BY <1>1, <1>5, <1>11
  <2>2. \A q \in SyncRuns : q # r => phase'[q] = "idle" /\ phase[q] = "idle"
    BY <1>1, <1>2, <1>6, <2>1, OthersAreIdle DEF AloneInv
  <2>3. Alone'
    BY <1>2, <1>6, <2>1, <2>2 DEF AloneInv, Alone
  <2>4. \A q \in SyncRuns : phase'[q] \notin {"link", "insert"} /\ (phase'[q] = "hash" => q = r)
    BY <1>6, <2>2
  <2>5. IdsAreOwned'
    <3>1. \A e \in data', i \in IntegrationSync!Records :
            syncRow[i] # NoRow /\ syncRow[i].id = e[2] => e[1] = i
      BY <1>7, <2>1 DEF AloneInv, IdsAreOwned
    <3>2. \A d, e \in data : d[2] = e[2] => d = e
      BY <2>1 DEF AloneInv, IdsAreOwned
    <3>3. \A d, e \in data' : d[2] = e[2] => d = e
      BY <1>7, <3>2
    <3>4. \A i, j \in IntegrationSync!Records :
            syncRow[i] # NoRow /\ syncRow[j] # NoRow /\ syncRow[i].id = syncRow[j].id
              => i = j
      BY <2>1 DEF AloneInv, IdsAreOwned
    <3>. QED
      BY <1>5, <2>4, <3>1, <3>3, <3>4 DEF IdsAreOwned
  <2>6. HashesFollow'
    <3>1. \A e \in data' : e[2] = found[r].id => e[3] = v
      BY <1>7
    <3>. QED
      BY <1>4, <1>5, <2>1, <2>4, <3>1 DEF AloneInv, HashesFollow
  <2>7. ASSUME NEW e \in data', syncRow[e[1]] # NoRow, syncRow[e[1]].id = e[2]
        PROVE  syncRow[e[1]].hash <= e[3]
    <3>1. PICK d \in data : /\ e[1] = d[1] /\ e[2] = d[2]
                            /\ e[3] = IF d[2] = found[r].id THEN v ELSE d[3]
      BY <1>7
    <3>2. CASE d[2] = found[r].id
      <4>1. d[1] = InHand(r)
        BY <1>2, <1>3, <2>1, <3>2 DEF AloneInv, IdsAreOwned
      <4>2. syncRow[InHand(r)].hash <= batch[r][1][2]
        BY <1>3, <2>1 DEF AloneInv, HashesFollow, InHand
      <4>. QED
        BY <1>4, <3>1, <3>2, <4>1, <4>2
    <3>3. CASE d[2] # found[r].id
      BY <2>1, <2>7, <3>1, <3>3 DEF AloneInv
    <3>. QED
      BY <3>2, <3>3
  <2>8. ASSUME lost' = {} PROVE OneCopyEach'
    <3>1. OneCopyEach
      BY <1>5, <2>1, <2>8 DEF AloneInv
    <3>2. \A d, e \in data : d[1] = e[1] => d = e
      BY <3>1 DEF OneCopyEach
    <3>3. \A d, e \in data' : d[1] = e[1] => d = e
      BY <1>7, <3>2
    <3>4. \A d \in data : syncRow[d[1]] # NoRow
      BY <1>2, <2>2, <3>1 DEF OneCopyEach
    <3>5. \A e \in data' : syncRow[e[1]] # NoRow
      BY <1>7, <3>4
    <3>. QED
      BY <1>5, <3>3, <3>5 DEF OneCopyEach
  <2>. QED
    BY <1>5, <2>3, <2>5, <2>6, <2>7, <2>8 DEF AloneInv
<1>. QED
  BY <1>8, <1>9, <1>10, <1>11 DEF EtlInv

\* A step of this part, or of another, keeps EtlInv.
LEMMA EtlStep ==
  ASSUME EtlInv, [IntegrationSync!EtlSyncNext]_etlVars PROVE EtlInv'
<1>1. CASE UNCHANGED etlVars
  BY <1>1
     DEF etlVars, EtlInv, EtlTyped, RunsAreOrdered, RunIsOrdered, NothingIsPassed, Met,
         Carries, AloneInv, Alone, IdsAreOwned, HashesFollow, OneCopyEach, InHand, Loading,
         SyncRows
<1>. QED
  BY <1>1, SourceKeepsSync, StartKeepsSync, FetchKeepsSync, EndKeepsSync, SaveKeepsSync,
     CheckKeepsSync, InsertKeepsSync, LinkKeepsSync, UpdateKeepsSync, HashKeepsSync,
     FailureKeepsSync
     DEF IntegrationSync!EtlSyncNext

\* EtlInv holds in every reachable state.
LEMMA EtlHolds == Spec => []EtlInv
<1>1. Init => EtlInv
  <2>. SUFFICES ASSUME Init PROVE EtlInv
    OBVIOUS
  <2>. USE DEF IntegrationSync!EtlSyncInit, Init
  <2>0. RemoteTotal \in Nat /\ MaxFaults \in Nat /\ MaxVersion \in Nat
    BY ConstantsOfRecords
  <2>1. EtlTyped
    <3>1. /\ remote \in Seq(1 .. MaxVersion) /\ Len(remote) <= RemoteTotal
          /\ cursor \in 0 .. RemoteTotal /\ etlFaults \in 0 .. MaxFaults
      BY <2>0
    <3>2. phase \in [SyncRuns -> IntegrationSync!Phases] /\ batch \in [SyncRuns -> Seq(Fetched)]
      BY DEF IntegrationSync!Phases
    <3>3. from \in [SyncRuns -> 0 .. RemoteTotal]
      BY <2>0
    <3>4. overlapped \in BOOLEAN
      BY Zenon
    <3>5. /\ mode \in {"none", "full", "incremental"} /\ made \in Nat
          /\ found \in [SyncRuns -> SyncRows \union {NoRow}]
          /\ syncRow \in [IntegrationSync!Records -> SyncRows \union {NoRow}]
      OBVIOUS
    <3>6. data = {} /\ lost = {}
      OBVIOUS
    <3>. QED
      BY <3>1, <3>2, <3>3, <3>4, <3>5, <3>6 DEF EtlTyped
  <2>2. RunsAreOrdered
    BY DEF RunsAreOrdered, RunIsOrdered, Loading
  <2>3. NothingIsPassed
    BY DEF NothingIsPassed
  <2>4. AloneInv
    BY DEF AloneInv, Alone, IdsAreOwned, HashesFollow, OneCopyEach
  <2>. QED
    BY <2>1, <2>2, <2>3, <2>4 DEF EtlInv
<1>. QED
  BY <1>1, EtlStep, StepOfParts, PTL DEF Spec

\* A sync leaves no record of the source behind that it neither loaded, nor
\* carries, nor lost; it keeps one copy of each and no hash hides what was not
\* written, unless runs overlapped: etl.rs saves the cursor before it loads, and
\* upsert_record writes a record before its hash.
THEOREM SyncsMeetAll == Spec => []SyncsMeetEveryRecord
<1>1. ASSUME EtlInv
      PROVE  /\ IntegrationSync!NothingSkipped /\ IntegrationSync!SyncedOnce
             /\ IntegrationSync!HashNotAhead
  <2>1. \A r \in SyncRuns : DOMAIN batch[r] = 1 .. Len(batch[r])
    <3>1. \A r \in SyncRuns : batch[r] \in Seq(Fetched)
      BY <1>1 DEF EtlInv, EtlTyped
    <3>. QED
      BY <3>1
  <2>2. \A r \in SyncRuns : \A i : Carries(r, i) => \E k \in DOMAIN batch[r] : batch[r][k][1] = i
    BY <2>1 DEF Carries
  <2>3. IntegrationSync!NothingSkipped
    BY <1>1, <2>2 DEF EtlInv, NothingIsPassed, Met, IntegrationSync!NothingSkipped
  <2>4. IntegrationSync!SyncedOnce
    BY <1>1 DEF EtlInv, AloneInv, OneCopyEach, IntegrationSync!SyncedOnce
  <2>5. IntegrationSync!HashNotAhead
    BY <1>1 DEF EtlInv, AloneInv, IntegrationSync!HashNotAhead
  <2>. QED
    BY <2>3, <2>4, <2>5
<1>2. EtlInv => SyncsMeetEveryRecord
  BY <1>1 DEF SyncsMeetEveryRecord
<1>. QED
  BY <1>2, EtlHolds, PTL

(****************************************************************************)
(* Overlapping calls, for any number of callers.                            *)
(****************************************************************************)

\* Of natural numbers there is a smallest: of finite sets ordered by inclusion
\* there is a minimal one.
LEMMA Smallest ==
  ASSUME NEW T, T \subseteq Nat, T # {}
  PROVE  \E x \in T : \A y \in T : x <= y
<1>. DEFINE Below(y) == {x \in T : x <= y}
            Downs == {Below(y) : y \in T}
<1>1. \A y \in T : IsFiniteSet(Below(y))
  <2>. TAKE y \in T
  <2>0. y \in Int /\ 0 \in Int
    OBVIOUS
  <2>1. IsFiniteSet(0 .. y)
    BY <2>0, FS_Interval
  <2>2. \A z \in T : z <= y => z \in 0 .. y
    BY <2>0
  <2>3. Below(y) \in SUBSET (0 .. y)
    BY <2>2
  <2>. HIDE DEF Below
  <2>. QED
    BY <2>1, <2>3, FS_Subset
<1>2. Downs \subseteq FiniteSubsetsOf(T) /\ Downs # {}
  BY <1>1 DEF FiniteSubsetsOf
<1>3. PICK D \in Downs : \A E \in Downs : <<E, D>> \notin StrictSubsetOrdering(T)
  <2>. HIDE DEF Downs
  <2>1. IsWellFoundedOn(StrictSubsetOrdering(T), FiniteSubsetsOf(T))
    BY FS_StrictSubsetOrderingWellFounded
  <2>. QED
    BY <1>2, <2>1, WFMin
<1>4. PICK x \in T : D = Below(x)
  OBVIOUS
<1>5. ASSUME NEW y \in T, y < x PROVE FALSE
  <2>1. Below(y) \subseteq Below(x) /\ Below(y) # Below(x)
    <3>1. x \in Below(x) /\ x \notin Below(y)
      <4>1. x \in Nat /\ y \in Nat /\ x <= x /\ ~(x <= y)
        BY <1>5
      <4>. QED
        BY <4>1
    <3>2. Below(y) \subseteq Below(x)
      <4>1. \A z \in T : z <= y => z <= x
        BY <1>5
      <4>. QED
        BY <4>1
    <3>. QED
      BY <3>1, <3>2
  <2>2. <<Below(y), Below(x)>> \in StrictSubsetOrdering(T)
    BY <2>1 DEF StrictSubsetOrdering
  <2>. QED
    BY <1>3, <1>4, <2>2
<1>. QED
  BY <1>5

(****************************************************************************)
(* The history of an entity.                                                *)
(****************************************************************************)
LEMMA CardinalityOfRecords ==
  ASSUME NEW S PROVE RecordKeeping!Cardinality(S) = Cardinality(S)
BY DEF RecordKeeping!Cardinality, Cardinality

Revision == [version : Nat, snapshot : Snapshots, base : Snapshots \union {NoSnapshot}]

\* A writer's version is of the history or the next one; the base it has read
\* is the snapshot before.
RevisionsInv ==
  /\ revisions \subseteq Revision /\ IsFiniteSet(revisions)
  /\ RecordKeeping!Versions = 1 .. Cardinality(revisions)
  /\ Cardinality(revisions) <= MaxRevisions
  /\ \A r, p \in revisions : r.version = p.version => r = p
  /\ \A r, p \in revisions : p.version + 1 = r.version => r.base = p.snapshot
  /\ writing \in [Writers -> [stage : {"idle", "previous", "insert"},
                              snapshot : Snapshots \union {NoSnapshot}, next : Nat,
                              base : Snapshots \union {NoSnapshot}]]
  /\ \A w \in Writers : writing[w].stage # "idle" =>
       /\ writing[w].next \in 1 .. Cardinality(revisions) + 1
       /\ writing[w].next <= MaxRevisions
       /\ writing[w].snapshot \in Snapshots
       /\ writing[w].stage = "insert" =>
            \A r \in revisions : r.version + 1 = writing[w].next =>
              writing[w].base = r.snapshot
  /\ revisionsTold \in [Writers -> 0 .. MaxRevisions]

\* The latest revision's number is the number of revisions.
LEMMA LatestOfHistory ==
  ASSUME RevisionsInv
  PROVE  RecordKeeping!Latest = Cardinality(revisions) /\ Cardinality(revisions) \in Nat
<1>1. Cardinality(revisions) \in Nat
  BY FS_CardinalityType DEF RevisionsInv
<1>2. CASE revisions = {}
  BY <1>2, FS_EmptySet DEF RecordKeeping!Latest
<1>3. CASE revisions # {}
  <2>1. Cardinality(revisions) # 0
    BY <1>3, FS_EmptySet DEF RevisionsInv
  <2>2. PICK n \in Nat : n = Cardinality(revisions)
    BY <1>1
  <2>3. n \in 1 .. n /\ \A u \in 1 .. n : u <= n
    BY <2>1, <2>2
  <2>4. \A v \in 1 .. n : (\A u \in 1 .. n : u <= v) => v = n
    BY <2>3
  <2>5. RecordKeeping!Latest = CHOOSE v \in 1 .. n : \A u \in 1 .. n : u <= v
    BY <1>3, <2>2 DEF RecordKeeping!Latest, RevisionsInv
  <2>. QED
    BY <2>2, <2>3, <2>4, <2>5, <1>1
<1>. QED
  BY <1>2, <1>3

\* A step of this part, or of another, keeps RevisionsInv.
LEMMA RevisionsStep ==
  ASSUME RevisionsInv, [RecordKeeping!RevisionsNext]_revisionsVars PROVE RevisionsInv'
<1>0. PICK n \in Nat : n = Cardinality(revisions) /\ n = RecordKeeping!Latest
  BY LatestOfHistory
<1>00. MaxRevisions \in Nat /\ n <= MaxRevisions
  BY <1>0, ConstantsOfWrites DEF RevisionsInv
<1>1. ASSUME NEW w \in Writers, NEW s \in Snapshots, RecordKeeping!Begin(w, s)
      PROVE  RevisionsInv'
  <2>1. /\ UNCHANGED revisions /\ n < MaxRevisions
        /\ writing' = [writing EXCEPT ![w] =
             [stage |-> "previous", snapshot |-> s, next |-> n + 1, base |-> NoSnapshot]]
        /\ revisionsTold' = [revisionsTold EXCEPT ![w] = 0]
    BY <1>0, <1>1 DEF RecordKeeping!Begin
  <2>2. revisionsTold' \in [Writers -> 0 .. MaxRevisions]
    BY <1>00, <2>1 DEF RevisionsInv
  <2>3. writing' \in [Writers -> [stage : {"idle", "previous", "insert"},
                                  snapshot : Snapshots \union {NoSnapshot}, next : Nat,
                                  base : Snapshots \union {NoSnapshot}]]
    BY <2>1 DEF RevisionsInv
  <2>4. \A v \in Writers : writing'[v].stage # "idle" =>
          /\ writing'[v].next \in 1 .. n + 1 /\ writing'[v].next <= MaxRevisions
          /\ writing'[v].snapshot \in Snapshots
          /\ writing'[v].stage = "insert" =>
               \A r \in revisions : r.version + 1 = writing'[v].next =>
                 writing'[v].base = r.snapshot
    BY <1>0, <1>00, <2>1 DEF RevisionsInv
  <2>. QED
    BY <1>0, <2>1, <2>2, <2>3, <2>4 DEF RevisionsInv, RecordKeeping!Versions
<1>2. ASSUME NEW w \in Writers, RecordKeeping!ReadPrevious(w)
      PROVE  RevisionsInv'
  <2>. DEFINE b == IF writing[w].next = 1 THEN NoSnapshot
                   ELSE (CHOOSE r \in revisions :
                           r.version = writing[w].next - 1).snapshot
  <2>1. /\ UNCHANGED <<revisions, revisionsTold>> /\ writing[w].stage = "previous"
        /\ writing' = [writing EXCEPT ![w].stage = "insert", ![w].base = b]
    BY <1>2 DEF RecordKeeping!ReadPrevious
  <2>2. /\ writing[w].next \in 1 .. n + 1 /\ writing[w].next <= MaxRevisions
        /\ writing[w].snapshot \in Snapshots
    BY <1>0, <2>1 DEF RevisionsInv
  <2>3. /\ b \in Snapshots \union {NoSnapshot}
        /\ \A r \in revisions : r.version + 1 = writing[w].next => b = r.snapshot
    <3>0. \A r \in revisions : r.version \in 1 .. n
      BY <1>0 DEF RevisionsInv, RecordKeeping!Versions
    <3>1. CASE writing[w].next = 1
      BY <3>0, <3>1
    <3>2. CASE writing[w].next # 1
      <4>1. writing[w].next - 1 \in 1 .. n
        BY <2>2, <3>2
      <4>2. PICK p \in revisions : p.version = writing[w].next - 1
        BY <1>0, <4>1 DEF RevisionsInv, RecordKeeping!Versions
      <4>3. \A r \in revisions : r.version = writing[w].next - 1 => r = p
        BY <4>2 DEF RevisionsInv
      <4>4. b = p.snapshot
        BY <3>2, <4>2, <4>3
      <4>5. \A r \in revisions : r.version + 1 = writing[w].next => r = p
        BY <2>2, <3>0, <4>3
      <4>. QED
        BY <4>2, <4>4, <4>5 DEF RevisionsInv, Revision
    <3>. QED
      BY <3>1, <3>2
  <2>4. writing' \in [Writers -> [stage : {"idle", "previous", "insert"},
                                  snapshot : Snapshots \union {NoSnapshot}, next : Nat,
                                  base : Snapshots \union {NoSnapshot}]]
    <3>. HIDE DEF b
    <3>1. writing \in [Writers -> [stage : {"idle", "previous", "insert"},
                                   snapshot : Snapshots \union {NoSnapshot}, next : Nat,
                                   base : Snapshots \union {NoSnapshot}]]
      BY DEF RevisionsInv
    <3>2. [writing[w] EXCEPT !.stage = "insert", !.base = b]
             \in [stage : {"idle", "previous", "insert"},
                  snapshot : Snapshots \union {NoSnapshot}, next : Nat,
                  base : Snapshots \union {NoSnapshot}]
      BY <2>3, <3>1
    <3>3. writing' = [writing EXCEPT ![w] = [writing[w] EXCEPT !.stage = "insert", !.base = b]]
      BY <2>1, <3>1
    <3>. QED
      BY <3>1, <3>2, <3>3
  <2>5. /\ writing'[w].next = writing[w].next /\ writing'[w].base = b
        /\ writing'[w].snapshot = writing[w].snapshot
        /\ \A v \in Writers : v # w => writing'[v] = writing[v]
    <3>1. writing \in [Writers -> [stage : {"idle", "previous", "insert"},
                                   snapshot : Snapshots \union {NoSnapshot}, next : Nat,
                                   base : Snapshots \union {NoSnapshot}]]
      BY DEF RevisionsInv
    <3>. QED
      BY <2>1, <3>1
  <2>6. \A v \in Writers : writing'[v].stage # "idle" =>
          /\ writing'[v].next \in 1 .. n + 1 /\ writing'[v].next <= MaxRevisions
          /\ writing'[v].snapshot \in Snapshots
          /\ writing'[v].stage = "insert" =>
               \A r \in revisions : r.version + 1 = writing'[v].next =>
                 writing'[v].base = r.snapshot
    BY <1>0, <2>2, <2>3, <2>5 DEF RevisionsInv
  <2>. QED
    BY <1>0, <2>1, <2>4, <2>6 DEF RevisionsInv, RecordKeeping!Versions
<1>3. ASSUME NEW w \in Writers, RecordKeeping!Insert(w)
      PROVE  RevisionsInv'
  <2>1. /\ writing[w].stage = "insert"
        /\ writing[w].next \in 1 .. n + 1 /\ writing[w].next <= MaxRevisions
        /\ writing[w].snapshot \in Snapshots
        /\ writing[w].base \in Snapshots \union {NoSnapshot}
        /\ \A r \in revisions : r.version + 1 = writing[w].next =>
              writing[w].base = r.snapshot
    BY <1>0, <1>3 DEF RecordKeeping!Insert, RevisionsInv
  <2>2. /\ writing' = [writing EXCEPT ![w] = RecordKeeping!Idle]
        /\ writing'[w].stage = "idle"
        /\ \A v \in Writers : v # w => writing'[v] = writing[v]
    BY <1>3 DEF RecordKeeping!Insert, RevisionsInv, RecordKeeping!Idle
  <2>3. writing' \in [Writers -> [stage : {"idle", "previous", "insert"},
                                  snapshot : Snapshots \union {NoSnapshot}, next : Nat,
                                  base : Snapshots \union {NoSnapshot}]]
    BY <2>2 DEF RevisionsInv, RecordKeeping!Idle
  <2>4. CASE UNCHANGED <<revisions, revisionsTold>>
    BY <2>2, <2>3, <2>4 DEF RevisionsInv, RecordKeeping!Versions
  <2>5. ASSUME writing[w].next \notin RecordKeeping!Versions,
               revisions' = revisions \union
                 {[version |-> writing[w].next, snapshot |-> writing[w].snapshot,
                   base |-> writing[w].base]},
               revisionsTold' = [revisionsTold EXCEPT ![w] = writing[w].next]
        PROVE  RevisionsInv'
    <3>1. PICK new : new = [version |-> writing[w].next, snapshot |-> writing[w].snapshot,
                            base |-> writing[w].base]
      OBVIOUS
    <3>2. writing[w].next = n + 1
      BY <1>0, <2>1, <2>5 DEF RevisionsInv
    <3>3. /\ new \in Revision /\ new.version = n + 1 /\ new.base = writing[w].base
          /\ revisions' = revisions \union {new}
      BY <2>1, <2>5, <3>1, <3>2 DEF Revision
    <3>4. /\ \A r \in revisions : r.version \in 1 .. n
          /\ new \notin revisions
      <4>1. \A r \in revisions : r.version \in 1 .. n
        BY <1>0 DEF RevisionsInv, RecordKeeping!Versions
      <4>. QED
        BY <3>3, <4>1
    <3>5. IsFiniteSet(revisions') /\ Cardinality(revisions') = n + 1
      <4>1. IsFiniteSet(revisions) /\ Cardinality(revisions) = n
        BY <1>0 DEF RevisionsInv
      <4>2. /\ IsFiniteSet(revisions \union {new})
            /\ Cardinality(revisions \union {new}) = Cardinality(revisions) + 1
        BY <3>4, <4>1, FS_AddElement
      <4>. QED
        BY <3>3, <4>1, <4>2
    <3>6. RecordKeeping!Versions' = 1 .. n + 1
      <4>1. RecordKeeping!Versions = 1 .. n
        BY <1>0 DEF RevisionsInv
      <4>2. RecordKeeping!Versions' = RecordKeeping!Versions \union {n + 1}
        BY <3>3 DEF RecordKeeping!Versions
      <4>. QED
        BY <4>1, <4>2
    <3>7. \A r, p \in revisions' : r.version = p.version => r = p
      BY <3>3, <3>4 DEF RevisionsInv
    <3>8. \A r, p \in revisions' : p.version + 1 = r.version => r.base = p.snapshot
      <4>1. \A r, p \in revisions : p.version + 1 = r.version => r.base = p.snapshot
        BY DEF RevisionsInv
      <4>2. \A p \in revisions : p.version + 1 = new.version => new.base = p.snapshot
        BY <2>1, <3>2, <3>3
      <4>3. \A r \in revisions : new.version + 1 # r.version
        BY <3>3, <3>4
      <4>4. new.version + 1 # new.version
        BY <3>3
      <4>. QED
        BY <3>3, <4>1, <4>2, <4>3, <4>4
    <3>9. n + 1 <= MaxRevisions /\ revisions' \subseteq Revision
      BY <2>1, <3>2, <3>3 DEF RevisionsInv
    <3>10. revisionsTold' \in [Writers -> 0 .. MaxRevisions]
      BY <1>00, <2>1, <2>5 DEF RevisionsInv
    <3>11. ASSUME NEW v \in Writers, writing'[v].stage # "idle"
           PROVE  /\ writing'[v].next \in 1 .. (n + 1) + 1
                  /\ writing'[v].next <= MaxRevisions
                  /\ writing'[v].snapshot \in Snapshots
                  /\ writing'[v].stage = "insert" =>
                       \A r \in revisions' : r.version + 1 = writing'[v].next =>
                         writing'[v].base = r.snapshot
      <4>1. /\ writing'[v] = writing[v] /\ writing[v].stage # "idle"
            /\ writing[v].next \in 1 .. n + 1
        BY <1>0, <2>2, <3>11 DEF RevisionsInv
      <4>2. new.version + 1 # writing[v].next
        BY <3>3, <4>1
      <4>3. /\ writing[v].next <= MaxRevisions /\ writing[v].snapshot \in Snapshots
            /\ writing[v].stage = "insert" =>
                 \A r \in revisions : r.version + 1 = writing[v].next =>
                   writing[v].base = r.snapshot
        BY <4>1 DEF RevisionsInv
      <4>. QED
        BY <3>3, <4>1, <4>2, <4>3
    <3>. QED
      BY <2>3, <3>5, <3>6, <3>7, <3>8, <3>9, <3>10, <3>11 DEF RevisionsInv
  <2>. QED
    BY <1>3, <2>4, <2>5 DEF RecordKeeping!Insert
<1>4. CASE UNCHANGED revisionsVars
  BY <1>4 DEF revisionsVars, RevisionsInv, RecordKeeping!Versions
<1>5. \A r \in revisions : r.snapshot \in Snapshots
  BY DEF RevisionsInv, Revision
<1>. QED
  BY <1>1, <1>2, <1>3, <1>4, <1>5
     DEF RecordKeeping!RevisionsNext, RecordKeeping!CreateRevision,
         RecordKeeping!RevertToVersion

\* RevisionsInv holds in every reachable state.
LEMMA RevisionsHold == Spec => []RevisionsInv
<1>1. Init => RevisionsInv
  <2>. SUFFICES ASSUME Init PROVE RevisionsInv
    OBVIOUS
  <2>. USE DEF Init, RecordKeeping!RevisionsInit
  <2>1. revisions = {} /\ MaxRevisions \in Nat
    BY ConstantsOfWrites
  <2>2. IsFiniteSet(revisions) /\ Cardinality(revisions) = 0
    BY <2>1, FS_EmptySet
  <2>3. RecordKeeping!Versions = 1 .. 0
    BY <2>1 DEF RecordKeeping!Versions
  <2>. QED
    BY <2>1, <2>2, <2>3 DEF RevisionsInv, RecordKeeping!Idle
<1>. QED
  BY <1>1, RevisionsStep, StepOfParts, PTL DEF Spec

\* What the runs check of it follows from RevisionsInv.
LEMMA HistoriesAreLines == RevisionsInv => RecordKeeping!HistoryIsALine
BY CardinalityOfRecords DEF RevisionsInv, RecordKeeping!HistoryIsALine

(****************************************************************************)
(* A canvas.                                                                *)
(****************************************************************************)
\* Each edit is written once; what a patch has read is what is there as long as
\* nothing else wrote.
PatchCalls == [edit : 0 .. MaxEdits, of : CanvasPages!Contents,
               read : [CanvasPages!Contents -> SUBSET CanvasPages!Edits]]

CanvasTyped ==
  /\ canvas \in {"none", "kept", "deleted"}
  /\ contents \in [CanvasPages!Contents -> SUBSET CanvasPages!Edits]
  /\ done \subseteq CanvasPages!Contents \X CanvasPages!Edits
  /\ tainted \in BOOLEAN /\ publishing \in BOOLEAN
  /\ address \in 0 .. MaxEdits /\ addresses \in 0 .. MaxEdits
  /\ patching \in [Patches -> PatchCalls]

EditsAreMadeOnce ==
  /\ \A d, e \in done : d[2] = e[2] => d = e
  /\ \A p, q \in Patches : patching[p].edit # 0 =>
       /\ \A d \in done : d[2] # patching[p].edit
       /\ p # q => patching[q].edit # patching[p].edit

CanvasInv ==
  /\ CanvasTyped /\ EditsAreMadeOnce /\ IsFiniteSet(done)
  /\ canvas = "none" =>
       version = 0 /\ done = {} /\ \A p \in Patches : patching[p].edit = 0
  /\ canvas # "none" => version = 1 + Cardinality(done)
  /\ ~tainted =>
       /\ \A d \in done : d[2] \in contents[d[1]]
       /\ \A p \in Patches : patching[p].edit # 0 => patching[p].read = contents
  /\ canvas = "deleted" => address = 0

\* The number of elements is the one the library counts.
LEMMA CardinalityOfCanvases ==
  ASSUME NEW S PROVE CanvasPages!Cardinality(S) = Cardinality(S)
BY DEF CanvasPages!Cardinality, Cardinality

\* A write of an edit that was not made before is one version more.
LEMMA WriteKeepsCanvas ==
  ASSUME CanvasInv, CanvasTyped', canvas = "kept",
         UNCHANGED <<canvas, address, addresses, publishing>>,
         NEW c \in CanvasPages!Contents, NEW e \in CanvasPages!Edits,
         \A d \in done : d[2] # e,
         version' = version + 1, done' = done \union {<<c, e>>},
         \A p \in Patches : patching'[p].edit # 0 =>
           patching'[p] = patching[p] /\ patching[p].edit # e,
         ~tainted' =>
           /\ ~tainted /\ \A p \in Patches : patching'[p].edit = 0
           /\ contents' = [contents EXCEPT ![c] = contents[c] \union {e}]
  PROVE  CanvasInv'
<1>1. /\ <<c, e>> \notin done /\ IsFiniteSet(done) /\ version = 1 + Cardinality(done)
  BY DEF CanvasInv
<1>2. /\ IsFiniteSet(done') /\ Cardinality(done') = Cardinality(done) + 1
      /\ Cardinality(done) \in Nat
  BY <1>1, FS_AddElement, FS_CardinalityType
<1>3. version' = 1 + Cardinality(done')
  BY <1>1, <1>2
<1>4. EditsAreMadeOnce'
  BY DEF CanvasInv, EditsAreMadeOnce
<1>5. ASSUME ~tainted' PROVE \A d \in done' : d[2] \in contents'[d[1]]
  BY <1>5 DEF CanvasInv, CanvasTyped
<1>. QED
  BY <1>2, <1>3, <1>4, <1>5 DEF CanvasInv

\* A step of this part, or of another, keeps CanvasInv.
LEMMA CanvasStep ==
  ASSUME CanvasInv, [CanvasPages!CanvasesNext]_canvasVars PROVE CanvasInv'
<1>0. MaxEdits \in Nat
  BY ConstantsOfWrites
<1>1. CASE CanvasPages!CreateCanvas
  <2>1. /\ canvas = "none" /\ canvas' = "kept" /\ version' = 1 /\ done = {}
        /\ UNCHANGED <<contents, done, patching, tainted, address, addresses, publishing>>
    BY <1>1 DEF CanvasPages!CreateCanvas, CanvasPages!public, CanvasInv
  <2>2. version' = 1 + Cardinality(done')
    BY <2>1, FS_EmptySet
  <2>. QED
    BY <2>1, <2>2 DEF CanvasInv, CanvasTyped, EditsAreMadeOnce
<1>2. ASSUME NEW c \in CanvasPages!Contents, NEW e \in CanvasPages!Edits,
             CanvasPages!UpdateCanvas(c, e)
      PROVE  CanvasInv'
  <2>1. /\ canvas = "kept" /\ CanvasPages!Fresh(e)
        /\ contents' = [contents EXCEPT ![c] = contents[c] \union {e}]
        /\ version' = version + 1 /\ done' = done \union {<<c, e>>}
        /\ UNCHANGED <<canvas, patching, address, addresses, publishing>>
    BY <1>2 DEF CanvasPages!UpdateCanvas, CanvasPages!public, CanvasInv, CanvasTyped
  <2>2. tainted' \in BOOLEAN
    BY <1>2, Zenon DEF CanvasPages!UpdateCanvas
  <2>3. ~tainted' => ~tainted /\ \A p \in Patches : patching[p].edit = 0
    BY <1>2, Zenon DEF CanvasPages!UpdateCanvas, CanvasPages!Busy
  <2>4. /\ \A d \in done : d[2] # e
        /\ \A p \in Patches : patching[p].edit # e
    BY <2>1 DEF CanvasPages!Fresh, CanvasPages!InUse
  <2>5. CanvasTyped'
    BY <2>1, <2>2 DEF CanvasInv, CanvasTyped
  <2>. QED
    BY <2>1, <2>3, <2>4, <2>5, WriteKeepsCanvas
<1>3. ASSUME NEW p \in Patches, NEW c \in CanvasPages!Contents,
             NEW e \in CanvasPages!Edits, CanvasPages!PatchRead(p, c, e)
      PROVE  CanvasInv'
  <2>1. /\ canvas = "kept" /\ patching[p].edit = 0 /\ CanvasPages!Fresh(e)
        /\ patching' = [patching EXCEPT ![p] = [edit |-> e, of |-> c, read |-> contents]]
        /\ UNCHANGED <<canvas, contents, version, done, tainted, address, addresses,
                       publishing>>
    BY <1>3 DEF CanvasPages!PatchRead, CanvasPages!public
  <2>2. /\ e \in 0 .. MaxEdits /\ \A d \in done : d[2] # e
        /\ \A q \in Patches : patching[q].edit # e
    BY <1>0, <2>1 DEF CanvasPages!Fresh, CanvasPages!InUse, CanvasPages!Edits
  <2>3. CanvasTyped'
    <3>1. [edit |-> e, of |-> c, read |-> contents] \in PatchCalls
      BY <2>2 DEF PatchCalls, CanvasInv, CanvasTyped
    <3>. QED
      BY <2>1, <3>1 DEF CanvasInv, CanvasTyped
  <2>4. /\ patching'[p].edit = e /\ patching'[p].read = contents
        /\ \A q \in Patches : q # p => patching'[q] = patching[q]
    BY <2>1 DEF CanvasInv, CanvasTyped
  <2>5. EditsAreMadeOnce'
    BY <2>1, <2>2, <2>4 DEF CanvasInv, EditsAreMadeOnce
  <2>. QED
    BY <2>1, <2>3, <2>4, <2>5 DEF CanvasInv
<1>4. ASSUME NEW p \in Patches, CanvasPages!PatchWrite(p)
      PROVE  CanvasInv'
  <2>1. /\ patching[p].edit # 0 /\ patching[p] \in PatchCalls
        /\ patching' = [patching EXCEPT ![p] = CanvasPages!NoPatch]
        /\ UNCHANGED <<canvas, address, addresses, publishing>>
    BY <1>4 DEF CanvasPages!PatchWrite, CanvasPages!public, CanvasInv, CanvasTyped
  <2>2. /\ CanvasPages!NoPatch \in PatchCalls /\ CanvasPages!NoPatch.edit = 0
        /\ patching[p].edit \in CanvasPages!Edits /\ patching[p].of \in CanvasPages!Contents
    BY <1>0, <2>1 DEF CanvasPages!NoPatch, PatchCalls, CanvasPages!Contents, CanvasPages!Edits
  <2>3. /\ patching'[p].edit = 0 /\ patching' \in [Patches -> PatchCalls]
        /\ \A q \in Patches : q # p => patching'[q] = patching[q]
    BY <2>1, <2>2 DEF CanvasInv, CanvasTyped
  <2>4. CASE canvas # "kept"
    <3>1. UNCHANGED <<contents, version, done, tainted>>
      BY <1>4, <2>4 DEF CanvasPages!PatchWrite
    <3>2. CanvasTyped'
      BY <2>1, <2>3, <3>1 DEF CanvasInv, CanvasTyped
    <3>3. EditsAreMadeOnce'
      BY <2>3, <3>1 DEF CanvasInv, EditsAreMadeOnce
    <3>. QED
      BY <2>1, <2>3, <3>1, <3>2, <3>3 DEF CanvasInv
  <2>5. CASE canvas = "kept"
    <3>1. /\ contents' = CanvasPages!Edited(p) /\ version' = version + 1
          /\ done' = done \union {<<patching[p].of, patching[p].edit>>}
      BY <1>4, <2>5 DEF CanvasPages!PatchWrite
    <3>2. tainted' \in BOOLEAN
      BY <1>4, <2>5, Zenon DEF CanvasPages!PatchWrite
    <3>3. ~tainted' => ~tainted /\ \A q \in Patches : q # p => patching[q].edit = 0
      BY <1>4, <2>5, Zenon DEF CanvasPages!PatchWrite
    <3>4. /\ \A d \in done : d[2] # patching[p].edit
          /\ \A q \in Patches : q # p => patching[q].edit # patching[p].edit
      BY <2>1 DEF CanvasInv, EditsAreMadeOnce
    <3>5. CanvasTyped'
      <4>1. contents' \in [CanvasPages!Contents -> SUBSET CanvasPages!Edits]
        BY <2>1, <2>2, <3>1 DEF CanvasPages!Edited, PatchCalls
      <4>. QED
        BY <2>1, <2>2, <2>3, <3>1, <3>2, <4>1 DEF CanvasInv, CanvasTyped
    <3>6. ~tainted' =>
            /\ ~tainted /\ \A q \in Patches : patching'[q].edit = 0
            /\ contents' = [contents EXCEPT ![patching[p].of] =
                              contents[patching[p].of] \union {patching[p].edit}]
      BY <2>1, <2>2, <2>3, <3>1, <3>3 DEF CanvasPages!Edited, CanvasInv, CanvasTyped
    <3>. QED
      BY <2>1, <2>2, <2>3, <2>5, <3>1, <3>4, <3>5, <3>6, WriteKeepsCanvas
  <2>. QED
    BY <2>4, <2>5
<1>5. CASE CanvasPages!PublishRead
  BY <1>5 DEF CanvasPages!PublishRead, CanvasInv, CanvasTyped, EditsAreMadeOnce
<1>6. CASE CanvasPages!PublishWrite
  <2>1. /\ addresses' \in 0 .. MaxEdits /\ address' \in 0 .. MaxEdits
        /\ canvas = "deleted" => address' = 0
    BY <1>0, <1>6 DEF CanvasPages!PublishWrite, CanvasInv, CanvasTyped
  <2>2. /\ publishing' \in BOOLEAN
        /\ UNCHANGED <<canvas, contents, version, done, patching, tainted>>
    BY <1>6, Zenon DEF CanvasPages!PublishWrite
  <2>. QED
    BY <2>1, <2>2 DEF CanvasInv, CanvasTyped, EditsAreMadeOnce
<1>7. CASE CanvasPages!UnpublishCanvas
  BY <1>0, <1>7 DEF CanvasPages!UnpublishCanvas, CanvasInv, CanvasTyped, EditsAreMadeOnce
<1>8. CASE CanvasPages!DeleteCanvas
  BY <1>0, <1>8 DEF CanvasPages!DeleteCanvas, CanvasInv, CanvasTyped, EditsAreMadeOnce
<1>9. CASE UNCHANGED canvasVars
  BY <1>9 DEF canvasVars, CanvasInv, CanvasTyped, EditsAreMadeOnce
<1>. QED
  BY <1>1, <1>2, <1>3, <1>4, <1>5, <1>6, <1>7, <1>8, <1>9 DEF CanvasPages!CanvasesNext

\* CanvasInv holds in every reachable state.
LEMMA CanvasHolds == Spec => []CanvasInv
<1>1. Init => CanvasInv
  <2>. SUFFICES ASSUME Init PROVE CanvasInv
    OBVIOUS
  <2>. USE DEF Init, CanvasPages!CanvasesInit
  <2>1. tainted \in BOOLEAN /\ publishing \in BOOLEAN
    BY Zenon
  <2>2. CanvasPages!NoPatch \in PatchCalls /\ CanvasPages!NoPatch.edit = 0 /\ MaxEdits \in Nat
    BY ConstantsOfWrites DEF CanvasPages!NoPatch, PatchCalls, CanvasPages!Contents
  <2>3. CanvasTyped /\ EditsAreMadeOnce
    BY <2>1, <2>2 DEF CanvasTyped, EditsAreMadeOnce
  <2>4. IsFiniteSet(done)
    BY FS_EmptySet
  <2>. QED
    BY <2>2, <2>3, <2>4 DEF CanvasInv
<1>. QED
  BY <1>1, CanvasStep, StepOfParts, PTL DEF Spec

\* What the runs check of it follows from CanvasInv.
LEMMA CanvasesKeepEdits ==
  CanvasInv => /\ CanvasPages!EditsSurvive /\ CanvasPages!VersionsCountWrites
               /\ CanvasPages!DeletedIsPrivate
BY CardinalityOfCanvases
   DEF CanvasInv, CanvasPages!EditsSurvive, CanvasPages!VersionsCountWrites,
       CanvasPages!DeletedIsPrivate

(****************************************************************************)
(* A collection and its records.                                            *)
(****************************************************************************)
FieldsOf == [Fields -> RecordKeeping!FieldRules]
DataOf == [Fields -> RecordKeeping!Values]
RowsOf == [id : Nat, edition : Nat, data : DataOf, updated : BOOLEAN]
DataCallsOf == [step : {"none", "insert", "update", "delete"},
                record : {{}} \union {{r} : r \in RecordIds}, id : Nat,
                edition : Nat, data : DataOf]

SchemaTyped ==
  /\ collection \in [id : Nat, edition : Nat, fields : FieldsOf]
  /\ defines \in 0 .. MaxDefines
  /\ rows \in [RecordIds -> RowsOf] /\ written \in [RecordIds -> DataOf]
  /\ unused \subseteq RecordIds
  /\ dataCalls \in [DataCalls -> DataCallsOf]
  /\ farewells \in [RecordIds -> {0, 1}]

\* What the fields of the collection accept.
Fits(content) ==
  /\ RecordKeeping!Valid(collection.fields, content)
  /\ \A f \in Fields : collection.fields[f] = "defaulted" => content[f] # "nothing"

\* A row is of the collection that stands, and fits it if it was made under its
\* fields and not written since.
RowIsGood(r) ==
  rows[r].id # 0 =>
    /\ rows[r].id = collection.id /\ rows[r].edition <= defines
    /\ rows[r].edition = collection.edition /\ ~rows[r].updated => Fits(rows[r].data)
    /\ rows[r].data = written[r]
    /\ farewells[r] = 0 /\ r \notin unused

CallIsGood(c) ==
  dataCalls[c].step = "insert" =>
    /\ dataCalls[c].id # 0 /\ dataCalls[c].edition \in 1 .. defines
    /\ dataCalls[c].edition = collection.edition => Fits(dataCalls[c].data)

\* A record is inserted by one call, and it is the first time.
Inserts(c, r) == dataCalls[c].step = "insert" /\ r \in dataCalls[c].record

InsertedOnce ==
  /\ \A c \in DataCalls, r \in RecordIds : Inserts(c, r) =>
       /\ rows[r].id = 0 /\ farewells[r] = 0 /\ r \notin unused
       /\ \A d \in DataCalls : Inserts(d, r) => c = d
  /\ \A r \in unused : farewells[r] = 0

SchemaInv ==
  /\ SchemaTyped /\ InsertedOnce
  /\ collection.id <= defines /\ collection.edition <= defines
  /\ collection.id # 0 => collection.edition # 0
  /\ \A r \in RecordIds : RowIsGood(r)
  /\ \A c \in DataCalls : CallIsGood(c)

\* The blank values have the types of what they stand for.
LEMMA BlankRecords ==
  /\ RecordKeeping!Blank \in DataOf /\ RecordKeeping!NoRecord \in RowsOf
  /\ RecordKeeping!NoRecord.id = 0
  /\ RecordKeeping!NoCall \in DataCallsOf /\ RecordKeeping!NoCall.step = "none"
  /\ RecordKeeping!NoCollection \in [id : Nat, edition : Nat, fields : FieldsOf]
  /\ RecordKeeping!NoCollection.id = 0 /\ RecordKeeping!NoCollection.edition = 0
<1>1. RecordKeeping!Blank \in DataOf
  BY DEF RecordKeeping!Blank, DataOf, RecordKeeping!Values
<1>2. RecordKeeping!NoRecord \in RowsOf
  BY <1>1, Zenon DEF RecordKeeping!NoRecord, RowsOf
<1>. QED
  BY <1>1, <1>2
     DEF RecordKeeping!NoRecord, RecordKeeping!NoCall, DataCallsOf,
         RecordKeeping!NoCollection, FieldsOf, RecordKeeping!FieldRules

\* A caller that is done, or about to write a row that is there.
LEMMA CallStep ==
  ASSUME SchemaInv, NEW c \in DataCalls, NEW call_ \in DataCallsOf,
         dataCalls' = [dataCalls EXCEPT ![c] = call_], call_.step # "insert"
  PROVE  /\ dataCalls' \in [DataCalls -> DataCallsOf]
         /\ dataCalls'[c] = call_
         /\ \A d \in DataCalls : d # c => dataCalls'[d] = dataCalls[d]
         /\ \A d \in DataCalls, r \in RecordIds : Inserts(d, r)' => d # c /\ Inserts(d, r)
BY DEF SchemaInv, SchemaTyped, Inserts

\* A step of this part, or of another, keeps SchemaInv.
LEMMA SchemaStep ==
  ASSUME SchemaInv, [RecordKeeping!SchemaRecordsNext]_schemaVars PROVE SchemaInv'
<1>0. MaxDefines \in Nat /\ defines \in Nat
  BY ConstantsOfWrites DEF SchemaInv, SchemaTyped
<1>1. ASSUME NEW fs \in [Fields -> RecordKeeping!FieldRules],
             RecordKeeping!DefineCollection(fs)
      PROVE  SchemaInv'
  <2>1. /\ defines < MaxDefines /\ defines' = defines + 1
        /\ collection' = [id |-> IF collection.id = 0 THEN defines + 1 ELSE collection.id,
                          edition |-> defines + 1, fields |-> fs]
        /\ UNCHANGED <<rows, written, unused, dataCalls, farewells>>
    BY <1>1 DEF RecordKeeping!DefineCollection
  <2>2. /\ collection.id \in Nat /\ collection.edition \in Nat
        /\ collection.id <= defines /\ collection.edition <= defines
    BY DEF SchemaInv, SchemaTyped
  <2>3. /\ collection' \in [id : Nat, edition : Nat, fields : FieldsOf]
        /\ collection'.id <= defines' /\ collection'.edition = defines + 1
        /\ collection.id # 0 => collection'.id = collection.id
        /\ defines' \in 0 .. MaxDefines
    BY <1>0, <2>1, <2>2 DEF FieldsOf
  <2>4. ASSUME NEW r \in RecordIds PROVE RowIsGood(r)'
    <3>1. rows[r] \in RowsOf
      BY DEF SchemaInv, SchemaTyped
    <3>2. rows[r].id \in Nat /\ rows[r].edition \in Nat
      BY <3>1 DEF RowsOf
    <3>3. rows[r].id # 0 =>
            /\ rows[r].id = collection.id /\ rows[r].edition <= defines
            /\ rows[r].data = written[r] /\ farewells[r] = 0 /\ r \notin unused
      BY DEF SchemaInv, RowIsGood
    <3>4. rows[r].id # 0 => rows[r].edition <= defines + 1 /\ rows[r].edition # defines + 1
      BY <1>0, <3>2, <3>3
    <3>. QED
      BY <2>1, <2>3, <3>3, <3>4 DEF RowIsGood
  <2>5. ASSUME NEW c \in DataCalls PROVE CallIsGood(c)'
    <3>1. dataCalls[c].step = "insert" => dataCalls[c].id # 0 /\ dataCalls[c].edition \in 1 .. defines
      BY DEF SchemaInv, CallIsGood
    <3>2. dataCalls[c].step = "insert" =>
            dataCalls[c].edition \in 1 .. defines + 1 /\ dataCalls[c].edition # defines + 1
      BY <1>0, <3>1
    <3>. QED
      BY <2>1, <2>3, <3>1, <3>2 DEF CallIsGood
  <2>6. SchemaTyped' /\ InsertedOnce'
    BY <2>1, <2>3 DEF SchemaInv, SchemaTyped, InsertedOnce, Inserts
  <2>. QED
    BY <1>0, <2>1, <2>3, <2>4, <2>5, <2>6 DEF SchemaInv
<1>2. CASE RecordKeeping!DeleteCollection
  <2>1. /\ collection' = RecordKeeping!NoCollection
        /\ rows' = [r \in RecordIds |-> RecordKeeping!NoRecord]
        /\ UNCHANGED <<defines, written, unused, dataCalls, farewells>>
    BY <1>2 DEF RecordKeeping!DeleteCollection
  <2>2. \A r \in RecordIds : rows'[r].id = 0
    BY <2>1, BlankRecords
  <2>3. SchemaTyped'
    BY <2>1, BlankRecords DEF SchemaInv, SchemaTyped
  <2>4. InsertedOnce' /\ \A r \in RecordIds : RowIsGood(r)'
    BY <2>1, <2>2 DEF SchemaInv, InsertedOnce, Inserts, RowIsGood
  <2>5. ASSUME NEW c \in DataCalls PROVE CallIsGood(c)'
    <3>1. dataCalls[c].step = "insert" =>
            /\ dataCalls[c].id # 0 /\ dataCalls[c].edition \in 1 .. defines
            /\ dataCalls[c].edition # 0
      BY <1>0 DEF SchemaInv, CallIsGood
    <3>. QED
      BY <2>1, <3>1, BlankRecords DEF CallIsGood
  <2>. QED
    BY <1>0, <2>1, <2>3, <2>4, <2>5, BlankRecords DEF SchemaInv
<1>3. ASSUME NEW c \in DataCalls, NEW r \in RecordIds, NEW d \in [Fields -> RecordKeeping!Values],
             RecordKeeping!CreateRecord(c, r, d)
      PROVE  SchemaInv'
  <2>. DEFINE content == RecordKeeping!WithDefaults(collection.fields, d)
              call_ == [step |-> "insert", record |-> {r}, id |-> collection.id,
                        edition |-> collection.edition, data |-> content]
  <2>1. /\ dataCalls[c].step = "none" /\ collection.id # 0 /\ r \in unused
        /\ RecordKeeping!Valid(collection.fields, content)
        /\ dataCalls' = [dataCalls EXCEPT ![c] = call_]
        /\ unused' = unused \ {r}
        /\ UNCHANGED <<collection, defines, rows, written, farewells>>
    BY <1>3 DEF RecordKeeping!CreateRecord, RecordKeeping!Call
  <2>2. content \in DataOf
    BY DEF RecordKeeping!WithDefaults, DataOf, RecordKeeping!Values
  <2>3. Fits(content)
    <3>1. \A f \in Fields : collection.fields[f] = "defaulted" => content[f] # "nothing"
      BY DEF RecordKeeping!WithDefaults
    <3>. QED
      BY <2>1, <3>1 DEF Fits
  <2>4. call_ \in DataCallsOf
    BY <2>2 DEF DataCallsOf, SchemaInv, SchemaTyped
  <2>5. /\ dataCalls'[c] = call_ /\ dataCalls' \in [DataCalls -> DataCallsOf]
        /\ \A e \in DataCalls : e # c => dataCalls'[e] = dataCalls[e]
    BY <2>1, <2>4 DEF SchemaInv, SchemaTyped
  <2>6. collection.edition \in 1 .. defines
    BY <1>0, <2>1 DEF SchemaInv, SchemaTyped
  <2>7. rows[r].id = 0 /\ farewells[r] = 0 /\ \A e \in DataCalls : ~Inserts(e, r)
    BY <2>1 DEF SchemaInv, RowIsGood, InsertedOnce
  <2>. HIDE DEF content
  <2>8. SchemaTyped'
    BY <2>1, <2>5 DEF SchemaInv, SchemaTyped
  <2>9. InsertedOnce'
    <3>1. Inserts(c, r)' /\ \A q \in RecordIds : Inserts(c, q)' => q = r
      BY <2>5 DEF Inserts
    <3>2. \A e \in DataCalls, q \in RecordIds : e # c => (Inserts(e, q)' <=> Inserts(e, q))
      BY <2>5 DEF Inserts
    <3>. QED
      BY <2>1, <2>7, <3>1, <3>2 DEF SchemaInv, InsertedOnce
  <2>10. \A q \in RecordIds : RowIsGood(q)'
    BY <2>1 DEF SchemaInv, RowIsGood, Fits
  <2>11. \A e \in DataCalls : CallIsGood(e)'
    BY <2>1, <2>3, <2>5, <2>6 DEF SchemaInv, CallIsGood, Fits
  <2>. QED
    BY <2>1, <2>8, <2>9, <2>10, <2>11 DEF SchemaInv
<1>4. ASSUME NEW c \in DataCalls, RecordKeeping!InsertRecord(c)
      PROVE  SchemaInv'
  <2>1. /\ dataCalls[c].step = "insert"
        /\ dataCalls' = [dataCalls EXCEPT ![c] = RecordKeeping!NoCall]
        /\ UNCHANGED <<collection, defines, unused, farewells>>
    BY <1>4 DEF RecordKeeping!InsertRecord
  <2>2. /\ dataCalls' \in [DataCalls -> DataCallsOf] /\ dataCalls'[c].step = "none"
        /\ \A e \in DataCalls : e # c => dataCalls'[e] = dataCalls[e]
        /\ \A e \in DataCalls, q \in RecordIds : Inserts(e, q)' => e # c /\ Inserts(e, q)
    BY <2>1, BlankRecords, CallStep
  <2>3. \A e \in DataCalls : CallIsGood(e)'
    BY <2>1, <2>2 DEF SchemaInv, CallIsGood, Fits
  <2>4. CASE UNCHANGED <<rows, written>>
    <3>1. SchemaTyped' /\ InsertedOnce'
      BY <2>1, <2>2, <2>4 DEF SchemaInv, SchemaTyped, InsertedOnce
    <3>2. \A q \in RecordIds : RowIsGood(q)'
      BY <2>1, <2>4 DEF SchemaInv, RowIsGood, Fits
    <3>. QED
      BY <2>1, <2>3, <3>1, <3>2 DEF SchemaInv
  <2>5. ASSUME collection.id = dataCalls[c].id, NEW r \in dataCalls[c].record,
               rows' = [rows EXCEPT ![r] =
                 [id |-> dataCalls[c].id, edition |-> dataCalls[c].edition,
                  data |-> dataCalls[c].data, updated |-> FALSE]],
               written' = [written EXCEPT ![r] = dataCalls[c].data]
        PROVE  SchemaInv'
    <3>1. /\ dataCalls[c] \in DataCallsOf /\ r \in RecordIds
          /\ dataCalls[c].id \in Nat /\ dataCalls[c].edition \in Nat
          /\ dataCalls[c].data \in DataOf
      BY DEF SchemaInv, SchemaTyped, DataCallsOf
    <3>2. [id |-> dataCalls[c].id, edition |-> dataCalls[c].edition,
           data |-> dataCalls[c].data, updated |-> FALSE] \in RowsOf
      BY <3>1, Zenon DEF RowsOf
    <3>3. SchemaTyped'
      BY <2>1, <2>2, <2>5, <3>1, <3>2 DEF SchemaInv, SchemaTyped
    <3>4. /\ rows'[r].id = dataCalls[c].id /\ rows'[r].edition = dataCalls[c].edition
          /\ rows'[r].data = dataCalls[c].data /\ written'[r] = dataCalls[c].data
          /\ \A q \in RecordIds : q # r => rows'[q] = rows[q] /\ written'[q] = written[q]
      BY <2>5, <3>1 DEF SchemaInv, SchemaTyped
    <3>5. /\ Inserts(c, r) /\ farewells[r] = 0 /\ r \notin unused
          /\ \A e \in DataCalls : Inserts(e, r) => e = c
      BY <2>1, <3>1 DEF SchemaInv, InsertedOnce, Inserts
    <3>6. InsertedOnce'
      BY <2>1, <2>2, <3>4, <3>5 DEF SchemaInv, InsertedOnce
    <3>7. ASSUME NEW q \in RecordIds PROVE RowIsGood(q)'
      <4>1. CASE q = r
        <5>1. /\ dataCalls[c].edition \in 1 .. defines
              /\ dataCalls[c].edition = collection.edition => Fits(dataCalls[c].data)
          BY <2>1 DEF SchemaInv, CallIsGood
        <5>2. dataCalls[c].edition <= defines
          BY <1>0, <5>1
        <5>. QED
          BY <2>1, <2>5, <3>4, <3>5, <4>1, <5>1, <5>2 DEF RowIsGood, Fits
      <4>2. CASE q # r
        BY <2>1, <3>4, <4>2 DEF SchemaInv, RowIsGood, Fits
      <4>. QED
        BY <4>1, <4>2
    <3>. QED
      BY <2>1, <2>3, <3>3, <3>6, <3>7 DEF SchemaInv
  <2>. QED
    BY <1>4, <2>4, <2>5 DEF RecordKeeping!InsertRecord
<1>5. ASSUME NEW c \in DataCalls, NEW r \in RecordIds, NEW d \in [Fields -> RecordKeeping!Values],
             RecordKeeping!UpdateRecord(c, r, d) \/ RecordKeeping!DeleteRecord(c, r)
      PROVE  SchemaInv'
  <2>1. /\ \E e \in DataOf, s \in {"update", "delete"} :
             dataCalls' = [dataCalls EXCEPT ![c] =
               [step |-> s, record |-> {r}, id |-> rows[r].id,
                edition |-> rows[r].edition, data |-> e]]
        /\ UNCHANGED <<collection, defines, rows, written, unused, farewells>>
    <3>1. d \in DataOf /\ rows[r].data \in DataOf
      BY DEF DataOf, SchemaInv, SchemaTyped, RowsOf
    <3>. QED
      BY <1>5, <3>1
         DEF RecordKeeping!UpdateRecord, RecordKeeping!DeleteRecord, RecordKeeping!Call
  <2>2. PICK call_ \in DataCallsOf :
          dataCalls' = [dataCalls EXCEPT ![c] = call_] /\ call_.step # "insert"
    <3>1. PICK e \in DataOf, s \in {"update", "delete"} :
             dataCalls' = [dataCalls EXCEPT ![c] =
               [step |-> s, record |-> {r}, id |-> rows[r].id,
                edition |-> rows[r].edition, data |-> e]]
      BY <2>1
    <3>2. rows[r].id \in Nat /\ rows[r].edition \in Nat
      BY DEF SchemaInv, SchemaTyped, RowsOf
    <3>3. [step |-> s, record |-> {r}, id |-> rows[r].id,
           edition |-> rows[r].edition, data |-> e] \in DataCallsOf
      BY <3>2 DEF DataCallsOf
    <3>. QED
      BY <3>1, <3>3
  <2>3. /\ dataCalls' \in [DataCalls -> DataCallsOf] /\ dataCalls'[c].step # "insert"
        /\ \A e \in DataCalls : e # c => dataCalls'[e] = dataCalls[e]
        /\ \A e \in DataCalls, q \in RecordIds : Inserts(e, q)' => e # c /\ Inserts(e, q)
    BY <2>2, CallStep
  <2>4. \A e \in DataCalls : CallIsGood(e)'
    BY <2>1, <2>3 DEF SchemaInv, CallIsGood, Fits
  <2>5. SchemaTyped' /\ InsertedOnce'
    BY <2>1, <2>3 DEF SchemaInv, SchemaTyped, InsertedOnce
  <2>6. \A q \in RecordIds : RowIsGood(q)'
    BY <2>1 DEF SchemaInv, RowIsGood, Fits
  <2>. QED
    BY <2>1, <2>4, <2>5, <2>6 DEF SchemaInv
<1>6. ASSUME NEW c \in DataCalls, RecordKeeping!MergeRecord(c)
      PROVE  SchemaInv'
  <2>1. /\ dataCalls' = [dataCalls EXCEPT ![c] = RecordKeeping!NoCall]
        /\ UNCHANGED <<collection, defines, unused, farewells>>
    BY <1>6 DEF RecordKeeping!MergeRecord
  <2>2. /\ dataCalls' \in [DataCalls -> DataCallsOf] /\ dataCalls'[c].step = "none"
        /\ \A e \in DataCalls : e # c => dataCalls'[e] = dataCalls[e]
        /\ \A e \in DataCalls, q \in RecordIds : Inserts(e, q)' => e # c /\ Inserts(e, q)
    BY <2>1, BlankRecords, CallStep
  <2>3. \A e \in DataCalls : CallIsGood(e)'
    BY <2>1, <2>2 DEF SchemaInv, CallIsGood, Fits
  <2>4. CASE UNCHANGED <<rows, written>>
    <3>1. SchemaTyped' /\ InsertedOnce'
      BY <2>1, <2>2, <2>4 DEF SchemaInv, SchemaTyped, InsertedOnce
    <3>2. \A q \in RecordIds : RowIsGood(q)'
      BY <2>1, <2>4 DEF SchemaInv, RowIsGood, Fits
    <3>. QED
      BY <2>1, <2>3, <3>1, <3>2 DEF SchemaInv
  <2>5. ASSUME NEW r \in dataCalls[c].record, rows[r].id # 0,
               rows' = [rows EXCEPT
                 ![r].data = RecordKeeping!Merged(rows[r].data, dataCalls[c].data),
                 ![r].updated = TRUE],
               written' = [written EXCEPT ![r] =
                 RecordKeeping!Merged(written[r], dataCalls[c].data)]
        PROVE  SchemaInv'
    <3>1. /\ r \in RecordIds /\ rows[r] \in RowsOf /\ dataCalls[c].data \in DataOf
          /\ rows[r].data = written[r] /\ written[r] \in DataOf
      BY <2>5 DEF SchemaInv, SchemaTyped, DataCallsOf, RowIsGood
    <3>2. PICK m \in DataOf : m = RecordKeeping!Merged(written[r], dataCalls[c].data)
      BY <3>1 DEF RecordKeeping!Merged, DataOf
    <3>3. rows' = [rows EXCEPT ![r] = [rows[r] EXCEPT !.data = m, !.updated = TRUE]]
      <4>1. rows \in [RecordIds -> RowsOf]
        BY DEF SchemaInv, SchemaTyped
      <4>2. rows' = [rows EXCEPT ![r].data = m, ![r].updated = TRUE]
        BY <2>5, <3>1, <3>2
      <4>. QED
        BY <3>1, <4>1, <4>2 DEF RowsOf
    <3>4. /\ [rows[r] EXCEPT !.data = m, !.updated = TRUE] \in RowsOf
          /\ written' = [written EXCEPT ![r] = m]
      BY <2>5, <3>1, <3>2 DEF RowsOf
    <3>5. SchemaTyped'
      BY <2>1, <2>2, <3>1, <3>2, <3>3, <3>4 DEF SchemaInv, SchemaTyped
    <3>6. /\ rows'[r].id = rows[r].id /\ rows'[r].edition = rows[r].edition
          /\ rows'[r].updated /\ rows'[r].data = m /\ written'[r] = m
          /\ \A q \in RecordIds : q # r => rows'[q] = rows[q] /\ written'[q] = written[q]
      <4>1. rows \in [RecordIds -> RowsOf] /\ written \in [RecordIds -> DataOf]
        BY DEF SchemaInv, SchemaTyped
      <4>. QED
        BY <3>1, <3>3, <3>4, <4>1 DEF RowsOf
    <3>7. InsertedOnce'
      BY <2>1, <2>2, <3>6 DEF SchemaInv, InsertedOnce
    <3>8. \A q \in RecordIds : RowIsGood(q)'
      BY <2>1, <3>6 DEF SchemaInv, RowIsGood, Fits
    <3>. QED
      BY <2>1, <2>3, <3>5, <3>7, <3>8 DEF SchemaInv
  <2>6. \E r \in dataCalls[c].record :
          IF rows[r].id = 0 THEN UNCHANGED <<rows, written>>
          ELSE /\ rows' = [rows EXCEPT
                    ![r].data = RecordKeeping!Merged(rows[r].data, dataCalls[c].data),
                    ![r].updated = TRUE]
               /\ written' = [written EXCEPT ![r] =
                    RecordKeeping!Merged(written[r], dataCalls[c].data)]
    <3>1. \A r \in dataCalls[c].record : r \in RecordIds
      BY DEF SchemaInv, SchemaTyped, DataCallsOf
    <3>. QED
      BY <1>6, <3>1 DEF RecordKeeping!MergeRecord, SchemaInv, SchemaTyped, RowsOf
  <2>. QED
    BY <2>4, <2>5, <2>6
<1>7. ASSUME NEW c \in DataCalls, RecordKeeping!RemoveRecord(c)
      PROVE  SchemaInv'
  <2>1. /\ dataCalls' = [dataCalls EXCEPT ![c] = RecordKeeping!NoCall]
        /\ UNCHANGED <<collection, defines, written, unused>>
    BY <1>7 DEF RecordKeeping!RemoveRecord
  <2>2. /\ dataCalls' \in [DataCalls -> DataCallsOf] /\ dataCalls'[c].step = "none"
        /\ \A e \in DataCalls : e # c => dataCalls'[e] = dataCalls[e]
        /\ \A e \in DataCalls, q \in RecordIds : Inserts(e, q)' => e # c /\ Inserts(e, q)
    BY <2>1, BlankRecords, CallStep
  <2>3. \A e \in DataCalls : CallIsGood(e)'
    BY <2>1, <2>2 DEF SchemaInv, CallIsGood, Fits
  <2>4. PICK r \in RecordIds :
          /\ rows' = [rows EXCEPT ![r] = RecordKeeping!NoRecord]
          /\ farewells' = [farewells EXCEPT ![r] = IF rows[r].id = 0 THEN farewells[r]
                                                  ELSE farewells[r] + 1]
    <3>1. \A r \in dataCalls[c].record : r \in RecordIds
      BY DEF SchemaInv, SchemaTyped, DataCallsOf
    <3>. QED
      BY <1>7, <3>1 DEF RecordKeeping!RemoveRecord, SchemaInv, SchemaTyped
  <2>5. /\ rows'[r].id = 0
        /\ farewells'[r] = IF rows[r].id = 0 THEN farewells[r] ELSE farewells[r] + 1
        /\ \A q \in RecordIds : q # r => rows'[q] = rows[q] /\ farewells'[q] = farewells[q]
    BY <2>4, BlankRecords DEF SchemaInv, SchemaTyped
  <2>6. rows[r].id # 0 => farewells[r] = 0 /\ r \notin unused
    BY DEF SchemaInv, RowIsGood
  <2>7. SchemaTyped'
    <3>1. farewells' \in [RecordIds -> {0, 1}]
      BY <2>4, <2>6 DEF SchemaInv, SchemaTyped
    <3>. QED
      BY <2>1, <2>2, <2>4, <3>1, BlankRecords DEF SchemaInv, SchemaTyped
  <2>8. InsertedOnce'
    <3>1. ASSUME NEW e \in DataCalls, NEW q \in RecordIds, Inserts(e, q)'
          PROVE  /\ rows'[q].id = 0 /\ farewells'[q] = 0 /\ q \notin unused'
                 /\ \A d \in DataCalls : Inserts(d, q)' => e = d
      <4>1. Inserts(e, q) /\ rows[q].id = 0 /\ farewells[q] = 0 /\ q \notin unused
        BY <2>2, <3>1 DEF SchemaInv, InsertedOnce
      <4>2. rows'[q].id = 0 /\ farewells'[q] = 0
        BY <2>5, <4>1
      <4>. QED
        BY <2>1, <2>2, <4>1, <4>2 DEF SchemaInv, InsertedOnce
    <3>2. ASSUME NEW q \in unused' PROVE farewells'[q] = 0
      <4>1. q \in unused /\ q \in RecordIds /\ farewells[q] = 0
        BY <2>1 DEF SchemaInv, SchemaTyped, InsertedOnce
      <4>. QED
        BY <2>5, <2>6, <4>1
    <3>. QED
      BY <3>1, <3>2 DEF InsertedOnce
  <2>9. \A q \in RecordIds : RowIsGood(q)'
    BY <2>1, <2>5 DEF SchemaInv, RowIsGood, Fits
  <2>. QED
    BY <2>1, <2>3, <2>7, <2>8, <2>9 DEF SchemaInv
<1>8. CASE UNCHANGED schemaVars
  BY <1>8
     DEF schemaVars, SchemaInv, SchemaTyped, InsertedOnce, Inserts, RowIsGood, CallIsGood, Fits
<1>9. ASSUME NEW c \in DataCalls, NEW r \in RecordIds, RecordKeeping!DeleteRecord(c, r)
      PROVE  SchemaInv'
  <2>1. RecordKeeping!Blank \in [Fields -> RecordKeeping!Values]
    BY BlankRecords DEF DataOf
  <2>. QED
    BY <1>5, <1>9, <2>1
<1>10. CASE RecordKeeping!SchemaRecordsNext
  <2>1. CASE \E fs \in [Fields -> RecordKeeping!FieldRules] : RecordKeeping!DefineCollection(fs)
    BY <1>1, <2>1
  <2>2. ASSUME NEW c \in DataCalls,
               \/ RecordKeeping!InsertRecord(c) \/ RecordKeeping!MergeRecord(c)
               \/ RecordKeeping!RemoveRecord(c)
        PROVE  SchemaInv'
    BY <1>4, <1>6, <1>7, <2>2
  <2>3. ASSUME NEW c \in DataCalls, NEW r \in RecordIds,
               \E d \in [Fields -> RecordKeeping!Values] :
                 RecordKeeping!CreateRecord(c, r, d) \/ RecordKeeping!UpdateRecord(c, r, d)
        PROVE  SchemaInv'
    BY <1>3, <1>5, <2>3
  <2>. QED
    BY <1>2, <1>9, <1>10, <2>1, <2>2, <2>3 DEF RecordKeeping!SchemaRecordsNext
<1>. QED
  BY <1>8, <1>10

\* SchemaInv holds in every reachable state.
LEMMA SchemaHolds == Spec => []SchemaInv
<1>1. Init => SchemaInv
  <2>. SUFFICES ASSUME Init PROVE SchemaInv
    OBVIOUS
  <2>. USE BlankRecords DEF Init, RecordKeeping!SchemaRecordsInit
  <2>1. SchemaTyped
    BY ConstantsOfWrites DEF SchemaTyped
  <2>2. InsertedOnce
    BY DEF InsertedOnce, Inserts
  <2>3. \A r \in RecordIds : RowIsGood(r)
    BY DEF RowIsGood
  <2>4. \A c \in DataCalls : CallIsGood(c)
    BY DEF CallIsGood
  <2>. QED
    BY <2>1, <2>2, <2>3, <2>4 DEF SchemaInv
<1>. QED
  BY <1>1, SchemaStep, StepOfParts, PTL DEF Spec

\* What the runs check of it follows from SchemaInv.
LEMMA RecordsAreKept ==
  SchemaInv => /\ RecordKeeping!InvalidOnlyLater /\ RecordKeeping!UpdatesMerge
               /\ RecordKeeping!DeletedOnce
<1>. SUFFICES ASSUME SchemaInv, NEW r \in RecordIds
     PROVE  /\ rows[r].id # 0 =>
                 /\ rows[r].id = collection.id
                 /\ rows[r].edition = collection.edition /\ ~rows[r].updated =>
                      Fits(rows[r].data)
                 /\ rows[r].data = written[r]
            /\ farewells[r] <= 1 /\ (farewells[r] = 1 => rows[r].id = 0)
  BY DEF RecordKeeping!InvalidOnlyLater, RecordKeeping!UpdatesMerge,
         RecordKeeping!DeletedOnce, Fits
<1>1. farewells[r] \in {0, 1}
  BY DEF SchemaInv, SchemaTyped
<1>. QED
  BY <1>1 DEF SchemaInv, RowIsGood

(****************************************************************************)
(* A site.                                                                  *)
(****************************************************************************)
FormsOf == Forms \union {NoForm}
PagesOf == [site : Nat, form : FormsOf]
SiteCallsOf == [step : {"none", "find", "write", "publish", "serve", "check", "create"},
                site : Nat, at : SUBSET Paths, form : FormsOf, next : {"none", "publish"}]

SitesTyped ==
  /\ site \in [id : Nat, published : BOOLEAN]
  /\ siteCount \in Nat /\ siteCount <= MaxSites /\ site.id <= siteCount
  /\ pages \in [Paths -> PagesOf]
  /\ siteCalls \in [SiteCalls -> SiteCallsOf]
  /\ ever \subseteq 1 .. siteCount

\* A call goes on with a site that was there; a visit and a submission with one
\* that was published, and a form is filed where a page named it.
GoesOn(k) ==
  /\ k.site <= siteCount
  /\ k.step = "write" => k.site # 0
  /\ k.step \in {"serve", "check", "create"} => k.site \in ever
  /\ k.step = "check" => k.form # NoForm
  /\ k.step = "create" => <<k.site, k.form>> \in offered

FormsAreOffered ==
  \A p \in Paths : pages[p].site # 0 /\ pages[p].form # NoForm =>
    <<pages[p].site, pages[p].form>> \in offered

SitesInv ==
  /\ SitesTyped
  /\ site.published => site.id \in ever
  /\ Sites!PagesBelong /\ Sites!ServedWasPublished /\ Sites!SubmissionsWereOffered
  /\ FormsAreOffered
  /\ \A c \in SiteCalls : GoesOn(siteCalls[c])

\* A call on the sites that goes to its next step keeps the calls' invariant.
LEMMA SiteCallStep ==
  ASSUME SitesInv, NEW c \in SiteCalls, NEW k \in SiteCallsOf,
         siteCalls' = [siteCalls EXCEPT ![c] = k],
         siteCount' \in Nat, siteCount <= siteCount', ever \subseteq ever',
         offered \subseteq offered', GoesOn(k)'
  PROVE  siteCalls' \in [SiteCalls -> SiteCallsOf] /\ \A d \in SiteCalls : GoesOn(siteCalls[d])'
<1>1. siteCalls \in [SiteCalls -> SiteCallsOf] /\ siteCount \in Nat
  BY DEF SitesInv, SitesTyped
<1>2. siteCalls' \in [SiteCalls -> SiteCallsOf]
  BY <1>1
<1>3. ASSUME NEW d \in SiteCalls PROVE GoesOn(siteCalls[d])'
  <2>1. CASE d = c
    BY <1>1, <2>1 DEF GoesOn
  <2>2. CASE d # c
    <3>1. siteCalls'[d] = siteCalls[d] /\ siteCalls[d].site \in Nat
      BY <1>1, <2>2 DEF SiteCallsOf
    <3>2. GoesOn(siteCalls[d])
      BY DEF SitesInv
    <3>3. siteCalls[d].site <= siteCount'
      BY <1>1, <3>1, <3>2 DEF GoesOn
    <3>. QED
      BY <3>1, <3>2, <3>3 DEF GoesOn
  <2>. QED
    BY <2>1, <2>2
<1>. QED
  BY <1>2, <1>3

\* A call on the sites that ends keeps the calls' invariant.
LEMMA SiteCallEnds ==
  ASSUME SitesInv, NEW c \in SiteCalls, Sites!Ends(c),
         siteCount' \in Nat, siteCount <= siteCount', ever \subseteq ever',
         offered \subseteq offered'
  PROVE  siteCalls' \in [SiteCalls -> SiteCallsOf] /\ \A d \in SiteCalls : GoesOn(siteCalls[d])'
<1>1. Sites!Quiet \in SiteCallsOf /\ GoesOn(Sites!Quiet)'
  BY DEF Sites!Quiet, SiteCallsOf, FormsOf, GoesOn
<1>2. siteCalls' = [siteCalls EXCEPT ![c] = Sites!Quiet]
  BY DEF Sites!Ends
<1>. QED
  BY <1>1, <1>2, SiteCallStep

\* The calls on the sites that stay keep their invariant.
LEMMA SiteCallsStay ==
  ASSUME SitesInv, UNCHANGED siteCalls,
         siteCount' \in Nat, siteCount <= siteCount', ever \subseteq ever',
         offered \subseteq offered'
  PROVE  siteCalls' \in [SiteCalls -> SiteCallsOf] /\ \A d \in SiteCalls : GoesOn(siteCalls[d])'
<1>1. siteCalls \in [SiteCalls -> SiteCallsOf] /\ siteCount \in Nat
  BY DEF SitesInv, SitesTyped
<1>2. ASSUME NEW d \in SiteCalls PROVE GoesOn(siteCalls[d])'
  <2>1. siteCalls'[d] = siteCalls[d] /\ siteCalls[d].site \in Nat
    BY <1>1 DEF SiteCallsOf
  <2>2. GoesOn(siteCalls[d])
    BY DEF SitesInv
  <2>3. siteCalls[d].site <= siteCount'
    BY <1>1, <2>1, <2>2 DEF GoesOn
  <2>. QED
    BY <2>1, <2>2, <2>3 DEF GoesOn
<1>. QED
  BY <1>1, <1>2

\* A site is made under a free slug: its id is new, and no page is of it.
LEMMA MakeSiteStep ==
  ASSUME SitesInv, Sites!MakeSite, UNCHANGED <<pages, ever, offered, served, submissions>>,
         siteCalls' \in [SiteCalls -> SiteCallsOf],
         \A d \in SiteCalls : GoesOn(siteCalls[d])'
  PROVE  SitesInv'
<1>1. /\ site.id = 0 /\ siteCount < MaxSites
      /\ site' = [id |-> siteCount + 1, published |-> FALSE] /\ siteCount' = siteCount + 1
  BY DEF Sites!MakeSite
<1>2. siteCount \in Nat /\ MaxSites \in Nat
  BY ConstantsOfWrites DEF SitesInv, SitesTyped
<1>3. SitesTyped'
  <2>1. ever' \subseteq 1 .. siteCount'
    BY <1>1, <1>2 DEF SitesInv, SitesTyped
  <2>. QED
    BY <1>1, <1>2, <2>1 DEF SitesInv, SitesTyped
<1>4. Sites!PagesBelong'
  BY <1>1 DEF SitesInv, Sites!PagesBelong
<1>5. /\ site'.published => site'.id \in ever'
      /\ Sites!ServedWasPublished' /\ Sites!SubmissionsWereOffered' /\ FormsAreOffered'
  BY <1>1 DEF SitesInv, Sites!ServedWasPublished, Sites!SubmissionsWereOffered, FormsAreOffered
<1>. QED
  BY <1>3, <1>4, <1>5 DEF SitesInv

\* A step of this part, or of another, keeps SitesInv.
LEMMA SitesStep ==
  ASSUME SitesInv, [Sites!Next]_sitesVars PROVE SitesInv'
<1>0. siteCount \in Nat /\ siteCount <= siteCount
  BY DEF SitesInv, SitesTyped
<1>1. CASE Sites!CreateSite
  <2>1. /\ Sites!MakeSite /\ UNCHANGED <<pages, siteCalls, ever, offered, served, submissions>>
        /\ siteCount' = siteCount + 1
    BY <1>1 DEF Sites!CreateSite, Sites!MakeSite, Sites!Kept
  <2>2. siteCount' \in Nat /\ siteCount <= siteCount'
    BY <1>0, <2>1
  <2>. QED
    BY <2>1, <2>2, SiteCallsStay, MakeSiteStep
<1>2. ASSUME NEW c \in SiteCalls, NEW p \in Paths, NEW f \in FormsOf,
             Sites!CreateLandingPage(c, p, f)
      PROVE  SitesInv'
  <2>. DEFINE k == [step |-> "find", site |-> 0, at |-> {p}, form |-> f, next |-> "publish"]
  <2>1. /\ Sites!MakeSite /\ UNCHANGED <<pages, ever, offered, served, submissions>>
        /\ siteCount' = siteCount + 1 /\ siteCalls' = [siteCalls EXCEPT ![c] = k]
    BY <1>2 DEF Sites!CreateLandingPage, Sites!MakeSite, Sites!Kept, Sites!Step
  <2>2. siteCount' \in Nat /\ siteCount <= siteCount'
    BY <1>0, <2>1
  <2>3. k \in SiteCallsOf /\ GoesOn(k)'
    BY <2>2 DEF SiteCallsOf, GoesOn
  <2>. HIDE DEF k
  <2>. QED
    BY <2>1, <2>2, <2>3, SiteCallStep, MakeSiteStep
<1>3. ASSUME NEW c \in SiteCalls, NEW k \in SiteCallsOf, GoesOn(k),
             siteCalls' = [siteCalls EXCEPT ![c] = k],
             UNCHANGED <<site, siteCount, pages, ever, offered, served, submissions>>
      PROVE  SitesInv'
  <2>1. GoesOn(k)'
    BY <1>3 DEF GoesOn
  <2>2. siteCalls' \in [SiteCalls -> SiteCallsOf] /\ \A d \in SiteCalls : GoesOn(siteCalls[d])'
    BY <1>0, <1>3, <2>1, SiteCallStep
  <2>. QED
    BY <1>3, <2>2
       DEF SitesInv, SitesTyped, Sites!PagesBelong, Sites!ServedWasPublished,
           Sites!SubmissionsWereOffered, FormsAreOffered
<1>4. ASSUME NEW c \in SiteCalls, Sites!Ends(c),
             UNCHANGED <<site, siteCount, pages, ever, offered>>,
             served' \subseteq ever,
             submissions' \subseteq offered /\ \A s \in submissions' : s[1] \in ever
      PROVE  SitesInv'
  <2>1. siteCalls' \in [SiteCalls -> SiteCallsOf] /\ \A d \in SiteCalls : GoesOn(siteCalls[d])'
    BY <1>0, <1>4, SiteCallEnds
  <2>. QED
    BY <1>4, <2>1
       DEF SitesInv, SitesTyped, Sites!PagesBelong, Sites!ServedWasPublished,
           Sites!SubmissionsWereOffered, FormsAreOffered
<1>5. ASSUME NEW c \in SiteCalls, NEW p \in Paths,
             \/ \E f \in FormsOf : Sites!UpsertPage(c, p, f)
             \/ Sites!PatchPage(c, p)
      PROVE  SitesInv'
  <2>1. PICK f \in FormsOf :
          siteCalls' = [siteCalls EXCEPT ![c] =
            [step |-> "find", site |-> 0, at |-> {p}, form |-> f, next |-> "none"]]
    <3>1. pages[p].form \in FormsOf
      BY DEF SitesInv, SitesTyped, PagesOf
    <3>. QED
      BY <1>5, <3>1 DEF Sites!UpsertPage, Sites!PatchPage, Sites!Step
  <2>2. UNCHANGED <<site, siteCount, pages, ever, offered, served, submissions>>
    BY <1>5 DEF Sites!UpsertPage, Sites!PatchPage, Sites!Kept
  <2>. DEFINE k == [step |-> "find", site |-> 0, at |-> {p}, form |-> f, next |-> "none"]
  <2>3. k \in SiteCallsOf /\ GoesOn(k)
    BY <1>0 DEF SiteCallsOf, GoesOn
  <2>. HIDE DEF k
  <2>. QED
    BY <1>3, <2>1, <2>2, <2>3 DEF k
<1>6. ASSUME NEW c \in SiteCalls, Sites!FindSite(c)
      PROVE  SitesInv'
  <2>1. UNCHANGED <<site, siteCount, pages, ever, offered, served, submissions>>
    BY <1>6 DEF Sites!FindSite, Sites!Kept
  <2>2. CASE site.id = 0
    BY <1>4, <1>6, <2>1, <2>2
       DEF Sites!FindSite, SitesInv, Sites!ServedWasPublished, Sites!SubmissionsWereOffered
  <2>3. CASE site.id # 0
    <3>. DEFINE k == [step |-> "write", site |-> site.id, at |-> siteCalls[c].at,
                      form |-> siteCalls[c].form, next |-> siteCalls[c].next]
    <3>1. siteCalls' = [siteCalls EXCEPT ![c] = k]
      BY <1>6, <2>3 DEF Sites!FindSite, Sites!Step
    <3>2. siteCalls[c] \in SiteCallsOf /\ site.id \in Nat /\ site.id <= siteCount
      BY DEF SitesInv, SitesTyped
    <3>3. k \in SiteCallsOf /\ GoesOn(k)
      BY <2>3, <3>2 DEF SiteCallsOf, GoesOn
    <3>. HIDE DEF k
    <3>4. PICK q \in SiteCallsOf : q = k
      BY <3>3
    <3>. QED
      BY <1>3, <2>1, <3>1, <3>3, <3>4
  <2>. QED
    BY <2>2, <2>3
<1>7. ASSUME NEW c \in SiteCalls, Sites!WritePage(c)
      PROVE  SitesInv'
  <2>1. /\ siteCalls[c].step = "write"
        /\ UNCHANGED <<site, siteCount, ever, served, submissions>>
    BY <1>7 DEF Sites!WritePage
  <2>2. CASE siteCalls[c].site # site.id
    BY <1>4, <1>7, <2>1, <2>2
       DEF Sites!WritePage, SitesInv, Sites!ServedWasPublished, Sites!SubmissionsWereOffered
  <2>3. CASE siteCalls[c].site = site.id
    <3>1. siteCalls[c] \in SiteCallsOf /\ site.id \in Nat /\ site.id # 0 /\ site.id <= siteCount
      BY <2>1, <2>3 DEF SitesInv, SitesTyped, GoesOn
    <3>2. PICK p \in siteCalls[c].at :
            Sites!PutPage(c, p, Sites!Form(p, siteCalls[c].site, siteCalls[c].form))
      BY <1>7, <2>3 DEF Sites!WritePage
    <3>3. p \in Paths /\ pages[p] \in PagesOf
      BY <3>1 DEF SiteCallsOf, SitesInv, SitesTyped
    <3>4. Sites!Form(p, siteCalls[c].site, siteCalls[c].form) \in FormsOf
      BY <3>1, <3>3 DEF Sites!Form, SiteCallsOf, PagesOf
    <3>5. PICK f \in FormsOf : Sites!PutPage(c, p, f)
      BY <3>2, <3>4
    <3>6. PICK id_ \in Nat : id_ = site.id
      BY <3>1
    <3>7. /\ pages' = [pages EXCEPT ![p] = [site |-> id_, form |-> f]]
          /\ offered \subseteq offered'
          /\ f # NoForm => <<id_, f>> \in offered'
      BY <2>3, <3>5, <3>6 DEF Sites!PutPage
    <3>8. /\ pages' \in [Paths -> PagesOf]
          /\ pages'[p].site = id_ /\ pages'[p].form = f
          /\ \A q \in Paths : q # p => pages'[q] = pages[q]
      BY <3>3, <3>7 DEF SitesInv, SitesTyped, PagesOf
    <3>9. siteCalls' \in [SiteCalls -> SiteCallsOf] /\ \A d \in SiteCalls : GoesOn(siteCalls[d])'
      <4>1. CASE siteCalls[c].next = "none"
        BY <1>0, <2>1, <3>5, <3>7, <4>1, SiteCallEnds DEF Sites!PutPage
      <4>2. CASE siteCalls[c].next # "none"
        <5>1. siteCalls[c].next = "publish"
          BY <3>1, <4>2 DEF SiteCallsOf
        <5>2. PICK k \in SiteCallsOf : k = [siteCalls[c] EXCEPT !.step = "publish"]
          BY <3>1 DEF SiteCallsOf
        <5>3. siteCalls' = [siteCalls EXCEPT ![c] = k]
          BY <3>5, <4>2, <5>1, <5>2 DEF Sites!PutPage, SitesInv, SitesTyped
        <5>4. k.step = "publish" /\ k.site = siteCalls[c].site
          BY <3>1, <5>2 DEF SiteCallsOf
        <5>5. GoesOn(k)'
          BY <2>1, <2>3, <3>1, <5>4 DEF GoesOn
        <5>6. /\ siteCount' \in Nat /\ siteCount <= siteCount' /\ ever \subseteq ever'
              /\ offered \subseteq offered'
          BY <1>0, <2>1, <3>7
        <5>. QED
          BY <5>3, <5>5, <5>6, SiteCallStep
      <4>. QED
        BY <4>1, <4>2
    <3>10. SitesTyped'
      BY <2>1, <3>8, <3>9 DEF SitesInv, SitesTyped
    <3>11. Sites!PagesBelong' /\ FormsAreOffered'
      <4>1. \A q \in Paths : pages[q].site \in {0, site.id}
        BY DEF SitesInv, Sites!PagesBelong
      <4>2. \A q \in Paths : pages[q].site # 0 /\ pages[q].form # NoForm =>
              <<pages[q].site, pages[q].form>> \in offered
        BY DEF SitesInv, FormsAreOffered
      <4>3. site' = site
        BY <2>1
      <4>4. Sites!PagesBelong'
        BY <3>6, <3>8, <4>1, <4>3 DEF Sites!PagesBelong
      <4>5. FormsAreOffered'
        BY <3>7, <3>8, <4>2 DEF FormsAreOffered
      <4>. QED
        BY <4>4, <4>5
    <3>12. Sites!ServedWasPublished' /\ Sites!SubmissionsWereOffered'
      <4>1. served' = served /\ ever' = ever /\ submissions' = submissions
        BY <2>1
      <4>2. offered \subseteq offered'
        BY <3>7
      <4>. QED
        BY <4>1, <4>2 DEF SitesInv, Sites!ServedWasPublished, Sites!SubmissionsWereOffered
    <3>. QED
      BY <2>1, <3>9, <3>10, <3>11, <3>12 DEF SitesInv
  <2>. QED
    BY <2>2, <2>3
<1>8. ASSUME NEW b \in BOOLEAN, site.id # 0, Sites!SetPublished(b),
             UNCHANGED <<siteCount, pages, offered, served, submissions>>,
             siteCalls' \in [SiteCalls -> SiteCallsOf],
             \A d \in SiteCalls : GoesOn(siteCalls[d])'
      PROVE  SitesInv'
  <2>1. site \in [id : Nat, published : BOOLEAN] /\ site.id <= siteCount
    BY DEF SitesInv, SitesTyped
  <2>2. /\ site' \in [id : Nat, published : BOOLEAN] /\ site'.id = site.id
        /\ site'.published = b /\ ever \subseteq ever'
        /\ ever' \subseteq ever \union {site.id}
        /\ b => site.id \in ever'
    BY <1>8, <2>1 DEF Sites!SetPublished
  <2>3. site.id \in 1 .. siteCount
    BY <1>0, <1>8, <2>1
  <2>4. SitesTyped'
    <3>1. ever' \subseteq 1 .. siteCount
      BY <2>2, <2>3 DEF SitesInv, SitesTyped
    <3>2. siteCount' = siteCount /\ pages' = pages
      BY <1>8
    <3>3. siteCount \in Nat /\ siteCount <= MaxSites /\ pages \in [Paths -> PagesOf]
      BY DEF SitesInv, SitesTyped
    <3>. QED
      BY <1>8, <2>1, <2>2, <3>1, <3>2, <3>3 DEF SitesTyped
  <2>5. Sites!PagesBelong' /\ FormsAreOffered'
    BY <1>8, <2>2 DEF SitesInv, Sites!PagesBelong, FormsAreOffered
  <2>6. Sites!ServedWasPublished' /\ Sites!SubmissionsWereOffered'
    BY <1>8, <2>2 DEF SitesInv, Sites!ServedWasPublished, Sites!SubmissionsWereOffered
  <2>7. site'.published => site'.id \in ever'
    BY <2>2
  <2>8. \A d \in SiteCalls : GoesOn(siteCalls[d])'
    BY <1>8
  <2>. QED
    BY <2>4, <2>5, <2>6, <2>7, <2>8 DEF SitesInv
<1>9. ASSUME NEW b \in BOOLEAN, Sites!PublishSite(b)
      PROVE  SitesInv'
  <2>1. /\ site.id # 0 /\ Sites!SetPublished(b) /\ ever \subseteq ever'
        /\ UNCHANGED <<siteCount, pages, siteCalls, offered, served, submissions>>
    BY <1>9 DEF Sites!PublishSite, Sites!SetPublished
  <2>. QED
    BY <1>0, <1>8, <2>1, SiteCallsStay
<1>10. ASSUME NEW c \in SiteCalls, Sites!PublishLanding(c)
      PROVE  SitesInv'
  <2>1. Sites!Ends(c) /\ UNCHANGED <<siteCount, pages, offered, served, submissions>>
    BY <1>10 DEF Sites!PublishLanding
  <2>2. CASE site.id = 0
    BY <1>4, <1>10, <2>1, <2>2
       DEF Sites!PublishLanding, SitesInv, Sites!ServedWasPublished, Sites!SubmissionsWereOffered
  <2>3. CASE site.id # 0
    <3>1. Sites!SetPublished(TRUE) /\ ever \subseteq ever'
      BY <1>10, <2>3 DEF Sites!PublishLanding, Sites!SetPublished
    <3>2. siteCalls' \in [SiteCalls -> SiteCallsOf] /\ \A d \in SiteCalls : GoesOn(siteCalls[d])'
      BY <1>0, <2>1, <3>1, SiteCallEnds
    <3>. QED
      BY <1>8, <2>1, <2>3, <3>1, <3>2
  <2>. QED
    BY <2>2, <2>3
<1>11. CASE Sites!DeleteSite \/ \E p \in Paths : Sites!DeletePage(p)
  <2>1. /\ UNCHANGED <<siteCount, siteCalls, ever, offered, served, submissions>>
        /\ pages' \in [Paths -> PagesOf]
        /\ \A p \in Paths : pages'[p] = pages[p] \/ pages'[p].site = 0
        /\ \/ UNCHANGED site
           \/ site' = [id |-> 0, published |-> FALSE] /\ \A p \in Paths : pages'[p].site = 0
    <3>1. Sites!NoPage \in PagesOf /\ Sites!NoPage.site = 0
      BY DEF Sites!NoPage, PagesOf, FormsOf
    <3>2. CASE Sites!DeleteSite
      BY <3>1, <3>2 DEF Sites!DeleteSite, Sites!Kept, Sites!NoSite
    <3>3. ASSUME NEW p \in Paths, Sites!DeletePage(p)
          PROVE  /\ UNCHANGED <<site, siteCount, siteCalls, ever, offered, served, submissions>>
                 /\ pages' \in [Paths -> PagesOf]
                 /\ \A q \in Paths : pages'[q] = pages[q] \/ pages'[q].site = 0
      BY <3>1, <3>3 DEF Sites!DeletePage, Sites!Kept, SitesInv, SitesTyped
    <3>. QED
      BY <1>11, <3>2, <3>3
  <2>2. siteCalls' \in [SiteCalls -> SiteCallsOf] /\ \A d \in SiteCalls : GoesOn(siteCalls[d])'
    BY <1>0, <2>1, SiteCallsStay
  <2>3. SitesTyped'
    <3>1. site' \in [id : Nat, published : BOOLEAN] /\ site'.id <= siteCount
      <4>1. CASE UNCHANGED site
        BY <4>1 DEF SitesInv, SitesTyped
      <4>2. CASE site' = [id |-> 0, published |-> FALSE]
        BY <1>0, <4>2
      <4>. QED
        BY <2>1, <4>1, <4>2
    <3>2. siteCount' = siteCount /\ ever' = ever /\ pages' \in [Paths -> PagesOf]
      BY <2>1
    <3>. QED
      BY <2>2, <3>1, <3>2 DEF SitesInv, SitesTyped
  <2>4. Sites!PagesBelong' /\ FormsAreOffered'
    BY <2>1 DEF SitesInv, Sites!PagesBelong, FormsAreOffered
  <2>5. /\ Sites!ServedWasPublished' /\ Sites!SubmissionsWereOffered'
        /\ site'.published => site'.id \in ever'
    BY <2>1 DEF SitesInv, Sites!ServedWasPublished, Sites!SubmissionsWereOffered
  <2>. QED
    BY <2>2, <2>3, <2>4, <2>5 DEF SitesInv
<1>12. ASSUME NEW c \in SiteCalls, site.published,
              \/ \E p \in Paths : Sites!Visit(c, p)
              \/ \E f \in Forms : Sites!Submit(c, f)
      PROVE  SitesInv'
  <2>1. site.id \in Nat /\ site.id <= siteCount /\ site.id \in ever
    BY <1>12 DEF SitesInv, SitesTyped
  <2>2. PICK k \in SiteCallsOf :
          /\ siteCalls' = [siteCalls EXCEPT ![c] = k] /\ k.site = site.id
          /\ k.step = "serve" \/ (k.step = "check" /\ k.form # NoForm)
    <3>1. \A p \in Paths : Sites!Visit(c, p) =>
            \E k \in SiteCallsOf :
              siteCalls' = [siteCalls EXCEPT ![c] = k] /\ k.site = site.id /\ k.step = "serve"
      BY <2>1 DEF Sites!Visit, Sites!Step, SiteCallsOf, FormsOf
    <3>2. ASSUME NEW f \in Forms, Sites!Submit(c, f)
          PROVE  \E k \in SiteCallsOf :
                   /\ siteCalls' = [siteCalls EXCEPT ![c] = k] /\ k.site = site.id
                   /\ k.step = "check" /\ k.form # NoForm
      <4>. DEFINE k == [step |-> "check", site |-> site.id, at |-> {}, form |-> f,
                        next |-> "none"]
      <4>1. f # NoForm
        BY ConstantsOfWrites
      <4>2. k \in SiteCallsOf /\ k.site = site.id /\ k.step = "check" /\ k.form = f
        BY <2>1 DEF SiteCallsOf, FormsOf
      <4>3. siteCalls' = [siteCalls EXCEPT ![c] = k]
        BY <3>2 DEF Sites!Submit, Sites!Step
      <4>. HIDE DEF k
      <4>. QED
        BY <4>1, <4>2, <4>3
    <3>3. (\E p \in Paths : Sites!Visit(c, p)) =>
            \E k \in SiteCallsOf :
              siteCalls' = [siteCalls EXCEPT ![c] = k] /\ k.site = site.id /\ k.step = "serve"
      BY <3>1
    <3>4. (\E f \in Forms : Sites!Submit(c, f)) =>
            \E k \in SiteCallsOf :
              /\ siteCalls' = [siteCalls EXCEPT ![c] = k] /\ k.site = site.id
              /\ k.step = "check" /\ k.form # NoForm
      BY <3>2
    <3>5. CASE \E p \in Paths : Sites!Visit(c, p)
      <4>1. PICK k \in SiteCallsOf :
              siteCalls' = [siteCalls EXCEPT ![c] = k] /\ k.site = site.id /\ k.step = "serve"
        BY <3>3, <3>5
      <4>. QED
        BY <4>1
    <3>6. CASE \E f \in Forms : Sites!Submit(c, f)
      BY <3>4, <3>6
    <3>. QED
      BY <1>12, <3>5, <3>6
  <2>3. UNCHANGED <<site, siteCount, pages, ever, offered, served, submissions>>
    BY <1>12 DEF Sites!Visit, Sites!Submit, Sites!Kept
  <2>4. GoesOn(k)
    BY <2>1, <2>2 DEF GoesOn
  <2>. QED
    BY <1>3, <2>2, <2>3, <2>4
<1>13. ASSUME NEW c \in SiteCalls, Sites!Serve(c) \/ Sites!CreateSubmission(c)
      PROVE  SitesInv'
  <2>1. /\ Sites!Ends(c) /\ UNCHANGED <<site, siteCount, pages, ever, offered>>
        /\ siteCalls[c].step \in {"serve", "create"}
    BY <1>13 DEF Sites!Serve, Sites!CreateSubmission
  <2>2. siteCalls[c].site \in ever
    BY <2>1 DEF SitesInv, GoesOn
  <2>3. served' \subseteq ever
    BY <1>13, <2>2
       DEF Sites!Serve, Sites!CreateSubmission, SitesInv, Sites!ServedWasPublished
  <2>4. submissions' \subseteq offered /\ \A s \in submissions' : s[1] \in ever
    BY <1>13, <2>2
       DEF Sites!Serve, Sites!CreateSubmission, SitesInv, Sites!SubmissionsWereOffered, GoesOn
  <2>. QED
    BY <1>4, <2>1, <2>3, <2>4
<1>14. ASSUME NEW c \in SiteCalls, Sites!CheckForm(c)
      PROVE  SitesInv'
  <2>1. /\ siteCalls[c].step = "check"
        /\ UNCHANGED <<site, siteCount, pages, ever, offered, served, submissions>>
    BY <1>14 DEF Sites!CheckForm, Sites!Kept
  <2>2. CASE Sites!Ends(c)
    BY <1>4, <2>1, <2>2
       DEF SitesInv, Sites!ServedWasPublished, Sites!SubmissionsWereOffered
  <2>3. ASSUME NEW p \in Paths,
               pages[p] = [site |-> siteCalls[c].site, form |-> siteCalls[c].form],
               siteCalls' = [siteCalls EXCEPT ![c].step = "create"]
        PROVE  SitesInv'
    <3>1. siteCalls \in [SiteCalls -> SiteCallsOf] /\ GoesOn(siteCalls[c])
      BY DEF SitesInv, SitesTyped
    <3>2. PICK k \in SiteCallsOf : k = [siteCalls[c] EXCEPT !.step = "create"]
      BY <3>1 DEF SiteCallsOf
    <3>3. siteCalls' = [siteCalls EXCEPT ![c] = k]
      BY <2>3, <3>1, <3>2
    <3>4. /\ k.step = "create" /\ k.site = siteCalls[c].site /\ k.form = siteCalls[c].form
      BY <3>1, <3>2 DEF SiteCallsOf
    <3>5. siteCalls[c].site # 0
      <4>1. 0 \notin ever
        BY <1>0 DEF SitesInv, SitesTyped
      <4>. QED
        BY <2>1, <3>1, <4>1 DEF GoesOn
    <3>6. <<siteCalls[c].site, siteCalls[c].form>> \in offered
      BY <2>1, <2>3, <3>1, <3>5 DEF SitesInv, FormsAreOffered, GoesOn
    <3>7. GoesOn(k)
      BY <2>1, <3>1, <3>4, <3>6 DEF GoesOn
    <3>. QED
      BY <1>3, <2>1, <3>3, <3>7
  <2>. QED
    BY <1>14, <2>2, <2>3 DEF Sites!CheckForm
<1>15. CASE UNCHANGED sitesVars
  BY <1>15
     DEF sitesVars, SitesInv, SitesTyped, Sites!PagesBelong, Sites!ServedWasPublished,
         Sites!SubmissionsWereOffered, FormsAreOffered, GoesOn
<1>16. CASE Sites!Next
  <2>1. ASSUME NEW c \in SiteCalls,
               \/ Sites!FindSite(c) \/ Sites!WritePage(c) \/ Sites!PublishLanding(c)
               \/ Sites!Serve(c) \/ Sites!CheckForm(c) \/ Sites!CreateSubmission(c)
        PROVE  SitesInv'
    BY <1>6, <1>7, <1>10, <1>13, <1>14, <2>1
  <2>2. ASSUME NEW c \in SiteCalls, NEW f \in Forms, Sites!Submit(c, f)
        PROVE  SitesInv'
    <3>1. site.published
      BY <2>2 DEF Sites!Submit
    <3>. QED
      BY <1>12, <2>2, <3>1
  <2>3. ASSUME NEW c \in SiteCalls, NEW p \in Paths, Sites!Visit(c, p)
        PROVE  SitesInv'
    <3>1. site.published
      BY <2>3 DEF Sites!Visit
    <3>. QED
      BY <1>12, <2>3, <3>1
  <2>4. ASSUME NEW c \in SiteCalls, NEW p \in Paths,
               \/ Sites!PatchPage(c, p)
               \/ \E f \in Forms \union {NoForm} :
                    Sites!CreateLandingPage(c, p, f) \/ Sites!UpsertPage(c, p, f)
        PROVE  SitesInv'
    BY <1>2, <1>5, <2>4 DEF FormsOf
  <2>. QED
    BY <1>1, <1>9, <1>11, <1>16, <2>1, <2>2, <2>3, <2>4 DEF Sites!Next
<1>. QED
  BY <1>15, <1>16

\* SitesInv holds in every reachable state.
LEMMA SitesHold == Spec => []SitesInv
<1>1. Init => SitesInv
  <2>. SUFFICES ASSUME Init PROVE SitesInv
    OBVIOUS
  <2>. USE DEF Init, Sites!Init
  <2>1. SitesTyped
    BY ConstantsOfWrites
       DEF SitesTyped, PagesOf, FormsOf, SiteCallsOf, Sites!NoSite, Sites!NoPage, Sites!Quiet
  <2>2. \A c \in SiteCalls : GoesOn(siteCalls[c])
    BY DEF GoesOn, Sites!Quiet
  <2>. QED
    BY <2>1, <2>2
       DEF SitesInv, Sites!NoSite, Sites!NoPage, Sites!PagesBelong, Sites!ServedWasPublished,
           Sites!SubmissionsWereOffered, FormsAreOffered
<1>. QED
  BY <1>1, SitesStep, StepOfParts, PTL DEF Spec

(****************************************************************************)
(* An app.                                                                  *)
(****************************************************************************)
ViewsOf == CanvasPages!View
UpdatesOf == [stage : {"idle", "read"}, base : Seq(ViewsOf), slug : Slugs \union {NoSlug},
              is_default : BOOLEAN]

\* The page is that of the list, and an update has read a list that had views.
AppsInv ==
  /\ config \in Seq(ViewsOf) /\ patched \in BOOLEAN
  /\ updates \in [AppCalls -> UpdatesOf]
  /\ CanvasPages!PageShowsTheList
  /\ \A c \in AppCalls : updates[c].stage = "read" =>
       updates[c].base # <<>> /\ updates[c].slug \in Slugs

\* A view that is put replaces the one of its name, or is one more.
LEMMA ViewsPut ==
  ASSUME NEW views \in Seq(ViewsOf), views # <<>>, NEW view \in ViewsOf
  PROVE  /\ CanvasPages!WithView(views, view) \in Seq(ViewsOf)
         /\ CanvasPages!WithView(views, view) # <<>>
<1>. DEFINE same == {i \in DOMAIN views : views[i].slug = view.slug}
<1>1. CASE same = {}
  <2>1. CanvasPages!WithView(views, view) = Append(views, view)
    BY <1>1 DEF CanvasPages!WithView
  <2>2. Append(views, view) \in Seq(ViewsOf) /\ Append(views, view) # <<>>
    OBVIOUS
  <2>. QED
    BY <2>1, <2>2
<1>2. CASE same # {}
  <2>. DEFINE first == CHOOSE i \in same : \A j \in same : i <= j
  <2>1. CanvasPages!WithView(views, view) = [views EXCEPT ![first] = view]
    BY <1>2 DEF CanvasPages!WithView
  <2>. HIDE DEF same, first
  <2>2. PICK n \in Nat : n = Len(views)
    OBVIOUS
  <2>3. views \in [1 .. n -> ViewsOf] /\ n # 0
    BY <2>2
  <2>4. [views EXCEPT ![first] = view] \in [1 .. n -> ViewsOf]
    BY <2>3
  <2>5. \A f \in [1 .. n -> ViewsOf] : f \in Seq(ViewsOf) /\ Len(f) = n
    BY <2>2
  <2>6. Len(<<>>) = 0
    OBVIOUS
  <2>. QED
    BY <2>1, <2>3, <2>4, <2>5, <2>6
<1>. QED
  BY <1>1, <1>2

\* A step of this part, or of another, keeps AppsInv.
LEMMA AppsStep ==
  ASSUME AppsInv, [CanvasPages!AppsNext]_appsVars PROVE AppsInv'
<1>. DEFINE quiet == CanvasPages!Idle
<1>0. quiet \in UpdatesOf /\ quiet.stage = "idle"
  BY DEF CanvasPages!Idle, UpdatesOf
<1>. HIDE DEF quiet
<1>1. CASE CanvasPages!CreateApp
  <2>1. /\ config' \in CanvasPages!Configs /\ page' = CanvasPages!RenderAppHtml(config')
        /\ UNCHANGED <<updates, patched>>
    BY <1>1 DEF CanvasPages!CreateApp
  <2>2. PICK n \in 1 .. MaxViews : config' \in [1 .. n -> ViewsOf]
    BY <2>1 DEF CanvasPages!Configs, ViewsOf
  <2>3. n \in Nat
    BY <2>2, ConstantsOfWrites
  <2>4. config' \in Seq(ViewsOf)
    BY <2>2, <2>3
  <2>. QED
    BY <2>1, <2>4 DEF AppsInv, CanvasPages!PageShowsTheList, CanvasPages!RenderAppHtml, CanvasPages!DefaultSlug
<1>2. CASE CanvasPages!PatchPage
  BY <1>2 DEF CanvasPages!PatchPage, AppsInv, CanvasPages!PageShowsTheList
<1>3. ASSUME NEW c \in AppCalls, NEW slug \in Slugs, CanvasPages!UpdateAppView(c, slug)
      PROVE  AppsInv'
  <2>1. config # <<>> /\ UNCHANGED <<config, page, patched>>
    BY <1>3 DEF CanvasPages!UpdateAppView
  <2>2. PICK u \in UpdatesOf :
          updates' = [updates EXCEPT ![c] = u] /\ u.base = config /\ u.slug = slug
    <3>1. PICK d \in BOOLEAN : updates' = [updates EXCEPT ![c] =
            [stage |-> "read", base |-> config, slug |-> slug, is_default |-> d]]
      BY <1>3 DEF CanvasPages!UpdateAppView
    <3>2. [stage |-> "read", base |-> config, slug |-> slug, is_default |-> d] \in UpdatesOf
      BY Zenon DEF AppsInv, UpdatesOf
    <3>. QED
      BY <3>1, <3>2
  <2>3. updates' \in [AppCalls -> UpdatesOf] /\ updates'[c] = u
        /\ \A d \in AppCalls : d # c => updates'[d] = updates[d]
    BY <2>2 DEF AppsInv
  <2>4. \A d \in AppCalls : updates'[d].stage = "read" =>
          updates'[d].base # <<>> /\ updates'[d].slug \in Slugs
    BY <2>1, <2>2, <2>3 DEF AppsInv
  <2>5. CanvasPages!PageShowsTheList'
    BY <2>1 DEF AppsInv, CanvasPages!PageShowsTheList, CanvasPages!RenderAppHtml, CanvasPages!DefaultSlug
  <2>. QED
    BY <2>1, <2>3, <2>4, <2>5 DEF AppsInv
<1>4. ASSUME NEW c \in AppCalls, CanvasPages!WriteView(c)
      PROVE  AppsInv'
  <2>. DEFINE view == [slug |-> updates[c].slug, is_default |-> updates[c].is_default]
  <2>1. /\ updates[c].stage = "read" /\ patched' = FALSE
        /\ config' = CanvasPages!WithView(updates[c].base, view)
        /\ page' = CanvasPages!RenderAppHtml(config')
        /\ updates' = [updates EXCEPT ![c] = quiet]
    BY <1>4 DEF CanvasPages!WriteView, quiet
  <2>2. view \in ViewsOf /\ updates[c].base \in Seq(ViewsOf) /\ updates[c].base # <<>>
    BY <2>1 DEF AppsInv, UpdatesOf, ViewsOf, CanvasPages!View
  <2>. HIDE DEF view
  <2>3. config' \in Seq(ViewsOf)
    BY <2>1, <2>2, ViewsPut
  <2>4. updates' \in [AppCalls -> UpdatesOf]
        /\ \A d \in AppCalls : updates'[d].stage = "read" => updates'[d] = updates[d]
    BY <1>0, <2>1 DEF AppsInv
  <2>5. CanvasPages!PageShowsTheList'
    BY <2>1 DEF CanvasPages!PageShowsTheList, CanvasPages!RenderAppHtml, CanvasPages!DefaultSlug
  <2>. QED
    BY <2>1, <2>3, <2>4, <2>5 DEF AppsInv
<1>5. ASSUME NEW c \in AppCalls, CanvasPages!UpdateFails(c)
      PROVE  AppsInv'
  <2>1. updates' = [updates EXCEPT ![c] = quiet] /\ UNCHANGED <<config, page, patched>>
    BY <1>5 DEF CanvasPages!UpdateFails, quiet
  <2>2. updates' \in [AppCalls -> UpdatesOf]
        /\ \A d \in AppCalls : updates'[d].stage = "read" => updates'[d] = updates[d]
    BY <1>0, <2>1 DEF AppsInv
  <2>3. CanvasPages!PageShowsTheList'
    BY <2>1 DEF AppsInv, CanvasPages!PageShowsTheList, CanvasPages!RenderAppHtml, CanvasPages!DefaultSlug
  <2>. QED
    BY <2>1, <2>2, <2>3 DEF AppsInv
<1>6. CASE UNCHANGED appsVars
  BY <1>6
     DEF appsVars, AppsInv, CanvasPages!PageShowsTheList, CanvasPages!RenderAppHtml,
         CanvasPages!DefaultSlug
<1>. QED
  BY <1>1, <1>2, <1>3, <1>4, <1>5, <1>6 DEF CanvasPages!AppsNext

\* AppsInv holds in every reachable state.
LEMMA AppsHold == Spec => []AppsInv
<1>1. Init => AppsInv
  <2>. SUFFICES ASSUME Init PROVE AppsInv
    OBVIOUS
  <2>1. CanvasPages!Idle \in UpdatesOf
    BY DEF CanvasPages!Idle, UpdatesOf
  <2>2. CanvasPages!Idle.stage = "idle"
    BY DEF CanvasPages!Idle
  <2>3. /\ config = <<>> /\ patched = FALSE
        /\ updates = [c \in AppCalls |-> CanvasPages!Idle]
    BY DEF Init, CanvasPages!AppsInit
  <2>4. updates \in [AppCalls -> UpdatesOf] /\ \A c \in AppCalls : updates[c].stage = "idle"
    BY <2>1, <2>2, <2>3
  <2>5. config \in Seq(ViewsOf)
    BY <2>3
  <2>. QED
    BY <2>3, <2>4, <2>5 DEF AppsInv, CanvasPages!PageShowsTheList
<1>. QED
  BY <1>1, AppsStep, StepOfParts, PTL DEF Spec

\* The view that is shown is the first that calls itself the default, or the
\* first of all: one of the list.
LEMMA AppsShowOneView ==
  AppsInv => CanvasPages!PageShowsTheList /\ CanvasPages!OneViewIsShown
<1>. SUFFICES ASSUME AppsInv, config # <<>>, ~patched, CanvasPages!Distinct(config)
     PROVE  \E i \in DOMAIN config : page.shown = {i}
  BY DEF AppsInv, CanvasPages!OneViewIsShown
<1>. DEFINE said == {i \in DOMAIN config : config[i].is_default}
            first == IF said = {} THEN 1 ELSE CHOOSE i \in said : \A j \in said : i <= j
<1>1. config \in Seq(ViewsOf) /\ DOMAIN config = 1 .. Len(config) /\ Len(config) \in Nat \ {0}
  BY DEF AppsInv
<1>2. first \in DOMAIN config
  <2>1. CASE said = {}
    BY <1>1, <2>1
  <2>2. CASE said # {}
    <3>1. said \subseteq Nat
      BY <1>1
    <3>2. \E i \in said : \A j \in said : i <= j
      <4>. HIDE DEF said
      <4>. QED
        BY <2>2, <3>1, Smallest
    <3>. QED
      BY <2>2, <3>2
  <2>. QED
    BY <2>1, <2>2
<1>3. CanvasPages!DefaultSlug(config) = config[first].slug
  BY DEF CanvasPages!DefaultSlug
<1>4. page.shown = {i \in DOMAIN config : config[i].slug = CanvasPages!DefaultSlug(config)}
  BY DEF AppsInv, CanvasPages!PageShowsTheList, CanvasPages!RenderAppHtml
<1>. HIDE DEF said, first
<1>5. \A i \in DOMAIN config : config[i].slug = config[first].slug <=> i = first
  BY <1>2 DEF CanvasPages!Distinct
<1>6. page.shown = {first}
  BY <1>2, <1>3, <1>4, <1>5
<1>. QED
  BY <1>2, <1>6

(****************************************************************************)
(* A board.                                                                 *)
(****************************************************************************)
CardsOf == [id : Nat, value : CanvasViews!CardValues]

\* What is drawn is what was read, each record once, and a column has all and
\* only those of its choice.
BoardInv ==
  /\ cards \in Seq(CardsOf) /\ \A i \in DOMAIN cards : cards[i].id = i
  /\ drawing = [pc |-> drawing.pc, preferred |-> drawing.preferred, read |-> drawing.read,
                field |-> drawing.field, columns |-> drawing.columns]
  /\ drawing.read \subseteq CardsOf
  /\ IsFiniteSet(drawing.read) /\ Cardinality(drawing.read) <= CardLimit
  /\ \A c, d \in drawing.read : c.id = d.id => c = d
  /\ drawing.pc = "read" => drawing.field = 0
  /\ CanvasViews!Drawn =>
       \A c \in DOMAIN drawing.columns :
         drawing.columns[c] = {card \in drawing.read : card.value = c}

\* The number of elements is the one the library counts.
LEMMA CardinalityOfViews ==
  ASSUME NEW S PROVE CanvasViews!Cardinality(S) = Cardinality(S)
BY DEF CanvasViews!Cardinality, Cardinality

\* The newest cards are at most CardLimit, one of each number.
LEMMA NewestAreFew ==
  ASSUME cards \in Seq(CardsOf), \A i \in DOMAIN cards : cards[i].id = i
  PROVE  /\ CanvasViews!Newest \subseteq CardsOf
         /\ IsFiniteSet(CanvasViews!Newest) /\ Cardinality(CanvasViews!Newest) <= CardLimit
         /\ \A c, d \in CanvasViews!Newest : c.id = d.id => c = d
<1>. DEFINE J == {j \in DOMAIN cards : Len(cards) - j < CardLimit}
            f == [i \in J |-> cards[i]]
<1>0. cards \in Seq(CardsOf)
  OBVIOUS
<1>1. PICK n \in Nat : n = Len(cards) /\ DOMAIN cards = 1 .. n
  <2>1. Len(cards) \in Nat /\ DOMAIN cards = 1 .. Len(cards)
    <3>. HIDE DEF J, f
    <3>. QED
      BY ONLY <1>0
  <2>. QED
    BY <2>1
<1>2. PICK l \in Nat : l = CardLimit
  BY ConstantsOfWrites
<1>3. CanvasViews!Newest = {cards[i] : i \in J}
  BY DEF CanvasViews!Newest
<1>4. IsFiniteSet(J) /\ Cardinality(J) <= CardLimit
  <2>1. PICK a \in Int : /\ n < l => a = 1
                         /\ ~(n < l) => a = n - l + 1
    <3>1. 1 \in Int /\ n - l + 1 \in Int
      OBVIOUS
    <3>. QED
      BY <3>1
  <2>2. /\ IsFiniteSet(a .. n)
        /\ Cardinality(a .. n) = IF a > n THEN 0 ELSE n - a + 1
    BY <2>1, FS_Interval
  <2>3. \A j \in 1 .. n : n - j < l => j \in a .. n
    BY <2>1
  <2>4. J \in SUBSET (a .. n)
    BY <1>1, <1>2, <2>3
  <2>. HIDE DEF J
  <2>5. IsFiniteSet(J) /\ Cardinality(J) <= Cardinality(a .. n)
    BY <2>2, <2>4, FS_Subset
  <2>6. Cardinality(a .. n) <= l /\ Cardinality(a .. n) \in Nat
    BY <2>1, <2>2
  <2>7. Cardinality(J) \in Nat
    BY <2>5, FS_CardinalityType
  <2>. QED
    BY <1>2, <2>5, <2>6, <2>7
<1>5. f \in Surjection(J, CanvasViews!Newest)
  BY <1>3 DEF Surjection
<1>6. CanvasViews!Newest \subseteq CardsOf
  BY <1>1, <1>3
<1>7. \A c, d \in CanvasViews!Newest : c.id = d.id => c = d
  BY <1>1, <1>3
<1>. HIDE DEF J, f
<1>8. /\ IsFiniteSet(CanvasViews!Newest)
      /\ Cardinality(CanvasViews!Newest) <= Cardinality(J)
  BY <1>4, <1>5, FS_Surjection
<1>9. Cardinality(J) \in Nat /\ Cardinality(CanvasViews!Newest) \in Nat
  BY <1>4, <1>8, FS_CardinalityType
<1>. QED
  BY <1>2, <1>4, <1>6, <1>7, <1>8, <1>9

\* A step of this part, or of another, keeps BoardInv.
LEMMA BoardStep ==
  ASSUME BoardInv, [CanvasViews!KanbanBoardNext]_kanbanVars PROVE BoardInv'
<1>1. CASE UNCHANGED <<cards, drawing>>
  BY <1>1 DEF BoardInv, CanvasViews!Drawn
<1>2. CASE CanvasViews!CreateRecord
  <2>1. UNCHANGED drawing
    BY <1>2 DEF CanvasViews!CreateRecord
  <2>2. PICK v \in CanvasViews!CardValues :
          cards' = Append(cards, [id |-> Len(cards) + 1, value |-> v])
    BY <1>2 DEF CanvasViews!CreateRecord
  <2>3. cards \in Seq(CardsOf) /\ Len(cards) \in Nat
    BY DEF BoardInv
  <2>4. PICK x \in CardsOf : x = [id |-> Len(cards) + 1, value |-> v]
    <3>1. Len(cards) + 1 \in Nat
      BY <2>3
    <3>2. [id |-> Len(cards) + 1, value |-> v] \in CardsOf
      BY <3>1, Zenon DEF CardsOf
    <3>. QED
      BY <3>2
  <2>5. x.id = Len(cards) + 1
    BY <2>4
  <2>6. cards' \in Seq(CardsOf) /\ \A i \in DOMAIN cards' : cards'[i].id = i
    BY <2>2, <2>3, <2>4, <2>5 DEF BoardInv
  <2>. QED
    BY <2>1, <2>6 DEF BoardInv, CanvasViews!Drawn
<1>3. CASE CanvasViews!UpdateRecord
  <2>1. UNCHANGED drawing
    BY <1>3 DEF CanvasViews!UpdateRecord
  <2>2. PICK i \in DOMAIN cards, v \in CanvasViews!CardValues :
          cards' = [cards EXCEPT ![i].value = v]
    BY <1>3 DEF CanvasViews!UpdateRecord
  <2>3. cards \in Seq(CardsOf) /\ cards[i] \in CardsOf /\ cards[i].id = i
    BY DEF BoardInv
  <2>4. PICK x \in CardsOf : x = [cards[i] EXCEPT !.value = v] /\ x.id = i
    <3>1. [cards[i] EXCEPT !.value = v] \in CardsOf
      BY <2>3, Zenon DEF CardsOf
    <3>2. [cards[i] EXCEPT !.value = v].id = i
      BY <2>3 DEF CardsOf
    <3>. QED
      BY <3>1, <3>2
  <2>5. cards' = [cards EXCEPT ![i] = x]
    BY <2>2, <2>3, <2>4
  <2>6. cards' \in Seq(CardsOf) /\ \A j \in DOMAIN cards' : cards'[j].id = j
    <3>1. PICK n \in Nat : n = Len(cards) /\ cards \in [1 .. n -> CardsOf]
      BY <2>3
    <3>2. cards' \in [1 .. n -> CardsOf] /\ \A j \in 1 .. n : cards'[j].id = j
      BY <2>4, <2>5, <3>1 DEF BoardInv
    <3>. QED
      BY <3>1, <3>2
  <2>. QED
    BY <2>1, <2>6 DEF BoardInv, CanvasViews!Drawn
<1>4. CASE CanvasViews!FetchCollectionData
  <2>1. PICK p : drawing' = [pc |-> "read", preferred |-> p, read |-> CanvasViews!Newest,
                             field |-> 0, columns |-> <<>>]
    BY <1>4 DEF CanvasViews!FetchCollectionData, CanvasViews!NoDrawing
  <2>2. UNCHANGED cards
    BY <1>4 DEF CanvasViews!FetchCollectionData
  <2>3. /\ drawing'.pc = "read" /\ drawing'.read = CanvasViews!Newest /\ drawing'.field = 0
        /\ drawing' = [pc |-> drawing'.pc, preferred |-> drawing'.preferred,
             read |-> drawing'.read, field |-> drawing'.field, columns |-> drawing'.columns]
    BY <2>1
  <2>4. /\ CanvasViews!Newest \subseteq CardsOf
        /\ IsFiniteSet(CanvasViews!Newest) /\ Cardinality(CanvasViews!Newest) <= CardLimit
        /\ \A c, d \in CanvasViews!Newest : c.id = d.id => c = d
    BY NewestAreFew DEF BoardInv
  <2>5. ~CanvasViews!Drawn'
    BY <2>3 DEF CanvasViews!Drawn
  <2>6. cards' \in Seq(CardsOf) /\ \A i \in DOMAIN cards' : cards'[i].id = i
    BY <2>2 DEF BoardInv
  <2>. QED
    BY <2>3, <2>4, <2>5, <2>6 DEF BoardInv
<1>5. CASE CanvasViews!BuildKanbanColumns
  <2>. DEFINE fit == CanvasViews!GroupFields(fields, drawing.preferred)
              f == CHOOSE g \in fit : \A h \in fit : g <= h
  <2>1. UNCHANGED cards /\ drawing.pc = "read" /\ drawing.field = 0
    BY <1>5 DEF CanvasViews!BuildKanbanColumns, BoardInv
  <2>2. \/ drawing' = [drawing EXCEPT !.pc = "drawn"]
        \/ \E g, choices : drawing' = [drawing EXCEPT !.pc = "drawn", !.field = g,
             !.columns = CanvasViews!Columns(choices, drawing.read)]
    BY <1>5 DEF CanvasViews!BuildKanbanColumns
  <2>3. /\ drawing' = [pc |-> drawing'.pc, preferred |-> drawing'.preferred,
             read |-> drawing'.read, field |-> drawing'.field, columns |-> drawing'.columns]
        /\ drawing'.read = drawing.read /\ drawing'.pc = "drawn"
    BY <2>2 DEF BoardInv
  <2>4. ASSUME CanvasViews!Drawn', NEW c \in DOMAIN drawing'.columns
        PROVE  drawing'.columns[c] = {card \in drawing'.read : card.value = c}
    <3>1. drawing'.field # 0
      BY <2>4 DEF CanvasViews!Drawn
    <3>2. PICK g, choices : drawing' = [drawing EXCEPT !.pc = "drawn", !.field = g,
             !.columns = CanvasViews!Columns(choices, drawing.read)]
      BY <2>1, <2>2, <3>1 DEF BoardInv
    <3>3. drawing'.columns = CanvasViews!Columns(choices, drawing.read)
      BY <3>2 DEF BoardInv
    <3>. QED
      BY <2>3, <2>4, <3>3 DEF CanvasViews!Columns
  <2>. QED
    BY <2>1, <2>3, <2>4 DEF BoardInv
<1>. QED
  BY <1>1, <1>2, <1>3, <1>4, <1>5
     DEF kanbanVars, CanvasViews!KanbanBoardNext, CanvasViews!DefineCollection

\* BoardInv holds in every reachable state.
LEMMA BoardHolds == Spec => []BoardInv
<1>1. Init => BoardInv
  <2>. SUFFICES ASSUME Init PROVE BoardInv
    OBVIOUS
  <2>1. /\ cards = <<>>
        /\ drawing = [pc |-> "idle", preferred |-> 0, read |-> {}, field |-> 0, columns |-> <<>>]
    BY DEF Init, CanvasViews!KanbanBoardInit, CanvasViews!NoDrawing, CanvasViews!NotPreferred
  <2>2. drawing.pc = "idle" /\ drawing.read = {}
    BY <2>1
  <2>3. IsFiniteSet(drawing.read) /\ Cardinality(drawing.read) <= CardLimit
    BY <2>2, FS_EmptySet, ConstantsOfWrites
  <2>. QED
    BY <2>1, <2>2, <2>3 DEF BoardInv, CanvasViews!Drawn
<1>. QED
  BY <1>1, BoardStep, StepOfParts, PTL DEF Spec

\* What the runs check of it follows from BoardInv.
LEMMA BoardsFileOnce == BoardInv => CanvasViews!CardsAreFiledOnce
<1>. SUFFICES ASSUME BoardInv, CanvasViews!Drawn PROVE CanvasViews!CardsAreFiledOnce
  BY DEF CanvasViews!CardsAreFiledOnce
<1>. DEFINE ids == {card.id : card \in CanvasViews!Shown}
            f == [card \in CanvasViews!Shown |-> card.id]
<1>1. /\ \A c \in DOMAIN drawing.columns :
           drawing.columns[c] = {card \in drawing.read : card.value = c}
      /\ CanvasViews!Shown \in SUBSET drawing.read
  BY DEF BoardInv, CanvasViews!Shown
<1>2. \A card \in drawing.read : card.value \in DOMAIN drawing.columns => card \in CanvasViews!Shown
  BY <1>1 DEF CanvasViews!Shown
<1>3. IsFiniteSet(drawing.read) /\ Cardinality(drawing.read) <= CardLimit
  BY DEF BoardInv
<1>4. IsFiniteSet(CanvasViews!Shown) /\ Cardinality(CanvasViews!Shown) <= Cardinality(drawing.read)
  BY <1>1, <1>3, FS_Subset
<1>5. /\ Cardinality(CanvasViews!Shown) \in Nat /\ Cardinality(drawing.read) \in Nat
      /\ CardLimit \in Nat
  BY <1>3, <1>4, FS_CardinalityType, ConstantsOfWrites
<1>6. Cardinality(CanvasViews!Shown) <= CardLimit
  BY <1>3, <1>4, <1>5
<1>7. ExistsBijection(CanvasViews!Shown, ids)
  <2>1. \A c, d \in CanvasViews!Shown : c.id = d.id => c = d
    BY <1>1 DEF BoardInv
  <2>2. f \in [CanvasViews!Shown -> ids] /\ \A t \in ids : \E c \in CanvasViews!Shown : f[c] = t
    OBVIOUS
  <2>3. \A c, d \in CanvasViews!Shown : f[c] = f[d] => c = d
    BY <2>1
  <2>4. f \in Bijection(CanvasViews!Shown, ids)
    <3>. HIDE DEF f, ids
    <3>. QED
      BY <2>2, <2>3 DEF Bijection, Injection, Surjection, IsInjective
  <2>. QED
    BY <2>4 DEF ExistsBijection
<1>8. Cardinality(ids) = Cardinality(CanvasViews!Shown)
  <2>. HIDE DEF ids
  <2>. QED
    BY <1>4, <1>7, FS_Bijection
<1>9. /\ CanvasViews!Cardinality(ids) = CanvasViews!Cardinality(CanvasViews!Shown)
      /\ CanvasViews!Cardinality(CanvasViews!Shown) <= CardLimit
  <2>1. /\ CanvasViews!Cardinality(ids) = Cardinality(ids)
        /\ CanvasViews!Cardinality(CanvasViews!Shown) = Cardinality(CanvasViews!Shown)
    <3>. HIDE DEF ids
    <3>. QED
      BY CardinalityOfViews
  <2>. QED
    BY <1>6, <1>8, <2>1
<1>10. \A c \in DOMAIN drawing.columns : \A card \in drawing.columns[c] : card.value = c
  BY <1>1
<1>11. \A card \in drawing.read \ CanvasViews!Shown : card.value \notin DOMAIN drawing.columns
  BY <1>2
<1>. QED
  BY <1>9, <1>10, <1>11 DEF CanvasViews!CardsAreFiledOnce

(****************************************************************************)
(* The writes.                                                              *)
(****************************************************************************)
\* However calls on one history, canvas, collection, site, app or board overlap,
\* for any number of callers and any bounds: a history is a line, a canvas keeps
\* its edits and a deleted one is private, a record fits the fields it was made
\* under and has what was written last, pages and forms are of their site, an
\* app shows one view of its list, and a board files each card once.
THEOREM WritesKept == Spec => []WritesAreKept
<1>1. /\ RevisionsInv /\ CanvasInv /\ SchemaInv /\ SitesInv /\ AppsInv /\ BoardInv
      => WritesAreKept
  BY HistoriesAreLines, CanvasesKeepEdits, RecordsAreKept, AppsShowOneView, BoardsFileOnce
     DEF WritesAreKept, SitesInv
<1>. QED
  BY <1>1, RevisionsHold, CanvasHolds, SchemaHolds, SitesHold, AppsHold, BoardHolds, PTL

(****************************************************************************)
(* Templates.  While no two runs overlapped, one run at most is under way,  *)
(* and what it found missing stays missing until it makes it.               *)
(****************************************************************************)
PartCount == CollectionCount + CanvasCount + AutomationCount
ApplyStages == [stage : {"idle", "check", "make"}, at : 1 .. (PartCount + 1)]

TemplatesTyped ==
  /\ copies \in [WorkspaceSetup!Parts -> Nat] /\ raced \in BOOLEAN
  /\ applying \in [Applies -> ApplyStages]
  /\ applied \in [Applies -> SUBSET WorkspaceSetup!Parts]

\* What is true of the r-th run.
RunApplies(r) ==
  /\ \A i \in applied[r] : copies[i] > 0
  /\ applying[r].stage = "make" =>
       /\ ~WorkspaceSetup!IsCollection(applying[r].at)
       /\ ~raced /\ applying[r].at \in WorkspaceSetup!Parts => copies[applying[r].at] = 0

TemplatesInv ==
  /\ TemplatesTyped
  /\ \A r \in Applies : RunApplies(r)
  /\ ~raced => \A r, q \in Applies :
                 applying[r].stage # "idle" /\ applying[q].stage # "idle" => r = q
  /\ \A i \in WorkspaceSetup!Parts :
       /\ ~raced => copies[i] <= 1
       /\ WorkspaceSetup!IsCollection(i) \/ WorkspaceSetup!IsCanvas(i) => copies[i] <= 1
       /\ copies[i] <= MaxCopies

\* The parts of a template are numbered from 1, and there is an end of them.
LEMMA PartsAreNumbered ==
  /\ PartCount \in Nat /\ WorkspaceSetup!Parts = 1 .. PartCount
  /\ WorkspaceSetup!Cardinality(WorkspaceSetup!Parts) = PartCount
  /\ 1 \in 1 .. (PartCount + 1)
  /\ \A i \in WorkspaceSetup!Parts : i + 1 \in 1 .. (PartCount + 1) /\ i \in 1 .. (PartCount + 1)
<1>1. PartCount \in Nat /\ WorkspaceSetup!Parts = 1 .. PartCount
  BY ConstantsOfTemplates DEF PartCount, WorkspaceSetup!Parts
<1>2. Cardinality(1 .. PartCount) = PartCount
  BY <1>1, FS_Interval
<1>3. WorkspaceSetup!Cardinality(WorkspaceSetup!Parts) = PartCount
  BY <1>1, <1>2 DEF WorkspaceSetup!Cardinality, Cardinality
<1>. QED
  BY <1>1, <1>3

\* A step of this part, or of another, keeps TemplatesInv.
LEMMA TemplatesStep ==
  ASSUME TemplatesInv, [WorkspaceSetup!TemplatesNext]_templatesVars PROVE TemplatesInv'
<1>. USE DEF WorkspaceSetup!Idle, ApplyStages
<1>0. /\ PartCount \in Nat /\ WorkspaceSetup!Parts = 1 .. PartCount
      /\ 1 \in 1 .. (PartCount + 1)
      /\ \A i \in WorkspaceSetup!Parts : i + 1 \in 1 .. (PartCount + 1) /\ i \in 1 .. (PartCount + 1)
  BY PartsAreNumbered
<1>1. ASSUME NEW r \in Applies, WorkspaceSetup!ApplyTemplate(r) PROVE TemplatesInv'
  <2>1. TemplatesTyped'
    BY <1>0, <1>1 DEF WorkspaceSetup!ApplyTemplate, TemplatesInv, TemplatesTyped
  <2>2. ASSUME NEW q \in Applies PROVE RunApplies(q)'
    <3>1. CASE q = r
      BY <1>1, <3>1 DEF WorkspaceSetup!ApplyTemplate, TemplatesInv, TemplatesTyped, RunApplies
    <3>2. CASE q # r
      BY <1>1, <3>2 DEF WorkspaceSetup!ApplyTemplate, TemplatesInv, TemplatesTyped, RunApplies,
                        WorkspaceSetup!IsCollection
    <3>. QED
      BY <3>1, <3>2
  <2>3. ~raced' => \A o, q \in Applies :
                     applying'[o].stage # "idle" /\ applying'[q].stage # "idle" => o = q
    BY <1>1 DEF WorkspaceSetup!ApplyTemplate, WorkspaceSetup!Others, TemplatesInv, TemplatesTyped
  <2>. QED
    BY <1>1, <2>1, <2>2, <2>3
    DEF WorkspaceSetup!ApplyTemplate, TemplatesInv, WorkspaceSetup!IsCollection, WorkspaceSetup!IsCanvas
<1>2. ASSUME NEW r \in Applies, NEW i \in WorkspaceSetup!Parts, i = applying[r].at,
             applying[r].stage # "idle",
             NEW n \in Nat, n > 0, n >= copies[i], n <= MaxCopies,
             copies' = [copies EXCEPT ![i] = n],
             WorkspaceSetup!Advance(r), UNCHANGED raced,
             ~raced \/ WorkspaceSetup!IsCollection(i) \/ WorkspaceSetup!IsCanvas(i) => n <= 1
      PROVE  TemplatesInv'
  <2>1. /\ applying' = [applying EXCEPT ![r] = [stage |-> "check", at |-> i + 1]]
        /\ applied' = [applied EXCEPT ![r] = @ \cup {i}]
    BY <1>2 DEF WorkspaceSetup!Advance, TemplatesInv, TemplatesTyped
  <2>2. TemplatesTyped'
    BY <1>0, <1>2, <2>1 DEF TemplatesInv, TemplatesTyped
  <2>3. \A j \in WorkspaceSetup!Parts : copies'[j] >= copies[j] /\ (j # i => copies'[j] = copies[j])
    BY <1>2 DEF TemplatesInv, TemplatesTyped
  <2>4. ASSUME NEW q \in Applies PROVE RunApplies(q)'
    <3>0. /\ RunApplies(q) /\ applied[q] \subseteq WorkspaceSetup!Parts
          /\ \A j \in WorkspaceSetup!Parts : copies[j] \in Nat /\ copies'[j] \in Nat
      BY <2>2 DEF TemplatesInv, TemplatesTyped
    <3>1. \A j \in applied[q] : copies'[j] > 0
      BY <2>3, <3>0 DEF RunApplies
    <3>2. copies'[i] > 0
      BY <1>2 DEF TemplatesInv, TemplatesTyped
    <3>3. CASE q = r
      BY <2>1, <3>1, <3>2, <3>3 DEF RunApplies, TemplatesInv, TemplatesTyped
    <3>4. CASE q # r
      <4>1. applied'[q] = applied[q] /\ applying'[q] = applying[q]
        BY <2>1, <3>4 DEF TemplatesInv, TemplatesTyped
      <4>2. ~raced => applying[q].stage = "idle"
        BY <1>2, <3>4 DEF TemplatesInv
      <4>. QED
        BY <1>2, <3>0, <3>1, <4>1, <4>2 DEF RunApplies, WorkspaceSetup!IsCollection
    <3>. QED
      BY <3>3, <3>4
  <2>5. ~raced' => \A o, q \in Applies :
                     applying'[o].stage # "idle" /\ applying'[q].stage # "idle" => o = q
    BY <1>2, <2>1 DEF TemplatesInv, TemplatesTyped
  <2>6. \A j \in WorkspaceSetup!Parts :
          /\ ~raced' => copies'[j] <= 1
          /\ WorkspaceSetup!IsCollection(j) \/ WorkspaceSetup!IsCanvas(j) => copies'[j] <= 1
          /\ copies'[j] <= MaxCopies
    BY <1>2, <2>3 DEF TemplatesInv, TemplatesTyped
  <2>. QED
    BY <2>2, <2>4, <2>5, <2>6
    DEF TemplatesInv, WorkspaceSetup!IsCollection, WorkspaceSetup!IsCanvas
<1>3. ASSUME NEW r \in Applies, WorkspaceSetup!DefineCollection(r) PROVE TemplatesInv'
  <2>1. PICK i \in WorkspaceSetup!Parts : i = applying[r].at
    BY <1>3 DEF WorkspaceSetup!DefineCollection, WorkspaceSetup!Going
  <2>2. /\ copies' = [copies EXCEPT ![i] = 1] /\ WorkspaceSetup!Advance(r) /\ UNCHANGED raced
        /\ WorkspaceSetup!IsCollection(i) /\ applying[r].stage # "idle"
    BY <1>3, <2>1 DEF WorkspaceSetup!DefineCollection, WorkspaceSetup!Going
  <2>3. MaxCopies \in Nat \ {0}
    BY ConstantsOfTemplates
  <2>4. copies[i] \in Nat /\ copies[i] <= 1
    BY <2>2 DEF TemplatesInv, TemplatesTyped
  <2>5. PICK n \in Nat : n = 1
    OBVIOUS
  <2>6. /\ n > 0 /\ n >= copies[i] /\ n <= MaxCopies /\ copies' = [copies EXCEPT ![i] = n]
        /\ ~raced \/ WorkspaceSetup!IsCollection(i) \/ WorkspaceSetup!IsCanvas(i) => n <= 1
    BY <2>2, <2>3, <2>4, <2>5
  <2>. QED
    BY <1>2, <2>1, <2>2, <2>6
<1>4. ASSUME NEW r \in Applies, WorkspaceSetup!Exists(r) PROVE TemplatesInv'
  <2>1. PICK i \in WorkspaceSetup!Parts :
          /\ i = applying[r].at /\ applying[r].stage = "check" /\ ~WorkspaceSetup!IsCollection(i)
          /\ copies[i] \in Nat /\ copies[i] <= MaxCopies
    BY <1>4 DEF WorkspaceSetup!Exists, WorkspaceSetup!Going, TemplatesInv, TemplatesTyped
  <2>2. CASE copies[i] > 0
    <3>1. copies' = [copies EXCEPT ![i] = copies[i]]
      BY <1>4, <2>1 DEF WorkspaceSetup!Exists, TemplatesInv, TemplatesTyped
    <3>2. WorkspaceSetup!Advance(r) /\ UNCHANGED raced
      BY <1>4, <2>1, <2>2 DEF WorkspaceSetup!Exists
    <3>3. ~raced \/ WorkspaceSetup!IsCollection(i) \/ WorkspaceSetup!IsCanvas(i) => copies[i] <= 1
      BY DEF TemplatesInv
    <3>4. copies[i] >= copies[i]
      BY <2>1
    <3>. QED
      BY <1>2, <2>1, <2>2, <3>1, <3>2, <3>3, <3>4
  <2>3. CASE ~(copies[i] > 0)
    <3>1. /\ applying' = [applying EXCEPT ![r].stage = "make"]
          /\ UNCHANGED <<applied, copies, raced>> /\ copies[i] = 0
      BY <1>4, <2>1, <2>3 DEF WorkspaceSetup!Exists
    <3>2. applying' \in [Applies -> ApplyStages] /\ applying'[r].stage = "make" /\ applying'[r].at = i
          /\ \A q \in Applies : q # r => applying'[q] = applying[q]
      BY <2>1, <3>1 DEF TemplatesInv, TemplatesTyped
    <3>3. ASSUME NEW q \in Applies PROVE RunApplies(q)'
      <4>1. CASE q = r
        BY <2>1, <3>1, <3>2, <4>1 DEF TemplatesInv, RunApplies, WorkspaceSetup!IsCollection
      <4>2. CASE q # r
        BY <3>1, <3>2, <4>2 DEF TemplatesInv, RunApplies, WorkspaceSetup!IsCollection
      <4>. QED
        BY <4>1, <4>2
    <3>4. ~raced' => \A o, q \in Applies :
                       applying'[o].stage # "idle" /\ applying'[q].stage # "idle" => o = q
      <4>1. \A q \in Applies : applying'[q].stage # "idle" => applying[q].stage # "idle"
        BY <2>1, <3>2
      <4>. QED
        BY <3>1, <4>1 DEF TemplatesInv
    <3>. QED
      BY <3>1, <3>2, <3>3, <3>4
      DEF TemplatesInv, TemplatesTyped, WorkspaceSetup!IsCollection, WorkspaceSetup!IsCanvas
  <2>. QED
    BY <2>2, <2>3
<1>5. ASSUME NEW r \in Applies, WorkspaceSetup!Create(r) PROVE TemplatesInv'
  <2>1. PICK i \in WorkspaceSetup!Parts :
          /\ i = applying[r].at /\ applying[r].stage = "make" /\ copies[i] \in Nat
          /\ ~WorkspaceSetup!IsCollection(i) /\ (~raced => copies[i] = 0)
    BY <1>5 DEF WorkspaceSetup!Create, WorkspaceSetup!Going, TemplatesInv, TemplatesTyped, RunApplies
  <2>2. /\ copies' = [copies EXCEPT ![i] = copies[i] + 1] /\ WorkspaceSetup!Advance(r) /\ UNCHANGED raced
        /\ copies[i] < (IF WorkspaceSetup!IsCanvas(i) THEN 1 ELSE MaxCopies)
    BY <1>5, <2>1 DEF WorkspaceSetup!Create
  <2>3. copies[i] + 1 <= MaxCopies
    BY <2>1, <2>2, ConstantsOfTemplates
  <2>4. /\ copies[i] + 1 \in Nat /\ copies[i] + 1 > 0 /\ copies[i] + 1 >= copies[i]
        /\ ~raced \/ WorkspaceSetup!IsCollection(i) \/ WorkspaceSetup!IsCanvas(i) => copies[i] + 1 <= 1
    BY <2>1, <2>2
  <2>. QED
    BY <1>2, <2>1, <2>2, <2>3, <2>4
<1>6. ASSUME NEW r \in Applies, WorkspaceSetup!ApplyFails(r) \/ WorkspaceSetup!ApplyEnds(r)
      PROVE  TemplatesInv'
  <2>1. /\ applying' = [applying EXCEPT ![r] = [stage |-> "idle", at |-> 1]]
        /\ UNCHANGED <<copies, raced>>
        /\ applied' \in [Applies -> SUBSET WorkspaceSetup!Parts]
        /\ \A q \in Applies : applied'[q] \subseteq applied[q]
    BY <1>6 DEF WorkspaceSetup!ApplyFails, WorkspaceSetup!ApplyEnds, TemplatesInv, TemplatesTyped
  <2>2. TemplatesTyped'
    BY <1>0, <2>1 DEF TemplatesInv, TemplatesTyped
  <2>3. \A q \in Applies : applying'[q] = applying[q] \/ applying'[q].stage = "idle"
    BY <2>1 DEF TemplatesInv, TemplatesTyped
  <2>4. \A q \in Applies : RunApplies(q)'
    BY <2>1, <2>3 DEF TemplatesInv, RunApplies, WorkspaceSetup!IsCollection
  <2>. QED
    BY <2>1, <2>2, <2>3, <2>4
    DEF TemplatesInv, WorkspaceSetup!IsCollection, WorkspaceSetup!IsCanvas
<1>7. CASE UNCHANGED templatesVars
  BY <1>7 DEF templatesVars, TemplatesInv, TemplatesTyped, RunApplies,
              WorkspaceSetup!IsCollection, WorkspaceSetup!IsCanvas
<1>. QED
  BY <1>1, <1>3, <1>4, <1>5, <1>6, <1>7 DEF WorkspaceSetup!TemplatesNext

\* TemplatesInv holds in every reachable state.
LEMMA TemplatesHold == Spec => []TemplatesInv
<1>1. Init => TemplatesInv
  <2>. SUFFICES ASSUME WorkspaceSetup!TemplatesInit PROVE TemplatesInv
    BY DEF Init
  <2>1. MaxCopies \in Nat
    BY ConstantsOfTemplates
  <2>2. TemplatesTyped
    BY PartsAreNumbered DEF WorkspaceSetup!TemplatesInit, WorkspaceSetup!Idle, TemplatesTyped, ApplyStages
  <2>3. \A r \in Applies : RunApplies(r)
    BY DEF WorkspaceSetup!TemplatesInit, WorkspaceSetup!Idle, RunApplies
  <2>. QED
    BY <2>1, <2>2, <2>3 DEF WorkspaceSetup!TemplatesInit, WorkspaceSetup!Idle, TemplatesInv
<1>. QED
  BY <1>1, TemplatesStep, StepOfParts, PTL DEF Spec

(****************************************************************************)
(* Packages.                                                                *)
(****************************************************************************)
RowStates == {"absent", "on", "off"}
Switches == [stage : {"idle", "read", "written"}, package : SUBSET Packages, on : BOOLEAN]

PackagesTyped ==
  /\ packagesRows \in [Packages -> RowStates]
  /\ loading \in [state : {"down", "loading", "up"}, left : SUBSET Packages]
  /\ switching \in [Admins -> Switches]

\* What an admin does, and that nobody does anything unless the process is up.
SwitchesTyped(a) ==
  /\ switching[a].stage = "idle" => switching[a] = WorkspaceSetup!NoSwitch
  /\ switching[a].stage # "idle" =>
       /\ loading.state = "up"
       /\ \E p \in Packages : switching[a].package = {p}

\* A start has looked at p, or has yet to.
Looked(p) ==
  /\ p \in loading.left => p \notin enabled
  /\ p \notin loading.left /\ p \notin crossed =>
       /\ p \in enabled <=> packagesRows[p] = "on"
       /\ p \in enabled => p \in packagesRegistered

\* Between the two writes of a switch only the admin who switches knows.
Followed(p) ==
  p \notin crossed =>
    /\ \A a, b \in Admins : switching[a].package = {p} /\ switching[b].package = {p} => a = b
    /\ \/ p \in enabled <=> packagesRows[p] = "on"
       \/ \E a \in Admins : switching[a].stage = "written" /\ switching[a].package = {p}
    /\ \A a \in Admins : switching[a].stage = "written" /\ switching[a].package = {p} =>
         (packagesRows[p] = "on" <=> switching[a].on)

PackagesInv ==
  /\ PackagesTyped
  /\ \A a \in Admins : SwitchesTyped(a)
  /\ loading.state = "loading" => \A p \in Packages : Looked(p)
  /\ loading.state = "up" => loading.left = {} /\ \A p \in Packages : Followed(p)

\* A package that no switch is about.
LEMMA NothingSwitched ==
  /\ WorkspaceSetup!NoSwitch \in Switches
  /\ WorkspaceSetup!NoSwitch.stage = "idle" /\ WorkspaceSetup!NoSwitch.package = {}
  /\ \A p \in Packages : WorkspaceSetup!NoSwitch.package # {p}
BY DEF WorkspaceSetup!NoSwitch, Switches

\* A start that begins has looked at nothing.
LEMMA StartKeepsPackages ==
  ASSUME PackagesInv, WorkspaceSetup!StartHarness PROVE PackagesInv'
<1>1. /\ loading.state = "down" /\ loading' = [state |-> "loading", left |-> Packages]
      /\ packagesRegistered' = {} /\ enabled' = {} /\ crossed' = {}
      /\ UNCHANGED <<packagesRows, switching>>
  BY DEF WorkspaceSetup!StartHarness
<1>2. PackagesTyped'
  BY <1>1 DEF PackagesInv, PackagesTyped
<1>3. \A a \in Admins : SwitchesTyped(a)'
  BY <1>1 DEF PackagesInv, SwitchesTyped
<1>4. \A p \in Packages : Looked(p)'
  BY <1>1 DEF Looked
<1>5. loading'.state = "loading"
  BY <1>1
<1>. QED
  BY <1>2, <1>3, <1>4, <1>5 DEF PackagesInv

\* A package that is looked at is enabled exactly when its row says so from now
\* on, if the row is written.
LEMMA LoadKeepsPackages ==
  ASSUME PackagesInv, NEW p \in Packages, WorkspaceSetup!LoadPackage(p) PROVE PackagesInv'
<1>1. /\ loading.state = "loading" /\ p \in loading.left
      /\ loading' = [loading EXCEPT !.left = @ \ {p}]
      /\ UNCHANGED <<switching, starts>>
  BY DEF WorkspaceSetup!LoadPackage
<1>2. PICK before \in BOOLEAN, after \in {"on", "off"}, gone \in BOOLEAN :
        /\ before = (packagesRows[p] = "on")
        /\ after = IF before \/ p \in Requested THEN "on" ELSE "off"
        /\ packagesRows' = IF gone THEN packagesRows ELSE [packagesRows EXCEPT ![p] = after]
        /\ IF p \in Requested \/ before
           THEN packagesRegistered' = packagesRegistered \cup {p} /\ enabled' = enabled \cup {p}
           ELSE UNCHANGED <<packagesRegistered, enabled>>
        /\ crossed' = IF gone THEN crossed \cup {p} ELSE crossed
  BY DEF WorkspaceSetup!LoadPackage, WorkspaceSetup!UpsertPackage, WorkspaceSetup!RegisterTools
<1>3. PackagesTyped'
  BY <1>1, <1>2 DEF PackagesInv, PackagesTyped, RowStates
<1>4. loading'.state = "loading" /\ loading'.left = loading.left \ {p}
  BY <1>1 DEF PackagesInv, PackagesTyped
<1>5. \A a \in Admins : SwitchesTyped(a)'
  BY <1>1, <1>4 DEF PackagesInv, SwitchesTyped
<1>6. Looked(p)'
  <2>1. p \notin enabled
    BY <1>1 DEF PackagesInv, Looked
  <2>2. p \in DOMAIN packagesRows
    BY DEF PackagesInv, PackagesTyped
  <2>3. CASE gone
    BY <1>2, <1>4, <2>3 DEF Looked
  <2>4. CASE ~gone
    <3>1. packagesRows'[p] = after
      BY <1>2, <2>2, <2>4
    <3>2. p \in enabled' <=> after = "on"
      BY <1>2, <2>1
    <3>3. p \in enabled' => p \in packagesRegistered'
      BY <1>2, <2>1
    <3>. QED
      BY <1>4, <3>1, <3>2, <3>3 DEF Looked
  <2>. QED
    BY <2>3, <2>4
<1>7. ASSUME NEW q \in Packages, q # p PROVE Looked(q)'
  <2>1. Looked(q)
    BY <1>1 DEF PackagesInv
  <2>2. /\ q \in enabled' <=> q \in enabled
        /\ q \in packagesRegistered' <=> q \in packagesRegistered
        /\ q \in crossed' <=> q \in crossed
        /\ packagesRows'[q] = packagesRows[q] /\ (q \in loading'.left <=> q \in loading.left)
    BY <1>2, <1>4, <1>7 DEF PackagesInv, PackagesTyped
  <2>. QED
    BY <2>1, <2>2 DEF Looked
<1>. QED
  BY <1>3, <1>4, <1>5, <1>6, <1>7 DEF PackagesInv

\* A start that ends has looked at all of them.
LEMMA ActivationKeepsPackages ==
  ASSUME PackagesInv, WorkspaceSetup!ActivatePackages PROVE PackagesInv'
<1>1. /\ loading = [state |-> "loading", left |-> {}]
      /\ UNCHANGED <<packagesRows, packagesRegistered, enabled, switching, crossed>>
  BY DEF WorkspaceSetup!ActivatePackages
<1>2. PICK ready \in {"up", "down"} : loading' = [loading EXCEPT !.state = ready]
  BY DEF WorkspaceSetup!ActivatePackages
<1>3. loading' = [state |-> ready, left |-> {}]
  BY <1>1, <1>2
<1>4. PackagesTyped'
  BY <1>1, <1>3 DEF PackagesInv, PackagesTyped
<1>5. \A a \in Admins : switching[a] = WorkspaceSetup!NoSwitch
  BY <1>1 DEF PackagesInv, SwitchesTyped
<1>6. \A a \in Admins : SwitchesTyped(a)'
  BY <1>1, <1>5, NothingSwitched DEF SwitchesTyped
<1>7. \A p \in Packages : Followed(p)'
  <2>1. \A p \in Packages : Looked(p)
    BY <1>1 DEF PackagesInv
  <2>. QED
    BY <1>1, <1>5, <2>1, NothingSwitched DEF Looked, Followed
<1>8. loading'.state \in {"up", "down"} /\ loading'.left = {}
  BY <1>3
<1>. QED
  BY <1>4, <1>6, <1>7, <1>8 DEF PackagesInv

\* Whoever switches what another switches is crossed.
LEMMA ToggleKeepsPackages ==
  ASSUME PackagesInv, NEW a \in Admins, NEW p \in Packages, WorkspaceSetup!TogglePackage(a, p)
  PROVE  PackagesInv'
<1>. DEFINE mine == [stage |-> "read", package |-> {p}, on |-> packagesRows[p] = "off"]
<1>1. /\ loading.state = "up" /\ switching[a].stage = "idle"
      /\ switching' = [switching EXCEPT ![a] = mine]
      /\ crossed' = IF WorkspaceSetup!OtherAdmins(a, p) = {} THEN crossed ELSE crossed \cup {p}
      /\ UNCHANGED <<packagesRows, loading, packagesRegistered, enabled>>
  BY DEF WorkspaceSetup!TogglePackage
<1>2. mine \in Switches /\ mine.stage = "read" /\ mine.package = {p}
  BY Zenon DEF Switches
<1>. HIDE DEF mine
<1>3. PackagesTyped'
  BY <1>1, <1>2 DEF PackagesInv, PackagesTyped
<1>4. switching'[a] = mine /\ \A b \in Admins : b # a => switching'[b] = switching[b]
  BY <1>1 DEF PackagesInv, PackagesTyped
<1>5. \A b \in Admins : SwitchesTyped(b)'
  BY <1>1, <1>2, <1>4 DEF PackagesInv, SwitchesTyped
<1>6. ASSUME NEW q \in Packages PROVE Followed(q)'
  <2>1. Followed(q)
    BY <1>1 DEF PackagesInv
  <2>. SUFFICES ASSUME q \notin crossed' PROVE Followed(q)'
    BY DEF Followed
  <2>2. q \notin crossed /\ (q = p => WorkspaceSetup!OtherAdmins(a, p) = {})
    BY <1>1
  <2>3. CASE q = p
    <3>1. \A b \in Admins : b # a => switching[b].package # {p}
      <4>1. \A b \in Admins : b # a /\ switching[b].stage # "idle" => switching[b].package # {p}
        BY <2>2, <2>3 DEF WorkspaceSetup!OtherAdmins
      <4>2. \A b \in Admins : switching[b].stage = "idle" => switching[b].package # {p}
        BY NothingSwitched DEF PackagesInv, SwitchesTyped
      <4>. QED
        BY <4>1, <4>2
    <3>2. p \in enabled <=> packagesRows[p] = "on"
      BY <1>1, <2>1, <2>2, <2>3, <3>1 DEF Followed
    <3>. QED
      BY <1>1, <1>2, <1>4, <2>3, <3>1, <3>2 DEF Followed
  <2>4. CASE q # p
    <3>1. switching'[a].package # {q} /\ switching'[a].stage # "written"
      BY <1>2, <1>4, <2>4
    <3>2. switching[a].stage # "written"
      BY <1>1
    <3>. QED
      BY <1>1, <1>4, <2>1, <2>2, <3>1, <3>2 DEF Followed
  <2>. QED
    BY <2>3, <2>4
<1>. QED
  BY <1>1, <1>3, <1>5, <1>6 DEF PackagesInv

\* An admin lets go without having written the row.
LEMMA GivingUpKeepsPackages ==
  ASSUME PackagesInv, NEW a \in Admins, switching[a].stage = "read",
         switching' = [switching EXCEPT ![a] = WorkspaceSetup!NoSwitch],
         UNCHANGED <<packagesRows, loading, packagesRegistered, enabled, crossed>>
  PROVE  PackagesInv'
<1>1. PackagesTyped'
  BY NothingSwitched DEF PackagesInv, PackagesTyped
<1>2. switching'[a] = WorkspaceSetup!NoSwitch /\ \A b \in Admins : b # a => switching'[b] = switching[b]
  BY DEF PackagesInv, PackagesTyped
<1>3. \A b \in Admins : SwitchesTyped(b)'
  BY <1>2, NothingSwitched DEF PackagesInv, SwitchesTyped
<1>4. loading.state = "up"
  BY DEF PackagesInv, SwitchesTyped
<1>5. ASSUME NEW q \in Packages PROVE Followed(q)'
  <2>1. Followed(q)
    BY <1>4 DEF PackagesInv
  <2>2. \A b \in Admins : switching'[b].package = {q} =>
          switching'[b] = switching[b] /\ b # a
    BY <1>2, NothingSwitched
  <2>3. \A b \in Admins : switching[b].stage = "written" => switching'[b] = switching[b]
    BY <1>2
  <2>. QED
    BY <2>1, <2>2, <2>3 DEF Followed
<1>. QED
  BY <1>1, <1>3, <1>4, <1>5 DEF PackagesInv

\* The row of the one package an admin switches.
LEMMA WriteKeepsPackages ==
  ASSUME PackagesInv, NEW a \in Admins, WorkspaceSetup!WriteToggle(a) PROVE PackagesInv'
<1>1. /\ switching[a].stage = "read"
      /\ UNCHANGED <<loading, packagesRegistered, enabled, crossed>>
  BY DEF WorkspaceSetup!WriteToggle
<1>2. CASE switching' = [switching EXCEPT ![a] = WorkspaceSetup!NoSwitch] /\ UNCHANGED packagesRows
  BY <1>1, <1>2, GivingUpKeepsPackages
<1>3. ASSUME packagesRows' = [p \in Packages |->
               IF p \in switching[a].package THEN (IF switching[a].on THEN "on" ELSE "off")
               ELSE packagesRows[p]],
             switching' = [switching EXCEPT ![a].stage = "written"]
      PROVE  PackagesInv'
  <2>1. /\ switching'[a].stage = "written" /\ switching'[a].package = switching[a].package
        /\ switching'[a].on = switching[a].on
        /\ \A b \in Admins : b # a => switching'[b] = switching[b]
    BY <1>3 DEF PackagesInv, PackagesTyped, Switches
  <2>2. PackagesTyped'
    <3>1. packagesRows' \in [Packages -> RowStates]
      BY <1>3 DEF PackagesInv, PackagesTyped, RowStates
    <3>2. switching' \in [Admins -> Switches]
      BY <1>3 DEF PackagesInv, PackagesTyped, Switches
    <3>. QED
      BY <1>1, <3>1, <3>2 DEF PackagesInv, PackagesTyped
  <2>3. loading.state = "up"
    BY <1>1 DEF PackagesInv, SwitchesTyped
  <2>4. PICK p \in Packages : switching[a].package = {p}
    BY <1>1 DEF PackagesInv, SwitchesTyped
  <2>5. \A b \in Admins : SwitchesTyped(b)'
    BY <1>1, <2>1, <2>3, <2>4 DEF PackagesInv, SwitchesTyped
  <2>6. /\ packagesRows'[p] = "on" <=> switching[a].on
        /\ \A q \in Packages : q # p => packagesRows'[q] = packagesRows[q]
    BY <1>3, <2>4
  <2>7. ASSUME NEW q \in Packages, q \notin crossed PROVE Followed(q)'
    <3>1. Followed(q)
      BY <2>3 DEF PackagesInv
    <3>2. \A b \in Admins : switching'[b].package = switching[b].package
      BY <2>1
    <3>3. CASE q = p
      <4>1. \A b \in Admins : switching[b].package = {q} => b = a
        BY <2>4, <2>7, <3>1, <3>3 DEF Followed
      <4>. QED
        BY <2>1, <2>4, <2>6, <3>2, <3>3, <4>1 DEF Followed
    <3>4. CASE q # p
      <4>1. switching[a].package # {q}
        BY <2>4, <3>4
      <4>2. packagesRows'[q] = packagesRows[q]
        BY <2>6, <3>4
      <4>. QED
        BY <1>1, <2>1, <2>7, <3>1, <3>2, <4>1, <4>2 DEF Followed
    <3>. QED
      BY <3>3, <3>4
  <2>8. \A q \in Packages : Followed(q)'
    BY <1>1, <2>7 DEF Followed
  <2>. QED
    BY <1>1, <2>2, <2>3, <2>5, <2>8 DEF PackagesInv
<1>. QED
  BY <1>2, <1>3 DEF WorkspaceSetup!WriteToggle

\* The registry follows the row that was written.
LEMMA SwitchKeepsPackages ==
  ASSUME PackagesInv, NEW a \in Admins, WorkspaceSetup!SwitchTools(a) PROVE PackagesInv'
<1>1. /\ switching[a].stage = "written"
      /\ enabled' = IF switching[a].on THEN enabled \cup switching[a].package
                                       ELSE enabled \ switching[a].package
      /\ switching' = [switching EXCEPT ![a] = WorkspaceSetup!NoSwitch]
      /\ UNCHANGED <<packagesRows, loading, packagesRegistered, crossed>>
  BY DEF WorkspaceSetup!SwitchTools
<1>2. PackagesTyped'
  BY <1>1, NothingSwitched DEF PackagesInv, PackagesTyped
<1>3. switching'[a] = WorkspaceSetup!NoSwitch /\ \A b \in Admins : b # a => switching'[b] = switching[b]
  BY <1>1 DEF PackagesInv, PackagesTyped
<1>4. \A b \in Admins : SwitchesTyped(b)'
  BY <1>1, <1>3, NothingSwitched DEF PackagesInv, SwitchesTyped
<1>5. loading.state = "up"
  BY <1>1 DEF PackagesInv, SwitchesTyped
<1>6. PICK p \in Packages : switching[a].package = {p}
  BY <1>1 DEF PackagesInv, SwitchesTyped
<1>7. ASSUME NEW q \in Packages, q \notin crossed PROVE Followed(q)'
  <2>1. Followed(q)
    BY <1>5 DEF PackagesInv
  <2>2. switching'[a].package # {q} /\ switching'[a].stage # "written"
    BY <1>3, NothingSwitched
  <2>3. CASE q = p
    <3>1. \A b \in Admins : switching[b].package = {q} => b = a
      BY <1>6, <1>7, <2>1, <2>3 DEF Followed
    <3>2. \A b \in Admins : switching'[b].package # {q}
      BY <1>3, <2>2, <3>1
    <3>3. packagesRows[q] = "on" <=> switching[a].on
      BY <1>1, <1>6, <1>7, <2>1, <2>3 DEF Followed
    <3>4. q \in enabled' <=> switching[a].on
      BY <1>1, <1>6, <2>3
    <3>. QED
      BY <1>1, <3>2, <3>3, <3>4 DEF Followed
  <2>4. CASE q # p
    <3>1. switching[a].package # {q} /\ (q \in enabled' <=> q \in enabled)
      BY <1>1, <1>6, <2>4
    <3>. QED
      BY <1>1, <1>3, <1>7, <2>1, <2>2, <3>1 DEF Followed
  <2>. QED
    BY <2>3, <2>4
<1>8. \A q \in Packages : Followed(q)'
  BY <1>1, <1>7 DEF Followed
<1>. QED
  BY <1>1, <1>2, <1>4, <1>5, <1>8 DEF PackagesInv

\* A step of this part, or of another, keeps PackagesInv.
LEMMA PackagesStep ==
  ASSUME PackagesInv, [WorkspaceSetup!PackagesNext]_packagesVars PROVE PackagesInv'
<1>1. CASE WorkspaceSetup!Crash
  <2>1. loading' = [state |-> "down", left |-> {}] /\ switching' = [a \in Admins |-> WorkspaceSetup!NoSwitch]
        /\ UNCHANGED packagesRows
    BY <1>1 DEF WorkspaceSetup!Crash
  <2>. QED
    BY <2>1, NothingSwitched DEF PackagesInv, PackagesTyped, SwitchesTyped
<1>2. CASE UNCHANGED packagesVars
  BY <1>2 DEF packagesVars, PackagesInv, PackagesTyped, SwitchesTyped, Looked, Followed
<1>. QED
  BY <1>1, <1>2, StartKeepsPackages, LoadKeepsPackages, ActivationKeepsPackages,
     ToggleKeepsPackages, WriteKeepsPackages, SwitchKeepsPackages
     DEF WorkspaceSetup!PackagesNext

\* PackagesInv holds in every reachable state.
LEMMA PackagesHold == Spec => []PackagesInv
<1>1. Init => PackagesInv
  BY NothingSwitched
     DEF Init, WorkspaceSetup!PackagesInit, WorkspaceSetup!Absent, PackagesInv, PackagesTyped,
         RowStates, SwitchesTyped
<1>. QED
  BY <1>1, PackagesStep, StepOfParts, PTL DEF Spec

\* What the run checks of it follows from PackagesInv.
LEMMA RegistryFollows == PackagesInv => WorkspaceSetup!RegistryFollowsRows
BY DEF PackagesInv, Followed, WorkspaceSetup!RegistryFollowsRows, WorkspaceSetup!Untouched

\* What is enabled when the harness starts has its tools.
LEMMA EnabledHaveTools == Spec => WorkspaceSetup!EnabledAtStartHasTools
<1>. DEFINE Tools == \A p \in Packages :
        loading = [state |-> "loading", left |-> {}] /\ loading'.state = "up"
        /\ packagesRows[p] = "on" /\ p \notin crossed => p \in packagesRegistered \cap enabled
<1>1. PackagesInv => Tools
  <2>. SUFFICES ASSUME PackagesInv, NEW p \in Packages,
                       loading = [state |-> "loading", left |-> {}],
                       packagesRows[p] = "on", p \notin crossed
       PROVE  p \in packagesRegistered \cap enabled
    OBVIOUS
  <2>1. Looked(p) /\ loading.left = {}
    BY DEF PackagesInv
  <2>. QED
    BY <2>1 DEF Looked
<1>2. PackagesInv /\ [Next]_vars => [Tools]_packagesVars
  BY <1>1
<1>. QED
  BY <1>2, PackagesHold, PTL
     DEF Spec, WorkspaceSetup!EnabledAtStartHasTools, WorkspaceSetup!packagesVars, packagesVars

(****************************************************************************)
(* Processes of the server.                                                 *)
(****************************************************************************)
Early == {"none", "connect", "assemble", "reconcile", "count"}
ProcStates == Early \cup {"deploy", "activate", "bind", "serving", "draining", "exited", "crashed"}
Procs == [pc : ProcStates, next : 1 .. (FleetSize + 1), beside : SUBSET ServerProcess!Processes,
          drained : Nat]
AgentRows == [status : {"none", "active", "working", "idle"}, claim : {"none", "claimed", "submitted"}]
RowsOfAgents == [ServerProcess!Processes -> [ServerProcess!Agents -> AgentRows]]
RequestsOf == [ServerProcess!Processes ->
                [ServerProcess!Slots -> [kind : {"none", "plain", "stream"}, age : Nat]]]

ProcessTyped ==
  /\ procs \in [ServerProcess!Processes -> Procs]
  /\ processRows \in RowsOfAgents
  /\ requests \in RequestsOf

\* A process has no agents before it deploys them, one after the other.
YetToDeploy(p) ==
  /\ procs[p].pc \in Early =>
       procs[p].next = 1 /\ \A a \in ServerProcess!Agents : processRows[p][a].status = "none"
  /\ procs[p].pc = "deploy" =>
       \A a \in ServerProcess!Agents : a >= procs[p].next => processRows[p][a].status = "none"

Deploys(p) == procs[p].pc = "deploy" \/ \E a \in ServerProcess!Agents : processRows[p][a].status # "none"

ProcessInv ==
  /\ ProcessTyped
  /\ \A p \in ServerProcess!Processes : YetToDeploy(p)
  /\ \A p, q \in ServerProcess!Processes :
       Deploys(p) /\ Deploys(q) /\ p # q => p \in procs[q].beside \/ q \in procs[p].beside

\* What was asked for is left, or one request changes.
LEMMA RequestsTyped ==
  ASSUME ProcessInv, NEW p \in ServerProcess!Processes
  PROVE  /\ requests \in RequestsOf
         /\ [requests EXCEPT ![p] = [s \in ServerProcess!Slots |-> ServerProcess!NoRequest]] \in RequestsOf
         /\ \A s \in ServerProcess!Slots :
              [requests EXCEPT ![p][s] = ServerProcess!NoRequest] \in RequestsOf
         /\ \A s \in ServerProcess!Slots, k \in {"plain", "stream"} :
              [requests EXCEPT ![p][s] = [kind |-> k, age |-> 0]] \in RequestsOf
BY DEF ProcessInv, ProcessTyped, RequestsOf, ServerProcess!NoRequest

\* A process goes on without having deployed.
LEMMA GoingOnKeepsProcesses ==
  ASSUME ProcessInv, NEW p \in ServerProcess!Processes, NEW pc \in ProcStates,
         procs' = [procs EXCEPT ![p].pc = pc], requests' \in RequestsOf, UNCHANGED processRows,
         pc \in Early => procs[p].pc \in Early, pc # "deploy"
  PROVE  ProcessInv'
<1>1. ProcessTyped'
  BY DEF ProcessInv, ProcessTyped, Procs
<1>2. /\ procs'[p].pc = pc /\ procs'[p].next = procs[p].next /\ procs'[p].beside = procs[p].beside
      /\ \A q \in ServerProcess!Processes : q # p => procs'[q] = procs[q]
  BY DEF ProcessInv, ProcessTyped, Procs
<1>3. \A q \in ServerProcess!Processes : YetToDeploy(q)'
  BY <1>2 DEF ProcessInv, YetToDeploy
<1>4. \A q \in ServerProcess!Processes : Deploys(q)' => Deploys(q)
  BY <1>2 DEF Deploys
<1>5. \A q \in ServerProcess!Processes : procs'[q].beside = procs[q].beside
  BY <1>2
<1>. QED
  BY <1>1, <1>3, <1>4, <1>5 DEF ProcessInv

\* The row of an agent that was deployed.
LEMMA WorkKeepsProcesses ==
  ASSUME ProcessInv, NEW p \in ServerProcess!Processes, NEW a \in ServerProcess!Agents,
         NEW row \in AgentRows, processRows[p][a].status # "none",
         processRows' = [processRows EXCEPT ![p][a] = row], UNCHANGED <<procs, requests>>
  PROVE  ProcessInv'
<1>1. ProcessTyped'
  BY DEF ProcessInv, ProcessTyped, RowsOfAgents
<1>2. \A q \in ServerProcess!Processes, b \in ServerProcess!Agents :
        (q # p \/ b # a) => processRows'[q][b] = processRows[q][b]
  BY DEF ProcessInv, ProcessTyped, RowsOfAgents
<1>3. \A q \in ServerProcess!Processes : YetToDeploy(q)'
  BY <1>2 DEF ProcessInv, YetToDeploy
<1>4. \A q \in ServerProcess!Processes : Deploys(q)' => Deploys(q)
  BY <1>2 DEF Deploys
<1>. QED
  BY <1>1, <1>3, <1>4 DEF ProcessInv

\* A start takes what is at work for the trace of a crash.
LEMMA ReconcileKeepsProcesses ==
  ASSUME ProcessInv, NEW p \in ServerProcess!Processes, ServerProcess!ReconcileOnStartup(p)
  PROVE  ProcessInv'
<1>1. /\ procs[p].pc = "reconcile" /\ procs' = [procs EXCEPT ![p].pc = "count"]
      /\ UNCHANGED requests
      /\ ServerProcess!ResetAll \/ UNCHANGED processRows
  BY DEF ServerProcess!ReconcileOnStartup
<1>2. /\ procs'[p].pc = "count" /\ procs'[p].next = procs[p].next /\ procs'[p].beside = procs[p].beside
      /\ \A q \in ServerProcess!Processes : q # p => procs'[q] = procs[q]
  BY <1>1 DEF ProcessInv, ProcessTyped, Procs
<1>3. /\ processRows' \in RowsOfAgents
      /\ \A q \in ServerProcess!Processes, a \in ServerProcess!Agents :
           processRows'[q][a].status = "none" <=> processRows[q][a].status = "none"
  <2>1. CASE UNCHANGED processRows
    BY <2>1 DEF ProcessInv, ProcessTyped
  <2>2. CASE ServerProcess!ResetAll
    <3>1. \A q \in ServerProcess!Processes, a \in ServerProcess!Agents :
            /\ ServerProcess!Reset(processRows[q][a]) \in AgentRows
            /\ ServerProcess!Reset(processRows[q][a]).status = "none" <=> processRows[q][a].status = "none"
      <4>1. \A row \in AgentRows :
              /\ ServerProcess!Reset(row) \in AgentRows
              /\ ServerProcess!Reset(row).status = "none" <=> row.status = "none"
        BY DEF AgentRows, ServerProcess!Reset
      <4>2. \A q \in ServerProcess!Processes, a \in ServerProcess!Agents : processRows[q][a] \in AgentRows
        BY DEF ProcessInv, ProcessTyped, RowsOfAgents
      <4>. QED
        BY <4>1, <4>2
    <3>2. processRows' = [q \in ServerProcess!Processes |->
                            [a \in ServerProcess!Agents |-> ServerProcess!Reset(processRows[q][a])]]
      BY <2>2 DEF ServerProcess!ResetAll
    <3>. QED
      BY <3>1, <3>2 DEF RowsOfAgents
  <2>. QED
    BY <1>1, <2>1, <2>2
<1>4. ProcessTyped'
  BY <1>1, <1>3 DEF ProcessInv, ProcessTyped, Procs, ProcStates, Early
<1>5. \A q \in ServerProcess!Processes : YetToDeploy(q)'
  BY <1>1, <1>2, <1>3 DEF ProcessInv, YetToDeploy, Early
<1>6. \A q \in ServerProcess!Processes : Deploys(q)' => Deploys(q)
  BY <1>1, <1>2, <1>3 DEF Deploys
<1>7. \A q \in ServerProcess!Processes : procs'[q].beside = procs[q].beside
  BY <1>2
<1>. QED
  BY <1>4, <1>5, <1>6, <1>7 DEF ProcessInv

\* Who finds no agent will deploy, beside those who are about to.
LEMMA CountKeepsProcesses ==
  ASSUME ProcessInv, NEW p \in ServerProcess!Processes, ServerProcess!CountAgents(p)
  PROVE  ProcessInv'
<1>. DEFINE anyone == \E q \in ServerProcess!Processes, a \in ServerProcess!Agents :
                       processRows[q][a].status # "none"
            about == {q \in ServerProcess!Processes \ {p} : procs[q].pc = "deploy"}
<1>1. /\ procs[p].pc = "count" /\ UNCHANGED <<processRows, requests>>
      /\ procs' = [procs EXCEPT ![p] = [@ EXCEPT !.pc = IF anyone THEN "activate" ELSE "deploy",
                                                 !.beside = about]]
  BY DEF ServerProcess!CountAgents
<1>2. \A q \in ServerProcess!Processes : q \in about <=> q # p /\ procs[q].pc = "deploy"
  OBVIOUS
<1>3. about \subseteq ServerProcess!Processes
  OBVIOUS
<1>. HIDE DEF about
<1>4. PICK pc \in {"activate", "deploy"} : pc = IF anyone THEN "activate" ELSE "deploy"
  OBVIOUS
<1>5. pc = "deploy" => \A q \in ServerProcess!Processes, a \in ServerProcess!Agents :
                         processRows[q][a].status = "none"
  BY <1>4
<1>6. procs' = [procs EXCEPT ![p] = [procs[p] EXCEPT !.pc = pc, !.beside = about]]
  BY <1>1, <1>4
<1>. HIDE DEF anyone
<1>7. PICK new \in Procs : /\ new = [procs[p] EXCEPT !.pc = pc, !.beside = about]
                           /\ new.pc = pc /\ new.beside = about /\ new.next = procs[p].next
  <2>1. procs[p] \in Procs
    BY DEF ProcessInv, ProcessTyped
  <2>. QED
    <3>1. \A k \in Procs : LET l == [k EXCEPT !.pc = pc, !.beside = about] IN
            l \in Procs /\ l.pc = pc /\ l.beside = about /\ l.next = k.next
      BY <1>3 DEF Procs, ProcStates
    <3>. HIDE DEF Procs
    <3>. QED
      BY <2>1, <3>1
<1>8. procs' = [procs EXCEPT ![p] = new]
  BY <1>6, <1>7
<1>9. /\ procs' \in [ServerProcess!Processes -> Procs] /\ procs'[p] = new
      /\ \A q \in ServerProcess!Processes : q # p => procs'[q] = procs[q]
  BY <1>8 DEF ProcessInv, ProcessTyped
<1>10. ProcessTyped'
  BY <1>1, <1>9 DEF ProcessInv, ProcessTyped
<1>11. \A a \in ServerProcess!Agents : processRows[p][a].status = "none"
  BY <1>1 DEF ProcessInv, YetToDeploy, Early
<1>12. \A q \in ServerProcess!Processes : YetToDeploy(q)'
  BY <1>1, <1>7, <1>9, <1>11 DEF ProcessInv, YetToDeploy, Early
<1>13. \A q \in ServerProcess!Processes : q # p /\ Deploys(q)' => Deploys(q)
  BY <1>1, <1>9 DEF Deploys
<1>14. ASSUME Deploys(p)', NEW q \in ServerProcess!Processes, q # p, Deploys(q)'
       PROVE  q \in procs'[p].beside
  <2>1. pc = "deploy"
    BY <1>1, <1>7, <1>9, <1>11, <1>14 DEF Deploys
  <2>2. procs[q].pc = "deploy"
    BY <1>5, <1>13, <1>14, <2>1 DEF Deploys
  <2>. QED
    BY <1>2, <1>7, <1>9, <1>14, <2>2
<1>15. ASSUME NEW r \in ServerProcess!Processes, NEW q \in ServerProcess!Processes,
              Deploys(r)', Deploys(q)', r # q
       PROVE  r \in procs'[q].beside \/ q \in procs'[r].beside
  <2>1. CASE r = p
    BY <1>14, <1>15, <2>1
  <2>2. CASE q = p
    BY <1>14, <1>15, <2>2
  <2>3. CASE r # p /\ q # p
    BY <1>9, <1>13, <1>15, <2>3 DEF ProcessInv
  <2>. QED
    BY <2>1, <2>2, <2>3
<1>. QED
  BY <1>10, <1>12, <1>15 DEF ProcessInv

\* The next agent is deployed, or passed over.
LEMMA DeployKeepsProcesses ==
  ASSUME ProcessInv, NEW p \in ServerProcess!Processes, ServerProcess!DeployAgent(p)
  PROVE  ProcessInv'
<1>1. /\ procs[p].pc = "deploy" /\ procs[p].next \in ServerProcess!Agents
      /\ \/ processRows' = [processRows EXCEPT ![p][procs[p].next].status = "active"]
         \/ UNCHANGED processRows
      /\ procs' = [procs EXCEPT ![p].next = @ + 1]
      /\ UNCHANGED requests
  BY DEF ServerProcess!DeployAgent
<1>2. PICK a \in ServerProcess!Agents : a = procs[p].next
  BY <1>1
<1>3. FleetSize \in Nat
  BY ConstantsOfProcesses
<1>4. a \in Nat /\ a + 1 \in 1 .. (FleetSize + 1)
  BY <1>3 DEF ServerProcess!Agents
<1>5. /\ procs' \in [ServerProcess!Processes -> Procs]
      /\ procs'[p].pc = "deploy" /\ procs'[p].next = a + 1 /\ procs'[p].beside = procs[p].beside
      /\ \A q \in ServerProcess!Processes : q # p => procs'[q] = procs[q]
  BY <1>1, <1>2, <1>4 DEF ProcessInv, ProcessTyped, Procs
<1>6. /\ processRows' \in RowsOfAgents
      /\ \A q \in ServerProcess!Processes, b \in ServerProcess!Agents :
           (q # p \/ b # a) => processRows'[q][b] = processRows[q][b]
  <2>1. processRows \in RowsOfAgents
    BY DEF ProcessInv, ProcessTyped
  <2>2. CASE UNCHANGED processRows
    BY <2>1, <2>2
  <2>3. CASE processRows' = [processRows EXCEPT ![p][procs[p].next].status = "active"]
    <3>1. PICK row \in AgentRows : row = [processRows[p][a] EXCEPT !.status = "active"]
      <4>1. processRows[p][a] \in AgentRows
        BY <2>1 DEF RowsOfAgents
      <4>. QED
        BY <4>1 DEF AgentRows
    <3>2. processRows' = [processRows EXCEPT ![p] = [processRows[p] EXCEPT ![a] = row]]
      BY <1>2, <2>1, <2>3, <3>1 DEF RowsOfAgents
    <3>. QED
      BY <2>1, <3>2 DEF RowsOfAgents
  <2>. QED
    BY <1>1, <2>2, <2>3
<1>7. ProcessTyped'
  BY <1>1, <1>5, <1>6 DEF ProcessInv, ProcessTyped
<1>8. \A b \in ServerProcess!Agents : b >= a + 1 => b >= a /\ b # a
  BY <1>4 DEF ServerProcess!Agents
<1>9. \A q \in ServerProcess!Processes : YetToDeploy(q)'
  <2>1. YetToDeploy(p)'
    BY <1>1, <1>2, <1>5, <1>6, <1>8 DEF ProcessInv, YetToDeploy, Early
  <2>2. \A q \in ServerProcess!Processes : q # p => YetToDeploy(q)'
    BY <1>5, <1>6 DEF ProcessInv, YetToDeploy
  <2>. QED
    BY <2>1, <2>2
<1>10. \A q \in ServerProcess!Processes : Deploys(q)' => Deploys(q)
  BY <1>1, <1>5, <1>6 DEF Deploys
<1>11. \A q \in ServerProcess!Processes : procs'[q].beside = procs[q].beside
  BY <1>5
<1>. QED
  BY <1>7, <1>9, <1>10, <1>11 DEF ProcessInv

\* Time passes for those who drain and for requests.
LEMMA TickKeepsProcesses ==
  ASSUME ProcessInv, ServerProcess!Tick PROVE ProcessInv'
<1>1. /\ procs' = [p \in ServerProcess!Processes |->
             IF procs[p].pc = "draining" THEN [procs[p] EXCEPT !.drained = @ + 1] ELSE procs[p]]
      /\ requests' = [p \in ServerProcess!Processes |-> [s \in ServerProcess!Slots |->
             IF requests[p][s].kind = "plain" THEN [requests[p][s] EXCEPT !.age = @ + 1]
             ELSE requests[p][s]]]
      /\ UNCHANGED processRows
  BY DEF ServerProcess!Tick
<1>2. /\ procs' \in [ServerProcess!Processes -> Procs]
      /\ \A p \in ServerProcess!Processes : /\ procs'[p].pc = procs[p].pc
             /\ procs'[p].next = procs[p].next /\ procs'[p].beside = procs[p].beside
  <2>1. \A k \in Procs : LET l == [k EXCEPT !.drained = @ + 1] IN
          l \in Procs /\ l.pc = k.pc /\ l.next = k.next /\ l.beside = k.beside
    BY DEF Procs
  <2>2. \A p \in ServerProcess!Processes : procs[p] \in Procs
    BY DEF ProcessInv, ProcessTyped
  <2>. HIDE DEF Procs
  <2>. QED
    BY <1>1, <2>1, <2>2
<1>3. requests' \in RequestsOf
  <2>. DEFINE Asked == [kind : {"none", "plain", "stream"}, age : Nat]
  <2>1. \A k \in Asked : [k EXCEPT !.age = @ + 1] \in Asked
    OBVIOUS
  <2>2. \A p \in ServerProcess!Processes, s \in ServerProcess!Slots : requests[p][s] \in Asked
    BY DEF ProcessInv, ProcessTyped, RequestsOf
  <2>3. RequestsOf = [ServerProcess!Processes -> [ServerProcess!Slots -> Asked]]
    BY DEF RequestsOf
  <2>. HIDE DEF Asked
  <2>. QED
    BY <1>1, <2>1, <2>2, <2>3
<1>4. ProcessTyped'
  BY <1>1, <1>2, <1>3 DEF ProcessInv, ProcessTyped
<1>5. \A q \in ServerProcess!Processes : YetToDeploy(q)' /\ (Deploys(q)' => Deploys(q))
  BY <1>1, <1>2 DEF ProcessInv, YetToDeploy, Deploys
<1>. QED
  BY <1>2, <1>4, <1>5 DEF ProcessInv

\* A step of this part, or of another, keeps ProcessInv.
LEMMA ProcessStep ==
  ASSUME ProcessInv, [ServerProcess!HarnessProcessNext]_processVars PROVE ProcessInv'
<1>1. CASE UNCHANGED processVars
  BY <1>1 DEF processVars, ProcessInv, ProcessTyped, YetToDeploy, Deploys
<1>. USE DEF ProcStates, Early
<1>2. ASSUME NEW p \in ServerProcess!Processes,
             \/ ServerProcess!Begin(p) \/ ServerProcess!Connect(p) \/ ServerProcess!Assemble(p)
             \/ ServerProcess!ActivatePackages(p) \/ ServerProcess!Bind(p)
             \/ ServerProcess!DeployEnds(p) \/ ServerProcess!ShutdownSignal(p)
      PROVE  ProcessInv'
  <2>1. /\ UNCHANGED <<processRows, requests>>
        /\ \E pc \in ProcStates : /\ procs' = [procs EXCEPT ![p].pc = pc]
                                  /\ pc \in Early => procs[p].pc \in Early
                                  /\ pc # "deploy"
    BY <1>2 DEF ServerProcess!Begin, ServerProcess!Connect, ServerProcess!Assemble,
                ServerProcess!ActivatePackages, ServerProcess!Bind, ServerProcess!Step,
                ServerProcess!DeployEnds, ServerProcess!ShutdownSignal
  <2>. QED
    BY <2>1, RequestsTyped, GoingOnKeepsProcesses
<1>3. ASSUME NEW p \in ServerProcess!Processes,
             \/ ServerProcess!Drained(p) \/ ServerProcess!DrainWatchdog(p) \/ ServerProcess!Crash(p)
      PROVE  ProcessInv'
  <2>1. /\ UNCHANGED processRows
        /\ requests' = [requests EXCEPT ![p] = [s \in ServerProcess!Slots |-> ServerProcess!NoRequest]]
        /\ \E pc \in {"exited", "crashed"} : procs' = [procs EXCEPT ![p].pc = pc]
    BY <1>3 DEF ServerProcess!Drained, ServerProcess!DrainWatchdog, ServerProcess!Crash,
                ServerProcess!Close
  <2>2. requests' \in RequestsOf
    BY <2>1, RequestsTyped
  <2>. QED
    BY <2>1, <2>2, GoingOnKeepsProcesses
<1>4. ASSUME NEW p \in ServerProcess!Processes, NEW s \in ServerProcess!Slots,
             ServerProcess!Accept(p, s) \/ ServerProcess!Answer(p, s)
      PROVE  ProcessInv'
  <2>1. requests' \in RequestsOf /\ UNCHANGED <<procs, processRows>>
    <3>1. \/ requests' = [requests EXCEPT ![p][s] = ServerProcess!NoRequest]
          \/ \E k \in {"plain", "stream"} : requests' = [requests EXCEPT ![p][s] = [kind |-> k, age |-> 0]]
      BY <1>4 DEF ServerProcess!Accept, ServerProcess!Answer
    <3>2. UNCHANGED <<procs, processRows>>
      BY <1>4 DEF ServerProcess!Accept, ServerProcess!Answer
    <3>. QED
      <4>1. /\ [requests EXCEPT ![p][s] = ServerProcess!NoRequest] \in RequestsOf
            /\ \A k \in {"plain", "stream"} :
                 [requests EXCEPT ![p][s] = [kind |-> k, age |-> 0]] \in RequestsOf
        BY RequestsTyped
      <4>. QED
        BY <3>1, <3>2, <4>1
  <2>. QED
    BY <2>1 DEF ProcessInv, ProcessTyped, YetToDeploy, Deploys
<1>5. ASSUME NEW p \in ServerProcess!Processes, NEW a \in ServerProcess!Agents,
             \/ ServerProcess!ClaimBounty(p, a) \/ ServerProcess!SubmitProof(p, a)
             \/ ServerProcess!CheckBountyStatus(p, a)
      PROVE  ProcessInv'
  <2>1. processRows[p][a].status # "none" /\ UNCHANGED <<procs, requests>>
    BY <1>5 DEF ServerProcess!ClaimBounty, ServerProcess!SubmitProof, ServerProcess!CheckBountyStatus,
                ServerProcess!Runs
  <2>2. processRows \in RowsOfAgents
    BY DEF ProcessInv, ProcessTyped
  <2>3. \E row \in AgentRows : processRows' = [processRows EXCEPT ![p][a] = row]
    <3>1. CASE processRows' = [processRows EXCEPT ![p][a].claim = "submitted"]
      <4>1. [processRows[p][a] EXCEPT !.claim = "submitted"] \in AgentRows
        BY <2>2 DEF RowsOfAgents, AgentRows
      <4>. QED
        BY <2>2, <3>1, <4>1 DEF RowsOfAgents
    <3>2. CASE \/ processRows' = [processRows EXCEPT ![p][a] = [status |-> "working", claim |-> "claimed"]]
               \/ processRows' = [processRows EXCEPT ![p][a] = [status |-> "idle", claim |-> "none"]]
      BY <3>2 DEF AgentRows
    <3>. QED
      BY <1>5, <3>1, <3>2 DEF ServerProcess!ClaimBounty, ServerProcess!SubmitProof,
                              ServerProcess!CheckBountyStatus
  <2>. QED
    BY <2>1, <2>3, WorkKeepsProcesses
<1>. QED
  BY <1>1, <1>2, <1>3, <1>4, <1>5, TickKeepsProcesses, DeployKeepsProcesses, CountKeepsProcesses,
     ReconcileKeepsProcesses DEF ServerProcess!HarnessProcessNext

\* ProcessInv holds in every reachable state.
LEMMA ProcessHolds == Spec => []ProcessInv
<1>1. Init => ProcessInv
  <2>. SUFFICES ASSUME ServerProcess!HarnessProcessInit PROVE ProcessInv
    BY DEF Init
  <2>. USE DEF ServerProcess!HarnessProcessInit, ServerProcess!Unstarted, ServerProcess!NoAgent,
               ServerProcess!NoRequest
  <2>1. FleetSize \in Nat
    BY ConstantsOfProcesses
  <2>2. procs \in [ServerProcess!Processes -> Procs]
    BY <2>1 DEF Procs, ProcStates, Early
  <2>3. processRows \in RowsOfAgents
    BY DEF RowsOfAgents, AgentRows
  <2>4. requests \in RequestsOf
    BY DEF RequestsOf
  <2>. QED
    BY <2>2, <2>3, <2>4 DEF ProcessInv, ProcessTyped, YetToDeploy, Deploys
<1>. QED
  BY <1>1, ProcessStep, StepOfParts, PTL DEF Spec

\* What the run checks of it follows from ProcessInv.
LEMMA FleetsOfOneStart == ProcessInv => ServerProcess!FleetOfOneStart
BY DEF ProcessInv, Deploys, ServerProcess!FleetOfOneStart, ServerProcess!Deployers

\* The row of an agent tells its work; only a start of another process makes it
\* lie.
LEMMA RowsTell == Spec => ServerProcess!RowsTellTheWork
<1>. DEFINE Told == \A p \in ServerProcess!Processes, a \in ServerProcess!Agents :
       ServerProcess!Works(p, a) /\ ServerProcess!Works(p, a)' /\ processRows[p][a].status = "working" =>
         \/ processRows'[p][a].status = "working"
         \/ \E q \in ServerProcess!Processes \ {p} : procs[q].pc = "reconcile" /\ procs'[q].pc = "count"
<1>1. ProcessInv /\ [ServerProcess!HarnessProcessNext]_processVars => Told
  <2>. SUFFICES ASSUME ProcessInv, [ServerProcess!HarnessProcessNext]_processVars,
                       NEW p \in ServerProcess!Processes, NEW a \in ServerProcess!Agents,
                       ServerProcess!Works(p, a), ServerProcess!Works(p, a)',
                       processRows[p][a].status = "working"
       PROVE  \/ processRows'[p][a].status = "working"
              \/ \E q \in ServerProcess!Processes \ {p} : procs[q].pc = "reconcile" /\ procs'[q].pc = "count"
    OBVIOUS
  <2>0. /\ processRows \in RowsOfAgents /\ procs \in [ServerProcess!Processes -> Procs]
        /\ processRows[p][a].claim = "claimed" /\ processRows'[p][a].claim = "claimed"
    BY DEF ProcessInv, ProcessTyped, ServerProcess!Works
  <2>1. CASE UNCHANGED processRows
    BY <2>1
  <2>2. ASSUME NEW q \in ServerProcess!Processes, NEW b \in ServerProcess!Agents, NEW row,
               processRows' = [processRows EXCEPT ![q][b] = row],
               row.status = "working" \/ row.claim # "claimed" \/ processRows[q][b].status = "none"
        PROVE  processRows'[p][a].status = "working"
    <3>1. CASE q = p /\ b = a
      <4>1. processRows'[p][a] = row
        BY <2>0, <2>2, <3>1 DEF RowsOfAgents
      <4>. QED
        BY <2>0, <2>2, <3>1, <4>1
    <3>2. CASE ~(q = p /\ b = a)
      <4>1. processRows'[p][a] = processRows[p][a]
        BY <2>0, <2>2, <3>2 DEF RowsOfAgents
      <4>. QED
        BY <4>1
    <3>. QED
      BY <3>1, <3>2
  <2>3. ASSUME NEW q \in ServerProcess!Processes, ServerProcess!ReconcileOnStartup(q)
        PROVE  \E r \in ServerProcess!Processes \ {p} : procs[r].pc = "reconcile" /\ procs'[r].pc = "count"
    <3>1. procs[q].pc = "reconcile" /\ procs' = [procs EXCEPT ![q].pc = "count"]
      BY <2>3 DEF ServerProcess!ReconcileOnStartup
    <3>2. procs'[q].pc = "count"
      BY <2>0, <3>1 DEF Procs
    <3>3. q # p
      BY <3>1 DEF ProcessInv, YetToDeploy, Early
    <3>. QED
      BY <3>1, <3>2, <3>3
  <2>4. ASSUME NEW q \in ServerProcess!Processes, ServerProcess!DeployAgent(q)
        PROVE  processRows'[p][a].status = "working"
    <3>1. CASE processRows' = [processRows EXCEPT ![q][procs[q].next].status = "active"]
      <4>1. PICK b \in ServerProcess!Agents : b = procs[q].next
        BY <2>4 DEF ServerProcess!DeployAgent
      <4>2. processRows[q][b].status = "none"
        <5>1. b >= procs[q].next
          BY <4>1 DEF ServerProcess!Agents
        <5>. QED
          BY <2>4, <5>1 DEF ServerProcess!DeployAgent, ProcessInv, YetToDeploy
      <4>3. processRows' = [processRows EXCEPT ![q][b] = [processRows[q][b] EXCEPT !.status = "active"]]
        BY <2>0, <3>1, <4>1 DEF RowsOfAgents
      <4>. QED
        BY <2>2, <4>2, <4>3
    <3>. QED
      BY <2>1, <2>4, <3>1 DEF ServerProcess!DeployAgent
  <2>5. ASSUME NEW q \in ServerProcess!Processes, NEW b \in ServerProcess!Agents,
               \/ ServerProcess!ClaimBounty(q, b) \/ ServerProcess!SubmitProof(q, b)
               \/ ServerProcess!CheckBountyStatus(q, b)
        PROVE  processRows'[p][a].status = "working"
    <3>1. CASE processRows' = [processRows EXCEPT ![q][b].claim = "submitted"]
      <4>1. PICK row : row = [processRows[q][b] EXCEPT !.claim = "submitted"]
        OBVIOUS
      <4>2. row.claim = "submitted"
        BY <2>0, <4>1 DEF RowsOfAgents, AgentRows
      <4>3. processRows' = [processRows EXCEPT ![q][b] = row]
        BY <2>0, <3>1, <4>1 DEF RowsOfAgents
      <4>. QED
        BY <2>2, <4>2, <4>3
    <3>2. ASSUME NEW row \in {[status |-> "working", claim |-> "claimed"], [status |-> "idle", claim |-> "none"]},
                 processRows' = [processRows EXCEPT ![q][b] = row]
          PROVE  processRows'[p][a].status = "working"
      <4>1. row.status = "working" \/ row.claim # "claimed"
        OBVIOUS
      <4>. QED
        BY <2>2, <3>2, <4>1
    <3>. QED
      BY <2>5, <3>1, <3>2 DEF ServerProcess!ClaimBounty, ServerProcess!SubmitProof,
                              ServerProcess!CheckBountyStatus
  <2>6. CASE ServerProcess!Tick
    BY <2>1, <2>6 DEF ServerProcess!Tick
  <2>7. ASSUME NEW q \in ServerProcess!Processes,
               \/ ServerProcess!Begin(q) \/ ServerProcess!Connect(q) \/ ServerProcess!Assemble(q)
               \/ ServerProcess!ActivatePackages(q) \/ ServerProcess!Bind(q)
               \/ ServerProcess!CountAgents(q) \/ ServerProcess!DeployEnds(q)
               \/ ServerProcess!ShutdownSignal(q) \/ ServerProcess!Drained(q)
               \/ ServerProcess!DrainWatchdog(q) \/ ServerProcess!Crash(q)
               \/ \E s \in ServerProcess!Slots : ServerProcess!Accept(q, s) \/ ServerProcess!Answer(q, s)
        PROVE  processRows'[p][a].status = "working"
    BY <2>1, <2>7 DEF ServerProcess!Begin, ServerProcess!Connect, ServerProcess!Assemble,
       ServerProcess!ActivatePackages, ServerProcess!Bind, ServerProcess!CountAgents, ServerProcess!Step,
       ServerProcess!DeployEnds, ServerProcess!ShutdownSignal, ServerProcess!Drained,
       ServerProcess!DrainWatchdog, ServerProcess!Crash, ServerProcess!Close, ServerProcess!Accept,
       ServerProcess!Answer
  <2>8. CASE UNCHANGED processVars
    BY <2>1, <2>8 DEF processVars
  <2>9. CASE ServerProcess!HarnessProcessNext
    BY <2>3, <2>4, <2>5, <2>6, <2>7, <2>9 DEF ServerProcess!HarnessProcessNext
  <2>. QED
    BY <2>8, <2>9
<1>2. ProcessInv /\ [Next]_vars => [Told]_processVars
  BY <1>1, StepOfParts
<1>. QED
  BY <1>2, ProcessHolds, PTL
     DEF Spec, ServerProcess!RowsTellTheWork, ServerProcess!processVars, processVars

\* A process that drains ends when nothing is asked of it any more, or at the
\* deadline.
LEMMA DrainsAreGraceful == Spec => ServerProcess!DrainIsGraceful
<1>. DEFINE Graceful == \A p \in ServerProcess!Processes :
       procs[p].pc = "draining" /\ procs'[p].pc = "exited" =>
         \/ requests[p] = [s \in ServerProcess!Slots |-> ServerProcess!NoRequest]
         \/ procs[p].drained = DrainDeadline
<1>1. ProcessInv /\ [ServerProcess!HarnessProcessNext]_processVars => Graceful
  <2>. SUFFICES ASSUME ProcessInv, [ServerProcess!HarnessProcessNext]_processVars,
                       NEW p \in ServerProcess!Processes,
                       procs[p].pc = "draining", procs'[p].pc = "exited"
       PROVE  \/ requests[p] = [s \in ServerProcess!Slots |-> ServerProcess!NoRequest]
              \/ procs[p].drained = DrainDeadline
    OBVIOUS
  <2>0. procs \in [ServerProcess!Processes -> Procs] /\ requests \in RequestsOf
    BY DEF ProcessInv, ProcessTyped
  <2>1. procs'[p] # procs[p]
    OBVIOUS
  <2>2. ASSUME NEW q \in ServerProcess!Processes, NEW k, procs' = [procs EXCEPT ![q] = k],
               procs[q].pc # "draining" \/ k.pc # "exited"
        PROVE  FALSE
    <3>1. CASE q = p
      BY <2>0, <2>2, <3>1
    <3>2. CASE q # p
      BY <2>0, <2>1, <2>2, <3>2
    <3>. QED
      BY <3>1, <3>2
  <2>3. ASSUME NEW q \in ServerProcess!Processes, NEW pc, procs' = [procs EXCEPT ![q].pc = pc],
               procs[q].pc # "draining" \/ pc # "exited"
        PROVE  FALSE
    <3>1. PICK k : k = [procs[q] EXCEPT !.pc = pc]
      OBVIOUS
    <3>2. k.pc = pc /\ procs' = [procs EXCEPT ![q] = k]
      BY <2>0, <2>3, <3>1 DEF Procs
    <3>. QED
      BY <2>2, <2>3, <3>2
  <2>4. ASSUME NEW q \in ServerProcess!Processes, ServerProcess!DrainWatchdog(q)
        PROVE  procs[p].drained = DrainDeadline
    <3>1. procs' = [procs EXCEPT ![q].pc = "exited"] /\ procs[q].drained = DrainDeadline
      BY <2>4 DEF ServerProcess!DrainWatchdog, ServerProcess!Close
    <3>2. q = p
      BY <2>0, <2>1, <3>1
    <3>. QED
      BY <3>1, <3>2
  <2>5. ASSUME NEW q \in ServerProcess!Processes, ServerProcess!Drained(q)
        PROVE  requests[p] = [s \in ServerProcess!Slots |-> ServerProcess!NoRequest]
    <3>1. /\ procs' = [procs EXCEPT ![q].pc = "exited"]
          /\ \A s \in ServerProcess!Slots : requests[q][s] = ServerProcess!NoRequest
      BY <2>5 DEF ServerProcess!Drained, ServerProcess!Close
    <3>2. q = p
      BY <2>0, <2>1, <3>1
    <3>. QED
      BY <2>0, <3>1, <3>2 DEF RequestsOf
  <2>6. ASSUME NEW q \in ServerProcess!Processes,
               \/ ServerProcess!Begin(q) \/ ServerProcess!Connect(q) \/ ServerProcess!Assemble(q)
               \/ ServerProcess!ActivatePackages(q) \/ ServerProcess!Bind(q)
               \/ ServerProcess!ReconcileOnStartup(q)
               \/ ServerProcess!DeployEnds(q) \/ ServerProcess!ShutdownSignal(q)
               \/ ServerProcess!Crash(q)
        PROVE  FALSE
    <3>1. \E pc \in {"connect", "assemble", "reconcile", "bind", "serving", "exited", "count",
                     "activate", "draining", "crashed"} :
            /\ procs' = [procs EXCEPT ![q].pc = pc]
            /\ procs[q].pc # "draining" \/ pc # "exited"
      BY <2>6 DEF ServerProcess!Begin, ServerProcess!Connect, ServerProcess!Assemble,
         ServerProcess!ActivatePackages, ServerProcess!Bind, ServerProcess!Step,
         ServerProcess!ReconcileOnStartup, ServerProcess!DeployEnds, ServerProcess!ShutdownSignal,
         ServerProcess!Crash, ServerProcess!Close
    <3>. QED
      BY <2>3, <3>1
  <2>7. ASSUME NEW q \in ServerProcess!Processes,
               ServerProcess!CountAgents(q) \/ ServerProcess!DeployAgent(q)
        PROVE  FALSE
    <3>1. procs[q].pc # "draining" /\ \E k : procs' = [procs EXCEPT ![q] = k]
      BY <2>7 DEF ServerProcess!CountAgents, ServerProcess!DeployAgent
    <3>. QED
      BY <2>2, <3>1
  <2>8. CASE ServerProcess!Tick
    <3>1. procs'[p].pc = procs[p].pc
      BY <2>0, <2>8 DEF ServerProcess!Tick, Procs
    <3>. QED
      BY <3>1
  <2>9. CASE UNCHANGED procs
    BY <2>1, <2>9
  <2>10. CASE ServerProcess!HarnessProcessNext
    BY <2>4, <2>5, <2>6, <2>7, <2>8, <2>9, <2>10
    DEF ServerProcess!HarnessProcessNext, ServerProcess!ClaimBounty, ServerProcess!SubmitProof,
        ServerProcess!CheckBountyStatus, ServerProcess!Accept, ServerProcess!Answer
  <2>. QED
    BY <2>9, <2>10 DEF processVars
<1>2. ProcessInv /\ [Next]_vars => [Graceful]_processVars
  BY <1>1, StepOfParts
<1>. QED
  BY <1>2, ProcessHolds, PTL
     DEF Spec, ServerProcess!DrainIsGraceful, ServerProcess!processVars, processVars

(****************************************************************************)
(* The limiters.                                                            *)
(****************************************************************************)
BucketsUpTo(l) == [tokens : 0 .. ServerProcess!Burst[l], idle : 0 .. (EvictAfter + 1)]

RateInv ==
  /\ buckets \in [ServerProcess!Limiters -> [Clients -> [tokens : Int, idle : Int]]]
  /\ \A l \in ServerProcess!Limiters, c \in Clients :
       buckets[l][c] = ServerProcess!Absent \/ buckets[l][c] \in BucketsUpTo(l)

\* A limiter fills a bucket before it takes it away.
LEMMA LimitsFill ==
  /\ EvictAfter \in Nat
  /\ \A l \in ServerProcess!Limiters :
       /\ ServerProcess!Burst[l] \in Nat /\ ServerProcess!PerTick[l] \in Nat
       /\ (EvictAfter + 1) * ServerProcess!PerTick[l] >= ServerProcess!Burst[l]
<1>1. EvictAfter \in Nat /\ {ApiBurst, ChatBurst, ApiRate, ChatRate} \subseteq Nat
  BY ConstantsOfLimits
<1>2. (EvictAfter + 1) * ApiRate >= ApiBurst /\ (EvictAfter + 1) * ChatRate >= ChatBurst
  BY ConstantsOfLimits
<1>3. /\ ServerProcess!Burst["api"] = ApiBurst /\ ServerProcess!PerTick["api"] = ApiRate
      /\ ServerProcess!Burst["chat"] = ChatBurst /\ ServerProcess!PerTick["chat"] = ChatRate
  BY DEF ServerProcess!Burst, ServerProcess!PerTick
<1>4. \A l \in ServerProcess!Limiters : l = "api" \/ l = "chat"
  BY DEF ServerProcess!Limiters
<1>. HIDE DEF ServerProcess!Burst, ServerProcess!PerTick
<1>. QED
  BY <1>1, <1>2, <1>3, <1>4

\* What a second adds to what there was, with the idle time cut at e.
LEMMA SecondAdds ==
  ASSUME NEW b \in Nat, NEW r \in Nat, NEW t \in Nat, NEW e \in Nat, NEW i \in 0 .. (e + 1),
         (e + 1) * r >= b
  PROVE  /\ ServerProcess!Least(i + 1, e + 1) \in 0 .. (e + 1)
         /\ ServerProcess!Least(b, t + ServerProcess!Least(i + 1, e + 1) * r)
              = ServerProcess!Least(b, ServerProcess!Least(b, t + i * r) + r)
<1>. USE DEF ServerProcess!Least
<1>1. PICK x \in Nat : x = i * r
  OBVIOUS
<1>2. PICK y \in Nat : y = (e + 1) * r
  OBVIOUS
<1>3. (i + 1) * r = x + r
  BY <1>1
<1>4. CASE i <= e
  <2>1. ServerProcess!Least(i + 1, e + 1) = i + 1
    BY <1>4
  <2>. QED
    BY <1>1, <1>3, <2>1
<1>5. CASE i = e + 1
  <2>1. ServerProcess!Least(i + 1, e + 1) = e + 1
    BY <1>5
  <2>2. x = y
    BY <1>1, <1>2, <1>5
  <2>. QED
    BY <1>1, <1>2, <2>1, <2>2
<1>. QED
  BY <1>4, <1>5

\* What is in a bucket, or would be, is a number up to the burst; it is all
\* that is in a bucket just used.
LEMMA LevelsAreLevels ==
  ASSUME NEW l \in ServerProcess!Limiters, NEW b, b = ServerProcess!Absent \/ b \in BucketsUpTo(l)
  PROVE  /\ ServerProcess!Refilled(l, b) \in 0 .. ServerProcess!Burst[l]
         /\ ServerProcess!TryAcquire(l, b) \in BucketsUpTo(l)
         /\ ServerProcess!TryAcquire(l, b) # ServerProcess!Absent
         /\ ServerProcess!Refilled(l, ServerProcess!TryAcquire(l, b))
              = IF ServerProcess!Refilled(l, b) > 0 THEN ServerProcess!Refilled(l, b) - 1
                ELSE ServerProcess!Refilled(l, b)
<1>1. PICK m \in Nat : m = ServerProcess!Burst[l]
  BY LimitsFill
<1>2. PICK r \in Nat : r = ServerProcess!PerTick[l]
  BY LimitsFill
<1>3. ServerProcess!Refilled(l, b) \in 0 .. m
  <2>1. CASE b = ServerProcess!Absent
    BY <1>1, <2>1 DEF ServerProcess!Refilled
  <2>2. CASE b \in BucketsUpTo(l) /\ b # ServerProcess!Absent
    <3>1. b.tokens \in Nat /\ b.idle \in Nat
      BY <1>1, <2>2, LimitsFill DEF BucketsUpTo
    <3>2. b.tokens + b.idle * r \in Nat
      BY <3>1
    <3>. QED
      BY <1>1, <1>2, <2>2, <3>2 DEF ServerProcess!Refilled, ServerProcess!Least
  <2>. QED
    BY <2>1, <2>2
<1>4. PICK f \in 0 .. m : f = ServerProcess!Refilled(l, b)
  BY <1>3
<1>5. PICK n \in 0 .. m : n = IF f >= 1 THEN f - 1 ELSE f
  OBVIOUS
<1>6. ServerProcess!TryAcquire(l, b) = [tokens |-> n, idle |-> 0]
  BY <1>4, <1>5 DEF ServerProcess!TryAcquire, ServerProcess!IsGiven
<1>7. [tokens |-> n, idle |-> 0] \in BucketsUpTo(l) /\ [tokens |-> n, idle |-> 0] # ServerProcess!Absent
  BY <1>1, LimitsFill DEF BucketsUpTo, ServerProcess!Absent
<1>8. ServerProcess!Refilled(l, [tokens |-> n, idle |-> 0]) = n
  BY <1>1, <1>2, <1>7 DEF ServerProcess!Refilled, ServerProcess!Least
<1>9. n = IF f > 0 THEN f - 1 ELSE f
  BY <1>5
<1>. QED
  BY <1>1, <1>4, <1>6, <1>7, <1>8, <1>9

\* A bucket a second later.
LEMMA BucketsFill ==
  ASSUME NEW l \in ServerProcess!Limiters, NEW b, b \in BucketsUpTo(l), b # ServerProcess!Absent
  PROVE  LET a == [b EXCEPT !.idle = ServerProcess!Least(@ + 1, EvictAfter + 1)] IN
           /\ a \in BucketsUpTo(l)
           /\ ServerProcess!Refilled(l, a)
                = ServerProcess!Least(ServerProcess!Burst[l],
                                      ServerProcess!Refilled(l, b) + ServerProcess!PerTick[l])
<1>. DEFINE a == [b EXCEPT !.idle = ServerProcess!Least(b.idle + 1, EvictAfter + 1)]
<1>1. PICK m \in Nat : m = ServerProcess!Burst[l]
  BY LimitsFill
<1>2. PICK r \in Nat : r = ServerProcess!PerTick[l]
  BY LimitsFill
<1>3. PICK e \in Nat : e = EvictAfter
  BY LimitsFill
<1>4. (e + 1) * r >= m
  BY <1>1, <1>2, <1>3, LimitsFill
<1>5. PICK t \in 0 .. m, i \in 0 .. (e + 1) : b = [tokens |-> t, idle |-> i]
  BY <1>1, <1>3 DEF BucketsUpTo
<1>6. PICK j : j = ServerProcess!Least(i + 1, e + 1)
  OBVIOUS
<1>7. /\ j \in 0 .. (e + 1)
      /\ ServerProcess!Least(m, t + j * r)
           = ServerProcess!Least(m, ServerProcess!Least(m, t + i * r) + r)
  BY <1>4, <1>6, SecondAdds
<1>8. a = [tokens |-> t, idle |-> j]
  BY <1>3, <1>5, <1>6
<1>9. a \in BucketsUpTo(l) /\ a # ServerProcess!Absent
  BY <1>1, <1>3, <1>7, <1>8 DEF BucketsUpTo, ServerProcess!Absent
<1>10. /\ ServerProcess!Refilled(l, a) = ServerProcess!Least(m, t + j * r)
       /\ ServerProcess!Refilled(l, b) = ServerProcess!Least(m, t + i * r)
  BY <1>1, <1>2, <1>5, <1>8, <1>9 DEF ServerProcess!Refilled
<1>. QED
  BY <1>1, <1>2, <1>7, <1>9, <1>10

\* What is taken away is full.
LEMMA StaleAreFull ==
  ASSUME NEW l \in ServerProcess!Limiters, NEW b, b = ServerProcess!Absent \/ b \in BucketsUpTo(l),
         ServerProcess!IsStale(l, b)
  PROVE  ServerProcess!Refilled(l, b) = ServerProcess!Refilled(l, ServerProcess!Absent)
<1>1. PICK m \in Nat : m = ServerProcess!Burst[l]
  BY LimitsFill
<1>2. PICK r \in Nat : r = ServerProcess!PerTick[l]
  BY LimitsFill
<1>3. PICK e \in Nat : e = EvictAfter
  BY LimitsFill
<1>4. (e + 1) * r >= m
  BY <1>1, <1>2, <1>3, LimitsFill
<1>5. b # ServerProcess!Absent /\ b \in BucketsUpTo(l) /\ b.idle > e
  BY <1>3 DEF ServerProcess!IsStale
<1>6. b.tokens \in Nat /\ b.idle = e + 1
  BY <1>1, <1>3, <1>5 DEF BucketsUpTo
<1>7. PICK y \in Nat : y = (e + 1) * r
  OBVIOUS
<1>8. b.tokens + b.idle * r >= m /\ b.tokens + b.idle * r \in Nat
  BY <1>4, <1>6, <1>7
<1>. QED
  BY <1>1, <1>2, <1>5, <1>8 DEF ServerProcess!Refilled, ServerProcess!Least

\* Level at one moment and the next, by the bucket.
LEMMA LevelsByBucket ==
  \A l, c : /\ ServerProcess!Level(l, c) = ServerProcess!Refilled(l, buckets[l][c])
            /\ ServerProcess!Level(l, c)' = ServerProcess!Refilled(l, buckets'[l][c])
BY DEF ServerProcess!Level, ServerProcess!Refilled, ServerProcess!Burst, ServerProcess!PerTick,
       ServerProcess!Least, ServerProcess!Absent

\* A request takes from its own buckets, and only from those.
LEMMA AcquireActs ==
  ASSUME RateInv, NEW c \in Clients, NEW ls \in SUBSET ServerProcess!Limiters,
         ServerProcess!Acquire(c, ls)
  PROVE  /\ RateInv'
         /\ \A l \in ls : ServerProcess!Level(l, c)' = IF ServerProcess!Level(l, c) > 0
              THEN ServerProcess!Level(l, c) - 1 ELSE ServerProcess!Level(l, c)
         /\ \A l \in ServerProcess!Limiters, d \in Clients :
              l \notin ls \/ d # c => ServerProcess!Level(l, d)' = ServerProcess!Level(l, d)
<1>1. \A l \in ServerProcess!Limiters : buckets'[l] =
        IF l \in ls THEN [buckets[l] EXCEPT ![c] = ServerProcess!TryAcquire(l, buckets[l][c])]
        ELSE buckets[l]
  BY DEF ServerProcess!Acquire
<1>2. \A l \in ServerProcess!Limiters : buckets[l] \in [Clients -> [tokens : Int, idle : Int]]
  BY DEF RateInv
<1>3. \A l \in ServerProcess!Limiters, d \in Clients : buckets'[l][d] =
        IF l \in ls /\ d = c THEN ServerProcess!TryAcquire(l, buckets[l][c]) ELSE buckets[l][d]
  BY <1>1, <1>2
<1>4. \A l \in ServerProcess!Limiters : /\ ServerProcess!TryAcquire(l, buckets[l][c]) \in BucketsUpTo(l)
        /\ ServerProcess!Refilled(l, ServerProcess!TryAcquire(l, buckets[l][c]))
             = IF ServerProcess!Refilled(l, buckets[l][c]) > 0
               THEN ServerProcess!Refilled(l, buckets[l][c]) - 1
               ELSE ServerProcess!Refilled(l, buckets[l][c])
  BY LevelsAreLevels DEF RateInv
<1>5. \A l \in ServerProcess!Limiters, d \in Clients :
        buckets'[l][d] = ServerProcess!Absent \/ buckets'[l][d] \in BucketsUpTo(l)
  BY <1>3, <1>4 DEF RateInv
<1>6. \A l \in ServerProcess!Limiters : BucketsUpTo(l) \subseteq [tokens : Int, idle : Int]
  BY LimitsFill DEF BucketsUpTo
<1>7. buckets' \in [ServerProcess!Limiters -> [Clients -> [tokens : Int, idle : Int]]]
  <2>1. \A l \in ServerProcess!Limiters : buckets'[l] \in [Clients -> [tokens : Int, idle : Int]]
    BY <1>1, <1>2, <1>4, <1>6
  <2>2. buckets' = [l \in ServerProcess!Limiters |-> buckets'[l]]
    BY DEF ServerProcess!Acquire
  <2>. QED
    BY <2>1, <2>2
<1>8. RateInv'
  BY <1>5, <1>7 DEF RateInv, BucketsUpTo
<1>9. \A l \in ls : ServerProcess!Level(l, c)' = IF ServerProcess!Level(l, c) > 0
              THEN ServerProcess!Level(l, c) - 1 ELSE ServerProcess!Level(l, c)
  BY <1>3, <1>4, LevelsByBucket
<1>10. \A l \in ServerProcess!Limiters, d \in Clients :
         l \notin ls \/ d # c => ServerProcess!Level(l, d)' = ServerProcess!Level(l, d)
  BY <1>3, LevelsByBucket
<1>. QED
  BY <1>8, <1>9, <1>10

\* A second fills every bucket that is there by its rate.
LEMMA SecondActs ==
  ASSUME RateInv, ServerProcess!Second
  PROVE  /\ RateInv'
         /\ \A l \in ServerProcess!Limiters, c \in Clients :
              ServerProcess!Level(l, c)' = ServerProcess!Least(ServerProcess!Burst[l],
                ServerProcess!Level(l, c) + ServerProcess!PerTick[l])
<1>. DEFINE After(b) == [b EXCEPT !.idle = ServerProcess!Least(@ + 1, EvictAfter + 1)]
<1>1. buckets' = [l \in ServerProcess!Limiters |-> [c \in Clients |->
        IF buckets[l][c] = ServerProcess!Absent THEN ServerProcess!Absent ELSE After(buckets[l][c])]]
  BY DEF ServerProcess!Second
<1>2. ASSUME NEW l \in ServerProcess!Limiters, NEW c \in Clients
      PROVE  /\ buckets'[l][c] = ServerProcess!Absent \/ buckets'[l][c] \in BucketsUpTo(l)
             /\ ServerProcess!Level(l, c)' = ServerProcess!Least(ServerProcess!Burst[l],
                  ServerProcess!Level(l, c) + ServerProcess!PerTick[l])
  <2>1. buckets[l][c] = ServerProcess!Absent \/ buckets[l][c] \in BucketsUpTo(l)
    BY DEF RateInv
  <2>2. /\ ServerProcess!Level(l, c) = ServerProcess!Refilled(l, buckets[l][c])
        /\ ServerProcess!Level(l, c)' = ServerProcess!Refilled(l, buckets'[l][c])
    BY LevelsByBucket
  <2>3. CASE buckets[l][c] = ServerProcess!Absent
    <3>1. buckets'[l][c] = ServerProcess!Absent
      BY <1>1, <2>3
    <3>2. ServerProcess!Refilled(l, ServerProcess!Absent) = ServerProcess!Burst[l]
      BY DEF ServerProcess!Refilled
    <3>3. ServerProcess!Burst[l] \in Nat /\ ServerProcess!PerTick[l] \in Nat
      BY LimitsFill
    <3>4. ServerProcess!Level(l, c) = ServerProcess!Burst[l] /\ ServerProcess!Level(l, c)' = ServerProcess!Burst[l]
      BY <2>2, <2>3, <3>1, <3>2
    <3>. QED
      BY <3>1, <3>3, <3>4 DEF ServerProcess!Least
  <2>4. CASE buckets[l][c] # ServerProcess!Absent
    <3>1. buckets'[l][c] = After(buckets[l][c])
      BY <1>1, <2>4
    <3>2. /\ After(buckets[l][c]) \in BucketsUpTo(l)
          /\ ServerProcess!Refilled(l, After(buckets[l][c]))
               = ServerProcess!Least(ServerProcess!Burst[l],
                   ServerProcess!Refilled(l, buckets[l][c]) + ServerProcess!PerTick[l])
      BY <2>1, <2>4, BucketsFill
    <3>. QED
      BY <2>2, <3>1, <3>2
  <2>. QED
    BY <2>3, <2>4
<1>3. RateInv'
  <2>1. \A l \in ServerProcess!Limiters : BucketsUpTo(l) \subseteq [tokens : Int, idle : Int]
    BY LimitsFill DEF BucketsUpTo
  <2>2. ServerProcess!Absent \in [tokens : Int, idle : Int]
    BY DEF ServerProcess!Absent
  <2>3. \A l \in ServerProcess!Limiters, c \in Clients : buckets'[l][c] \in [tokens : Int, idle : Int]
    BY <1>2, <2>1, <2>2
  <2>4. \A l \in ServerProcess!Limiters : buckets'[l] = [c \in Clients |-> buckets'[l][c]]
    BY <1>1
  <2>5. buckets' = [l \in ServerProcess!Limiters |-> buckets'[l]]
    BY <1>1
  <2>6. \A l \in ServerProcess!Limiters : buckets'[l] \in [Clients -> [tokens : Int, idle : Int]]
    BY <2>3, <2>4
  <2>. QED
    BY <1>2, <2>5, <2>6 DEF RateInv, BucketsUpTo
<1>. QED
  BY <1>2, <1>3

\* Taking away what is stale changes nothing for its clients.
LEMMA CleanupActs ==
  ASSUME RateInv, NEW k \in ServerProcess!Limiters, ServerProcess!Cleanup(k)
  PROVE  /\ RateInv'
         /\ \A l \in ServerProcess!Limiters, c \in Clients :
              ServerProcess!Level(l, c)' = ServerProcess!Level(l, c)
<1>1. /\ buckets \in [ServerProcess!Limiters -> [Clients -> [tokens : Int, idle : Int]]]
      /\ buckets' = [buckets EXCEPT ![k] = [c \in Clients |->
           IF ServerProcess!IsStale(k, buckets[k][c]) THEN ServerProcess!Absent ELSE buckets[k][c]]]
  BY DEF ServerProcess!Cleanup, RateInv
<1>2. ServerProcess!Absent \in [tokens : Int, idle : Int]
  BY DEF ServerProcess!Absent
<1>3. \A l \in ServerProcess!Limiters, c \in Clients :
        \/ buckets'[l][c] = buckets[l][c]
        \/ buckets'[l][c] = ServerProcess!Absent /\ ServerProcess!IsStale(l, buckets[l][c])
  BY <1>1
<1>4. buckets' \in [ServerProcess!Limiters -> [Clients -> [tokens : Int, idle : Int]]]
  BY <1>1, <1>2
<1>5. RateInv'
  BY <1>3, <1>4 DEF RateInv, BucketsUpTo
<1>6. \A l \in ServerProcess!Limiters, c \in Clients : ServerProcess!IsStale(l, buckets[l][c]) =>
        ServerProcess!Refilled(l, buckets[l][c]) = ServerProcess!Refilled(l, ServerProcess!Absent)
  BY StaleAreFull DEF RateInv
<1>. QED
  BY <1>3, <1>5, <1>6, LevelsByBucket

\* Every request asks the bucket of the API, and the one of the chat only with
\* credentials.
LEMMA RequestAsks ==
  ASSUME NEW c, NEW chat, NEW good, ServerProcess!Request(c, chat, good)
  PROVE  \E ls \in {{"api"}, ServerProcess!Limiters} :
           /\ ServerProcess!Acquire(c, ls) /\ rateAnswer' # ServerProcess!NoAnswer
           /\ rateAnswer' # "api limit" => ServerProcess!Refilled("api", buckets["api"][c]) >= 1
           /\ rateAnswer' = "unauthorized" => ls = {"api"}
BY DEF ServerProcess!Request, ServerProcess!IsGiven, ServerProcess!NoAnswer

\* What a step does to the levels, and what a refusal costs.
LevelsMove == \A l \in ServerProcess!Limiters : ServerProcess!LevelsFollow(l)
RefusalCosts ==
  /\ rateAnswer' \in {"unauthorized", "chat limit", "served"} =>
       \E c \in Clients : ServerProcess!Level("api", c)' = ServerProcess!Level("api", c) - 1
  /\ rateAnswer' = "unauthorized" =>
       \A c \in Clients : ServerProcess!Level("chat", c)' = ServerProcess!Level("chat", c)

\* A step of this part keeps RateInv, and its levels move as they may.
LEMMA LimitsStep ==
  ASSUME RateInv, ServerProcess!RateLimitNext PROVE RateInv' /\ LevelsMove /\ RefusalCosts
<1>0. "api" \in ServerProcess!Limiters /\ "chat" \in ServerProcess!Limiters /\ "chat" # "api"
  BY DEF ServerProcess!Limiters
<1>1. CASE ServerProcess!Second
  <2>1. rateAnswer' = "none"
    BY <1>1 DEF ServerProcess!Second, ServerProcess!NoAnswer
  <2>. QED
    BY <1>1, <2>1, SecondActs DEF LevelsMove, RefusalCosts, ServerProcess!LevelsFollow
<1>2. ASSUME NEW k \in ServerProcess!Limiters, ServerProcess!Cleanup(k)
      PROVE  RateInv' /\ LevelsMove /\ RefusalCosts
  <2>1. rateAnswer' = "none"
    BY <1>2 DEF ServerProcess!Cleanup, ServerProcess!NoAnswer
  <2>. QED
    BY <1>2, <2>1, CleanupActs DEF LevelsMove, RefusalCosts, ServerProcess!LevelsFollow
<1>3. ASSUME NEW c \in Clients, NEW chat \in BOOLEAN, NEW good \in ServerProcess!Credentials,
             ServerProcess!Request(c, chat, good)
      PROVE  RateInv' /\ LevelsMove /\ RefusalCosts
  <2>1. PICK ls \in {{"api"}, ServerProcess!Limiters} :
           /\ ServerProcess!Acquire(c, ls) /\ rateAnswer' # ServerProcess!NoAnswer
           /\ rateAnswer' # "api limit" => ServerProcess!Refilled("api", buckets["api"][c]) >= 1
           /\ rateAnswer' = "unauthorized" => ls = {"api"}
    BY <1>3, RequestAsks
  <2>2. ls \in SUBSET ServerProcess!Limiters /\ "api" \in ls
    BY <1>0, <2>1
  <2>3. /\ RateInv'
        /\ \A l \in ls : ServerProcess!Level(l, c)' = IF ServerProcess!Level(l, c) > 0
             THEN ServerProcess!Level(l, c) - 1 ELSE ServerProcess!Level(l, c)
        /\ \A l \in ServerProcess!Limiters, d \in Clients :
             l \notin ls \/ d # c => ServerProcess!Level(l, d)' = ServerProcess!Level(l, d)
    BY <2>1, <2>2, AcquireActs
  <2>4. LevelsMove
    <3>1. ASSUME NEW l \in ServerProcess!Limiters PROVE ServerProcess!LevelsFollow(l)
      <4>1. CASE l \in ls
        <5>1. \A d \in Clients : ServerProcess!Level(l, d)' =
                IF d = c /\ rateAnswer' # ServerProcess!NoAnswer /\ ServerProcess!Level(l, d) > 0
                THEN ServerProcess!Level(l, d) - 1 ELSE ServerProcess!Level(l, d)
          BY <2>1, <2>3, <4>1
        <5>. QED
          BY <5>1 DEF ServerProcess!LevelsFollow
      <4>2. CASE l \notin ls
        <5>1. \A d \in Clients : ServerProcess!Level(l, d)' = ServerProcess!Level(l, d)
          BY <2>3, <4>2
        <5>. QED
          BY <5>1 DEF ServerProcess!LevelsFollow
      <4>. QED
        BY <4>1, <4>2
    <3>. QED
      BY <3>1 DEF LevelsMove
  <2>5. RefusalCosts
    <3>1. ASSUME rateAnswer' # "api limit"
          PROVE  ServerProcess!Level("api", c)' = ServerProcess!Level("api", c) - 1
      <4>1. ServerProcess!Level("api", c) = ServerProcess!Refilled("api", buckets["api"][c])
        BY LevelsByBucket
      <4>2. buckets["api"][c] = ServerProcess!Absent \/ buckets["api"][c] \in BucketsUpTo("api")
        BY <1>0 DEF RateInv
      <4>3. ServerProcess!Burst["api"] \in Nat
        BY <1>0, LimitsFill
      <4>4. ServerProcess!Level("api", c) \in Int
        BY <1>0, <4>1, <4>2, <4>3, LevelsAreLevels
      <4>5. ServerProcess!Level("api", c) >= 1
        BY <2>1, <3>1, <4>1
      <4>6. ServerProcess!Level("api", c)' = IF ServerProcess!Level("api", c) > 0
              THEN ServerProcess!Level("api", c) - 1 ELSE ServerProcess!Level("api", c)
        BY <2>2, <2>3
      <4>. HIDE DEF ServerProcess!Level
      <4>. QED
        BY <4>4, <4>5, <4>6
    <3>2. rateAnswer' = "unauthorized" =>
            \A d \in Clients : ServerProcess!Level("chat", d)' = ServerProcess!Level("chat", d)
      BY <1>0, <2>1, <2>3
    <3>. QED
      BY <3>1, <3>2 DEF RefusalCosts
  <2>. QED
    BY <2>3, <2>4, <2>5
<1>. QED
  BY <1>1, <1>2, <1>3 DEF ServerProcess!RateLimitNext

\* RateInv holds in every reachable state.
LEMMA RateHolds == Spec => []RateInv
<1>1. Init => RateInv
  BY DEF Init, ServerProcess!RateLimitInit, ServerProcess!Absent, RateInv
<1>2. RateInv /\ [Next]_vars => RateInv'
  <2>. SUFFICES ASSUME RateInv, [Next]_vars PROVE RateInv'
    OBVIOUS
  <2>1. [ServerProcess!RateLimitNext]_rateVars
    BY StepOfParts
  <2>2. CASE UNCHANGED rateVars
    BY <2>2 DEF rateVars, RateInv, BucketsUpTo
  <2>. QED
    BY <2>1, <2>2, LimitsStep
<1>. QED
  BY <1>1, <1>2, PTL DEF Spec

\* A bucket behaves as one that is filled at its rate all the time.
LEMMA BucketsKeepRates == Spec => ServerProcess!BucketsKeepTheRate
<1>1. RateInv /\ [Next]_vars => [\A l \in ServerProcess!Limiters : ServerProcess!LevelsFollow(l)]_rateVars
  BY LimitsStep, StepOfParts DEF LevelsMove
<1>. QED
  BY <1>1, RateHolds, PTL DEF Spec, ServerProcess!BucketsKeepTheRate, ServerProcess!rateVars, rateVars

\* Requests that are not served cost a token of the API.
LEMMA RefusalsAreLimited == Spec => ServerProcess!RefusalsCost
<1>1. RateInv /\ [Next]_vars => [RefusalCosts]_rateVars
  BY LimitsStep, StepOfParts
<1>. QED
  BY <1>1, RateHolds, PTL
     DEF Spec, ServerProcess!RefusalsCost, RefusalCosts, ServerProcess!rateVars, rateVars

\* While no runs overlapped nothing is made twice, and a run that came to its
\* end leaves every part.
LEMMA TemplatesOnce ==
  ASSUME TemplatesInv PROVE WorkspaceSetup!NothingTwice /\ WorkspaceSetup!AppliedIsWhole
<1>1. WorkspaceSetup!NothingTwice
  BY DEF TemplatesInv, WorkspaceSetup!NothingTwice, WorkspaceSetup!IsCollection, WorkspaceSetup!IsCanvas
<1>2. WorkspaceSetup!AppliedIsWhole
  BY DEF TemplatesInv, RunApplies, WorkspaceSetup!AppliedIsWhole
<1>. QED
  BY <1>1, <1>2

(****************************************************************************)
(* The calendar.  Below the headers either no dashes were read yet, or the  *)
(* table they opened is open.                                               *)
(****************************************************************************)
CalendarTyped ==
  /\ lines \in Seq(SocialPackage!LineKinds) /\ headers \in 0 .. Len(lines) /\ inTable \in BOOLEAN
  /\ calendar \subseteq [row : 1 .. Len(lines), under : 1 .. Len(lines)]

\* The table that is open belongs to these headers.
OpensAt(d) ==
  /\ d \in (headers + 1) .. Len(lines) /\ lines[d] = "dashes"
  /\ SocialPackage!NoText(d, Len(lines))
  /\ \A k \in headers .. d : lines[k] = "text" => ~SocialPackage!Opened(headers, k)

CalendarInv ==
  /\ CalendarTyped
  /\ headers # 0 /\ ~inTable => ~SocialPackage!Opened(headers, Len(lines))
  /\ headers # 0 /\ inTable => \E d \in Nat : OpensAt(d)
  /\ inTable => SocialPackage!Opened(1, Len(lines))
  /\ \A d \in 1 .. Len(lines) :
       lines[d] = "dashes" /\ SocialPackage!NoText(d, Len(lines)) => inTable
  /\ \A h \in 1 .. Len(lines) :
       /\ lines[h] = "cells" /\ SocialPackage!NoText(h, Len(lines)) /\ ~SocialPackage!Opened(1, h)
       => headers # 0
  /\ SocialPackage!RowsUnderTheirHeaders
  /\ SocialPackage!RowsAreRead

\* What a line that is read leaves of the lines before it.
LEMMA LinesStay ==
  ASSUME CalendarTyped, NEW kind \in SocialPackage!LineKinds, lines' = Append(lines, kind)
  PROVE  /\ Len(lines') = Len(lines) + 1 /\ Len(lines) \in Nat
         /\ lines' \in Seq(SocialPackage!LineKinds)
         /\ lines'[Len(lines) + 1] = kind
         /\ \A k \in 1 .. Len(lines) : lines'[k] = lines[k]
BY DEF CalendarTyped

\* A line that is read keeps CalendarInv.
LEMMA LineKeepsCalendar ==
  ASSUME CalendarInv, NEW kind \in SocialPackage!LineKinds, SocialPackage!ParseMarkdownCalendar(kind)
  PROVE  CalendarInv'
<1>0. PICK n \in Nat : n = Len(lines)
  BY DEF CalendarInv, CalendarTyped
<1>1. /\ lines' = Append(lines, kind)
      /\ \/ kind = "text" /\ SocialPackage!ReadText
         \/ kind = "dashes" /\ SocialPackage!ReadDashes
         \/ kind = "blank" /\ SocialPackage!ReadBlank
         \/ kind = "cells" /\ SocialPackage!ReadCells
  BY <1>0 DEF SocialPackage!ParseMarkdownCalendar
<1>2. CalendarTyped
  BY <1>0 DEF CalendarInv
<1>3. /\ Len(lines') = n + 1 /\ n \in Nat /\ lines' \in Seq(SocialPackage!LineKinds)
      /\ lines'[n + 1] = kind /\ \A k \in 1 .. n : lines'[k] = lines[k]
  BY <1>0, <1>1, <1>2, LinesStay
<1>4. headers \in 0 .. n /\ inTable \in BOOLEAN
  BY <1>0, <1>2 DEF CalendarTyped
<1>. USE DEF SocialPackage!NoText, SocialPackage!Opened, SocialPackage!ReadText, SocialPackage!ReadDashes,
             SocialPackage!ReadBlank, SocialPackage!ReadCells, SocialPackage!Number
<1>5. \/ kind = "text" /\ ~inTable' /\ (inTable => headers' = 0) /\ (~inTable => headers' = headers)
         /\ calendar' = calendar
      \/ kind = "dashes" /\ inTable' /\ headers' = headers /\ calendar' = calendar
      \/ kind = "blank" /\ (inTable' <=> inTable) /\ headers' = headers /\ calendar' = calendar
      \/ /\ kind = "cells" /\ (inTable' <=> inTable)
         /\ (~inTable /\ headers = 0 => headers' = n + 1)
         /\ (inTable \/ headers # 0 => headers' = headers)
         /\ (inTable /\ headers # 0 => calendar' = calendar \cup {[row |-> n + 1, under |-> headers]})
         /\ (~inTable \/ headers = 0 => calendar' = calendar)
  BY <1>0, <1>1
<1>b. inTable' \in BOOLEAN
  BY <1>0, <1>1, <1>4
<1>6. CalendarTyped'
  <2>1. headers' \in 0 .. (n + 1)
    BY <1>0, <1>3, <1>4, <1>5
  <2>2. calendar' \subseteq [row : 1 .. (n + 1), under : 1 .. (n + 1)]
    <3>1. calendar \subseteq [row : 1 .. (n + 1), under : 1 .. (n + 1)]
      BY <1>0, <1>2, <1>3 DEF CalendarTyped
    <3>2. headers # 0 => [row |-> n + 1, under |-> headers] \in [row : 1 .. (n + 1), under : 1 .. (n + 1)]
      BY <1>0, <1>3, <1>4
    <3>. QED
      BY <1>0, <1>5, <3>1, <3>2
  <2>. QED
    BY <1>0, <1>b, <1>3, <2>1, <2>2 DEF CalendarTyped
<1>7. headers' # 0 /\ ~inTable' => ~SocialPackage!Opened(headers, n + 1)'
  <2>1. headers # 0 /\ ~inTable => ~SocialPackage!Opened(headers, n)
    BY <1>0 DEF CalendarInv
  <2>. QED
    BY <1>0, <1>3, <1>4, <1>5, <2>1
<1>8. headers' # 0 /\ inTable' => \E d \in Nat : OpensAt(d)'
  <2>. SUFFICES ASSUME headers' # 0, inTable' PROVE \E d \in Nat : OpensAt(d)'
    OBVIOUS
  <2>1. headers' = headers /\ headers # 0 /\ kind # "text" /\ headers \in 1 .. n
    BY <1>0, <1>3, <1>4, <1>5
  <2>2. CASE inTable
    <3>1. PICK d \in Nat : OpensAt(d)
      BY <1>0, <2>1, <2>2 DEF CalendarInv
    <3>2. /\ d \in (headers + 1) .. n /\ lines[d] = "dashes"
          /\ \A k \in d .. n : lines[k] # "text"
          /\ \A k \in headers .. d : lines[k] = "text" => \A j \in headers .. k : lines[j] # "dashes"
      BY <1>0, <3>1 DEF OpensAt
    <3>3. \A k \in headers .. d : lines'[k] = lines[k] /\ k \in 1 .. n
      BY <1>0, <1>3, <2>1, <3>2
    <3>4. \A k \in headers .. d : lines'[k] = "text" => \A j \in headers .. k : lines'[j] # "dashes"
      BY <1>0, <3>2, <3>3
    <3>5. \A k \in d .. (n + 1) : lines'[k] # "text"
      BY <1>0, <1>3, <2>1, <3>2
    <3>. QED
      BY <1>0, <1>3, <2>1, <3>2, <3>3, <3>4, <3>5 DEF OpensAt
  <2>3. CASE ~inTable
    <3>1. kind = "dashes"
      BY <1>0, <1>5, <2>3
    <3>2. \A k \in headers .. n : lines[k] # "dashes"
      BY <1>0, <2>1, <2>3 DEF CalendarInv
    <3>3. \A k \in headers .. (n + 1) : lines'[k] = "text" =>
            \A j \in headers .. k : lines'[j] # "dashes"
      BY <1>0, <1>3, <2>1, <3>1, <3>2
    <3>4. \A k \in (n + 1) .. (n + 1) : lines'[k] # "text"
      BY <1>0, <1>3, <3>1
    <3>5. n + 1 \in (headers + 1) .. (n + 1) /\ lines'[n + 1] = "dashes" /\ n + 1 \in Nat
      BY <1>0, <1>3, <2>1, <3>1
    <3>6. OpensAt(n + 1)'
      BY <1>0, <1>3, <2>1, <3>3, <3>4, <3>5 DEF OpensAt
    <3>. QED
      BY <1>0, <3>5, <3>6
  <2>. QED
    BY <1>0, <1>4, <2>2, <2>3
<1>9. inTable' => SocialPackage!Opened(1, n + 1)'
  <2>1. inTable => \E k \in 1 .. n : lines[k] = "dashes"
    BY <1>0 DEF CalendarInv
  <2>. QED
    BY <1>0, <1>3, <1>5, <2>1
<1>10. \A d \in 1 .. (n + 1) : lines'[d] = "dashes" /\ SocialPackage!NoText(d, n + 1)' => inTable'
  <2>1. \A d \in 1 .. n : lines[d] = "dashes" /\ (\A k \in d .. n : lines[k] # "text") => inTable
    BY <1>0 DEF CalendarInv
  <2>2. ASSUME NEW d \in 1 .. n, lines'[d] = "dashes", \A k \in d .. (n + 1) : lines'[k] # "text"
        PROVE  inTable /\ kind # "text"
    BY <1>0, <1>3, <2>1, <2>2
  <2>. QED
    BY <1>0, <1>3, <1>5, <2>2
<1>11. \A h \in 1 .. (n + 1) :
         /\ lines'[h] = "cells" /\ SocialPackage!NoText(h, n + 1)' /\ ~SocialPackage!Opened(1, h)'
         => headers' # 0
  <2>1. \A h \in 1 .. n :
          /\ lines[h] = "cells" /\ (\A k \in h .. n : lines[k] # "text")
          /\ (\A k \in 1 .. h : lines[k] # "dashes")
          => headers # 0
    BY <1>0 DEF CalendarInv
  <2>2. ASSUME NEW h \in 1 .. n, lines'[h] = "cells", \A k \in h .. (n + 1) : lines'[k] # "text",
               \A k \in 1 .. h : lines'[k] # "dashes"
        PROVE  headers' # 0
    <3>1. headers # 0 /\ kind # "text"
      BY <1>0, <1>3, <2>1, <2>2
    <3>. QED
      BY <1>0, <1>3, <1>5, <3>1
  <2>3. ASSUME lines'[n + 1] = "cells", \A k \in 1 .. (n + 1) : lines'[k] # "dashes"
        PROVE  headers' # 0
    <3>1. inTable => \E k \in 1 .. n : lines[k] = "dashes"
      BY <1>0 DEF CalendarInv
    <3>2. ~inTable
      BY <1>0, <1>3, <2>3, <3>1
    <3>. QED
      BY <1>0, <1>3, <1>5, <2>3, <3>2
  <2>. QED
    BY <1>0, <1>3, <2>2, <2>3
<1>12. SocialPackage!RowsUnderTheirHeaders'
  <2>. SUFFICES ASSUME NEW r \in calendar'
       PROVE  \E d \in (r.under + 1) .. (r.row - 1) :
                /\ lines'[d] = "dashes" /\ \A k \in d .. r.row : lines'[k] # "text"
                /\ \A k \in r.under .. d : lines'[k] = "text" =>
                     \A j \in r.under .. k : lines'[j] # "dashes"
    BY <1>0 DEF SocialPackage!RowsUnderTheirHeaders
  <2>1. CASE r \in calendar
    <3>1. r.row \in 1 .. n /\ r.under \in 1 .. n
      BY <1>0, <1>2, <2>1 DEF CalendarTyped
    <3>2. PICK d \in (r.under + 1) .. (r.row - 1) :
                /\ lines[d] = "dashes" /\ \A k \in d .. r.row : lines[k] # "text"
                /\ \A k \in r.under .. d : lines[k] = "text" =>
                     \A j \in r.under .. k : lines[j] # "dashes"
      BY <1>0, <2>1 DEF CalendarInv, SocialPackage!RowsUnderTheirHeaders
    <3>3. \A k \in r.under .. r.row : lines'[k] = lines[k]
      BY <1>0, <1>3, <3>1
    <3>4. /\ \A k \in d .. r.row : k \in r.under .. r.row
          /\ \A k \in r.under .. d : k \in r.under .. r.row /\ \A j \in r.under .. k : j \in r.under .. r.row
          /\ d \in r.under .. r.row
      BY <1>0, <3>1
    <3>. QED
      BY <1>0, <3>2, <3>3, <3>4
  <2>2. CASE r \notin calendar
    <3>1. /\ r = [row |-> n + 1, under |-> headers] /\ headers # 0 /\ inTable /\ kind = "cells"
      BY <1>0, <1>5, <2>2
    <3>2. r.row = n + 1 /\ r.under = headers /\ headers \in 1 .. n
      BY <1>0, <1>3, <1>4, <3>1
    <3>3. PICK d \in Nat : OpensAt(d)
      BY <1>0, <3>1 DEF CalendarInv
    <3>4. /\ d \in (headers + 1) .. n /\ lines[d] = "dashes"
          /\ \A k \in d .. n : lines[k] # "text"
          /\ \A k \in headers .. d : lines[k] = "text" => \A j \in headers .. k : lines[j] # "dashes"
      BY <1>0, <3>3 DEF OpensAt
    <3>5. \A k \in headers .. n : lines'[k] = lines[k]
      BY <1>0, <1>3, <3>2
    <3>6. \A k \in d .. (n + 1) : lines'[k] # "text"
      BY <1>0, <1>3, <3>1, <3>2, <3>4
    <3>7. \A k \in headers .. d : lines'[k] = "text" => \A j \in headers .. k : lines'[j] # "dashes"
      <4>1. \A k \in headers .. d : k \in headers .. n /\ \A j \in headers .. k : j \in headers .. n
        BY <1>0, <1>3, <3>2, <3>4
      <4>. QED
        BY <1>0, <3>4, <3>5, <4>1
    <3>8. d \in (headers + 1) .. (n + 1 - 1) /\ lines'[d] = "dashes"
      BY <1>0, <1>3, <3>2, <3>4
    <3>. QED
      BY <1>0, <3>2, <3>6, <3>7, <3>8
  <2>. QED
    BY <1>0, <2>1, <2>2
<1>13. SocialPackage!RowsAreRead'
  <2>. SUFFICES ASSUME NEW h \in 1 .. (n + 1), NEW r \in 1 .. (n + 1),
                       h < r, lines'[h] = "cells", lines'[r] = "cells",
                       \A k \in h .. r : lines'[k] # "text",
                       \E k \in h .. r : lines'[k] = "dashes",
                       ~\E d \in 1 .. h : lines'[d] = "dashes"
       PROVE  \E c \in calendar' : c.row = r
    BY <1>0, <1>3 DEF SocialPackage!RowsAreRead
  <2>1. h \in 1 .. n /\ \A k \in 1 .. n : lines'[k] = lines[k]
    BY <1>0, <1>3
  <2>2. CASE r \in 1 .. n
    <3>1. /\ lines[h] = "cells" /\ lines[r] = "cells" /\ \A k \in h .. r : lines[k] # "text"
          /\ \E k \in h .. r : lines[k] = "dashes"
          /\ ~\E d \in 1 .. h : lines[d] = "dashes"
      <4>1. (\A k \in h .. r : k \in 1 .. n) /\ \A k \in 1 .. h : k \in 1 .. n
        BY <1>0, <1>3, <2>1, <2>2
      <4>. QED
        BY <1>0, <2>1, <2>2, <4>1
    <3>2. \E c \in calendar : c.row = r
      BY <1>0, <2>1, <2>2, <3>1 DEF CalendarInv, SocialPackage!RowsAreRead
    <3>. QED
      BY <1>0, <1>5, <3>2
  <2>3. CASE r = n + 1
    <3>1. kind = "cells"
      BY <1>0, <1>3, <2>3
    <3>2. \A k \in h .. n : lines[k] # "text"
      BY <1>0, <1>3, <2>1, <2>3
    <3>3. headers # 0
      <4>1. \A k \in 1 .. h : lines[k] # "dashes"
        BY <1>0, <1>3, <2>1
      <4>2. lines[h] = "cells"
        BY <1>0, <2>1
      <4>. QED
        BY <1>0, <2>1, <3>2, <4>1, <4>2 DEF CalendarInv
    <3>4. inTable
      <4>1. PICK d \in h .. n : lines[d] = "dashes"
        BY <1>0, <1>3, <2>1, <2>3, <3>1
      <4>2. d \in 1 .. n /\ \A k \in d .. n : lines[k] # "text"
        BY <1>0, <1>3, <2>1, <3>2
      <4>. QED
        BY <1>0, <4>1, <4>2 DEF CalendarInv
    <3>5. [row |-> n + 1, under |-> headers] \in calendar'
      BY <1>0, <1>5, <3>1, <3>3, <3>4
    <3>. QED
      BY <1>0, <2>3, <3>5
  <2>. QED
    BY <1>0, <1>3, <2>2, <2>3
<1>. QED
  BY <1>0, <1>3, <1>6, <1>7, <1>8, <1>9, <1>10, <1>11, <1>12, <1>13 DEF CalendarInv

\* CalendarInv holds in every reachable state.
LEMMA CalendarHolds == Spec => []CalendarInv
<1>1. Init => CalendarInv
  <2>1. Init => lines = <<>> /\ headers = 0 /\ inTable = FALSE /\ calendar = {}
    BY DEF Init, SocialPackage!CalendarTableInit
  <2>. SUFFICES ASSUME lines = <<>>, headers = 0, inTable = FALSE, calendar = {} PROVE CalendarInv
    BY <2>1
  <2>2. Len(lines) = 0 /\ lines \in Seq(SocialPackage!LineKinds)
    OBVIOUS
  <2>3. CalendarTyped
    <3>1. inTable \in BOOLEAN
      OBVIOUS
    <3>2. headers \in 0 .. Len(lines) /\ calendar \subseteq [row : 1 .. Len(lines), under : 1 .. Len(lines)]
      BY <2>2
    <3>. QED
      BY <2>2, <3>1, <3>2 DEF CalendarTyped
  <2>. QED
    BY <2>2, <2>3 DEF CalendarInv, SocialPackage!RowsUnderTheirHeaders, SocialPackage!RowsAreRead
<1>2. CalendarInv /\ [Next]_vars => CalendarInv'
  <2>. SUFFICES ASSUME CalendarInv, [Next]_vars PROVE CalendarInv'
    OBVIOUS
  <2>1. [SocialPackage!CalendarTableNext]_calendarVars
    BY StepOfParts
  <2>2. CASE SocialPackage!LoadContentCalendar
    <3>1. lines' = <<>> /\ headers' = 0 /\ inTable' = FALSE /\ calendar' = {}
      BY <2>2 DEF SocialPackage!LoadContentCalendar
    <3>2. Len(lines') = 0 /\ lines' \in Seq(SocialPackage!LineKinds)
      BY <3>1
    <3>3. CalendarTyped'
      <4>1. inTable' \in BOOLEAN
        BY <3>1
      <4>2. headers' \in 0 .. Len(lines') /\ calendar' \subseteq [row : 1 .. Len(lines'), under : 1 .. Len(lines')]
        BY <3>1, <3>2
      <4>. QED
        BY <3>1, <3>2, <4>1, <4>2 DEF CalendarTyped
    <3>. QED
      BY <3>1, <3>2, <3>3 DEF CalendarInv, SocialPackage!RowsUnderTheirHeaders, SocialPackage!RowsAreRead
  <2>3. CASE UNCHANGED calendarVars
    BY <2>3 DEF calendarVars, CalendarInv, CalendarTyped, OpensAt, SocialPackage!NoText, SocialPackage!Opened,
                SocialPackage!RowsUnderTheirHeaders, SocialPackage!RowsAreRead
  <2>. QED
    BY <2>1, <2>2, <2>3, LineKeepsCalendar DEF SocialPackage!CalendarTableNext
<1>. QED
  BY <1>1, <1>2, PTL DEF Spec

(****************************************************************************)
(* Posts.  What a call has of a thread is a chain of what is out, of which  *)
(* only the last id may be unknown.                                         *)
(****************************************************************************)
PublishedPart == [of : SocialPackage!Contents, part : Nat, after : Nat]
PostingOf == [stage : {"idle", "sending", "sent"}, of : SocialPackage!Contents \cup {NoPost}, parts : Seq(Nat)]

SocialTyped ==
  /\ socialPublished \in Seq(PublishedPart)
  /\ posting \in [Authors -> PostingOf]
  /\ posts \subseteq [of : SocialPackage!Contents, id : Nat]

\* The n-th of what is out is the k-th part of c, and answers a.
IsPart(n, c, k) ==
  /\ n \in DOMAIN socialPublished
  /\ socialPublished[n].of = c /\ socialPublished[n].part = k

Answers(n, a) == socialPublished[n].after = a

\* What the call of p has sent.
PartsAreOut(p) ==
  /\ p.stage = "idle" => p.parts = <<>>
  /\ p.stage = "sending" => Len(p.parts) < SocialPackage!PartsOf(p.of)
  /\ p.stage = "sent" => Len(p.parts) = SocialPackage!PartsOf(p.of)
  /\ p.stage # "idle" => p.of \in SocialPackage!Contents
  /\ \A k \in 1 .. Len(p.parts) :
       /\ p.parts[k] # 0 => IsPart(p.parts[k], p.of, k)
       /\ k > 1 => /\ p.parts[k - 1] # 0
                   /\ \E n \in DOMAIN socialPublished :
                        /\ IsPart(n, p.of, k) /\ Answers(n, p.parts[k - 1])
                        /\ p.parts[k] # 0 => n = p.parts[k]

\* The parts of c that follow each other from the post id on.
IsChain(q, id, c) ==
  /\ q[1] = id
  /\ \A k \in 1 .. SocialPackage!PartsOf(c) : IsPart(q[k], c, k) /\ (k > 1 => Answers(q[k], q[k - 1]))

Chains(id, c) == [1 .. SocialPackage!PartsOf(c) -> DOMAIN socialPublished]

SocialInv ==
  /\ SocialTyped
  /\ SocialPackage!ThreadsAreChains
  /\ \A u \in Authors : PartsAreOut(posting[u])
  /\ \A r \in posts : r.id # 0 => \E q \in Chains(r.id, r.of) : IsChain(q, r.id, r.of)

\* A call has parts to send.
LEMMA PartsThereAre ==
  \A c : SocialPackage!PartsOf(c) \in Nat \ {0} /\ (c \notin Threads => SocialPackage!PartsOf(c) = 1)
BY ConstantsOfPosts DEF SocialPackage!PartsOf

\* What is out stays out, so a chain stays one.
LEMMA PublishedStays ==
  ASSUME SocialTyped, NEW m \in PublishedPart, socialPublished' = Append(socialPublished, m)
  PROVE  /\ socialPublished' \in Seq(PublishedPart)
         /\ Len(socialPublished') = Len(socialPublished) + 1
         /\ Len(socialPublished) \in Nat
         /\ socialPublished'[Len(socialPublished) + 1] = m
         /\ \A n \in DOMAIN socialPublished : /\ n \in DOMAIN socialPublished'
                                              /\ socialPublished'[n] = socialPublished[n]
         /\ DOMAIN socialPublished = 1 .. Len(socialPublished)
         /\ DOMAIN socialPublished' = 1 .. Len(socialPublished')
BY DEF SocialTyped

\* What calls have sent, and whole threads, stay while another part comes out.
LEMMA OutStaysOut ==
  ASSUME SocialTyped, NEW m \in PublishedPart, socialPublished' = Append(socialPublished, m)
  PROVE  /\ \A p \in PostingOf : PartsAreOut(p) => PartsAreOut(p)'
         /\ \A id, c : (\E q \in Chains(id, c) : IsChain(q, id, c)) => (\E q \in Chains(id, c) : IsChain(q, id, c))'
<1>1. \A n, c, k : IsPart(n, c, k) => IsPart(n, c, k)'
  BY PublishedStays DEF IsPart
<1>2. \A n \in DOMAIN socialPublished : \A a : Answers(n, a) => Answers(n, a)'
  BY PublishedStays DEF Answers
<1>3. DOMAIN socialPublished \subseteq DOMAIN socialPublished'
  BY PublishedStays
<1>4. ASSUME NEW p \in PostingOf, PartsAreOut(p) PROVE PartsAreOut(p)'
  <2>1. ASSUME NEW k \in 1 .. Len(p.parts), k > 1
        PROVE  /\ p.parts[k - 1] # 0
               /\ \E n \in DOMAIN socialPublished' :
                        /\ IsPart(n, p.of, k)' /\ Answers(n, p.parts[k - 1])'
                        /\ p.parts[k] # 0 => n = p.parts[k]
    <3>1. PICK n \in DOMAIN socialPublished :
                        /\ IsPart(n, p.of, k) /\ Answers(n, p.parts[k - 1])
                        /\ p.parts[k] # 0 => n = p.parts[k]
      BY <1>4, <2>1 DEF PartsAreOut
    <3>2. IsPart(n, p.of, k)' /\ Answers(n, p.parts[k - 1])' /\ n \in DOMAIN socialPublished'
      BY <1>1, <1>2, <1>3, <3>1
    <3>3. p.parts[k - 1] # 0
      BY <1>4, <2>1 DEF PartsAreOut
    <3>. QED
      BY <3>1, <3>2, <3>3
  <2>2. \A k \in 1 .. Len(p.parts) : p.parts[k] # 0 => IsPart(p.parts[k], p.of, k)'
    BY <1>1, <1>4 DEF PartsAreOut
  <2>. QED
    BY <1>4, <2>1, <2>2 DEF PartsAreOut
<1>5. ASSUME NEW id, NEW c, NEW q \in Chains(id, c), IsChain(q, id, c)
      PROVE  q \in Chains(id, c)' /\ IsChain(q, id, c)'
  <2>1. q \in Chains(id, c)'
    BY <1>3 DEF Chains
  <2>2. \A k \in 1 .. SocialPackage!PartsOf(c) : q[k] \in DOMAIN socialPublished
    BY DEF Chains
  <2>. QED
    BY <1>1, <1>2, <1>5, <2>1, <2>2 DEF IsChain
<1>. QED
  BY <1>4, <1>5

\* The next part of a call answers what it sent last.
LEMMA PartComesOut ==
  ASSUME SocialInv, NEW u \in Authors, posting[u].stage = "sending",
         SocialPackage!Publish(u, SocialPackage!Previous(u))
  PROVE  \E m \in PublishedPart :
           /\ m = [of |-> posting[u].of, part |-> Len(posting[u].parts) + 1,
                   after |-> IF posting[u].parts = <<>> THEN 0 ELSE posting[u].parts[Len(posting[u].parts)]]
           /\ socialPublished' = Append(socialPublished, m)
           /\ posting[u].parts # <<>> => posting[u].parts[Len(posting[u].parts)] # 0
           /\ SocialPackage!ThreadsAreChains'
<1>. DEFINE p == posting[u]
            l == Len(p.parts)
            before == IF p.parts = <<>> THEN 0 ELSE p.parts[l]
            m == [of |-> p.of, part |-> l + 1, after |-> before]
            s == Len(socialPublished)
<1>1. p \in PostingOf /\ PartsAreOut(p) /\ SocialTyped
  BY DEF SocialInv, SocialTyped
<1>2. p.parts \in Seq(Nat) /\ l \in Nat /\ (p.parts = <<>> <=> l = 0) /\ (l # 0 => l \in 1 .. l)
  BY <1>1 DEF PostingOf
<1>3. p.of \in SocialPackage!Contents
  BY <1>1 DEF PartsAreOut
<1>4. before \in Nat
  BY <1>2
<1>5. m \in PublishedPart
  BY <1>2, <1>3, <1>4 DEF PublishedPart
<1>6. SocialPackage!Previous(u) = before
  BY <1>2 DEF SocialPackage!Previous, SocialPackage!PartsSent, SocialPackage!Unknown
<1>7. socialPublished' = Append(socialPublished, m) /\ (p.parts # <<>> => p.parts[l] # 0)
  BY <1>2, <1>6 DEF SocialPackage!Publish, SocialPackage!PartsSent, SocialPackage!Unknown
<1>8. l # 0 => IsPart(p.parts[l], p.of, l)
  BY <1>1, <1>2, <1>7 DEF PartsAreOut
<1>9. ASSUME NEW i \in DOMAIN socialPublished', socialPublished'[i].part > 1
      PROVE  /\ socialPublished'[i].after \in 1 .. (i - 1)
             /\ socialPublished'[socialPublished'[i].after].of = socialPublished'[i].of
             /\ socialPublished'[socialPublished'[i].after].part = socialPublished'[i].part - 1
  <2>. HIDE DEF m
  <2>1. /\ Len(socialPublished') = s + 1 /\ s \in Nat /\ socialPublished'[s + 1] = m
        /\ \A n \in 1 .. s : socialPublished'[n] = socialPublished[n]
        /\ DOMAIN socialPublished = 1 .. s /\ DOMAIN socialPublished' = 1 .. (s + 1)
    BY <1>1, <1>5, <1>7, PublishedStays
  <2>. HIDE DEF s
  <2>2. CASE i \in 1 .. s
    <3>1. /\ socialPublished[i].after \in 1 .. (i - 1)
          /\ socialPublished[socialPublished[i].after].of = socialPublished[i].of
          /\ socialPublished[socialPublished[i].after].part = socialPublished[i].part - 1
      BY <1>9, <2>1, <2>2 DEF SocialInv, SocialPackage!ThreadsAreChains
    <3>2. socialPublished[i].after \in 1 .. s
      BY <2>1, <2>2, <3>1
    <3>. QED
      BY <2>1, <2>2, <3>1, <3>2
  <2>3. CASE i = s + 1
    <3>1. m.of = p.of /\ m.part = l + 1 /\ m.after = before
      BY DEF m
    <3>. HIDE DEF p, l, before
    <3>2. l # 0
      BY <1>2, <1>9, <2>1, <2>3, <3>1
    <3>3. before = p.parts[l]
      BY <1>2, <3>2 DEF before
    <3>4. before \in 1 .. s /\ socialPublished[before].of = p.of /\ socialPublished[before].part = l
      BY <1>8, <2>1, <3>2, <3>3 DEF IsPart
    <3>. QED
      BY <1>2, <2>1, <2>3, <3>1, <3>4
  <2>. QED
    BY <2>1, <2>2, <2>3
<1>10. SocialPackage!ThreadsAreChains'
  BY <1>9 DEF SocialPackage!ThreadsAreChains
<1>. QED
  BY <1>5, <1>7, <1>10

\* A call that has sent a part has sent a chain again.
LEMMA PartIsAdded ==
  ASSUME SocialInv, NEW u \in Authors, posting[u].stage = "sending",
         SocialPackage!Publish(u, SocialPackage!Previous(u)),
         NEW id \in {Len(socialPublished) + 1, SocialPackage!Unknown}, SocialPackage!Proceed(u, id),
         UNCHANGED posts
  PROVE  SocialInv'
<1>0. PICK p \in PostingOf : p = posting[u]
  BY DEF SocialInv, SocialTyped
<1>. DEFINE l == Len(p.parts)
            parts == Append(p.parts, id)
            then == IF l + 1 = SocialPackage!PartsOf(p.of) THEN "sent" ELSE "sending"
<1>1. p \in PostingOf /\ PartsAreOut(p) /\ SocialTyped /\ p.stage = "sending"
  BY <1>0 DEF SocialInv
<1>2. p.parts \in Seq(Nat) /\ l \in Nat /\ (p.parts = <<>> <=> l = 0)
  BY <1>1 DEF PostingOf
<1>3. PICK m \in PublishedPart :
           /\ m = [of |-> posting[u].of, part |-> Len(posting[u].parts) + 1,
                   after |-> IF posting[u].parts = <<>> THEN 0 ELSE posting[u].parts[Len(posting[u].parts)]]
           /\ socialPublished' = Append(socialPublished, m)
           /\ posting[u].parts # <<>> => posting[u].parts[Len(posting[u].parts)] # 0
           /\ SocialPackage!ThreadsAreChains'
  BY PartComesOut
<1>4. m.of = p.of /\ m.part = l + 1 /\ (l # 0 => m.after = p.parts[l] /\ p.parts[l] # 0)
  BY <1>0, <1>2, <1>3
<1>c. PICK s \in Nat : s = Len(socialPublished)
  BY <1>1 DEF SocialTyped
<1>5. /\ s \in Nat /\ DOMAIN socialPublished' = 1 .. (s + 1)
      /\ socialPublished'[s + 1] = m /\ socialPublished' \in Seq(PublishedPart)
  BY <1>1, <1>3, <1>c, PublishedStays
<1>6. id \in Nat /\ (id # 0 => id = s + 1)
  BY <1>c DEF SocialPackage!Unknown
<1>7. /\ parts \in Seq(Nat) /\ Len(parts) = l + 1 /\ parts[l + 1] = id
      /\ \A k \in 1 .. l : parts[k] = p.parts[k]
  BY <1>2, <1>6
<1>8. PICK new \in PostingOf :
        /\ posting' = [posting EXCEPT ![u] = new]
        /\ new.parts = parts /\ new.stage = then /\ new.of = p.of
  <2>1. posting' = [posting EXCEPT ![u] = [p EXCEPT !.parts = parts, !.stage = then]]
    BY <1>0, <1>1 DEF SocialPackage!Proceed, SocialPackage!PartsSent, SocialInv, SocialTyped
  <2>2. then \in {"idle", "sending", "sent"} /\ parts \in Seq(Nat)
    BY <1>7
  <2>. HIDE DEF then, parts
  <2>3. \A x \in PostingOf : LET y == [x EXCEPT !.parts = parts, !.stage = then] IN
          y \in PostingOf /\ y.parts = parts /\ y.stage = then /\ y.of = x.of
    BY <2>2 DEF PostingOf
  <2>. HIDE DEF PostingOf
  <2>. QED
    BY <1>1, <2>1, <2>3
<1>10. PartsAreOut(p)'
  <2>1. \A x \in PostingOf : PartsAreOut(x) => PartsAreOut(x)'
    BY <1>1, <1>3, OutStaysOut
  <2>. QED
    BY <1>1, <2>1
<1>11. ASSUME NEW k \in 1 .. (l + 1)
       PROVE  /\ parts[k] # 0 => IsPart(parts[k], p.of, k)'
              /\ k > 1 => /\ parts[k - 1] # 0
                          /\ \E n \in DOMAIN socialPublished' :
                               /\ IsPart(n, p.of, k)' /\ Answers(n, parts[k - 1])'
                               /\ parts[k] # 0 => n = parts[k]
  <2>1. CASE k \in 1 .. l
    <3>1. parts[k] = p.parts[k] /\ (k > 1 => parts[k - 1] = p.parts[k - 1])
      BY <1>2, <1>7, <2>1
    <3>. HIDE DEF parts
    <3>. QED
      BY <1>10, <2>1, <3>1 DEF PartsAreOut
  <2>2. CASE k = l + 1
    <3>1. parts[k] = id /\ (k > 1 => parts[k - 1] = p.parts[l] /\ l # 0)
      BY <1>2, <1>7, <2>2
    <3>2. s + 1 \in DOMAIN socialPublished' /\ IsPart(s + 1, p.of, k)'
      BY <1>4, <1>5, <2>2 DEF IsPart
    <3>3. k > 1 => parts[k - 1] # 0 /\ Answers(s + 1, parts[k - 1])'
      BY <1>4, <1>5, <3>1 DEF Answers
    <3>. HIDE DEF parts
    <3>. QED
      BY <1>6, <3>1, <3>2, <3>3
  <2>. QED
    BY <1>2, <2>1, <2>2
<1>12. PartsAreOut(new)'
  <2>1. /\ new.parts = parts /\ Len(new.parts) = l + 1 /\ new.of = p.of /\ new.stage = then
        /\ p.of \in SocialPackage!Contents /\ l < SocialPackage!PartsOf(p.of)
    BY <1>1, <1>7, <1>8 DEF PartsAreOut
  <2>2. then = "sent" <=> l + 1 = SocialPackage!PartsOf(p.of)
    OBVIOUS
  <2>3. then = "sending" <=> l + 1 # SocialPackage!PartsOf(p.of)
    OBVIOUS
  <2>4. SocialPackage!PartsOf(p.of) \in Nat /\ then # "idle"
    BY PartsThereAre
  <2>. HIDE DEF then, parts, l
  <2>. QED
    BY <1>2, <1>11, <2>1, <2>2, <2>3, <2>4 DEF PartsAreOut
<1>13. posting' \in [Authors -> PostingOf] /\ posting'[u] = new
       /\ \A v \in Authors \ {u} : posting'[v] = posting[v]
  BY <1>1, <1>8 DEF SocialTyped
<1>14. SocialTyped'
  BY <1>1, <1>5, <1>13 DEF SocialTyped
<1>15. \A x \in PostingOf : PartsAreOut(x) => PartsAreOut(x)'
  BY <1>1, <1>3, OutStaysOut
<1>16. ASSUME NEW v \in Authors PROVE PartsAreOut(posting[v])'
  <2>1. CASE v = u
    BY <1>12, <1>13, <2>1
  <2>2. CASE v # u
    <3>1. PICK x \in PostingOf : x = posting[v]
      BY <1>1 DEF SocialTyped
    <3>2. PartsAreOut(x)'
      BY <1>15, <3>1 DEF SocialInv
    <3>3. posting'[v] = x
      BY <1>13, <2>2, <3>1
    <3>. QED
      BY <3>2, <3>3
  <2>. QED
    BY <2>1, <2>2
<1>17. ASSUME NEW r \in posts', r.id # 0
       PROVE  (\E q \in Chains(r.id, r.of) : IsChain(q, r.id, r.of))'
  <2>1. \A j, c : (\E q \in Chains(j, c) : IsChain(q, j, c)) => (\E q \in Chains(j, c) : IsChain(q, j, c))'
    BY <1>1, <1>3, OutStaysOut
  <2>2. \E q \in Chains(r.id, r.of) : IsChain(q, r.id, r.of)
    BY <1>17 DEF SocialInv
  <2>. QED
    BY <2>1, <2>2
<1>. QED
  BY <1>3, <1>14, <1>16, <1>17 DEF SocialInv

\* A call that ends, with a record or without, leaves the others as they were.
LEMMA CallEnds ==
  ASSUME SocialInv, NEW u \in Authors, NEW new \in PostingOf,
         PartsAreOut(new), posting' = [posting EXCEPT ![u] = new], UNCHANGED socialPublished,
         \A r \in posts' : r \in posts \/
           /\ r \in [of : SocialPackage!Contents, id : Nat]
           /\ r.id # 0 => \E q \in Chains(r.id, r.of) : IsChain(q, r.id, r.of)
  PROVE  SocialInv'
<1>1. SocialTyped'
  BY DEF SocialInv, SocialTyped
<1>2. \A n, c, k : IsPart(n, c, k) <=> IsPart(n, c, k)'
  BY DEF IsPart
<1>3. \A n, a : Answers(n, a) <=> Answers(n, a)'
  BY DEF Answers
<1>4. \A x \in PostingOf : PartsAreOut(x) => PartsAreOut(x)'
  BY <1>2, <1>3 DEF PartsAreOut
<1>5. ASSUME NEW v \in Authors PROVE PartsAreOut(posting[v])'
  <2>1. PICK x \in PostingOf : x = posting'[v] /\ PartsAreOut(x)
    BY DEF SocialInv, SocialTyped
  <2>2. PartsAreOut(x)'
    BY <1>4, <2>1
  <2>. QED
    BY <2>1, <2>2
<1>6. \A id, c : (\E q \in Chains(id, c) : IsChain(q, id, c)) => (\E q \in Chains(id, c) : IsChain(q, id, c))'
  BY <1>2, <1>3 DEF IsChain, Chains
<1>7. ASSUME NEW r \in posts', r.id # 0
      PROVE  (\E q \in Chains(r.id, r.of) : IsChain(q, r.id, r.of))'
  <2>1. \E q \in Chains(r.id, r.of) : IsChain(q, r.id, r.of)
    BY <1>7 DEF SocialInv
  <2>. QED
    BY <1>6, <2>1
<1>8. SocialPackage!ThreadsAreChains'
  BY DEF SocialInv, SocialPackage!ThreadsAreChains
<1>. QED
  BY <1>1, <1>5, <1>7, <1>8 DEF SocialInv

\* Nobody at work has sent nothing.
LEMMA IdleIsFine ==
  /\ SocialPackage!Idle \in PostingOf
  /\ SocialInv => PartsAreOut(SocialPackage!Idle)
  /\ \A c \in SocialPackage!Contents :
       /\ [stage |-> "sending", of |-> c, parts |-> <<>>] \in PostingOf
       /\ SocialInv => PartsAreOut([stage |-> "sending", of |-> c, parts |-> <<>>])
<1>1. /\ SocialPackage!Idle \in PostingOf
      /\ \A c \in SocialPackage!Contents : [stage |-> "sending", of |-> c, parts |-> <<>>] \in PostingOf
  BY DEF SocialPackage!Idle, PostingOf
<1>2. PartsAreOut(SocialPackage!Idle)
  BY DEF SocialPackage!Idle, PartsAreOut
<1>3. \A c \in SocialPackage!Contents : PartsAreOut([stage |-> "sending", of |-> c, parts |-> <<>>])
  BY PartsThereAre DEF PartsAreOut
<1>. QED
  BY <1>1, <1>2, <1>3

\* The record of a call whose parts are out is of a chain of them.
LEMMA RecordIsWhole ==
  ASSUME SocialInv, NEW u \in Authors, posting[u].stage = "sent", SocialPackage!FirstPart(u) # 0
  PROVE  \E q \in Chains(SocialPackage!FirstPart(u), posting[u].of) :
           IsChain(q, SocialPackage!FirstPart(u), posting[u].of)
<1>0. PICK p \in PostingOf : p = posting[u]
  BY DEF SocialInv, SocialTyped
<1>. DEFINE l == SocialPackage!PartsOf(p.of)
<1>1. PartsAreOut(p) /\ p.stage = "sent"
  BY <1>0 DEF SocialInv
<1>2. /\ p.parts \in Seq(Nat) /\ Len(p.parts) = l /\ l \in Nat \ {0} /\ p.parts # <<>>
  <2>1. l \in Nat \ {0}
    BY PartsThereAre
  <2>. QED
    BY <1>1, <2>1 DEF PostingOf, PartsAreOut
<1>3. SocialPackage!FirstPart(u) = p.parts[1]
  BY <1>0, <1>2 DEF SocialPackage!FirstPart, SocialPackage!PartsSent
<1>. HIDE DEF l
<1>4. \A k \in 1 .. l : k > 1 =>
        /\ p.parts[k - 1] # 0
        /\ \E n \in DOMAIN socialPublished :
             IsPart(n, p.of, k) /\ Answers(n, p.parts[k - 1]) /\ (p.parts[k] # 0 => n = p.parts[k])
  BY <1>1, <1>2 DEF PartsAreOut
<1>5. p.parts[1] # 0 /\ IsPart(p.parts[1], p.of, 1)
  BY <1>1, <1>2, <1>3 DEF PartsAreOut
<1>. DEFINE q == [k \in 1 .. l |->
               IF k = 1 THEN p.parts[1]
               ELSE CHOOSE n \in DOMAIN socialPublished :
                      IsPart(n, p.of, k) /\ Answers(n, p.parts[k - 1]) /\ (p.parts[k] # 0 => n = p.parts[k])]
<1>6. \A k \in 1 .. l : k > 1 =>
        /\ q[k] \in DOMAIN socialPublished
        /\ IsPart(q[k], p.of, k) /\ Answers(q[k], p.parts[k - 1]) /\ (p.parts[k] # 0 => q[k] = p.parts[k])
  BY <1>4
<1>7. q[1] = p.parts[1] /\ p.parts[1] \in DOMAIN socialPublished
  BY <1>2, <1>5 DEF IsPart
<1>8. q \in Chains(p.parts[1], p.of)
  <2>1. \A k \in 1 .. l : q[k] \in DOMAIN socialPublished
    <3>. HIDE DEF q
    <3>1. \A k \in 1 .. l : k = 1 \/ k > 1
      BY <1>2
    <3>. QED
      BY <1>2, <1>6, <1>7, <3>1
  <2>. QED
    BY <2>1 DEF Chains, l
<1>. HIDE DEF q
<1>9. \A k \in 1 .. l : IsPart(q[k], p.of, k) /\ (k > 1 => Answers(q[k], q[k - 1]))
  <2>. TAKE k \in 1 .. l
  <2>1. k - 1 \in 1 .. l /\ k > 1 => q[k - 1] = p.parts[k - 1]
    <3>1. CASE k - 1 = 1
      BY <1>7, <3>1
    <3>2. CASE k - 1 > 1 /\ k - 1 \in 1 .. l
      BY <1>2, <1>4, <1>6, <3>2
    <3>. QED
      BY <1>2, <3>1, <3>2
  <2>. QED
    BY <1>2, <1>5, <1>6, <1>7, <2>1
<1>10. IsChain(q, p.parts[1], p.of)
  BY <1>7, <1>9 DEF IsChain, l
<1>. QED
  BY <1>0, <1>3, <1>8, <1>10

\* A step of this part keeps SocialInv.
LEMMA SocialStep == ASSUME SocialInv, [SocialPackage!SocialPostsNext]_socialVars PROVE SocialInv'
<1>0. SocialTyped
  BY DEF SocialInv
<1>1. ASSUME NEW u \in Authors, posting[u].stage = "sending",
             posting[u].of \in SocialPackage!Singles \cup Links
      PROVE  posting[u].parts = <<>> /\ SocialPackage!Previous(u) = SocialPackage!Unknown
  <2>1. PICK p \in PostingOf : p = posting[u] /\ PartsAreOut(p)
    BY DEF SocialInv, SocialTyped
  <2>2. SocialPackage!PartsOf(p.of) = 1
    BY <1>1, <2>1, ConstantsOfPosts DEF SocialPackage!PartsOf, SocialPackage!Singles
  <2>3. p.parts = <<>>
    BY <1>1, <2>1, <2>2 DEF PartsAreOut, PostingOf
  <2>. QED
    BY <2>1, <2>3 DEF SocialPackage!Previous, SocialPackage!PartsSent
<1>2. ASSUME NEW u \in Authors, NEW kind \in {Tweets, Updates, Submissions}, SocialPackage!PostOnce(u, kind)
      PROVE  SocialInv'
  <2>1. posting[u].stage = "sending" /\ posting[u].of \in SocialPackage!Singles
    BY <1>2 DEF SocialPackage!PostOnce, SocialPackage!Sends, SocialPackage!Singles
  <2>2. SocialPackage!Publish(u, SocialPackage!Previous(u))
    BY <1>1, <1>2, <2>1 DEF SocialPackage!PostOnce
  <2>. QED
    BY <1>2, <2>1, <2>2, PartIsAdded DEF SocialPackage!PostOnce
<1>3. ASSUME NEW u \in Authors, SocialPackage!SendPart(u) PROVE SocialInv'
  BY <1>3, PartIsAdded DEF SocialPackage!SendPart, SocialPackage!Sends
<1>4. ASSUME NEW u \in Authors, SocialPackage!PostHackerNews(u) PROVE SocialInv'
  <2>1. posting[u].stage = "sending" /\ posting[u].of \in Links /\ UNCHANGED posts
    BY <1>4 DEF SocialPackage!PostHackerNews, SocialPackage!Sends
  <2>2. posting[u].parts = <<>> /\ SocialPackage!Previous(u) = SocialPackage!Unknown
    BY <1>1, <2>1
  <2>3. CASE SocialPackage!Publish(u, SocialPackage!Unknown)
             /\ \E id \in {Len(socialPublished) + 1, SocialPackage!Unknown} : SocialPackage!Proceed(u, id)
    BY <2>1, <2>2, <2>3, PartIsAdded
  <2>4. CASE SocialPackage!Proceed(u, SocialPackage!Unknown) /\ UNCHANGED socialPublished
    <3>1. PICK p \in PostingOf : p = posting[u] /\ PartsAreOut(p)
      BY DEF SocialInv, SocialTyped
    <3>2. SocialPackage!PartsOf(p.of) = 1
      BY <2>1, <3>1, ConstantsOfPosts DEF SocialPackage!PartsOf
    <3>3. PICK one \in Seq(Nat) : one = Append(<<>>, 0) /\ Len(one) = 1 /\ one[1] = 0
      <4>1. <<>> \in Seq(Nat) /\ Len(<<>>) = 0 /\ 0 \in Nat
        OBVIOUS
      <4>2. \A s \in Seq(Nat) : Len(s) = 0 =>
              Append(s, 0) \in Seq(Nat) /\ Len(Append(s, 0)) = 1 /\ Append(s, 0)[1] = 0
        OBVIOUS
      <4>. QED
        BY <4>1, <4>2
    <3>4. posting' = [posting EXCEPT ![u] = [p EXCEPT !.parts = one, !.stage = "sent"]]
      <4>1. p.parts = <<>> /\ posting[u].parts = <<>> /\ Len(<<>>) = 0
        BY <2>2, <3>1
      <4>2. posting' = [posting EXCEPT ![u].parts = one, ![u].stage = "sent"]
        BY <2>4, <3>1, <3>2, <3>3, <4>1 DEF SocialPackage!Proceed, SocialPackage!PartsSent, SocialPackage!Unknown
      <4>. QED
        BY <1>0, <3>1, <4>2 DEF SocialTyped
    <3>5. \A x \in PostingOf : LET y == [x EXCEPT !.parts = one, !.stage = "sent"] IN
            y \in PostingOf /\ y.parts = one /\ y.stage = "sent" /\ y.of = x.of
      BY <3>3 DEF PostingOf
    <3>6. PICK new \in PostingOf :
            /\ posting' = [posting EXCEPT ![u] = new]
            /\ new.parts = one /\ new.stage = "sent" /\ new.of = p.of
      <4>. HIDE DEF PostingOf
      <4>. QED
        BY <3>1, <3>4, <3>5
    <3>7. p.of \in SocialPackage!Contents
      BY <2>1, <3>1 DEF PartsAreOut
    <3>8. PartsAreOut(new)
      BY <3>2, <3>3, <3>6, <3>7 DEF PartsAreOut
    <3>. QED
      BY <2>1, <2>4, <3>6, <3>8, CallEnds
  <2>. QED
    BY <1>4, <2>3, <2>4 DEF SocialPackage!PostHackerNews
<1>5. ASSUME NEW u \in Authors, SocialPackage!PartRefused(u) \/ SocialPackage!RecordPost(u)
      PROVE  SocialInv'
  <2>1. posting' = [posting EXCEPT ![u] = SocialPackage!Idle] /\ UNCHANGED socialPublished
    BY <1>5 DEF SocialPackage!PartRefused, SocialPackage!RecordPost
  <2>2. ASSUME NEW r \in posts', r \notin posts
        PROVE  /\ r \in [of : SocialPackage!Contents, id : Nat]
               /\ r.id # 0 => \E q \in Chains(r.id, r.of) : IsChain(q, r.id, r.of)
    <3>1. posting[u].stage = "sent" /\ r = [of |-> posting[u].of, id |-> SocialPackage!FirstPart(u)]
      BY <1>5, <2>2 DEF SocialPackage!PartRefused, SocialPackage!RecordPost
    <3>2. r.of = posting[u].of /\ r.id = SocialPackage!FirstPart(u)
      BY <3>1
    <3>3. posting[u].of \in SocialPackage!Contents
      BY <3>1 DEF SocialInv, PartsAreOut
    <3>4. SocialPackage!FirstPart(u) \in Nat
      <4>1. PICK p \in PostingOf : p = posting[u]
        BY <1>0 DEF SocialTyped
      <4>. QED
        BY <4>1 DEF SocialPackage!FirstPart, SocialPackage!PartsSent, SocialPackage!Unknown, PostingOf
    <3>. QED
      BY <3>1, <3>2, <3>3, <3>4, RecordIsWhole
  <2>. QED
    BY <2>1, <2>2, CallEnds, IdleIsFine
<1>6. ASSUME NEW u \in Authors, NEW c \in SocialPackage!Contents, SocialPackage!ResolveCredentials(u, c)
      PROVE  SocialInv'
  <2>. DEFINE new == [stage |-> "sending", of |-> c, parts |-> <<>>]
  <2>1. posting' = [posting EXCEPT ![u] = new] /\ UNCHANGED <<socialPublished, posts>>
    BY <1>6 DEF SocialPackage!ResolveCredentials
  <2>2. new \in PostingOf /\ PartsAreOut(new)
    BY IdleIsFine
  <2>. HIDE DEF new
  <2>. QED
    BY <2>1, <2>2, CallEnds
<1>7. ASSUME NEW u \in Authors, SocialPackage!AnswerLost(u) PROVE SocialInv'
  <2>0. /\ posting[u].stage = "sending" /\ SocialPackage!Publish(u, SocialPackage!Previous(u))
        /\ posting' = [posting EXCEPT ![u] = SocialPackage!Idle] /\ UNCHANGED posts
    BY <1>7 DEF SocialPackage!AnswerLost
  <2>1. PICK m \in PublishedPart :
          socialPublished' = Append(socialPublished, m) /\ SocialPackage!ThreadsAreChains'
    BY <2>0, PartComesOut
  <2>2. SocialTyped'
    <3>1. posting' \in [Authors -> PostingOf]
      BY <1>0, <2>0, IdleIsFine DEF SocialTyped
    <3>2. socialPublished' \in Seq(PublishedPart)
      BY <1>0, <2>1, PublishedStays
    <3>. QED
      BY <1>0, <2>0, <3>1, <3>2 DEF SocialTyped
  <2>3. ASSUME NEW v \in Authors PROVE PartsAreOut(posting[v])'
    <3>1. PICK x \in PostingOf : x = posting'[v] /\ PartsAreOut(x)
      BY <1>0, <2>0, IdleIsFine DEF SocialInv, SocialTyped
    <3>2. PartsAreOut(x)'
      BY <1>0, <2>1, <3>1, OutStaysOut
    <3>. QED
      BY <3>1, <3>2
  <2>4. ASSUME NEW r \in posts', r.id # 0
        PROVE  (\E q \in Chains(r.id, r.of) : IsChain(q, r.id, r.of))'
    <3>1. \E q \in Chains(r.id, r.of) : IsChain(q, r.id, r.of)
      BY <2>0, <2>4 DEF SocialInv
    <3>. QED
      BY <1>0, <2>1, <3>1, OutStaysOut
  <2>. QED
    BY <2>1, <2>2, <2>3, <2>4 DEF SocialInv
<1>8. CASE UNCHANGED <<socialPublished, posting, posts>>
  BY <1>8 DEF SocialInv, SocialTyped, SocialPackage!ThreadsAreChains, PartsAreOut, IsPart, Answers,
              IsChain, Chains
<1>9. CASE \/ SocialPackage!BootstrapSchemas \/ SocialPackage!Connect \/ SocialPackage!ScheduleContent
           \/ (\E i \in {1} \cap DOMAIN socialPublished : SocialPackage!GetPostAnalytics(i))
           \/ UNCHANGED socialVars
  <2>1. UNCHANGED <<socialPublished, posting, posts>>
    BY <1>9 DEF SocialPackage!BootstrapSchemas, SocialPackage!Connect, SocialPackage!ScheduleContent,
                SocialPackage!GetPostAnalytics, socialVars
  <2>. QED
    BY <1>8, <2>1
<1>. QED
  BY <1>2, <1>3, <1>4, <1>5, <1>6, <1>7, <1>9
     DEF SocialPackage!SocialPostsNext, SocialPackage!PostTweet, SocialPackage!PostLinkedIn,
         SocialPackage!PostReddit

\* SocialInv holds in every reachable state.
LEMMA SocialHolds == Spec => []SocialInv
<1>1. Init => SocialInv
  <2>. SUFFICES ASSUME Init PROVE SocialInv
    OBVIOUS
  <2>1. socialPublished = <<>> /\ posting = [u \in Authors |-> SocialPackage!Idle] /\ posts = {}
    BY DEF Init, SocialPackage!SocialPostsInit
  <2>2. SocialTyped
    BY <2>1, IdleIsFine DEF SocialTyped
  <2>3. \A u \in Authors : PartsAreOut(posting[u])
    BY <2>1 DEF PartsAreOut, SocialPackage!Idle
  <2>. QED
    BY <2>1, <2>2, <2>3 DEF SocialInv, SocialPackage!ThreadsAreChains
<1>. QED
  BY <1>1, SocialStep, StepOfParts, PTL DEF Spec

\* The walk along a thread from a post is a function on the posts.
Walk(h, k) ==
  h = [j \in DOMAIN socialPublished |->
        \/ socialPublished[j].part = k
        \/ \E n \in (j + 1) .. Len(socialPublished) : SocialPackage!Follows(j, n) /\ h[n]]

\* There is one: it is true where some path leads to the end.
LEMMA WalkExists == ASSUME SocialTyped, NEW k PROVE \E h : Walk(h, k)
<1>. DEFINE D == DOMAIN socialPublished
            l == Len(socialPublished)
            Path(s, m, j) == /\ s \in [0 .. m -> D] /\ s[0] = j /\ socialPublished[s[m]].part = k
                             /\ \A t \in 0 .. (m - 1) :
                                  s[t + 1] > s[t] /\ SocialPackage!Follows(s[t], s[t + 1])
            Leads(j) == \E m \in Nat : \E s \in [0 .. m -> D] : Path(s, m, j)
            h == [j \in D |-> Leads(j)]
<1>1. l \in Nat /\ D = 1 .. l
  BY DEF SocialTyped
<1>2. ASSUME NEW j \in D, socialPublished[j].part = k PROVE Leads(j)
  <2>. DEFINE s == [t \in 0 .. 0 |-> j]
  <2>1. Path(s, 0, j)
    BY <1>2
  <2>. QED
    BY <2>1
<1>3. ASSUME NEW j \in D, NEW n \in (j + 1) .. l, SocialPackage!Follows(j, n), Leads(n) PROVE Leads(j)
  <2>0. PICK m \in Nat : \E s \in [0 .. m -> D] : Path(s, m, n)
    BY <1>3
  <2>1. PICK s \in [0 .. m -> D] : Path(s, m, n)
    BY <2>0
  <2>. DEFINE u == [t \in 0 .. (m + 1) |-> IF t = 0 THEN j ELSE s[t - 1]]
  <2>2. u \in [0 .. (m + 1) -> D] /\ u[0] = j /\ u[m + 1] = s[m] /\ u[1] = n
    BY <2>1
  <2>3. ASSUME NEW t \in 0 .. m PROVE u[t + 1] > u[t] /\ SocialPackage!Follows(u[t], u[t + 1])
    <3>1. CASE t = 0
      <4>1. n > j
        BY <1>1
      <4>. QED
        BY <1>3, <2>2, <3>1, <4>1
    <3>2. CASE t # 0
      <4>1. u[t + 1] = s[t] /\ u[t] = s[t - 1] /\ t - 1 \in 0 .. (m - 1) /\ (t - 1) + 1 = t
        BY <2>1, <3>2
      <4>. QED
        BY <2>1, <4>1
    <3>. QED
      BY <3>1, <3>2
  <2>. HIDE DEF u
  <2>4. Path(u, m + 1, j)
    BY <2>1, <2>2, <2>3
  <2>5. m + 1 \in Nat
    OBVIOUS
  <2>. HIDE DEF Path
  <2>. QED
    BY <2>2, <2>4, <2>5
<1>4. ASSUME NEW j \in D, Leads(j), socialPublished[j].part # k
      PROVE  \E n \in (j + 1) .. l : SocialPackage!Follows(j, n) /\ Leads(n)
  <2>0. PICK m \in Nat : \E s \in [0 .. m -> D] : Path(s, m, j)
    BY <1>4
  <2>1. PICK s \in [0 .. m -> D] : Path(s, m, j)
    BY <2>0
  <2>2. m # 0
    BY <1>4, <2>1
  <2>. DEFINE u == [t \in 0 .. (m - 1) |-> s[t + 1]]
              n == s[1]
  <2>3. m - 1 \in Nat /\ u \in [0 .. (m - 1) -> D] /\ u[0] = n /\ u[m - 1] = s[m]
    BY <2>1, <2>2
  <2>4. ASSUME NEW t \in 0 .. ((m - 1) - 1) PROVE u[t + 1] > u[t] /\ SocialPackage!Follows(u[t], u[t + 1])
    <3>1. u[t + 1] = s[(t + 1) + 1] /\ u[t] = s[t + 1] /\ t + 1 \in 0 .. (m - 1)
      BY <2>1, <2>2
    <3>. QED
      BY <2>1, <3>1
  <2>5. Leads(n)
    <3>. HIDE DEF u, n
    <3>1. Path(u, m - 1, n)
      BY <2>1, <2>3, <2>4
    <3>. QED
      BY <2>3, <3>1
  <2>6. n \in (j + 1) .. l /\ SocialPackage!Follows(j, n)
    <3>1. 0 \in 0 .. (m - 1) /\ 0 + 1 = 1 /\ 1 \in 0 .. m
      BY <2>2
    <3>2. s[0] = j /\ s[0 + 1] > s[0] /\ SocialPackage!Follows(s[0], s[0 + 1]) /\ n \in D
      BY <2>1, <3>1
    <3>. QED
      BY <1>1, <3>1, <3>2
  <2>. QED
    BY <2>5, <2>6
<1>. HIDE DEF Leads
<1>5. ASSUME NEW j \in D
      PROVE  Leads(j) <=> \/ socialPublished[j].part = k
                          \/ \E n \in (j + 1) .. l : SocialPackage!Follows(j, n) /\ Leads(n)
  BY <1>2, <1>3, <1>4
<1>6. \A n \in D : h[n] = Leads(n)
  OBVIOUS
<1>7. \A j \in D : \A n \in (j + 1) .. l : n \in D
  BY <1>1
<1>8. \A j \in D : Leads(j) = (\/ socialPublished[j].part = k
                               \/ \E n \in (j + 1) .. l : SocialPackage!Follows(j, n) /\ h[n])
  <2>. TAKE j \in D
  <2>. HIDE DEF h
  <2>1. Leads(j) <=> \/ socialPublished[j].part = k
                     \/ \E n \in (j + 1) .. l : SocialPackage!Follows(j, n) /\ h[n]
    BY <1>5, <1>6, <1>7
  <2>2. Leads(j) \in BOOLEAN
    BY DEF Leads
  <2>. QED
    BY <2>1, <2>2
<1>9. Walk(h, k)
  BY <1>8 DEF Walk
<1>. QED
  BY <1>9

\* From each part of a chain the walk comes to its last.
LEMMA ChainsEnd ==
  ASSUME SocialInv, NEW id \in Nat, NEW c, NEW q \in Chains(id, c), IsChain(q, id, c)
  PROVE  SocialPackage!ReachesEnd(id, SocialPackage!PartsOf(c))
<1>. DEFINE k == SocialPackage!PartsOf(c)
            W(h) == Walk(h, k)
<1>1. SocialPackage!ReachesEnd(id, k) = (CHOOSE h : W(h))[id]
  BY DEF SocialPackage!ReachesEnd, Walk
<1>2. PICK h : W(h) /\ SocialPackage!ReachesEnd(id, k) = h[id]
  <2>1. \E h : W(h)
    BY WalkExists DEF SocialInv
  <2>. HIDE DEF W
  <2>. QED
    BY <1>1, <2>1
<1>3. k \in Nat \ {0}
  BY PartsThereAre
<1>. HIDE DEF k
<1>4. \A t \in 1 .. k : /\ q[t] \in DOMAIN socialPublished /\ IsPart(q[t], c, t)
                        /\ t > 1 => Answers(q[t], q[t - 1])
  BY DEF IsChain, Chains, k
<1>5. \A j \in DOMAIN socialPublished :
        h[j] <=> \/ socialPublished[j].part = k
                 \/ \E n \in (j + 1) .. Len(socialPublished) : SocialPackage!Follows(j, n) /\ h[n]
  BY <1>2 DEF Walk
<1>6. \A t \in 1 .. k : t < k /\ h[q[t + 1]] => h[q[t]]
  <2>. SUFFICES ASSUME NEW t \in 1 .. k, t < k, h[q[t + 1]] PROVE h[q[t]]
    OBVIOUS
  <2>1. t + 1 \in 1 .. k /\ t + 1 > 1 /\ (t + 1) - 1 = t
    BY <1>3
  <2>2. Answers(q[t + 1], q[t]) /\ IsPart(q[t + 1], c, t + 1) /\ q[t] \in DOMAIN socialPublished
    BY <1>4, <2>1
  <2>3. q[t] \in 1 .. (q[t + 1] - 1)
    BY <2>1, <2>2 DEF SocialInv, SocialPackage!ThreadsAreChains, IsPart, Answers
  <2>4. q[t + 1] \in (q[t] + 1) .. Len(socialPublished)
    BY <2>2, <2>3 DEF IsPart, SocialInv, SocialTyped
  <2>5. SocialPackage!Follows(q[t], q[t + 1])
    BY <2>2 DEF SocialPackage!Follows, Answers
  <2>. QED
    BY <1>5, <2>2, <2>4, <2>5
<1>7. h[q[k]]
  BY <1>3, <1>4, <1>5 DEF IsPart
<1>8. \A t \in 1 .. k : h[q[t]]
  <2>. DEFINE Bad == {n \in Nat : n < k /\ ~h[q[k - n]]}
  <2>. SUFFICES Bad = {}
    <3>1. \A t \in 1 .. k : k - t \in Nat /\ k - t < k /\ k - (k - t) = t
      BY <1>3
    <3>. QED
      BY <3>1
  <2>. SUFFICES ASSUME Bad # {} PROVE FALSE
    OBVIOUS
  <2>1. PICK x \in Bad : \A y \in Bad : x <= y
    <3>. HIDE DEF Bad
    <3>1. Bad \subseteq Nat
      BY DEF Bad
    <3>. QED
      BY <3>1, Smallest
  <2>2. x \in Nat /\ x < k /\ ~h[q[k - x]]
    OBVIOUS
  <2>3. x # 0
    BY <1>3, <1>7, <2>2
  <2>4. x - 1 \notin Bad /\ x - 1 \in Nat /\ x - 1 < k
    <3>. HIDE DEF Bad
    <3>. QED
      BY <1>3, <2>1, <2>2, <2>3
  <2>5. h[q[k - (x - 1)]]
    BY <2>4
  <2>6. k - x \in 1 .. k /\ k - x < k /\ (k - x) + 1 = k - (x - 1)
    BY <1>3, <2>2, <2>3
  <2>. QED
    BY <1>6, <2>2, <2>5, <2>6
<1>9. q[1] = id
  BY DEF IsChain
<1>. QED
  BY <1>2, <1>3, <1>8, <1>9 DEF k

\* A record that names a post names the first of a thread that is out as a
\* whole.
LEMMA RecordsAreWhole == ASSUME SocialInv PROVE SocialPackage!RecordedIsWhole
<1>. SUFFICES ASSUME NEW r \in posts, r.id # 0
     PROVE  /\ socialPublished[r.id].of = r.of /\ socialPublished[r.id].part = 1
            /\ SocialPackage!ReachesEnd(r.id, SocialPackage!PartsOf(r.of))
  BY DEF SocialPackage!RecordedIsWhole, SocialPackage!Unknown
<1>1. r.id \in Nat
  BY DEF SocialInv, SocialTyped
<1>2. PICK q \in Chains(r.id, r.of) : IsChain(q, r.id, r.of)
  BY DEF SocialInv
<1>3. SocialPackage!ReachesEnd(r.id, SocialPackage!PartsOf(r.of))
  BY <1>1, <1>2, ChainsEnd
<1>4. IsPart(r.id, r.of, 1)
  BY <1>2, PartsThereAre DEF IsChain
<1>. QED
  BY <1>3, <1>4 DEF IsPart

(****************************************************************************)
(* Answers of the model.  The reply is laid out in blocks, one for each     *)
(* section that was begun, and only the last of them may be incomplete.     *)
(****************************************************************************)
Name(s) == CanvasViews!Sections[s]
BlocksOf == [head : Nat, fences : {0, 1, 2}, code : Nat]
End(b) == b.head + b.fences + b.code

\* What is in the block of section s.
HasBlock(b, s) ==
  /\ b.head \in 1 .. Len(reply) /\ End(b) \in 1 .. Len(reply)
  /\ reply[b.head] = CanvasViews!Heading(Name(s))
  /\ b.fences # 0 => reply[b.head + 1] = CanvasViews!Fence(Name(s))
  /\ \A i \in (b.head + 2) .. (b.head + 1 + b.code) : reply[i] = CanvasViews!Code(Name(s))
  /\ b.fences = 2 => reply[b.head + 2 + b.code] = CanvasViews!Fence(Name(s))
  /\ b.fences = 0 => b.code = 0
  /\ b.fences = 2 => b.code > 0

Layout(at) ==
  /\ at \in [1 .. 3 -> BlocksOf]
  /\ \A s \in 1 .. 3 :
       /\ at[s].head # 0 => HasBlock(at[s], s)
       /\ at[s].head = 0 => at[s].fences = 0 /\ at[s].code = 0
  /\ \A i \in 1 .. Len(reply) : \E s \in 1 .. 3 : at[s].head # 0 /\ i \in at[s].head .. End(at[s])
  /\ \A s, t \in 1 .. 3 : s < t /\ at[s].head # 0 /\ at[t].head # 0 =>
       at[s].fences = 2 /\ End(at[s]) < at[t].head
  /\ \A s \in 1 .. 3 : at[s].head # 0 /\ (\A t \in 1 .. 3 : t > s => at[t].head = 0) =>
       End(at[s]) = Len(reply)

\* Lines of different kinds, or of different sections, differ.
LEMMA LinesDiffer ==
  /\ CanvasViews!Sections \in [1 .. 3 -> {"html", "js", "css"}] /\ DOMAIN CanvasViews!Sections = 1 .. 3
  /\ Name(1) = "html" /\ Name(2) = "js" /\ Name(3) = "css"
  /\ \A s, t \in 1 .. 3 :
       /\ CanvasViews!Heading(Name(s)) # CanvasViews!Fence(Name(t))
       /\ CanvasViews!Heading(Name(s)) # CanvasViews!Code(Name(t))
       /\ CanvasViews!Fence(Name(s)) # CanvasViews!Code(Name(t))
       /\ CanvasViews!Heading(Name(s)) = CanvasViews!Heading(Name(t)) => s = t
       /\ CanvasViews!Fence(Name(s)) = CanvasViews!Fence(Name(t)) => s = t
       /\ CanvasViews!Code(Name(s)) = CanvasViews!Code(Name(t)) => s = t
  /\ \A n : /\ CanvasViews!Heading(n).kind = "heading" /\ CanvasViews!Fence(n).kind = "fence"
            /\ CanvasViews!Code(n).kind = "code"
<1>1. /\ CanvasViews!Sections \in [1 .. 3 -> {"html", "js", "css"}] /\ DOMAIN CanvasViews!Sections = 1 .. 3
      /\ Name(1) = "html" /\ Name(2) = "js" /\ Name(3) = "css"
  BY DEF CanvasViews!Sections, Name
<1>2. \A s, t \in 1 .. 3 : Name(s) = Name(t) => s = t
  BY <1>1
<1>3. \A n, o : /\ CanvasViews!Heading(n) # CanvasViews!Fence(o) /\ CanvasViews!Heading(n) # CanvasViews!Code(o)
                /\ CanvasViews!Fence(n) # CanvasViews!Code(o)
                /\ CanvasViews!Heading(n) = CanvasViews!Heading(o) => n = o
                /\ CanvasViews!Fence(n) = CanvasViews!Fence(o) => n = o
                /\ CanvasViews!Code(n) = CanvasViews!Code(o) => n = o
                /\ CanvasViews!Heading(n).kind = "heading" /\ CanvasViews!Fence(n).kind = "fence"
                /\ CanvasViews!Code(n).kind = "code"
  BY DEF CanvasViews!Heading, CanvasViews!Fence, CanvasViews!Code
<1>. QED
  BY <1>1, <1>2, <1>3

LinesOfReply == [kind : {"heading", "fence", "code"}, of : {"html", "js", "css"}]

\* Where the lines of a section are.
LEMMA LineIsAt ==
  ASSUME reply \in Seq(LinesOfReply),
         NEW at, Layout(at), NEW s \in 1 .. 3, NEW i \in 1 .. Len(reply)
  PROVE  /\ reply[i] = CanvasViews!Heading(Name(s)) <=> at[s].head # 0 /\ i = at[s].head
         /\ reply[i] = CanvasViews!Fence(Name(s)) <=>
              \/ at[s].fences # 0 /\ i = at[s].head + 1
              \/ at[s].fences = 2 /\ i = at[s].head + 2 + at[s].code
         /\ reply[i] = CanvasViews!Code(Name(s)) <=>
              at[s].head # 0 /\ i \in (at[s].head + 2) .. (at[s].head + 1 + at[s].code)
<1>1. \A t \in 1 .. 3 : at[t] \in BlocksOf
  BY DEF Layout
<1>2. \A t \in 1 .. 3 : at[t].head # 0 => HasBlock(at[t], t)
  BY DEF Layout
<1>3. \A t \in 1 .. 3 : at[t].head = 0 => at[t].fences = 0 /\ at[t].code = 0
  BY DEF Layout
<1>4. PICK t \in 1 .. 3 : at[t].head # 0 /\ i \in at[t].head .. End(at[t])
  BY DEF Layout
<1>5. PICK b \in BlocksOf : b = at[t]
  BY <1>1
<1>6. /\ b.head \in Nat /\ b.code \in Nat /\ b.fences \in {0, 1, 2} /\ End(b) = b.head + b.fences + b.code
  BY DEF BlocksOf, End
<1>7. \/ i = b.head
      \/ i = b.head + 1 /\ b.fences # 0
      \/ i \in (b.head + 2) .. (b.head + 1 + b.code)
      \/ i = b.head + 2 + b.code /\ b.fences = 2
  <2>1. b.head <= i /\ i <= b.head + b.fences + b.code /\ i \in Nat
    BY <1>4, <1>5, <1>6
  <2>2. b.fences = 0 => b.code = 0
    BY <1>2, <1>4, <1>5 DEF HasBlock
  <2>3. CASE b.fences = 0
    BY <1>6, <2>1, <2>2, <2>3
  <2>4. CASE b.fences = 1
    BY <1>6, <2>1, <2>4
  <2>5. CASE b.fences = 2
    BY <1>6, <2>1, <2>5
  <2>. QED
    BY <1>6, <2>3, <2>4, <2>5
<1>8. \/ i = b.head /\ reply[i] = CanvasViews!Heading(Name(t))
      \/ i = b.head + 1 /\ b.fences # 0 /\ reply[i] = CanvasViews!Fence(Name(t))
      \/ i \in (b.head + 2) .. (b.head + 1 + b.code) /\ reply[i] = CanvasViews!Code(Name(t))
      \/ i = b.head + 2 + b.code /\ b.fences = 2 /\ reply[i] = CanvasViews!Fence(Name(t))
  BY <1>2, <1>4, <1>5, <1>7 DEF HasBlock
<1>9. /\ reply[i] = CanvasViews!Heading(Name(s)) => at[s].head # 0 /\ i = at[s].head
      /\ reply[i] = CanvasViews!Fence(Name(s)) =>
           \/ at[s].fences # 0 /\ i = at[s].head + 1
           \/ at[s].fences = 2 /\ i = at[s].head + 2 + at[s].code
      /\ reply[i] = CanvasViews!Code(Name(s)) =>
           at[s].head # 0 /\ i \in (at[s].head + 2) .. (at[s].head + 1 + at[s].code)
  BY <1>4, <1>5, <1>8, LinesDiffer
<1>10. /\ at[s].head # 0 /\ i = at[s].head => reply[i] = CanvasViews!Heading(Name(s))
       /\ at[s].fences # 0 /\ i = at[s].head + 1 => reply[i] = CanvasViews!Fence(Name(s))
       /\ at[s].fences = 2 /\ i = at[s].head + 2 + at[s].code => reply[i] = CanvasViews!Fence(Name(s))
       /\ at[s].head # 0 /\ i \in (at[s].head + 2) .. (at[s].head + 1 + at[s].code) =>
            reply[i] = CanvasViews!Code(Name(s))
  <2>1. CASE at[s].head = 0
    BY <1>3, <2>1
  <2>2. CASE at[s].head # 0
    <3>1. HasBlock(at[s], s)
      BY <1>2, <2>2
    <3>2. reply[at[s].head] = CanvasViews!Heading(Name(s))
      BY <3>1 DEF HasBlock
    <3>3. at[s].fences # 0 => reply[at[s].head + 1] = CanvasViews!Fence(Name(s))
      BY <3>1 DEF HasBlock
    <3>4. at[s].fences = 2 => reply[at[s].head + 2 + at[s].code] = CanvasViews!Fence(Name(s))
      BY <3>1 DEF HasBlock
    <3>5. \A j \in (at[s].head + 2) .. (at[s].head + 1 + at[s].code) : reply[j] = CanvasViews!Code(Name(s))
      BY <3>1 DEF HasBlock
    <3>. QED
      BY <3>2, <3>3, <3>4, <3>5
  <2>. QED
    BY <2>1, <2>2
<1>. QED
  BY <1>9, <1>10

\* The numbers of a block, and where it ends.
LEMMA BlockNumbers ==
  ASSUME reply \in Seq(LinesOfReply), NEW at, Layout(at), NEW s \in 1 .. 3
  PROVE  /\ at[s].head \in Nat /\ at[s].code \in Nat /\ at[s].fences \in {0, 1, 2}
         /\ End(at[s]) = at[s].head + at[s].fences + at[s].code
         /\ DOMAIN reply = 1 .. Len(reply) /\ Len(reply) \in Nat
         /\ at[s].head # 0 => at[s].head \in 1 .. Len(reply) /\ End(at[s]) \in 1 .. Len(reply)
         /\ at[s].head = 0 => at[s].fences = 0
         /\ at[s].fences = 0 => at[s].code = 0
         /\ at[s].fences = 2 => at[s].code > 0
<1>1. at[s] \in BlocksOf
  BY DEF Layout
<1>2. /\ at[s].head # 0 => HasBlock(at[s], s)
      /\ at[s].head = 0 => at[s].fences = 0 /\ at[s].code = 0
  BY DEF Layout
<1>3. /\ at[s].head \in Nat /\ at[s].code \in Nat /\ at[s].fences \in {0, 1, 2}
      /\ End(at[s]) = at[s].head + at[s].fences + at[s].code
  BY <1>1 DEF BlocksOf, End
<1>4. DOMAIN reply = 1 .. Len(reply) /\ Len(reply) \in Nat
  OBVIOUS
<1>5. at[s].head # 0 => /\ at[s].head \in 1 .. Len(reply) /\ End(at[s]) \in 1 .. Len(reply)
                        /\ at[s].fences = 0 => at[s].code = 0
                        /\ at[s].fences = 2 => at[s].code > 0
  BY <1>2 DEF HasBlock
<1>. QED
  BY <1>2, <1>3, <1>4, <1>5

\* The lines of a section, as sets.
LEMMA LineSets ==
  ASSUME reply \in Seq(LinesOfReply), NEW at, Layout(at), NEW s \in 1 .. 3
  PROVE  /\ {i \in DOMAIN reply : reply[i] = CanvasViews!Heading(Name(s))} =
              IF at[s].head = 0 THEN {} ELSE {at[s].head}
         /\ {i \in DOMAIN reply : reply[i] = CanvasViews!Fence(Name(s))} =
              IF at[s].fences = 0 THEN {}
              ELSE IF at[s].fences = 1 THEN {at[s].head + 1}
              ELSE {at[s].head + 1} \cup {at[s].head + 2 + at[s].code}
         /\ {i \in DOMAIN reply : reply[i] = CanvasViews!Code(Name(s))} =
              IF at[s].head = 0 THEN {} ELSE (at[s].head + 2) .. (at[s].head + 1 + at[s].code)
<1>1. PICK h \in Nat, f \in {0, 1, 2}, c \in Nat, n \in Nat :
        /\ h = at[s].head /\ f = at[s].fences /\ c = at[s].code /\ n = Len(reply)
        /\ DOMAIN reply = 1 .. n
        /\ h # 0 => h \in 1 .. n /\ h + f + c \in 1 .. n
        /\ h = 0 => f = 0
        /\ f = 0 => c = 0
        /\ f = 2 => c > 0
  <2>1. /\ at[s].head \in Nat /\ at[s].code \in Nat /\ at[s].fences \in {0, 1, 2}
        /\ End(at[s]) = at[s].head + at[s].fences + at[s].code
        /\ DOMAIN reply = 1 .. Len(reply) /\ Len(reply) \in Nat
        /\ at[s].head # 0 => at[s].head \in 1 .. Len(reply) /\ End(at[s]) \in 1 .. Len(reply)
        /\ at[s].head = 0 => at[s].fences = 0
        /\ at[s].fences = 0 => at[s].code = 0
        /\ at[s].fences = 2 => at[s].code > 0
    BY BlockNumbers
  <2>2. PICK h \in Nat, f \in {0, 1, 2}, c \in Nat : h = at[s].head /\ f = at[s].fences /\ c = at[s].code
    BY <2>1
  <2>. QED
    BY <2>1, <2>2
<1>2. \A i \in 1 .. n :
         /\ reply[i] = CanvasViews!Heading(Name(s)) <=> h # 0 /\ i = h
         /\ reply[i] = CanvasViews!Fence(Name(s)) <=> (f # 0 /\ i = h + 1) \/ (f = 2 /\ i = h + 2 + c)
         /\ reply[i] = CanvasViews!Code(Name(s)) <=> h # 0 /\ i \in (h + 2) .. (h + 1 + c)
  <2>. SUFFICES ASSUME NEW i \in 1 .. n
                PROVE  /\ reply[i] = CanvasViews!Heading(Name(s)) <=> h # 0 /\ i = h
                       /\ reply[i] = CanvasViews!Fence(Name(s)) <=> (f # 0 /\ i = h + 1) \/ (f = 2 /\ i = h + 2 + c)
                       /\ reply[i] = CanvasViews!Code(Name(s)) <=> h # 0 /\ i \in (h + 2) .. (h + 1 + c)
    OBVIOUS
  <2>1. i \in 1 .. Len(reply)
    BY <1>1
  <2>2. /\ reply[i] = CanvasViews!Heading(Name(s)) <=> at[s].head # 0 /\ i = at[s].head
        /\ reply[i] = CanvasViews!Fence(Name(s)) <=>
             \/ at[s].fences # 0 /\ i = at[s].head + 1
             \/ at[s].fences = 2 /\ i = at[s].head + 2 + at[s].code
        /\ reply[i] = CanvasViews!Code(Name(s)) <=>
             at[s].head # 0 /\ i \in (at[s].head + 2) .. (at[s].head + 1 + at[s].code)
    BY <2>1, LineIsAt
  <2>. QED
    BY <1>1, <2>2
<1>3. {i \in 1 .. n : reply[i] = CanvasViews!Heading(Name(s))} = IF h = 0 THEN {} ELSE {h}
  BY <1>1, <1>2
<1>4. {i \in 1 .. n : reply[i] = CanvasViews!Fence(Name(s))} =
        IF f = 0 THEN {} ELSE IF f = 1 THEN {h + 1} ELSE {h + 1} \cup {h + 2 + c}
  <2>1. \A i \in 1 .. n : reply[i] = CanvasViews!Fence(Name(s)) <=> (f # 0 /\ i = h + 1) \/ (f = 2 /\ i = h + 2 + c)
    BY <1>2
  <2>2. CASE f = 0
    BY <2>1, <2>2
  <2>3. CASE f = 1
    <3>1. h + 1 \in 1 .. n
      BY <1>1, <2>3
    <3>. QED
      BY <2>1, <2>3, <3>1
  <2>4. CASE f = 2
    <3>1. h # 0 /\ h + 2 + c \in 1 .. n
      BY <1>1, <2>4
    <3>2. h + 1 \in 1 .. n
      BY <3>1
    <3>. QED
      BY <2>1, <2>4, <3>1, <3>2
  <2>. QED
    BY <2>2, <2>3, <2>4
<1>5. {i \in 1 .. n : reply[i] = CanvasViews!Code(Name(s))} =
        IF h = 0 THEN {} ELSE (h + 2) .. (h + 1 + c)
  <2>1. \A i \in (h + 2) .. (h + 1 + c) : h # 0 => i \in 1 .. n
    <3>1. h # 0 => h + f + c <= n
      BY <1>1
    <3>2. f = 0 => c = 0
      BY <1>1
    <3>3. CASE f = 0
      BY <3>2, <3>3
    <3>4. CASE f = 1
      BY <3>1, <3>4
    <3>5. CASE f = 2
      BY <3>1, <3>5
    <3>. QED
      BY <3>3, <3>4, <3>5
  <2>. QED
    BY <1>2, <2>1
<1>. QED
  BY <1>1, <1>3, <1>4, <1>5

\* How many there are of each.
LEMMA LineCounts ==
  ASSUME reply \in Seq(LinesOfReply), NEW at, Layout(at), NEW s \in 1 .. 3
  PROVE  /\ CanvasViews!Count(CanvasViews!Heading(Name(s))) = IF at[s].head = 0 THEN 0 ELSE 1
         /\ CanvasViews!Count(CanvasViews!Fence(Name(s))) = at[s].fences
         /\ CanvasViews!Count(CanvasViews!Code(Name(s))) = at[s].code
<1>1. PICK h \in Nat, f \in {0, 1, 2}, c \in Nat :
        /\ h = at[s].head /\ f = at[s].fences /\ c = at[s].code
        /\ h = 0 => f = 0
        /\ f = 0 => c = 0
        /\ f = 2 => c > 0
  <2>1. /\ at[s].head \in Nat /\ at[s].code \in Nat /\ at[s].fences \in {0, 1, 2}
        /\ at[s].head = 0 => at[s].fences = 0
        /\ at[s].fences = 0 => at[s].code = 0
        /\ at[s].fences = 2 => at[s].code > 0
    BY BlockNumbers
  <2>. QED
    BY <2>1
<1>2. \A l : CanvasViews!Count(l) = Cardinality({i \in DOMAIN reply : reply[i] = l})
  BY CardinalityOfViews DEF CanvasViews!Count
<1>3. \A i : Cardinality({i}) = 1 /\ IsFiniteSet({i})
  BY FS_Singleton
<1>4. Cardinality({}) = 0
  BY FS_EmptySet
<1>5. CanvasViews!Count(CanvasViews!Heading(Name(s))) = IF h = 0 THEN 0 ELSE 1
  <2>1. {i \in DOMAIN reply : reply[i] = CanvasViews!Heading(Name(s))} = IF h = 0 THEN {} ELSE {h}
    BY <1>1, LineSets
  <2>. QED
    BY <1>2, <1>3, <1>4, <2>1
<1>6. CanvasViews!Count(CanvasViews!Fence(Name(s))) = f
  <2>1. {i \in DOMAIN reply : reply[i] = CanvasViews!Fence(Name(s))} =
          IF f = 0 THEN {} ELSE IF f = 1 THEN {h + 1} ELSE {h + 1} \cup {h + 2 + c}
    BY <1>1, LineSets
  <2>2. f = 2 => h + 2 + c \notin {h + 1}
    BY <1>1
  <2>3. f = 2 => Cardinality({h + 1} \cup {h + 2 + c}) = 2
    <3>1. PICK S : S = {h + 1}
      OBVIOUS
    <3>2. IsFiniteSet(S) /\ Cardinality(S) = 1
      BY <1>3, <3>1
    <3>3. PICK x : x = h + 2 + c
      OBVIOUS
    <3>4. Cardinality(S \cup {x}) = IF x \in S THEN Cardinality(S) ELSE Cardinality(S) + 1
      BY <3>2, FS_AddElement
    <3>. QED
      BY <2>2, <3>1, <3>2, <3>3, <3>4
  <2>. QED
    BY <1>2, <1>3, <1>4, <2>1, <2>3
<1>7. CanvasViews!Count(CanvasViews!Code(Name(s))) = c
  <2>1. {i \in DOMAIN reply : reply[i] = CanvasViews!Code(Name(s))} =
          IF h = 0 THEN {} ELSE (h + 2) .. (h + 1 + c)
    BY <1>1, LineSets
  <2>2. Cardinality((h + 2) .. (h + 1 + c)) = c
    <3>1. PICK a \in Int, b \in Int : a = h + 2 /\ b = h + 1 + c
      BY <1>1
    <3>2. Cardinality(a .. b) = IF a > b THEN 0 ELSE b - a + 1
      BY FS_Interval
    <3>. QED
      BY <3>1, <3>2
  <2>. QED
    BY <1>1, <1>2, <1>4, <2>1, <2>2
<1>. QED
  BY <1>1, <1>5, <1>6, <1>7

\* The least element is the one below all others.
LEMMA LeastIs ==
  ASSUME NEW S \in SUBSET Nat, NEW m \in S, \A x \in S : m <= x
  PROVE  CanvasViews!Min(S) = m
<1>1. PICK k : k = CanvasViews!Min(S)
  OBVIOUS
<1>2. k \in S /\ \A y \in S : k <= y
  BY <1>1 DEF CanvasViews!Min
<1>3. k \in Nat /\ m \in Nat /\ k <= m /\ m <= k
  BY <1>2
<1>. QED
  BY <1>1, <1>3

\* What is found of a section is all of its code, once it is closed.
LEMMA WhatIsExtracted ==
  ASSUME reply \in Seq(LinesOfReply), NEW at, Layout(at), NEW s \in 1 .. 3
  PROVE  CanvasViews!ExtractSection(Name(s)) =
           IF at[s].fences = 2 THEN [i \in 1 .. at[s].code |-> CanvasViews!Code(Name(s))] ELSE <<>>
<1>1. PICK h \in Nat, f \in {0, 1, 2}, c \in Nat, n \in Nat :
        /\ h = at[s].head /\ f = at[s].fences /\ c = at[s].code /\ n = Len(reply)
        /\ DOMAIN reply = 1 .. n
        /\ h # 0 => h \in 1 .. n /\ h + f + c \in 1 .. n
        /\ h = 0 => f = 0
        /\ f = 0 => c = 0
        /\ f = 2 => c > 0
  <2>1. /\ at[s].head \in Nat /\ at[s].code \in Nat /\ at[s].fences \in {0, 1, 2}
        /\ End(at[s]) = at[s].head + at[s].fences + at[s].code
        /\ DOMAIN reply = 1 .. Len(reply) /\ Len(reply) \in Nat
        /\ at[s].head # 0 => at[s].head \in 1 .. Len(reply) /\ End(at[s]) \in 1 .. Len(reply)
        /\ at[s].head = 0 => at[s].fences = 0
        /\ at[s].fences = 0 => at[s].code = 0
        /\ at[s].fences = 2 => at[s].code > 0
    BY BlockNumbers
  <2>2. PICK h \in Nat, f \in {0, 1, 2}, c \in Nat : h = at[s].head /\ f = at[s].fences /\ c = at[s].code
    BY <2>1
  <2>. QED
    BY <2>1, <2>2
<1>1a. /\ h # 0 => h \in 1 .. n /\ h + f + c \in 1 .. n
       /\ f = 2 => c > 0
  BY <1>1
<1>2. CanvasViews!Places(Name(s)) = IF h = 0 THEN {} ELSE {h}
  BY <1>1, LineSets DEF CanvasViews!Places
<1>3. h # 0 => CanvasViews!Min({h}) = h
  <2>1. {h} \in SUBSET Nat /\ h \in {h} /\ \A x \in {h} : h <= x
    BY <1>1
  <2>. QED
    BY <2>1, LeastIs
<1>4. PICK F : F = CanvasViews!After(h, "fence")
  OBVIOUS
<1>5. F = {i \in 1 .. n : i > h /\ reply[i].kind = "fence"}
  BY <1>1, <1>4 DEF CanvasViews!After
<1>6. F \in SUBSET Nat /\ IsFiniteSet(F)
  <2>1. F \in SUBSET (1 .. n) /\ IsFiniteSet(1 .. n)
    BY <1>5, FS_Interval
  <2>2. IsFiniteSet(F)
    BY <2>1, FS_Subset
  <2>. QED
    BY <2>1, <2>2
<1>7. h # 0 => HasBlock(at[s], s)
  BY <1>1 DEF Layout
<1>8. h # 0 => \A i \in (h + 2) .. (h + 1 + c) : reply[i].kind = "code"
  <2>1. h # 0 => \A i \in (h + 2) .. (h + 1 + c) : reply[i] = CanvasViews!Code(Name(s))
    BY <1>1, <1>7 DEF HasBlock
  <2>. QED
    BY <2>1, LinesDiffer
<1>9. CASE h = 0
  BY <1>1, <1>2, <1>9 DEF CanvasViews!ExtractSection, CanvasViews!Nothing
<1>10. CASE h # 0 /\ f # 2
  <2>1. \A t \in 1 .. 3 : t > s => at[t].head = 0
    BY <1>1, <1>10 DEF Layout
  <2>2. h + f + c = n
    <3>1. End(at[s]) = Len(reply)
      BY <1>1, <1>10, <2>1 DEF Layout
    <3>. QED
      BY <1>1, <3>1, BlockNumbers
  <2>3. F \subseteq {h + 1}
    <3>1. \A i \in 1 .. n : i > h => i = h + 1 \/ i \in (h + 2) .. (h + 1 + c)
      BY <1>1, <1>10, <2>2
    <3>. QED
      BY <1>5, <1>8, <1>10, <3>1
  <2>4. Cardinality(F) <= 1
    <3>1. PICK S : S = {h + 1}
      OBVIOUS
    <3>2. IsFiniteSet(S) /\ Cardinality(S) = 1
      BY <3>1, FS_Singleton
    <3>3. Cardinality(F) <= Cardinality(S)
      BY <2>3, <3>1, <3>2, FS_Subset
    <3>. QED
      BY <3>2, <3>3
  <2>5. Cardinality(F) \in Nat
    BY <1>6, FS_CardinalityType
  <2>6. CanvasViews!Cardinality(F) < 2
    BY <2>4, <2>5, CardinalityOfViews
  <2>. QED
    BY <1>1, <1>2, <1>3, <1>4, <1>10, <2>6 DEF CanvasViews!ExtractSection, CanvasViews!Nothing
<1>11. CASE h # 0 /\ f = 2
  <2>1. PICK a \in Nat, b \in Nat : a = h + 1 /\ b = h + 2 + c
    BY <1>1
  <2>1a. a # b
    BY <1>1a, <1>11, <2>1
  <2>2. a < b /\ h < a /\ a \in 1 .. n /\ b \in 1 .. n
    BY <1>1a, <1>11, <2>1
  <2>3. reply[a].kind = "fence" /\ reply[b].kind = "fence"
    <3>1. reply[a] = CanvasViews!Fence(Name(s)) /\ reply[b] = CanvasViews!Fence(Name(s))
      BY <1>1, <1>7, <1>11, <2>1 DEF HasBlock
    <3>. QED
      BY <3>1, LinesDiffer
  <2>4. a \in F /\ b \in F
    BY <1>5, <2>2, <2>3
  <2>5. \A i \in F : i = a \/ i >= b
    <3>1. \A i \in 1 .. n : i > h /\ i # a /\ i < b => i \in (h + 2) .. (h + 1 + c)
      BY <2>1
    <3>2. \A i \in F : i \in 1 .. n /\ i > h /\ reply[i].kind = "fence" /\ i \in Nat
      BY <1>5
    <3>3. \A i \in F : i \notin (h + 2) .. (h + 1 + c)
      BY <1>8, <1>11, <3>2
    <3>. QED
      BY <3>1, <3>2, <3>3, <2>1
  <2>6. CanvasViews!Min(F) = a
    <3>1. \A x \in F : a <= x
      BY <1>6, <2>2, <2>5
    <3>. QED
      BY <1>6, <2>4, <3>1, LeastIs
  <2>7. CanvasViews!Min(F \ {a}) = b
    <3>1. PICK G : G = F \ {a}
      OBVIOUS
    <3>2. G \in SUBSET Nat /\ b \in G /\ \A x \in G : b <= x
      BY <1>6, <2>2, <2>4, <2>5, <3>1
    <3>. QED
      BY <3>1, <3>2, LeastIs
  <2>8. ~(CanvasViews!Cardinality(F) < 2)
    <3>1. PICK S : S = {a}
      OBVIOUS
    <3>2. IsFiniteSet(S) /\ Cardinality(S) = 1
      BY <3>1, FS_Singleton
    <3>3. Cardinality(S \cup {b}) = IF b \in S THEN Cardinality(S) ELSE Cardinality(S) + 1
      BY <3>2, FS_AddElement
    <3>4. Cardinality(S \cup {b}) = 2
      BY <2>1a, <3>1, <3>2, <3>3
    <3>5. S \cup {b} \in SUBSET F
      BY <2>4, <3>1
    <3>6. Cardinality(S \cup {b}) <= Cardinality(F)
      BY <1>6, <3>5, FS_Subset
    <3>7. Cardinality(F) \in Nat
      BY <1>6, FS_CardinalityType
    <3>. QED
      BY <3>4, <3>6, <3>7, CardinalityOfViews
  <2>9. CanvasViews!ExtractSection(Name(s)) = SubSeq(reply, a + 1, b - 1)
    BY <1>1, <1>2, <1>3, <1>4, <1>11, <2>6, <2>7, <2>8 DEF CanvasViews!ExtractSection
  <2>10. SubSeq(reply, a + 1, b - 1) = [i \in 1 .. c |-> reply[a + i]]
    <3>1. SubSeq(reply, a + 1, b - 1) = [i \in 1 .. ((b - 1) - (a + 1) + 1) |-> reply[i + (a + 1) - 1]]
      OBVIOUS
    <3>2. (b - 1) - (a + 1) + 1 = c
      BY <2>1
    <3>3. \A i \in 1 .. c : i + (a + 1) - 1 = a + i
      OBVIOUS
    <3>. QED
      BY <3>1, <3>2, <3>3
  <2>11. \A i \in 1 .. c : reply[a + i] = CanvasViews!Code(Name(s))
    <3>1. \A i \in (h + 2) .. (h + 1 + c) : reply[i] = CanvasViews!Code(Name(s))
      BY <1>1, <1>7, <1>11 DEF HasBlock
    <3>2. \A i \in 1 .. c : a + i \in (h + 2) .. (h + 1 + c)
      BY <2>1
    <3>. QED
      BY <3>1, <3>2
  <2>12. CanvasViews!ExtractSection(Name(s)) = [i \in 1 .. c |-> CanvasViews!Code(Name(s))]
    BY <2>9, <2>10, <2>11
  <2>. QED
    BY <1>1, <1>11, <2>12
<1>. QED
  BY <1>1, <1>9, <1>10, <1>11

\* A block stays where it is when a line is added.
LEMMA BlockStays ==
  ASSUME reply \in Seq(LinesOfReply), NEW l \in LinesOfReply, reply' = Append(reply, l),
         NEW b \in BlocksOf, NEW s \in 1 .. 3, HasBlock(b, s)
  PROVE  HasBlock(b, s)'
<1>1. PICK n \in Nat : n = Len(reply) /\ DOMAIN reply = 1 .. n
  OBVIOUS
<1>2. Len(reply') = n + 1 /\ \A i \in 1 .. n : reply'[i] = reply[i]
  BY <1>1
<1>3. PICK h \in Nat, f \in {0, 1, 2}, c \in Nat : h = b.head /\ f = b.fences /\ c = b.code
  BY DEF BlocksOf
<1>4. /\ h \in 1 .. n /\ h + f + c \in 1 .. n
      /\ reply[h] = CanvasViews!Heading(Name(s))
      /\ f # 0 => reply[h + 1] = CanvasViews!Fence(Name(s))
      /\ \A i \in (h + 2) .. (h + 1 + c) : reply[i] = CanvasViews!Code(Name(s))
      /\ f = 2 => reply[h + 2 + c] = CanvasViews!Fence(Name(s))
      /\ f = 0 => c = 0
      /\ f = 2 => c > 0
  BY <1>1, <1>3 DEF HasBlock, End
<1>5. /\ h \in 1 .. n /\ h + f + c \in 1 .. n /\ h + f + c \in 1 .. (n + 1) /\ h \in 1 .. (n + 1)
      /\ f = 0 => c = 0
  BY <1>4
<1>6. /\ f # 0 => h + 1 \in 1 .. n
      /\ \A i \in (h + 2) .. (h + 1 + c) : i \in 1 .. n
      /\ f = 2 => h + 2 + c \in 1 .. n
  <2>1. CASE f = 0
    BY <1>5, <2>1
  <2>2. CASE f = 1
    BY <1>5, <2>2
  <2>3. CASE f = 2
    BY <1>5, <2>3
  <2>. QED
    BY <2>1, <2>2, <2>3
<1>7. /\ reply'[h] = CanvasViews!Heading(Name(s))
      /\ f # 0 => reply'[h + 1] = CanvasViews!Fence(Name(s))
      /\ \A i \in (h + 2) .. (h + 1 + c) : reply'[i] = CanvasViews!Code(Name(s))
      /\ f = 2 => reply'[h + 2 + c] = CanvasViews!Fence(Name(s))
  BY <1>2, <1>4, <1>6
<1>8. /\ h \in 1 .. Len(reply') /\ h + f + c \in 1 .. Len(reply')
      /\ f = 0 => c = 0
      /\ f = 2 => c > 0
  BY <1>2, <1>4, <1>5
<1>. QED
  BY <1>3, <1>7, <1>8 DEF HasBlock, End

\* A line added to the last block, or one that begins the next block.
LEMMA LayoutGrows ==
  ASSUME reply \in Seq(LinesOfReply), NEW at, Layout(at),
         NEW l \in LinesOfReply, reply' = Append(reply, l),
         NEW s \in 1 .. 3, \A t \in 1 .. 3 : t > s => at[t].head = 0,
         \A t \in 1 .. 3 : t < s /\ at[t].head # 0 => at[t].fences = 2,
         NEW b \in BlocksOf, b.head # 0, HasBlock(b, s)', End(b) = Len(reply) + 1,
         \/ b.head = at[s].head
         \/ at[s].head = 0 /\ b.head = Len(reply) + 1
  PROVE  Layout([at EXCEPT ![s] = b])'
<1>1. PICK n \in Nat : n = Len(reply) /\ DOMAIN reply = 1 .. n
  OBVIOUS
<1>2. Len(reply') = n + 1
  BY <1>1
<1>3. PICK bt : bt = [at EXCEPT ![s] = b]
  OBVIOUS
<1>4. /\ at \in [1 .. 3 -> BlocksOf]
      /\ bt \in [1 .. 3 -> BlocksOf] /\ bt[s] = b /\ \A t \in 1 .. 3 : t # s => bt[t] = at[t]
  BY <1>3 DEF Layout
<1>5. \A t \in 1 .. 3 : /\ at[t].head # 0 => HasBlock(at[t], t) /\ End(at[t]) \in 1 .. n /\ at[t].head \in 1 .. n
                        /\ at[t].head = 0 => at[t].fences = 0 /\ at[t].code = 0
  BY <1>1 DEF Layout, HasBlock
<1>6. \A t \in 1 .. 3 : /\ bt[t].head # 0 => HasBlock(bt[t], t)'
                        /\ bt[t].head = 0 => bt[t].fences = 0 /\ bt[t].code = 0
  BY <1>4, <1>5, BlockStays
<1>7. \A i \in 1 .. (n + 1) : \E t \in 1 .. 3 : bt[t].head # 0 /\ i \in bt[t].head .. End(bt[t])
  <2>. SUFFICES ASSUME NEW i \in 1 .. (n + 1)
                PROVE  \E t \in 1 .. 3 : bt[t].head # 0 /\ i \in bt[t].head .. End(bt[t])
    OBVIOUS
  <2>1. b.head \in Nat
    BY DEF BlocksOf
  <2>2. CASE i = n + 1
    <3>1. i \in b.head .. End(b)
      <4>1. b.head \in Nat /\ b.head <= n + 1 /\ End(b) = n + 1
        BY <1>1, <1>2 DEF HasBlock, BlocksOf
      <4>. QED
        BY <2>2, <4>1
    <3>. QED
      BY <1>4, <3>1
  <2>3. CASE i # n + 1
    <3>1. i \in 1 .. n
      BY <2>3
    <3>2. PICK t \in 1 .. 3 : at[t].head # 0 /\ i \in at[t].head .. End(at[t])
      BY <1>1, <3>1 DEF Layout
    <3>3. CASE t = s
      <4>1. b.head = at[s].head /\ End(b) = n + 1
        BY <1>1, <3>2, <3>3
      <4>2. i \in b.head .. End(b)
        BY <2>1, <3>1, <3>2, <3>3, <4>1
      <4>. QED
        BY <1>4, <4>2
    <3>4. CASE t # s
      BY <1>4, <3>2, <3>4
    <3>. QED
      BY <3>3, <3>4
  <2>. QED
    BY <2>2, <2>3
<1>8. \A t, u \in 1 .. 3 : t < u /\ bt[t].head # 0 /\ bt[u].head # 0 =>
         bt[t].fences = 2 /\ End(bt[t]) < bt[u].head
  <2>. SUFFICES ASSUME NEW t \in 1 .. 3, NEW u \in 1 .. 3, t < u, bt[t].head # 0, bt[u].head # 0
                PROVE  bt[t].fences = 2 /\ End(bt[t]) < bt[u].head
    OBVIOUS
  <2>1. t # s
    BY <1>4
  <2>2. bt[t] = at[t]
    BY <1>4, <2>1
  <2>3. CASE u = s
    <3>1. at[t].fences = 2
      BY <2>2, <2>3
    <3>2. CASE b.head = at[s].head
      BY <1>4, <2>2, <2>3, <3>2 DEF Layout
    <3>3. CASE at[s].head = 0 /\ b.head = Len(reply) + 1
      <4>1. End(at[t]) \in 1 .. n /\ b.head = n + 1
        BY <1>1, <1>5, <2>2, <3>3
      <4>2. End(at[t]) < b.head
        BY <4>1
      <4>. QED
        BY <1>4, <2>2, <2>3, <3>1, <4>2
    <3>. QED
      BY <3>2, <3>3
  <2>4. CASE u # s
    BY <1>4, <2>2, <2>4 DEF Layout
  <2>. QED
    BY <2>3, <2>4
<1>9. \A t \in 1 .. 3 : bt[t].head # 0 /\ (\A u \in 1 .. 3 : u > t => bt[u].head = 0) => End(bt[t]) = n + 1
  <2>. SUFFICES ASSUME NEW t \in 1 .. 3, bt[t].head # 0, \A u \in 1 .. 3 : u > t => bt[u].head = 0
                PROVE  End(bt[t]) = n + 1
    OBVIOUS
  <2>1. ~(s > t)
    BY <1>4
  <2>2. ~(t > s)
    BY <1>4
  <2>3. t = s
    BY <2>1, <2>2
  <2>. QED
    BY <1>1, <1>4, <2>3
<1>10. Layout(bt)'
  BY <1>2, <1>4, <1>6, <1>7, <1>8, <1>9 DEF Layout
<1>. QED
  BY <1>3, <1>10

\* The sections that are begun, and the last of them.
LEMMA WhatIsBegun ==
  ASSUME reply \in Seq(LinesOfReply), NEW at, Layout(at)
  PROVE  /\ CanvasViews!Begun = {t \in 1 .. 3 : at[t].head # 0}
         /\ CanvasViews!Begun # {} =>
              /\ CanvasViews!Max(CanvasViews!Begun) \in CanvasViews!Begun
              /\ \A t \in CanvasViews!Begun : t <= CanvasViews!Max(CanvasViews!Begun)
<1>1. CanvasViews!Begun = {t \in 1 .. 3 : CanvasViews!Count(CanvasViews!Heading(Name(t))) > 0}
  BY LinesDiffer DEF CanvasViews!Begun, Name
<1>2. \A t \in 1 .. 3 : CanvasViews!Count(CanvasViews!Heading(Name(t))) = IF at[t].head = 0 THEN 0 ELSE 1
  BY LineCounts
<1>3. \A t \in 1 .. 3 : CanvasViews!Count(CanvasViews!Heading(Name(t))) > 0 <=> at[t].head # 0
  BY <1>2
<1>4. CanvasViews!Begun = {t \in 1 .. 3 : at[t].head # 0}
  BY <1>1, <1>3
<1>5. PICK B : B = CanvasViews!Begun
  OBVIOUS
<1>6. B \in SUBSET {1, 2, 3}
  BY <1>4, <1>5
<1>7. B # {} => \E m \in B : \A t \in B : m >= t
  <2>1. CASE 3 \in B
    BY <1>6, <2>1
  <2>2. CASE 3 \notin B /\ 2 \in B
    BY <1>6, <2>2
  <2>3. CASE 3 \notin B /\ 2 \notin B
    <3>1. \A t \in B : t = 1
      BY <1>6, <2>3
    <3>2. B # {} => 1 \in B /\ \A t \in B : 1 >= t
      BY <3>1
    <3>. QED
      BY <3>2
  <2>. QED
    BY <2>1, <2>2, <2>3
<1>8. B # {} => CanvasViews!Max(B) \in B /\ \A t \in B : CanvasViews!Max(B) >= t
  BY <1>7 DEF CanvasViews!Max
<1>9. B # {} => \A t \in B : t <= CanvasViews!Max(B)
  <2>1. \A t \in B : t \in Nat
    BY <1>6
  <2>. QED
    BY <1>8, <2>1
<1>. QED
  BY <1>4, <1>5, <1>8, <1>9

\* Whatever the model writes next, the answer stays laid out in blocks.
LEMMA WritingKeepsLayout ==
  ASSUME reply \in Seq(LinesOfReply), NEW at, Layout(at), CanvasViews!ModelWrites
  PROVE  reply' \in Seq(LinesOfReply) /\ \E new : Layout(new)'
<1>1. PICK s \in 1 .. 3 :
        \/ /\ \A b \in CanvasViews!Begun : b < s /\ CanvasViews!Count(CanvasViews!Fence(Name(b))) = 2
           /\ reply' = Append(reply, CanvasViews!Heading(Name(s)))
        \/ /\ CanvasViews!Begun # {} /\ s = CanvasViews!Max(CanvasViews!Begun)
           /\ \/ /\ CanvasViews!Count(CanvasViews!Fence(Name(s))) = 0
                 /\ reply' = Append(reply, CanvasViews!Fence(Name(s)))
              \/ /\ CanvasViews!Count(CanvasViews!Fence(Name(s))) = 1
                 /\ reply' = Append(reply, CanvasViews!Code(Name(s)))
              \/ /\ CanvasViews!Count(CanvasViews!Fence(Name(s))) = 1
                 /\ CanvasViews!Count(CanvasViews!Code(Name(s))) > 0
                 /\ reply' = Append(reply, CanvasViews!Fence(Name(s)))
  BY LinesDiffer DEF CanvasViews!ModelWrites, Name
<1>2. PICK n \in Nat : n = Len(reply) /\ DOMAIN reply = 1 .. n
  OBVIOUS
<1>3. \A t \in 1 .. 3 :
         /\ CanvasViews!Count(CanvasViews!Fence(Name(t))) = at[t].fences
         /\ CanvasViews!Count(CanvasViews!Code(Name(t))) = at[t].code
  BY LineCounts
<1>4. PICK h \in Nat, f \in {0, 1, 2}, c \in Nat :
        h = at[s].head /\ f = at[s].fences /\ c = at[s].code
  <2>1. at[s].head \in Nat /\ at[s].code \in Nat /\ at[s].fences \in {0, 1, 2}
    BY BlockNumbers
  <2>. QED
    BY <2>1
<1>5. \A line \in LinesOfReply : reply' = Append(reply, line) =>
         /\ reply' \in Seq(LinesOfReply) /\ Len(reply') = n + 1 /\ reply'[n + 1] = line
         /\ \A i \in 1 .. n : reply'[i] = reply[i]
  BY <1>2
<1>6. /\ CanvasViews!Heading(Name(s)) \in LinesOfReply
      /\ CanvasViews!Fence(Name(s)) \in LinesOfReply
      /\ CanvasViews!Code(Name(s)) \in LinesOfReply
  <2>1. Name(s) \in {"html", "js", "css"}
    BY LinesDiffer DEF Name
  <2>. QED
    BY <2>1 DEF LinesOfReply, CanvasViews!Heading, CanvasViews!Fence, CanvasViews!Code
<1>7. CASE /\ \A b \in CanvasViews!Begun : b < s /\ CanvasViews!Count(CanvasViews!Fence(Name(b))) = 2
           /\ reply' = Append(reply, CanvasViews!Heading(Name(s)))
  <2>1. \A b \in 1 .. 3 : at[b].head # 0 => b < s /\ at[b].fences = 2
    BY <1>3, <1>7, WhatIsBegun
  <2>2. at[s].head = 0 /\ (\A t \in 1 .. 3 : t > s => at[t].head = 0)
    BY <2>1
  <2>3. PICK b \in BlocksOf : b.head = n + 1 /\ b.fences = 0 /\ b.code = 0
    <3>1. [head |-> n + 1, fences |-> 0, code |-> 0] \in BlocksOf
      BY DEF BlocksOf
    <3>. QED
      BY <3>1
  <2>4. End(b) = n + 1
    BY <2>3 DEF End
  <2>5. HasBlock(b, s)'
    <3>1. reply'[b.head] = CanvasViews!Heading(Name(s))
      BY <1>5, <1>6, <1>7, <2>3
    <3>2. Len(reply') = n + 1
      BY <1>5, <1>6, <1>7
    <3>3. b.head \in 1 .. Len(reply') /\ End(b) \in 1 .. Len(reply')
      BY <2>3, <2>4, <3>2
    <3>4. (b.head + 2) .. (b.head + 1 + b.code) = {}
      BY <2>3
    <3>. QED
      BY <2>3, <3>1, <3>3, <3>4 DEF HasBlock
  <2>6. b.head # 0 /\ b.head = Len(reply) + 1 /\ End(b) = Len(reply) + 1
    BY <1>2, <2>3, <2>4
  <2>7. Layout([at EXCEPT ![s] = b])'
    BY <1>6, <1>7, <2>1, <2>2, <2>5, <2>6, LayoutGrows
  <2>. QED
    BY <1>5, <1>6, <1>7, <2>7
<1>8. CASE CanvasViews!Begun # {} /\ s = CanvasViews!Max(CanvasViews!Begun)
  <2>1. h # 0 /\ \A t \in 1 .. 3 : at[t].head # 0 => t <= s
    BY <1>4, <1>8, WhatIsBegun
  <2>2. \A t \in 1 .. 3 : t > s => at[t].head = 0
    BY <2>1
  <2>3. \A t \in 1 .. 3 : t < s /\ at[t].head # 0 => at[t].fences = 2
    BY <1>4, <2>1 DEF Layout
  <2>4. h + f + c = n
    <3>1. End(at[s]) = Len(reply)
      BY <1>4, <2>1, <2>2 DEF Layout
    <3>. QED
      BY <1>2, <1>4, <3>1 DEF End
  <2>5. HasBlock(at[s], s)
    BY <1>4, <2>1 DEF Layout
  <2>6. /\ h \in 1 .. n
        /\ reply[h] = CanvasViews!Heading(Name(s))
        /\ f # 0 => reply[h + 1] = CanvasViews!Fence(Name(s))
        /\ \A i \in (h + 2) .. (h + 1 + c) : reply[i] = CanvasViews!Code(Name(s))
        /\ f = 0 => c = 0
    BY <1>2, <1>4, <2>5 DEF HasBlock
  <2>7. ASSUME f = 0, reply' = Append(reply, CanvasViews!Fence(Name(s)))
        PROVE  \E new : Layout(new)'
    <3>1. PICK b \in BlocksOf : b.head = h /\ b.fences = 1 /\ b.code = 0
      <4>1. [head |-> h, fences |-> 1, code |-> 0] \in BlocksOf
        BY DEF BlocksOf
      <4>. QED
        BY <4>1
    <3>2. h + 1 = n + 1 /\ h \in 1 .. n
      BY <2>4, <2>6, <2>7
    <3>3. End(b) = n + 1
      BY <3>1, <3>2 DEF End
    <3>4. reply'[h] = CanvasViews!Heading(Name(s)) /\ reply'[h + 1] = CanvasViews!Fence(Name(s))
      BY <1>5, <1>6, <2>6, <2>7, <3>2
    <3>5. h \in 1 .. Len(reply') /\ n + 1 \in 1 .. Len(reply')
      BY <1>5, <1>6, <2>7, <3>2
    <3>6. HasBlock(b, s)'
      <4>1. (h + 2) .. (h + 1 + 0) = {}
        OBVIOUS
      <4>. QED
        BY <3>1, <3>3, <3>4, <3>5, <4>1 DEF HasBlock
    <3>7. b.head # 0 /\ b.head = at[s].head /\ End(b) = Len(reply) + 1
      BY <1>2, <1>4, <2>1, <3>1, <3>3
    <3>8. Layout([at EXCEPT ![s] = b])'
      BY <1>6, <2>2, <2>3, <2>7, <3>6, <3>7, LayoutGrows
    <3>. QED
      BY <3>8
  <2>8. ASSUME f = 1, reply' = Append(reply, CanvasViews!Code(Name(s)))
        PROVE  \E new : Layout(new)'
    <3>1. PICK b \in BlocksOf : b.head = h /\ b.fences = 1 /\ b.code = c + 1
      <4>1. [head |-> h, fences |-> 1, code |-> c + 1] \in BlocksOf
        BY DEF BlocksOf
      <4>. QED
        BY <4>1
    <3>2. h + 2 + c = n + 1 /\ h \in 1 .. n /\ h + 1 \in 1 .. n
      BY <2>4, <2>6, <2>8
    <3>3. End(b) = n + 1
      BY <3>1, <3>2 DEF End
    <3>4. reply'[h] = CanvasViews!Heading(Name(s)) /\ reply'[h + 1] = CanvasViews!Fence(Name(s))
      BY <1>5, <1>6, <2>6, <2>8, <3>2
    <3>5. h \in 1 .. Len(reply') /\ n + 1 \in 1 .. Len(reply')
      BY <1>5, <1>6, <2>8, <3>2
    <3>6. \A i \in (h + 2) .. (h + 1 + (c + 1)) : reply'[i] = CanvasViews!Code(Name(s))
      <4>1. \A i \in (h + 2) .. (h + 1 + (c + 1)) : i = n + 1 \/ i \in (h + 2) .. (h + 1 + c)
        BY <3>2
      <4>2. \A i \in (h + 2) .. (h + 1 + c) : i \in 1 .. n
        BY <3>2
      <4>. QED
        BY <1>5, <1>6, <2>6, <2>8, <4>1, <4>2
    <3>7. HasBlock(b, s)'
      BY <3>1, <3>3, <3>4, <3>5, <3>6 DEF HasBlock
    <3>8. b.head # 0 /\ b.head = at[s].head /\ End(b) = Len(reply) + 1
      BY <1>2, <1>4, <2>1, <3>1, <3>3
    <3>9. Layout([at EXCEPT ![s] = b])'
      BY <1>6, <2>2, <2>3, <2>8, <3>7, <3>8, LayoutGrows
    <3>. QED
      BY <3>9
  <2>9. ASSUME f = 1, c > 0, reply' = Append(reply, CanvasViews!Fence(Name(s)))
        PROVE  \E new : Layout(new)'
    <3>1. PICK b \in BlocksOf : b.head = h /\ b.fences = 2 /\ b.code = c
      <4>1. [head |-> h, fences |-> 2, code |-> c] \in BlocksOf
        BY DEF BlocksOf
      <4>. QED
        BY <4>1
    <3>2. h + 2 + c = n + 1 /\ h \in 1 .. n /\ h + 1 \in 1 .. n
      BY <2>4, <2>6, <2>9
    <3>3. End(b) = n + 1
      BY <3>1, <3>2 DEF End
    <3>4. /\ reply'[h] = CanvasViews!Heading(Name(s)) /\ reply'[h + 1] = CanvasViews!Fence(Name(s))
          /\ reply'[h + 2 + c] = CanvasViews!Fence(Name(s))
      BY <1>5, <1>6, <2>6, <2>9, <3>2
    <3>5. h \in 1 .. Len(reply') /\ n + 1 \in 1 .. Len(reply')
      BY <1>5, <1>6, <2>9, <3>2
    <3>6. \A i \in (h + 2) .. (h + 1 + c) : reply'[i] = CanvasViews!Code(Name(s))
      <4>1. \A i \in (h + 2) .. (h + 1 + c) : i \in 1 .. n
        BY <3>2
      <4>. QED
        BY <1>5, <1>6, <2>6, <2>9, <4>1
    <3>7. HasBlock(b, s)'
      <4>1. reply'[b.head + 2 + b.code] = CanvasViews!Fence(Name(s))
        BY <3>1, <3>4
      <4>2. \A i \in (b.head + 2) .. (b.head + 1 + b.code) : reply'[i] = CanvasViews!Code(Name(s))
        BY <3>1, <3>6
      <4>3. reply'[b.head] = CanvasViews!Heading(Name(s)) /\ reply'[b.head + 1] = CanvasViews!Fence(Name(s))
        BY <3>1, <3>4
      <4>4. b.head \in 1 .. Len(reply') /\ End(b) \in 1 .. Len(reply')
        BY <3>1, <3>3, <3>5
      <4>5. b.code > 0 /\ b.fences # 0
        BY <2>9, <3>1
      <4>. QED
        BY <4>1, <4>2, <4>3, <4>4, <4>5 DEF HasBlock
    <3>8. b.head # 0 /\ b.head = at[s].head /\ End(b) = Len(reply) + 1
      BY <1>2, <1>4, <2>1, <3>1, <3>3
    <3>9. Layout([at EXCEPT ![s] = b])'
      BY <1>6, <2>2, <2>3, <2>9, <3>7, <3>8, LayoutGrows
    <3>. QED
      BY <3>9
  <2>10. \/ f = 0 /\ reply' = Append(reply, CanvasViews!Fence(Name(s)))
         \/ f = 1 /\ reply' = Append(reply, CanvasViews!Code(Name(s)))
         \/ f = 1 /\ c > 0 /\ reply' = Append(reply, CanvasViews!Fence(Name(s)))
         \/ reply' = Append(reply, CanvasViews!Heading(Name(s))) /\ \A b \in CanvasViews!Begun : b < s
    BY <1>1, <1>3, <1>4
  <2>11. ~(\A b \in CanvasViews!Begun : b < s)
    BY <1>8, WhatIsBegun
  <2>12. \E new : Layout(new)'
    BY <2>7, <2>8, <2>9, <2>10, <2>11
  <2>. QED
    BY <1>5, <1>6, <2>10, <2>12
<1>. QED
  BY <1>1, <1>7, <1>8

\* What is generated is a whole canvas, whatever was cut off.
GenerationInv ==
  /\ reply \in Seq(LinesOfReply) /\ \E at : Layout(at)
  /\ canvasType \in CanvasTypes \cup {"custom"}
  /\ call \in {"idle", "asked", "static", "done"}
  /\ call # "done" => generationCanvas = CanvasViews!NoCanvas
  /\ CanvasViews!SectionsAreOwn /\ CanvasViews!CutCodeIsLeftOut

\* Each section is the code of the answer, and nothing that was cut off.
LEMMA ParsingIsFaithful ==
  ASSUME GenerationInv, CanvasViews!ParseGeneratedContent
  PROVE  GenerationInv'
<1>1. PICK at : Layout(at)
  BY DEF GenerationInv
<1>2. reply \in Seq(LinesOfReply)
  BY DEF GenerationInv
<1>3. reply' = reply /\ canvasType' = canvasType /\ call = "asked" /\ call' \in {"static", "done"}
  BY DEF CanvasViews!ParseGeneratedContent
<1>4. reply' \in Seq(LinesOfReply) /\ (\E new : Layout(new)')
  BY <1>1, <1>2, <1>3 DEF Layout, HasBlock
<1>5. generationCanvas = CanvasViews!NoCanvas
  BY <1>3 DEF GenerationInv
<1>6. CASE CanvasViews!ExtractSection("html") = CanvasViews!Nothing
  <2>1. generationCanvas' = generationCanvas /\ call' = "static"
    BY <1>6 DEF CanvasViews!ParseGeneratedContent
  <2>2. generationCanvas'.from # "model"
    BY <1>5, <2>1 DEF CanvasViews!NoCanvas
  <2>3. CanvasViews!SectionsAreOwn' /\ CanvasViews!CutCodeIsLeftOut'
    BY <2>2 DEF CanvasViews!SectionsAreOwn, CanvasViews!CutCodeIsLeftOut
  <2>. QED
    BY <1>3, <1>4, <1>5, <2>1, <2>3 DEF GenerationInv, CanvasViews!NoCanvas
<1>7. CASE CanvasViews!ExtractSection("html") # CanvasViews!Nothing
  <2>1. /\ call' = "done"
        /\ generationCanvas' = [from |-> "model", html |-> CanvasViews!ExtractSection("html"),
                      js |-> CanvasViews!ExtractSection("js"), css |-> CanvasViews!ExtractSection("css")]
    BY <1>7 DEF CanvasViews!ParseGeneratedContent
  <2>2. \A s \in 1 .. 3 :
          /\ CanvasViews!Count(CanvasViews!Fence(Name(s))) = at[s].fences
          /\ CanvasViews!Count(CanvasViews!Code(Name(s))) = at[s].code
          /\ CanvasViews!ExtractSection(Name(s)) =
               IF at[s].fences = 2 THEN [i \in 1 .. at[s].code |-> CanvasViews!Code(Name(s))] ELSE <<>>
    BY <1>1, <1>2, LineCounts, WhatIsExtracted
  <2>3. \A s \in 1 .. 3 : at[s].fences = 2 => at[s].code \in Nat /\ at[s].code > 0
    BY <1>1, <1>2, BlockNumbers
  <2>4. \A s \in 1 .. 3 : at[s].fences = 2 => CanvasViews!ExtractSection(Name(s)) # CanvasViews!Nothing
    <3>1. \A n \in Nat : \A x : n > 0 => [i \in 1 .. n |-> x] # <<>>
      <4>. SUFFICES ASSUME NEW n \in Nat, NEW x, n > 0 PROVE [i \in 1 .. n |-> x] # <<>>
        OBVIOUS
      <4>1. 1 \in DOMAIN [i \in 1 .. n |-> x] /\ 1 \notin DOMAIN <<>>
        OBVIOUS
      <4>. QED
        BY <4>1
    <3>. QED
      BY <2>2, <2>3, <3>1 DEF CanvasViews!Nothing
  <2>5. \A s \in 1 .. 3 :
          LET own == [i \in 1 .. CanvasViews!Count(CanvasViews!Code(Name(s))) |-> CanvasViews!Code(Name(s))] IN
          /\ CanvasViews!ExtractSection(Name(s)) \in {CanvasViews!Nothing, own}
          /\ CanvasViews!ExtractSection(Name(s)) # CanvasViews!Nothing =>
               /\ CanvasViews!Count(CanvasViews!Fence(Name(s))) = 2
               /\ CanvasViews!ExtractSection(Name(s)) = own
          /\ CanvasViews!Count(CanvasViews!Fence(Name(s))) = 2 =>
               CanvasViews!ExtractSection(Name(s)) # CanvasViews!Nothing
    BY <2>2, <2>4 DEF CanvasViews!Nothing
  <2>6. \A l : CanvasViews!Count(l)' = CanvasViews!Count(l)
    BY <1>3 DEF CanvasViews!Count
  <2>7. /\ generationCanvas'.html = CanvasViews!ExtractSection(Name(1))
        /\ generationCanvas'.js = CanvasViews!ExtractSection(Name(2))
        /\ generationCanvas'.css = CanvasViews!ExtractSection(Name(3))
    BY <2>1, LinesDiffer
  <2>8. CanvasViews!ExtractSection(Name(1)) # CanvasViews!Nothing
    BY <1>7, LinesDiffer
  <2>9. CanvasViews!SectionsAreOwn'
    BY <2>5, <2>6, <2>7, <2>8, LinesDiffer DEF CanvasViews!SectionsAreOwn
  <2>10. CanvasViews!CutCodeIsLeftOut'
    BY <2>5, <2>6, <2>7, LinesDiffer DEF CanvasViews!CutCodeIsLeftOut
  <2>. QED
    BY <1>3, <1>4, <2>1, <2>9, <2>10 DEF GenerationInv
<1>. QED
  BY <1>6, <1>7

\* Every step of a generation keeps it, and the steps of other parts.
LEMMA GenerationKept ==
  ASSUME GenerationInv, CanvasViews!CanvasGenerationNext \/ UNCHANGED generationVars
  PROVE  GenerationInv'
<1>1. CASE CanvasViews!GenerateCanvas
  <2>1. /\ reply' = reply /\ generationCanvas' = generationCanvas /\ canvasType' \in CanvasTypes
        /\ call = "idle" /\ call' \in {"asked", "static"}
    BY <1>1 DEF CanvasViews!GenerateCanvas
  <2>2. generationCanvas' = CanvasViews!NoCanvas /\ generationCanvas'.from # "model"
    BY <2>1 DEF GenerationInv, CanvasViews!NoCanvas
  <2>3. CanvasViews!SectionsAreOwn' /\ CanvasViews!CutCodeIsLeftOut'
    BY <2>2 DEF CanvasViews!SectionsAreOwn, CanvasViews!CutCodeIsLeftOut
  <2>4. reply' \in Seq(LinesOfReply) /\ \E at : Layout(at)'
    BY <2>1 DEF GenerationInv, Layout, HasBlock
  <2>. QED
    BY <2>1, <2>2, <2>3, <2>4 DEF GenerationInv, CanvasViews!NoCanvas
<1>2. CASE CanvasViews!ModelWrites
  <2>1. canvasType' = canvasType /\ call' = call /\ call = "asked" /\ generationCanvas' = generationCanvas
    BY <1>2 DEF CanvasViews!ModelWrites
  <2>2. reply' \in Seq(LinesOfReply) /\ \E at : Layout(at)'
    BY <1>2, WritingKeepsLayout DEF GenerationInv
  <2>3. generationCanvas' = CanvasViews!NoCanvas /\ generationCanvas'.from # "model"
    BY <2>1 DEF GenerationInv, CanvasViews!NoCanvas
  <2>4. CanvasViews!SectionsAreOwn' /\ CanvasViews!CutCodeIsLeftOut'
    BY <2>3 DEF CanvasViews!SectionsAreOwn, CanvasViews!CutCodeIsLeftOut
  <2>. QED
    BY <2>1, <2>2, <2>3, <2>4 DEF GenerationInv, CanvasViews!NoCanvas
<1>3. CASE CanvasViews!ParseGeneratedContent
  BY <1>3, ParsingIsFaithful
<1>4. CASE CanvasViews!ModelFails
  <2>1. /\ reply' = reply /\ generationCanvas' = generationCanvas /\ canvasType' = canvasType
        /\ call = "asked" /\ call' = "static"
    BY <1>4 DEF CanvasViews!ModelFails
  <2>2. generationCanvas' = CanvasViews!NoCanvas /\ generationCanvas'.from # "model"
    BY <2>1 DEF GenerationInv, CanvasViews!NoCanvas
  <2>3. CanvasViews!SectionsAreOwn' /\ CanvasViews!CutCodeIsLeftOut'
    BY <2>2 DEF CanvasViews!SectionsAreOwn, CanvasViews!CutCodeIsLeftOut
  <2>4. reply' \in Seq(LinesOfReply) /\ \E at : Layout(at)'
    BY <2>1 DEF GenerationInv, Layout, HasBlock
  <2>. QED
    BY <2>1, <2>2, <2>3, <2>4 DEF GenerationInv, CanvasViews!NoCanvas
<1>5. CASE CanvasViews!UseStaticTemplate
  <2>1. CanvasViews!TemplateKey \in CanvasViews!Templates
    <3>1. canvasType \in {"dynamic", "freeform", "dashboard", "datagrid", "form", "detail",
                          "kanban", "calendar", "report", "wizard", "custom"}
      BY ConstantsOfCanvases DEF GenerationInv
    <3>. QED
      BY <3>1 DEF CanvasViews!TemplateKey, CanvasViews!Templates
  <2>2. /\ reply' = reply /\ canvasType' = canvasType /\ call' = "done"
        /\ generationCanvas' = [CanvasViews!NoCanvas EXCEPT !.from = "template"]
    BY <1>5, <2>1 DEF CanvasViews!UseStaticTemplate
  <2>3. generationCanvas'.from # "model"
    BY <2>2 DEF CanvasViews!NoCanvas
  <2>4. CanvasViews!SectionsAreOwn' /\ CanvasViews!CutCodeIsLeftOut'
    BY <2>3 DEF CanvasViews!SectionsAreOwn, CanvasViews!CutCodeIsLeftOut
  <2>5. reply' \in Seq(LinesOfReply) /\ \E at : Layout(at)'
    BY <2>2 DEF GenerationInv, Layout, HasBlock
  <2>. QED
    BY <2>2, <2>4, <2>5 DEF GenerationInv
<1>6. CASE UNCHANGED generationVars
  <2>1. reply' = reply /\ generationCanvas' = generationCanvas /\ canvasType' = canvasType /\ call' = call
    BY <1>6 DEF generationVars
  <2>2. reply' \in Seq(LinesOfReply) /\ \E at : Layout(at)'
    BY <2>1 DEF GenerationInv, Layout, HasBlock
  <2>3. CanvasViews!SectionsAreOwn' /\ CanvasViews!CutCodeIsLeftOut'
    BY <2>1 DEF GenerationInv, CanvasViews!SectionsAreOwn, CanvasViews!CutCodeIsLeftOut, CanvasViews!Count
  <2>. QED
    BY <2>1, <2>2, <2>3 DEF GenerationInv, CanvasViews!NoCanvas
<1>. QED
  BY <1>1, <1>2, <1>3, <1>4, <1>5, <1>6 DEF CanvasViews!CanvasGenerationNext

\* A generation keeps its invariant, and ends with a canvas.
LEMMA GenerationHolds == Spec => []GenerationInv
<1>1. Init => GenerationInv
  <2>1. Init => reply = <<>> /\ canvasType = "custom" /\ call = "idle" /\ generationCanvas = CanvasViews!NoCanvas
    BY DEF Init, CanvasViews!CanvasGenerationInit
  <2>. SUFFICES ASSUME reply = <<>>, canvasType = "custom", call = "idle",
                       generationCanvas = CanvasViews!NoCanvas
                PROVE  GenerationInv
    BY <2>1
  <2>2. reply \in Seq(LinesOfReply) /\ Len(reply) = 0
    OBVIOUS
  <2>3. Layout([s \in 1 .. 3 |-> [head |-> 0, fences |-> 0, code |-> 0]])
    BY <2>2 DEF Layout, BlocksOf
  <2>4. CanvasViews!SectionsAreOwn /\ CanvasViews!CutCodeIsLeftOut
    BY DEF CanvasViews!SectionsAreOwn, CanvasViews!CutCodeIsLeftOut, CanvasViews!NoCanvas
  <2>. QED
    BY <2>2, <2>3, <2>4 DEF GenerationInv
<1>2. GenerationInv /\ [Next]_vars => GenerationInv'
  <2>. SUFFICES ASSUME GenerationInv, [Next]_vars PROVE GenerationInv'
    OBVIOUS
  <2>1. [CanvasViews!CanvasGenerationNext]_generationVars
    BY StepOfParts
  <2>. QED
    BY <2>1, GenerationKept
<1>. QED
  BY <1>1, <1>2, PTL DEF Spec

(****************************************************************************)
(* Work of several steps, put together.                                     *)
(****************************************************************************)

\* What an invariant of its part says of each kind of work.
LEMMA WholeWork ==
  ASSUME GenerationInv, SocialInv, PackagesInv, CalendarInv, TemplatesInv, ProcessInv
  PROVE  DoneOnceAndWhole
<1>1. part = "generation" =>
        /\ CanvasViews!SectionsAreOwn
        /\ CanvasViews!CutCodeIsLeftOut
        /\ CanvasViews!NeverWithoutCanvas
  BY DEF GenerationInv, CanvasViews!NeverWithoutCanvas
<1>2. part = "social" => SocialPackage!ThreadsAreChains /\ SocialPackage!RecordedIsWhole
  BY RecordsAreWhole DEF SocialInv
<1>3. part = "packages" => WorkspaceSetup!RegistryFollowsRows
  BY RegistryFollows
<1>4. part = "calendar" => SocialPackage!RowsUnderTheirHeaders /\ SocialPackage!RowsAreRead
  BY DEF CalendarInv
<1>5. part = "templates" => WorkspaceSetup!NothingTwice /\ WorkspaceSetup!AppliedIsWhole
  BY TemplatesOnce
<1>6. part = "process" => ServerProcess!FleetOfOneStart
  BY FleetsOfOneStart
<1>. QED
  BY <1>1, <1>2, <1>3, <1>4, <1>5, <1>6 DEF DoneOnceAndWhole

\* Work of several steps that breaks off, is cut or is begun again is done
\* once and as a whole: the sections of a generated canvas, threads and their
\* records, templates, packages, calendar tables and the fleet of a start.
THEOREM WorkIsDoneOnce == Spec => []DoneOnceAndWhole
BY WholeWork, GenerationHolds, SocialHolds, PackagesHold, CalendarHolds, TemplatesHold,
   ProcessHolds, PTL

(****************************************************************************)
(* What steps may not do to pages, evidence, views and boards.              *)
(****************************************************************************)

\* Where there is no page there is no form.
FormsInv == \A p \in Paths : pages[p].site = 0 => pages[p].form = NoForm

\* What a step does to a page: it stays, it goes, or it is put with the form it
\* had unless another is given.
LEMMA PagesMove ==
  ASSUME SitesInv, [Sites!Next]_sitesVars, NEW p \in Paths
  PROVE  \/ pages'[p] = pages[p]
         \/ pages'[p] = Sites!NoPage
         \/ /\ pages'[p].site # 0
            /\ pages'[p].form = NoForm => pages[p].site # pages'[p].site \/ pages[p].form = NoForm
<1>1. pages \in [Paths -> PagesOf] /\ siteCalls \in [SiteCalls -> SiteCallsOf]
  BY DEF SitesInv, SitesTyped
<1>2. ASSUME NEW c \in SiteCalls, Sites!WritePage(c), pages' # pages
      PROVE  /\ siteCalls[c].site # 0
             /\ \E q \in Paths :
                  pages' = [pages EXCEPT ![q] = [site |-> siteCalls[c].site,
                                                 form |-> Sites!Form(q, siteCalls[c].site, siteCalls[c].form)]]
  <2>1. siteCalls[c].at \subseteq Paths /\ siteCalls[c].site # 0
    BY <1>1, <1>2 DEF Sites!WritePage, SitesInv, GoesOn, SiteCallsOf
  <2>. QED
    BY <1>2, <2>1 DEF Sites!WritePage, Sites!PutPage
<1>3. ASSUME NEW c \in SiteCalls, Sites!WritePage(c), pages' # pages
      PROVE  \/ pages'[p] = pages[p]
             \/ /\ pages'[p].site # 0
                /\ pages'[p].form = NoForm => pages[p].site # pages'[p].site \/ pages[p].form = NoForm
  <2>. DEFINE f(q) == Sites!Form(q, siteCalls[c].site, siteCalls[c].form)
  <2>1. PICK q \in Paths : pages' = [pages EXCEPT ![q] = [site |-> siteCalls[c].site, form |-> f(q)]]
    BY <1>2, <1>3
  <2>2. CASE q = p
    <3>1. pages'[p].site = siteCalls[c].site /\ pages'[p].form = f(q)
      BY <1>1, <2>1, <2>2
    <3>2. siteCalls[c].site # 0
      BY <1>2, <1>3
    <3>. QED
      BY <2>2, <3>1, <3>2 DEF Sites!Form
  <2>3. CASE q # p
    BY <1>1, <2>1, <2>3
  <2>. QED
    BY <2>2, <2>3
<1>4. CASE Sites!DeleteSite \/ \E q \in Paths : Sites!DeletePage(q)
  BY <1>1, <1>4 DEF Sites!DeleteSite, Sites!DeletePage
<1>5. CASE UNCHANGED pages
  BY <1>5
<1>6. CASE Sites!Next
  BY <1>3, <1>4, <1>5, <1>6 DEF Sites!Next, Sites!CreateSite, Sites!MakeSite, Sites!PublishSite,
     Sites!FindSite, Sites!PublishLanding, Sites!Serve, Sites!CheckForm, Sites!CreateSubmission,
     Sites!Submit, Sites!Visit, Sites!PatchPage, Sites!CreateLandingPage, Sites!UpsertPage
<1>. QED
  BY <1>5, <1>6 DEF sitesVars

\* FormsInv holds in every reachable state.
LEMMA FormsHold == Spec => []FormsInv
<1>1. Init => FormsInv
  BY DEF Init, Sites!Init, Sites!NoPage, FormsInv
<1>2. SitesInv /\ FormsInv /\ [Next]_vars => FormsInv'
  <2>. SUFFICES ASSUME SitesInv, FormsInv, [Next]_vars, NEW p \in Paths, pages'[p].site = 0
       PROVE  pages'[p].form = NoForm
    BY DEF FormsInv
  <2>1. [Sites!Next]_sitesVars
    BY StepOfParts
  <2>. QED
    BY <2>1, PagesMove DEF FormsInv, Sites!NoPage
<1>. QED
  BY <1>1, <1>2, SitesHold, PTL DEF Spec

\* A page that has a form keeps one as long as it stands.
LEMMA FormsStay == Spec => Sites!FormsAreKept
<1>. DEFINE Stay == \A p \in Paths :
       pages[p].form # NoForm /\ pages'[p].site = pages[p].site => pages'[p].form # NoForm
<1>1. SitesInv /\ FormsInv /\ [Next]_vars => [Stay]_pages
  <2>. SUFFICES ASSUME SitesInv, FormsInv, [Next]_vars, NEW p \in Paths,
                       pages[p].form # NoForm, pages'[p].site = pages[p].site
       PROVE  pages'[p].form # NoForm
    OBVIOUS
  <2>1. [Sites!Next]_sitesVars
    BY StepOfParts
  <2>2. pages'[p] # Sites!NoPage
    BY DEF FormsInv, Sites!NoPage
  <2>. QED
    BY <2>1, <2>2, PagesMove
<1>. QED
  BY <1>1, SitesHold, FormsHold, PTL DEF Spec, Sites!FormsAreKept

\* What is known of a learner is what the last evidence says.
LEMMA GapsFollow == Spec => Education!GapFollowsEvidence
<1>. DEFINE Typed == evidence \in Seq(Levels)
            Follows == evidence' # evidence =>
              /\ Len(evidence') = Len(evidence) + 1
              /\ gap'.level = evidence'[Len(evidence')]
<1>1. Init => Typed
  BY DEF Init, Education!LearnerRecordsInit
<1>2. Typed /\ [Next]_vars => Typed' /\ Follows
  <2>. SUFFICES ASSUME Typed, [Next]_vars PROVE Typed' /\ Follows
    OBVIOUS
  <2>1. [Education!LearnerRecordsNext]_learnersVars
    BY StepOfParts
  <2>2. ASSUME NEW n \in Levels, NEW s, Education!UpdateKnowledgeGap(n, s)
        PROVE  Typed' /\ Follows
    <3>1. evidence' = Append(evidence, n) /\ gap' = [level |-> n, status |-> s]
      BY <2>2 DEF Education!UpdateKnowledgeGap
    <3>2. Append(evidence, n) \in Seq(Levels) /\ Len(Append(evidence, n)) = Len(evidence) + 1
          /\ Append(evidence, n)[Len(evidence) + 1] = n
      OBVIOUS
    <3>. QED
      BY <3>1, <3>2
  <2>3. CASE UNCHANGED evidence
    BY <2>3
  <2>. QED
    BY <2>1, <2>2, <2>3
    DEF Education!LearnerRecordsNext, Education!OnActivate, Education!IssueCertificate,
        Education!ScormRuntimeCommit, Education!AnalyzeLearner, Education!AnalysisEnds, learnersVars
<1>3. Typed /\ [Next]_vars => [Follows]_<<evidence, gap>>
  BY <1>2
<1>. QED
  BY <1>1, <1>2, <1>3, PTL DEF Spec, Education!GapFollowsEvidence

\* Putting a view takes no name away.
LEMMA ViewsStay ==
  ASSUME NEW views \in Seq(ViewsOf), views # <<>>, NEW view \in ViewsOf
  PROVE  CanvasPages!SlugsOf(views) \subseteq CanvasPages!SlugsOf(CanvasPages!WithView(views, view))
<1>. DEFINE same == {i \in DOMAIN views : views[i].slug = view.slug}
            new == CanvasPages!WithView(views, view)
<1>. SUFFICES ASSUME NEW i \in DOMAIN views
     PROVE  \E j \in DOMAIN new : new[j].slug = views[i].slug
  BY DEF CanvasPages!SlugsOf
<1>0. DOMAIN views = 1 .. Len(views) /\ Len(views) \in Nat
  OBVIOUS
<1>1. CASE same = {}
  <2>1. new = Append(views, view)
    BY <1>1 DEF CanvasPages!WithView
  <2>2. i \in DOMAIN Append(views, view) /\ Append(views, view)[i] = views[i]
    BY <1>0
  <2>. HIDE DEF new
  <2>. QED
    BY <2>1, <2>2
<1>2. CASE same # {}
  <2>. DEFINE first == CHOOSE j \in same : \A k \in same : j <= k
  <2>1. new = [views EXCEPT ![first] = view]
    BY <1>2 DEF CanvasPages!WithView
  <2>2. first \in same
    <3>1. same \subseteq Nat
      BY <1>0
    <3>. HIDE DEF same
    <3>2. \E j \in same : \A k \in same : j <= k
      BY <1>2, <3>1, Smallest
    <3>. QED
      BY <3>2
  <2>3. first \in DOMAIN views /\ views[first].slug = view.slug
    BY <2>2
  <2>. HIDE DEF new, first, same
  <2>4. DOMAIN new = DOMAIN views /\ new[first] = view /\ (i # first => new[i] = views[i])
    BY <2>1, <2>3
  <2>. QED
    BY <2>3, <2>4
<1>. QED
  BY <1>1, <1>2

\* Only an update that another has overtaken loses a view.
LEMMA UpdatesKeepViews == Spec => CanvasPages!FreshUpdatesKeepViews
<1>. DEFINE Keep == \A c \in AppCalls :
        updates[c].base = config /\ config # <<>> /\ config' # config
        /\ updates[c].stage = "read" /\ updates'[c].stage = "idle" =>
          CanvasPages!SlugsOf(config) \subseteq CanvasPages!SlugsOf(config')
<1>1. AppsInv /\ [Next]_vars => [Keep]_appsVars
  <2>. SUFFICES ASSUME AppsInv, [Next]_vars, NEW c \in AppCalls,
                       updates[c].base = config, config # <<>>, config' # config,
                       updates[c].stage = "read", updates'[c].stage = "idle"
       PROVE  CanvasPages!SlugsOf(config) \subseteq CanvasPages!SlugsOf(config')
    OBVIOUS
  <2>1. [CanvasPages!AppsNext]_appsVars
    BY StepOfParts
  <2>2. PICK d \in AppCalls : CanvasPages!WriteView(d)
    BY <2>1 DEF CanvasPages!AppsNext, CanvasPages!CreateApp, CanvasPages!PatchPage,
       CanvasPages!UpdateAppView, CanvasPages!UpdateFails, appsVars
  <2>3. updates' = [updates EXCEPT ![d] = CanvasPages!Idle] /\ updates \in [AppCalls -> UpdatesOf]
    BY <2>2 DEF CanvasPages!WriteView, AppsInv
  <2>4. d = c
    BY <2>3
  <2>. DEFINE view == [slug |-> updates[c].slug, is_default |-> updates[c].is_default]
  <2>5. config' = CanvasPages!WithView(config, view)
    BY <2>2, <2>4 DEF CanvasPages!WriteView
  <2>6. view \in ViewsOf /\ config \in Seq(ViewsOf)
    BY DEF AppsInv, UpdatesOf, ViewsOf, CanvasPages!View
  <2>. HIDE DEF view
  <2>. QED
    BY <2>5, <2>6, ViewsStay
<1>. QED
  BY <1>1, AppsHold, PTL
     DEF Spec, CanvasPages!FreshUpdatesKeepViews, CanvasPages!appsVars, appsVars

\* The fields of a collection are a list of them.
FieldsInv == \A f \in DOMAIN fields : f \in Nat /\ fields[f].type \in {"enum", "text"}

\* FieldsInv holds in every reachable state.
LEMMA FieldsHold == Spec => []FieldsInv
<1>1. Init => FieldsInv
  BY DEF Init, CanvasViews!KanbanBoardInit, FieldsInv
<1>2. FieldsInv /\ [Next]_vars => FieldsInv'
  <2>. SUFFICES ASSUME FieldsInv, [Next]_vars PROVE FieldsInv'
    OBVIOUS
  <2>1. [CanvasViews!KanbanBoardNext]_kanbanVars
    BY StepOfParts
  <2>2. CASE CanvasViews!DefineCollection
    <3>1. PICK n \in 1 .. MaxFields, defined \in [1 .. MaxFields -> CanvasViews!FieldKinds] :
            fields' = SubSeq(defined, 1, n)
      BY <2>2 DEF CanvasViews!DefineCollection
    <3>2. n \in Nat /\ MaxFields \in Nat
      BY <3>1, ConstantsOfWrites
    <3>3. DOMAIN fields' = 1 .. n /\ \A f \in 1 .. n : fields'[f] = defined[f]
      BY <3>1, <3>2
    <3>4. \A k \in CanvasViews!FieldKinds : k.type \in {"enum", "text"}
      BY DEF CanvasViews!FieldKinds
    <3>5. \A f \in 1 .. n : defined[f] \in CanvasViews!FieldKinds
      BY <3>1, <3>2
    <3>. QED
      BY <3>2, <3>3, <3>4, <3>5 DEF FieldsInv
  <2>3. CASE UNCHANGED fields
    BY <2>3 DEF FieldsInv
  <2>. QED
    BY <2>1, <2>2, <2>3
    DEF CanvasViews!KanbanBoardNext, CanvasViews!CreateRecord, CanvasViews!UpdateRecord,
        CanvasViews!FetchCollectionData, CanvasViews!BuildKanbanColumns, kanbanVars
<1>. QED
  BY <1>1, <1>2, PTL DEF Spec

\* A board follows the fields as they are.
LEMMA BoardsFollow == Spec => CanvasViews!StagesGoFirst
<1>. DEFINE stages == {f \in DOMAIN fields : fields[f].stage}
            First == drawing.pc = "read" /\ drawing'.pc = "drawn" =>
         /\ drawing'.field # 0 /\ drawing.preferred = CanvasViews!NotPreferred /\ stages # {}
              => drawing'.field \in stages
         /\ drawing.preferred # CanvasViews!NotPreferred => drawing'.field \in {0, drawing.preferred}
         /\ (\A f \in stages : fields[f].type = "text") /\ stages # {}
            /\ drawing.preferred = CanvasViews!NotPreferred => drawing'.field = 0
<1>1. BoardInv /\ FieldsInv /\ [Next]_vars => [First]_kanbanVars
  <2>. SUFFICES ASSUME BoardInv, FieldsInv, [Next]_vars, drawing.pc = "read", drawing'.pc = "drawn"
       PROVE  First
    OBVIOUS
  <2>1. [CanvasViews!KanbanBoardNext]_kanbanVars
    BY StepOfParts
  <2>. DEFINE fit == CanvasViews!GroupFields(fields, drawing.preferred)
              f == CHOOSE g \in fit : \A h \in fit : g <= h
  <2>2. CanvasViews!BuildKanbanColumns
    BY <2>1 DEF CanvasViews!KanbanBoardNext, CanvasViews!DefineCollection, CanvasViews!CreateRecord,
       CanvasViews!UpdateRecord, CanvasViews!FetchCollectionData, CanvasViews!NoDrawing, kanbanVars
  <2>3. drawing.field = 0
    BY DEF BoardInv
  <2>4. \A g \in fit : /\ g \in DOMAIN fields /\ fields[g].type = "enum"
                       /\ IF drawing.preferred # CanvasViews!NotPreferred THEN g = drawing.preferred
                          ELSE g \in stages \/ stages = {}
    BY DEF CanvasViews!GroupFields
  <2>5. fit \subseteq Nat
    BY <2>4 DEF FieldsInv
  <2>. HIDE DEF fit
  <2>6. CASE fit = {}
    <3>1. drawing' = [drawing EXCEPT !.pc = "drawn"]
      BY <2>2, <2>6 DEF CanvasViews!BuildKanbanColumns, fit
    <3>2. drawing'.field = 0
      BY <2>3, <3>1 DEF BoardInv
    <3>. QED
      BY <3>2
  <2>7. CASE fit # {}
    <3>1. \E g \in fit : \A h \in fit : g <= h
      BY <2>5, <2>7, Smallest
    <3>2. f \in fit
      BY <3>1
    <3>3. drawing' = [drawing EXCEPT !.pc = "drawn", !.field = f,
                        !.columns = CanvasViews!Columns(fields[f].choices, drawing.read)]
      BY <2>2, <2>7 DEF CanvasViews!BuildKanbanColumns, fit
    <3>. HIDE DEF f
    <3>4. drawing'.field = f
      BY <3>3 DEF BoardInv
    <3>5. f \in stages => fields[f].type # "text"
      BY <2>4, <3>2
    <3>. QED
      BY <2>4, <3>2, <3>4, <3>5
  <2>. QED
    BY <2>6, <2>7
<1>. QED
  BY <1>1, BoardHolds, FieldsHold, PTL
     DEF Spec, CanvasViews!StagesGoFirst, CanvasViews!kanbanVars, kanbanVars

\* No step makes a cache go back, a page lose its form, evidence be forgotten,
\* an update that is not overtaken lose a view, a board file by what is no
\* stage, a row lie about work, a drain cut what fits into it, a start leave an
\* enabled package without tools, or a bucket fill by being forgotten.
THEOREM RecordSteps == Spec => StepsOfRecords
BY CachesGoForward, FormsStay, GapsFollow, EnabledHaveTools, UpdatesKeepViews, BoardsFollow,
   BucketsKeepRates, RefusalsAreLimited, RowsTell, DrainsAreGraceful DEF StepsOfRecords

==============================================================================
