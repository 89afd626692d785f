---- MODULE Polling ----------------------------------------------------------
(****************************************************************************)
(* The background loops of the harness: activity reports to the platform    *)
(* and polled caches.  These share no state; each has its own section.      *)
(****************************************************************************)
EXTENDS Naturals, Sequences

(***************************************************************************)
(* The client of the platform (platform_sync.rs): chats add what they used *)
(* to shared counters (agent_proxy.rs), the activity loop takes the        *)
(* counters one by one into a report and sends it.  The counters are       *)
(* lock-free: a report is not a snapshot.  A counter is modelled by the    *)
(* set of chats it sums up.                                                *)
(***************************************************************************)
CONSTANTS
  Chats       \* chats that used a model

VARIABLES
  recorded,     \* how many of its additions a chat has made
  counter,      \* per counter, the chats it holds
  taken,        \* how many counters the report under way has taken
  report,       \* per counter, the chats in the report
  told,         \* per counter, the chats in reports the platform received
  forgotten     \* per counter, those of reports that failed or were skipped

platformVars == <<recorded, counter, taken, report, told, forgotten>>

\* A chat adds in this order.  `conversations` and `tools_executed` are sent
\* too; nothing adds to them.
Additions == <<"tokens_input", "tokens_output", "messages", "model_usage">>

\* The report drains the usage per model, then swaps the totals.
Takings == <<"model_usage", "messages", "tokens_input", "tokens_output">>

Counters == {Additions[i] : i \in 1 .. 4}
Empty == [k \in Counters |-> {}]

PlatformSyncInit ==
  /\ recorded = [c \in Chats |-> 0]
  /\ counter = Empty /\ report = Empty /\ told = Empty /\ forgotten = Empty
  /\ taken = 0

\* One fetch_add, or the insertion into the map, of a chat that ended.
Record(c) ==
  /\ recorded[c] < 4
  /\ LET k == Additions[recorded[c] + 1]
     IN counter' = [counter EXCEPT ![k] = @ \union {c}]
  /\ recorded' = [recorded EXCEPT ![c] = @ + 1]
  /\ UNCHANGED <<taken, report, told, forgotten>>

\* One swap (or drain) of the report under way.
Take ==
  /\ taken < 4
  /\ LET k == Takings[taken + 1]
     IN /\ report' = [report EXCEPT ![k] = counter[k]]
        /\ counter' = [counter EXCEPT ![k] = {}]
  /\ taken' = taken + 1
  /\ UNCHANGED <<recorded, told, forgotten>>

\* The test for an empty report looks at three totals.
SeemsEmpty == report["messages"] = {} /\ report["tokens_input"] = {}

Add(book, more) == [k \in Counters |-> book[k] \union more[k]]

Done ==
  /\ taken' = 0 /\ report' = Empty
  /\ UNCHANGED <<recorded, counter>>

SkipReport ==
  /\ taken = 4 /\ SeemsEmpty
  /\ forgotten' = Add(forgotten, report)
  /\ UNCHANGED told
  /\ Done

\* A report that fails is not sent again, and not added back.
SendReport ==
  /\ taken = 4 /\ ~SeemsEmpty
  /\ \/ told' = Add(told, report) /\ UNCHANGED forgotten
     \/ forgotten' = Add(forgotten, report) /\ UNCHANGED told
  /\ Done

\* The counters are in memory only.
Restart ==
  /\ forgotten' = Add(forgotten, Add(counter, report))
  /\ counter' = Empty /\ report' = Empty /\ taken' = 0
  /\ recorded' = [c \in Chats |-> IF recorded[c] = 0 THEN 0 ELSE 4]
  /\ UNCHANGED told

PlatformSyncNext ==
  \/ \E c \in Chats : Record(c)
  \/ Take \/ SkipReport \/ SendReport \/ Restart

PlatformSyncTypeOK ==
  /\ recorded \in [Chats -> 0 .. 4] /\ taken \in 0 .. 4
  /\ \A book \in {counter, report, told, forgotten} :
       book \in [Counters -> SUBSET Chats]

\* What a chat used is metered once: it is in one counter, one report under
\* way, the platform's books or lost, never in two of them, whatever the order
\* in which chats add and the loop takes (platform_sync.rs, the swaps).
MeteredOnce ==
  \A k \in Counters :
    LET places == <<counter[k], report[k], told[k], forgotten[k]>>
    IN \A i, j \in 1 .. 4 : i # j => places[i] \intersect places[j] = {}

\* A report that is skipped as empty loses no more than the tail of a chat whose
\* input tokens an earlier report took: usage per model never runs ahead of the
\* totals, because chats add it last and the loop drains it first.
UsageNeverAhead ==
  taken = 0 =>
    told["model_usage"] \union forgotten["model_usage"]
      \subseteq told["tokens_input"] \union forgotten["tokens_input"]

(***************************************************************************)
(* What the harness knows of the outside by polling: the platform's        *)
(* configuration (platform_sync.rs) and the relay's open bounties          *)
(* (relay_sync.rs).  Each loop asks, waits for the answer or ten seconds,  *)
(* and replaces its cache as a whole; a failed poll leaves the cache.      *)
(* What a source publishes is numbered in its order.                       *)
(***************************************************************************)
CONSTANTS
  Sources,      \* the loops
  Editions,     \* how often a source changes in a run of the model
  NoEdition     \* nothing asked, nothing cached

VARIABLES
  published,    \* per source, its present edition
  asked,        \* the edition an answer under way carries
  cached,       \* the cache
  polling       \* polls of the loop under way

cacheVars == <<published, asked, cached, polling>>

PolledCachesInit ==
  /\ published = [s \in Sources |-> 0]
  /\ asked = [s \in Sources |-> NoEdition]
  /\ cached = [s \in Sources |-> NoEdition]
  /\ polling = {}

Publish(s) ==
  /\ published[s] < Editions
  /\ published' = [published EXCEPT ![s] = @ + 1]
  /\ UNCHANGED <<asked, cached, polling>>

\* The interval's tick, once the poll before is over.
Tick(s) ==
  /\ s \notin polling
  /\ polling' = polling \union {s}
  /\ UNCHANGED <<published, asked, cached>>

\* The source reads its present edition into the answer.
Answer(s) ==
  /\ s \in polling /\ asked[s] = NoEdition
  /\ asked' = [asked EXCEPT ![s] = published[s]]
  /\ UNCHANGED <<published, cached, polling>>

Over(s) ==
  /\ polling' = polling \ {s}
  /\ asked' = [asked EXCEPT ![s] = NoEdition]
  /\ UNCHANGED published

Store(s) ==
  /\ s \in polling /\ asked[s] # NoEdition
  /\ cached' = [cached EXCEPT ![s] = asked[s]]
  /\ Over(s)

\* No answer in time, a status of failure or a body that does not parse.
PollFails(s) ==
  /\ s \in polling
  /\ Over(s)
  /\ UNCHANGED cached

PolledCachesNext ==
  \E s \in Sources : Publish(s) \/ Tick(s) \/ Answer(s) \/ Store(s) \/ PollFails(s)

PolledCachesTypeOK ==
  /\ published \in [Sources -> 0 .. Editions]
  /\ asked \in [Sources -> (0 .. Editions) \union {NoEdition}]
  /\ cached \in [Sources -> (0 .. Editions) \union {NoEdition}]
  /\ polling \subseteq Sources

\* A cache never goes back to an older edition, although answers may be slow: a
\* loop has one poll under way (config_sync_loop, bounty_sync_loop).
CachesMoveForward ==
  [][\A s \in Sources :
       cached[s] # NoEdition => cached'[s] >= cached[s]]_cacheVars

(****************************************************************************)
(* All of it.                                                               *)
(****************************************************************************)
pollingVars == <<platformVars, cacheVars>>

Init ==
  /\ PlatformSyncInit
  /\ PolledCachesInit

Next ==
  \/ PlatformSyncNext /\ UNCHANGED cacheVars
  \/ PolledCachesNext /\ UNCHANGED platformVars

Spec == Init /\ [][Next]_pollingVars

TypeOK ==
  /\ PlatformSyncTypeOK
  /\ PolledCachesTypeOK
==============================================================================
