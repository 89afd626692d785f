---- MODULE MCRecords --------------------------------------------------------
(****************************************************************************)
(* The parts of the harness that keep records - integrations and            *)
(* connections, collections, canvases, sites, courses, posts, templates -   *)
(* and the server's process.  They share no state, so each is checked by    *)
(* itself: what moves is chosen in the initial state, and the others keep   *)
(* theirs.                                                                  *)
(****************************************************************************)
EXTENDS Integers, Sequences, FiniteSets

CONSTANTS Chats, Sources, Editions, NoEdition, Callers, MaxLosses, Consents,
          MaxTokens, NoReply, Rejected, Conns, SameName, ApiCalls, SyncRuns,
          RemoteTotal, MaxVersion, MaxPages, MaxFaults, NoRow, Fields,
          RecordIds, DataCalls, MaxDefines, Writers, Snapshots, MaxRevisions,
          NoSnapshot, Patches, MaxEdits, Slugs, AppCalls, MaxViews, NoSlug,
          Paths, Forms, NoForm, SiteCalls, MaxSites, Enrolling, MaxPackages,
          MaxEnrollments, Learners, Played, MaxCommits, MaxAssessments,
          Levels, MaxItems, MaxDepth, NoRef, CanvasTypes, MaxCode, MaxCards,
          CardLimit, MaxFields, MaxChanges, Authors, Tweets, Updates,
          Submissions, Threads, Links, ThreadParts, MaxPublished,
          MaxScheduled, NoPost, MaxLines, CollectionCount, CanvasCount,
          AutomationCount, Applies, MaxCopies, Packages, Requested, Admins,
          MaxStarts, MaxProcesses, FleetSize, MaxRequests, DrainDeadline,
          RequestTimeout, Clients, ApiBurst, ChatBurst, ApiRate, ChatRate,
          EvictAfter

VARIABLES part, recorded, counter, taken, report, told, forgotten, wallet,
          identity, registered, stage, answer, losses, connStatus, refresh,
          due, started, states, exchanging, code, exchanges, issued, accepted,
          refreshing, refreshed, blemished, integration, operations,
          credential, connection, creating, deleting, apiCall, through,
          authorised, spoilt, published, asked, cached, polling, mode, remote,
          cursor, phase, batch, from, found, data, made, syncRow, lost,
          overlapped, etlFaults, revisions, writing, revisionsTold, canvas,
          contents, version, done, patching, tainted, address, addresses,
          publishing, collection, defines, rows, written, unused, dataCalls,
          farewells, site, siteCount, pages, siteCalls, ever, offered, served,
          submissions, collections, packages, courses, ingesting, checked,
          enrollments, coursesOverlapped, schema, committed, answered,
          certificates, evidence, gap, analysis, section, past, open, refs,
          parents, inItem, currentRef, currentTitle, pending, declared,
          resources, courseTitle, scos, canvasType, reply, call,
          generationCanvas, socialCollections, connected, socialPublished,
          posting, posts, analytics, schedule, packagesRows, loading,
          packagesRegistered, enabled, switching, crossed, starts, config,
          page, updates, patched, lines, headers, inTable, calendar, copies,
          applying, raced, applied, fields, cards, drawing, changes, buckets,
          rateAnswer, procs, processRows, requests

platformVars == <<recorded, counter, taken, report, told, forgotten>>
registrationVars == <<wallet, identity, registered, stage, answer, losses>>
oauthVars == <<connStatus, refresh, due, started, states, exchanging, code,
               exchanges, issued, accepted, refreshing, refreshed, blemished>>
integrationsVars == <<integration, operations, credential, connection,
                      creating, deleting, apiCall, through, authorised,
                      spoilt>>
cachesVars == <<published, asked, cached, polling>>
etlVars == <<mode, remote, cursor, phase, batch, from, found, data, made,
             syncRow, lost, overlapped, etlFaults>>
revisionsVars == <<revisions, writing, revisionsTold>>
canvasVars == <<canvas, contents, version, done, patching, tainted, address,
                addresses, publishing>>
schemaVars == <<collection, defines, rows, written, unused, dataCalls,
                farewells>>
sitesVars == <<site, siteCount, pages, siteCalls, ever, offered, served,
               submissions>>
coursesVars == <<collections, packages, courses, ingesting, checked,
                 enrollments, coursesOverlapped>>
learnersVars == <<schema, committed, answered, certificates, evidence, gap,
                  analysis>>
manifestVars == <<section, past, open, refs, parents, inItem, currentRef,
                  currentTitle, pending, declared, resources, courseTitle,
                  scos>>
generationVars == <<canvasType, reply, call, generationCanvas>>
socialVars == <<socialCollections, connected, socialPublished, posting, posts,
                analytics, schedule>>
packagesVars == <<packagesRows, loading, packagesRegistered, enabled,
                  switching, crossed, starts>>
appsVars == <<config, page, updates, patched>>
calendarVars == <<lines, headers, inTable, calendar>>
templatesVars == <<copies, applying, raced, applied>>
kanbanVars == <<fields, cards, drawing, changes>>
rateVars == <<buckets, rateAnswer>>
processVars == <<procs, processRows, requests>>
vars == <<part, platformVars, registrationVars, oauthVars, integrationsVars,
          cachesVars, etlVars, revisionsVars, canvasVars, schemaVars,
          sitesVars, coursesVars, learnersVars, manifestVars, generationVars,
          socialVars, packagesVars, appsVars, calendarVars, templatesVars,
          kanbanVars, rateVars, processVars>>

Polling == INSTANCE Polling
RelayRegistration == INSTANCE RelayRegistration
OAuthConnections == INSTANCE OAuthConnections
IntegrationSync == INSTANCE IntegrationSync
RecordKeeping == INSTANCE RecordKeeping WITH told <- revisionsTold
CanvasPages == INSTANCE CanvasPages
Sites == INSTANCE Sites
Education == INSTANCE Education WITH overlapped <- coursesOverlapped
CanvasViews == INSTANCE CanvasViews WITH canvas <- generationCanvas
SocialPackage == INSTANCE SocialPackage WITH collections <- socialCollections,
                                             published <- socialPublished
WorkspaceSetup == INSTANCE WorkspaceSetup WITH rows <- packagesRows,
                                               registered <-
                                               packagesRegistered
ServerProcess == INSTANCE ServerProcess WITH answer <- rateAnswer, rows <-
                                             processRows

\* What the theorems assume of the constants.
ASSUME ConstantsOfRecords ==
  /\ {MaxLosses, MaxTokens} \subseteq Nat
  /\ NoReply \notin 0 .. MaxTokens /\ Rejected \notin 0 .. MaxTokens
  /\ Rejected # NoReply /\ NoEdition \notin Nat
  /\ Editions \in Nat /\ Conns # {}
  /\ {RemoteTotal, MaxPages, MaxFaults} \subseteq Nat /\ MaxVersion \in Nat \ {0}
  /\ NoRow \notin [id : Nat, hash : Nat]

ASSUME ConstantsOfWrites ==
  /\ {MaxRevisions, MaxEdits, MaxDefines, MaxSites, MaxViews, MaxCards, CardLimit,
      MaxFields, MaxChanges} \subseteq Nat
  /\ NoForm \notin Forms

\* A template has parts, and a server starts agents.
ASSUME ConstantsOfTemplates ==
  {CollectionCount, CanvasCount, AutomationCount} \subseteq Nat /\ MaxCopies \in Nat \ {0}

ASSUME ConstantsOfProcesses == FleetSize \in Nat

\* A thread has parts, and nothing else is posted in parts.
ASSUME ConstantsOfPosts ==
  ThreadParts \in Nat \ {0} /\ Threads \cap (Tweets \cup Updates \cup Submissions \cup Links) = {}

\* The types of canvases there are.
ASSUME ConstantsOfCanvases ==
  CanvasTypes \subseteq {"dynamic", "freeform", "dashboard", "datagrid", "form", "detail", "kanban",
                        "calendar", "report", "wizard", "custom"}

\* A bucket that was idle until it may be taken away is full.
ASSUME ConstantsOfLimits ==
  /\ {ApiBurst, ChatBurst, ApiRate, ChatRate, EvictAfter} \subseteq Nat
  /\ (EvictAfter + 1) * ApiRate >= ApiBurst
  /\ (EvictAfter + 1) * ChatRate >= ChatBurst

PartNames == {"platform", "registration", "oauth", "integrations", "caches",
              "etl", "revisions", "canvas", "schema", "sites", "courses",
              "learners", "manifest", "generation", "social", "packages",
              "apps", "calendar", "templates", "kanban", "rate", "process"}

Init ==
  /\ part \in PartNames
  /\ Polling!PlatformSyncInit
  /\ RelayRegistration!Init
  /\ OAuthConnections!Init
  /\ IntegrationSync!IntegrationsInit
  /\ Polling!PolledCachesInit
  /\ IntegrationSync!EtlSyncInit
  /\ RecordKeeping!RevisionsInit
  /\ CanvasPages!CanvasesInit
  /\ RecordKeeping!SchemaRecordsInit
  /\ Sites!Init
  /\ Education!CoursesInit
  /\ Education!LearnerRecordsInit
  /\ Education!ScormManifestInit
  /\ CanvasViews!CanvasGenerationInit
  /\ SocialPackage!SocialPostsInit
  /\ WorkspaceSetup!PackagesInit
  /\ CanvasPages!AppsInit
  /\ SocialPackage!CalendarTableInit
  /\ WorkspaceSetup!TemplatesInit
  /\ CanvasViews!KanbanBoardInit
  /\ ServerProcess!RateLimitInit
  /\ ServerProcess!HarnessProcessInit

\* The parts other than t keep their state.
Still(t) ==
  /\ IF t # "platform" THEN UNCHANGED platformVars ELSE TRUE
  /\ IF t # "registration" THEN UNCHANGED registrationVars ELSE TRUE
  /\ IF t # "oauth" THEN UNCHANGED oauthVars ELSE TRUE
  /\ IF t # "integrations" THEN UNCHANGED integrationsVars ELSE TRUE
  /\ IF t # "caches" THEN UNCHANGED cachesVars ELSE TRUE
  /\ IF t # "etl" THEN UNCHANGED etlVars ELSE TRUE
  /\ IF t # "revisions" THEN UNCHANGED revisionsVars ELSE TRUE
  /\ IF t # "canvas" THEN UNCHANGED canvasVars ELSE TRUE
  /\ IF t # "schema" THEN UNCHANGED schemaVars ELSE TRUE
  /\ IF t # "sites" THEN UNCHANGED sitesVars ELSE TRUE
  /\ IF t # "courses" THEN UNCHANGED coursesVars ELSE TRUE
  /\ IF t # "learners" THEN UNCHANGED learnersVars ELSE TRUE
  /\ IF t # "manifest" THEN UNCHANGED manifestVars ELSE TRUE
  /\ IF t # "generation" THEN UNCHANGED generationVars ELSE TRUE
  /\ IF t # "social" THEN UNCHANGED socialVars ELSE TRUE
  /\ IF t # "packages" THEN UNCHANGED packagesVars ELSE TRUE
  /\ IF t # "apps" THEN UNCHANGED appsVars ELSE TRUE
  /\ IF t # "calendar" THEN UNCHANGED calendarVars ELSE TRUE
  /\ IF t # "templates" THEN UNCHANGED templatesVars ELSE TRUE
  /\ IF t # "kanban" THEN UNCHANGED kanbanVars ELSE TRUE
  /\ IF t # "rate" THEN UNCHANGED rateVars ELSE TRUE
  /\ IF t # "process" THEN UNCHANGED processVars ELSE TRUE

Next ==
  /\ UNCHANGED part
  /\ \/ part = "platform" /\ Polling!PlatformSyncNext /\ Still("platform")
     \/ part = "registration" /\ RelayRegistration!Next /\ Still("registration")
     \/ part = "oauth" /\ OAuthConnections!Next /\ Still("oauth")
     \/ part = "integrations" /\ IntegrationSync!IntegrationsNext /\ Still("integrations")
     \/ part = "caches" /\ Polling!PolledCachesNext /\ Still("caches")
     \/ part = "etl" /\ IntegrationSync!EtlSyncNext /\ Still("etl")
     \/ part = "revisions" /\ RecordKeeping!RevisionsNext /\ Still("revisions")
     \/ part = "canvas" /\ CanvasPages!CanvasesNext /\ Still("canvas")
     \/ part = "schema" /\ RecordKeeping!SchemaRecordsNext /\ Still("schema")
     \/ part = "sites" /\ Sites!Next /\ Still("sites")
     \/ part = "courses" /\ Education!CoursesNext /\ Still("courses")
     \/ part = "learners" /\ Education!LearnerRecordsNext /\ Still("learners")
     \/ part = "manifest" /\ Education!ScormManifestNext /\ Still("manifest")
     \/ part = "generation" /\ CanvasViews!CanvasGenerationNext /\ Still("generation")
     \/ part = "social" /\ SocialPackage!SocialPostsNext /\ Still("social")
     \/ part = "packages" /\ WorkspaceSetup!PackagesNext /\ Still("packages")
     \/ part = "apps" /\ CanvasPages!AppsNext /\ Still("apps")
     \/ part = "calendar" /\ SocialPackage!CalendarTableNext /\ Still("calendar")
     \/ part = "templates" /\ WorkspaceSetup!TemplatesNext /\ Still("templates")
     \/ part = "kanban" /\ CanvasViews!KanbanBoardNext /\ Still("kanban")
     \/ part = "rate" /\ ServerProcess!RateLimitNext /\ Still("rate")
     \/ part = "process" /\ ServerProcess!HarnessProcessNext /\ Still("process")

Spec == Init /\ [][Next]_vars

TypeOK ==
  /\ part = "platform" => Polling!PlatformSyncTypeOK
  /\ part = "registration" => RelayRegistration!TypeOK
  /\ part = "oauth" => OAuthConnections!TypeOK
  /\ part = "integrations" => IntegrationSync!IntegrationsTypeOK
  /\ part = "caches" => Polling!PolledCachesTypeOK
  /\ part = "etl" => IntegrationSync!EtlSyncTypeOK
  /\ part = "revisions" => RecordKeeping!RevisionsTypeOK
  /\ part = "canvas" => CanvasPages!CanvasesTypeOK
  /\ part = "schema" => RecordKeeping!SchemaRecordsTypeOK
  /\ part = "sites" => Sites!TypeOK
  /\ part = "courses" => Education!CoursesTypeOK
  /\ part = "learners" => Education!LearnerRecordsTypeOK
  /\ part = "manifest" => Education!ScormManifestTypeOK
  /\ part = "generation" => CanvasViews!CanvasGenerationTypeOK
  /\ part = "social" => SocialPackage!SocialPostsTypeOK
  /\ part = "packages" => WorkspaceSetup!PackagesTypeOK
  /\ part = "apps" => CanvasPages!AppsTypeOK
  /\ part = "calendar" => SocialPackage!CalendarTableTypeOK
  /\ part = "templates" => WorkspaceSetup!TemplatesTypeOK
  /\ part = "kanban" => CanvasViews!KanbanBoardTypeOK
  /\ part = "rate" => ServerProcess!RateLimitTypeOK
  /\ part = "process" => ServerProcess!HarnessProcessTypeOK

\* What the harness knows of relay, platform and services agrees with them,
\* whatever was lost: one identity per wallet, usage metered once, one exchange
\* per consent, tokens the provider takes, no call without the credential it
\* was to carry.
OutsideIsKnown ==
  /\ part = "platform" =>
       /\ Polling!MeteredOnce
       /\ Polling!UsageNeverAhead
  /\ part = "registration" =>
       /\ RelayRegistration!OneIdentity
       /\ RelayRegistration!StuckOnlyByLoss
  /\ part = "oauth" =>
       /\ OAuthConnections!ConsentUsedOnce
       /\ OAuthConnections!ActiveCanRefresh
       /\ OAuthConnections!RevokedIsEmpty
  /\ part = "integrations" =>
       /\ IntegrationSync!NoBareCalls
       /\ IntegrationSync!UnlinkedByDeletion

\* A sync skips no record for good unless its load failed, keeps one copy of
\* each unless runs overlapped, and no hash hides what was not written.
SyncsMeetEveryRecord ==
  /\ part = "etl" =>
       /\ IntegrationSync!NothingSkipped
       /\ IntegrationSync!SyncedOnce
       /\ IntegrationSync!HashNotAhead

\* Overlapping calls on one canvas, app, collection, site, board or history:
\* what was answered with success is there, belongs where it was meant to, and
\* is shown to whom it may be.
WritesAreKept ==
  /\ part = "revisions" =>
       RecordKeeping!HistoryIsALine
  /\ part = "canvas" =>
       /\ CanvasPages!EditsSurvive
       /\ CanvasPages!VersionsCountWrites
       /\ CanvasPages!DeletedIsPrivate
  /\ part = "schema" =>
       /\ RecordKeeping!InvalidOnlyLater
       /\ RecordKeeping!UpdatesMerge
       /\ RecordKeeping!DeletedOnce
  /\ part = "sites" =>
       /\ Sites!PagesBelong
       /\ Sites!ServedWasPublished
       /\ Sites!SubmissionsWereOffered
  /\ part = "apps" =>
       /\ CanvasPages!PageShowsTheList
       /\ CanvasPages!OneViewIsShown
  /\ part = "kanban" =>
       CanvasViews!CardsAreFiledOnce

\* What a course and its players leave behind: a course has its package, a
\* learner one enrolment, no commit hides another's, an analysis is of its own
\* learner, and a manifest lists every leaf.
LearnersKeepTheirs ==
  /\ part = "courses" =>
       /\ Education!CoursesHavePackages
       /\ Education!EnrolledOnce
  /\ part = "learners" =>
       /\ Education!NothingCommittedIsLost
       /\ Education!ResumesOwnData
       /\ Education!AnalysisIsOwn
  /\ part = "manifest" =>
       /\ Education!LeavesAreListed
       /\ Education!FlatCoursesAreExact
       /\ Education!ReferencesResolve

\* Work of several steps that breaks off or is begun again: a record has its
\* whole thread, a template is there once, a package is on for all who ask or
\* for none, a database has one initial fleet, and an answer or table that is
\* cut is read as far as it is whole.
DoneOnceAndWhole ==
  /\ part = "generation" =>
       /\ CanvasViews!SectionsAreOwn
       /\ CanvasViews!CutCodeIsLeftOut
       /\ CanvasViews!NeverWithoutCanvas
  /\ part = "social" =>
       /\ SocialPackage!ThreadsAreChains
       /\ SocialPackage!RecordedIsWhole
  /\ part = "packages" =>
       WorkspaceSetup!RegistryFollowsRows
  /\ part = "calendar" =>
       /\ SocialPackage!RowsUnderTheirHeaders
       /\ SocialPackage!RowsAreRead
  /\ part = "templates" =>
       /\ WorkspaceSetup!NothingTwice
       /\ WorkspaceSetup!AppliedIsWhole
  /\ part = "process" =>
       ServerProcess!FleetOfOneStart

\* No step makes a cache go back, a page lose its form, evidence be forgotten,
\* an update that is not overtaken lose a view, a board file by what is no
\* stage, a row lie about work, a drain cut what fits into it, a start leave an
\* enabled package without tools, or a bucket fill by being forgotten.
StepsOfRecords ==
  /\ Polling!CachesMoveForward
  /\ Sites!FormsAreKept
  /\ Education!GapFollowsEvidence
  /\ WorkspaceSetup!EnabledAtStartHasTools
  /\ CanvasPages!FreshUpdatesKeepViews
  /\ CanvasViews!StagesGoFirst
  /\ ServerProcess!BucketsKeepTheRate
  /\ ServerProcess!RefusalsCost
  /\ ServerProcess!RowsTellTheWork
  /\ ServerProcess!DrainIsGraceful

==============================================================================
