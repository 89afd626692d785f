SPECIFICATION Spec
CONSTANTS
  Chats = {c1, c2}
  Callers = {r1, r2}
  MaxLosses = 1
  Consents = {s1, s2}
  MaxTokens = 3
  NoReply = NoReply
  Rejected = Rejected
  Conns = {k1, k2}
  SameName = {k1, k2}
  ApiCalls = {x1}
  Sources = {config, bounties}
  Editions = 2
  NoEdition = NoEdition
  SyncRuns = {q1, q2}
  RemoteTotal = 2
  MaxVersion = 2
  MaxPages = 2
  MaxFaults = 1
  NoRow = NoRow
  Writers = {w1, w2}
  Snapshots = {s1, s2}
  MaxRevisions = 3
  NoSnapshot = NoSnapshot
  Patches = {p1, p2}
  MaxEdits = 2
  Fields = {f1, f2}
  RecordIds = {rec1}
  DataCalls = {c1, c2}
  MaxDefines = 2
  Paths = {index}
  Forms = {leads}
  NoForm = NoForm
  SiteCalls = {v1, v2}
  MaxSites = 2
  Enrolling = {c1, c2}
  MaxPackages = 2
  MaxEnrollments = 3
  Learners = {l1, l2}
  Played = {s1, s2}
  MaxCommits = 2
  MaxAssessments = 2
  Levels = {2, 9}
  MaxItems = 3
  MaxDepth = 2
  NoRef = NoRef
  CanvasTypes = {"dynamic", "freeform", "dashboard", "datagrid", "form", "detail", "kanban", "calendar", "report", "wizard", "custom"}
  MaxCode = 2
  Authors = {a1}
  Tweets = {g1}
  Updates = {g1}
  Submissions = {g1}
  Threads = {h1}
  Links = {n1}
  NoPost = NoPost
  ThreadParts = 3
  MaxPublished = 4
  MaxScheduled = 1
  Packages = {edu, soc}
  Requested = {soc}
  Admins = {u1, u2}
  MaxStarts = 2
  Slugs = {home, list}
  AppCalls = {x1, x2}
  MaxViews = 2
  NoSlug = NoSlug
  MaxLines = 6
  CollectionCount = 1
  CanvasCount = 1
  AutomationCount = 2
  Applies = {t1, t2}
  MaxCopies = 2
  MaxCards = 2
  CardLimit = 1
  MaxFields = 2
  MaxChanges = 3
  Clients = {n1, n2}
  ApiBurst = 3
  ChatBurst = 2
  ApiRate = 2
  ChatRate = 1
  EvictAfter = 1
  MaxProcesses = 2
  FleetSize = 1
  MaxRequests = 1
  DrainDeadline = 1
  RequestTimeout = 2
INVARIANTS
  TypeOK
  OutsideIsKnown
  SyncsMeetEveryRecord
  
  
  

  
CHECK_DEADLOCK FALSE
