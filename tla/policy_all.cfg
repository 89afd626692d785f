SPECIFICATION Spec
CONSTANTS
  Turns = {t1, t2}
  NoTurn = NoTurn
  Providers = {p1, p2}
  SeededProviders = {p1}
  VaultKeys = {k1, k2}
  NoKey = NoKey
  AdminCalls = {c1, c2}
  SharedBedrock = TRUE
  Swarms = {w1, w2}
  MaxExperiments = 2
  MaxSwarms = 3
  SwarmAgents = {a1}
  Joining = {a1, a2, a3, a4}
  SwarmSizes = {1, 2}
  SwarmCallers = {c1, c2}
  Contributors = {i1, i2, i3}
  Emission = 5
  MaxRaw = 3
  BountyValues = {3, 40}
  U64 = 60
  MaxEntries = 3
  Holders = {h1, h2, h3}
  Fees = {1, 7, 99}
  Stakes = {50, 100, 150}
  MaxFees = 3
  Original = 50010
  Held = 5052
  Revenues = {0, 5, 30}
  Costs = {0, 5, 10}
  Tiers = {"none", "gold"}
  Tenures = {364, 365, 730, 1825}
  MaxBounties = 62
  MaxOpen = 2
  Scored = {a1, a2}
  Collections = {g1, g2}
  MaxCollections = 2
  MaxReports = 1
  Nobody = Nobody
  Weighed = {a1, a2, a3, a4}
  Weights = {240}
  Fitnesses = {0, 1}
  MaxRounds = 1
  Uploads = {u1, u2}
  Malformed = Malformed
  MaxAttached = 2
  DeclaredTypes = {"image", "text"}
  ByteKinds = {"image", "html"}
  Named = {TRUE}
  Memories = {m1}
  Documents = {d1}
  Chunks = 3
  Batch = 2
  Limit = 2
  MaxChars = 6
  Overlap = 2
  Shapes = {1, 4, 6, 9}
  MaxParagraphs = 3
  ShellCommands = {rm, drop, ls}
  Destructive = {rm, drop}
  MaxTokens = 2
  MaxProcesses = 3
  Editors = {e1, e2}
  Patches = {p1, p2}
  Later = {p2}
  MaxVersions = 2
  MaxFrames = 5
  Specialties = {edu}
  FirstSpecialty = soc
  EnvSpecialties = {edu}
  ToolCalls = {x1, x2}
  NoSpecialty = NoSpecialty
  MaxHarnesses = 3
  Tenants = {n1, n2}
  Wallets = {l1, l2}
  WalletCalls = {c1, c2}
  Names = {a1, a2}
  Items = {i1}
  Categories = {"memory", "platform"}
  PollLimit = 1
  NoCategory = "none"
  Quality = 2
  Points = 9
  DefaultLimit = 3
  QualityWidth = 4
  LimitWidth = 8
  Values = {2, 6, 9, 11}
  Garbled = 0
  ContextLines = 3
  HtmlLength = 5
  DocxLength = 5
  PdfLength = 4
  Prices = {50, 900}
  CostThreshold = 100
  HasLocalModel = TRUE
  MaxEvents = 3
  MaxIntakes = 2
  Sessions = {u1, u2}
  UnknownId = 9
  Bounties = {b1}
  Verifiers = {c1, c2}
  MaxEdits = 2
  MaxTests = 3
INVARIANTS
  TypeOK
  
  
  
  
  

  
CHECK_DEADLOCK FALSE
