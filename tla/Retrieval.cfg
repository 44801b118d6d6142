SPECIFICATION Spec
CONSTANTS
  MaxTokens = 7
  Begun <- MCBegun
  QDocs = {d1, d2}
  Tags = {g1}
  Gone = Gone
  Missing = Missing
  MaxStatements = 2
  Operators = {a1, a2}
  Secrets = {k1}
  NoSecret = NoSecret
  NoSettings = NoSettings
  Cooldown = 1
  MaxNow = 2
  MaxEdits = 2
  q1 = q1
  q2 = q2
  c1 = c1
  c2 = c2
  c3 = c3
  t1 = t1
  t2 = t2
  Clients = {q1, q2}
  Corpus = {c1, c2, c3}
  Accepts <- MCAccepts
  Queries <- MCQueries
  Texts = {t1, t2}
  MaxCandidates = 3
  MaxConcurrent = 2
  FewCandidates = 2
  MinTarget = 1
  MaxTarget = 3
  RankShare = 4
  RankSlack = 0
  GrepFloor = 2
  CacheSize = 1
  CacheTtl = 0
  MaxQueries = 2
  MaxScore = 1
  Deletable = {c3}
  n1 = n1
  n2 = n2
  n3 = n3
  n4 = n4
  n5 = n5
  n6 = n6
  n7 = n7
  PageNodes = {n1, n2, n3, n4, n5, n6, n7}
  RootNode = n1
  Foreign = Foreign
  Children <- MCChildren
  MaxDepth = 2
  BeamWidth = 2
  Broad = 3
  MaxResults = 2
  MinScore = 1
  TopScore = 2
  BatchCap = 2
  MaxLines = 6
  WindowSize = 3
  MinOverlap = 1
  Concurrency = 2
  MaxLevel = 3
  BuilderDepth = 3
  MaxChunks = 4
  MaxNodes = 3
  BatchSize = 2
  InFlight = 2
  MaxCrashes = 1
  VTasks = {own, other}
  VTerms = {e1, e2}
  Own = own
SYMMETRY Symmetry
INVARIANTS
  TypeOK
  ReadsAsWritten
  
  SettingsSurviveRestart
  
  
  ReturnsTheBest
  
  
  SummariesFillFromTheLeaves
  
CHECK_DEADLOCK FALSE
