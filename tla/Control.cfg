SPECIFICATION Spec
CONSTANTS
  RTasks = {w1, w2}
  RDocs = {d1, d2}
  RTables = {tab1}
  MaxRelations = 6
  NoHome = NoHome
  NoRel = NoRel
  MaxRequests = 3
  Handlers = {w1, w2}
  Self = self
  Peers = {d1, d2}
  NoNode = NoNode
  MaxTerm = 2
  MaxCalls = 4
  Callers = {w1, w2}
  MaxKeys = 3
  NoKey = NoKey
  MaxKeyCalls = 3
  Admins = {w1, w2}
  BTabs = {bt1, bt2}
  BDocs = {bd1}
  NoTab = NoTab
  MaxAdminOps = 3
  MaxWrites = 2
  MaxSecond = 1
  Plugs = {g1, g2, g3}
  NoPlug = NoPlug
  PlugNodes = {pn1, pn2}
SYMMETRY Symmetry
INVARIANTS
  TypeOK
  RelationReadsAgree
  ReplayIsHarmless
  OneVoteOneLeader
  RevokedIsRefused
  
  BackupIndexSound
  
  
CHECK_DEADLOCK FALSE
