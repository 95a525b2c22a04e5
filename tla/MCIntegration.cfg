SPECIFICATION IntegrationSpec
CONSTANTS
  r1 = r1  t1 = t1  t2 = t2  f1 = f1  k1 = k1  k2 = k2  v1 = v1  v2 = v2
  Heads = {main, t1, t2, h3}
  Forks = {f1}
  InboxForks = {g1}
  Conflicts = {101, 102}
  Resolutions = {201, 202}
  Inbox = {i1}
  Tags = {r1}
  Free = {}
  Main = main
  NoName = NoName
  Commits = {0, 1, 2, 3, 4, 5, 6}
  Snapshots = {21, 22}
  ConflictObjs = {11, 12}
  Blobs = {}
  Introduces <- MCIntroduces
  NoOid = NoOid
  First = 0
  Sessions = {}
  LiveRef <- MCLiveRef
  MountPaths = {"r", "m"}
  Root = "r"
  MainPath = "m"
  Marked = {}
  MaxLog = 5
  Contents = {v1, v2}
  Tomb = Tomb
  Absent = Absent
  Merged <- MCMerged
  InScope <- MCInScope
  ProvenanceScope <- MCProvenanceScope
  Ops <- MCOps
  RefNames <- MCRefNames
  NoRef = NoRef
  Agents = {}
  MaxCaveats = 5
  Callers = {k1, k2}
  FiledUnder <- MCFiledUnder
  ResolutionOf <- MCResolutionOf
  Histories <- MCHistories
  Played <- MCPlayed
  Sources <- MCSources
  Topics <- MCTopics
  Branched = {h3}
  Imported = {t1}
  Targets <- MCTargets
  Attenuations <- MCAttenuations
  CapOf <- MCCapOf
  Now = 5
  MaxGraphObjects = 40
  MaxCalls = 3
INVARIANTS
  MergeIsReference
  RenamesConflict
  MergesHaveOneBase
  
  TagsVerify
  WalksAgree
PROPERTIES
  RefsMoveForward
  ResolutionKeepsBothSides
  ProtectedNeedsMerge
  GrantsNarrow
CHECK_DEADLOCK FALSE
