SPECIFICATION FairSpec
CONSTANTS
  s1 = s1  h1 = h1  b1 = b1  b2 = b2
  Heads = {main, h1, sh}
  Forks = {f1, f2}
  InboxForks = {}
  Conflicts = {}
  Resolutions = {}
  Inbox = {}
  Tags = {}
  Free = {}
  Main = main
  Shared = sh
  NoName = NoName
  Commits = {c0, c1, c2, c3, c4}
  Snapshots = {}
  ConflictObjs = {}
  Blobs = {}
  Introduces <- MCIntroduces
  NoOid = NoOid
  First = c0
  Sessions = {s1}
  LiveRef <- MCLiveRef
  Root <- MCRoot
  MainPath <- MCMain
  MountPaths <- MCMounts
  Marked = {}
  MaxLog = 4
  Clients = {k1}
  NsOf <- MCNsOf
  Starts <- MCStarts
  Foreign <- MCForeign
  Mountable <- MCMountable
  Touched <- MCTouched
  Moves <- MCMoves
  Staged <- MCStaged
  Contents = {b1, b2}
  Tomb = Tomb
  Absent = Absent
  NoTree = NoTree
  Fold <- MCFold
  CurrentIn <- MCCurrentIn
  SeenIn <- MCSeenIn
  Destinations <- MCDestinations
  MaxCalls = 3
  MaxForeign = 1
INVARIANTS
  
  
  FoldIsReference
  ReadIsPublication
  CollectionSparesWork
  ReceiptsNameTheChange
PROPERTIES
  Drains
  Isolated
  
  
CHECK_DEADLOCK FALSE
