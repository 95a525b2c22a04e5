SPECIFICATION Spec
CONSTANTS
  c0 = c0  c1 = c1  b1 = b1  h1 = h1
  Heads = {main}
  Forks = {f1}
  InboxForks = {}
  Conflicts = {k1}
  Resolutions = {r1}
  Inbox = {}
  Tags = {t1}
  Free = {}
  Main = main
  NoName = NoName
  Commits = {c0, c1}
  Snapshots = {s1}
  ConflictObjs = {x1}
  Blobs = {b1}
  Introduces <- MCIntroduces
  NoOid = NoOid
  First = c0
  Sessions = {}
  LiveRef <- MCLiveRef
  MountPaths = {"/", "/main"}
  Root = "/"
  MainPath = "/main"
  Marked = {}
  MaxLog = 3
INVARIANTS
  ReflogChain
  ReflogTerminal
  AbandonIsTerminal
  IntroPublished

  
CHECK_DEADLOCK FALSE
