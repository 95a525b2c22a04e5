SPECIFICATION Spec
CONSTANTS
  c0 = c0  c1 = c1  b1 = b1  h1 = h1
  Heads = {main, h1}
  Forks = {f1}
  InboxForks = {}
  Conflicts = {}
  Resolutions = {}
  Inbox = {}
  Tags = {}
  Free = {}
  Main = main
  NoName = NoName
  Commits = {c0, c1}
  Snapshots = {}
  ConflictObjs = {}
  Blobs = {b1}
  Introduces <- MCIntroduces
  NoOid = NoOid
  First = c0
  Sessions = {n1}
  LiveRef <- MCLiveRef
  MountPaths = {"/", "/main"}
  Root = "/"
  MainPath = "/main"
  Marked = {c1}
  MaxLog = 3
PROPERTIES
  HeldRefStays
CHECK_DEADLOCK FALSE
