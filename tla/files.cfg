SPECIFICATION Spec
CONSTANTS
  ann = ann  bob = bob
  work = work  dep = dep  prep = prep
  h1 = h1  h2 = h2
  Clients = {ann, bob}
  Names = {work, dep, prep}
  ShellScripts = {work, prep}
  Words <- MCWords
  Blobs <- MCBlobs
  Posts <- MCPosts
  Before = Before
  EarlierFiles <- MCEarlierFiles
  None = None
  Hosts = {h1, h2}
  Plans <- ManyFiles
VIEW View
CHECK_DEADLOCK FALSE
INVARIANTS
  TypeOK
  AnsweredIsStored
  NothingLeftHalfWritten
  UploadedIsFound
  UploadedVersionRuns
  DependenciesAtHand
  ResultsComplete
