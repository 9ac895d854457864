CONSTANTS
  Task = {t1, t2, t3}
  Self = self
  Sentinel = sentinel
  Process = {t1, t2, self}
  Fixed = {n1, n2}
  Named = {n1}
  MaxRecords = 2
  MaxRegions = 3
  MaxResidents = 2
  MaxCandidates = 1
  MaxModules = 3
  RegionLimit = 8
  TotalLimit = 12
  MinSize = 4
  Word = 32
  MaxBytes = 5
  Chunk = 2
  VectorSize = 6
  MaxCount = 2
  NegSizes = {0, 6, 10, 18}
  BlockWords = 4
  FileName = {"a", "index.json"}
  FileContent = {"c1", "c2"}
  MaxSources = 3
  MaxCalls = 2
  Headers <- SomeHeaders
  Modules <- SomeModules
  Images <- SomeImages
  Written <- SomeWritten
  FileWord = 64
  HUNK_UNIT = 3
  Heads <- SomeHeads
  Types <- SomeTypes
  Numbers <- SomeNumbers
  MaxWords = 6
  Printable = {".", "l", ":"}
  Nul = "nul"
  MAX_STRING_LEN = 3
  Needle <- SomeNeedle
  BufferSize = 5
  HeadSize = 6
  BlockSize = 6
  Half = 64
  MaxSize = 20
  TreePaths <- SomePaths
  TreeContent = {"c1", "c2", "c3"}
  SizeOf <- SomeSizes
  MaxWrites = 2
  Batch = {1, 2}
  Sample = {"s1", "s2"}
  SampleLists <- SomeLists
  MAX_SAMPLES = 2
  MaxSecond = 1
  MaxChange = 1
  MaxFault = 1
SPECIFICATION Spec
INVARIANTS TypeOK CleanIsExact WarningIsEarned ReadyNeverMissed FailureCleansUp
           FileIsReadRight CollectedIsKept
PROPERTY Terminates
CHECK_DEADLOCK FALSE
