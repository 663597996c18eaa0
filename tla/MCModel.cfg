SPECIFICATION SpecModel
CONSTANTS
  first = first
  second = second
  atStart = atStart
  owner = owner
  signal = signal
  Calls = {first, second}
  Warmups = {atStart}
  Disposers = {owner, signal}
  Accelerated = TRUE
  MaxInits = 2
  MaxLoads = 2
  Processes = {"gateway", "cli"}
  SharedFiles <- MCSharedFiles
  Candidates <- MCCandidates
  Pins = {"tokenizer", "quantized", "fp32"}
  MaxAttempts = 2
  MaxStarts = 3
INVARIANTS
  NoReleaseUnderUse OneSession NothingAfterDispose UsedIsPinned
PROPERTIES
  EverythingSettles GoodCopiesStay EnsureEnds
CHECK_DEADLOCK FALSE
