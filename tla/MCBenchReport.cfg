SPECIFICATION Spec
CONSTANTS
  first = first
  second = second
  batched = batched
  single = single
  None = None
  Torn = Torn
  Sets <- MCReportSet
  LeastFetch = 3
  ReportExcluded = {1}
  Runs = {first, second}
  Tools = {batched, single}
  BatchOf <- MCBatchOf
  FlushEvery = 2
  Caps <- MCCaps
  MaxStarts = 3
  MaxKills = 1
  Span <- MCSpan
  MaxSpans = 2
INVARIANTS
  OkMeansScored
CHECK_DEADLOCK FALSE
