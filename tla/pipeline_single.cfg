CONSTANTS
  c1 = c1
  c2 = c2
  p1 = p1
  p2 = p2
  s1 = s1
  s2 = s2
  Caller = {c1, c2}
  Pipe = {p1}
  Source = {s1, s2}
  WellFormed = {s1}
  Key <- MCKey
  Item <- MCItem
  Batch <- SingleBatches
  KeyOf <- MCKeyOf
  Mappable <- MCMappable
  NoKey = NoKey
  NoTime = NoTime
  NoCaller = NoCaller
  CallerCancels = TRUE
  StoreFails = TRUE
SPECIFICATION Spec
SYMMETRY Callers
INVARIANTS
  IInv
  OneRunPerPipe
  AtMostOneLateSend
PROPERTIES
  NilMeansComplete
  RefusedBatchesLeaveNoTrace
  FailuresNeverBlock
