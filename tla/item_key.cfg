CONSTANTS
  empty = empty
  space = space
  t1 = t1
  t2 = t2
  zero = zero
  noon = noon
  utc = utc
  cet = cet
  Text = {empty, space, t1, t2}
  Blank = {empty, space}
  Instant = {zero, noon}
  ZeroInstant = zero
  Zone = {utc, cet}
  NoTime = NoTime
  NoKey = NoKey
SPECIFICATION RevisionSpec
SYMMETRY Pairs
INVARIANTS
  KeyExistsIffIdentified
  KeyIsIdentity
