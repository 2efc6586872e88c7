CONSTANTS
  c1 = c1
  c2 = c2
  c3 = c3
  s1 = s1
  k1 = k1
  k2 = k2
  BlankSource = BlankSource
  BlankKey = BlankKey
  Client = {c1, c2, c3}
  Source = {s1}
  Key = {k1, k2}
  Op <- Operations
  NoOp = NoOp
  NoClient = NoClient
SPECIFICATION Spec
SYMMETRY Clients
INVARIANTS
  IInv
  BaselineWonOnce
PROPERTY ImplementsAtomicStore
