CONSTANTS
  c1 = c1
  c2 = c2
  c3 = c3
  html = html
  rss = rss
  old = old
  new = new
  Client = {c1, c2, c3}
  SourceType = {html, rss}
  Adapter = {old, new}
  Nil = Nil
  Request <- MCRequest
  NoRequest = NoRequest
  NoClient = NoClient
SPECIFICATION RegistrySpec
SYMMETRY Clients
INVARIANT IInv
PROPERTY ImplementsAtomicRegistry
