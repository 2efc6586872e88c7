CONSTANTS
  Text <- MCText
  Empty <- MCEmpty
  Trimmed <- MCTrimmed
  Normalized <- MCNormalized
  InvalidUTF8 <- MCInvalidUTF8
  Missing = Missing
  Configured <- MCConfigured
  HTTPAddress <- MCHTTPAddress
  Selector <- MCSelector
  Page <- MCPage
  Base <- MCBase
  NoBase = NoBase
  Absolute <- MCAbsolute
  Malformed <- MCMalformed
  ResolveReference <- MCResolve
  ForeignFetcher = TRUE
  NoTime = NoTime
  NoKey = NoKey
SPECIFICATION FairSpec
INVARIANTS
  BodyClosed
  LinksAbsolute
PROPERTIES
  ItemsPassIfUTF8
  WholePageOrError
  KeysOutliveConfiguredURL
  CollectEnds
