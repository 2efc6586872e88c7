CONSTANTS
  Value <- MCValue
  NonTextKey = {"key7"}
  Empty = ""
  Trim <- MCTrim
  HTTPAddress = {"http", "HTTPS"}
  URLString <- MCURLString
  Selector = {".css"}
  YAML <- MCYAML
  Filename = {"1.yml", "2.yaml"}
  NameOrder <- MCNameOrder
  Extension <- MCExtension
  Block <- MCBlock
  Directory <- MCDirectory
  Version = {}
  NoName = "none"
  MaxEdits = 0
  InPlace = FALSE
  IDOrder <- MCIDOrder
  Registered = {"html", "json"}
  Validated = {"html"}
  Intended <- MCIntended
  Rune = {" ", "x"}
  WhiteRune = {" "}
  GoodItems = {1, 2}
  GoodChars = {2, 3}
  Collected <- MCCollected
  Client = {"c1", "c2"}
  Requested = {"a", "b", "c"}
  MaxItems = {2, 3}
  MaxChars = {2, 4}
SPECIFICATION FairSpec
INVARIANTS
  AllOrNothing
  ListingIsTheCatalog
PROPERTIES
  CatalogFitsIntent
  SnapshotTellsLoss
  SnapshotAnswersCall
  CallEnds
CHECK_DEADLOCK FALSE
