CONSTANTS
  Value <- MCValue
  NonTextKey = {"key7"}
  Empty = ""
  Trim <- MCTrim
  HTTPAddress = {"http", "HTTPS"}
  URLString <- MCURLString
  Selector = {".css"}
  YAML <- MCYAML
  Filename = {"1.yaml", "2.yml", "3.txt"}
  NameOrder <- MCNameOrder
  Extension <- MCExtension
  Block <- MCBlock
  Directory <- MCDirectory
  Version <- MCVersion
  NoName = "none"
  MaxEdits = 2
  InPlace = TRUE
  IDOrder <- MCIDOrder
  Registered = {"html"}
  Validated = {"html"}
  Intended <- MCIntended
  Rune = {" ", "x"}
  WhiteRune = {" "}
  GoodItems = {1, 2}
  GoodChars = {2, 3}
  Collected <- MCCollected
  Arguments <- MCArguments
SPECIFICATION FairSpec
INVARIANTS
  DefinitionsAreExact
  FilesServed
  ExitTells
PROPERTY QueryEnds
CHECK_DEADLOCK FALSE
