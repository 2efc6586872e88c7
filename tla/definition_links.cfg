CONSTANTS
  Value <- MCValue
  NonTextKey = {"key7"}
  Empty = ""
  Trim <- MCTrim
  HTTPAddress = {"http", "HTTPS"}
  URLString <- MCURLString
  Selector = {".css"}
  YAML <- MCYAML
  Filename = {"1.yaml", "2.yml", "3.txt"}
  NameOrder <- MCNameOrder
  Extension <- MCExtension
  Block <- MCBlock
  Directory <- MCDirectory
  Version <- LinkVersion
  NoName = "none"
  MaxEdits = 1
  InPlace = FALSE
  IDOrder <- MCIDOrder
  Registered = {"html"}
  Validated = {"html"}
  Intended <- MCIntended
  Rune = {" ", "x"}
  WhiteRune = {" "}
  GoodItems = {1, 2}
  GoodChars = {2, 3}
  Collected <- MCCollected
  Arguments <- LinkArguments
SPECIFICATION Spec
INVARIANT LinksNotFollowed
CHECK_DEADLOCK FALSE
