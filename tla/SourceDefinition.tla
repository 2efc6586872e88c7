-------------------------- MODULE SourceDefinition --------------------------
(***************************************************************************)
(* From the bytes of a definition file to a SourceConfig: the decoder      *)
(* (yaml_decoder.go) makes one generic value of the YAML, the schema       *)
(* (schema_v1.go) checks it, and the html adapter's validator looks into   *)
(* the part that is the adapter's own.  No state: these are functions of   *)
(* a Go value tree.  A result that may be an error instead is a set: of    *)
(* the one result, or empty.                                               *)
(*                                                                         *)
(* A value is [go, text, number, entries]: its dynamic Go type; the text   *)
(* of a "string"; the number of an "int"; the entries of a map, or of an   *)
(* []any under its indices.                                                *)
(***************************************************************************)
EXTENDS Integers, Sequences

CONSTANTS
  Value,        \* the values of an instance, closed under entries
  NonTextKey,   \* keys of maps that are no strings
  Empty,        \* the empty text
  Trim(_),      \* strings.TrimSpace
  HTTPAddress,  \* texts parseHTTPURL accepts
  URLString(_), \* the address such a text becomes: url.URL.String
  Selector,     \* texts cascadia compiles
  YAML          \* YAML[bytes]: the documents yaml.v3 finds in them, in turn;
                \* what is none of these bytes it refuses

Maps == {"DecodedConfig", "map[string]any", "map[any]any"}
Containers == Maps \cup {"[]any"}

(* External: yaml.v3 decodes the top of a document into a DecodedConfig.   *)
(* It gives every map below whose keys are all strings that same type, and *)
(* any other map the type map[any]any.  A document that is malformed or no *)
(* map is a value of type "error", one that holds nothing is "nil".        *)
ASSUME DefinitionAssumption ==
  /\ \A v \in Value : /\ v.number \in Int
                      /\ \A k \in DOMAIN v.entries : v.entries[k] \in Value
                      /\ v.go \notin Containers => DOMAIN v.entries = {}
  /\ Trim(Empty) = Empty
  /\ Empty \notin HTTPAddress \cup Selector

Has(v, field) == field \in DOMAIN v.entries
-----------------------------------------------------------------------------
(* Decoder *)

(* normalizeDecodedValue fails for a key that is no string, at any depth.  *)
TextKeys[v \in Value] ==
  /\ v.go = "map[any]any" => DOMAIN v.entries \cap NonTextKey = {}
  /\ \A k \in DOMAIN v.entries : TextKeys[v.entries[k]]

normalizeDecodedValue[v \in Value] ==
  [v EXCEPT !.go = IF @ \in Maps THEN "map[string]any" ELSE @,
            !.entries = [k \in DOMAIN @ |-> normalizeDecodedValue[v.entries[k]]]]

(* Variant: maps inside keep the type the YAML library gave them. *)
normalizeTopOnly(decoded) == decoded

normalizeDecodedConfig(decoded) ==
  [decoded EXCEPT !.entries =
     [k \in DOMAIN @ |-> normalizeDecodedValue[decoded.entries[k]]]]

(* Exactly one document, and that a map with keys that are strings.        *)
Decode(bytes) ==
  {normalizeDecodedConfig(YAML[bytes][i]) :
     i \in {j \in DOMAIN YAML[bytes] : /\ bytes \in DOMAIN YAML
                                      /\ DOMAIN YAML[bytes] = {1}
                                      /\ YAML[bytes][j].go = "DecodedConfig"
                                      /\ TextKeys[YAML[bytes][j]]}}
-----------------------------------------------------------------------------
(* Schema, version 1 *)

sourceConfigV1Fields ==
  {"version", "id", "name", "type", "interval_seconds", "config"}

requiredStringField(v, field) ==
  /\ Has(v, field)
  /\ v.entries[field].go = "string"
  /\ Trim(v.entries[field].text) # Empty

IntField(v, field) == Has(v, field) /\ v.entries[field].go = "int"

stringMap(v) ==
  /\ v.go \in Maps
  /\ v.go = "map[any]any" => DOMAIN v.entries \cap NonTextKey = {}

Parses(decoded) ==
  /\ DOMAIN decoded.entries \subseteq sourceConfigV1Fields
  /\ IntField(decoded, "version") /\ decoded.entries["version"].number = 1
  /\ \A field \in {"id", "name", "type"} : requiredStringField(decoded, field)
  /\ IntField(decoded, "interval_seconds")
  /\ decoded.entries["interval_seconds"].number > 0
  /\ Has(decoded, "config") /\ stringMap(decoded.entries["config"])

(* The name and the interval are checked and go no further than the        *)
(* answers; two files that differ in them are two contents.                *)
SourceConfig(decoded) ==
  [ID |-> Trim(decoded.entries["id"].text),
   Type |-> Trim(decoded.entries["type"].text),
   Config |-> decoded.entries["config"].entries]

ParseSourceConfig(bytes) ==
  {SourceConfig(decoded) : decoded \in {d \in Decode(bytes) : Parses(d)}}
-----------------------------------------------------------------------------
(* The validator of type "html": settings.go, over the entries of config.  *)

asStringMap(v) ==
  /\ v.go \in {"map[string]any", "map[any]any"}
  /\ v.go = "map[any]any" => DOMAIN v.entries \cap NonTextKey = {}

requiredString(entries, key, legal) ==
  /\ key \in DOMAIN entries
  /\ entries[key].go = "string"
  /\ Trim(entries[key].text) \in legal

optionalString(entries, key, legal) ==
  key \in DOMAIN entries /\ entries[key].go # "nil" =>
    requiredString(entries, key, legal \cup {Empty})

ParsesSettings(config) ==
  /\ requiredString(config, "url", HTTPAddress)
  /\ "selectors" \in DOMAIN config /\ asStringMap(config["selectors"])
  /\ LET selectors == config["selectors"].entries IN
     /\ \A key \in {"item", "title"} : requiredString(selectors, key, Selector)
     /\ \A key \in {"url", "content"} : optionalString(selectors, key, Selector)

ConfiguredURL(config) == URLString(Trim(config["url"].text))
=============================================================================
