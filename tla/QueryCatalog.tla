---------------------------- MODULE QueryCatalog ----------------------------
(***************************************************************************)
(* query.LoadCatalog: the definitions of all listed documents are decoded  *)
(* and validated together, and a single bad one, a repeated source ID or a *)
(* cancelled context leaves no catalog at all.                             *)
(***************************************************************************)
EXTENDS SourceDefinition, DefinitionFiles, FiniteSets

CONSTANTS
  IDOrder,        \* source IDs in the order of strings.Compare
  Registered,     \* types with an adapter in the registry
  Validated,      \* types with a definition validator
  (* For the properties only. *)
  Intended        \* Intended[bytes]: the ID of what an author of
                  \* definitions would call a good one

(* The order holds whatever ID a definition may have, once.                *)
ASSUME CatalogAssumption ==
  /\ DOMAIN IDOrder \subseteq Int
  /\ \A i, j \in DOMAIN IDOrder : IDOrder[i] = IDOrder[j] => i = j
  /\ \A bytes \in DOMAIN YAML : \A config \in ParseSourceConfig(bytes) :
       \E i \in DOMAIN IDOrder : IDOrder[i] = config.ID

VARIABLE
  definitions     \* the definitions so far, one per document

catalogVars == <<fileVars, definitions>>

CatalogInit == FilesInit /\ definitions = <<>>

Loading == Listing \/ phase = "listed"

CancelLoad ==
  /\ Loading
  /\ ~canceled
  /\ canceled' = TRUE
  /\ UNCHANGED <<phase, listVars, diskVars, definitions>>

(* Catalog.byID                                                            *)
Loaded == {definitions[i].Config.ID : i \in DOMAIN definitions}

Lookup(id) ==
  definitions[CHOOSE i \in DOMAIN definitions : definitions[i].Config.ID = id]

(* Variant: definitions come in the order they were loaded in. *)
DefinitionsAsLoaded == definitions

IDBefore(id, other) == \E i, j \in DOMAIN IDOrder :
                         i < j /\ IDOrder[i] = id /\ IDOrder[j] = other

(* Where slices.SortFunc puts a definition: behind all whose ID is before. *)
Place(k) == 1 + Cardinality({i \in DOMAIN definitions :
                               IDBefore(definitions[i].Config.ID,
                                        definitions[k].Config.ID)})

(* Catalog.Definitions: sorted by ID.                                      *)
Definitions ==
  [p \in DOMAIN definitions |->
     definitions[CHOOSE k \in DOMAIN definitions : Place(k) = p]]
-----------------------------------------------------------------------------
(* Variant: a registered type is taken without its validator. *)
AcceptUnvalidated(bytes) ==
  {config \in ParseSourceConfig(bytes) :
     /\ config.ID \notin Loaded
     /\ config.Type \in Registered
     /\ ParsesSettings(config.Config)}

(* The configuration in these bytes, unless it is refused for itself.  The *)
(* program's only validator is that of type "html".                        *)
Valid(bytes) ==
  {config \in ParseSourceConfig(bytes) :
     config.Type \in Registered \cap Validated /\ ParsesSettings(config.Config)}

Accept(bytes) == {config \in Valid(bytes) : config.ID \notin Loaded}

Definition(config, document) ==
  [Config |-> config,
   DefinitionRevision |-> document.Revision,
   ConfiguredSourceURL |-> ConfiguredURL(config.Config)]

(* The documents come in the repository's order; one loop round each.      *)
InLoop == phase = "listed" /\ Len(definitions) < Len(documents)
Current == documents[Len(definitions) + 1]

LoadNext ==
  /\ InLoop
  /\ ~canceled
  /\ \E config \in Accept(Current.Content) :
       definitions' = Append(definitions, Definition(config, Current))
  /\ UNCHANGED fileVars

LoadFail ==
  /\ InLoop
  /\ canceled \/ Accept(Current.Content) = {}
  /\ phase' = "failed"
  /\ definitions' = <<>>
  /\ UNCHANGED <<canceled, listVars, diskVars>>

(* A cancellation after the last round is not looked at any more.          *)
Serve ==
  /\ phase = "listed" /\ ~InLoop
  /\ phase' = "serving"
  /\ UNCHANGED <<canceled, listVars, diskVars, definitions>>

LoadStep ==
  \/ ListStep /\ UNCHANGED definitions
  \/ LoadNext \/ LoadFail \/ Serve

Edited == Edit /\ UNCHANGED definitions

CatalogNext == CancelLoad \/ LoadStep \/ Edited

CatalogSpec == CatalogInit /\ [][CatalogNext]_catalogVars
-----------------------------------------------------------------------------
CatalogTypeOK ==
  /\ phase \in {"start", "scan", "read", "listed", "serving", "failed"}
  /\ FilesTypeOK
  /\ Len(definitions) <= Len(documents)

(* For the proofs: what is decided of each document when it is loaded.     *)
CatalogInv ==
  /\ Listing \/ phase = "failed" => definitions = <<>>
  /\ phase = "serving" => Len(definitions) = Len(documents)
  /\ \A i \in DOMAIN definitions :
       /\ i \in DOMAIN documents
       /\ definitions[i].Config \in ParseSourceConfig(documents[i].Content)
       /\ definitions[i].DefinitionRevision = documents[i].Revision
       /\ definitions[i].Config.Type \in Registered \cap Validated
       /\ ParsesSettings(definitions[i].Config.Config)
  /\ \A i, j \in DOMAIN definitions :
       definitions[i].Config.ID = definitions[j].Config.ID => i = j

IInv == CatalogTypeOK /\ FilesInv /\ CatalogInv

(* A catalog that serves has one definition for every listed document,     *)
(* each good by itself and no two with one ID; a load that fails, or is    *)
(* not over, serves nothing (catalog.go:74-111).                           *)
AllOrNothing ==
  CASE phase = "serving" ->
         /\ Len(definitions) = Len(documents)
         /\ \A i \in DOMAIN definitions :
              /\ definitions[i].DefinitionRevision = documents[i].Revision
              /\ definitions[i].Config.Type \in Registered \cap Validated
              /\ ParsesSettings(definitions[i].Config.Config)
         /\ \A i, j \in DOMAIN definitions :
              definitions[i].Config.ID = definitions[j].Config.ID => i = j
    [] phase = "failed" -> definitions = <<>>
    [] OTHER -> Listing => definitions = <<>>

Meant == {i \in DOMAIN documents : documents[i].Content \in DOMAIN Intended}
IntendedID(i) == Intended[documents[i].Content]
AllMeant ==
  /\ Meant = DOMAIN documents
  /\ \A i, j \in Meant : IntendedID(i) = IntendedID(j) => i = j

(* For the proofs: each content by itself is taken as it was meant.  What  *)
(* an author would call good passes, with the ID meant, and nothing else.  *)
ContentsFit ==
  /\ DOMAIN Intended \subseteq DOMAIN YAML
  /\ \A bytes \in DOMAIN YAML :
       {config.ID : config \in Valid(bytes)} =
         IF bytes \in DOMAIN Intended THEN {Intended[bytes]} ELSE {}

(* Decoder, schema, duplicate check and adapter validator together take    *)
(* exactly the definitions their authors mean: a catalog is refused only   *)
(* for a cause in what was read, and whatever is served was meant so, with *)
(* its ID (yaml_decoder.go:24-112, schema_v1.go:26-88, settings.go:23-85). *)
CatalogFitsIntent ==
  [][/\ phase = "listed" /\ phase' = "failed" => canceled \/ ~AllMeant
     /\ phase = "listed" /\ phase' = "serving" =>
          /\ AllMeant
          /\ \A i \in Meant : definitions[i].Config.ID = IntendedID(i)]_catalogVars

(* The revision a definition carries is that of the very bytes its         *)
(* configuration was taken from, and unless the file was rewritten in      *)
(* place, those bytes are what was under that name at some time of the     *)
(* load, never a mixture: an edit between ReadDir, the read of a file and  *)
(* its digest does not come in between (file_repository.go:57-68).         *)
DefinitionsAreExact ==
  phase = "serving" =>
    \A i \in DOMAIN definitions :
      LET f == documents[i].Key
          bytes == documents[i].Content IN
      /\ definitions[i].DefinitionRevision = Sum256(bytes)
      /\ definitions[i].Config \in ParseSourceConfig(bytes)
      /\ f \notin rewritten => \E v \in versions[f] : v.bytes = bytes

(* Nothing is passed over, whatever is edited meanwhile: a name that       *)
(* ReadDir met as a regular YAML file has one document, or there is no     *)
(* catalog, also when it is gone, or is something else, once it is opened; *)
(* and a name nobody touches counts as what it is all the time, with what  *)
(* it holds (file_repository.go:44-69).                                    *)
FilesServed ==
  phase = "serving" =>
    \A f \in Filename :
      LET from == {i \in DOMAIN documents : documents[i].Key = f}
          untouched == versions[f] = {directory[f]} /\ f \notin rewritten
          due == /\ isYAMLFilename(f)
                 /\ IF untouched THEN directory[f].kind = "file"
                    ELSE f \in DOMAIN found /\ found[f] = "file"
      IN  IF due
          THEN \E i \in from :
                 /\ from = {i}
                 /\ untouched => documents[i].Content = directory[f].bytes
          ELSE from = {}

(* No definition comes from a symbolic link, as the repository's comment   *)
(* says (file_repository.go:16-18).                                        *)
LinksNotFollowed ==
  phase = "serving" =>
    \A i \in DOMAIN documents :
      LET f == documents[i].Key IN
      \E v \in versions[f] : v.kind = "file" /\ v.bytes = documents[i].Content
=============================================================================
