------------------------ MODULE QueryCatalogProofs ------------------------
(***************************************************************************)
(* What a catalog guarantees for every directory, every content and every  *)
(* way to edit it while it is read: it is all or nothing, and its          *)
(* definitions and revisions are those of the same bytes.  At the end the  *)
(* lemmas the server and the command share: a catalog that serves stays,   *)
(* its definitions are sorted, and a snapshot tells what it leaves out.    *)
(***************************************************************************)
EXTENDS QueryService, SequenceTheorems, FunctionTheorems, FiniteSetTheorems,
        TLAPS

(* The sets the documents and definitions are taken from.                  *)
DocumentSet == [Key : Filename, Content : Seq(Block),
                Revision : {Sum256(bytes) : bytes \in Seq(Block)}]
DefinitionSet ==
  UNION {{Definition(config, d) : config \in ParseSourceConfig(d.Content)} :
           d \in DocumentSet}

InSequence == documents \in Seq(DocumentSet) /\ definitions \in Seq(DefinitionSet)

FullInv == IInv /\ InSequence

(* An empty sequence is one of anything.                                   *)
LEMMA EmptyFits == <<>> \in Seq(Block) /\ Nothing \in Entry /\ Len(<<>>) = 0
PROOF
<1>1. <<>> \in Seq(Block)
  OBVIOUS
<1>2. Len(<<>>) = 0
  OBVIOUS
<1>3. Nothing \in Entry
  BY <1>1 DEF Nothing, Entry, Kind
<1>. QED
  BY <1>1, <1>2, <1>3

(* A directory nobody has read satisfies the invariant.                    *)
LEMMA InitEstablishes == CatalogInit => FullInv
PROOF
<1> SUFFICES ASSUME CatalogInit PROVE FullInv
  OBVIOUS
<1> USE FilesAssumption, EmptyFits DEF CatalogInit, FilesInit
<1>1. CatalogTypeOK
  <2>1. directory \in [Filename -> Entry]
    OBVIOUS
  <2>2. versions \in [Filename -> SUBSET Entry]
    BY <2>1
  <2>3. DOMAIN found = {} /\ NoFile.got \in Seq(Block)
    BY DEF NoFile
  <2>. QED
    <3>1. FilesTypeOK
      <4>1. reading \in [name : Filename \cup {NoName}, detached : BOOLEAN,
                         bytes : Seq(Block), got : Seq(Block)]
        BY DEF NoFile
      <4>2. pending \in [Filename -> Seq(Block)] /\ edits \in 0..MaxEdits
        OBVIOUS
      <4>3. Len(documents) \in Nat /\ DOMAIN found \subseteq Filename
        OBVIOUS
      <4>4. /\ canceled \in BOOLEAN /\ unscanned \subseteq Filename
            /\ left \subseteq Filename /\ rewritten \subseteq Filename
        OBVIOUS
      <4>. QED
        BY <2>1, <2>2, <4>1, <4>2, <4>3, <4>4, Zenon DEF FilesTypeOK
    <3>. QED
      BY <3>1 DEF CatalogTypeOK
<1>2. FilesInv
  BY DEF FilesInv, NoFile, OneVersion
<1>3. CatalogInv
  BY DEF CatalogInv, Listing
<1>. QED
  BY <1>1, <1>2, <1>3 DEF FullInv, IInv, InSequence

(* The types of a listing, whatever the reader or the editor does          *)
(* (file_repository.go:27-72).                                             *)
LEMMA ReadTypes ==
  ASSUME FilesTypeOK, FilesInv, documents \in Seq(DocumentSet), ListStep
  PROVE  FilesTypeOK' /\ documents' \in Seq(DocumentSet)
PROOF
<1> USE FilesAssumption, EmptyFits DEF FilesTypeOK, diskVars
<1>1. CASE Failing
  <2>1. NoFile \in [name : Filename \cup {NoName}, detached : BOOLEAN,
                    bytes : Seq(Block), got : Seq(Block)]
    BY DEF NoFile
  <2>2. /\ reading' = NoFile /\ documents' = <<>>
        /\ unscanned' = {} /\ left' = {} /\ DOMAIN found' = {}
        /\ UNCHANGED <<canceled, diskVars>>
    BY <1>1 DEF Failing
  <2>. QED
    BY <2>1, <2>2
<1>2. CASE OpenDirectory \/ Scanned \/ ListDone
  <2>1. CASE OpenDirectory
    BY <2>1 DEF OpenDirectory
  <2>2. CASE Scanned
    BY <2>2 DEF Scanned
  <2>3. CASE ListDone
    BY <2>3 DEF ListDone, listVars
  <2>. QED
    BY <1>2, <2>1, <2>2, <2>3
<1>3. ASSUME NEW f \in Filename, ScanEntry(f) \/ Skip(f)
      PROVE  FilesTypeOK' /\ documents' \in Seq(DocumentSet)
  BY <1>3 DEF ScanEntry, Skip
<1>4. ASSUME NEW f \in Filename, Open(f)
      PROVE  FilesTypeOK' /\ documents' \in Seq(DocumentSet)
  BY <1>4 DEF Open, NoFile
<1>5. CASE ReadBlock
  <2>1. OnDisk \in Seq(Block)
    BY <1>5 DEF ReadBlock, Reading, OnDisk, Entry, FilesInv
  <2>2. Len(reading.got) + 1 \in 1..Len(OnDisk)
    BY <1>5, <2>1 DEF ReadBlock, AtEnd
  <2>3. OnDisk[Len(reading.got) + 1] \in Block
    BY <2>1, <2>2
  <2>4. Append(reading.got, OnDisk[Len(reading.got) + 1]) \in Seq(Block)
    BY <2>3
  <2>5. reading' \in [name : Filename \cup {NoName}, detached : BOOLEAN,
                      bytes : Seq(Block), got : Seq(Block)]
    BY <1>5, <2>4 DEF ReadBlock
  <2>. QED
    BY <1>5, <2>5 DEF ReadBlock
<1>6. CASE Listed
  <2>1. reading.name \in Filename
    BY <1>6 DEF Listed, Reading, FilesInv
  <2>2. Document \in DocumentSet
    BY <2>1 DEF Document, DocumentSet
  <2>3. documents' \in Seq(DocumentSet) /\ Len(documents') \in Nat
    BY <1>6, <2>2 DEF Listed
  <2>. QED
    BY <1>6, <2>3 DEF Listed, NoFile
<1>. QED
  BY <1>1, <1>2, <1>3, <1>4, <1>5, <1>6
     DEF ListStep, ListFail, StopReading, OpenFails, ReadFails

(* What an editor adds to the history is of its type.                      *)
LEMMA VersionAdded ==
  ASSUME versions \in [Filename -> SUBSET Entry],
         NEW f \in Filename, NEW entry \in Entry
  PROVE  [versions EXCEPT ![f] = @ \cup {entry}] \in [Filename -> SUBSET Entry]
PROOF
<1>1. versions[f] \cup {entry} \in SUBSET Entry
  OBVIOUS
<1>. QED
  BY <1>1, Zenon

(* Likewise for the editor.                                                *)
LEMMA EditTypes ==
  ASSUME FilesTypeOK, FilesInv, Edit
  PROVE  FilesTypeOK' /\ documents' = documents
PROOF
<1> USE FilesAssumption, EmptyFits DEF FilesTypeOK, MayEdit, listVars
<1>1. ASSUME NEW f \in Filename, NEW entry \in Entry, MayEdit(f), Rename(f, entry)
      PROVE  FilesTypeOK' /\ documents' = documents
  <2>1. directory[f].bytes \in Seq(Block)
    BY DEF Entry
  <2>2. reading' \in [name : Filename \cup {NoName}, detached : BOOLEAN,
                      bytes : Seq(Block), got : Seq(Block)]
    BY <1>1, <2>1 DEF Rename
  <2>3. versions' \in [Filename -> SUBSET Entry]
    BY <1>1, VersionAdded DEF Rename
  <2>4. edits' \in 0..MaxEdits
    <3> HIDE DEF FilesTypeOK
    <3>1. edits' = edits + 1 /\ edits < MaxEdits
      BY <1>1 DEF Rename
    <3>2. edits \in 0..MaxEdits /\ MaxEdits \in Nat
      BY DEF FilesTypeOK
    <3>. QED
      BY <3>1, <3>2
  <2>5. /\ directory' \in [Filename -> Entry]
        /\ UNCHANGED <<canceled, pending, unscanned, found, left, documents,
                       rewritten>>
    BY <1>1 DEF Rename
  <2>. QED
    BY <2>2, <2>3, <2>4, <2>5
<1>2. ASSUME NEW f \in Filename, NEW entry \in Entry, Rewrite(f, entry)
      PROVE  FilesTypeOK' /\ documents' = documents
  <2>1. directory' \in [Filename -> Entry]
    <3>1. directory[f] \in Entry
      OBVIOUS
    <3>2. [directory[f] EXCEPT !.bytes = <<>>] \in Entry
      BY <3>1 DEF Entry
    <3>. QED
      BY <1>2, <3>2 DEF Rewrite
  <2>4. pending' \in [Filename -> Seq(Block)]
    <3>1. entry.bytes \in Seq(Block)
      BY DEF Entry
    <3>. QED
      BY <1>2, <3>1 DEF Rewrite
  <2>2. versions' \in [Filename -> SUBSET Entry]
    BY <1>2, VersionAdded DEF Rewrite
  <2>3. edits' \in 0..MaxEdits
    <3> HIDE DEF FilesTypeOK
    <3>1. edits' = edits + 1 /\ edits < MaxEdits
      BY <1>2 DEF Rewrite
    <3>2. edits \in 0..MaxEdits /\ MaxEdits \in Nat
      BY DEF FilesTypeOK
    <3>. QED
      BY <3>1, <3>2
  <2>5. rewritten' \subseteq Filename
    BY <1>2 DEF Rewrite
  <2>6. UNCHANGED <<canceled, unscanned, found, left, reading, documents>>
    BY <1>2 DEF Rewrite
  <2>. QED
    BY <2>1, <2>2, <2>3, <2>4, <2>5, <2>6
<1>3. ASSUME NEW f \in Filename, WriteBlock(f)
      PROVE  FilesTypeOK' /\ documents' = documents
  <2>1. /\ Head(pending[f]) \in Block /\ Tail(pending[f]) \in Seq(Block)
        /\ directory[f] \in Entry
    BY <1>3 DEF WriteBlock
  <2>2. Append(directory[f].bytes, Head(pending[f])) \in Seq(Block)
    BY <2>1 DEF Entry
  <2>3. directory' \in [Filename -> Entry]
    BY <1>3, <2>1, <2>2 DEF WriteBlock, Entry
  <2>. QED
    BY <1>3, <2>1, <2>3 DEF WriteBlock
<1>. QED
  BY <1>1, <1>2, <1>3 DEF Edit, Put, Unlink

(* Reading: an open file goes on being the version it was opened as        *)
(* (file_repository.go:57-68).                                             *)
LEMMA ReadKeepsVersions ==
  ASSUME FilesTypeOK, FilesInv, documents \in Seq(DocumentSet), ListStep
  PROVE  FilesInv'
PROOF
<1> USE FilesAssumption, EmptyFits
<1>1. /\ UNCHANGED <<directory, pending, versions, rewritten>>
      /\ \A f \in Filename \ rewritten :
           directory[f] \in versions[f] /\ pending[f] = <<>>
  BY DEF ListStep, ListFail, StopReading, OpenFails, ReadFails, Failing,
         OpenDirectory, ScanEntry, Scanned, Skip, Open, ReadBlock, Listed,
         ListDone, diskVars, FilesInv
<1>2. CASE Failing
  BY <1>1, <1>2 DEF Failing, FilesInv, NoFile
<1>3. CASE UNCHANGED <<reading, documents>>
  BY <1>1, <1>3 DEF FilesInv, OneVersion, OnDisk
<1>4. ASSUME NEW f \in Filename, Open(f) PROVE FilesInv'
  <2>1. /\ reading' = [NoFile EXCEPT !.name = f]
        /\ documents' = documents
    BY <1>4 DEF Open
  <2>2. /\ reading'.name = f /\ reading'.got = <<>> /\ ~reading'.detached
    BY <2>1 DEF NoFile
  <2>3. f \notin rewritten => directory[f] \in versions[f] /\ OnDisk' = directory[f].bytes
    BY <1>1, <2>2 DEF OnDisk
  <2>4. directory[f].bytes \in Seq(Block)
    BY DEF FilesTypeOK, Entry
  <2>5. f \notin rewritten => /\ OneVersion(f, OnDisk)'
                             /\ Len(reading'.got) <= Len(OnDisk')
                             /\ DOMAIN reading'.got = {}
    BY <1>1, <2>2, <2>3, <2>4 DEF OneVersion
  <2>. QED
    BY <1>1, <2>1, <2>2, <2>5 DEF FilesInv, OneVersion
<1>5. CASE ReadBlock
  <2>1. reading.name \in Filename /\ reading.got \in Seq(Block)
    BY <1>5 DEF ReadBlock, Reading, FilesInv, FilesTypeOK
  <2>2. OnDisk \in Seq(Block)
    BY <2>1 DEF OnDisk, FilesTypeOK, Entry
  <2>3. /\ reading'.name = reading.name /\ OnDisk' = OnDisk
        /\ reading'.got = Append(reading.got, OnDisk[Len(reading.got) + 1])
        /\ documents' = documents
    BY <1>1, <1>5 DEF ReadBlock, OnDisk, FilesTypeOK
  <2>4. Len(reading.got) < Len(OnDisk)
    BY <1>5, <2>1, <2>2 DEF ReadBlock, AtEnd
  <2>5. ASSUME reading.name \notin rewritten
        PROVE  /\ OneVersion(reading.name, OnDisk)'
               /\ Len(reading'.got) <= Len(OnDisk')
               /\ \A i \in DOMAIN reading'.got : reading'.got[i] = OnDisk'[i]
    <3>1. /\ OneVersion(reading.name, OnDisk)
          /\ \A i \in 1..Len(reading.got) : reading.got[i] = OnDisk[i]
      BY <2>1, <2>5 DEF FilesInv
    <3>2. OneVersion(reading.name, OnDisk)'
      BY <1>1, <2>3, <3>1 DEF OneVersion
    <3>3. OnDisk[Len(reading.got) + 1] \in Block
      BY <2>1, <2>2, <2>4
    <3>. QED
      BY <2>1, <2>2, <2>3, <2>4, <3>1, <3>2, <3>3
  <2>. QED
    BY <1>1, <2>1, <2>3, <2>5 DEF FilesInv, OneVersion
<1>6. CASE Listed
  <2>1. reading.name \in Filename /\ reading.got \in Seq(Block)
    BY <1>6 DEF Listed, Reading, FilesInv, FilesTypeOK
  <2>2. OnDisk \in Seq(Block)
    BY <2>1 DEF OnDisk, FilesTypeOK, Entry
  <2>3. OneVersion(reading.name, reading.got)
    <3>1. CASE reading.name \in rewritten
      BY <3>1 DEF OneVersion
    <3>2. CASE reading.name \notin rewritten
      <4>1. /\ OneVersion(reading.name, OnDisk)
            /\ Len(reading.got) = Len(OnDisk)
            /\ \A i \in 1..Len(reading.got) : reading.got[i] = OnDisk[i]
        BY <1>6, <2>1, <2>2, <3>2 DEF FilesInv, Listed, AtEnd
      <4>2. reading.got = OnDisk
        BY <2>1, <2>2, <4>1, SeqEqual
      <4>. QED
        BY <4>1, <4>2
    <3>. QED
      BY <3>1, <3>2
  <2>4. /\ Document.Key = reading.name /\ Document.Content = reading.got
        /\ Document.Revision = Sum256(reading.got) /\ Document \in DocumentSet
    BY <2>1 DEF Document, DocumentSet
  <2>5. /\ documents' = Append(documents, Document) /\ reading' = NoFile
    BY <1>6 DEF Listed
  <2>6. \A i \in DOMAIN documents' :
          \/ i \in DOMAIN documents /\ documents'[i] = documents[i]
          \/ documents'[i] = Document
    BY <2>4, <2>5
  <2>7. \A i \in DOMAIN documents' :
          /\ documents'[i].Key \in Filename
          /\ documents'[i].Revision = Sum256(documents'[i].Content)
          /\ OneVersion(documents'[i].Key, documents'[i].Content)
    BY <2>1, <2>3, <2>4, <2>6 DEF FilesInv
  <2>. QED
    BY <1>1, <2>5, <2>7 DEF FilesInv, OneVersion, NoFile
<1>. QED
  BY <1>2, <1>3, <1>4, <1>5, <1>6
     DEF ListStep, ListFail, StopReading, OpenFails, ReadFails, OpenDirectory,
         ScanEntry, Scanned, Skip, ListDone, listVars

(* Editing: a new version is added to a name's, and the open file keeps    *)
(* the old one.                                                            *)
LEMMA EditKeepsVersions ==
  ASSUME FilesTypeOK, FilesInv, Edit
  PROVE  FilesInv'
PROOF
<1> USE FilesAssumption, EmptyFits
<1>1. ASSUME NEW f \in Filename, NEW entry \in Entry, MayEdit(f), Rename(f, entry)
      PROVE  FilesInv'
  <2>1. /\ directory' = [directory EXCEPT ![f] = entry]
        /\ versions' = [versions EXCEPT ![f] = @ \cup {entry}]
        /\ UNCHANGED <<documents, pending, rewritten>>
        /\ reading'.name = reading.name /\ reading'.got = reading.got
        /\ reading.name = NoName => reading' = reading
    BY <1>1 DEF Rename, FilesTypeOK
  <2>2. \A g \in Filename \ rewritten :
          directory'[g] \in versions'[g] /\ pending'[g] = <<>>
    BY <2>1 DEF FilesInv, FilesTypeOK
  <2>3. \A g \in Filename : versions[g] \subseteq versions'[g]
    BY <2>1 DEF FilesTypeOK
  <2>4. reading.name \in Filename => OnDisk' = OnDisk
    BY <1>1, <2>1 DEF Rename, OnDisk, FilesTypeOK
  <2>. QED
    BY <2>1, <2>2, <2>3, <2>4 DEF FilesInv, OneVersion
<1>2. ASSUME NEW f \in Filename, NEW entry \in Entry, Rewrite(f, entry)
      PROVE  FilesInv'
  <2>1. /\ UNCHANGED <<documents, reading>>
        /\ rewritten' = rewritten \cup {f}
        /\ \A g \in Filename \ {f} : /\ directory'[g] = directory[g]
                                     /\ pending'[g] = pending[g]
                                     /\ versions'[g] = versions[g]
    BY <1>2 DEF Rewrite, FilesTypeOK, listVars
  <2>2. reading.name \in Filename \ {f} => OnDisk' = OnDisk
    BY <2>1 DEF OnDisk
  <2>3. \A g \in Filename : \A bytes : OneVersion(g, bytes) =>
          (g \notin rewritten' => \E v \in versions'[g] : v.bytes = bytes)
    BY <2>1 DEF OneVersion
  <2>4. \A g \in Filename \ rewritten' :
          directory'[g] \in versions'[g] /\ pending'[g] = <<>>
    BY <2>1 DEF FilesInv
  <2>5. reading'.name \in Filename \ rewritten' =>
          /\ OneVersion(reading.name, OnDisk)'
          /\ Len(reading'.got) <= Len(OnDisk')
          /\ \A i \in DOMAIN reading'.got : reading'.got[i] = OnDisk'[i]
    BY <2>1, <2>2, <2>3 DEF FilesInv, OneVersion
  <2>6. \A i \in DOMAIN documents' :
          /\ documents'[i].Key \in Filename
          /\ documents'[i].Revision = Sum256(documents'[i].Content)
          /\ OneVersion(documents[i].Key, documents[i].Content)'
    <3>1. /\ documents' = documents
          /\ \A i \in DOMAIN documents :
               /\ documents[i].Key \in Filename
               /\ documents[i].Revision = Sum256(documents[i].Content)
               /\ OneVersion(documents[i].Key, documents[i].Content)
      BY <2>1 DEF FilesInv
    <3>2. ASSUME NEW i \in DOMAIN documents
          PROVE  OneVersion(documents[i].Key, documents[i].Content)'
      <4>1. documents[i].Key \notin rewritten' =>
              \E v \in versions'[documents[i].Key] : v.bytes = documents[i].Content
        BY <2>3, <3>1
      <4>. QED
        BY <3>1, <4>1 DEF OneVersion
    <3>. QED
      BY <3>1, <3>2
  <2>. QED
    BY <2>1, <2>4, <2>5, <2>6 DEF FilesInv
<1>3. ASSUME NEW f \in Filename, WriteBlock(f) PROVE FilesInv'
  <2>1. f \in rewritten
    BY <1>3 DEF WriteBlock, FilesInv
  <2>2. /\ UNCHANGED <<documents, reading, versions, rewritten>>
        /\ \A g \in Filename \ {f} : /\ directory'[g] = directory[g]
                                     /\ pending'[g] = pending[g]
    BY <1>3 DEF WriteBlock, FilesTypeOK, listVars
  <2>3. reading.name \in Filename \ {f} => OnDisk' = OnDisk
    BY <2>2 DEF OnDisk
  <2>. QED
    BY <2>1, <2>2, <2>3 DEF FilesInv, OneVersion
<1>. QED
  BY <1>1, <1>2, <1>3 DEF Edit, Put, Unlink

(* Loading: a document is taken with its own configuration and revision,   *)
(* under an ID no other has, or nothing is kept (catalog.go:74-112).       *)
LEMMA LoadStepPreserves ==
  ASSUME FullInv, LoadNext \/ LoadFail \/ Serve
  PROVE  FullInv'
PROOF
<1>0. /\ documents \in Seq(DocumentSet) /\ definitions \in Seq(DefinitionSet)
      /\ FilesTypeOK /\ FilesInv /\ CatalogInv /\ CatalogTypeOK
  BY DEF FullInv, InSequence, IInv, CatalogTypeOK
<1>1. /\ UNCHANGED <<canceled, listVars, diskVars>>
      /\ phase = "listed" /\ phase' \in {"listed", "failed", "serving"}
  BY DEF LoadNext, LoadFail, Serve, InLoop, fileVars
<1>2. FilesTypeOK' /\ FilesInv' /\ documents' = documents
  BY <1>0, <1>1 DEF FilesTypeOK, FilesInv, OneVersion, OnDisk, listVars, diskVars
<1>3. CASE LoadNext
  <2>1. PICK config \in Accept(Current.Content) :
          definitions' = Append(definitions, Definition(config, Current))
    BY <1>3 DEF LoadNext
  <2> DEFINE n == Len(definitions) + 1
             new == Definition(config, Current)
  <2>2. /\ n \in DOMAIN documents /\ Current = documents[n]
        /\ Current \in DocumentSet
    BY <1>0, <1>3 DEF LoadNext, InLoop, Current
  <2>3. /\ config \in ParseSourceConfig(documents[n].Content)
        /\ config.ID \notin Loaded /\ config.Type \in Registered \cap Validated
        /\ ParsesSettings(config.Config)
    BY <2>1, <2>2 DEF Accept, Valid
  <2>4. new.Config = config /\ new.DefinitionRevision = documents[n].Revision
    BY <2>2 DEF Definition
  <2>5. new \in DefinitionSet
    BY <2>2, <2>3 DEF DefinitionSet
  <2>6. definitions' \in Seq(DefinitionSet) /\ Len(definitions') = n
    BY <1>0, <2>1, <2>5
  <2>7. \A i \in DOMAIN definitions' :
          \/ i \in DOMAIN definitions /\ definitions'[i] = definitions[i]
          \/ i = n /\ definitions'[i] = new
    BY <1>0, <2>1, <2>5
  <2>8. \A i \in DOMAIN definitions : definitions[i].Config.ID \in Loaded
    BY DEF Loaded
  <2>9. phase' = "listed"
    BY <1>1, <1>3 DEF LoadNext, fileVars
  <2>10. CatalogInv'
    <3>1. \A i \in DOMAIN definitions' :
            /\ i \in DOMAIN documents'
            /\ definitions'[i].Config \in ParseSourceConfig(documents'[i].Content)
            /\ definitions'[i].DefinitionRevision = documents'[i].Revision
            /\ definitions'[i].Config.Type \in Registered \cap Validated
            /\ ParsesSettings(definitions'[i].Config.Config)
      BY <1>0, <1>2, <2>2, <2>3, <2>4, <2>7 DEF CatalogInv
    <3>2. \A i, j \in DOMAIN definitions' :
            definitions'[i].Config.ID = definitions'[j].Config.ID => i = j
      BY <1>0, <2>3, <2>4, <2>7, <2>8 DEF CatalogInv
    <3>. QED
      BY <2>9, <3>1, <3>2 DEF CatalogInv, Listing
  <2>11. Len(definitions') <= Len(documents')
    BY <1>0, <1>2, <2>2, <2>6
  <2>. QED
    BY <1>0, <1>2, <2>6, <2>9, <2>10, <2>11
       DEF FullInv, IInv, InSequence, CatalogTypeOK
<1>4. CASE LoadFail
  <2>1. definitions' = <<>> /\ phase' = "failed"
    BY <1>4 DEF LoadFail
  <2>2. CatalogInv'
    BY <2>1 DEF CatalogInv, Listing
  <2>3. Len(definitions') <= Len(documents')
    BY <1>2, <2>1, EmptyFits DEF FilesTypeOK
  <2>4. definitions' \in Seq(DefinitionSet)
    BY <2>1
  <2>. QED
    BY <1>0, <1>2, <2>1, <2>2, <2>3, <2>4
       DEF FullInv, IInv, InSequence, CatalogTypeOK
<1>5. CASE Serve
  <2>1. definitions' = definitions /\ phase' = "serving"
    BY <1>5 DEF Serve
  <2>2. Len(definitions) = Len(documents)
    BY <1>0, <1>1, <1>5 DEF Serve, InLoop, CatalogTypeOK
  <2>3. CatalogInv'
    BY <1>0, <1>2, <2>1, <2>2 DEF CatalogInv, Listing
  <2>. QED
    BY <1>0, <1>2, <2>1, <2>3 DEF FullInv, IInv, InSequence, CatalogTypeOK
<1>. QED
  BY <1>3, <1>4, <1>5

(* Each step keeps the invariant.                                          *)
LEMMA StepPreserves ==
  ASSUME FullInv, [CatalogNext]_catalogVars
  PROVE  FullInv'
PROOF
<1>0. /\ documents \in Seq(DocumentSet) /\ definitions \in Seq(DefinitionSet)
      /\ FilesTypeOK /\ FilesInv /\ CatalogInv /\ CatalogTypeOK
  BY DEF FullInv, InSequence, IInv, CatalogTypeOK
<1>1. CASE ListStep /\ UNCHANGED definitions
  <2>1. FilesTypeOK' /\ FilesInv' /\ documents' \in Seq(DocumentSet)
    BY <1>0, <1>1, ReadTypes, ReadKeepsVersions
  <2>2. /\ Listing
        /\ phase' \in {"start", "scan", "read", "listed", "failed"}
    BY <1>1 DEF ListStep, ListFail, StopReading, OpenFails, ReadFails, Failing,
       OpenDirectory, ScanEntry, Scanned, Skip, Open, ReadBlock, Listed,
       ListDone, Listing, Takes, AtLoopHead, Reading
  <2>3. definitions' = <<>>
    BY <1>0, <1>1, <2>2 DEF CatalogInv
  <2>4. CatalogInv'
    BY <2>2, <2>3 DEF CatalogInv
  <2>5. Len(definitions') <= Len(documents')
    BY <2>1, <2>3, EmptyFits DEF FilesTypeOK
  <2>. QED
    BY <1>0, <1>1, <2>1, <2>2, <2>4, <2>5
       DEF FullInv, IInv, InSequence, CatalogTypeOK
<1>2. CASE Edited
  <2>1. FilesTypeOK' /\ FilesInv' /\ UNCHANGED <<documents, definitions>>
    BY <1>0, <1>2, EditTypes, EditKeepsVersions DEF Edited
  <2>2. phase' = phase
    BY <1>2 DEF Edited, Edit, Put, Unlink, Rename, Rewrite, WriteBlock
  <2>. QED
    BY <1>0, <2>1, <2>2
       DEF FullInv, IInv, InSequence, CatalogTypeOK, CatalogInv, Listing
<1>3. CASE CancelLoad \/ UNCHANGED catalogVars
  <2>1. UNCHANGED <<phase, listVars, diskVars, definitions>> /\ canceled' \in BOOLEAN
    BY <1>0, <1>3 DEF CancelLoad, catalogVars, fileVars, FilesTypeOK
  <2>2. FilesTypeOK' /\ FilesInv'
    BY <1>0, <2>1 DEF FilesTypeOK, FilesInv, OneVersion, OnDisk, listVars, diskVars
  <2>. QED
    BY <1>0, <2>1, <2>2
       DEF FullInv, IInv, InSequence, CatalogTypeOK, CatalogInv, Listing, listVars
<1>. QED
  BY <1>1, <1>2, <1>3, LoadStepPreserves DEF CatalogNext, LoadStep

(* The inductive invariant of the catalog, in every reachable state: an    *)
(* open file is one version of it, unless it is rewritten in place, and    *)
(* what is decided of a document goes with its bytes                       *)
(* (file_repository.go:27-72, catalog.go:61-112).                          *)
THEOREM Invariance == CatalogSpec => [](IInv /\ InSequence)
PROOF
<1>1. CatalogInit => FullInv
  BY InitEstablishes
<1>2. FullInv /\ [CatalogNext]_catalogVars => FullInv'
  BY StepPreserves
<1>. QED
  BY <1>1, <1>2, PTL DEF CatalogSpec, FullInv

(* What the invariant says of a catalog that serves.                       *)
LEMMA WholeOrNoneNow == IInv => AllOrNothing
  BY DEF IInv, CatalogInv, AllOrNothing

LEMMA ExactNow == IInv => DefinitionsAreExact
  BY DEF IInv, CatalogInv, FilesInv, OneVersion, DefinitionsAreExact

(* The whole catalog or none: every listed document, each good by itself   *)
(* and no two with one ID (catalog.go:74-111).                             *)
THEOREM WholeOrNone == CatalogSpec => []AllOrNothing
  BY WholeOrNoneNow, Invariance, PTL

(* Definitions and revisions are of the same bytes, and those of one       *)
(* version of the file (file_repository.go:57-68).                         *)
THEOREM DefinitionsFitTheirBytes == CatalogSpec => []DefinitionsAreExact
  BY ExactNow, Invariance, PTL

(* A name nobody has touched since the start, and one that was met as a    *)
(* file to be read.                                                        *)
Kept(f) == versions[f] = {directory[f]} /\ f \notin rewritten
Due(f) == f \in DOMAIN found /\ Wanted(f)

(* Which phase has what under way.                                         *)
PhaseInv ==
  /\ phase = "start" => DOMAIN found = {}
  /\ phase = "scan" => unscanned \cap DOMAIN found = {}
  /\ phase # "read" => left = {} /\ reading = NoFile
  /\ phase \in {"start", "scan"} => documents = <<>>
  /\ left \subseteq DOMAIN found

From(f) == {i \in DOMAIN documents : documents[i].Key = f}

(* A due name is still to be read, is being read, or is a document, and    *)
(* one of these only; no other name is any of these.                       *)
EntryInv(f) ==
  /\ \A i \in From(f) : /\ Due(f) /\ f \notin left /\ reading.name # f
                        /\ From(f) = {i}
  /\ reading.name = f => Due(f) /\ f \notin left
  /\ phase \in {"read", "listed", "serving"} /\ Due(f) =>
       f \in left \/ reading.name = f \/ From(f) # {}

(* An untouched name was met as what it is.                                *)
MetAsItIs(f) ==
  /\ f \in DOMAIN found <=> directory[f].kind # "none"
  /\ f \in DOMAIN found => found[f] = directory[f].kind

KeptInv(f) ==
  Kept(f) /\ (\/ phase \in {"read", "listed", "serving"}
              \/ phase = "scan" /\ f \notin unscanned) => MetAsItIs(f)

NameInv(f) == EntryInv(f) /\ KeptInv(f)

ListingInv == PhaseInv /\ \A f \in Filename : NameInv(f)

(* A name that is untouched after an edit was untouched before, and still  *)
(* leads to the same file.                                                 *)
LEMMA KeptStays ==
  ASSUME FilesTypeOK, FilesInv, Edit, NEW f \in Filename, Kept(f)'
  PROVE  Kept(f) /\ directory'[f] = directory[f]
PROOF
<1>0. f \notin rewritten' /\ versions'[f] = {directory'[f]}
  BY DEF Kept
<1>1. ASSUME NEW g \in Filename, NEW entry \in Entry, Rename(g, entry)
      PROVE  Kept(f) /\ directory'[f] = directory[f]
  <2>1. /\ directory' = [directory EXCEPT ![g] = entry]
        /\ versions' = [versions EXCEPT ![g] = @ \cup {entry}]
        /\ rewritten' = rewritten
    BY <1>1 DEF Rename
  <2>2. directory[f] \in versions[f]
    BY <1>0, <2>1 DEF FilesInv
  <2>3. versions[f] \subseteq versions'[f]
    BY <2>1 DEF FilesTypeOK
  <2>. QED
    BY <1>0, <2>1, <2>2, <2>3 DEF Kept
<1>2. ASSUME NEW g \in Filename, NEW entry, Rewrite(g, entry)
      PROVE  Kept(f) /\ directory'[f] = directory[f]
  <2>1. rewritten' = rewritten \cup {g}
    BY <1>2 DEF Rewrite
  <2>2. f # g /\ f \notin rewritten
    BY <1>0, <2>1
  <2>. QED
    BY <1>0, <1>2, <2>2 DEF Rewrite, FilesTypeOK, Kept
<1>3. ASSUME NEW g \in Filename, WriteBlock(g)
      PROVE  Kept(f) /\ directory'[f] = directory[f]
  <2>1. rewritten' = rewritten /\ versions' = versions /\ pending[g] # <<>>
    BY <1>3 DEF WriteBlock
  <2>2. f # g
    BY <1>0, <2>1 DEF FilesInv
  <2>. QED
    BY <1>0, <1>3, <2>1, <2>2 DEF WriteBlock, FilesTypeOK, Kept
<1>. QED
  BY <1>1, <1>2, <1>3, FilesAssumption, EmptyFits DEF Edit, Put, Unlink

(* What is done to other names, or to this one, does not come between the  *)
(* reader and an untouched name.                                           *)
LEMMA EditKeepsListing ==
  ASSUME FilesTypeOK, FilesInv, ListingInv, Edit
  PROVE  ListingInv'
PROOF
<1>1. /\ UNCHANGED <<phase, unscanned, found, left, documents>>
      /\ reading'.name = reading.name
      /\ reading = NoFile => reading' = NoFile
  <2>1. ASSUME NEW g \in Filename, NEW entry, Rename(g, entry)
        PROVE  /\ UNCHANGED <<phase, unscanned, found, left, documents>>
               /\ reading'.name = reading.name
               /\ reading = NoFile => reading' = NoFile
    <3>1. UNCHANGED <<phase, unscanned, found, left, documents>>
      BY <2>1 DEF Rename
    <3>2. reading'.name = reading.name
      BY <2>1 DEF Rename, FilesTypeOK
    <3>3. reading = NoFile => reading.name # g
      BY FilesAssumption DEF NoFile
    <3>4. reading.name # g => reading' = reading
      BY <2>1 DEF Rename
    <3>. QED
      BY <3>1, <3>2, <3>3, <3>4
  <2>2. ASSUME NEW g \in Filename, NEW entry, Rewrite(g, entry) \/ WriteBlock(g)
        PROVE  UNCHANGED <<phase, unscanned, found, left, documents, reading>>
    BY <2>2 DEF Rewrite, WriteBlock, listVars
  <2>. QED
    BY <2>1, <2>2 DEF Edit, Put, Unlink
<1>2. PhaseInv'
  BY <1>1 DEF ListingInv, PhaseInv
<1>3. ASSUME NEW f \in Filename
      PROVE  NameInv(f)'
  <2>1. EntryInv(f) /\ KeptInv(f)
    BY DEF ListingInv, NameInv
  <2>2. From(f)' = From(f) /\ Due(f)' = Due(f)
    BY <1>1 DEF From, Due, Wanted
  <2>3. EntryInv(f)'
    BY <1>1, <2>1, <2>2 DEF EntryInv
  <2>4. Kept(f)' => Kept(f) /\ directory'[f] = directory[f]
    BY KeptStays
  <2>5. KeptInv(f)'
    BY <1>1, <2>1, <2>4 DEF KeptInv, MetAsItIs
  <2>. QED
    BY <2>3, <2>5 DEF NameInv
<1>. QED
  BY <1>2, <1>3 DEF ListingInv

(* The reader comes to every name once, and reads it if it is due          *)
(* (file_repository.go:44-69).                                             *)
LEMMA ReadKeepsListing ==
  ASSUME FilesTypeOK, FilesInv, ListingInv, documents \in Seq(DocumentSet),
         ListStep
  PROVE  ListingInv'
PROOF
<1> USE FilesAssumption
<1>0. /\ PhaseInv /\ \A f \in Filename : NameInv(f)
      /\ UNCHANGED <<directory, versions, rewritten>>
  BY DEF ListingInv, ListStep, ListFail, StopReading, OpenFails, ReadFails,
     Failing, OpenDirectory, ScanEntry, Scanned, Skip, Open, ReadBlock, Listed,
     ListDone, diskVars
<1>1. \A f \in Filename : /\ Kept(f)' <=> Kept(f)
                          /\ directory'[f] = directory[f]
  BY <1>0 DEF Kept
<1>a. ASSUME UNCHANGED found, NEW f \in Filename
      PROVE  (Due(f)' <=> Due(f)) /\ (MetAsItIs(f)' <=> MetAsItIs(f))
  BY <1>0, <1>a DEF Due, Wanted, MetAsItIs
<1>b. ASSUME NEW f \in Filename, From(f)' = {}, reading'.name # f,
             phase' \notin {"read", "listed", "serving"}
      PROVE  EntryInv(f)'
  BY <1>b DEF EntryInv
<1>2. CASE Failing
  <2>1. PhaseInv'
    BY <1>2 DEF Failing, PhaseInv
  <2>2. ASSUME NEW f \in Filename PROVE NameInv(f)'
    <3>1. From(f)' = {} /\ reading'.name # f /\ phase' = "failed"
      BY <1>2 DEF Failing, From, NoFile
    <3>. QED
      BY <1>b, <3>1 DEF NameInv, KeptInv
  <2>. QED
    BY <2>1, <2>2 DEF ListingInv
<1>3. CASE OpenDirectory
  <2>1. PhaseInv'
    BY <1>0, <1>3 DEF OpenDirectory, PhaseInv
  <2>2. ASSUME NEW f \in Filename PROVE NameInv(f)'
    <3>1. /\ From(f)' = {} /\ reading'.name # f /\ phase' = "scan"
          /\ f \in unscanned'
      BY <1>0, <1>3 DEF OpenDirectory, PhaseInv, From, NoFile
    <3>. QED
      BY <1>b, <3>1 DEF NameInv, KeptInv
  <2>. QED
    BY <2>1, <2>2 DEF ListingInv
<1>4. ASSUME NEW g \in Filename, ScanEntry(g) PROVE ListingInv'
  <2>1. PhaseInv'
    BY <1>0, <1>4 DEF ScanEntry, PhaseInv
  <2>2. ASSUME NEW f \in Filename PROVE NameInv(f)'
    <3>1. From(f)' = {} /\ reading'.name # f /\ phase' = "scan"
      BY <1>0, <1>4 DEF ScanEntry, PhaseInv, From, NoFile
    <3>2. Kept(f) /\ f \notin unscanned' =>
            /\ f \in DOMAIN found' <=> directory[f].kind # "none"
            /\ f \in DOMAIN found' => found'[f] = directory[f].kind
      BY <1>0, <1>4 DEF ScanEntry, PhaseInv, NameInv, KeptInv, MetAsItIs
    <3>. QED
      BY <1>1, <1>b, <3>1, <3>2 DEF NameInv, KeptInv, MetAsItIs
  <2>. QED
    BY <2>1, <2>2 DEF ListingInv
<1>5. CASE Scanned
  <2>1. PhaseInv'
    BY <1>0, <1>5 DEF Scanned, PhaseInv
  <2>2. ASSUME NEW f \in Filename PROVE NameInv(f)'
    <3>1. From(f)' = {} /\ reading'.name # f /\ phase' = "read"
          /\ left' = DOMAIN found /\ found' = found
      BY <1>0, <1>5 DEF Scanned, PhaseInv, From, NoFile
    <3>2. Kept(f) => MetAsItIs(f)
      BY <1>0, <1>5 DEF Scanned, NameInv, KeptInv
    <3>. QED
      BY <1>1, <1>a, <3>1, <3>2 DEF NameInv, EntryInv, KeptInv, Due
  <2>. QED
    BY <2>1, <2>2 DEF ListingInv
<1>6. ASSUME NEW g \in Filename, Skip(g) PROVE ListingInv'
  <2>1. PhaseInv'
    BY <1>0, <1>6 DEF Skip, Takes, AtLoopHead, PhaseInv
  <2>2. ASSUME NEW f \in Filename PROVE NameInv(f)'
    <3>1. /\ phase = "read" /\ left' = left \ {g} /\ g \in left /\ ~Wanted(g)
          /\ UNCHANGED <<phase, unscanned, found, reading, documents>>
      BY <1>6 DEF Skip, Takes, AtLoopHead
    <3>2. From(f)' = From(f) /\ NameInv(f) /\ left \subseteq DOMAIN found
      BY <1>0, <3>1 DEF From, PhaseInv
    <3>3. f = g => ~Due(f)
      BY <3>1 DEF Due
    <3>. QED
      BY <1>1, <1>a, <3>1, <3>2, <3>3 DEF NameInv, EntryInv, KeptInv
  <2>. QED
    BY <2>1, <2>2 DEF ListingInv
<1>7. ASSUME NEW g \in Filename, Open(g) PROVE ListingInv'
  <2>1. PhaseInv'
    BY <1>0, <1>7 DEF Open, Takes, AtLoopHead, PhaseInv
  <2>2. ASSUME NEW f \in Filename PROVE NameInv(f)'
    <3>1. /\ phase = "read" /\ left' = left \ {g} /\ g \in left /\ Wanted(g)
          /\ reading.name = NoName /\ reading'.name = g
          /\ UNCHANGED <<phase, unscanned, found, documents>>
      BY <1>7 DEF Open, Takes, AtLoopHead, NoFile
    <3>2. From(f)' = From(f) /\ NameInv(f) /\ left \subseteq DOMAIN found
      BY <1>0, <3>1 DEF From, PhaseInv
    <3>3. f = g => Due(f) /\ From(f) = {}
      BY <3>1, <3>2 DEF NameInv, EntryInv, Due
    <3>. QED
      BY <1>1, <1>a, <3>1, <3>2, <3>3 DEF NameInv, EntryInv, KeptInv
  <2>. QED
    BY <2>1, <2>2 DEF ListingInv
<1>8. CASE ReadBlock
  <2>1. PhaseInv'
    BY <1>0, <1>8 DEF ReadBlock, Reading, PhaseInv
  <2>2. ASSUME NEW f \in Filename PROVE NameInv(f)'
    <3>1. /\ UNCHANGED <<phase, unscanned, found, left, documents>>
          /\ reading'.name = reading.name
      BY <1>8 DEF ReadBlock, FilesTypeOK
    <3>2. From(f)' = From(f)
      BY <3>1 DEF From
    <3>. QED
      BY <1>0, <1>1, <1>a, <3>1, <3>2 DEF NameInv, EntryInv, KeptInv
  <2>. QED
    BY <2>1, <2>2 DEF ListingInv
<1>9. CASE Listed
  <2>1. PhaseInv'
    BY <1>0, <1>9 DEF Listed, Reading, PhaseInv
  <2>2. ASSUME NEW f \in Filename PROVE NameInv(f)'
    <3> DEFINE n == Len(documents) + 1
    <3>1. /\ phase = "read" /\ reading # NoFile /\ reading' = NoFile
          /\ documents' = Append(documents, Document)
          /\ UNCHANGED <<phase, unscanned, found, left>>
      BY <1>9 DEF Listed, Reading
    <3>2. reading.name \in Filename /\ Document.Key = reading.name
      BY <3>1 DEF FilesInv, FilesTypeOK, Document
    <3>3. From(f)' = IF reading.name = f THEN From(f) \cup {n} ELSE From(f)
      <4>1. /\ DOMAIN documents' = DOMAIN documents \cup {n}
            /\ \A i \in DOMAIN documents : documents'[i] = documents[i]
            /\ documents'[n] = Document
        BY <3>1
      <4>. QED
        BY <3>2, <4>1 DEF From
    <3>4. reading'.name # f
      BY <3>1 DEF NoFile
    <3>5. EntryInv(f) /\ KeptInv(f)
      BY <1>0 DEF NameInv
    <3>6. KeptInv(f)'
      BY <1>1, <1>a, <3>1, <3>5 DEF KeptInv
    <3> HIDE DEF n
    <3>7. CASE reading.name = f
      <4>1. From(f) = {} /\ Due(f) /\ f \notin left
        BY <3>5, <3>7 DEF EntryInv
      <4>2. From(f)' = {n} /\ Due(f)'
        BY <1>a, <3>1, <3>3, <3>7, <4>1
      <4>. QED
        BY <3>1, <3>4, <3>6, <4>1, <4>2 DEF NameInv, EntryInv
    <3>8. CASE reading.name # f
      BY <1>a, <3>1, <3>3, <3>4, <3>5, <3>6, <3>8 DEF NameInv, EntryInv
    <3>. QED
      BY <3>7, <3>8
  <2>. QED
    BY <2>1, <2>2 DEF ListingInv
<1>10. CASE ListDone
  <2>1. /\ phase = "read" /\ phase' = "listed" /\ left = {} /\ reading = NoFile
        /\ UNCHANGED <<unscanned, found, left, reading, documents>>
    BY <1>10 DEF ListDone, listVars
  <2>2. PhaseInv'
    BY <1>0, <2>1 DEF PhaseInv
  <2>3. ASSUME NEW f \in Filename PROVE NameInv(f)'
    <3>1. From(f)' = From(f)
      BY <2>1 DEF From
    <3>. QED
      BY <1>0, <1>1, <1>a, <2>1, <3>1 DEF NameInv, EntryInv, KeptInv
  <2>. QED
    BY <2>2, <2>3 DEF ListingInv
<1>. QED
  BY <1>2, <1>3, <1>4, <1>5, <1>6, <1>7, <1>8, <1>9, <1>10
     DEF ListStep, ListFail, StopReading, OpenFails, ReadFails

(* Every step of a load keeps what the listing has to do (catalog.go:61).  *)
LEMMA ListingStep ==
  ASSUME IInv, InSequence, ListingInv, [CatalogNext]_catalogVars
  PROVE  ListingInv'
PROOF
<1>0. FilesTypeOK /\ FilesInv /\ documents \in Seq(DocumentSet)
  BY DEF IInv, CatalogTypeOK, InSequence
<1>1. CASE ListStep \/ Edit
  BY <1>0, <1>1, EditKeepsListing, ReadKeepsListing
<1>2. CASE UNCHANGED <<listVars, diskVars>>
           /\ \/ phase' = phase
              \/ phase = "listed" /\ phase' \in {"failed", "serving"}
  <2>1. UNCHANGED <<unscanned, found, left, reading, documents, directory,
                    versions, rewritten>>
    BY <1>2 DEF listVars, diskVars
  <2>2. PhaseInv'
    BY <1>2, <2>1 DEF ListingInv, PhaseInv
  <2>3. ASSUME NEW f \in Filename PROVE NameInv(f)'
    <3>1. /\ From(f)' = From(f) /\ Kept(f)' = Kept(f) /\ Due(f)' = Due(f)
          /\ MetAsItIs(f)' = MetAsItIs(f) /\ NameInv(f)
      BY <2>1 DEF From, Kept, Due, Wanted, MetAsItIs, ListingInv
    <3>. QED
      BY <1>2, <2>1, <3>1 DEF NameInv, EntryInv, KeptInv
  <2>. QED
    BY <2>2, <2>3 DEF ListingInv
<1>. QED
  BY <1>1, <1>2 DEF CatalogNext, LoadStep, Edited, CancelLoad, LoadNext,
     LoadFail, Serve, InLoop, catalogVars, fileVars

(* Before anything is read every name is still to be met.                  *)
LEMMA ListingBegins == CatalogInit => ListingInv
PROOF
<1> SUFFICES ASSUME CatalogInit PROVE ListingInv
  OBVIOUS
<1>1. PhaseInv
  BY DEF CatalogInit, FilesInit, PhaseInv
<1>2. ASSUME NEW f \in Filename PROVE NameInv(f)
  <2>1. From(f) = {} /\ reading.name # f /\ phase = "start"
    BY FilesAssumption DEF CatalogInit, FilesInit, From, NoFile
  <2>. QED
    BY <2>1 DEF NameInv, EntryInv, KeptInv
<1>. QED
  BY <1>1, <1>2 DEF ListingInv

(* When nothing is left to be read, every due name has been, and a name    *)
(* nobody touched is due by what it is.                                    *)
LEMMA ServedNow == IInv /\ ListingInv => FilesServed
PROOF
<1> SUFFICES ASSUME IInv, ListingInv, phase = "serving", NEW f \in Filename
             PROVE  LET due == /\ isYAMLFilename(f)
                               /\ IF Kept(f) THEN directory[f].kind = "file"
                                  ELSE f \in DOMAIN found /\ found[f] = "file"
                    IN IF due
                       THEN \E i \in From(f) :
                              /\ From(f) = {i}
                              /\ Kept(f) => documents[i].Content
                                              = directory[f].bytes
                       ELSE From(f) = {}
  BY DEF FilesServed, Kept, From
<1>1. /\ EntryInv(f) /\ f \notin left /\ reading.name # f
      /\ Kept(f) => MetAsItIs(f)
  BY FilesAssumption DEF ListingInv, PhaseInv, NameInv, KeptInv, NoFile
<1>2. Kept(f) => \A i \in From(f) : documents[i].Content = directory[f].bytes
  BY DEF IInv, FilesInv, OneVersion, From, Kept
<1>3. Due(f) <=> /\ isYAMLFilename(f)
                 /\ IF Kept(f) THEN directory[f].kind = "file"
                    ELSE f \in DOMAIN found /\ found[f] = "file"
  BY <1>1 DEF Due, Wanted, MetAsItIs
<1>4. IF Due(f) THEN \E i \in From(f) : From(f) = {i} ELSE From(f) = {}
  BY <1>1 DEF EntryInv
<1>. QED
  BY <1>2, <1>3, <1>4

(* Nothing that was met as a definition file is passed over, and a file    *)
(* nobody touches is served as it is, whatever happens to the others       *)
(* (file_repository.go:44-69).                                             *)
THEOREM FilesAreServed == CatalogSpec => []FilesServed
PROOF
<1>1. IInv /\ InSequence /\ ListingInv /\ [CatalogNext]_catalogVars => ListingInv'
  BY ListingStep
<1>. QED
  BY <1>1, ListingBegins, ServedNow, Invariance, PTL DEF CatalogSpec
-----------------------------------------------------------------------------
(* What is loaded of contents that fit was meant.                          *)
LEMMA LoadedIsMeant ==
  ASSUME ContentsFit, FullInv, NEW i \in DOMAIN definitions
  PROVE  i \in Meant /\ definitions[i].Config.ID = IntendedID(i)
PROOF
<1> DEFINE bytes == documents[i].Content
           config == definitions[i].Config
<1>1. i \in DOMAIN documents /\ config \in Valid(bytes)
  BY DEF FullInv, IInv, CatalogInv, Valid
<1>2. bytes \in DOMAIN YAML
  BY <1>1 DEF Valid, ParseSourceConfig, Decode
<1>3. config.ID \in {c.ID : c \in Valid(bytes)}
  BY <1>1
<1> HIDE DEF config
<1>4. bytes \in DOMAIN Intended /\ config.ID = Intended[bytes]
  BY <1>2, <1>3 DEF ContentsFit
<1>. QED
  BY <1>1, <1>4 DEF Meant, IntendedID, config

(* A round fails only for a cause in what was read: the context is done,   *)
(* the document was not meant, or its ID was meant twice                   *)
(* (catalog.go:74-99).                                                     *)
LEMMA FailureHasCause ==
  ASSUME ContentsFit, FullInv, LoadFail, ~canceled
  PROVE  ~AllMeant
PROOF
<1> DEFINE n == Len(definitions) + 1
<1>1. /\ definitions \in Seq(DefinitionSet) /\ documents \in Seq(DocumentSet)
      /\ Len(definitions) < Len(documents)
  BY DEF FullInv, InSequence, LoadFail, InLoop
<1>2. n \in DOMAIN documents /\ n \notin DOMAIN definitions
  BY <1>1
<1>3. Current = documents[n] /\ Accept(documents[n].Content) = {}
  BY DEF LoadFail, Current
<1> HIDE DEF n
<1> SUFFICES ASSUME AllMeant PROVE FALSE
  OBVIOUS
<1>4. n \in Meant /\ documents[n].Content \in DOMAIN Intended
  BY <1>2 DEF AllMeant, Meant
<1>5. PICK config \in Valid(documents[n].Content) : config.ID = IntendedID(n)
  <2>1. documents[n].Content \in DOMAIN YAML
    BY <1>4 DEF ContentsFit
  <2>2. {c.ID : c \in Valid(documents[n].Content)} = {IntendedID(n)}
    BY <1>4, <2>1 DEF ContentsFit, IntendedID
  <2>. QED
    BY <2>2
<1>6. config.ID \in Loaded
  BY <1>3, <1>5 DEF Accept
<1>7. PICK i \in DOMAIN definitions : definitions[i].Config.ID = config.ID
  BY <1>6 DEF Loaded
<1>8. i \in Meant /\ IntendedID(i) = IntendedID(n)
  BY <1>5, <1>7, LoadedIsMeant
<1>9. i = n
  BY <1>4, <1>8 DEF AllMeant
<1>. QED
  BY <1>2, <1>7, <1>9

(* If each content by itself is taken as it was meant, so is any directory *)
(* of them: what is checked of single documents holds of whole catalogs,   *)
(* however many files there are and whatever they repeat                   *)
(* (catalog.go:74-112).                                                    *)
THEOREM CatalogsFitIfContentsDo ==
  ASSUME ContentsFit
  PROVE  CatalogSpec => CatalogFitsIntent
PROOF
<1> DEFINE Fits ==
      /\ phase = "listed" /\ phase' = "failed" => canceled \/ ~AllMeant
      /\ phase = "listed" /\ phase' = "serving" =>
           /\ AllMeant
           /\ \A i \in Meant : definitions[i].Config.ID = IntendedID(i)
<1>1. ASSUME FullInv, CatalogNext, phase = "listed", phase' # "listed"
      PROVE  LoadFail \/ (Serve /\ phase' = "serving")
  <2>1. ~ListStep
    BY <1>1 DEF ListStep, ListFail, StopReading, OpenFails, ReadFails,
       OpenDirectory, ScanEntry, Scanned, Skip, Open, ReadBlock, Listed,
       ListDone, Takes, AtLoopHead, Reading
  <2>2. ~Edited /\ ~CancelLoad /\ ~LoadNext
    BY <1>1 DEF Edited, Edit, Put, Unlink, MayEdit, Rewrite, WriteBlock, Listing,
       CancelLoad, LoadNext, fileVars
  <2>. QED
    BY <1>1, <2>1, <2>2 DEF CatalogNext, LoadStep, Serve
<1>2. ASSUME FullInv, LoadFail PROVE Fits
  BY <1>2, FailureHasCause DEF LoadFail
<1>3. ASSUME FullInv, Serve, phase' = "serving" PROVE Fits
  <2>1. /\ Len(definitions) = Len(documents)
        /\ definitions \in Seq(DefinitionSet) /\ documents \in Seq(DocumentSet)
    BY <1>3 DEF FullInv, IInv, InSequence, CatalogTypeOK, FilesTypeOK, Serve,
       InLoop
  <2>2. DOMAIN definitions = DOMAIN documents
    BY <2>1
  <2>3. /\ Meant = DOMAIN documents
        /\ \A i \in Meant : definitions[i].Config.ID = IntendedID(i)
    BY <1>3, <2>2, LoadedIsMeant DEF Meant
  <2>4. \A i, j \in Meant : IntendedID(i) = IntendedID(j) => i = j
    BY <1>3, <2>2, <2>3 DEF FullInv, IInv, CatalogInv
  <2>. QED
    BY <1>3, <2>3, <2>4 DEF AllMeant
<1>4. FullInv /\ [CatalogNext]_catalogVars => [Fits]_catalogVars
  BY <1>1, <1>2, <1>3
<1>. QED
  BY <1>4, Invariance, PTL DEF CatalogSpec, CatalogFitsIntent, FullInv
-----------------------------------------------------------------------------
(* A context may end at any time, also when nothing is loaded any more.    *)
LEMMA ContextEnds ==
  ASSUME FullInv, UNCHANGED <<phase, listVars, diskVars, definitions>>,
         canceled' \in BOOLEAN
  PROVE  FullInv' /\ (ListingInv => ListingInv')
PROOF
<1>1. /\ FilesTypeOK /\ FilesInv /\ CatalogInv /\ CatalogTypeOK /\ InSequence
  BY DEF FullInv, IInv, CatalogTypeOK
<1>2. FilesTypeOK' /\ FilesInv'
  BY <1>1 DEF FilesTypeOK, FilesInv, OneVersion, OnDisk, listVars, diskVars
<1>3. FullInv'
  BY <1>1, <1>2
     DEF FullInv, IInv, InSequence, CatalogTypeOK, CatalogInv, Listing, listVars
<1>4. ASSUME ListingInv PROVE ListingInv'
  BY <1>4 DEF ListingInv, PhaseInv, NameInv, EntryInv, KeptInv, MetAsItIs, Kept,
     Due, Wanted, From, listVars, diskVars
<1>. QED
  BY <1>3, <1>4

(* A catalog that serves is not loaded again, and what is done to the      *)
(* directory does not reach it (catalog.go:46-112).                        *)
LEMMA ServingStays ==
  ASSUME phase = "serving", LoadStep \/ Edited
  PROVE  UNCHANGED <<phase, documents, definitions>>
PROOF
<1>1. ~Listing /\ phase \notin {"start", "scan", "read", "listed"}
  BY DEF Listing
<1>2. ~LoadStep
  BY <1>1 DEF LoadStep, ListStep, ListFail, StopReading, OpenFails, ReadFails,
     OpenDirectory, ScanEntry, Scanned, Skip, Open, ReadBlock, Listed, ListDone,
     Takes, AtLoopHead, Reading, LoadNext, LoadFail, Serve, InLoop
<1>. QED
  BY <1>1, <1>2 DEF Edited, Edit, Put, Unlink, Rewrite, WriteBlock, MayEdit

(* What is looked up is a definition of the catalog (catalog.go:115-124).  *)
LEMMA LookupFinds ==
  ASSUME NEW id \in Loaded
  PROVE  \E k \in DOMAIN definitions :
           Lookup(id) = definitions[k] /\ definitions[k].Config.ID = id
PROOF
<1>1. \E k \in DOMAIN definitions : definitions[k].Config.ID = id
  BY DEF Loaded
<1>. QED
  BY <1>1 DEF Lookup

(* The ID of definition k.                                                 *)
IDAt(k) == definitions[k].Config.ID

(* The IDs of a catalog are totally ordered (catalog.go:108-110).          *)
LEMMA IDsAreOrdered ==
  ASSUME FullInv, NEW i \in DOMAIN definitions, NEW j \in DOMAIN definitions,
         NEW k \in DOMAIN definitions
  PROVE  /\ ~IDBefore(IDAt(i), IDAt(i))
         /\ i # j => IDBefore(IDAt(i), IDAt(j)) \/ IDBefore(IDAt(j), IDAt(i))
         /\ IDBefore(IDAt(i), IDAt(j)) /\ IDBefore(IDAt(j), IDAt(k)) =>
              IDBefore(IDAt(i), IDAt(k))
PROOF
<1>1. \A m \in DOMAIN definitions :
        definitions[m].Config \in ParseSourceConfig(documents[m].Content)
  BY DEF FullInv, IInv, CatalogInv
<1>2. \A m \in DOMAIN definitions : documents[m].Content \in DOMAIN YAML
  BY <1>1 DEF ParseSourceConfig, Decode
<1>3. \A m \in DOMAIN definitions :
        \E n \in DOMAIN IDOrder : IDOrder[n] = IDAt(m)
  BY <1>1, <1>2, CatalogAssumption DEF IDAt
<1>4. PICK a \in DOMAIN IDOrder : IDOrder[a] = IDAt(i)
  BY <1>3
<1>5. PICK b \in DOMAIN IDOrder : IDOrder[b] = IDAt(j)
  BY <1>3
<1>6. PICK c \in DOMAIN IDOrder : IDOrder[c] = IDAt(k)
  BY <1>3
<1>7. /\ a \in Int /\ b \in Int /\ c \in Int
      /\ \A m, n \in DOMAIN IDOrder : IDOrder[m] = IDOrder[n] => m = n
  BY <1>4, <1>5, <1>6, CatalogAssumption
<1>8. i # j => IDAt(i) # IDAt(j)
  BY DEF FullInv, IInv, CatalogInv, IDAt
<1>9. /\ IDBefore(IDAt(i), IDAt(i)) <=> a < a
      /\ IDBefore(IDAt(i), IDAt(j)) <=> a < b
      /\ IDBefore(IDAt(j), IDAt(i)) <=> b < a
      /\ IDBefore(IDAt(j), IDAt(k)) <=> b < c
      /\ IDBefore(IDAt(i), IDAt(k)) <=> a < c
  BY <1>4, <1>5, <1>6, <1>7 DEF IDBefore
<1>. QED
  BY <1>4, <1>5, <1>7, <1>8, <1>9

(* The definitions before the one at k.                                    *)
Ahead(k) == {i \in DOMAIN definitions : IDBefore(IDAt(i), IDAt(k))}

(* The sort puts each definition in a place of its own, in the order of    *)
(* IDs, and leaves no place free (catalog.go:108-110).                     *)
LEMMA PlacesAreTaken ==
  ASSUME FullInv
  PROVE  /\ \A k \in DOMAIN definitions : Place(k) \in DOMAIN definitions
         /\ \A j, k \in DOMAIN definitions :
              Place(j) < Place(k) <=> IDBefore(IDAt(j), IDAt(k))
         /\ \A j, k \in DOMAIN definitions : Place(j) = Place(k) => j = k
         /\ \A p \in DOMAIN definitions :
              \E k \in DOMAIN definitions : Place(k) = p
PROOF
<1> DEFINE n == Len(definitions)
           D == DOMAIN definitions
<1>1. n \in Nat /\ D = 1..n
  <2>1. definitions \in Seq(DefinitionSet)
    BY DEF FullInv, InSequence
  <2>. QED
    BY <2>1, LenProperties
<1>2. IsFiniteSet(D) /\ Cardinality(D) = n
  <2>1. /\ IsFiniteSet(1..n)
        /\ Cardinality(1..n) = IF 1 > n THEN 0 ELSE n - 1 + 1
    BY <1>1, FS_Interval
  <2>. QED
    BY <1>1, <2>1
<1> HIDE DEF n, D
<1>3. ASSUME NEW k \in D
      PROVE  /\ IsFiniteSet(Ahead(k)) /\ Ahead(k) \subseteq D /\ k \notin Ahead(k)
             /\ Cardinality(Ahead(k)) \in 0..(n - 1)
             /\ Place(k) = 1 + Cardinality(Ahead(k))
  <2>1. Ahead(k) \subseteq D
    BY DEF Ahead, D
  <2>2. k \notin Ahead(k)
    BY IDsAreOrdered DEF Ahead, D
  <2>3. /\ IsFiniteSet(Ahead(k)) /\ Cardinality(Ahead(k)) <= n
        /\ Cardinality(D) = Cardinality(Ahead(k)) => D = Ahead(k)
    BY <1>2, <2>1, FS_Subset
  <2>4. Cardinality(Ahead(k)) \in Nat
    BY <2>3, FS_CardinalityType
  <2>5. Cardinality(Ahead(k)) # n
    BY <1>2, <2>2, <2>3
  <2>6. Place(k) = 1 + Cardinality(Ahead(k))
    BY DEF Place, Ahead, IDAt
  <2>. QED
    BY <1>1, <2>1, <2>2, <2>3, <2>4, <2>5, <2>6
<1>4. ASSUME NEW k \in D PROVE Place(k) \in D
  <2> DEFINE m == Cardinality(Ahead(k))
  <2>1. m \in 0..(n - 1) /\ Place(k) = 1 + m
    BY <1>3
  <2> HIDE DEF m
  <2>. QED
    BY <1>1, <2>1
<1>5. ASSUME NEW j \in D, NEW k \in D, IDBefore(IDAt(j), IDAt(k))
      PROVE  Place(j) < Place(k)
  <2>1. Ahead(j) \subseteq Ahead(k)
    <3>1. \A i \in D : IDBefore(IDAt(i), IDAt(j)) => IDBefore(IDAt(i), IDAt(k))
      BY <1>5, IDsAreOrdered, Zenon DEF D
    <3>. QED
      BY <3>1, Zenon DEF Ahead, D
  <2>2. j \in Ahead(k) /\ j \notin Ahead(j)
    BY <1>3, <1>5 DEF Ahead, D
  <2>3. /\ Cardinality(Ahead(j)) <= Cardinality(Ahead(k))
        /\ Cardinality(Ahead(k)) = Cardinality(Ahead(j)) => Ahead(k) = Ahead(j)
    BY <1>3, <2>1, FS_Subset
  <2>4. Cardinality(Ahead(j)) # Cardinality(Ahead(k))
    BY <2>2, <2>3
  <2>. QED
    BY <1>1, <1>3, <2>3, <2>4
<1>6. \A j, k \in D : j # k => \/ IDBefore(IDAt(j), IDAt(k))
                               \/ IDBefore(IDAt(k), IDAt(j))
  BY IDsAreOrdered DEF D
<1>7. \A k \in D : Place(k) \in Int
  BY <1>1, <1>4
<1>8. \A j, k \in D : /\ Place(j) < Place(k) <=> IDBefore(IDAt(j), IDAt(k))
                      /\ Place(j) = Place(k) => j = k
  BY <1>5, <1>6, <1>7
<1>9. \A p \in D : \E k \in D : Place(k) = p
  <2> DEFINE place == [k \in D |-> Place(k)]
  <2>1. place \in [D -> D]
    BY <1>4
  <2>2. place \in Injection(D, D)
    BY <1>8, <2>1, Fun_IsInj
  <2>3. place \in Surjection(D, D)
    BY <1>2, <2>2, FS_Injection
  <2>4. \A p \in D : \E k \in D : place[k] = p
    BY <2>3 DEF Surjection
  <2>. QED
    BY <2>4
<1>. QED
  BY <1>4, <1>8, <1>9 DEF D

(* So the list has every definition once, in the order of IDs.             *)
LEMMA DefinitionsAreSorted ==
  ASSUME FullInv
  PROVE  /\ DOMAIN Definitions = DOMAIN definitions
         /\ \A p \in DOMAIN definitions :
              \E k \in DOMAIN definitions : Definitions[p] = definitions[k]
         /\ \A k \in DOMAIN definitions :
              \E p \in DOMAIN definitions : Definitions[p] = definitions[k]
         /\ \A p, q \in DOMAIN definitions : p < q =>
              IDBefore(Definitions[p].Config.ID, Definitions[q].Config.ID)
PROOF
<1> DEFINE D == DOMAIN definitions
           At(p) == CHOOSE k \in D : Place(k) = p
<1>1. \A p \in D : At(p) \in D /\ Place(At(p)) = p
  BY PlacesAreTaken
<1>2. \A k \in D : Place(k) \in D /\ At(Place(k)) = k
  BY <1>1, PlacesAreTaken
<1>3. DOMAIN Definitions = D /\ \A p \in D : Definitions[p] = definitions[At(p)]
  BY DEF Definitions
<1> HIDE DEF At
<1>4. \A p, q \in D : p < q => IDBefore(IDAt(At(p)), IDAt(At(q)))
  BY <1>1, PlacesAreTaken
<1>. QED
  BY <1>1, <1>2, <1>3, <1>4 DEF IDAt
-----------------------------------------------------------------------------
(* A text that is cut is the beginning of the content, and told apart from *)
(* a whole one (service.go:144-150, 176-182).                              *)
LEMMA ItemTells ==
  ASSUME NEW content \in Seq(Rune), NEW limit \in Nat
  PROVE  LET item == ItemOf(content, limit) IN
         /\ item.Content = SubSeq(content, 1, Len(item.Content))
         /\ Len(item.Content) <= limit
         /\ item.ContentTruncated <=> item.Content # content
         /\ item.ContentTruncated => Len(item.Content) = limit
         /\ item.ContentStatus = "present" => ~BlankContent(content)
         /\ item.ContentStatus # "present" =>
              item.ContentTruncated \/ BlankContent(content)
PROOF
<1> DEFINE n == IF Len(content) <= limit THEN Len(content) ELSE limit
           kept == SubSeq(content, 1, n)
<1>0. Len(content) \in Nat
  BY LenProperties
<1>1. /\ n \in 0..Len(content) /\ n <= limit
      /\ n # Len(content) => n = limit
      /\ n = Len(content) <=> Len(content) <= limit
  BY <1>0
<1> HIDE DEF n
<1>2. /\ kept \in Seq(Rune) /\ Len(kept) = n
      /\ \A i \in 1..n : kept[i] = content[i]
  BY <1>0, <1>1
<1>3. n = Len(content) => kept = content
  BY <1>2, SeqEqual
<1>4. Len(content) > limit <=> kept # content
  BY <1>0, <1>1, <1>2, <1>3
<1>5. BlankContent(content) => BlankContent(kept)
  <2>1. \A i \in DOMAIN kept : i \in DOMAIN content /\ kept[i] = content[i]
    BY <1>0, <1>1, <1>2
  <2>. QED
    BY <2>1 DEF BlankContent
<1>6. /\ ItemOf(content, limit).Content = kept
      /\ ItemOf(content, limit).ContentTruncated <=> Len(content) > limit
      /\ ItemOf(content, limit).ContentStatus =
           IF BlankContent(kept) THEN "empty" ELSE "present"
  BY DEF ItemOf, truncateRunes, n
<1>. QED
  <2>1. Len(content) > limit => n = limit
    BY <1>0, <1>1
  <2> HIDE DEF kept
  <2>2. kept = SubSeq(content, 1, Len(kept))
    BY <1>2 DEF kept
  <2>3. ~(kept # content) => (BlankContent(kept) <=> BlankContent(content))
    OBVIOUS
  <2>. QED
    BY <1>1, <1>2, <1>4, <1>5, <1>6, <2>1, <2>2, <2>3

(* A snapshot tells whatever it leaves out, of items and of characters     *)
(* (service.go:140-173).                                                   *)
LEMMA SnapshotTells ==
  ASSUME NEW definition, NEW request,
         NEW collected \in Seq(Seq(Rune)),
         request.items \in Nat, request.chars \in Nat
  PROVE  TellsLoss(collected, request, Snapshot(definition, collected, request))
PROOF
<1> DEFINE returned == IF Len(collected) > request.items THEN request.items
                       ELSE Len(collected)
           snapshot == Snapshot(definition, collected, request)
<1>0. Len(collected) \in Nat
  BY LenProperties
<1>1. /\ returned \in Nat /\ returned <= request.items
      /\ returned <= Len(collected)
      /\ ~(Len(collected) > returned) => returned = Len(collected)
  BY <1>0
<1>2. /\ snapshot.Items = [i \in 1..returned |-> ItemOf(collected[i], request.chars)]
      /\ snapshot.ReturnedItems = returned
      /\ snapshot.TotalItems = Len(collected)
      /\ snapshot.Truncated <=> Len(collected) > returned
  BY DEF Snapshot
<1> HIDE DEF returned, snapshot
<1>3. Len(snapshot.Items) = returned /\ DOMAIN snapshot.Items = 1..returned
  BY <1>1, <1>2
<1>4. ASSUME NEW i \in 1..returned
      PROVE  LET item == snapshot.Items[i] IN
             /\ item.Content = SubSeq(collected[i], 1, Len(item.Content))
             /\ Len(item.Content) <= request.chars
             /\ item.ContentTruncated <=> item.Content # collected[i]
             /\ item.ContentTruncated => Len(item.Content) = request.chars
             /\ item.ContentStatus = "present" => ~BlankContent(collected[i])
             /\ item.ContentStatus # "present" =>
                  item.ContentTruncated \/ BlankContent(collected[i])
  <2>1. collected[i] \in Seq(Rune)
    BY <1>0, <1>1
  <2>2. snapshot.Items[i] = ItemOf(collected[i], request.chars)
    BY <1>2
  <2>. QED
    BY <2>1, <2>2, ItemTells
<1>. QED
  BY <1>1, <1>2, <1>3, <1>4 DEF TellsLoss, snapshot
=============================================================================
