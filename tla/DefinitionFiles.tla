-------------------------- MODULE DefinitionFiles --------------------------
(***************************************************************************)
(* FileSourceDefinitionRepository.List reads a directory while somebody    *)
(* else edits it: the names are met one after the other, sorted, and each  *)
(* file is opened by its name and read block by block, some time later.    *)
(* The editor replaces files by renaming a new one over them, creates and  *)
(* removes them, and may rewrite one in place.                             *)
(***************************************************************************)
EXTENDS Naturals, Sequences

CONSTANTS
  Filename,
  NameOrder,     \* the names in the order of strings.Compare
  Extension,     \* Extension[f]: filepath.Ext
  Block,         \* what one read returns
  Directory,     \* what the directory may hold at first
  Version,       \* what the editor may put under a name
  NoName,
  MaxEdits,      \* bound: how often the editor acts
  InPlace        \* whether files are ever rewritten in place

(* What is under a name: its kind, and the blocks one read each returns.   *)
(* The bytes of a link are those of the file it points to.                 *)
Kind == {"none", "file", "link", "dir"}
Entry == [kind : Kind, bytes : Seq(Block)]
Nothing == [kind |-> "none", bytes |-> <<>>]

ASSUME FilesAssumption ==
  /\ NameOrder \in Seq(Filename)
  /\ \A f \in Filename : \E i \in DOMAIN NameOrder : NameOrder[i] = f
  /\ \A i, j \in DOMAIN NameOrder : NameOrder[i] = NameOrder[j] => i = j
  /\ NoName \notin Filename
  /\ \A d \in Directory : d \in [Filename -> Entry]
  /\ \A v \in Version : v \in Entry
  /\ MaxEdits \in Nat /\ InPlace \in BOOLEAN

VARIABLES
  phase,        \* "start", "scan", "read", "listed", then the caller's
  canceled,     \* the context of the load is done
  directory,    \* directory[f]: what is under name f
  pending,      \* pending[f]: blocks a writer in place has still to write
  edits,        \* how often the editor has acted
  unscanned,    \* names ReadDir has still to come to
  found,        \* entries met: the kind of each name then
  left,         \* entries still to be read
  reading,      \* the file being read
  documents,    \* what has been read
  (* History, read by no guard. *)
  versions,     \* versions[f]: what has been under f since the start
  rewritten     \* names that were rewritten in place

listVars == <<unscanned, found, left, reading, documents>>
diskVars == <<directory, pending, edits, versions, rewritten>>
fileVars == <<phase, canceled, listVars, diskVars>>

(* An open file: once its name is given to another file or to none, the    *)
(* handle keeps what was there.                                            *)
NoFile == [name |-> NoName, detached |-> FALSE, bytes |-> <<>>, got |-> <<>>]

FilesInit ==
  /\ phase = "start"
  /\ canceled = FALSE
  /\ directory \in Directory
  /\ pending = [f \in Filename |-> <<>>]
  /\ edits = 0
  /\ unscanned = {} /\ found = [f \in {} |-> "none"] /\ left = {}
  /\ reading = NoFile
  /\ documents = <<>>
  /\ versions = [f \in Filename |-> {directory[f]}]
  /\ rewritten = {}

Listing == phase \in {"start", "scan", "read"}
-----------------------------------------------------------------------------
isYAMLFilename(f) == Extension[f] \in {".yaml", ".yml"}

(* A failure leaves the caller no documents.                               *)
Failing ==
  /\ phase' = "failed"
  /\ unscanned' = {} /\ found' = [f \in {} |-> "none"] /\ left' = {}
  /\ reading' = NoFile
  /\ documents' = <<>>
  /\ UNCHANGED <<canceled, diskVars>>

(* The context is done, the directory has no name or cannot be read.       *)
ListFail == phase \in {"start", "scan"} /\ Failing

OpenDirectory ==
  /\ phase = "start"
  /\ ~canceled
  /\ phase' = "scan"
  /\ unscanned' = Filename
  /\ UNCHANGED <<canceled, found, left, reading, documents, diskVars>>

(* os.ReadDir comes to name f: no two names need be met at one time.       *)
ScanEntry(f) ==
  /\ phase = "scan"
  /\ f \in unscanned
  /\ unscanned' = unscanned \ {f}
  /\ found' = IF directory[f].kind = "none" THEN found
              ELSE [g \in DOMAIN found \cup {f} |->
                      IF g = f THEN directory[f].kind ELSE found[g]]
  /\ UNCHANGED <<phase, canceled, left, reading, documents, diskVars>>

(* os.ReadDir returns.                                                     *)
Scanned ==
  /\ phase = "scan"
  /\ unscanned = {}
  /\ phase' = "read"
  /\ left' = DOMAIN found
  /\ UNCHANGED <<canceled, unscanned, found, reading, documents, diskVars>>

AtLoopHead == phase = "read" /\ reading = NoFile /\ left # {}

(* slices.SortFunc: the loop takes the entries by name.                    *)
Before(f, g) == \E i, j \in DOMAIN NameOrder :
                  i < j /\ NameOrder[i] = f /\ NameOrder[j] = g

Takes(f) ==
  /\ AtLoopHead
  /\ ~canceled
  /\ f \in left
  /\ \A g \in left \ {f} : Before(f, g)

StopReading == AtLoopHead /\ canceled /\ Failing

(* By the type the name had when ReadDir came to it.                       *)
Wanted(f) == found[f] = "file" /\ isYAMLFilename(f)

Skip(f) ==
  /\ Takes(f)
  /\ ~Wanted(f)
  /\ left' = left \ {f}
  /\ UNCHANGED <<phase, canceled, unscanned, found, reading, documents, diskVars>>

(* os.ReadFile opens whatever has the name by now, and follows links.      *)
Open(f) ==
  /\ Takes(f)
  /\ Wanted(f)
  /\ directory[f].kind \in {"file", "link"}
  /\ reading' = [NoFile EXCEPT !.name = f]
  /\ left' = left \ {f}
  /\ UNCHANGED <<phase, canceled, unscanned, found, documents, diskVars>>

(* Variant: a file that cannot be opened any more is passed over. *)
OpenFailsSkips(f) ==
  /\ Takes(f)
  /\ Wanted(f)
  /\ left' = left \ {f}
  /\ UNCHANGED <<phase, canceled, unscanned, found, reading, documents, diskVars>>

(* The name is gone, is a directory now, or may not be read.               *)
OpenFails(f) == Takes(f) /\ Wanted(f) /\ Failing

Reading == phase = "read" /\ reading # NoFile

(* What the handle of the open file leads to.                              *)
OnDisk == IF reading.detached THEN reading.bytes
          ELSE directory[reading.name].bytes

AtEnd == Len(reading.got) >= Len(OnDisk)

ReadBlock ==
  /\ Reading
  /\ ~AtEnd
  /\ reading' = [reading EXCEPT !.got = Append(@, OnDisk[Len(@) + 1])]
  /\ UNCHANGED <<phase, canceled, unscanned, found, left, documents, diskVars>>

ReadFails == Reading /\ Failing

(* External: SHA-256 is taken to be free of collisions.                    *)
Sum256(bytes) == <<"sha256", bytes>>

(* Variant: the digest is of the file as it is found by then. *)
DocumentHashedAgain ==
  [Key |-> reading.name, Content |-> reading.got,
   Revision |-> Sum256(directory[reading.name].bytes)]

Document ==
  [Key |-> reading.name, Content |-> reading.got,
   Revision |-> Sum256(reading.got)]

Listed ==
  /\ Reading
  /\ AtEnd
  /\ documents' = Append(documents, Document)
  /\ reading' = NoFile
  /\ UNCHANGED <<phase, canceled, unscanned, found, left, diskVars>>

ListDone ==
  /\ phase = "read" /\ reading = NoFile /\ left = {}
  /\ phase' = "listed"
  /\ UNCHANGED <<canceled, listVars, diskVars>>

ListStep ==
  \/ OpenDirectory \/ ListFail
  \/ \E f \in Filename : ScanEntry(f) \/ Skip(f) \/ Open(f) \/ OpenFails(f)
  \/ Scanned \/ StopReading
  \/ ReadBlock \/ ReadFails \/ Listed \/ ListDone
-----------------------------------------------------------------------------
(* The editor, for as long as anybody looks.                               *)

MayEdit(f) == Listing /\ edits < MaxEdits /\ pending[f] = <<>>

(* Another file takes the name, or none does.                              *)
Rename(f, entry) ==
  /\ directory' = [directory EXCEPT ![f] = entry]
  /\ versions' = [versions EXCEPT ![f] = @ \cup {entry}]
  /\ reading' = IF reading.name = f /\ ~reading.detached
                THEN [reading EXCEPT !.detached = TRUE,
                                     !.bytes = directory[f].bytes]
                ELSE reading
  /\ edits' = edits + 1
  /\ UNCHANGED <<phase, canceled, unscanned, found, left, documents, pending,
                 rewritten>>

Put(f, entry) == MayEdit(f) /\ entry # directory[f] /\ Rename(f, entry)

Unlink(f) == MayEdit(f) /\ directory[f] # Nothing /\ Rename(f, Nothing)

(* The file is truncated, then written block by block.                     *)
Rewrite(f, entry) ==
  /\ InPlace
  /\ MayEdit(f)
  /\ directory[f].kind = "file" /\ entry.kind = "file"
  /\ directory' = [directory EXCEPT ![f].bytes = <<>>]
  /\ pending' = [pending EXCEPT ![f] = entry.bytes]
  /\ versions' = [versions EXCEPT ![f] = @ \cup {entry}]
  /\ rewritten' = rewritten \cup {f}
  /\ edits' = edits + 1
  /\ UNCHANGED <<phase, canceled, listVars>>

WriteBlock(f) ==
  /\ Listing
  /\ pending[f] # <<>>
  /\ directory' = [directory EXCEPT ![f].bytes = Append(@, Head(pending[f]))]
  /\ pending' = [pending EXCEPT ![f] = Tail(@)]
  /\ UNCHANGED <<phase, canceled, listVars, edits, versions, rewritten>>

Edit ==
  \E f \in Filename :
    \/ \E entry \in Version : Put(f, entry) \/ Rewrite(f, entry)
    \/ Unlink(f) \/ WriteBlock(f)
-----------------------------------------------------------------------------
FilesTypeOK ==
  /\ canceled \in BOOLEAN
  /\ directory \in [Filename -> Entry]
  /\ pending \in [Filename -> Seq(Block)]
  /\ edits \in 0..MaxEdits
  /\ unscanned \subseteq Filename
  /\ DOMAIN found \subseteq Filename
  /\ left \subseteq Filename
  /\ reading \in [name : Filename \cup {NoName}, detached : BOOLEAN,
                  bytes : Seq(Block), got : Seq(Block)]
  /\ Len(documents) \in Nat
  /\ versions \in [Filename -> SUBSET Entry]
  /\ rewritten \subseteq Filename

(* For the proofs: unless a file is rewritten in place, what is open, and  *)
(* what was read, are one version of it.                                   *)
OneVersion(f, bytes) ==
  f \notin rewritten => \E v \in versions[f] : v.bytes = bytes

FilesInv ==
  /\ \A f \in Filename \ rewritten :
       directory[f] \in versions[f] /\ pending[f] = <<>>
  /\ reading.name = NoName => reading = NoFile
  /\ reading.name \in Filename \ rewritten =>
       /\ OneVersion(reading.name, OnDisk)
       /\ Len(reading.got) <= Len(OnDisk)
       /\ \A i \in DOMAIN reading.got : reading.got[i] = OnDisk[i]
  /\ \A i \in DOMAIN documents :
       /\ documents[i].Key \in Filename
       /\ documents[i].Revision = Sum256(documents[i].Content)
       /\ OneVersion(documents[i].Key, documents[i].Content)
=============================================================================
