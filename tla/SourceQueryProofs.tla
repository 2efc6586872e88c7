------------------------- MODULE SourceQueryProofs -------------------------
(***************************************************************************)
(* What the command source-query guarantees for every directory, every     *)
(* way to edit it, every set of arguments and every collection: its exit   *)
(* code and its output tell what happened, and what it answers from is     *)
(* the catalog whole or none of it.                                        *)
(***************************************************************************)
EXTENDS SourceQuery, QueryCatalogProofs

(* What is true of the catalog while the command loads it and after.       *)
LoadInv == FullInv /\ ListingInv

(* To the catalog the command is somebody who loads it, under a context    *)
(* that may also end later (main.go:63-85).                                *)
LEMMA CatalogStep ==
  ASSUME LoadInv, [Next]_vars
  PROVE  LoadInv'
PROOF
<1>1. ASSUME [CatalogNext]_catalogVars PROVE LoadInv'
  BY <1>1, StepPreserves, ListingStep DEF LoadInv, FullInv
<1>2. CASE Load \/ Edits
  <2>1. CatalogNext
    BY <1>2 DEF Load, Edits, CatalogNext
  <2>. QED
    BY <1>1, <2>1
<1>3. CASE EndContext
  BY <1>3, ContextEnds DEF EndContext, Ends, LoadInv
<1>4. CASE UNCHANGED catalogVars
  BY <1>1, <1>4
<1>. QED
  BY <1>2, <1>3, <1>4
     DEF Next, Code, RefuseFlags, AcceptFlags, RefuseConfig, FindSource,
         RefuseCollection, StartCollector, CollectorReturns, CollectorFails,
         Discard, Keep, EncodeFails, Encode, ExitWith, vars

(* So its catalog is what the theorems on the catalog say.                 *)
LEMMA CatalogHolds == Spec => []LoadInv
PROOF
<1>1. Init => LoadInv
  BY InitEstablishes, ListingBegins DEF Init, LoadInv
<1>2. LoadInv /\ [Next]_vars => LoadInv'
  BY CatalogStep
<1>. QED
  BY <1>1, <1>2, PTL DEF Spec

(* The command never answers from half a catalog (catalog.go:74-111).      *)
THEOREM CommandWholeOrNone == Spec => []AllOrNothing
  BY CatalogHolds, WholeOrNoneNow, PTL DEF LoadInv, FullInv

(* Nor from a configuration and a revision of different bytes              *)
(* (file_repository.go:57-68).                                             *)
THEOREM CommandFitsBytes == Spec => []DefinitionsAreExact
  BY CatalogHolds, ExactNow, PTL DEF LoadInv, FullInv

(* Whatever is edited while the command loads, nothing that was met as a   *)
(* definition file is passed over, and untouched files are in its catalog  *)
(* as they are (file_repository.go:44-69).                                 *)
THEOREM CommandServesFiles == Spec => []FilesServed
  BY CatalogHolds, ServedNow, PTL DEF LoadInv, FullInv
-----------------------------------------------------------------------------
Asking == {"ask", "collecting", "collected", "encode"}

(* Where the command stands: what it has checked by then, and which exit   *)
(* it may have taken from there.                                           *)
RunInv ==
  /\ pc \in {"flags", "load", "exited"} \cup Asking
  /\ items \in Seq(Seq(Rune))
  /\ pc # "exited" => exit = Running /\ stdout = NoOutput
  /\ pc = "exited" => exit \in {exitOK, exitRuntime, exitConfig}
  /\ pc \in {"flags", "load", "ask"} => ~asked
  /\ pc \in {"collecting", "collected", "encode"} => asked
  /\ pc = "load" \/ pc \in Asking => GoodLimits(args)
  /\ pc \in Asking => Found
  /\ exit = exitConfig => ~asked /\ stdout = NoOutput
  /\ exit = exitRuntime => /\ Found /\ GoodLimits(args)
                           /\ stdout \in {NoOutput, PartOutput}
  /\ exit = exitOK => /\ asked /\ Found /\ GoodLimits(args)
                      /\ stdout = Snapshot(Lookup(args.id), items, args)

(* The codes and the outputs are told apart.                               *)
LEMMA Codes ==
  /\ exitOK # exitRuntime /\ exitOK # exitConfig /\ exitRuntime # exitConfig
  /\ Running \notin {exitOK, exitRuntime, exitConfig}
  /\ NoOutput.status # "ok" /\ PartOutput.status # "ok"
  /\ \A d, c, r : Snapshot(d, c, r).status = "ok"
  BY DEF exitOK, exitRuntime, exitConfig, Running, NoOutput, PartOutput, Snapshot

(* A source once found stays found and what it is (catalog.go:46).         *)
LEMMA FoundStays ==
  ASSUME UNCHANGED catalogVars \/ Load \/ Edits \/ EndContext,
         Found, args' = args
  PROVE  Found' /\ Lookup(args.id)' = Lookup(args.id)
PROOF
<1>1. phase = "serving" /\ args.id \in Loaded
  BY DEF Found
<1>2. UNCHANGED <<phase, definitions>>
  BY <1>1, ServingStays
     DEF Load, Edits, EndContext, Ends, catalogVars, fileVars
<1>. QED
  BY <1>1, <1>2 DEF Found, Loaded, Lookup

(* No step breaks it (main.go:38-92, service.go:119-182).                  *)
LEMMA RunStep ==
  ASSUME RunInv, [Next]_vars
  PROVE  RunInv'
PROOF
<1> USE Codes DEF RunInv, Asking
<1>1. CASE RefuseFlags \/ RefuseConfig
  BY <1>1 DEF RefuseFlags, RefuseConfig, ExitWith
<1>2. CASE AcceptFlags
  BY <1>2 DEF AcceptFlags, GoTo, GoodFlags, GoodLimits
<1>3. CASE Load
  BY <1>3 DEF Load, runVars, GoodLimits
<1>4. CASE EndContext \/ Edits \/ UNCHANGED vars
  <2>1. UNCHANGED runVars
    BY <1>4 DEF EndContext, Ends, Edits, vars
  <2>2. Found => Found' /\ Lookup(args.id)' = Lookup(args.id)
    BY <1>4, <2>1, FoundStays DEF vars, runVars
  <2>. QED
    BY <2>1, <2>2 DEF runVars, GoodLimits, Snapshot
<1>5. ASSUME UNCHANGED catalogVars, UNCHANGED args
      PROVE  /\ Found => Found' /\ Lookup(args.id)' = Lookup(args.id)
             /\ GoodLimits(args)' <=> GoodLimits(args)
  BY <1>5, FoundStays DEF GoodLimits
<1>6. CASE FindSource
  <2>1. Found /\ GoodLimits(args) /\ UNCHANGED <<catalogVars, args>>
    BY <1>6 DEF FindSource, GoTo
  <2>. QED
    BY <1>5, <1>6, <2>1 DEF FindSource, GoTo
<1>7. CASE RefuseCollection \/ CollectorFails \/ Discard \/ EncodeFails
  <2>1. /\ pc \in Asking /\ UNCHANGED <<catalogVars, args, items>>
        /\ pc' = "exited" /\ exit' = exitRuntime
        /\ stdout' \in {NoOutput, PartOutput}
    BY <1>7 DEF RefuseCollection, CollectorFails, Discard, EncodeFails, ExitWith
  <2>. QED
    BY <1>5, <2>1
<1>8. CASE StartCollector
  BY <1>5, <1>8 DEF StartCollector
<1>9. ASSUME NEW collected \in Collected, CollectorReturns(collected)
      PROVE  RunInv'
  BY <1>5, <1>9, ServiceAssumption DEF CollectorReturns
<1>10. CASE Keep
  BY <1>5, <1>10 DEF Keep, GoTo
<1>11. CASE Encode
  <2> DEFINE snapshot == Snapshot(Lookup(args.id), items, args)
  <2>1. /\ pc = "encode" /\ UNCHANGED <<catalogVars, args, items, asked>>
        /\ pc' = "exited" /\ exit' = exitOK
        /\ stdout' = snapshot
    BY <1>11 DEF Encode, ExitWith
  <2>2. snapshot' = snapshot
    <3>1. Lookup(args.id)' = Lookup(args.id)
      BY <1>5, <2>1
    <3>. QED
      BY <2>1, <3>1 DEF Snapshot
  <2> HIDE DEF snapshot
  <2>3. stdout' = snapshot'
    BY <2>1, <2>2
  <2>. QED
    BY <1>5, <2>1, <2>3 DEF snapshot
<1>. QED
  BY <1>1, <1>2, <1>3, <1>4, <1>6, <1>7, <1>8, <1>9, <1>10, <1>11
     DEF Next, Code

(* The inductive invariant of a run of the command (main.go:38-92).        *)
THEOREM RunInvariance == Spec => []RunInv
PROOF
<1>1. Init => RunInv
  BY Codes DEF Init, RunInv, Asking
<1>2. RunInv /\ [Next]_vars => RunInv'
  BY RunStep
<1>. QED
  BY <1>1, <1>2, PTL DEF Spec

(* The exit code and the output tell a caller what happened: 0 with a      *)
(* whole snapshot of the source asked for and never otherwise, 2 before    *)
(* anything was collected, 1 for a source that was found and could not be  *)
(* queried (main.go:38-92, service.go:119-182).                            *)
THEOREM ExitsTell == Spec => []ExitTells
PROOF
<1>1. LoadInv /\ RunInv => ExitTells
  <2> SUFFICES ASSUME LoadInv, RunInv PROVE ExitTells
    OBVIOUS
  <2> USE Codes DEF RunInv
  <2>1. exit = Running <=> pc # "exited"
    OBVIOUS
  <2>2. stdout.status = "ok" <=> exit = exitOK
    OBVIOUS
  <2>3. ASSUME exit = exitOK
        PROVE  /\ asked
               /\ stdout.Source.ID = args.id
               /\ TellsLoss(items, args, stdout)
               /\ \E i \in DOMAIN documents :
                    /\ stdout.Source.DefinitionRevision = documents[i].Revision
                    /\ \E config \in ParseSourceConfig(documents[i].Content) :
                         config.ID = args.id
    <3>1. /\ asked /\ args.id \in Loaded
          /\ stdout = Snapshot(Lookup(args.id), items, args)
      BY <2>3 DEF Found
    <3>2. args.items \in Nat /\ args.chars \in Nat
      BY <2>3, ServiceAssumption DEF GoodLimits
    <3>3. TellsLoss(items, args, stdout)
      BY <3>1, <3>2, SnapshotTells
    <3>4. PICK k \in DOMAIN definitions :
            Lookup(args.id) = definitions[k] /\ definitions[k].Config.ID = args.id
      BY <3>1, LookupFinds
    <3>5. /\ stdout.Source.ID = args.id
          /\ stdout.Source.DefinitionRevision = definitions[k].DefinitionRevision
      BY <3>1, <3>4 DEF Snapshot, Descriptor
    <3>6. /\ k \in DOMAIN documents
          /\ definitions[k].Config \in ParseSourceConfig(documents[k].Content)
          /\ definitions[k].DefinitionRevision = documents[k].Revision
      BY DEF LoadInv, FullInv, IInv, CatalogInv
    <3>. QED
      BY <3>1, <3>3, <3>4, <3>5, <3>6
  <2>4. exit = exitConfig => ~asked /\ stdout = NoOutput
    OBVIOUS
  <2>5. exit = exitRuntime => /\ args.id \in Loaded
                              /\ args.items \in GoodItems
                              /\ args.chars \in GoodChars
    BY DEF Found, GoodLimits
  <2>. QED
    BY <2>1, <2>2, <2>3, <2>4, <2>5 DEF ExitTells
<1>. QED
  BY <1>1, CatalogHolds, RunInvariance, PTL
=============================================================================
