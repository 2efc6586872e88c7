------------------------- MODULE QueryServerProofs -------------------------
(***************************************************************************)
(* What the query server guarantees for every catalog, every number of     *)
(* clients and every collection: its catalog is all or nothing, what it    *)
(* lists is that catalog, and no snapshot hides a loss.                    *)
(***************************************************************************)
EXTENDS QueryServer, QueryCatalogProofs

(* What a call has when its collector is asked and when it has answered.   *)
Calls ==
  /\ pc \in [Client -> {"idle", "called", "collecting", "collected"}]
  /\ DOMAIN call = Client /\ DOMAIN items = Client /\ DOMAIN answer = Client
  /\ \A c \in Client :
       /\ pc[c] \in {"collecting", "collected"} => GoodLimits(call[c])
       /\ pc[c] = "collected" => items[c] \in Seq(Seq(Rune))

(* Limits are checked before a collector is asked, and what it answers is  *)
(* a sequence of contents (service.go:110-129).                            *)
LEMMA CallsHold == Spec => []Calls
PROOF
<1>1. Init => Calls
  BY DEF Init, CallInit, Calls
<1>2. Calls /\ [Next]_vars => Calls'
  <2> SUFFICES ASSUME Calls, [Next]_vars PROVE Calls'
    OBVIOUS
  <2> USE ServiceAssumption DEF Calls, GoTo, Finish
  <2>1. CASE UNCHANGED callVars
    BY <2>1 DEF callVars, GoodLimits
  <2>2. ASSUME NEW c \in Client, NEW id, NEW n, NEW m, CollectSource(c, id, n, m)
        PROVE  Calls'
    BY <2>2 DEF CollectSource, GoodLimits
  <2>3. ASSUME NEW c \in Client, ListSources(c) \/ End(c) PROVE Calls'
    BY <2>3 DEF ListSources, End, GoodLimits
  <2>4. ASSUME NEW c \in Client, NEW collected \in Collected,
               CollectorReturns(c, collected)
        PROVE  Calls'
    BY <2>4 DEF CollectorReturns, GoodLimits
  <2>5. ASSUME NEW c \in Client, StartCollector(c) PROVE Calls'
    BY <2>5 DEF StartCollector, GoodLimits
  <2>6. ASSUME NEW c \in Client, NEW result, Finish(c, result) PROVE Calls'
    BY <2>6 DEF GoodLimits
  <2>. QED
    BY <2>1, <2>2, <2>3, <2>4, <2>5, <2>6
       DEF Next, Serving, Handle, CollectorFails, Refuse, Discard, Reply, vars
<1>. QED
  BY <1>1, <1>2, PTL DEF Spec

(* Only the last step of a call leaves a snapshot (service.go:140-182).    *)
LEMMA AnswersByReply ==
  ASSUME Calls, Next, NEW c \in Client,
         pc[c] # "idle", pc'[c] = "idle", answer'[c].status = "ok"
  PROVE  Reply(c)
PROOF
<1> USE DEF Calls, GoTo
<1>1. PICK d \in Client : Serving(d) \/ Handle(d)
  BY DEF Next, callVars
<1>2. d = c
  BY <1>1 DEF Serving, Handle, CollectSource, ListSources, End, Finish,
     CollectorReturns, CollectorFails, Refuse, StartCollector, Discard, Reply
<1>3. ~Finish(c, Error)
  BY DEF Finish, Error
<1>. QED
  BY <1>1, <1>2, <1>3 DEF Serving, Handle, CollectSource, ListSources, End,
     CollectorReturns, CollectorFails, Refuse, StartCollector, Discard

(* No snapshot hides a loss (service.go:140-182).                          *)
THEOREM SnapshotsTellTheirLoss == Spec => SnapshotTellsLoss
PROOF
<1>1. Calls /\ [Next]_vars =>
        [\A c \in Client : pc[c] # "idle" /\ pc'[c] = "idle"
                           /\ answer'[c].status = "ok" =>
           TellsLoss(items[c], call[c], answer'[c])]_vars
  <2> SUFFICES ASSUME Calls, Next, NEW c \in Client,
                      pc[c] # "idle", pc'[c] = "idle", answer'[c].status = "ok"
               PROVE  TellsLoss(items[c], call[c], answer'[c])
    OBVIOUS
  <2>4. Reply(c)
    BY AnswersByReply
  <2>5. /\ answer'[c] = Snapshot(Lookup(call[c].id), items[c], call[c])
        /\ items[c] \in Seq(Seq(Rune))
        /\ call[c].items \in Nat /\ call[c].chars \in Nat
    BY <2>4, ServiceAssumption DEF Calls, Reply, Finish, GoodLimits
  <2>. QED
    BY <2>5, SnapshotTells
<1>. QED
  BY <1>1, CallsHold, PTL DEF Spec, SnapshotTellsLoss

(* To the catalog, the server is somebody who loads it: its calls leave it *)
(* alone (main.go:30-38, catalog.go:46).                                   *)
LEMMA ServerLoads == Spec => CatalogSpec
PROOF
<1>1. Init => CatalogInit
  BY DEF Init
<1>2. [Next]_vars => [CatalogNext]_catalogVars
  BY DEF Next, vars, Serving, Handle, CollectSource, ListSources, End, Finish,
     CollectorReturns, CollectorFails, Refuse, StartCollector, Discard, Reply
<1>. QED
  BY <1>1, <1>2, PTL DEF Spec, CatalogSpec

(* The server's catalog is the whole catalog or none (catalog.go:74-111).  *)
THEOREM ServedWholeOrNotAtAll == Spec => []AllOrNothing
  BY ServerLoads, WholeOrNone

(* What the server serves carries the settings and the revision of the     *)
(* same bytes (file_repository.go:57-68, catalog.go:100-104).              *)
THEOREM ServedFitsBytes == Spec => []DefinitionsAreExact
  BY ServerLoads, DefinitionsFitTheirBytes

(* Nothing that was met as a definition file while the server starts is    *)
(* passed over, and files nobody touches are served as they are            *)
(* (file_repository.go:44-69).                                             *)
THEOREM ServesFiles == Spec => []FilesServed
  BY ServerLoads, FilesAreServed

(* If the decoder, the schema and the validator take each content as it    *)
(* was meant, the server serves what was meant and refuses only for a      *)
(* cause (catalog.go:74-112).                                              *)
THEOREM ServedAsMeant ==
  ASSUME ContentsFit
  PROVE  Spec => CatalogFitsIntent
  BY ServerLoads, CatalogsFitIfContentsDo
-----------------------------------------------------------------------------
(* Where an answer comes from: nothing is answered before the catalog      *)
(* serves, a collector is asked for a source that was found, and the       *)
(* answers that are around tell of definitions of the catalog.             *)
Answers ==
  \A c \in Client :
    /\ pc[c] # "idle" => phase = "serving"
    /\ pc[c] \in {"collecting", "collected"} => call[c].id \in Loaded
    /\ answer[c].status = "list" =>
         phase = "serving" /\ answer[c] = CatalogResult
    /\ answer[c].status = "ok" =>
         /\ phase = "serving"
         /\ \E k \in DOMAIN definitions :
              answer[c].Source = Descriptor(definitions[k])

(* What answers tell depends on the definitions alone.                     *)
LEMMA SameCatalog ==
  ASSUME UNCHANGED definitions
  PROVE  /\ Loaded' = Loaded /\ CatalogResult' = CatalogResult
         /\ \A k \in DOMAIN definitions :
              Descriptor(definitions[k])' = Descriptor(definitions[k])
  BY DEF Loaded, CatalogResult, Definitions, Lookup, Place, Descriptor

(* What a call does with the answers, whoever makes it                     *)
(* (service.go:90-117, server.go:54-90).                                   *)
LEMMA CallAnswers ==
  ASSUME Calls, Answers, NEW c \in Client, Serving(c) \/ Handle(c)
  PROVE  Answers'
PROOF
<1> USE DEF Calls, Answers, GoTo
<1>1. ASSUME UNCHANGED catalogVars
      PROVE  /\ UNCHANGED <<phase, definitions>>
             /\ Loaded' = Loaded /\ CatalogResult' = CatalogResult
             /\ \A k \in DOMAIN definitions :
                  Descriptor(definitions[k])' = Descriptor(definitions[k])
  BY <1>1, SameCatalog DEF catalogVars, fileVars
<1>2. ASSUME NEW id, NEW n, NEW m, CollectSource(c, id, n, m) PROVE Answers'
  BY <1>1, <1>2 DEF CollectSource, Error
<1>3. CASE ListSources(c)
  <2>1. /\ phase = "serving" /\ UNCHANGED <<catalogVars, pc, call>>
        /\ answer' = [answer EXCEPT ![c] = CatalogResult]
    BY <1>3 DEF ListSources
  <2>2. CatalogResult.status = "list"
    BY DEF CatalogResult
  <2>. QED
    BY <1>1, <2>1, <2>2
<1>4. CASE End(c)
  BY <1>1, <1>4 DEF End
<1>5. ASSUME NEW collected, CollectorReturns(c, collected) PROVE Answers'
  BY <1>1, <1>5 DEF CollectorReturns
<1>6. CASE StartCollector(c)
  BY <1>1, <1>6 DEF StartCollector
<1>7. CASE Finish(c, Error)
  BY <1>1, <1>7 DEF Finish, Error
<1>8. CASE Reply(c)
  <2> DEFINE snapshot == Snapshot(Lookup(call[c].id), items[c], call[c])
  <2>1. /\ phase = "serving" /\ call[c].id \in Loaded
        /\ UNCHANGED catalogVars
        /\ answer' = [answer EXCEPT ![c] = snapshot]
        /\ pc' = [pc EXCEPT ![c] = "idle"]
        /\ call' = [call EXCEPT ![c] = NoCall]
    BY <1>8 DEF Reply, Finish
  <2>2. snapshot.status = "ok" /\ snapshot.Source = Descriptor(Lookup(call[c].id))
    BY DEF Snapshot
  <2>3. \E k \in DOMAIN definitions : snapshot.Source = Descriptor(definitions[k])
    BY <2>1, <2>2, LookupFinds
  <2> HIDE DEF snapshot
  <2>. QED
    BY <1>1, <2>1, <2>2, <2>3
<1>. QED
  BY <1>2, <1>3, <1>4, <1>5, <1>6, <1>7, <1>8
     DEF Serving, Handle, CollectorFails, Refuse, Discard

(* While the catalog is loaded nobody has an answer, and once it serves it *)
(* stays what the answers tell (catalog.go:46, service.go:107-117).        *)
LEMMA CatalogAnswers ==
  ASSUME Answers, CatalogNext, UNCHANGED callVars
  PROVE  Answers'
PROOF
<1>1. phase = "serving" => UNCHANGED <<phase, definitions>>
  BY ServingStays DEF CatalogNext, CancelLoad, Loading, Listing
<1>2. CASE phase = "serving"
  <2>1. /\ Loaded' = Loaded /\ CatalogResult' = CatalogResult
        /\ \A k \in DOMAIN definitions :
             Descriptor(definitions[k])' = Descriptor(definitions[k])
    BY <1>1, <1>2, SameCatalog
  <2>. QED
    BY <1>1, <1>2, <2>1 DEF Answers, callVars
<1>3. CASE phase # "serving"
  BY <1>3 DEF Answers, callVars
<1>. QED
  BY <1>2, <1>3

(* So the answers are always of the catalog (service.go:90-117).           *)
LEMMA AnswersHold == Spec => []Answers
PROOF
<1>1. Init => Answers
  BY DEF Init, CallInit, Answers, Error
<1>2. Calls /\ Answers /\ [Next]_vars => Answers'
  <2> SUFFICES ASSUME Calls, Answers, [Next]_vars PROVE Answers'
    OBVIOUS
  <2>1. CASE UNCHANGED vars
    BY <2>1, SameCatalog DEF vars, callVars, catalogVars, fileVars, Answers
  <2>. QED
    BY <2>1, CallAnswers, CatalogAnswers DEF Next
<1>. QED
  BY <1>1, <1>2, CallsHold, PTL DEF Spec

(* A snapshot comes within the deadline of its call, within limits that    *)
(* were checked, and is of the source asked for (service.go:110-137).      *)
THEOREM SnapshotsAnswerCalls == Spec => SnapshotAnswersCall
PROOF
<1>1. Calls /\ Answers /\ [Next]_vars =>
        [\A c \in Client : pc[c] # "idle" /\ pc'[c] = "idle"
                           /\ answer'[c].status = "ok" =>
           /\ ~done[c] /\ GoodLimits(call[c])
           /\ answer'[c].Source.ID = call[c].id
           /\ \E k \in DOMAIN definitions :
                answer'[c].Source = Descriptor(definitions[k])]_vars
  <2> SUFFICES ASSUME Calls, Answers, Next, NEW c \in Client,
                      pc[c] # "idle", pc'[c] = "idle", answer'[c].status = "ok"
               PROVE  /\ ~done[c] /\ GoodLimits(call[c])
                      /\ answer'[c].Source.ID = call[c].id
                      /\ \E k \in DOMAIN definitions :
                           answer'[c].Source = Descriptor(definitions[k])
    OBVIOUS
  <2>1. Reply(c)
    BY AnswersByReply
  <2>2. /\ ~done[c] /\ GoodLimits(call[c]) /\ call[c].id \in Loaded
        /\ answer'[c] = Snapshot(Lookup(call[c].id), items[c], call[c])
    BY <2>1 DEF Reply, Finish, Calls, Answers
  <2>3. answer'[c].Source = Descriptor(Lookup(call[c].id))
    BY <2>2 DEF Snapshot
  <2>4. PICK k \in DOMAIN definitions :
          definitions[k].Config.ID = call[c].id
          /\ Lookup(call[c].id) = definitions[k]
    BY <2>2, LookupFinds
  <2>. QED
    BY <2>2, <2>3, <2>4 DEF Descriptor
<1>. QED
  BY <1>1, CallsHold, AnswersHold, PTL DEF Spec, SnapshotAnswersCall

(* What list_sources tells is the whole catalog, each definition once, in  *)
(* the order of IDs and with the revision that snapshots carry             *)
(* (service.go:107-117, catalog.go:108-132).                               *)
THEOREM ListingIsWhole == Spec => []ListingIsTheCatalog
PROOF
<1>1. FullInv /\ Answers => ListingIsTheCatalog
  <2> SUFFICES ASSUME FullInv, Answers, NEW c \in Client,
                      answer[c].status = "list"
               PROVE  LET sources == answer[c].Sources IN
                      /\ Len(sources) = Len(documents)
                      /\ \A i, j \in DOMAIN sources : i < j =>
                           IDBefore(sources[i].ID, sources[j].ID)
                      /\ \A i \in DOMAIN sources :
                           \E j \in DOMAIN documents :
                             /\ sources[i].DefinitionRevision =
                                  documents[j].Revision
                             /\ \E config \in
                                     ParseSourceConfig(documents[j].Content) :
                                  config.ID = sources[i].ID
                      /\ \A other \in Client : answer[other].status = "ok" =>
                           \E i \in DOMAIN sources :
                             sources[i] = answer[other].Source
    BY DEF ListingIsTheCatalog
  <2> DEFINE sources == answer[c].Sources
             D == DOMAIN definitions
  <2>1. phase = "serving" /\ sources = CatalogResult.Sources
    BY DEF Answers
  <2>2. /\ DOMAIN sources = DOMAIN Definitions
        /\ \A i \in DOMAIN Definitions : sources[i] = Descriptor(Definitions[i])
    BY <2>1 DEF CatalogResult
  <2>3. DOMAIN sources = D /\ \A i \in D : sources[i] = Descriptor(Definitions[i])
    BY <2>2, DefinitionsAreSorted
  <2> HIDE DEF sources
  <2>4. Len(sources) = Len(documents)
    <3>1. Len(definitions) = Len(documents) /\ definitions \in Seq(DefinitionSet)
      BY <2>1 DEF FullInv, IInv, CatalogInv, InSequence
    <3>2. D = 1..Len(definitions) /\ Len(definitions) \in Nat
      BY <3>1, LenProperties
    <3>3. sources = [i \in 1..Len(definitions) |-> sources[i]]
      BY <2>1, <2>3, <3>2 DEF sources, CatalogResult
    <3>. QED
      BY <3>1, <3>2, <3>3
  <2>5. \A i, j \in D : i < j => IDBefore(sources[i].ID, sources[j].ID)
    <3>1. \A i \in D : sources[i].ID = Definitions[i].Config.ID
      BY <2>3 DEF Descriptor
    <3>2. \A i, j \in D : i < j =>
            IDBefore(Definitions[i].Config.ID, Definitions[j].Config.ID)
      BY DefinitionsAreSorted
    <3>. QED
      BY <3>1, <3>2, Zenon
  <2>6. ASSUME NEW i \in D
        PROVE  \E j \in DOMAIN documents :
                 /\ sources[i].DefinitionRevision = documents[j].Revision
                 /\ \E config \in ParseSourceConfig(documents[j].Content) :
                      config.ID = sources[i].ID
    <3>1. PICK k \in D : Definitions[i] = definitions[k]
      BY DefinitionsAreSorted
    <3>2. /\ sources[i].ID = definitions[k].Config.ID
          /\ sources[i].DefinitionRevision = definitions[k].DefinitionRevision
      BY <2>3, <3>1 DEF Descriptor
    <3>. QED
      BY <3>2 DEF FullInv, IInv, CatalogInv
  <2>7. ASSUME NEW other \in Client, answer[other].status = "ok"
        PROVE  \E i \in D : sources[i] = answer[other].Source
    <3>1. PICK k \in D : answer[other].Source = Descriptor(definitions[k])
      BY <2>7 DEF Answers
    <3>2. PICK i \in D : Definitions[i] = definitions[k]
      BY DefinitionsAreSorted
    <3>. QED
      BY <2>3, <3>1, <3>2
  <2>. QED
    BY <2>3, <2>4, <2>5, <2>6, <2>7 DEF sources
<1>. QED
  BY <1>1, AnswersHold, ServerLoads, Invariance, PTL DEF FullInv
=============================================================================
