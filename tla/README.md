# signal-watch in TLA+

signal-watch collects items from configured web sources, tells new items from
old ones, and sends the new ones to Telegram; a second, read-only side answers
queries about the sources. This directory models that code in TLA+, checks the
models with TLC and proves the main results with TLAPS. Paths below are
relative to `src/internal/` unless they start with `src/`.

## The system

| part | code | state it keeps | operations |
| --- | --- | --- | --- |
| delivery pipeline | `application/pipeline.go`, `monitoring/processor.go` | the `run` guard; the locals of a run | `RunOnce`, `ProcessSuccessfulCollection` |
| state store | `state/store.go`, `state/memory.go` | initialized sources, seen keys per source, a `RWMutex` | `IsSourceInitialized`, `EstablishBaseline`, `HasItem`, `MarkItemSeen` |
| item identity | `itemkey/builder.go`, `source/monitor_item.go` | none | `Build` |
| html source | `source/html` | none; a response body per call | `Adapter.Collect` (settings, fetch, extract) |
| runner, registry | `source/runner.go`, `source/registry.go` | adapters by type | `Run`, `Register`, `Lookup` |
| source definitions | `config`, `source/html/settings.go` | none; reads a directory others edit | `List`, `Decode`, `ParseSourceConfig`, the html validator |
| query catalog and service | `query` | the catalog, immutable once loaded | `LoadCatalog`, `Lookup`, `Service.Collect` |
| MCP server | `querymcp/server.go`, `src/cmd/signalwatch-mcp` | none of its own | `list_sources`, `collect_source` |
| Telegram notifier | `notification/telegram` | none | `Render`, `Send` |
| commands | `src/cmd/source-query`, `src/cmd/telegram-smoke` | none | one query; one test message |

How they interact. `RunOnce` calls the collector (the runner, which looks up an
adapter, which is the html source), hands the items to the processor, which
asks `itemkey.Build` for keys and the store what is new, and then calls the
sender and the store once per new item, in order. Several pipelines may share a
store; each has its own guard. The query side shares only the sources with it:
it never touches the store or the sender.

What is hard about it, and what makes each part correct:

* *Pipeline.* Callers overlap, a context may end between any two calls, each
  stage may fail for one item and not for the next. The silent baseline stays
  silent; nothing is recorded as seen that was not delivered or learnt
  silently; a nil result means that nothing is left over; one bad item does
  not block the rest; the guard is always given back.
* *Store.* Every operation looks at the context twice, once before the lock and
  once under it, and a baseline is written key by key. To every observer an
  operation happens at one instant or not at all, and one call wins a baseline.
* *Identity.* The key falls back through four kinds of identity. It changes
  exactly when the identity changes.
* *Html source.* A response body is closed on every path, a page is taken whole
  or not at all, links are resolved against the address that answered.
* *Registry.* Registrations, lookups and runs may come from any goroutine, and
  a run collects after it has let go of the lock. An entry is never replaced.
* *Definitions.* The directory is read name by name and block by block while
  somebody edits it, with nothing to hold it still. A served definition is one
  version of its file, with the revision of exactly those bytes; decoder,
  schema and validator together accept what an author means and no more.
* *Catalog and queries.* One bad document leaves no catalog; a snapshot flags
  whatever it leaves out; a hanging collector ends with the call's deadline;
  what the command writes and its exit code agree.
* *Telegram.* The limit is in UTF-16 units, the cut is at a rune, one unit is
  for the ellipsis. One call submits at most once.

`PROJECT.json` lists these hazards line by line with the properties that cover
them.

## Modules

```
DeliveryContract   what delivery promises       <-- implemented by --  Pipeline
AtomicStore        an atomic, shared store      <-- implemented by --  MemoryStateStore
StateStore         the store's operations; extended by Pipeline,
                   AtomicStore and MemoryStateStore
ItemKey            itemkey.Build; used by MCPipeline, HTMLSource, ItemRevisions
ItemRevisions      an item that is revised and collected again
HTMLSource         Adapter.Collect, one call after another
AtomicRegistry     a write-once registry       <-- implemented by --  AdapterRegistry
SourceDefinition   decoder, schema, html validator: functions of a value tree
DefinitionFiles    List, over a directory that is edited
QueryCatalog       LoadCatalog; extends SourceDefinition and DefinitionFiles
QueryService       limits, snapshots, listings; extends QueryCatalog
QueryServer        start-up, list_sources, collect_source: extends QueryService
SourceQuery        the command source-query:               extends QueryService
TelegramNotifier   Render and Send, one call
*Proofs            the theorems of the module named; StateProofs has those of
                   MemoryStateStore and ItemRevisions
MC*                the instances TLC checks, one .cfg per question
```

**Pipeline.** One action is the code between two points where another goroutine
can be noticed: a call of the collector, the store or the sender, or a look at
the context. `pc[c]` is where caller `c` stands: `collect` (102), `process`
(processor 43-70), `check` (its loop, 74-87), `deliver` (the loop head, 112),
`send`/`sending` (120), `mark` (124), `return` (the deferred functions). `errs`
is the set of stages whose errors are joined; the texts of the errors are left
out. `guard[p]` is `p.run`. The collector and the sender may succeed or fail at
any time, whatever the context says, as the code can assume nothing about
them; a store call fails when the context is done, and, if `StoreFails`, at any
other time. A failed store call changes nothing. A failed send may have arrived
and is not counted as delivered. The early checks of `RunOnce` that do not take
the guard are `RejectCanceled`, `RejectConfig` and `RejectOverlap`. `tried`,
`late`, `baseline`, `attempted`, `delivered` and `confirmed` are history; no
guard reads them.

**StateStore, AtomicStore, MemoryStateStore.** `StateStore` defines the effect
of each operation; `Pipeline` takes these as indivisible. `MemoryStateStore`
justifies that: it has the validation, the lock, the second look at the
context, and one step per map entry, and it is shown to implement
`AtomicStore`, in which a call takes effect at one instant between call and
return. The refinement mapping counts the keys a writer has still to write as
written (`seenBar`, `initializedBar`): the operation is decided under the lock.
`sync.RWMutex` is external: a writer announces itself, which keeps new readers
out, then waits for those inside.

**ItemKey, ItemRevisions.** A key is a tagged tuple; the SHA-256 digest is taken
to be free of collisions. `ItemRevisions` lets a publisher revise any field and
compares the key of the present revision with that of an earlier collection.
`SameIdentity` is the reference definition, stated over both revisions.

**HTMLSource.** `pc` is `fetch`, then `drain` (a bad status) or `read`, then
`extract`, one step per matching node. `body` is the response body the call was
given. `Normalized` is `strings.Fields` and `strings.Join`, a constant function
whose instance really drops white space; `ResolveReference` is `net/url`.
`ForeignFetcher` admits a fetcher other than `HTTPFetcher`, which `NewAdapter`
accepts: it may have no body to give and may not know its base.
White space around references and settings is cut off by another constant
function, `Trimmed`, as the code does. `InvalidUTF8` are the texts whose bytes
are not UTF-8: the extractor passes the bytes of a page on undecoded. With it
`ItemsPassIfUTF8` composes the extractor with `itemkey.Build` and with the check
of titles in `mapNotification` (`validateText`).

**AtomicRegistry, AdapterRegistry.** `AdapterRegistry` has one step for each
move that another goroutine can see: taking the lock, finding the entry, writing
it, giving the lock back, and, for `SourceRunner.Run`, the collection that
follows some time after the lookup. The refinement mapping is the identity on
`adapters`, `request` and `answer`: a registration happens when the map is
written, a lookup when it is read, and a run when the adapter is called.

**SourceDefinition.** A decoded YAML document is a tree of Go values with their
dynamic types, because the code's type switches are about those: what `yaml.v3`
makes of a nested map depends on its keys. `Decode` (with
`normalizeDecodedValue`), `Parses` and `ParsesSettings` are the decoder, the
schema and the html validator. YAML syntax, URL syntax and CSS selectors are
constants. A step of loading asks `Accept` of a document's bytes: the set of the
one configuration, or empty for an error.

**DefinitionFiles.** `phase` is `start`, `scan` (inside `os.ReadDir`), `read`
(the loop), `listed`. `ScanEntry` notes the type a name has when `ReadDir` comes
to it; `Open` opens whatever has that name later, and follows links as
`os.ReadFile` does; `ReadBlock` is one read of the open file. An editor renames
files over names, removes them, and, if `InPlace`, truncates and writes block by
block. An open file survives its name (`detached`). `versions` and `rewritten`
are history.

**QueryCatalog, QueryService, QueryServer, SourceQuery.** `QueryCatalog` goes
round `LoadCatalog`'s loop once per document; each round looks at the context.
The sort is stated by its result: a definition's `Place` is one behind all whose
ID is before its own (`IDBefore`), which is a place of its own as IDs differ.
`QueryService` has what both users share: `GoodLimits`, `Snapshot`,
`CatalogResult`. `QueryServer` loads and then serves: one call per client, with
its own deadline. `SourceQuery` is one run of the command from its flags to its
exit, under one context for loading and collecting.

**TelegramNotifier.** A text is the sequence of its runes' widths in UTF-16
units; of title, source and timestamp only the length matters. Escaping is left
out: the limit is about the text after entity parsing.

Operators whose comment begins with *Variant* are not part of a specification.
Each is a plausible mistake in the definition that follows it; put in its place
it must break the property `PROJECT.json` pairs it with, which shows that the
property is about the code and that the instance reaches the case.

## Runs

| run | instance | what it shows |
| --- | --- | --- |
| `pipeline_shared` | 2 callers, 2 pipelines, 1 store, 1 source, 2 keys; batches that are empty, grow and repeat a key; cancellation and store failures | the silent baseline, seen means delivered or learnt, no resend after a mark, and `DeliveryContract` |
| `pipeline_single` | 2 callers, 1 pipeline, 2 sources of which one is malformed; an unsendable item ahead of a good one, a duplicate around one, an unidentifiable one behind one | the inductive invariant `IInv`, one run at a time, at most one late send, nil means complete, a refused batch leaves no trace, failures never block |
| `pipeline_live` | the same without cancellation but with store failures, fair | every run returns; an item that keeps coming is retried until it is seen, after failed lookups and marks too |
| `item_key` | all pairs of revisions over 2 blank and 2 usable texts, the zero time and another, 2 zones | a key exists iff the item is identified, and keys are equal iff identities are |
| `store_atomic` | 3 clients, 8 operations: rival baselines, a bad one, reads, marks, blank arguments | the store's inductive invariant `IInv`, `AtomicStore` is implemented, a baseline is won once |
| `store_live` | 3 clients, a writer's and a reader's operation, fair | every call returns |
| `html_source` | the empty page, each kind of node alone and before and after a good one, a title that is not UTF-8 and a reference in white space among them; 6 configurations, 2 answering addresses and none; fair | bodies closed, whole page or error, items have keys and, if UTF-8, titles that delivery takes, links absolute, keys independent of the configured address; every collection ends, also when the server hangs |
| `adapter_registry` | 3 clients, 2 types, 2 adapters and nil; rival registrations, lookups, runs | the registry's inductive invariant `IInv`, and `AtomicRegistry` is implemented |
| `query_server` | 2 clients; directories with each of the 3 good and 20 bad contents alone and on either side of a good one, or beside a link; a good and a bad limit of items and of characters, collections of up to 3 items; fair | all or nothing, what is accepted is what was meant, snapshots tell their loss and come within their call's deadline, the listing is the catalog, every call ends |
| `source_query` | one run, good and bad flags; two files of two blocks or one beside a link or a directory, a third name that is no YAML file's, 2 edits by renaming or in place while they are read; fair | definitions are exact versions of their files, no definition file that was met is passed over and untouched ones are served, the exit code tells what happened, the run ends |
| `definition_links` | the same with a link to be put in a file's place | *violated:* a definition can come from a symbolic link (see below) |
| `telegram` | a limit of 64 units; every summary of up to 5 runes against every length of the rest from 10 below the limit to 2 above | the limit, a tight and visible cut, one submission |

*Why these bounds are enough.* In the pipeline the interesting cases need two
callers (contention for a guard, a race for a baseline), two keys (one fails,
the next must go on), and batches of two or three (a repeat around another
item); runs repeat without bound, so that later runs meet what earlier ones
left. Items and keys have no other structure, and the theorems below hold for
every number of them. The store needs a writer, a rival and a reader. Identity
compares two revisions, and of each field only blank, equal and different
matter. The page needs a good node before and after a bad one. The limits of
queries and of Telegram are scaled down, with every length on both sides of
the edge; the code does nothing else with their values. A definition file of two
blocks is the least that can be read half before and half after an edit, and
`MaxEdits = 2` lets a file change between `ReadDir` and `Open` and again while
it is read, or both files once. There is one bad content for each check a
document can fail, among them a key that is no string below the top level, a
second document, a version that is a string, an ID of blanks and a selector
that does not compile.

*Symmetry* is used for callers, for clients of the store and the registry, and
for interchangeable texts and zones, only in runs without liveness.

*Deadlock* is checked, except where the system stops: `telegram` and the runs of
`SourceQuery` are one call, and in `query_server` the process exits when its
catalog does not load.

## Fairness

* `Pipeline!Fairness` is weak fairness of a started run's next step: running
  code goes on. It includes the return of the collector and the sender, which
  is an assumption about them: `RunOnce` passes its context on and has no timer
  of its own. Nobody is assumed to call, to cancel or not to fail.
  `RetriedUntilSeen` is stated for an item that keeps being collected, and
  leaves open that every send of it, or every lookup of its batch, fails.
* `MemoryStateStore!Fairness` has weak fairness of the code and strong fairness
  of taking the lock: a waiting writer is served in turn, and an unlocking
  writer lets the waiting readers in, so nobody is passed over for ever.
* `HTMLSource`, `QueryServer`, `SourceQuery`: running code goes on, the deadline
  passes (`context.WithTimeout`), and `net/http` or the collector gives up once
  its context is done. Before that, the other side may hang as long as it
  likes. The editor of the directory is under no fairness, and may stop with a
  file half written.
* `TelegramNotifier` has none: its loop is over the runes of a text, and nothing
  about it is a question of liveness.

## Theorems

All for arbitrary constants under the `ASSUME`s of the modules, which say no
more than that the sets and functions are of their kind, that the markers are
none of their members, and (in `HTMLSource`) that normalizing twice is
normalizing once, that it leaves nothing of a text just if trimming does and
neither makes nor mends bytes that are not UTF-8, and that resolving a reference
gives an absolute address. In
`SourceDefinition` the values are closed under `entries`; in `QueryCatalog` the
order of the IDs, `strings.Compare`, is given as a listing that holds every ID a
document may have once. No assumption is made of YAML: it is any function from
bytes to documents, and bytes outside its domain do not parse. One theorem,
`CatalogsFitIfContentsDo`, has a hypothesis of its own (below).

**Pipeline** (`PipelineProofs`). The properties are not inductive: that a key is
not sent again depends on what the candidates were checked against, on the
guard that keeps the pipeline's other callers out in between, and on the store
never forgetting. `IInv` adds these. `MutexInv` ties guard and runs to each
other; `HistoryInv` relates the store to what was sent; `CandidatesInv` says of
the candidates that they are outside the baseline, distinct, and those ahead
not confirmed by this pipeline; `SendInv` is about the one candidate in the
sender's hands and the late send; `CompletionInv` accounts for everything
collected as seen, queued or an error; `TriedInv` for every candidate the loop
has passed. One lemma per part shows that a step preserves it; `OthersFrame`
and `KnowledgeGrows` carry a run past the steps of others. From `Invariance`
follow `TypeCorrect`, `RefusalsLeaveNoTrace`, `BaselineStaysSilent`, `SeenIsJustified`,
`ConfirmedIsFinal`, `RunsExclude`, `LateSendsBounded`, the action properties
`NilIsComplete` and `FailuresAreIsolated`, and `Implementation`: Pipeline
implements `DeliveryContract`. The contract's baselines are the key sets of whole
batches that can be identified (`Collection`), so a baseline of part of a batch,
or of a batch that was refused, is no step of it.

**Store** (`StateProofs`). `IInv` says who holds the lock at which
`pc` (`LockInv`), that only a valid call gets past the checks and has an answer
exactly when it is decided (`CallInv`), and that a baseline under way or done
was won once (`WinsInv`). Hence `Invariance` and `OneWinner`. `Linearizable`,
that the store implements `AtomicStore`, rests on `OneWriter`: nobody writes
while another call decides, so what a call finds is the abstract store
(`BarsFit`), its first step of writing is the abstract operation, and the
steps that write one key change nothing in the abstract store. With
`Implementation` above this justifies that `Pipeline` takes a store call as one
step.

**Identity** (`StateProofs`). `BuildIsInjectiveOnIdentity`: for identified
items keys are equal iff identities are. `KeyIsAlwaysIdentity` and `KeyExists`
carry it to every behaviour of `ItemRevisions`.

**Html source** (`HTMLSourceProofs`). `IInv` says where the body is open, that
the items so far are those of the nodes before the one at hand, none of them
bad, and that what was returned is proper. From it: `BodiesAreClosed`,
`PagesAreWhole`, `HTMLItemsPassIfUTF8`, `LinksAreAbsolute`, and, with
`FoundInv` about an earlier collection, `KeysOutliveTheConfiguration`.

**Telegram** (`TelegramNotifierProofs`). `LoopInv` says that the cutting loop
has left its budget, less one, less the units of the runes it has passed, and
that the summary is over the budget, which is why the loop cannot run off its
end. The units of a text are a recursive function; that it exists, adds one
rune's units at a time and agrees with that of a prefix (`UnitsCount`,
`UnitsStep`, `UnitsOfPrefix`) is proved by looking at the least exception
(`Least`, from the well-foundedness of the natural numbers). Hence
`SubmittedFits`, `CutsAreTight`, `CutsAreVisible`, `SubmittedOnce`.

**Registry** (`AdapterRegistryProofs`). `IInv` is three parts: kinds
(`TypeInv`), who holds the lock at which `pc` (`LockInv`), and, in `CallInv`,
that what a call found before is still so when it acts on it: a type found
absent stays absent up to the write, and the adapter a run looked up is still
its type's when it collects without the lock. The first holds as a writer is
alone, the second as entries are never replaced. With it every step is a step
of `AtomicRegistry` or a stutter (`Refines`), hence `Implementation`.

**Catalog** (`QueryCatalogProofs`). `AllOrNothing` and `DefinitionsAreExact` say
something only of a catalog that serves; that they hold then rests on what was
read long before. `FilesInv` follows a file while it is open: unless it was
rewritten in place, what its handle leads to is one of the versions its name has
had, and what has been read is a beginning of it, so that at the end of the file
the document is that version whole. `CatalogInv` says of each definition loaded
so far what was checked of it, and that it came from the document in its place.
`InSequence` adds their kinds: sequences of documents and of definitions. From `Invariance`
follow `WholeOrNone` and `DefinitionsFitTheirBytes`, for every directory, every
editor, every number of edits and every decoder. For `FilesAreServed` a
second invariant, `ListingInv`, follows one name through the listing: while
nobody touches it it was met as what it is (`MetAsItIs`), and if it was met as a
definition file, touched since or not, it is still to be read, being read, or a
document, and one of these only.

`CatalogsFitIfContentsDo` says that `CatalogFitsIntent` is a matter of single
documents: if each content by itself passes the checks exactly when its author
means a good definition, and with the ID meant (`ContentsFit`), then any
directory of such contents, in any order and with whatever IDs repeated, is
served as meant or refused for a cause. `ContentsFit` is about particular bytes,
so TLC evaluates it: for the 21 contents of `source_query` as the `ASSUME` of
`MCSourceQuery`, and for the 23 of `query_server` by checking
`CatalogFitsIntent` itself on each of them alone. The variant
`normalizeTopOnly`, which breaks it for one content, breaks the property.

`DefinitionsAreSorted`: `Definitions` holds the same definitions, each once, by
ascending ID. `Place` maps the definitions one to one into as many places, so by
counting every place is taken (`PlacesAreTaken`).

**Query server** (`QueryServerProofs`). `SnapshotsTellTheirLoss` needs of the
state only that a call whose collector was asked has good limits and that what
it has kept is a sequence of contents (`Calls`); the rest is a fact about
sequences (`ItemTells`, `SnapshotTells`). The server is to its catalog just
somebody who loads it (`ServerLoads`: its behaviours are behaviours of
`QueryCatalog`), which carries `ServedWholeOrNotAtAll`, `ServedFitsBytes`,
`ServesFiles` and `ServedAsMeant` over.
`SnapshotsAnswerCalls` needs of it that the source was found, which `Answers`
(below) says. `ListingIsWhole` compares answers given at different times with the catalog of
now: the invariant `Answers` says that nothing is answered before the catalog
serves, that a collector is asked only for a source that was found, and that
every answer that is around is of the definitions there are, which no call and
no step of loading changes any more.

**source-query** (`SourceQueryProofs`). The catalog's invariants hold of the
command too, with its one context that may end at any step (`CatalogHolds`);
hence `CommandWholeOrNone`, `CommandFitsBytes` and `CommandServesFiles`.
`ExitTells` is a statement about the end of a run; `RunInv` adds for each place
of the code which checks have been passed by then, and which exit may have been
taken from there. A source once found stays found and what it is
(`FoundStays`), so that what was written tells of it still. From `RunInvariance`
follows `ExitsTell`.

*Only model-checked:* liveness (`RunReturns`, `RetriedUntilSeen`, `CallReturns`,
`CollectEnds`, `CallEnds`, `QueryEnds`; the prover has none), and,
as said, that each single content fits what was meant. Every safety property of the passing
runs is proved, invariants and action properties both.

## What the models say about the code's limits

These are choices the code documents, visible in the models:

* The guard is one pipeline's. Two pipelines on one store may both send a key
  (`DeliveryContract` allows repeated attempts), but never one of the baseline.
* A message may be sent and its mark fail; it is sent again by a later run.
* After the caller cancels, one more send may begin, never two.
* A catalog is no snapshot of its directory: each file is one version of itself
  (`DefinitionsAreExact`), but two files may be versions from different times,
  and a file that came or went during the listing may be in it or not. A file
  that is rewritten in place may be read half-way; if that half is a good
  definition it is served, with the revision of just those bytes.
* A page in another encoding than UTF-8 is not decoded. Its items have keys, so
  the batch is not refused, but those whose titles are not valid UTF-8 are
  refused by `mapNotification` at every run (`ItemsPassIfUTF8`).
* An item that can never be sent comes back, with its error, at every run, and
  does not keep later items from being sent.

And one divergence. `config/file_repository.go:16-18` says that symbolic links
are not followed. The type of an entry is the one `ReadDir` saw; `os.ReadFile`
opens the name later and follows what is there by then. Run `definition_links`
shows a regular file replaced by a link in between, whose target is then served
under the name.

## Not modelled

Nothing is persisted, so a restart is a new store and a new `Init`. Wording of
errors, JSON and HTML output, and the libraries (goquery, cascadia, `yaml.v3`,
`net/url`, the Telegram and MCP SDKs with their protocols and checks of argument
types) are left out or taken as constants. The flag checks of `signalwatch-mcp`
are left out: they exit before there is any state. The editor of a directory
puts files, links and nothing under its names, never a FIFO or a device, on which
`os.ReadFile` would block whatever the context says. Of a definition, the name and the
interval are checked but not carried on; of a snapshot, its time stamps are left
out. `telegram-smoke` sends one fixed message. The refusal of nil receivers and
dependencies is left out, but for a nil adapter. Tests, the tunnel smoke test
and the Docker files are no part of the program's logic.

## Plan

Done, in order of importance: the pipeline and the store with their abstract
specifications and proofs, identity, the html source, Telegram; definitions from
the bytes in an edited directory to a catalog, the query server and the command
over it, the registry with its abstract specification, and the proofs of every
safety property the runs check.

Next:

1. The pipeline over a store that is `MemoryStateStore` rather than atomic, by
   composing `Linearizable` with `Implementation`.
2. What the notifier submits when the html source's items reach it:
   `ItemsPassIfUTF8` and `FitsLimit` joined.
