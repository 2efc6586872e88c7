----------------------------- MODULE SourceQuery -----------------------------
(***************************************************************************)
(* The command source-query (cmd/source-query): one run that checks its    *)
(* flags, loads the catalog from a directory somebody may be editing,      *)
(* collects the one source and writes its snapshot, all under one context  *)
(* that a signal or the one timeout ends.                                  *)
(***************************************************************************)
EXTENDS QueryService, Integers

CONSTANTS
  Arguments       \* records parse, dir, id, timeout, items, chars

ASSUME ArgumentsAssumption ==
  \A a \in Arguments : a.parse \in BOOLEAN /\ a.timeout \in Int

VARIABLES
  pc,             \* "flags", "load", "ask", "collecting", "collected",
                  \* "encode" or "exited"
  args,
  items,          \* what the collector returned
  stdout,         \* what was written
  exit,           \* the exit code
  (* History, read by no guard. *)
  asked           \* the collector has been called

runVars == <<pc, args, items, stdout, exit, asked>>
vars == <<catalogVars, runVars>>

NoOutput == [status |-> "nothing"]
PartOutput == [status |-> "part"]

exitOK == 0
exitRuntime == 1
exitConfig == 2
Running == -1

Init ==
  /\ CatalogInit
  /\ pc = "flags"
  /\ args \in Arguments
  /\ items = <<>>
  /\ stdout = NoOutput
  /\ exit = Running
  /\ asked = FALSE

(* SIGINT or SIGTERM comes, or the timer of the one context fires.         *)
Ends(places) ==
  /\ pc \in places
  /\ ~canceled
  /\ canceled' = TRUE
  /\ UNCHANGED <<phase, listVars, diskVars, definitions, runVars>>

(* Variant: the timeout is of loading only. *)
EndContextOfLoad == Ends({"load"})

EndContext == Ends({"load", "ask", "collecting", "collected", "encode"})

GoTo(l) == pc' = l /\ UNCHANGED <<args, items, stdout, exit, asked>>

ExitWith(code, output) ==
  /\ pc' = "exited"
  /\ exit' = code
  /\ stdout' = output
  /\ UNCHANGED <<catalogVars, args, items, asked>>
-----------------------------------------------------------------------------
(* Variant: the limits are left to Service.Collect. *)
GoodFlagsButLimits ==
  /\ args.parse
  /\ Trim(args.dir) # Empty /\ Trim(args.id) # Empty
  /\ args.timeout > 0

(* flags.Parse, no positional arguments, and the checks of the values.     *)
GoodFlags ==
  /\ args.parse
  /\ Trim(args.dir) # Empty /\ Trim(args.id) # Empty
  /\ args.timeout > 0
  /\ GoodLimits(args)

RefuseFlags == pc = "flags" /\ ~GoodFlags /\ ExitWith(exitConfig, NoOutput)

AcceptFlags ==
  /\ pc = "flags"
  /\ GoodFlags
  /\ GoTo("load")
  /\ UNCHANGED catalogVars

Load == pc = "load" /\ LoadStep /\ UNCHANGED runVars

Found == phase = "serving" /\ args.id \in Loaded

(* LoadHTMLCatalog or Lookup fails.                                        *)
RefuseConfig ==
  /\ pc = "load"
  /\ phase \in {"failed", "serving"}
  /\ ~Found
  /\ ExitWith(exitConfig, NoOutput)

FindSource ==
  /\ pc = "load"
  /\ Found
  /\ GoTo("ask")
  /\ UNCHANGED catalogVars

(* Service.Collect looks at the context and the limits, then asks once.    *)
RefuseCollection ==
  /\ pc = "ask"
  /\ canceled \/ ~GoodLimits(args)
  /\ ExitWith(exitRuntime, NoOutput)

StartCollector ==
  /\ pc = "ask"
  /\ ~canceled /\ GoodLimits(args)
  /\ pc' = "collecting"
  /\ asked' = TRUE
  /\ UNCHANGED <<catalogVars, args, items, stdout, exit>>

(* External: the adapter may return before or after the context has ended. *)
CollectorReturns(collected) ==
  /\ pc = "collecting"
  /\ pc' = "collected"
  /\ items' = collected
  /\ UNCHANGED <<catalogVars, args, stdout, exit, asked>>

CollectorFails == pc = "collecting" /\ ExitWith(exitRuntime, NoOutput)

Discard == pc = "collected" /\ canceled /\ ExitWith(exitRuntime, NoOutput)

Keep ==
  /\ pc = "collected"
  /\ ~canceled
  /\ GoTo("encode")
  /\ UNCHANGED catalogVars

(* The write fails, maybe half-way.                                        *)
EncodeFails ==
  /\ pc = "encode"
  /\ \E output \in {NoOutput, PartOutput} : ExitWith(exitRuntime, output)

Encode ==
  /\ pc = "encode"
  /\ ExitWith(exitOK, Snapshot(Lookup(args.id), items, args))

Code ==
  \/ RefuseFlags \/ AcceptFlags \/ Load \/ RefuseConfig \/ FindSource
  \/ RefuseCollection \/ StartCollector \/ Discard \/ Keep
  \/ EncodeFails \/ Encode

Edits == Edited /\ UNCHANGED runVars

Next ==
  \/ Code \/ EndContext \/ Edits
  \/ CollectorFails
  \/ \E collected \in Collected : CollectorReturns(collected)

Spec == Init /\ [][Next]_vars

(* The program runs on, its timer fires, and a collector gives up once its *)
(* context has ended; until then it may hang.  The editor owes nothing.    *)
Fairness ==
  /\ WF_vars(Code)
  /\ WF_vars(EndContext)
  /\ WF_vars(canceled /\ CollectorFails)

FairSpec == Spec /\ Fairness
-----------------------------------------------------------------------------
(* The exit code and stdout together tell a caller of the command what     *)
(* happened, as the query handoff document has it (section 7): 0 with one  *)
(* whole snapshot of the source asked for and never otherwise, 2 before    *)
(* anything was collected, 1 for a source that was found and could not be  *)
(* queried (main.go:38-92).                                                *)
ExitTells ==
  /\ exit = Running <=> pc # "exited"
  /\ stdout.status = "ok" <=> exit = exitOK
  /\ exit = exitOK =>
       /\ asked
       /\ stdout.Source.ID = args.id
       /\ TellsLoss(items, args, stdout)
       /\ \E i \in DOMAIN documents :
            /\ stdout.Source.DefinitionRevision = documents[i].Revision
            /\ \E config \in ParseSourceConfig(documents[i].Content) :
                 config.ID = args.id
  /\ exit = exitConfig => ~asked /\ stdout = NoOutput
  /\ exit = exitRuntime => /\ args.id \in Loaded
                           /\ args.items \in GoodItems
                           /\ args.chars \in GoodChars

(* The command ends, though its collector may hang and the directory be    *)
(* edited: the one timeout ends both halves (main.go:63-85).               *)
QueryEnds == <>(pc = "exited")
=============================================================================
