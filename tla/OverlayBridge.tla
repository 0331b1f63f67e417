--------------------------- MODULE OverlayBridge ---------------------------
(***************************************************************************)
(* retailOverlayMaterializeBridge: the native wrapper around Retail's      *)
(* sub_0012D8F8.  The generated fallback copies a generation's records     *)
(* into guest memory, record by record and outside any lock; only then     *)
(* does the bridge commit the matching dispatch owners.  The presentation  *)
(* thread inspects the bridge between any two guest steps.                 *)
(*                                                                         *)
(* The commit runs under g_overlayDispatchMutex, as does the inspection,   *)
(* so each is one action.  PS2Runtime dispatches handlers with itself as   *)
(* the runtime, so the bridge's nullptr-runtime return is not modelled.    *)
(***************************************************************************)
EXTENDS OverlayDispatch

CONSTANTS
  Generation,    \* generation entries Retail can materialize
  Records,       \* Records[gen]: the guest ranges its records overwrite
  Module,        \* Module[gen]: the compiled AOT module of a generation
  Image,         \* Image[owner]: 0 for the boot program, or the generation it was compiled from
  Body,          \* Body[owner]: the PCs of the code the owner was compiled from
  BootOwners,    \* <<pc, owner>> pairs the boot program can register
  MaxCalls       \* bound on materializer calls (the code's counter is 64 bits)

Compiled == DOMAIN Module   \* the switch cases whose AOT module is compiled in

Boot == 0    \* the image of the boot program

ASSUME BridgeAssumption ==
  /\ Generation \subseteq Nat \ {0}
  /\ Compiled \subseteq Generation
  /\ Records \in [Generation -> Seq(MaterializedRange)]
  /\ Image \in [Owner -> Generation \cup {Boot}]
  /\ Body \in [Owner -> SUBSET Pc]
  /\ BootOwners \subseteq {b \in Pc \X Owner : Image[b[2]] = Boot}
  /\ MaxCalls \in Nat

(* What the AOT generator guarantees of a compiled module: it is well      *)
(* formed, lists the generation's own records, and its functions lie       *)
(* inside them.                                                            *)
ASSUME ModuleAssumption ==
  \A gen \in Compiled :
    /\ Module[gen] \in Request
    /\ Module[gen].generation = gen
    /\ Module[gen].ranges = Records[gen]
    /\ Validate(Module[gen]) = "Valid"
    /\ \A i \in DOMAIN Module[gen].entries :
         LET owner == Module[gen].entries[i].function IN
         Image[owner] = gen /\ Body[owner] \subseteq Covered(Records[gen])

VARIABLES
  resident,         \* image each guest word holds
  bridge,           \* where the guest is: "running", "copying", "returned"
  copying,          \* v0 of the call in progress
  copied,           \* records of that call already copied
  fallback,         \* the generated loader was captured at installation
  stopRequested,
  materializerCalls, successfulActivations, lastMaterializerGenerationEntry,
  snapshot          \* what the presentation thread last read

bridgeVars == <<resident, bridge, copying, copied>>
counters == <<materializerCalls, successfulActivations, lastMaterializerGenerationEntry>>
allVars == <<vars, bridgeVars, fallback, stopRequested, counters, snapshot>>

----------------------------------------------------------------------------
InspectedState ==
  [calls |-> materializerCalls, successes |-> successfulActivations,
   last |-> lastMaterializerGenerationEntry, active |-> activeGenerationEntry,
   functions |-> activeFunctionCount]

MissingFallbackCommits ==    \* Mistake: the stop does not end the call.
  /\ bridge = "running" /\ ~fallback
  /\ stopRequested' = TRUE /\ bridge' = "returned"
  /\ UNCHANGED <<vars, resident, copying, copied, fallback, counters, snapshot>>

MissingFallback ==
  /\ bridge = "running" /\ ~fallback
  /\ stopRequested' = TRUE
  /\ UNCHANGED <<vars, bridgeVars, fallback, counters, snapshot>>

EnterBridge(gen) ==
  /\ bridge = "running" /\ fallback /\ ~stopRequested
  /\ materializerCalls < MaxCalls
  /\ materializerCalls' = materializerCalls + 1
  /\ bridge' = "copying" /\ copying' = gen /\ copied' = 0
  /\ UNCHANGED <<vars, resident, fallback, stopRequested, successfulActivations,
                 lastMaterializerGenerationEntry, snapshot>>

(* The generated loader (external) copies the next record.                 *)
CopyRecord ==
  /\ bridge = "copying" /\ copied < Len(Records[copying])
  /\ copied' = copied + 1
  /\ resident' = [pc \in Pc |-> IF PcInsideRanges(pc, <<Records[copying][copied + 1]>>)
                                THEN copying ELSE resident[pc]]
  /\ UNCHANGED <<vars, bridge, copying, fallback, stopRequested, counters, snapshot>>

LoaderReturns ==
  /\ bridge = "copying" /\ copied = Len(Records[copying])
  /\ bridge' = "returned"
  /\ UNCHANGED <<vars, resident, copying, copied, fallback, stopRequested, counters,
                 snapshot>>

(* Under the mutex: record v0, activate the module of a known generation,  *)
(* count a success, and request a stop in every other case.                *)
CommitActivation(gen) ==
  /\ gen \in Compiled
  /\ Activate(Module[gen])
  /\ IF status' \in Success
     THEN successfulActivations' = successfulActivations + 1 /\ UNCHANGED stopRequested
     ELSE stopRequested' = TRUE /\ UNCHANGED successfulActivations

IgnoreUnsupported(gen) ==    \* Mistake: an unknown generation does not stop the program.
  /\ gen \notin Compiled
  /\ UNCHANGED <<vars, successfulActivations, stopRequested>>

CommitUnsupported(gen) ==
  /\ gen \notin Compiled
  /\ stopRequested' = TRUE
  /\ UNCHANGED <<vars, successfulActivations>>

CommitWithoutLast ==    \* Mistake: v0 is not recorded.
  /\ bridge = "returned" /\ bridge' = "running"
  /\ CommitActivation(copying) \/ CommitUnsupported(copying)
  /\ UNCHANGED <<resident, copying, copied, fallback, materializerCalls,
                 lastMaterializerGenerationEntry, snapshot>>

Commit ==
  /\ bridge = "returned"
  /\ bridge' = "running"
  /\ lastMaterializerGenerationEntry' = copying
  /\ CommitActivation(copying) \/ CommitUnsupported(copying)
  /\ UNCHANGED <<resident, copying, copied, fallback, materializerCalls, snapshot>>

(* inspectRac1OverlayAotRuntimeState, on the presentation thread.          *)
Inspect ==
  /\ snapshot' = InspectedState
  /\ UNCHANGED <<vars, bridgeVars, fallback, stopRequested, counters>>

BridgeInit ==
  /\ ManagerInit
  /\ \A pc \in Pc : slots[pc] # NoOwner => <<pc, slots[pc]>> \in BootOwners
  /\ resident = [pc \in Pc |-> Boot]
  /\ bridge = "running" /\ copying = 0 /\ copied = 0
  /\ fallback \in BOOLEAN
  /\ stopRequested = FALSE
  /\ materializerCalls = 0 /\ successfulActivations = 0
  /\ lastMaterializerGenerationEntry = 0
  /\ snapshot = InspectedState

GuestStep == CopyRecord \/ LoaderReturns \/ Commit

BridgeNext ==
  \/ MissingFallback
  \/ \E gen \in Generation : EnterBridge(gen)
  \/ GuestStep
  \/ Inspect

BridgeSpec == BridgeInit /\ [][BridgeNext]_allVars

----------------------------------------------------------------------------
BridgeTypeOK ==
  /\ ManagerTypeOK
  /\ resident \in [Pc -> Generation \cup {Boot}]
  /\ bridge \in {"running", "copying", "returned"}
  /\ copying \in Generation \cup {0}
  /\ bridge # "running" => copying \in Generation
  /\ copied \in Nat
  /\ fallback \in BOOLEAN /\ stopRequested \in BOOLEAN
  /\ materializerCalls \in Nat /\ successfulActivations \in Nat
  /\ lastMaterializerGenerationEntry \in Generation \cup {0}
  /\ snapshot \in [calls : Nat, successes : Nat, last : Nat, active : Nat, functions : Nat]

(* Words the call in progress has overwritten, ahead of its commit.        *)
Overwritten ==
  IF bridge = "running" THEN {}
  ELSE {word \in Pc : \E i \in 1 .. copied : /\ Records[copying][i].begin <= word
                                            /\ word < Records[copying][i].end}

(* "Slots outside those ranges keep the owner matching the bytes still     *)
(* resident in RDRAM".  Owners are cleared by entry PC alone, so that is   *)
(* not true of a function whose entry is outside but part of whose body is *)
(* inside.  This says that there is no other exception: at any moment, up  *)
(* to a requested stop, a word of an offered function's body holds the     *)
(* image the function was compiled from, or is one the copy in progress    *)
(* has already overwritten, or was last overwritten by a generation that   *)
(* leaves the function's entry alone.                                      *)
DispatchMatchesMemory ==
  ~stopRequested =>
    \A pc \in Pc : slots[pc] # NoOwner =>
      \A word \in Body[slots[pc]] :
        \/ resident[word] = Image[slots[pc]]
        \/ word \in Overwritten
        \/ resident[word] \in Generation /\ pc \notin Covered(Records[resident[word]])

(* The presentation thread never sees a success without its call, an       *)
(* active generation nobody activated, or an active generation other than  *)
(* the last one materialized, unless a stop was requested first.           *)
SnapshotConsistent ==
  /\ snapshot.successes <= snapshot.calls
  /\ snapshot.active # 0 => snapshot.successes > 0 /\ snapshot.functions > 0
  /\ snapshot.active # snapshot.last => stopRequested
============================================================================
