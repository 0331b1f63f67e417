------------------------------ MODULE Startup ------------------------------
(***************************************************************************)
(* OpenRatchetRuntime: initialize, the two installation stages of the      *)
(* native replacements, run and destruction; and the DBC links the guest   *)
(* asks for once it runs.  main calls initialize once, then run.           *)
(* PS2Runtime is external: its function table is a slot for every program  *)
(* counter, filled with what the static recompiler generated.              *)
(*   an entry - [address, stage, function, storage], storage the variable  *)
(*              its fallback is captured in, or "none"                     *)
(***************************************************************************)
EXTENDS StaticElf, FiniteSets

CONSTANTS
  Pcs,                 \* slots of the function table
  GeneratedPcs,        \* those the recompiler filled
  Declarations,        \* lists of entries declareNativeReplacements may add
  ElfFiles,            \* files the boot path may name
  kDbcLinkCapacity,
  DbcInit, DbcLinkAllocate,   \* native functions the guest calls
  WorkState, RamBytes  \* range cleared by DbcInit, kGuestRamBytes

\* The lists leave the two bootstrap addresses alone in the runtime stage, and
\* give every storage to one replacement.
ASSUME StartupAssumption ==
  /\ GeneratedPcs \subseteq Pcs /\ kDbcLinkCapacity \in Nat
  /\ \A list \in Declarations : DOMAIN list \subseteq Nat \ {0} /\ \A i, j \in DOMAIN list :
       /\ list[i].stage \in {"Bootstrap", "Runtime"}
       /\ list[i].stage = "Bootstrap" /\ list[j].storage # "none" =>
            list[i].address # list[j].address
       /\ list[i].storage = list[j].storage /\ list[i].storage # "none" => i = j

VARIABLES
  host,        \* how far initialize is, services bound, bridges installed
  registry,    \* NativeReplacementRegistry.entries_, by their place in the list
  functions,   \* PS2Runtime's function table
  fallbacks,   \* fallback storages
  frozen,      \* staticFallbackAddresses
  links        \* g_dbcLinkSlots, and the links handed out since they were freed

startupVars == <<host, registry, functions, fallbacks, frozen, links>>

Missing == <<"missing">>
Generated(pc) == <<"generated", pc>>
Original(pc) == IF pc \in GeneratedPcs THEN Generated(pc) ELSE Missing

Storages ==
  {storage \in UNION {{list[i].storage : i \in DOMAIN list} : list \in Declarations} : storage # "none"}

EmptySlots == [slot \in 0 .. kDbcLinkCapacity - 1 |-> FALSE]

----------------------------------------------------------------------------
(* NativeReplacementRegistry.  Only addresses and stages can be wrong in a *)
(* list: names and functions are literals.  Results of add are not looked  *)
(* at by the declarations.                                                 *)
Refused(list, i) ==
  \/ list[i].address = 0
  \/ \E j \in 1 .. i - 1 : list[j].address = list[i].address /\ list[j].stage = list[i].stage

Added(list) == [i \in {j \in DOMAIN list : ~Refused(list, j)} |-> list[i]]

\* Mistake: an installation does not look at the stage.
OfAnyStage(entries, stage) == DOMAIN entries

OfStage(entries, stage) == {i \in DOMAIN entries : entries[i].stage = stage}

\* The slot of pc once the entries at those places are installed, in order.
SlotAfter(entries, places, pc) ==
  LET forPc == {i \in places : entries[i].address = pc}
  IN IF forPc = {} THEN functions[pc] ELSE entries[Max(forPc)].function

\* lookupFunction, just before its own replaceFunction: a pc outside the table
\* has no slot.
Captured(entries, places, i) ==
  IF entries[i].address \in Pcs
  THEN SlotAfter(entries, {j \in places : j < i}, entries[i].address) ELSE Missing

Install(entries, stage) ==
  /\ functions' = [pc \in Pcs |-> SlotAfter(entries, OfStage(entries, stage), pc)]
  /\ fallbacks' = [storage \in DOMAIN fallbacks |->
                     LET capturing == {i \in OfStage(entries, stage) : entries[i].storage = storage}
                     IN IF capturing = {} THEN fallbacks[storage]
                        ELSE Captured(entries, OfStage(entries, stage), Max(capturing))]

----------------------------------------------------------------------------
(* initialize, up to each point it can fail at; nothing is undone.         *)
Fails == host' = [host EXCEPT !.phase = "Failed"]

\* is_regular_file, loadRac1StaticElfImage.
CheckElf ==
  /\ host.phase = "Start"
  /\ \/ Fails
     \/ \E file \in ElfFiles :
          IF ElfStatus(file) = "Ok" THEN host' = [host EXCEPT !.phase = "Vfs"] ELSE Fails
  /\ UNCHANGED <<registry, functions, fallbacks, frozen, links>>

InitializeVfs ==
  /\ host.phase = "Vfs"
  /\ Fails \/ host' = [host EXCEPT !.phase = "Bound", !.services = TRUE]
  /\ UNCHANGED <<registry, functions, fallbacks, frozen, links>>

\* The static program counters are taken down before any of them is replaced.
InstallBootstrap ==
  /\ host.phase = "Bound"
  /\ \E list \in Declarations : registry' = Added(list) /\ Install(Added(list), "Bootstrap")
  /\ frozen' = {pc \in Pcs : functions[pc] # Missing}
  /\ host' = [host EXCEPT !.phase = "Backend"]
  /\ UNCHANGED links

\* eeFallback.initialize and loadELF.
InitializeBackend ==
  /\ host.phase \in {"Backend", "Loaded"}
  /\ Fails \/ host' = [host EXCEPT !.phase = IF @ = "Backend" THEN "Loaded" ELSE "Install"]
  /\ UNCHANGED <<registry, functions, fallbacks, frozen, links>>

InstallRuntime ==
  /\ host.phase = "Install"
  /\ Install(registry, "Runtime")
  /\ host' = [host EXCEPT !.phase = "Initialized", !.bridges = TRUE]
  /\ UNCHANGED <<registry, frozen, links>>

\* run refuses what was not initialized; main does not come to it.
Run ==
  /\ host.phase = "Initialized"
  /\ host' = [host EXCEPT !.phase = "Running"]
  /\ UNCHANGED <<registry, functions, fallbacks, frozen, links>>

\* The guest stops, or initialize failed: services are unbound before the
\* VFS they point at is destroyed.
Destroy ==
  /\ host.phase \in {"Running", "Failed"}
  /\ host' = [host EXCEPT !.phase = "Destroyed", !.services = FALSE]
  /\ UNCHANGED <<registry, functions, fallbacks, frozen, links>>

----------------------------------------------------------------------------
(* Guest calls that reach the native functions once they are installed.    *)
Dispatches(function) ==
  host.phase = "Running" /\ \E pc \in Pcs : functions[pc] = function

\* nativeDbcInit: result 0 leaves the slots as they are.
CallDbcInit ==
  /\ Dispatches(DbcInit)
  /\ links' = IF RangeFits(WorkState, RamBytes) THEN [slots |-> EmptySlots, held |-> <<>>] ELSE links
  /\ UNCHANGED <<host, registry, functions, fallbacks, frozen>>

FreeSlots == {slot \in DOMAIN links.slots : ~links.slots[slot]}

\* nativeDbcLinkAllocate: the first free slot, or -1.
CallDbcLinkAllocate ==
  /\ Dispatches(DbcLinkAllocate)
  /\ LET slot == CHOOSE first \in FreeSlots : \A other \in FreeSlots : first <= other IN
     links' = IF FreeSlots = {} THEN links
              ELSE [slots |-> [links.slots EXCEPT ![slot] = TRUE],
                    held |-> Append(links.held, slot)]
  /\ UNCHANGED <<host, registry, functions, fallbacks, frozen>>

----------------------------------------------------------------------------
StartupInit ==
  /\ host = [phase |-> "Start", services |-> FALSE, bridges |-> FALSE]
  /\ registry = <<>>
  /\ functions = [pc \in Pcs |-> Original(pc)]
  /\ fallbacks = [storage \in Storages |-> Missing]
  /\ frozen = {}
  /\ links = [slots |-> EmptySlots, held |-> <<>>]

StartupNext ==
  \/ CheckElf \/ InitializeVfs \/ InstallBootstrap \/ InitializeBackend \/ InstallRuntime
  \/ Run \/ Destroy \/ CallDbcInit \/ CallDbcLinkAllocate

StartupSpec == StartupInit /\ [][StartupNext]_startupVars

(* Whatever a replacement hands a call on to is what the recompiler made   *)
(* of its own pc, never a replacement, itself least of all, and there once *)
(* the guest runs; the static pcs overlays are judged by are exactly the   *)
(* recompiler's; a guest that runs finds a replacement in the slot of      *)
(* every one declared, and two links it holds are two slots.               *)
FallbacksAreStatic ==
  /\ \A i \in DOMAIN registry : registry[i].storage # "none" =>
       /\ fallbacks[registry[i].storage] \in {Missing, Original(registry[i].address)}
       /\ host.phase = "Running" =>
            fallbacks[registry[i].storage] = Original(registry[i].address)
  /\ host.phase \in {"Backend", "Running"} => frozen = GeneratedPcs
  /\ host.phase = "Running" =>
       /\ host.services
       /\ \A i \in DOMAIN registry : registry[i].address \in Pcs =>
            \E j \in DOMAIN registry : /\ registry[j].address = registry[i].address
                                       /\ functions[registry[i].address] = registry[j].function
  /\ \A i, j \in DOMAIN links.held : links.held[i] = links.held[j] => i = j
=============================================================================
