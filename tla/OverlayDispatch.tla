-------------------------- MODULE OverlayDispatch --------------------------
(***************************************************************************)
(* Rac1OverlayDispatchManager: the object that decides which statically    *)
(* recompiled function the dense dispatch table offers at each guest PC.   *)
(*                                                                         *)
(* Retail overwrites code in place, one group of records at a time.  A     *)
(* generation therefore owns exactly the addresses its records overwrite;  *)
(* every other slot keeps its owner.  The manager remembers the owner each *)
(* slot had before its first overlay touch so that deactivate() can put    *)
(* the boot table back.                                                    *)
(*                                                                         *)
(* A slot is named by the guest PC it serves ((pc - base) >> 2 in the      *)
(* code).  The process has one dispatch table, so a table view is either   *)
(* that table or a malformed one.                                          *)
(***************************************************************************)
EXTENDS Integers, Sequences

CONSTANTS
  Base, End,      \* byte bounds of the dispatch table
  Owner,          \* guest functions a slot can hold
  NoOwner,        \* an empty slot (nullptr)
  Requests        \* activation requests the manager is asked to serve

Pc == {a \in Base .. End - 1 : a % 4 = 0}

MaterializedRange == [begin : Nat, end : Nat]
FunctionEntry     == [pc : Nat, function : Owner \cup {NoOwner}]
Request           == [validTable : BOOLEAN, generation : Nat,
                      entries : Seq(FunctionEntry), ranges : Seq(MaterializedRange)]

ASSUME TableAssumption ==
  /\ Base \in Nat /\ End \in Nat
  /\ Base < End /\ Base % 4 = 0 /\ End % 4 = 0
  /\ NoOwner \notin Owner

ASSUME RequestAssumption == Requests \subseteq Request

VARIABLES
  slots,                \* the dispatch table: Pc -> owner
  savedBaselineSlots,   \* owner before the first overlay touch, by touched PC
  baselineCaptured,     \* PCs whose capture bit is set
  bound,                \* boundSlots_ # nullptr
  activeRanges,
  activeGenerationEntry,
  activeFunctionCount,
  status,               \* status of the latest activation
  boot                  \* history: owner of each slot before overlays touched it

managerVars == <<slots, savedBaselineSlots, baselineCaptured, bound, activeRanges,
                 activeGenerationEntry, activeFunctionCount>>
vars == <<managerVars, status, boot>>

----------------------------------------------------------------------------
(* Validation: every test activate() makes before its first write.  The    *)
(* loops stop at the first offending range or entry, which decides the     *)
(* status.                                                                 *)

PcInsideRanges(pc, ranges) ==
  \E i \in DOMAIN ranges : ranges[i].begin <= pc /\ pc < ranges[i].end

Covered(ranges) == {pc \in Pc : PcInsideRanges(pc, ranges)}

IllFormedRange(r) ==
  \/ r.begin >= r.end
  \/ r.begin % 4 # 0 \/ r.end % 4 # 0
  \/ r.begin < Base \/ r.end > End

Overlap(r, s) == r.begin < s.end /\ s.begin < r.end

IllFormedEntry(e) == e.function = NoOwner \/ e.pc \notin Pc

First(S) == CHOOSE i \in S : \A j \in S : i <= j

RangesStatus(ranges) ==
  LET overlapping(i) == \E j \in 1 .. i - 1 : Overlap(ranges[i], ranges[j])
      faulty == {i \in DOMAIN ranges : IllFormedRange(ranges[i]) \/ overlapping(i)}
  IN IF faulty = {} THEN "Valid"
     ELSE IF IllFormedRange(ranges[First(faulty)]) THEN "InvalidMaterializedRange"
     ELSE "OverlappingMaterializedRange"

EntriesStatus(entries, ranges) ==
  LET duplicate(i) == \E j \in 1 .. i - 1 : entries[i].pc = entries[j].pc
      faulty == {i \in DOMAIN entries : \/ IllFormedEntry(entries[i])
                                        \/ duplicate(i)
                                        \/ ~PcInsideRanges(entries[i].pc, ranges)}
      first == First(faulty)
  IN IF faulty = {} THEN "Valid"
     ELSE IF IllFormedEntry(entries[first]) THEN "InvalidEntry"
     ELSE IF duplicate(first) THEN "DuplicatePc"
     ELSE "EntryOutsideMaterializedRange"

HasEntry(pc, entries) == \E i \in DOMAIN entries : entries[i].pc = pc

Validate(r) ==
  IF ~r.validTable THEN "InvalidTable"
  ELSE IF r.generation = 0 \/ r.generation % 4 # 0 THEN "InvalidGeneration"
  ELSE IF r.entries = <<>> THEN "InvalidEntry"
  ELSE IF r.ranges = <<>> THEN "InvalidMaterializedRange"
  ELSE IF RangesStatus(r.ranges) # "Valid" THEN RangesStatus(r.ranges)
  ELSE IF EntriesStatus(r.entries, r.ranges) # "Valid"
       THEN EntriesStatus(r.entries, r.ranges)
  ELSE IF ~HasEntry(r.generation, r.entries) THEN "GenerationEntryMissing"
  ELSE "Valid"

----------------------------------------------------------------------------
(* The owner a request gives to a PC of its ranges.                        *)
ExpectedOwner(entries, pc) ==
  IF HasEntry(pc, entries)
  THEN entries[CHOOSE i \in DOMAIN entries : entries[i].pc = pc].function
  ELSE NoOwner

IntactByHeader(r) ==    \* Mistake: the slots themselves are not compared.
  /\ activeGenerationEntry = r.generation
  /\ activeFunctionCount = Len(r.entries) /\ activeRanges = r.ranges

(* activate() answers AlreadyActive only when the same generation, with    *)
(* the same ranges, still owns every slot of those ranges.                 *)
Intact(r) ==
  /\ activeGenerationEntry = r.generation
  /\ activeFunctionCount = Len(r.entries)
  /\ activeRanges = r.ranges
  /\ \A pc \in Covered(r.ranges) : slots[pc] = ExpectedOwner(r.entries, pc)

CaptureBaselineAgain(touched) ==    \* Mistake: the capture bit is ignored.
  /\ savedBaselineSlots' = [pc \in DOMAIN savedBaselineSlots \cup touched |->
                              IF pc \in touched THEN slots[pc] ELSE savedBaselineSlots[pc]]
  /\ baselineCaptured' = baselineCaptured \cup touched

(* Capture each slot at its first touch, clear the overwritten slots, then *)
(* install the callable entries.                                           *)
CaptureBaseline(touched) ==
  LET fresh == touched \ baselineCaptured IN
  /\ savedBaselineSlots' = [pc \in DOMAIN savedBaselineSlots \cup fresh |->
                              IF pc \in fresh THEN slots[pc] ELSE savedBaselineSlots[pc]]
  /\ baselineCaptured' = baselineCaptured \cup touched

InstallOnlyEntries(r) ==    \* Mistake: the whole table is cleared, not the ranges.
  slots' = [pc \in Pc |-> ExpectedOwner(r.entries, pc)]

InstallEntries(r) ==
  slots' = [pc \in Pc |-> IF HasEntry(pc, r.entries) THEN ExpectedOwner(r.entries, pc)
                          ELSE IF pc \in Covered(r.ranges) THEN NoOwner
                          ELSE slots[pc]]

Reject(r) ==
  /\ Validate(r) # "Valid"
  /\ status' = Validate(r)
  /\ UNCHANGED managerVars

KeepActive(r) ==
  /\ Validate(r) = "Valid" /\ Intact(r)
  /\ status' = "AlreadyActive"
  /\ UNCHANGED managerVars

Materialize(r) ==
  /\ Validate(r) = "Valid" /\ ~Intact(r)
  /\ bound' = TRUE
  /\ CaptureBaseline(Covered(r.ranges))
  /\ InstallEntries(r)
  /\ activeRanges' = r.ranges
  /\ activeGenerationEntry' = r.generation
  /\ activeFunctionCount' = Len(r.entries)
  /\ status' = "Activated"

Activate(r) ==
  /\ Reject(r) \/ KeepActive(r) \/ Materialize(r)
  /\ UNCHANGED boot

ClearAllButBits ==    \* Mistake: the capture bits survive.
  /\ bound' = FALSE /\ activeRanges' = <<>>
  /\ activeGenerationEntry' = 0 /\ activeFunctionCount' = 0
  /\ UNCHANGED baselineCaptured

ClearBoundView ==
  /\ baselineCaptured' = {}
  /\ bound' = FALSE
  /\ activeRanges' = <<>>
  /\ activeGenerationEntry' = 0
  /\ activeFunctionCount' = 0

DeactivateLatest(validTable) ==    \* Mistake: only the active ranges are restored.
  /\ validTable /\ bound
  /\ slots' = [pc \in Pc |-> IF pc \in Covered(activeRanges)
                             THEN savedBaselineSlots[pc] ELSE slots[pc]]
  /\ savedBaselineSlots' = <<>>
  /\ ClearBoundView
  /\ UNCHANGED <<status, boot>>

(* deactivate(): restores every recorded owner.  Without a record it only  *)
(* clears the binding; a malformed view leaves everything as it is.        *)
Deactivate(validTable) ==
  /\ \/ /\ DOMAIN savedBaselineSlots = {}
        /\ ClearBoundView
        /\ UNCHANGED <<slots, savedBaselineSlots>>
     \/ /\ DOMAIN savedBaselineSlots # {} /\ (~validTable \/ ~bound)
        /\ UNCHANGED managerVars
     \/ /\ DOMAIN savedBaselineSlots # {} /\ validTable /\ bound
        /\ slots' = [pc \in Pc |-> IF pc \in DOMAIN savedBaselineSlots
                                   THEN savedBaselineSlots[pc] ELSE slots[pc]]
        /\ savedBaselineSlots' = <<>>
        /\ ClearBoundView
  /\ UNCHANGED <<status, boot>>

(* PS2Runtime::replaceFunction (external) writes a slot behind the         *)
(* manager's back: HLE registration, or the stale owner the tests plant.   *)
ReplaceFunction(pc, owner) ==
  /\ slots' = [slots EXCEPT ![pc] = owner]
  /\ boot' = IF pc \in baselineCaptured THEN boot ELSE [boot EXCEPT ![pc] = owner]
  /\ UNCHANGED <<savedBaselineSlots, baselineCaptured, bound, activeRanges,
                 activeGenerationEntry, activeFunctionCount, status>>

ManagerInit ==
  /\ slots \in [Pc -> Owner \cup {NoOwner}]
  /\ boot = slots
  /\ savedBaselineSlots = <<>>
  /\ baselineCaptured = {}
  /\ bound = FALSE
  /\ activeRanges = <<>>
  /\ activeGenerationEntry = 0
  /\ activeFunctionCount = 0
  /\ status = "None"

ManagerNext ==
  \/ \E r \in Requests : Activate(r)
  \/ \E validTable \in BOOLEAN : Deactivate(validTable)
  \/ \E pc \in Pc, owner \in Owner : ReplaceFunction(pc, owner)

ManagerSpec == ManagerInit /\ [][ManagerNext]_vars

----------------------------------------------------------------------------
Success == {"Activated", "AlreadyActive"}

Status == Success \cup {"None", "InvalidTable", "InvalidGeneration", "InvalidEntry",
            "InvalidMaterializedRange", "OverlappingMaterializedRange", "DuplicatePc",
            "EntryOutsideMaterializedRange", "GenerationEntryMissing"}

(* The manager's variables have their types.                               *)
ManagerTypeOK ==
  /\ slots \in [Pc -> Owner \cup {NoOwner}]
  /\ boot \in [Pc -> Owner \cup {NoOwner}]
  /\ DOMAIN savedBaselineSlots \subseteq Pc
  /\ \A pc \in DOMAIN savedBaselineSlots : savedBaselineSlots[pc] \in Owner \cup {NoOwner}
  /\ baselineCaptured \subseteq Pc
  /\ bound \in BOOLEAN
  /\ activeRanges \in Seq(MaterializedRange)
  /\ activeGenerationEntry \in Nat
  /\ activeFunctionCount \in Nat
  /\ status \in Status

(* What activate() relies on from call to call: the capture bits and the   *)
(* saved list describe the same slots, the active generation's ranges have *)
(* all been captured, and a table is bound exactly when something was.     *)
RecordsAgree ==
  /\ baselineCaptured = DOMAIN savedBaselineSlots
  /\ Covered(activeRanges) \subseteq baselineCaptured
  /\ bound <=> baselineCaptured # {}
  /\ bound <=> activeGenerationEntry # 0

(* However many overlapping generations were activated, refused or         *)
(* repaired in between, the saved owner of a touched slot is the one it    *)
(* had before the first touch, and an untouched slot still has its owner.  *)
BaselineExact ==
  /\ \A pc \in DOMAIN savedBaselineSlots : savedBaselineSlots[pc] = boot[pc]
  /\ \A pc \in Pc \ DOMAIN savedBaselineSlots : slots[pc] = boot[pc]

(* deactivate() returns to the exact original boot/HLE owners, on every    *)
(* slot of the table, also after a slot was corrupted in between.          *)
DeactivateRestoresBoot == [][bound /\ ~bound' => slots' = boot]_vars

(* After a successful activation, AlreadyActive included, the ranges hold  *)
(* the requested callable entries and no other owner, and no slot outside  *)
(* them was written: the owners of bytes still resident stay.              *)
ActivationOwnsItsRanges ==
  [][status' \in Success => \A r \in Requests : KeepActive(r) \/ Materialize(r) =>
       /\ \A pc \in Covered(r.ranges) : slots'[pc] = ExpectedOwner(r.entries, pc)
       /\ \A pc \in Pc \ Covered(r.ranges) : slots'[pc] = slots[pc]]_vars
============================================================================
