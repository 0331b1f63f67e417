--------------------------- MODULE OverlayProofs ---------------------------
(***************************************************************************)
(* Overlay dispatch.  Of Rac1OverlayDispatchManager, for every table,      *)
(* owner set and request set: the types, the agreement of its records, and *)
(* the exact restoration of the boot table.  Of the materializer bridge    *)
(* over it, for every set of generations and compiled modules that satisfy *)
(* the named assumptions: which functions the dispatch table may offer     *)
(* over bytes of another image, and that the presentation thread never     *)
(* reads an inconsistent snapshot.                                         *)
(***************************************************************************)
EXTENDS OverlayBridge, TLAPS

(* The status of a refused or accepted request is one of the named ones.   *)
LEMMA ValidateStatus ==
  ASSUME NEW r PROVE Validate(r) \in (Status \ {"None"}) \cup {"Valid"}
<1>1. RangesStatus(r.ranges) \in
        {"Valid", "InvalidMaterializedRange", "OverlappingMaterializedRange"}
  BY Zenon DEF RangesStatus
<1>2. EntriesStatus(r.entries, r.ranges) \in
        {"Valid", "InvalidEntry", "DuplicatePc", "EntryOutsideMaterializedRange"}
  BY Zenon DEF EntriesStatus
<1> QED
  BY <1>1, <1>2 DEF Validate, Status, Success

(* What a request that passed every test is known to satisfy.              *)
LEMMA ValidRequest ==
  ASSUME NEW r \in Request, Validate(r) = "Valid"
  PROVE  /\ r.validTable
         /\ r.generation # 0
         /\ \A i \in DOMAIN r.entries : /\ r.entries[i].pc \in Covered(r.ranges)
                                        /\ r.entries[i].function \in Owner
         /\ Covered(r.ranges) # {}
<1>1. /\ r.validTable /\ r.generation # 0
      /\ EntriesStatus(r.entries, r.ranges) = "Valid"
      /\ HasEntry(r.generation, r.entries)
  <2>1. RangesStatus(r.ranges) = "Valid" \/ RangesStatus(r.ranges) # "Valid"
    OBVIOUS
  <2> QED
    BY <2>1 DEF Validate
<1>2. \A i \in DOMAIN r.entries : /\ ~IllFormedEntry(r.entries[i])
                                  /\ PcInsideRanges(r.entries[i].pc, r.ranges)
  BY <1>1 DEF EntriesStatus
<1>3. \A i \in DOMAIN r.entries : r.entries[i] \in FunctionEntry
  BY DEF Request
<1>4. \A i \in DOMAIN r.entries : /\ r.entries[i].pc \in Covered(r.ranges)
                                  /\ r.entries[i].function \in Owner
  BY <1>2, <1>3 DEF IllFormedEntry, Covered, FunctionEntry
<1>5. Covered(r.ranges) # {}
  BY <1>1, <1>4 DEF HasEntry
<1> QED
  BY <1>1, <1>4, <1>5

LEMMA ExpectedOwnerType ==
  ASSUME NEW r \in Request, NEW pc
  PROVE  ExpectedOwner(r.entries, pc) \in Owner \cup {NoOwner}
<1>1. \A i \in DOMAIN r.entries : r.entries[i].function \in Owner \cup {NoOwner}
  <2>1. \A i \in DOMAIN r.entries : r.entries[i] \in FunctionEntry
    BY DEF Request
  <2> QED
    BY <2>1 DEF FunctionEntry
<1>2. CASE HasEntry(pc, r.entries)
  <2>1. (CHOOSE i \in DOMAIN r.entries : r.entries[i].pc = pc) \in DOMAIN r.entries
    BY <1>2 DEF HasEntry
  <2> QED
    BY <1>1, <1>2, <2>1 DEF ExpectedOwner
<1>3. CASE ~HasEntry(pc, r.entries)
  BY <1>3 DEF ExpectedOwner
<1> QED
  BY <1>2, <1>3

----------------------------------------------------------------------------
(* The inductive invariant: types, agreement of the records, and the       *)
(* history that says what restoring them gives.                            *)
ManagerInv == ManagerTypeOK /\ RecordsAgree /\ BaselineExact

LEMMA ManagerInitInv == ManagerInit => ManagerInv
<1> SUFFICES ASSUME ManagerInit PROVE ManagerInv
  OBVIOUS
<1>1. Covered(activeRanges) = {}
  BY DEF ManagerInit, Covered, PcInsideRanges
<1>2. ManagerTypeOK
  <2>1. activeRanges \in Seq(MaterializedRange)
    BY DEF ManagerInit
  <2>2. DOMAIN savedBaselineSlots = {}
    BY DEF ManagerInit
  <2> QED
    BY <2>1, <2>2 DEF ManagerInit, ManagerTypeOK, Status
<1>3. RecordsAgree
  BY <1>1 DEF ManagerInit, RecordsAgree
<1>4. BaselineExact
  BY DEF ManagerInit, BaselineExact
<1> QED
  BY <1>2, <1>3, <1>4 DEF ManagerInv

LEMMA ActivateInv ==
  ASSUME ManagerInv, NEW r \in Request, Activate(r)
  PROVE  ManagerInv'
<1> USE DEF ManagerInv
<1>1. CASE Reject(r)
  <2>1. status' \in Status
    BY <1>1, ValidateStatus DEF Reject
  <2> QED
    BY <1>1, <2>1 DEF Activate, Reject, managerVars, ManagerTypeOK, RecordsAgree,
                      BaselineExact, Covered
<1>2. CASE KeepActive(r)
  BY <1>2 DEF Activate, KeepActive, managerVars, ManagerTypeOK, RecordsAgree,
              BaselineExact, Covered, Status, Success
<1>3. CASE Materialize(r)
  <2> DEFINE touched == Covered(r.ranges)
             fresh == touched \ baselineCaptured
  <2>1. /\ r.generation # 0 /\ touched # {}
        /\ \A pc \in Pc : HasEntry(pc, r.entries) => pc \in touched
    BY <1>3, ValidRequest DEF Materialize, HasEntry
  <2>2. touched \subseteq Pc
    BY DEF Covered
  <2>3. /\ DOMAIN savedBaselineSlots' = DOMAIN savedBaselineSlots \cup fresh
        /\ \A pc \in fresh : savedBaselineSlots'[pc] = slots[pc]
        /\ \A pc \in DOMAIN savedBaselineSlots \ fresh :
             savedBaselineSlots'[pc] = savedBaselineSlots[pc]
        /\ baselineCaptured' = baselineCaptured \cup touched
    BY <1>3 DEF Materialize, CaptureBaseline
  <2>4. /\ slots' \in [Pc -> Owner \cup {NoOwner}]
        /\ \A pc \in Pc \ touched : slots'[pc] = slots[pc]
    BY <1>3, <2>1, ExpectedOwnerType DEF Materialize, InstallEntries, ManagerTypeOK
  <2>5. ManagerTypeOK'
    <3>1. r.ranges \in Seq(MaterializedRange) /\ r.generation \in Nat /\ Len(r.entries) \in Nat
      BY DEF Request
    <3> QED
      BY <1>3, <2>2, <2>3, <2>4, <3>1
      DEF Materialize, Activate, ManagerTypeOK, Status, Success
  <2>6. RecordsAgree'
    <3>1. Covered(activeRanges)' = touched
      BY <1>3 DEF Materialize, Covered
    <3> QED
      BY <1>3, <2>1, <2>3, <3>1 DEF Materialize, RecordsAgree
  <2>7. BaselineExact'
    <3>1. boot' = boot
      BY DEF Activate
    <3>2. ASSUME NEW pc \in DOMAIN savedBaselineSlots' PROVE savedBaselineSlots'[pc] = boot[pc]
      BY <2>2, <2>3, <3>2 DEF BaselineExact, RecordsAgree
    <3>3. ASSUME NEW pc \in Pc \ DOMAIN savedBaselineSlots' PROVE slots'[pc] = boot[pc]
      BY <2>3, <2>4, <3>3 DEF BaselineExact, RecordsAgree
    <3> QED
      BY <3>1, <3>2, <3>3 DEF BaselineExact
  <2> QED
    BY <2>5, <2>6, <2>7
<1> QED
  BY <1>1, <1>2, <1>3 DEF Activate

LEMMA DeactivateInv ==
  ASSUME ManagerInv, NEW validTable \in BOOLEAN, Deactivate(validTable)
  PROVE  ManagerInv'
<1> USE DEF ManagerInv
<1>1. CASE UNCHANGED managerVars
  BY <1>1 DEF Deactivate, managerVars, ManagerTypeOK, RecordsAgree, BaselineExact, Covered
<1>2. CASE /\ ClearBoundView
           /\ DOMAIN savedBaselineSlots' = {}
           /\ slots' = [pc \in Pc |-> IF pc \in DOMAIN savedBaselineSlots
                                      THEN savedBaselineSlots[pc] ELSE slots[pc]]
  <2>1. Covered(activeRanges)' = {}
    BY <1>2 DEF ClearBoundView, Covered, PcInsideRanges
  <2>2. ManagerTypeOK'
    <3>1. activeRanges' \in Seq(MaterializedRange)
      BY <1>2 DEF ClearBoundView
    <3> QED
      BY <1>2, <3>1 DEF Deactivate, ClearBoundView, ManagerTypeOK
  <2>3. RecordsAgree'
    BY <1>2, <2>1 DEF ClearBoundView, RecordsAgree
  <2>4. BaselineExact'
    BY <1>2 DEF Deactivate, BaselineExact
  <2> QED
    BY <2>2, <2>3, <2>4
<1>3. CASE /\ DOMAIN savedBaselineSlots = {} /\ ClearBoundView
           /\ UNCHANGED <<slots, savedBaselineSlots>>
  <2>1. slots' = [pc \in Pc |-> slots[pc]]
    BY <1>3 DEF ManagerTypeOK
  <2> QED
    BY <1>2, <1>3, <2>1
<1> QED
  BY <1>1, <1>2, <1>3 DEF Deactivate

LEMMA ReplaceFunctionInv ==
  ASSUME ManagerInv, NEW pc \in Pc, NEW owner \in Owner, ReplaceFunction(pc, owner)
  PROVE  ManagerInv'
<1> USE DEF ManagerInv
<1>1. ManagerTypeOK'
  BY DEF ReplaceFunction, ManagerTypeOK
<1>2. RecordsAgree'
  BY DEF ReplaceFunction, RecordsAgree, Covered
<1>3. BaselineExact'
  BY DEF ReplaceFunction, ManagerTypeOK, RecordsAgree, BaselineExact
<1> QED
  BY <1>1, <1>2, <1>3

LEMMA ManagerStepInv == ManagerInv /\ [ManagerNext]_vars => ManagerInv'
<1> SUFFICES ASSUME ManagerInv, [ManagerNext]_vars PROVE ManagerInv'
  OBVIOUS
<1>1. CASE \E r \in Requests : Activate(r)
  BY <1>1, ActivateInv, RequestAssumption
<1>2. CASE \E validTable \in BOOLEAN : Deactivate(validTable)
  BY <1>2, DeactivateInv
<1>3. CASE \E pc \in Pc, owner \in Owner : ReplaceFunction(pc, owner)
  BY <1>3, ReplaceFunctionInv
<1>4. CASE UNCHANGED vars
  BY <1>4 DEF vars, managerVars, ManagerInv, ManagerTypeOK, RecordsAgree, BaselineExact, Covered
<1> QED
  BY <1>1, <1>2, <1>3, <1>4 DEF ManagerNext

(* Every variable of the manager keeps its type.                           *)
THEOREM ManagerTypeCorrect == ManagerSpec => []ManagerTypeOK
<1>1. ManagerInv => ManagerTypeOK
  BY DEF ManagerInv
<1> QED
  BY ManagerInitInv, ManagerStepInv, <1>1, PTL DEF ManagerSpec

(* The capture bits, the saved list, the binding and the active ranges     *)
(* describe the same slots after any sequence of calls.                    *)
THEOREM ManagerRecordsAgree == ManagerSpec => []RecordsAgree
<1>1. ManagerInv => RecordsAgree
  BY DEF ManagerInv
<1> QED
  BY ManagerInitInv, ManagerStepInv, <1>1, PTL DEF ManagerSpec

(* Saved owners are the pre-overlay ones, untouched slots are unchanged.   *)
THEOREM ManagerBaselineExact == ManagerSpec => []BaselineExact
<1>1. ManagerInv => BaselineExact
  BY DEF ManagerInv
<1> QED
  BY ManagerInitInv, ManagerStepInv, <1>1, PTL DEF ManagerSpec

(* Unbinding the table returns every slot to its pre-overlay owner.        *)
THEOREM ManagerRestoresBoot == ManagerSpec => DeactivateRestoresBoot
<1>1. ManagerInv /\ [ManagerNext]_vars => [bound /\ ~bound' => slots' = boot]_vars
  <2> SUFFICES ASSUME ManagerInv, ManagerNext, bound, ~bound' PROVE slots' = boot
    OBVIOUS
  <2>1. PICK validTable \in BOOLEAN : Deactivate(validTable)
    <3>1. ASSUME NEW r \in Requests, Activate(r) PROVE FALSE
      BY <3>1 DEF Activate, Reject, KeepActive, Materialize, managerVars
    <3>2. ASSUME NEW pc \in Pc, NEW owner \in Owner, ReplaceFunction(pc, owner) PROVE FALSE
      BY <3>2 DEF ReplaceFunction
    <3> QED
      BY <3>1, <3>2 DEF ManagerNext
  <2>2. slots' = [pc \in Pc |-> IF pc \in DOMAIN savedBaselineSlots
                                THEN savedBaselineSlots[pc] ELSE slots[pc]]
    BY <2>1 DEF Deactivate, managerVars, ManagerInv, RecordsAgree
  <2> QED
    BY <2>2 DEF ManagerInv, BaselineExact, ManagerTypeOK
<1> QED
  BY ManagerInitInv, ManagerStepInv, <1>1, PTL DEF ManagerSpec, DeactivateRestoresBoot

(* A successful activation leaves its ranges to the requested entries, and *)
(* the owners of addresses no record of the request covers stay: an entry  *)
(* that passed validation lies inside the request's own ranges.            *)
THEOREM ManagerActivationOwnsItsRanges == ManagerSpec => ActivationOwnsItsRanges
<1>1. ASSUME NEW r \in Requests, KeepActive(r) \/ Materialize(r), NEW pc \in Covered(r.ranges)
      PROVE  slots'[pc] = ExpectedOwner(r.entries, pc)
  <2>1. pc \in Pc
    BY DEF Covered
  <2>2. CASE KeepActive(r)
    BY <2>2 DEF KeepActive, Intact, managerVars
  <2>3. CASE Materialize(r)
    BY <2>1, <2>3 DEF Materialize, InstallEntries, ExpectedOwner
  <2> QED
    BY <1>1, <2>2, <2>3
<1>2. ASSUME NEW r \in Requests, KeepActive(r) \/ Materialize(r), NEW pc \in Pc \ Covered(r.ranges)
      PROVE  slots'[pc] = slots[pc]
  <2>1. CASE KeepActive(r)
    BY <2>1 DEF KeepActive, managerVars
  <2>2. CASE Materialize(r)
    <3>1. r \in Request /\ Validate(r) = "Valid"
      BY <2>2, RequestAssumption DEF Materialize
    <3>2. ~HasEntry(pc, r.entries)
      BY <3>1, <1>2, ValidRequest DEF HasEntry
    <3> QED
      BY <1>2, <2>2, <3>2 DEF Materialize, InstallEntries
  <2> QED
    BY <1>2, <2>1, <2>2
<1>3. [ManagerNext]_vars =>
        [status' \in Success => \A r \in Requests : KeepActive(r) \/ Materialize(r) =>
           /\ \A pc \in Covered(r.ranges) : slots'[pc] = ExpectedOwner(r.entries, pc)
           /\ \A pc \in Pc \ Covered(r.ranges) : slots'[pc] = slots[pc]]_vars
  BY <1>1, <1>2
<1> QED
  BY <1>3, PTL DEF ManagerSpec, ActivationOwnsItsRanges
----------------------------------------------------------------------------
(* The bridge.                                                             *)

(* Where the call in progress stands: the records copied so far hold the   *)
(* generation's bytes, and the loader returns only after the last.         *)
CopyProgress ==
  bridge # "running" =>
    /\ copied \in 0 .. Len(Records[copying])
    /\ bridge = "returned" => copied = Len(Records[copying])
    /\ \A i \in 1 .. copied : \A pc \in Pc :
         Records[copying][i].begin <= pc /\ pc < Records[copying][i].end
           => resident[pc] = copying

(* What an inspection would read now.                                      *)
CountersAgree ==
  /\ successfulActivations <= materializerCalls
  /\ bridge # "running" => successfulActivations < materializerCalls
  /\ activeGenerationEntry # 0 => successfulActivations > 0 /\ activeFunctionCount > 0
  /\ activeGenerationEntry # lastMaterializerGenerationEntry => stopRequested

BridgeInv ==
  /\ BridgeTypeOK
  /\ CopyProgress
  /\ DispatchMatchesMemory
  /\ CountersAgree
  /\ SnapshotConsistent

(* A compiled module's request always passes activate()'s tests.           *)
LEMMA ModuleFacts ==
  ASSUME NEW gen \in Compiled
  PROVE  /\ Module[gen] \in Request
         /\ Validate(Module[gen]) = "Valid"
         /\ Module[gen].ranges = Records[gen]
         /\ Module[gen].generation = gen
         /\ Len(Module[gen].entries) > 0
         /\ \A pc : HasEntry(pc, Module[gen].entries) =>
              /\ pc \in Covered(Records[gen])
              /\ LET owner == ExpectedOwner(Module[gen].entries, pc) IN
                 /\ owner \in Owner
                 /\ Image[owner] = gen /\ Body[owner] \subseteq Covered(Records[gen])
<1> DEFINE r == Module[gen]
<1>1. r \in Request /\ Validate(r) = "Valid" /\ r.ranges = Records[gen] /\ r.generation = gen
  BY ModuleAssumption
<1>2. r.entries # <<>>
  BY <1>1 DEF Validate
<1>3. Len(r.entries) > 0
  BY <1>1, <1>2 DEF Request
<1>4. ASSUME NEW pc, HasEntry(pc, r.entries)
      PROVE  \E i \in DOMAIN r.entries :
               r.entries[i].pc = pc /\ ExpectedOwner(r.entries, pc) = r.entries[i].function
  BY <1>4 DEF ExpectedOwner, HasEntry
<1>5. ASSUME NEW pc, HasEntry(pc, r.entries)
      PROVE  /\ pc \in Covered(Records[gen])
             /\ LET owner == ExpectedOwner(r.entries, pc) IN
                /\ owner \in Owner
                /\ Image[owner] = gen /\ Body[owner] \subseteq Covered(Records[gen])
  <2>1. PICK i \in DOMAIN r.entries :
               r.entries[i].pc = pc /\ ExpectedOwner(r.entries, pc) = r.entries[i].function
    BY <1>4, <1>5
  <2>2. /\ Image[r.entries[i].function] = gen
        /\ Body[r.entries[i].function] \subseteq Covered(Records[gen])
    BY ModuleAssumption
  <2>3. pc \in Covered(Records[gen]) /\ r.entries[i].function \in Owner
    BY <1>1, <2>1, ValidRequest
  <2> QED
    BY <2>1, <2>2, <2>3
<1> QED
  BY <1>1, <1>3, <1>5

LEMMA BridgeInitInv == BridgeInit => BridgeInv
<1> SUFFICES ASSUME BridgeInit PROVE BridgeInv
  OBVIOUS
<1>1. ManagerTypeOK
  BY ManagerInitInv DEF BridgeInit, ManagerInv
<1>2. activeGenerationEntry = 0 /\ activeFunctionCount = 0
  BY DEF BridgeInit, ManagerInit
<1>3. BridgeTypeOK
  BY <1>1, <1>2 DEF BridgeInit, BridgeTypeOK, InspectedState
<1>5. CopyProgress
  BY DEF BridgeInit, CopyProgress
<1>6. DispatchMatchesMemory
  <2> SUFFICES ASSUME NEW pc \in Pc, slots[pc] # NoOwner, NEW word \in Body[slots[pc]]
               PROVE  resident[word] = Image[slots[pc]]
    BY DEF DispatchMatchesMemory
  <2>1. <<pc, slots[pc]>> \in BootOwners
    BY DEF BridgeInit
  <2>2. Image[slots[pc]] = Boot /\ slots[pc] \in Owner
    BY <2>1, BridgeAssumption
  <2> QED
    BY <2>2, BridgeAssumption DEF BridgeInit
<1>7. CountersAgree /\ SnapshotConsistent
  BY <1>2 DEF BridgeInit, CountersAgree, SnapshotConsistent, InspectedState
<1> QED
  BY <1>3, <1>5, <1>6, <1>7 DEF BridgeInv

LEMMA MissingFallbackInv == BridgeInv /\ MissingFallback => BridgeInv'
<1> SUFFICES ASSUME BridgeInv, MissingFallback PROVE BridgeInv'
  OBVIOUS
<1>1. /\ UNCHANGED <<vars, bridgeVars, fallback, counters, snapshot>>
      /\ stopRequested' = TRUE
  BY DEF MissingFallback
<1>2. ManagerTypeOK'
  BY <1>1 DEF BridgeInv, BridgeTypeOK, ManagerTypeOK, vars, managerVars
<1>3. BridgeTypeOK'
  BY <1>1, <1>2 DEF BridgeInv, BridgeTypeOK, bridgeVars, counters
<1>4. CopyProgress'
  BY <1>1 DEF BridgeInv, CopyProgress, bridgeVars
<1>5. DispatchMatchesMemory'
  BY <1>1 DEF DispatchMatchesMemory
<1>6. CountersAgree' /\ SnapshotConsistent'
  BY <1>1 DEF BridgeInv, CountersAgree, SnapshotConsistent, vars, managerVars, bridgeVars,
              counters
<1> QED
  BY <1>3, <1>4, <1>5, <1>6 DEF BridgeInv

LEMMA EnterBridgeInv ==
  ASSUME BridgeInv, NEW gen \in Generation, EnterBridge(gen)
  PROVE  BridgeInv'
<1>1. /\ UNCHANGED vars /\ resident' = resident /\ stopRequested' = stopRequested
      /\ bridge = "running" /\ bridge' = "copying" /\ copying' = gen /\ copied' = 0
  BY DEF EnterBridge
<1>2. ManagerTypeOK'
  BY <1>1 DEF BridgeInv, BridgeTypeOK, ManagerTypeOK, vars, managerVars
<1>3. BridgeTypeOK'
  BY <1>2 DEF BridgeInv, BridgeTypeOK, EnterBridge
<1>5. CopyProgress'
  <2>1. Len(Records[gen]) \in Nat
    BY BridgeAssumption
  <2> QED
    BY <1>1, <2>1 DEF CopyProgress
<1>6. DispatchMatchesMemory'
  BY <1>1 DEF BridgeInv, DispatchMatchesMemory, Overwritten, vars, managerVars
<1>7. CountersAgree' /\ SnapshotConsistent'
  BY DEF BridgeInv, CountersAgree, SnapshotConsistent, EnterBridge, BridgeTypeOK, vars, managerVars
<1> QED
  BY <1>3, <1>5, <1>6, <1>7 DEF BridgeInv

LEMMA CopyRecordInv == BridgeInv /\ CopyRecord => BridgeInv'
<1> SUFFICES ASSUME BridgeInv, CopyRecord PROVE BridgeInv'
  OBVIOUS
<1> DEFINE record == Records[copying][copied + 1]
           Written(pc) == record.begin <= pc /\ pc < record.end
<1>1. /\ UNCHANGED <<vars, bridge, copying, fallback, stopRequested, counters, snapshot>>
      /\ bridge = "copying" /\ copied' = copied + 1 /\ copied < Len(Records[copying])
      /\ copying \in Generation /\ copied \in Nat
  BY DEF CopyRecord, BridgeInv, BridgeTypeOK
<1>2. resident' = [pc \in Pc |-> IF Written(pc) THEN copying ELSE resident[pc]]
  BY DEF CopyRecord, PcInsideRanges
<1>3. Records[copying] \in Seq(MaterializedRange)
  BY <1>1, BridgeAssumption
<1>4. copied + 1 \in DOMAIN Records[copying]
  BY <1>1, <1>3
<1>5. ManagerTypeOK'
  BY <1>1 DEF BridgeInv, BridgeTypeOK, ManagerTypeOK, vars, managerVars
<1>6. BridgeTypeOK'
  BY <1>1, <1>2, <1>5 DEF BridgeInv, BridgeTypeOK, counters
<1>8. CopyProgress'
  <2>1. copied' \in 0 .. Len(Records[copying])
    BY <1>1, <1>3
  <2>2. ASSUME NEW i \in 1 .. copied + 1, NEW pc \in Pc,
               Records[copying][i].begin <= pc, pc < Records[copying][i].end
        PROVE  resident'[pc] = copying
    <3>1. CASE i = copied + 1
      BY <1>2, <2>2, <3>1
    <3>2. CASE i # copied + 1
      <4>1. i \in 1 .. copied
        BY <1>1, <3>2
      <4>2. resident[pc] = copying
        BY <1>1, <2>2, <4>1 DEF BridgeInv, CopyProgress
      <4> QED
        BY <1>2, <4>2
    <3> QED
      BY <3>1, <3>2
  <2> QED
    BY <1>1, <2>1, <2>2 DEF CopyProgress
<1>9. DispatchMatchesMemory'
  <2> SUFFICES ASSUME ~stopRequested, NEW pc \in Pc, slots[pc] # NoOwner,
                      NEW word \in Body[slots[pc]]
               PROVE  \/ resident'[word] = Image[slots[pc]]
                      \/ word \in Overwritten'
                      \/ /\ resident'[word] \in Generation
                         /\ pc \notin Covered(Records[resident'[word]])
    BY <1>1 DEF DispatchMatchesMemory, vars, managerVars
  <2>1. word \in Pc
    <3>1. slots[pc] \in Owner
      BY DEF BridgeInv, BridgeTypeOK, ManagerTypeOK
    <3> QED
      BY <3>1, BridgeAssumption
  <2>2. Overwritten' = {w \in Pc : \E i \in 1 .. copied + 1 :
                          /\ Records[copying][i].begin <= w
                          /\ w < Records[copying][i].end}
    BY <1>1 DEF Overwritten
  <2>3. CASE Written(word)
    <3>1. copied + 1 \in 1 .. copied + 1
      BY <1>1
    <3> QED
      BY <2>1, <2>2, <2>3, <3>1
  <2>4. CASE ~Written(word)
    <3>1. resident'[word] = resident[word]
      BY <1>2, <2>1, <2>4
    <3>2. Overwritten \subseteq Overwritten'
      BY <1>1, <2>2 DEF Overwritten
    <3> QED
      BY <3>1, <3>2 DEF BridgeInv, DispatchMatchesMemory
  <2> QED
    BY <2>3, <2>4
<1>10. CountersAgree' /\ SnapshotConsistent'
  BY <1>1 DEF BridgeInv, CountersAgree, SnapshotConsistent, vars, managerVars, counters
<1> QED
  BY <1>6, <1>8, <1>9, <1>10 DEF BridgeInv

LEMMA LoaderReturnsInv == BridgeInv /\ LoaderReturns => BridgeInv'
<1> SUFFICES ASSUME BridgeInv, LoaderReturns PROVE BridgeInv'
  OBVIOUS
<1>1. /\ UNCHANGED <<vars, resident, copying, copied, stopRequested, counters, snapshot>>
      /\ bridge = "copying" /\ bridge' = "returned" /\ copied = Len(Records[copying])
  BY DEF LoaderReturns
<1>2. ManagerTypeOK'
  BY <1>1 DEF BridgeInv, BridgeTypeOK, ManagerTypeOK, vars, managerVars
<1>3. BridgeTypeOK'
  BY <1>2 DEF BridgeInv, BridgeTypeOK, LoaderReturns, counters
<1>5. CopyProgress'
  BY <1>1 DEF BridgeInv, CopyProgress
<1>6. DispatchMatchesMemory'
  BY <1>1 DEF BridgeInv, DispatchMatchesMemory, Overwritten, vars, managerVars
<1>7. CountersAgree' /\ SnapshotConsistent'
  BY <1>1 DEF BridgeInv, CountersAgree, SnapshotConsistent, vars, managerVars, counters
<1> QED
  BY <1>3, <1>5, <1>6, <1>7 DEF BridgeInv

(* A commit that activates a compiled module: its slots now offer the      *)
(* module's entries, whose bodies the loader has just copied, and the rest *)
(* of the table is as it was.                                              *)
LEMMA CommitCompiledInv ==
  ASSUME BridgeInv, Commit, copying \in Compiled
  PROVE  BridgeInv'
<1> DEFINE gen == copying
           r == Module[gen]
           touched == Covered(Records[gen])
<1>1. /\ Activate(r)
      /\ bridge = "returned" /\ bridge' = "running"
      /\ lastMaterializerGenerationEntry' = gen
      /\ UNCHANGED <<resident, copying, copied, fallback, materializerCalls, snapshot>>
      /\ IF status' \in Success
         THEN successfulActivations' = successfulActivations + 1 /\ UNCHANGED stopRequested
         ELSE stopRequested' = TRUE /\ UNCHANGED successfulActivations
  BY DEF Commit, CommitActivation, CommitUnsupported
<1>2. /\ r \in Request /\ Validate(r) = "Valid" /\ r.ranges = Records[gen]
      /\ r.generation = gen /\ Len(r.entries) > 0
  BY ModuleFacts
<1>3. KeepActive(r) \/ Materialize(r)
  BY <1>1, <1>2 DEF Activate, Reject
<1>4. status' \in Success
  BY <1>3 DEF KeepActive, Materialize, Success
<1>5. /\ successfulActivations' = successfulActivations + 1
      /\ stopRequested' = stopRequested
  BY <1>1, <1>4
<1>6. activeGenerationEntry' = gen /\ activeFunctionCount' = Len(r.entries)
  BY <1>2, <1>3 DEF KeepActive, Materialize, Intact, managerVars
<1>7. gen \in Generation /\ gen # 0
  BY BridgeAssumption
<1>8. ASSUME NEW pc \in Pc
      PROVE  slots'[pc] = IF pc \in touched THEN ExpectedOwner(r.entries, pc) ELSE slots[pc]
  <2>1. CASE KeepActive(r)
    BY <1>2, <2>1 DEF KeepActive, Intact, managerVars
  <2>2. CASE Materialize(r)
    <3>1. HasEntry(pc, r.entries) => pc \in touched
      BY ModuleFacts
    <3> QED
      BY <1>2, <2>2, <3>1 DEF Materialize, InstallEntries, ExpectedOwner
  <2> QED
    BY <1>3, <2>1, <2>2
<1>9. ASSUME NEW pc \in touched, slots'[pc] # NoOwner
      PROVE  HasEntry(pc, r.entries) /\ slots'[pc] = ExpectedOwner(r.entries, pc)
  <2>1. pc \in Pc
    BY DEF Covered
  <2> QED
    BY <1>8, <1>9, <2>1 DEF ExpectedOwner
<1>10. BridgeTypeOK'
  <2>1. ManagerTypeOK'
    <3>1. slots' \in [Pc -> Owner \cup {NoOwner}]
      <4>1. CASE KeepActive(r)
        BY <4>1 DEF KeepActive, managerVars, BridgeInv, BridgeTypeOK, ManagerTypeOK
      <4>2. CASE Materialize(r)
        BY <1>2, <4>2, ExpectedOwnerType
        DEF Materialize, InstallEntries, BridgeInv, BridgeTypeOK, ManagerTypeOK
      <4> QED
        BY <1>3, <4>1, <4>2
    <3>2. CASE KeepActive(r)
      BY <1>1, <3>2 DEF KeepActive, Activate, managerVars, BridgeInv, BridgeTypeOK,
                        ManagerTypeOK, Status, Success
    <3>3. CASE Materialize(r)
      <4>1. touched \subseteq Pc
        BY DEF Covered
      <4>2. /\ DOMAIN savedBaselineSlots' \subseteq Pc
            /\ \A pc \in DOMAIN savedBaselineSlots' :
                 savedBaselineSlots'[pc] \in Owner \cup {NoOwner}
            /\ baselineCaptured' \subseteq Pc
        BY <1>2, <3>3, <4>1
        DEF Materialize, CaptureBaseline, BridgeInv, BridgeTypeOK, ManagerTypeOK
      <4>3. r.ranges \in Seq(MaterializedRange) /\ r.generation \in Nat
            /\ Len(r.entries) \in Nat
        BY <1>2 DEF Request
      <4> QED
        BY <1>1, <3>1, <3>3, <4>2, <4>3
        DEF Materialize, Activate, BridgeInv, BridgeTypeOK, ManagerTypeOK, Status, Success
    <3> QED
      BY <1>3, <3>2, <3>3
  <2> QED
    BY <1>1, <1>5, <1>7, <2>1 DEF BridgeInv, BridgeTypeOK
<1>12. CopyProgress'
  BY <1>1 DEF CopyProgress
<1>13. DispatchMatchesMemory'
  <2> SUFFICES ASSUME ~stopRequested, NEW pc \in Pc, slots'[pc] # NoOwner,
                      NEW word \in Body[slots'[pc]]
               PROVE  \/ resident[word] = Image[slots'[pc]]
                      \/ /\ resident[word] \in Generation
                         /\ pc \notin Covered(Records[resident[word]])
    BY <1>1, <1>5 DEF DispatchMatchesMemory
  <2>1. CASE pc \in touched
    <3> DEFINE owner == ExpectedOwner(r.entries, pc)
    <3>0. HasEntry(pc, r.entries) /\ slots'[pc] = owner
      BY <1>9, <2>1
    <3>1. Image[slots'[pc]] = gen /\ word \in touched
      <4>1. Image[owner] = gen /\ Body[owner] \subseteq touched
        BY <3>0, ModuleFacts
      <4> HIDE DEF owner
      <4> QED
        BY <3>0, <4>1
    <3>2. PICK i \in DOMAIN Records[gen] :
            Records[gen][i].begin <= word /\ word < Records[gen][i].end
      BY <3>1 DEF Covered, PcInsideRanges
    <3>3. i \in 1 .. copied
      <4>1. copied = Len(Records[gen]) /\ Records[gen] \in Seq(MaterializedRange)
        BY <1>1, <1>7, BridgeAssumption DEF BridgeInv, CopyProgress
      <4> QED
        BY <4>1
    <3>4. word \in Pc
      BY <3>1 DEF Covered
    <3> QED
      BY <1>1, <3>1, <3>2, <3>3, <3>4 DEF BridgeInv, CopyProgress
  <2>2. CASE pc \notin touched
    <3>1. slots'[pc] = slots[pc]
      BY <1>8, <2>2
    <3>2. CASE word \in Overwritten
      <4>1. resident[word] = gen
        BY <1>1, <3>2 DEF BridgeInv, CopyProgress, Overwritten
      <4> QED
        BY <1>7, <2>2, <4>1
    <3>3. CASE word \notin Overwritten
      BY <3>1, <3>3 DEF BridgeInv, DispatchMatchesMemory
    <3> QED
      BY <3>2, <3>3
  <2> QED
    BY <2>1, <2>2
<1>14. CountersAgree' /\ SnapshotConsistent'
  BY <1>1, <1>2, <1>5, <1>6, <1>7
  DEF BridgeInv, CountersAgree, SnapshotConsistent, BridgeTypeOK
<1> QED
  BY <1>10, <1>12, <1>13, <1>14 DEF BridgeInv

LEMMA CommitUnsupportedInv ==
  ASSUME BridgeInv, Commit, copying \notin Compiled
  PROVE  BridgeInv'
<1>1. /\ UNCHANGED <<vars, successfulActivations>> /\ stopRequested' = TRUE
      /\ bridge = "returned" /\ bridge' = "running"
      /\ lastMaterializerGenerationEntry' = copying
      /\ UNCHANGED <<resident, copying, copied, fallback, materializerCalls, snapshot>>
  BY DEF Commit, CommitActivation, CommitUnsupported
<1>2. ManagerTypeOK'
  BY <1>1 DEF BridgeInv, BridgeTypeOK, ManagerTypeOK, vars, managerVars
<1>3. BridgeTypeOK'
  BY <1>1, <1>2 DEF BridgeInv, BridgeTypeOK
<1>4. CopyProgress' /\ DispatchMatchesMemory'
  BY <1>1 DEF BridgeInv, CopyProgress, DispatchMatchesMemory
<1>5. CountersAgree' /\ SnapshotConsistent'
  BY <1>1 DEF BridgeInv, CountersAgree, SnapshotConsistent, BridgeTypeOK, vars, managerVars
<1> QED
  BY <1>3, <1>4, <1>5 DEF BridgeInv

LEMMA InspectInv == BridgeInv /\ Inspect => BridgeInv'
<1> SUFFICES ASSUME BridgeInv, Inspect PROVE BridgeInv'
  OBVIOUS
<1>1. UNCHANGED <<vars, bridgeVars, fallback, stopRequested, counters>>
      /\ snapshot' = InspectedState
  BY DEF Inspect
<1>2. snapshot' \in [calls : Nat, successes : Nat, last : Nat, active : Nat, functions : Nat]
  <2>1. lastMaterializerGenerationEntry \in Nat
    BY BridgeAssumption DEF BridgeInv, BridgeTypeOK
  <2> QED
    BY <1>1, <2>1 DEF BridgeInv, BridgeTypeOK, ManagerTypeOK, InspectedState
<1>3. BridgeTypeOK'
  <2>1. ManagerTypeOK'
    BY <1>1 DEF BridgeInv, BridgeTypeOK, ManagerTypeOK, vars, managerVars
  <2> QED
    BY <1>1, <1>2, <2>1 DEF BridgeInv, BridgeTypeOK, bridgeVars, counters
<1>4. CopyProgress' /\ DispatchMatchesMemory' /\ CountersAgree'
  BY <1>1 DEF BridgeInv, CopyProgress, DispatchMatchesMemory, Overwritten, CountersAgree,
              vars, managerVars, bridgeVars, counters
<1>5. SnapshotConsistent'
  BY <1>1 DEF BridgeInv, CountersAgree, SnapshotConsistent, InspectedState
<1> QED
  BY <1>3, <1>4, <1>5 DEF BridgeInv

LEMMA BridgeStepInv == BridgeInv /\ [BridgeNext]_allVars => BridgeInv'
<1> SUFFICES ASSUME BridgeInv, [BridgeNext]_allVars PROVE BridgeInv'
  OBVIOUS
<1>1. CASE \E gen \in Generation : EnterBridge(gen)
  BY <1>1, EnterBridgeInv
<1>2. CASE Commit
  BY <1>2, CommitCompiledInv, CommitUnsupportedInv
<1>3. CASE UNCHANGED allVars
  BY <1>3 DEF allVars, vars, managerVars, bridgeVars, counters, BridgeInv, BridgeTypeOK,
              ManagerTypeOK, CopyProgress, DispatchMatchesMemory, Overwritten,
              CountersAgree, SnapshotConsistent
<1> QED
  BY <1>1, <1>2, <1>3, MissingFallbackInv, CopyRecordInv, LoaderReturnsInv, InspectInv
  DEF BridgeNext, GuestStep

(* Every variable of the bridge keeps its type.                            *)
THEOREM BridgeTypeCorrect == BridgeSpec => []BridgeTypeOK
<1>1. BridgeInv => BridgeTypeOK
  BY DEF BridgeInv
<1> QED
  BY BridgeInitInv, BridgeStepInv, <1>1, PTL DEF BridgeSpec

(* A word of an offered function differs from the image the function was   *)
(* compiled from only while the copy in progress has just overwritten it,  *)
(* or after a generation that leaves the function's entry alone did.       *)
THEOREM BridgeDispatchMatchesMemory == BridgeSpec => []DispatchMatchesMemory
<1>1. BridgeInv => DispatchMatchesMemory
  BY DEF BridgeInv
<1> QED
  BY BridgeInitInv, BridgeStepInv, <1>1, PTL DEF BridgeSpec

(* What the presentation thread reads is consistent, whenever it reads.    *)
THEOREM BridgeSnapshotConsistent == BridgeSpec => []SnapshotConsistent
<1>1. BridgeInv => SnapshotConsistent
  BY DEF BridgeInv
<1> QED
  BY BridgeInitInv, BridgeStepInv, <1>1, PTL DEF BridgeSpec
============================================================================
