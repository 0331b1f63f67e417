------------------------------ MODULE LiveState ------------------------------
(***************************************************************************)
(* The read-only inspectors of guest memory: the moby pool, the class      *)
(* registry, Ratchet's control state and transform, the camera, the sky.   *)
(*                                                                         *)
(* Memory is a record of what the inspectors read.  A pointer is a number, *)
(* 0 is null, and a range is inside RDRAM when it ends at or before        *)
(* RamSize; what a pointer leads to is a function of the pointer.  RDRAM   *)
(* holds every fixed global, so GuestMemoryTooSmall never occurs.  Numbers *)
(* of a group of floats are reduced to what is tested: "zero", "set",      *)
(* "nonfinite".                                                            *)
(***************************************************************************)
EXTENDS Integers, Sequences, FiniteSets

CONSTANTS
  RamSize,      \* end of RDRAM
  Capacity,     \* slots of the moby pool
  MapBytes,     \* oClass values the registry map has a byte for
  MaxShells     \* kProvedShellTransformCount

ASSUME LiveStateAssumption == {RamSize, Capacity, MapBytes, MaxShells} \subseteq Nat \ {0}

Slot == 1 .. Capacity
End == -1             \* traversal state of the slot that ends the pool
Unregistered == 255

InRam(address, length) == address + length <= RamSize
Dereferences(pointer, length) == pointer # 0 /\ InRam(pointer, length)

----------------------------------------------------------------------------
(* inspectRac1LiveMobyPool                                                 *)
PoolLayoutStatus(mem) ==
  IF mem.base = 0 THEN "PoolNotInitialized"
  ELSE IF ~InRam(mem.base, Capacity) THEN "PoolRangeOutOfRange"
  ELSE IF mem.last # mem.base + Capacity - 1 THEN "PoolLastSlotMismatch"
  ELSE "Ok"

Terminators(mem) == {s \in Slot : mem.moby[s].state = End}
SlotsBeforeTerminator(mem) ==
  Cardinality({s \in Slot : \A t \in Terminators(mem) : s < t})

\* Stale slots behind the terminator are not read.
PoolRecord(mem, s) ==
  [address |-> mem.base + s - 1, active |-> mem.moby[s].state >= 0, moby |-> mem.moby[s]]

WholePoolRecords(mem) ==    \* Mistake: the walk does not stop at the terminator.
  IF PoolLayoutStatus(mem) # "Ok" THEN <<>> ELSE [s \in Slot |-> PoolRecord(mem, s)]

PoolRecords(mem) ==
  IF PoolLayoutStatus(mem) # "Ok" THEN <<>>
  ELSE [s \in 1 .. SlotsBeforeTerminator(mem) |-> PoolRecord(mem, s)]

ActiveIn(records) == {i \in DOMAIN records : records[i].active}
SkippedIn(records) == {i \in DOMAIN records : records[i].moby.state < 0}
RatchetsIn(records) == {i \in ActiveIn(records) : records[i].moby.oClass = 0}

Pool(mem) ==
  [status   |-> IF PoolLayoutStatus(mem) = "Ok" /\ Terminators(mem) = {}
                THEN "MissingTraversalTerminator" ELSE PoolLayoutStatus(mem),
   records  |-> PoolRecords(mem),
   slotsBeforeTerminator |-> IF PoolLayoutStatus(mem) = "Ok"
                             THEN SlotsBeforeTerminator(mem) ELSE 0,
   traversed |-> Cardinality(ActiveIn(PoolRecords(mem))),
   skipped   |-> Cardinality(SkippedIn(PoolRecords(mem))),
   ratchets  |-> Cardinality(RatchetsIn(PoolRecords(mem)))]

\* The inspectors ask for it when there is exactly one.
RatchetOf(pool) == pool.records[CHOOSE i \in RatchetsIn(pool.records) : TRUE]

----------------------------------------------------------------------------
(* inspectRac1LiveMobyClassRegistry.  mem.registry maps an oClass to its   *)
(* registry slot, mem.classTable a slot to the class pointer.              *)
RegistryEntry(mem, record) ==
  LET oClass == record.moby.oClass IN
  [oClass |-> oClass,
   status |-> IF oClass < 0 \/ oClass >= MapBytes THEN "OClassOutOfRange"
              ELSE IF mem.registry[oClass] = Unregistered THEN "UnregisteredOClass"
              ELSE IF mem.classTable[mem.registry[oClass]] = record.moby.class
              THEN "Ok" ELSE "ClassPointerMismatch"]

NoRegistry == [status |-> "PoolUnavailable", records |-> 0, active |-> 0, inactive |-> 0,
               entries |-> <<>>]

ClassRegistry(mem, pool) ==
  IF pool.status # "Ok" THEN NoRegistry ELSE
  LET actives == ActiveIn(pool.records)
      inactive == Len(pool.records) - Cardinality(actives)
      matches == /\ Len(pool.records) = pool.slotsBeforeTerminator
                 /\ Cardinality(actives) = pool.traversed /\ inactive = pool.skipped
  IN [status   |-> IF matches THEN "Ok" ELSE "AccountingMismatch",
      records  |-> Len(pool.records), active |-> Cardinality(actives), inactive |-> inactive,
      entries  |-> [i \in actives |-> RegistryEntry(mem, pool.records[i])]]

----------------------------------------------------------------------------
(* inspectRac1LiveRatchetControlState: moby -> PVar -> lifecycle state,    *)
(* which must point back.  The companion at +0x48 is only a diagnostic.    *)
ControlStatus(mem, pool) ==
  IF pool.status # "Ok" THEN "PoolUnavailable"
  ELSE IF pool.ratchets # 1 THEN "RatchetNotUnique"
  ELSE LET ratchet == RatchetOf(pool)
           pvar == ratchet.moby.pvar
           state == mem.stateOf[pvar]
       IN IF pvar = 0 THEN "PVarUnavailable"
          ELSE IF ~InRam(pvar, 1) THEN "PVarOutOfRange"
          ELSE IF state = 0 THEN "StateUnavailable"
          ELSE IF ~InRam(state, 1) THEN "StateOutOfRange"
          ELSE IF mem.ownerOf[state] # ratchet.address THEN "StateRatchetMismatch"
          ELSE "Ok"

ControlState(mem, pool) ==
  [status  |-> ControlStatus(mem, pool),
   ratchet |-> IF pool.status = "Ok" /\ pool.ratchets = 1 THEN RatchetOf(pool).address ELSE 0]

----------------------------------------------------------------------------
(* inspectRac1LiveRatchetWorldTransform                                    *)
TransformStatus(pool) ==
  IF pool.status # "Ok" THEN "PoolNotReady"
  ELSE IF pool.ratchets = 0 THEN "RatchetNotFound"
  ELSE IF pool.ratchets # 1 THEN "MultipleRatchets"
  ELSE LET moby == RatchetOf(pool).moby IN
       IF moby.placement # "set" THEN "NonFinite"    \* position, scale or rotation input
       ELSE IF moby.basis = "zero" THEN "RotationBasisNotMaterialized"
       ELSE IF moby.basis = "nonfinite" THEN "NonFiniteRotationBasis"
       ELSE "Ok"

Transform(pool) ==
  LET unique == pool.status = "Ok" /\ pool.ratchets = 1 IN
  [status |-> TransformStatus(pool), candidates |-> IF pool.status = "Ok" THEN pool.ratchets ELSE 0,
   moby   |-> IF unique THEN RatchetOf(pool).address ELSE 0,
   oClass |-> IF unique THEN RatchetOf(pool).moby.oClass ELSE 0]

----------------------------------------------------------------------------
(* inspectRac1LiveCamera                                                   *)
CameraStatus(mem) ==
  IF mem.camera.position = "nonfinite" THEN "NonFinitePosition"
  ELSE IF mem.camera.orientation = "nonfinite" THEN "NonFiniteOrientation"
  ELSE IF mem.camera.clip = "nonfinite" THEN "NonFiniteClipTransform"
  ELSE IF mem.camera.orientation = "zero" THEN "OrientationNotMaterialized"
  ELSE IF mem.camera.clip = "zero" THEN "ClipTransformNotMaterialized"
  ELSE "Ok"

----------------------------------------------------------------------------
(* inspectRac1LiveSky.  A sky in memory is its shell count and the shells' *)
(* pointers; a shell is its cluster count and flags.                       *)
ShellTableStatus(mem) ==
  LET sky == mem.sky[mem.skyPointer] IN
  IF mem.skyPointer = 0 THEN "SkyPointerNotMaterialized"
  ELSE IF ~InRam(mem.skyPointer, 1) THEN "SkyPointerOutOfRange"
  ELSE IF sky.count = 0 THEN "ShellCountNotMaterialized"
  ELSE IF sky.count < 0 \/ sky.count > MaxShells THEN "UnsupportedShellCount"
  ELSE IF ~InRam(mem.skyPointer, 1 + sky.count) THEN "SkyPointerOutOfRange"
  ELSE IF \E i \in 1 .. sky.count : ~Dereferences(sky.shells[i], 1) THEN "ShellPointerOutOfRange"
  ELSE "Ok"

SkyPlacementStatus(mem) ==
  IF mem.skyAngle = "nonfinite" THEN "NonFiniteBaseAngle"
  ELSE IF mem.skyTranslation = "nonfinite" THEN "NonFiniteTranslation"
  ELSE IF mem.skyTranslation = "zero" THEN "TranslationNotMaterialized"
  ELSE IF mem.skyTranslation = "wrongW" THEN "InvalidTranslationW"
  ELSE "Ok"

LiveShell(mem, pointer) ==
  [at |-> pointer, clusters |-> mem.shell[pointer].clusters, flags |-> mem.shell[pointer].flags]

Sky(mem) ==
  LET materialized == ShellTableStatus(mem) = "Ok"
      sky == mem.sky[mem.skyPointer]
  IN [status   |-> IF materialized THEN SkyPlacementStatus(mem) ELSE ShellTableStatus(mem),
      identityMaterialized |-> materialized,
      address  |-> mem.skyPointer,
      shells   |-> IF materialized
                   THEN [i \in 1 .. sky.count |-> LiveShell(mem, sky.shells[i])]
                   ELSE <<>>]

SkyDeferredStatuses == {"SkyPointerNotMaterialized", "ShellCountNotMaterialized",
                        "TranslationNotMaterialized"}
=============================================================================
