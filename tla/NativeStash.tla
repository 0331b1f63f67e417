----------------------------- MODULE NativeStash -----------------------------
(***************************************************************************)
(* rac1_native_stash: the four replacements of the resource stash, over    *)
(* host memory.  Slots are numbered upwards and reused only after the next *)
(* initialize.  Each handler runs under g_stashMutex on the guest thread   *)
(* and is one action.  Addresses count 16-byte units like the lengths do.  *)
(***************************************************************************)
EXTENDS Integers

CONSTANTS
  RamUnits,     \* kGuestRamBytes / kUnitBytes
  Value,        \* contents a unit can have
  SlotCount,    \* kSlotCount
  MaxWord       \* largest 32-bit register value; a read of MaxWord units is "the whole slot"

ASSUME StashAssumption ==
  /\ RamUnits \in Nat /\ SlotCount \in Nat
  /\ MaxWord \in Nat /\ RamUnits < MaxWord /\ SlotCount <= MaxWord

VARIABLES
  rdram,      \* guest RAM, by unit
  slots,      \* g_stash.slots
  nextSlot,   \* g_stash.nextSlot
  v0          \* the handler's answer

stashVars == <<rdram, slots, nextSlot, v0>>

Word == 0 .. MaxWord
Unit == 0 .. RamUnits - 1
SlotIndex == 0 .. SlotCount - 1

OutOfSpace == -1
NoSlot == -2
InvalidSlot == -3

EmptySlot == [reservedUnits |-> 0, copiedUnits |-> 0, bytes |-> <<>>]

----------------------------------------------------------------------------
CheckedUnits(units) == units <= RamUnits

GuestRangeValid(address, units) == address <= RamUnits /\ units <= RamUnits - address

ResetNextOnly ==    \* Mistake: the slots keep their contents.
  nextSlot' = 0 /\ UNCHANGED <<slots, rdram, v0>>

Initialize ==
  /\ slots' = [i \in SlotIndex |-> EmptySlot]
  /\ nextSlot' = 0
  /\ UNCHANGED <<rdram, v0>>

StoreFits(source, copyUnits, reservedUnits) ==
  /\ CheckedUnits(copyUnits) /\ CheckedUnits(reservedUnits)
  /\ copyUnits <= reservedUnits
  /\ GuestRangeValid(source, copyUnits)

HasSlotLate == nextSlot <= SlotCount    \* Mistake: off by one.

HasSlot == nextSlot < SlotCount

Staged(source, copyUnits, reservedUnits) ==
  [reservedUnits |-> reservedUnits, copiedUnits |-> copyUnits,
   bytes |-> [k \in 0 .. copyUnits - 1 |-> rdram[source + k]]]

(* The range is checked before the free slot.                              *)
Store(source, copyUnits, reservedUnits) ==
  /\ IF StoreFits(source, copyUnits, reservedUnits) /\ HasSlot
     THEN /\ slots' = [slots EXCEPT ![nextSlot] = Staged(source, copyUnits, reservedUnits)]
          /\ nextSlot' = nextSlot + 1
          /\ v0' = nextSlot
     ELSE /\ v0' = IF StoreFits(source, copyUnits, reservedUnits) THEN NoSlot ELSE OutOfSpace
          /\ UNCHANGED <<slots, nextSlot>>
  /\ UNCHANGED rdram

----------------------------------------------------------------------------
Wanted(slot, readUnits) == IF readUnits = MaxWord THEN slot.reservedUnits ELSE readUnits

AvailableShort(slot, offset, units) == offset + units < slot.copiedUnits    \* Mistake: off by one.

\* The sum is taken in 64 bits.
Available(slot, offset, units) ==
  offset + units <= slot.reservedUnits /\ offset + units <= slot.copiedUnits

ReadStatus(destination, i, offset, readUnits, rpcMode) ==
  IF i >= SlotCount THEN OutOfSpace
  ELSE IF slots[i].reservedUnits = 0 THEN InvalidSlot
  ELSE LET units == Wanted(slots[i], readUnits) IN
       IF /\ rpcMode = 0 /\ Available(slots[i], offset, units)
          /\ CheckedUnits(offset) /\ CheckedUnits(units)
          /\ GuestRangeValid(destination, units)
       THEN 0 ELSE OutOfSpace

Read(destination, i, offset, readUnits, rpcMode) ==
  /\ v0' = ReadStatus(destination, i, offset, readUnits, rpcMode)
  /\ IF v0' = 0
     THEN LET units == Wanted(slots[i], readUnits) IN
          rdram' = [u \in Unit |-> IF destination <= u /\ u < destination + units
                                   THEN slots[i].bytes[offset + (u - destination)]
                                   ELSE rdram[u]]
     ELSE UNCHANGED rdram
  /\ UNCHANGED <<slots, nextSlot>>

Size(i) ==
  /\ v0' = IF i >= SlotCount THEN InvalidSlot ELSE slots[i].reservedUnits
  /\ UNCHANGED <<rdram, slots, nextSlot>>

(* Retail code goes on writing its memory (external).                      *)
GuestWrite(u, value) ==
  /\ rdram' = [rdram EXCEPT ![u] = value]
  /\ UNCHANGED <<slots, nextSlot, v0>>

StashInit ==
  /\ rdram \in [Unit -> Value]
  /\ slots = [i \in SlotIndex |-> EmptySlot]
  /\ nextSlot = 0
  /\ v0 = 0

StashNext ==
  \/ Initialize
  \/ \E source, copyUnits, reservedUnits \in Word : Store(source, copyUnits, reservedUnits)
  \/ \E destination, i, offset, readUnits \in Word, rpcMode \in {0, 1} :
       Read(destination, i, offset, readUnits, rpcMode)
  \/ \E i \in Word : Size(i)
  \/ \E u \in Unit, value \in Value : GuestWrite(u, value)

StashSpec == StashInit /\ [][StashNext]_stashVars

----------------------------------------------------------------------------
SlotTypeOK(slot) ==
  /\ DOMAIN slot = {"reservedUnits", "copiedUnits", "bytes"}
  /\ slot.reservedUnits \in 0 .. RamUnits
  /\ slot.copiedUnits \in 0 .. slot.reservedUnits
  /\ slot.copiedUnits # 0 => slot.bytes \in [0 .. slot.copiedUnits - 1 -> Value]

StashTypeOK ==
  /\ rdram \in [Unit -> Value]
  /\ DOMAIN slots = SlotIndex
  /\ \A i \in SlotIndex : SlotTypeOK(slots[i])
  /\ nextSlot \in 0 .. SlotCount
  /\ v0 \in Int

(* The numbers a game may hold are exactly those handed out since the last *)
(* initialize: every store that reserved something reads back in full what *)
(* it copied, and no other number reads at all.                            *)
StoresReadBack ==
  \A i \in SlotIndex :
    IF i < nextSlot /\ slots[i].reservedUnits # 0
    THEN ReadStatus(0, i, 0, slots[i].copiedUnits, 0) = 0
    ELSE ReadStatus(0, i, 0, 0, 0) = InvalidSlot

Contents(i) ==
  [reserved |-> slots[i].reservedUnits, size |-> slots[i].copiedUnits, data |-> slots[i].bytes]

Promise == INSTANCE StashStore WITH
  memory <- rdram, answer <- v0, store <- [i \in 0 .. nextSlot - 1 |-> Contents(i)]

(* "It snapshots source bytes at store time and writes them back to the    *)
(* requested guest destination at read time": the stash implements the     *)
(* store it promises, refusals included.                                   *)
StashKeepsPromise == Promise!StoreSpec
=============================================================================
