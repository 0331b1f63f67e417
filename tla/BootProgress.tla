---------------------------- MODULE BootProgress ----------------------------
(***************************************************************************)
(* inspectRac1BootOverlayProgress: how far the guest's boot path has come  *)
(* to handing its first overlay generation over.  Guest memory is a record *)
(* [bytes, words]: its size and the 32-bit words that are not zero, signed *)
(* where the guest tests their sign.  No address here reaches 2^31.        *)
(***************************************************************************)
EXTENDS CheckedReads

kSharedLoaderPointerAddress == 1437260      \* 0x15EE4C
kState15F600Address == 1439232              \* 0x15F600
kState13D364Address == 1299300              \* 0x13D364
kState13D36CAddress == 1299308              \* 0x13D36C
kFixedReads ==                              \* the four above and seven more
  {1297156, 1439152, 1297124, kSharedLoaderPointerAddress, 1437060, 1437064,
   kState15F600Address, 1439236, 1439256, kState13D364Address, kState13D36CAddress}
kCallback2195OwnerAddress == 1924084        \* 0x1D5BF4
kCallback2195TableOffset == 68
kCallback2195SlotCount == 14
kCallback21E7C8 == 2222024
kFirstGenerationRecordOffset == 96
kWad158FirstRecord == <<1437440, 9000, 1, 2004568>>   \* destination, bytes, field, entry

Word(guest, address) ==
  IF address \in DOMAIN guest.words THEN guest.words[address] ELSE 0

Readable32(guest, address) == address >= 0 /\ RangeFits(<<address, 4>>, guest.bytes)

Words(guest, addresses) == {Bytes(a, 4, guest.bytes) : a \in addresses}

----------------------------------------------------------------------------
\* The three branches of FUN_00231FF0, by their addresses.
Branches(guest) ==
  [bypass2321A4 |-> Word(guest, kState15F600Address) >= 0,
   wait2321B8 |-> Word(guest, kState13D364Address) >= 3,
   setup2321C4 |-> Word(guest, kState13D36CAddress) < 0]

\* The callback walk: optional, each level of it as far as memory reaches.
CallbackTable(guest) == Word(guest, kCallback2195OwnerAddress) + kCallback2195TableOffset

TableReadable(guest) ==
  /\ Readable32(guest, kCallback2195OwnerAddress) /\ Word(guest, kCallback2195OwnerAddress) # 0
  /\ RangeFits(<<CallbackTable(guest), 4 * kCallback2195SlotCount>>, guest.bytes)

Object(guest, slot) == Word(guest, CallbackTable(guest) + 4 * slot)

ReadableSlots(guest) ==
  IF ~TableReadable(guest) THEN {}
  ELSE {slot \in 0 .. kCallback2195SlotCount - 1 :
          Object(guest, slot) # 0 /\ Readable32(guest, Object(guest, slot))}

Target(guest, slot) ==
  IF slot \in ReadableSlots(guest) THEN Word(guest, Object(guest, slot)) ELSE 0

\* The first slot whose callback is the one that finishes the boot, or -1.
Callback21E7C8Slot(guest) ==
  LET slots == {slot \in ReadableSlots(guest) : Target(guest, slot) = kCallback21E7C8} IN
  IF slots = {} THEN -1 ELSE CHOOSE first \in slots : \A slot \in slots : first <= slot

WalkReads(guest) ==
  (IF Readable32(guest, kCallback2195OwnerAddress)
   THEN Words(guest, {kCallback2195OwnerAddress}) ELSE {})
    \union (IF TableReadable(guest)
            THEN {Bytes(CallbackTable(guest), 4 * kCallback2195SlotCount, guest.bytes)} ELSE {})
    \union Words(guest, {Object(guest, slot) : slot \in ReadableSlots(guest)})

----------------------------------------------------------------------------
BootSteps(guest) ==
  LET loader == Word(guest, kSharedLoaderPointerAddress)
      record == loader + kFirstGenerationRecordOffset
      payload == <<record + 16, Word(guest, record + 4)>>
      header == [i \in 1 .. 4 |-> Word(guest, record + 4 * (i - 1))]
  IN <<Require("GuestMemoryTooSmall", \A a \in kFixedReads : Readable32(guest, a),
               Words(guest, kFixedReads) \union WalkReads(guest)),
       Require("SharedLoaderPointerUnavailable", loader # 0, {}),
       Require("SharedLoaderHeaderOutOfRange", Readable32(guest, loader), Words(guest, {loader})),
       Require("FirstGenerationStreamSignatureAbsent",
               Word(guest, loader) = kFirstGenerationRecordOffset, {}),
       Require("FirstRecordOutOfRange", RangeFits(<<record, 16>>, guest.bytes),
               {Bytes(record, 16, guest.bytes)}),
       Require("Wad158FirstRecordHeaderMismatch", header = kWad158FirstRecord, {}),
       Require("FirstPayloadOutOfRange", RangeFits(payload, guest.bytes), {})>>

BootProgressOf(guest) ==
  LET tooSmall == Outcome(BootSteps(guest)) = "GuestMemoryTooSmall" IN
  [status |-> Outcome(BootSteps(guest)),
   branches |-> IF tooSmall THEN <<>> ELSE Branches(guest),
   targets |-> IF tooSmall THEN <<>>
               ELSE [slot \in 0 .. kCallback2195SlotCount - 1 |-> Target(guest, slot)],
   callbackSlot |-> IF tooSmall THEN -1 ELSE Callback21E7C8Slot(guest)]
=============================================================================
