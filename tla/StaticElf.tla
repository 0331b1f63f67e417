----------------------------- MODULE StaticElf -----------------------------
(***************************************************************************)
(* The boot ELF as OpenRatchet keeps it (parseRac1StaticElfImage), to know *)
(* what the statically recompiled functions were compiled from.  A file is *)
(* a record of                                                             *)
(*   readable, bytes     - whether it can be read, and its size            *)
(*   header              - magic, class, type and machine are right        *)
(*   tableAt, entryBytes - its program header table                        *)
(*   headers             - <<[load, at, address, size, memory], ...>>      *)
(*   ones                - offsets of the bytes that are 1; the rest are 0 *)
(***************************************************************************)
EXTENDS CheckedReads

CONSTANT GuestAddressLimit    \* UINT32_MAX in the code

ASSUME GuestAddressLimitAssumption == GuestAddressLimit \in Nat

kElf32HeaderBytes == 52
kElf32ProgramHeaderBytes == 32

IsLoaded(header) == header.load /\ header.memory # 0

\* The headers that are kept as load segments, in their order.
LoadSegments(file) ==
  {i \in DOMAIN file.headers : IsLoaded(file.headers[i]) /\ file.headers[i].size # 0}

ProgramHeaderSteps(file, i) ==
  LET h == file.headers[i] IN
  <<Reading({Bytes(file.tableAt + file.entryBytes * (i - 1), 24, file.bytes)}),
    Require("InvalidLoadSegment",
            IsLoaded(h) => /\ h.size <= h.memory
                           /\ RangeFits(<<h.at, h.size>>, file.bytes)
                           /\ h.size <= GuestAddressLimit - h.address, {})>>

ElfSteps(file) ==
  LET table == <<file.tableAt, file.entryBytes * Len(file.headers)>>
      header ==
        <<Require("FileOpenFailed", file.readable, {}),
          Require("FileTooSmall", file.bytes >= kElf32HeaderBytes,
                  {Bytes(0, 46, file.bytes)}),
          Require("InvalidHeader", file.header, {}),
          Require("InvalidProgramHeaders",
                  file.entryBytes >= kElf32ProgramHeaderBytes /\ RangeFits(table, file.bytes), {})>>
  IN Then(Then(header, ForEach([i \in DOMAIN file.headers |-> ProgramHeaderSteps(file, i)])),
          <<Require("NoLoadSegments", LoadSegments(file) # {}, {})>>)

ElfStatus(file) == Outcome(ElfSteps(file))

\* staticElfBytesAt: where in the file the code at pc begins, and how much of
\* what was asked for the first segment that has it holds.
LoadsCode(h, pc) == h.address <= pc /\ pc < h.address + h.size

StaticBytesAt(file, pc, requested) ==
  LET covering == {i \in LoadSegments(file) : LoadsCode(file.headers[i], pc)}
      h == file.headers[Min(covering)]
      held == h.address + h.size - pc
  IN IF covering = {} THEN <<0, 0>>
     ELSE <<h.at + pc - h.address, IF held < requested THEN held ELSE requested>>

ByteOf(content, offset) == IF offset \in content.ones THEN 1 ELSE 0
=============================================================================
