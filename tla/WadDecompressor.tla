-------------------------- MODULE WadDecompressor --------------------------
(***************************************************************************)
(* The native replacement of the retail WAD decompressor (FUN_0020b618).   *)
(* The stream at source is a header and then packets, read one per step;   *)
(* a packet is a record of                                                 *)
(*   form  - "first", "literal", "match", "noOp" or "block"                *)
(*   head  - bytes of its token, extension and distance                    *)
(*   literals, distance, length, trailing - what it asks to be copied.     *)
(* Which packets follow one another is the stream's contents, not modelled *)
(* byte by byte; a byte the stream carries literally is known by its       *)
(* offset, one a cell held before the call by the cell.  Cells are bytes.  *)
(***************************************************************************)
EXTENDS Integers, Sequences

CONSTANTS
  RamCells,       \* kGuestRamBytes
  HeaderCells,    \* kHeaderBytes
  BlockCells,     \* kInputBlockBytes
  Calls,          \* [source, destination, size, magic] the guest may call with
  WadPackets      \* packets a stream may hold

ASSUME WadAssumption ==
  /\ {RamCells, HeaderCells, BlockCells} \subseteq Nat \ {0}
  /\ \A c \in Calls : {c.source, c.destination, c.size} \subseteq Nat /\ c.magic \in BOOLEAN
  /\ \A p \in WadPackets : /\ p.form \in {"first", "literal", "match", "noOp", "block"}
                           /\ {p.head, p.literals, p.distance, p.length, p.trailing} \subseteq Nat
                           /\ p.head > 0

VARIABLES
  ram,        \* guest memory
  wad,        \* the call in progress and the decoder's positions
  expanded    \* the bytes the packets decoded so far stand for

wadVars == <<ram, wad, expanded>>

IdleWad == [status |-> "Idle", call |-> [source |-> 0, destination |-> 0, size |-> 0, magic |-> FALSE],
         input |-> 0, written |-> 0, v0 |-> 0]

FromStream(offset) == <<"stream", offset>>
HeldBefore(cell) == <<"before", cell>>

OutputRoom == RamCells - wad.call.destination    \* the output span ends with guest RAM

----------------------------------------------------------------------------
(* nativeDecompressWad up to the decoder, and the decoder's own header     *)
(* checks, which repeat it.  An address beyond RAM is refused.             *)
CallStatus(c) ==
  IF c.source + HeaderCells > RamCells THEN "input-range"
  ELSE IF c.destination >= RamCells THEN "output-range"
  ELSE IF ~c.magic THEN "invalid-magic"
  ELSE IF c.size < HeaderCells \/ c.source + c.size > RamCells THEN "encoded-range"
  ELSE IF c.size = HeaderCells THEN "Ok"
  ELSE "Decoding"

CallWad ==
  /\ wad.status = "Idle"
  /\ \E c \in Calls :
       wad' = [wad EXCEPT !.status = CallStatus(c), !.call = c, !.input = HeaderCells]
  /\ UNCHANGED <<ram, expanded>>

----------------------------------------------------------------------------
(* copyLiteral and copyMatch.  The encoded bytes come from a host copy     *)
(* taken before anything was written.                                      *)
Put(memory, at, bytes) ==
  [cell \in DOMAIN memory |->
     IF at < cell /\ cell <= at + Len(bytes) THEN bytes[cell - at] ELSE memory[cell]]

StreamBytes(input, count) == [i \in 1 .. count |-> FromStream(input + i - 1)]

\* Mistake: literals are read in place, where output may have been written.
LiteralsInPlace(memory, input, written, count) ==
  LET inPlace(i) == memory[wad.call.source + input + i]
  IN Put(memory, wad.call.destination + written,
         [i \in 1 .. count |-> IF inPlace(i) = HeldBefore(wad.call.source + input + i)
                               THEN FromStream(input + i - 1) ELSE inPlace(i)])

WithLiterals(memory, input, written, count) ==
  Put(memory, wad.call.destination + written, StreamBytes(input, count))

\* Byte by byte: a byte written by this match may be copied again by it.
WithMatch(memory, written, distance, length) ==
  LET first == wad.call.destination + written + 1
      copied[i \in 0 .. length - 1] ==
        IF i < distance THEN memory[first + i - distance] ELSE copied[i - distance]
  IN [cell \in DOMAIN memory |->
        IF first <= cell /\ cell < first + length THEN copied[cell - first] ELSE memory[cell]]

----------------------------------------------------------------------------
(* One packet of decompressWad.  The first failing check is the status; a  *)
(* match that failed its trailing literals has already been copied.        *)
CanRead(input, count) == input + count <= wad.call.size
CanWrite(written, count) == written + count <= OutputRoom

NextBlock(input) ==
  HeaderCells + BlockCells * ((input - HeaderCells + BlockCells - 1) \div BlockCells)

IsFirst == wad.input = HeaderCells

LiteralStatus(p) ==
  IF ~CanRead(wad.input, p.head + p.literals) THEN "InputExhausted"
  ELSE IF ~CanWrite(wad.written, p.literals) THEN "OutputOverflow"
  ELSE "Decoding"

MatchStatus(p) ==
  IF ~CanRead(wad.input, p.head) THEN "InputExhausted"
  ELSE IF p.distance = 0 \/ p.distance > wad.written THEN "InvalidMatch"
  ELSE IF ~CanWrite(wad.written, p.length) THEN "OutputOverflow"
  ELSE "Decoding"

TrailingStatus(input, written, count) ==
  IF count # 0 /\ ~CanRead(input, count) THEN "InputExhausted"
  ELSE IF count # 0 /\ ~CanWrite(written, count) THEN "OutputOverflow"
  ELSE "Decoding"

Advanced(status, input, written) ==
  [wad EXCEPT !.status = IF status = "Decoding" /\ input = wad.call.size THEN "Ok" ELSE status,
              !.input = input, !.written = written]

PacketFails(status) == wad' = [wad EXCEPT !.status = status] /\ UNCHANGED <<ram, expanded>>

CopyLiterals(input, written, count, memory, bytes) ==
  /\ wad' = Advanced("Decoding", input + count, written + count)
  /\ ram' = WithLiterals(memory, input, written, count)
  /\ expanded' = bytes \o StreamBytes(input, count)

LiteralPacket(p) ==
  /\ p.form \in {"first", "literal"} /\ (p.form = "first" => IsFirst)
  /\ IF LiteralStatus(p) # "Decoding" THEN PacketFails(LiteralStatus(p))
     ELSE CopyLiterals(wad.input + p.head, wad.written, p.literals, ram, expanded)

\* What a match of that distance stands for: its last bytes, repeated.
Repeated(bytes, distance, length) ==
  [i \in 1 .. length |-> bytes[Len(bytes) - distance + 1 + ((i - 1) % distance)]]

\* A marker that ends nothing copies no match, but may carry trailing literals.
MatchPacket(p) ==
  LET matches == p.form = "match"
      input == wad.input + p.head
      written == IF matches THEN wad.written + p.length ELSE wad.written
      memory == IF matches THEN WithMatch(ram, wad.written, p.distance, p.length) ELSE ram
      bytes == IF matches THEN expanded \o Repeated(expanded, p.distance, p.length) ELSE expanded
      status == IF matches THEN MatchStatus(p)
                ELSE IF CanRead(wad.input, p.head) THEN "Decoding" ELSE "InputExhausted"
      trailing == TrailingStatus(input, written, p.trailing)
  IN /\ p.form \in {"match", "noOp"}
     /\ IF status # "Decoding" THEN PacketFails(status)
        ELSE IF trailing # "Decoding"
        THEN ram' = memory /\ expanded' = bytes /\ wad' = Advanced(trailing, input, written)
        ELSE CopyLiterals(input, written, p.trailing, memory, bytes)

BlockPacket(p) ==
  LET next == NextBlock(wad.input + p.head) IN
  /\ p.form = "block"
  /\ IF ~CanRead(wad.input, p.head) THEN PacketFails("InputExhausted")
     ELSE IF next > wad.call.size THEN PacketFails("InvalidBlockMarker")
     ELSE wad' = Advanced("Decoding", next, wad.written) /\ UNCHANGED <<ram, expanded>>

DecodePacket ==
  /\ wad.status = "Decoding"
  /\ \E p \in WadPackets : LiteralPacket(p) \/ MatchPacket(p) \/ BlockPacket(p)

\* v0 is the number of bytes, or 0: what was written stays in either case.
ReturnWad ==
  /\ wad.status \notin {"Idle", "Decoding", "Returned"}
  /\ wad' = [wad EXCEPT !.status = "Returned", !.v0 = IF wad.status = "Ok" THEN wad.written ELSE 0]
  /\ UNCHANGED <<ram, expanded>>

----------------------------------------------------------------------------
WadInit == /\ ram = [cell \in 1 .. RamCells |-> HeldBefore(cell)]
           /\ wad = IdleWad /\ expanded = <<>>

WadNext == CallWad \/ DecodePacket \/ ReturnWad

WadSpec == WadInit /\ [][WadNext]_wadVars

(* A call that returns a size has put exactly the bytes its packets stand  *)
(* for at the destination, even when it decompresses over its own input or *)
(* a match overlaps itself, it has read the stream to its end, and no call *)
(* changes a cell outside what it says it has written.                     *)
WadOutputIsExpansion ==
  /\ wad.status = "Ok" => wad.input = wad.call.size
  /\ wad.v0 # 0 =>
       SubSeq(ram, wad.call.destination + 1, wad.call.destination + wad.v0) = expanded
  /\ \A cell \in 1 .. RamCells :
       ram[cell] # HeldBefore(cell) =>
         wad.call.destination < cell /\ cell <= wad.call.destination + wad.written
=============================================================================
