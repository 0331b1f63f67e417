--------------------------- MODULE LevelContainer ---------------------------
(***************************************************************************)
(* loadRac1LevelCore: finding the sections of a level in its extracted     *)
(* file.  A file is a record of what its headers say:                      *)
(*   exists, sectors, expected   - what is there, what toc.json says       *)
(*   start, header               - disc sectors of the span and its header *)
(*   headerSize                  - whether the header's own size is right  *)
(*   data, gameplay              - <<disc sector, sectors>>                *)
(*   overlay, coreIndex, gsRam, coreData - <<offset, size>> in the data    *)
(*   records                     - <<destination, size>> in the overlay    *)
(*   tables                      - <<offset, bytes>> in the core index     *)
(*   coreWad, gameplayWad        - [magic, encoded, decodes, bytes]        *)
(*   offsets                     - what the core header points at in core  *)
(*   unreadable                  - sections whose read comes back short    *)
(* Offsets are 64 bits wide in the code and cannot overflow.               *)
(***************************************************************************)
EXTENDS CheckedReads

CONSTANT AddressLimit     \* of an overlay destination, UINT32_MAX in the code

ASSUME AddressLimitAssumption == AddressLimit \in Nat

IsFile(file) ==
  /\ {file.sectors, file.start, file.header, file.coreWad.encoded, file.coreWad.bytes,
      file.gameplayWad.encoded, file.gameplayWad.bytes} \subseteq Nat
  /\ {file.data, file.gameplay, file.overlay, file.coreIndex, file.gsRam, file.coreData}
       \union file.tables \subseteq Nat \X Nat
  /\ file.records \in Seq(Nat \X Nat)

kSectorBytes == 2048
kAmalgamatedHeaderBytes == 9268
kLevelDataHeaderBytes == 88
kLevelCoreHeaderBytes == 188
kWadHeaderBytes == 16
kRecordHeaderBytes == 16

FileBytes(file) == file.sectors * kSectorBytes

\* sectorRangeToFileRange: where a range of disc sectors is in the file.
FileRange(file, range) ==
  <<(range[1] - file.start) * kSectorBytes, range[2] * kSectorBytes>>

SectorRangeFits(file, range) ==
  range[1] >= file.start /\ range[2] # 0 /\ RangeFits(FileRange(file, range), FileBytes(file))

DataBytes(file) == FileRange(file, file.data)[2]

InData(file, range) == <<FileRange(file, file.data)[1] + range[1], range[2]>>

\* readExact: a read of a section the file does not hold whole comes back short.
Reads(file, section, range) ==
  section \notin file.unreadable /\ range[2] # 0 /\ RangeFits(range, FileBytes(file))

----------------------------------------------------------------------------
(* parseRac1LevelOverlay: records follow each other to the overlay's end;  *)
(* what follows those listed is zeroes, and read as records too.           *)
OverlayRecord(size, parse, record) ==
  LET payload == parse.cursor + kRecordHeaderBytes IN
  IF parse.status # "Ok" \/ parse.cursor >= size THEN parse
  ELSE IF size - parse.cursor < kRecordHeaderBytes
  THEN [parse EXCEPT !.status = "TruncatedHeader"]
  ELSE IF record[2] > size - payload THEN [parse EXCEPT !.status = "PayloadOutOfRange"]
  ELSE IF record[1] > AddressLimit - record[2]
  THEN [parse EXCEPT !.status = "DestinationOverflow"]
  ELSE [parse EXCEPT !.cursor = payload + record[2],
          !.segments = Append(@, [at |-> payload, destination |-> record[1], size |-> record[2]])]

OverlayParse(size, records) ==
  LET zeroes == [i \in 1 .. size \div kRecordHeaderBytes + 1 |-> <<0, 0>>]
      all == records \o zeroes
      upTo[n \in 0 .. Len(all)] ==
        IF n = 0 THEN [status |-> "Ok", cursor |-> 0, segments |-> <<>>]
        ELSE OverlayRecord(size, upTo[n - 1], all[n])
  IN upTo[Len(all)]

OverlaySegments(file) ==
  IF file.overlay[2] = 0 THEN <<>> ELSE OverlayParse(file.overlay[2], file.records).segments

OverlaySteps(file) ==
  LET range == InData(file, file.overlay)
      size == file.overlay[2]
  IN IF size = 0 THEN <<>>
     ELSE <<Require("InvalidOverlayRange", Reads(file, "overlay", range), {<<range, FileBytes(file)>>}),
            Require("InvalidOverlayContainer", OverlayParse(size, file.records).status = "Ok",
                    {Bytes(s.at, s.size, size) : s \in Range(OverlaySegments(file))})>>

----------------------------------------------------------------------------
(* loadRac1LevelCore, in the order of its checks.                          *)
FileSteps(file) ==
  LET header == <<(file.header - file.start) * kSectorBytes, kAmalgamatedHeaderBytes>>
      capacity == FileBytes(file)
  IN <<Require("FileOpenFailed", file.exists, {}),
       Require("FileSizeMismatch", file.sectors = file.expected, {}),
       Require("HeaderTooSmall",
               capacity >= kAmalgamatedHeaderBytes /\ file.header >= file.start, {}),
       Require("HeaderTooSmall", RangeFits(header, capacity), {}),
       Require("HeaderTooSmall", Reads(file, "header", header), {<<header, capacity>>}),
       Require("InvalidHeaderSize", file.headerSize, {})>>

SectionSteps(file) ==
  LET data == DataBytes(file)
      header == InData(file, <<0, kLevelDataHeaderBytes>>)
      optional(range) == range[2] = 0 \/ RangeFits(range, data)
      atLeast(range, size) == range[2] >= size /\ RangeFits(range, data)
  IN <<Require("InvalidDataRange",
               SectorRangeFits(file, file.data) /\ data >= kLevelDataHeaderBytes, {}),
       Require("InvalidLevelDataHeader", Reads(file, "data", header), {<<header, FileBytes(file)>>}),
       Require("InvalidOverlayRange", optional(file.overlay), {}),
       Require("InvalidCoreIndexRange", atLeast(file.coreIndex, kLevelCoreHeaderBytes), {}),
       Require("InvalidGsRamRange", optional(file.gsRam), {}),
       Require("InvalidCoreDataRange", atLeast(file.coreData, kWadHeaderBytes), {})>>

IndexSteps(file) ==
  LET index == InData(file, file.coreIndex)
      gsRam == InData(file, file.gsRam)
  IN <<Require("InvalidCoreHeader", Reads(file, "coreIndex", index),
               {<<index, FileBytes(file)>>, Bytes(0, kLevelCoreHeaderBytes, file.coreIndex[2])}),
       Require("InvalidGsRamRange", file.gsRam[2] = 0 \/ Reads(file, "gsRam", gsRam),
               IF file.gsRam[2] = 0 THEN {} ELSE {<<gsRam, FileBytes(file)>>}),
       Require("InvalidIndexArrays", \A t \in file.tables : TableFits(t, file.coreIndex[2]),
               {<<t, file.coreIndex[2]>> : t \in {u \in file.tables : u[2] # 0}})>>

\* A WAD says how long it is; its section may only be longer.
WadSteps(file, section, at, capacity, wad, invalid, undecodable) ==
  LET encoded == <<at, wad.encoded>> IN
  <<Require(invalid, Reads(file, section, <<at, kWadHeaderBytes>>) /\ wad.magic,
            {Bytes(at, kWadHeaderBytes, FileBytes(file))}),
    Require(invalid, kWadHeaderBytes <= wad.encoded /\ wad.encoded <= capacity,
            {<<encoded, FileBytes(file)>>}),
    Require(undecodable, wad.decodes, {})>>

LevelCoreSteps(file) ==
  LET gameplay == FileRange(file, file.gameplay)
      core == WadSteps(file, "core", InData(file, file.coreData)[1], file.coreData[2],
                       file.coreWad, "InvalidCoreWad", "CoreDecompressionFailed")
      range == <<Require("InvalidGameplayWad",
                         SectorRangeFits(file, file.gameplay) /\ gameplay[2] >= kWadHeaderBytes, {})>>
      instances == WadSteps(file, "gameplay", gameplay[1], gameplay[2], file.gameplayWad,
                            "InvalidGameplayWad", "GameplayDecompressionFailed")
      offsets == <<Require("InvalidRenderOffsets",
                           \A o \in file.offsets : o < file.coreWad.bytes, {})>>
  IN Then(Then(Then(FileSteps(file), SectionSteps(file)), OverlaySteps(file)), IndexSteps(file)
          \o core \o range \o instances \o offsets)
=============================================================================
