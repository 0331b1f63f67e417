---------------------------- MODULE NativeStorage ----------------------------
(***************************************************************************)
(* NativeVfs and native_io: the catalogue of files extracted from the      *)
(* disc, and the four guest functions that read disc sectors through it.   *)
(*                                                                         *)
(* Guest RAM is divided into cells of one sector.  A cell holds the number *)
(* of the disc sector last delivered to it, Cleared after its status words *)
(* were zeroed, or Other.  The extracted files hold raw disc sectors, so   *)
(* sector k of a file is disc sector start + k.                            *)
(*                                                                         *)
(* A handler occupies the guest thread until it returns, but reads its     *)
(* files one after the other, and the host may lose one in between: a call *)
(* begins, stages segments, and returns.  The generated fallback and what  *)
(* it does afterwards are external.                                        *)
(***************************************************************************)
EXTENDS Integers, FiniteSets, Sequences

CONSTANTS
  Tocs,            \* contents toc.json can have
  Requests,        \* <<source sector, sector count>> pairs the guest asks for
  Cells,           \* guest RAM, in sectors
  StatusCell,      \* the cell of the load-status words 0x15EEBC/0x15EEC0
  LegacyBootTop,   \* the cell of kLegacyBootTop
  BootMinimum,     \* sectors a boot prefix must have: 0x2000 bytes
  MaxDamaged,      \* bound on the files that lose sectors
  Faults           \* TRUE: a read may still fail after its size check

None == [kind |-> "none"]
Asset == [kind : {"wad", "wad2"}, index : Nat, start : Nat, count : Nat]
Level == [kind : {"level"}, index : Nat, header : Nat, start : Nat, count : Nat]
Toc == [entries : SUBSET Asset, levels : SUBSET Level]

ASSUME StorageAssumption ==
  /\ Tocs \subseteq Toc
  /\ \A t \in Tocs : \A a, b \in t.entries : a.kind = b.kind /\ a.index = b.index => a = b
  /\ Requests \subseteq Nat \X Nat
  /\ Cells \in Nat \ {0}
  /\ {StatusCell, LegacyBootTop} \subseteq 0 .. Cells - 1
  /\ {BootMinimum, MaxDamaged} \subseteq Nat /\ Faults \in BOOLEAN

VARIABLES
  toc, disk,           \* toc.json; readable sectors of each extracted file
  phase,               \* "created", "running" (ready_) or "exited"
  assets, levelAssets,
  memory,
  call, staging,       \* the handler's call in progress and its staging buffer
  last,                \* the latest completed call and how it was served
  observed             \* asset last reported to indexedAssetReadObserver

catalogueVars == <<toc, disk, phase, assets, levelAssets>>
callVars == <<call, staging>>
storageVars == <<catalogueVars, memory, callVars, last, observed>>

Cell == 0 .. Cells - 1
Cleared == -1
Other == -2
NoCall == [entry |-> "none"]
NoRequest == [entry |-> "none", path |-> "none", v0 |-> 0]

Name(file) == <<file.kind, file.index>>
Holds(file, sector) == file.start <= sector /\ sector < file.start + file.count
HoldsAll(file, source, count) ==
  file.start <= source /\ source + count <= file.start + file.count

----------------------------------------------------------------------------
(* initialize().                                                           *)
IndexedAll(t) == t.entries    \* Mistake: unused entries of the table are indexed.

Indexed(t) == {a \in t.entries : a.start # 0 /\ a.count # 0}

IndexedLevels(t) ==
  {l \in t.levels : /\ l.header # 0 /\ l.start # 0 /\ l.count # 0
                    /\ Holds(l, l.header)}

OverlappingStarts(S) == \E a, b \in S : a # b /\ a.start = b.start    \* Mistake: lengths ignored.

\* In start order each asset is compared with its predecessor only.
Overlapping(S) ==
  \E a, b \in S :
    /\ a # b /\ a.start <= b.start /\ b.start < a.start + a.count
    /\ ~\E c \in S : a.start < c.start /\ c.start < b.start

\* wads2/0 must be complete; a wrong magic is refused like a short file.
BootPresent(S) ==
  \E a \in S : Name(a) = <<"wad2", 0>> /\ disk[Name(a)] = a.count

Initialize ==
  /\ phase = "created"
  /\ levelAssets' = IF Overlapping(Indexed(toc)) THEN {} ELSE IndexedLevels(toc)
  /\ IF Overlapping(Indexed(toc)) \/ ~BootPresent(Indexed(toc))
     THEN phase' = "exited" /\ assets' = {}
     ELSE phase' = "running" /\ assets' = Indexed(toc)
  /\ UNCHANGED <<toc, disk, memory, callVars, last, observed>>

----------------------------------------------------------------------------
(* findAssetContainingSector: the last asset that starts at or before the  *)
(* sector, if it reaches that far.                                         *)
FindAssetContainingSector(sector) ==
  LET before == {a \in assets : a.start <= sector}
      candidate == CHOOSE a \in before : \A b \in before : b.start <= a.start
  IN IF before # {} /\ Holds(candidate, sector) THEN candidate ELSE None

DirectAssetCoversRequest(source, count) ==
  LET asset == FindAssetContainingSector(source) IN
  asset # None /\ HoldsAll(asset, source, count)

(* readSectors.  One asset first, then one level span, then assets sector  *)
(* by sector.                                                              *)
LevelsHolding(source, count) == {l \in levelAssets : HoldsAll(l, source, count)}

Source(source, count, sector) ==
  IF ~DirectAssetCoversRequest(source, count) /\ LevelsHolding(source, count) # {}
  THEN CHOOSE l \in LevelsHolding(source, count) :
         \A m \in LevelsHolding(source, count) : l.index <= m.index
  ELSE FindAssetContainingSector(sector)

OffsetFromHeader(file, sector) ==    \* Mistake: a level span starts at its header.
  IF file.kind = "level" THEN sector - file.header ELSE sector - file.start

Offset(file, sector) == sector - file.start

\* Sector `offset' of an extracted file.
Content(file, offset) == file.start + offset

Smaller(a, b) == IF a < b THEN a ELSE b

\* The segment that comes next: the rest of the request, or of the file.
NextSector == call.source + Len(staging)
NextFile == Source(call.source, call.count, NextSector)
Take == Smaller(call.count - Len(staging), NextFile.start + NextFile.count - NextSector)

Segment == [i \in 1 .. Take |-> Content(NextFile, Offset(NextFile, NextSector + i - 1))]

SegmentReadable == Offset(NextFile, NextSector) + Take <= disk[Name(NextFile)]

\* tryNativeIndexedRead and readSectors, up to the first file opened.
Accepted ==
  /\ call.count # 0 /\ call.destination + call.count <= Cells
  /\ \A sector \in call.source .. call.source + call.count - 1 :
       Source(call.source, call.count, sector) # None

InRequest(cell) == call.destination <= cell /\ cell < call.destination + call.count

StageIntoMemory ==    \* Mistake: no staging buffer.
  /\ call # NoCall /\ Accepted /\ Len(staging) < call.count /\ SegmentReadable
  /\ staging' = staging \o Segment
  /\ memory' = [cell \in Cell |->
                  IF InRequest(cell) /\ cell - call.destination < Len(staging')
                  THEN staging'[cell - call.destination + 1] ELSE memory[cell]]
  /\ UNCHANGED <<catalogueVars, call, last, observed>>

StageSegment ==
  /\ call # NoCall /\ Accepted /\ Len(staging) < call.count /\ SegmentReadable
  /\ staging' = staging \o Segment
  /\ UNCHANGED <<catalogueVars, memory, call, last, observed>>

\* Memory is written once all of the request is staged.
ReadCompletes ==
  /\ call # NoCall /\ Accepted /\ Len(staging) = call.count
  /\ memory' = [cell \in Cell |-> IF InRequest(cell) THEN staging[cell - call.destination + 1]
                                  ELSE memory[cell]]

\* Whatever was staged before a failure is dropped.
ReadFails ==
  /\ call # NoCall
  /\ Accepted => Len(staging) < call.count /\ (Faults \/ ~SegmentReadable)

----------------------------------------------------------------------------
Begin(entry, destination, source, count) ==
  /\ phase = "running" /\ call = NoCall
  /\ call' = [entry |-> entry, destination |-> destination, source |-> source,
              count |-> count, before |-> memory]
  /\ staging' = <<>> /\ last' = NoRequest
  /\ UNCHANGED <<catalogueVars, observed>>

\* The call is over; `before' is memory as its caller left it.
Return(path, v0) ==
  /\ last' = [entry |-> call.entry, destination |-> call.destination, source |-> call.source,
              count |-> call.count, before |-> call.before, path |-> path, v0 |-> v0]
  /\ call' = NoCall /\ staging' = <<>>
  /\ UNCHANGED catalogueVars

ExactAsset(source, count) ==
  LET asset == FindAssetContainingSector(source) IN
  IF asset # None /\ asset.start = source /\ asset.count = count THEN asset ELSE None

ObserveAttempt(source, count, path) ==    \* Mistake: the attempt is reported.
  observed' = IF ExactAsset(source, count) # None THEN ExactAsset(source, count) ELSE observed

\* The observer hears of complete assets, once their bytes are in memory.
Observe(source, count, path) ==
  observed' = IF path = "native" /\ ExactAsset(source, count) # None
              THEN ExactAsset(source, count) ELSE observed

(* 0x216788 and 0x216828: bytes read, or 0 without any fallback.           *)
GameSectorRead(destination, source, count) ==
  Begin("game", destination, source, count) /\ UNCHANGED memory

GameSectorReadReturns ==
  /\ call.entry = "game"
  /\ \/ /\ ReadCompletes
        /\ Observe(call.source, call.count, "native") /\ Return("native", call.count)
     \/ /\ ReadFails /\ UNCHANGED memory
        /\ Observe(call.source, call.count, "failed") /\ Return("failed", 0)

(* 0x216728: clears the status words before the data arrives, and returns  *)
(* submission success.                                                     *)
GameAsyncSectorRead(destination, source, count) ==
  /\ Begin("async", destination, source, count)
  /\ memory' = [memory EXCEPT ![StatusCell] = Cleared]

GameAsyncSectorReadReturns ==
  /\ call.entry = "async"
  /\ \/ ReadCompletes /\ Return("native", 1)
     \/ ReadFails /\ UNCHANGED memory /\ Return("fallback", 0)
  /\ UNCHANGED observed

(* 0x12f208: the catalogue, then the boot alias, then the generated path.  *)
SectorRead(destination, source, count) ==
  Begin("raw", destination, source, count) /\ UNCHANGED memory

BootAlias(request) ==
  request.source = 0 /\ request.count = 0 /\ request.destination = LegacyBootTop

BootStart == (CHOOSE a \in assets : Name(a) = <<"wad2", 0>>).start
BootWanted == Smaller(disk[<<"wad2", 0>>], Cells - LegacyBootTop)

\* readAssetPrefix reads straight into guest memory: n sectors arrived.
BootPrefix(n) ==
  memory' = [cell \in Cell |->
               IF LegacyBootTop <= cell /\ cell < LegacyBootTop + n
               THEN BootStart + (cell - LegacyBootTop) ELSE memory[cell]]

TryLegacyBootAlias ==
  \E n \in 0 .. BootWanted :
    /\ n = BootWanted \/ Faults
    /\ BootPrefix(n)
    /\ IF n = BootWanted /\ n >= BootMinimum THEN Return("alias", n) ELSE Return("fallback", 0)

SectorReadReturns ==
  /\ call.entry = "raw"
  /\ \/ ReadCompletes /\ Return("native", call.count)
     \/ ReadFails /\ BootAlias(call) /\ TryLegacyBootAlias
     \/ ReadFails /\ ~BootAlias(call) /\ UNCHANGED memory /\ Return("fallback", 0)
  /\ UNCHANGED observed

(* Outside: the guest writes its memory, a file is cut short or lost.      *)
GuestWrite(cell) ==
  /\ call = NoCall
  /\ memory' = [memory EXCEPT ![cell] = Other]
  /\ last' = NoRequest
  /\ UNCHANGED <<catalogueVars, callVars, observed>>

Files(t) == {Name(f) : f \in t.entries \cup t.levels}
Complete(t) ==
  [name \in Files(t) |-> (CHOOSE f \in t.entries \cup t.levels : Name(f) = name).count]

Damaged == {name \in DOMAIN disk : disk[name] # Complete(toc)[name]}

LoseSectors(file, left) ==
  /\ left < disk[Name(file)]
  /\ Cardinality(Damaged \cup {Name(file)}) <= MaxDamaged
  /\ disk' = [disk EXCEPT ![Name(file)] = left]
  /\ last' = NoRequest
  /\ UNCHANGED <<toc, phase, assets, levelAssets, memory, callVars, observed>>

StorageInit ==
  /\ toc \in Tocs /\ disk = Complete(toc)
  /\ phase = "created" /\ assets = {} /\ levelAssets = {}
  /\ memory = [cell \in Cell |-> Other]
  /\ call = NoCall /\ staging = <<>>
  /\ last = NoRequest /\ observed = None

StorageNext ==
  \/ Initialize
  \/ \E destination \in Cell, r \in Requests :
       \/ GameSectorRead(destination, r[1], r[2])
       \/ GameAsyncSectorRead(destination, r[1], r[2])
       \/ SectorRead(destination, r[1], r[2])
  \/ StageSegment
  \/ GameSectorReadReturns \/ GameAsyncSectorReadReturns \/ SectorReadReturns
  \/ \E cell \in Cell : GuestWrite(cell)
  \/ \E file \in Indexed(toc) \cup IndexedLevels(toc) :
       \E left \in {0, file.count - 1} : LoseSectors(file, left)

StorageSpec == StorageInit /\ [][StorageNext]_storageVars

----------------------------------------------------------------------------
StorageTypeOK ==
  /\ toc \in Tocs /\ DOMAIN disk = Files(toc) /\ \A name \in DOMAIN disk : disk[name] \in Nat
  /\ phase \in {"created", "running", "exited"}
  /\ \A a \in assets : a \in Asset /\ a.start > 0 /\ a.count > 0
  /\ \A l \in levelAssets : l \in Level /\ l.count > 0
  /\ memory \in [Cell -> Nat \cup {Cleared, Other}]
  /\ call # NoCall => /\ call.entry \in {"game", "async", "raw"} /\ call.destination \in Cell
                      /\ call.source \in Nat /\ call.count \in Nat
  /\ staging \in Seq(Nat)
  /\ last.path \in {"none", "native", "alias", "failed", "fallback"} /\ last.v0 \in Nat
  /\ observed \in assets \cup {None}

(* "ranges backed by indexed extracted resources are read directly": what  *)
(* a served request left in guest memory is that range of the disc, sector *)
(* for sector, whichever of the overlapping files it came from and however *)
(* many files it spans.                                                    *)
DeliveredAsRequested ==
  last.path = "native" =>
    /\ last.count > 0
    /\ \A k \in 0 .. last.count - 1 : memory[last.destination + k] = last.source + k

(* "unresolved ranges return retail failure 0 without partial guest-memory *)
(* mutation": when a call returns unserved, after whichever of its files   *)
(* failed, memory is as its caller left it, but for the status words an    *)
(* asynchronous request cleared, and for the boot program's first sectors, *)
(* without a gap, where the legacy alias was cut short.                    *)
UnservedLeavesMemory ==
  last.path \in {"failed", "fallback"} =>
    \A cell \in Cell : memory[cell] # last.before[cell] =>
      \/ last.entry = "async" /\ cell = StatusCell /\ memory[cell] = Cleared
      \/ /\ last.entry = "raw" /\ BootAlias(last) /\ LegacyBootTop <= cell
         /\ \A read \in LegacyBootTop .. cell :
              memory[read] = BootStart + (read - LegacyBootTop)

(* The runtime hears of a level's WAD only when all of it is in memory.    *)
ObservedAssetsAreLoaded ==
  [][observed' # observed =>
       /\ last'.source = observed'.start /\ last'.count = observed'.count
       /\ \A k \in 0 .. observed'.count - 1 :
            memory'[last'.destination + k] = observed'.start + k]_storageVars

(* A catalogue that passed initialization answers every sector with the    *)
(* one asset that holds it: comparing neighbours was enough.               *)
CatalogueIsExact ==
  \A a \in assets : \A sector \in a.start .. a.start + a.count - 1 :
    FindAssetContainingSector(sector) = a

(* "Indexed game assets never take this path": a whole indexed asset, read *)
(* into RAM, does not reach the generated disc path.                       *)
IndexedAssetsNeverFallBack ==
  last.path = "fallback" /\ last.entry = "raw" =>
    ~(/\ ExactAsset(last.source, last.count) # None
      /\ last.destination + last.count <= Cells)
=============================================================================
