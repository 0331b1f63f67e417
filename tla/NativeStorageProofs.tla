------------------------- MODULE NativeStorageProofs -------------------------
(***************************************************************************)
(* NativeVfs and the four sector reads, for every table of contents, every *)
(* request, any RAM and any loss of files between or during calls: types,  *)
(* that comparing neighbours made the catalogue exact, that a served       *)
(* request holds the disc's sectors, and what an unserved one changed.     *)
(***************************************************************************)
EXTENDS NativeStorage, FiniteSetTheorems, WellFoundedInduction, TLAPS

(* What initialize() left: a catalogue no neighbours of which overlap, all *)
(* of it from toc.json, with the boot WAD once the program runs.           *)
CatalogueInitialized ==
  /\ assets \subseteq toc.entries /\ ~Overlapping(assets)
  /\ phase = "created" => assets = {} /\ observed = None /\ last.path = "none"
  /\ phase = "running" => \E a \in assets : Name(a) = <<"wad2", 0>>

(* Whatever files the segments came from, the staging buffer holds the     *)
(* first sectors of the request and no others.                             *)
StagingIsRange ==
  /\ call = NoCall => staging = <<>>
  /\ call # NoCall => /\ Len(staging) <= call.count
                      /\ \A i \in 1 .. Len(staging) : staging[i] = call.source + i - 1

(* While a call is in progress only the status words were written.         *)
BeforeKept ==
  call # NoCall =>
    /\ phase = "running"
    /\ \A cell \in Cell :
         memory[cell] = IF call.entry = "async" /\ cell = StatusCell
                        THEN Cleared ELSE call.before[cell]

StorageInv ==
  /\ StorageTypeOK /\ CatalogueInitialized
  /\ StagingIsRange /\ BeforeKept
  /\ DeliveredAsRequested /\ UnservedLeavesMemory

----------------------------------------------------------------------------
(* The naturals are well ordered.                                          *)
LEMMA LeastNatural ==
  ASSUME NEW S \in SUBSET Nat, S # {}
  PROVE  \E s \in S : \A k \in S : s <= k
<1> DEFINE UpTo(k) == S \cap 0 .. k
           Prefixes == {UpTo(k) : k \in S}
<1>1. ASSUME NEW k \in S PROVE IsFiniteSet(UpTo(k))
  <2>1. IsFiniteSet(0 .. k)
    BY FS_Interval
  <2> QED
    BY <2>1, FS_Subset
<1>2. Prefixes \subseteq FiniteSubsetsOf(S) /\ Prefixes # {}
  BY <1>1 DEF FiniteSubsetsOf
<1>3. IsWellFoundedOn(StrictSubsetOrdering(S), FiniteSubsetsOf(S))
  BY FS_StrictSubsetOrderingWellFounded
<1>4. PICK U \in Prefixes : \A V \in Prefixes : <<V, U>> \notin StrictSubsetOrdering(S)
  <2> HIDE DEF Prefixes
  <2> QED
    BY <1>2, <1>3, WFMin
<1>5. PICK s \in S : U = UpTo(s)
  OBVIOUS
<1>6. ASSUME NEW k \in S, k < s PROVE FALSE
  <2>1. UpTo(k) \subseteq UpTo(s) /\ s \in UpTo(s) /\ s \notin UpTo(k)
    BY <1>6
  <2> QED
    BY <1>4, <1>5, <2>1 DEF StrictSubsetOrdering
<1> QED
  BY <1>6

(* Of files that start at or before a sector, one starts last.             *)
LEMMA LastStart ==
  ASSUME NEW S, S # {}, NEW sector \in Nat, \A a \in S : a.start \in Nat /\ a.start <= sector
  PROVE  \E a \in S : \A b \in S : b.start <= a.start
<1> DEFINE Distances == {sector - a.start : a \in S}
<1>1. Distances \in SUBSET Nat /\ Distances # {}
  OBVIOUS
<1>2. PICK d \in Distances : \A e \in Distances : d <= e
  BY <1>1, LeastNatural
<1>3. PICK a \in S : d = sector - a.start
  OBVIOUS
<1>4. ASSUME NEW b \in S PROVE b.start <= a.start
  <2>1. d <= sector - b.start
    BY <1>2
  <2> QED
    BY <1>3, <2>1
<1> QED
  BY <1>4

(* Of files that start after a given one, one starts first.                *)
LEMMA NextStart ==
  ASSUME NEW S, \A c \in S : c.start \in Nat, NEW a \in S, NEW b \in S, a.start < b.start
  PROVE  \E c \in S : a.start < c.start /\ \A d \in S : a.start < d.start => c.start <= d.start
<1> DEFINE Later == {c \in S : a.start < c.start}
           Starts == {c.start : c \in Later}
<1>1. Starts \in SUBSET Nat /\ Starts # {}
  OBVIOUS
<1>2. PICK s \in Starts : \A t \in Starts : s <= t
  BY <1>1, LeastNatural
<1>3. PICK c \in Later : s = c.start
  OBVIOUS
<1>4. \A d \in S : a.start < d.start => c.start <= d.start
  BY <1>2, <1>3
<1> QED
  BY <1>3, <1>4

(* Neighbours that do not overlap are enough: no two files do.             *)
LEMMA NeighboursSuffice ==
  ASSUME NEW S, \A c \in S : c.start \in Nat /\ c.count \in Nat, ~Overlapping(S),
         NEW a \in S, NEW b \in S, a.start <= b.start, b.start < a.start + a.count
  PROVE  a = b
<1> SUFFICES ASSUME a # b PROVE FALSE
  OBVIOUS
<1>1. CASE a.start = b.start
  <2>1. ~\E c \in S : a.start < c.start /\ c.start < b.start
    BY <1>1
  <2> QED
    BY <2>1 DEF Overlapping
<1>2. CASE a.start < b.start
  <2>1. PICK c \in S : a.start < c.start /\ \A d \in S : a.start < d.start => c.start <= d.start
    BY <1>2, NextStart
  <2>2. a # c /\ a.start <= c.start /\ c.start < a.start + a.count
    BY <1>2, <2>1
  <2>3. ~\E d \in S : a.start < d.start /\ d.start < c.start
    BY <2>1
  <2> QED
    BY <2>2, <2>3 DEF Overlapping
<1> QED
  BY <1>1, <1>2

----------------------------------------------------------------------------
(* findAssetContainingSector answers with an asset that holds the sector,  *)
(* and with the only one there is.                                         *)
LEMMA FoundAssetHolds ==
  ASSUME StorageTypeOK, NEW sector \in Nat, FindAssetContainingSector(sector) # None
  PROVE  /\ FindAssetContainingSector(sector) \in assets
         /\ Holds(FindAssetContainingSector(sector), sector)
<1> DEFINE before == {a \in assets : a.start <= sector}
           candidate == CHOOSE a \in before : \A b \in before : b.start <= a.start
<1>1. before # {} /\ Holds(candidate, sector) /\ FindAssetContainingSector(sector) = candidate
  BY DEF FindAssetContainingSector
<1>2. \A a \in before : a.start \in Nat /\ a.start <= sector
  BY DEF StorageTypeOK, Asset
<1>3. \E a \in before : \A b \in before : b.start <= a.start
  <2> HIDE DEF before
  <2> QED
    BY <1>1, <1>2, LastStart
<1>4. candidate \in before
  BY <1>3
<1> QED
  BY <1>1, <1>4

LEMMA HoldingAssetFound ==
  ASSUME StorageTypeOK, CatalogueInitialized, NEW a \in assets, NEW sector \in Nat, Holds(a, sector)
  PROVE  FindAssetContainingSector(sector) = a
<1> DEFINE before == {b \in assets : b.start <= sector}
           candidate == CHOOSE b \in before : \A c \in before : c.start <= b.start
<1>1. \A b \in assets : b.start \in Nat /\ b.count \in Nat
  BY DEF StorageTypeOK, Asset
<1>2. a \in before /\ sector < a.start + a.count
  BY DEF Holds
<1>3. \E b \in before : \A c \in before : c.start <= b.start
  <2>1. \A b \in before : b.start \in Nat /\ b.start <= sector
    BY <1>1
  <2> HIDE DEF before
  <2> QED
    BY <1>2, <2>1, LastStart
<1>4. candidate \in before /\ a.start <= candidate.start
  BY <1>2, <1>3
<1>5. candidate \in assets /\ candidate.start <= sector
  BY <1>4
<1> HIDE DEF candidate
<1>6. candidate.start < a.start + a.count
  BY <1>1, <1>2, <1>5
<1>7. candidate = a
  BY <1>1, <1>4, <1>5, <1>6, NeighboursSuffice DEF CatalogueInitialized
<1> QED
  BY <1>2, <1>7 DEF FindAssetContainingSector, candidate

(* Whichever file a sector of a request comes from, it holds the sector.   *)
LEMMA SourceHolds ==
  ASSUME StorageTypeOK, NEW source \in Nat, NEW count \in Nat,
         NEW sector \in source .. source + count - 1, Source(source, count, sector) # None
  PROVE  LET file == Source(source, count, sector) IN
         file.start \in Nat /\ file.count \in Nat /\ Holds(file, sector)
<1> DEFINE file == Source(source, count, sector)
           spans == LevelsHolding(source, count)
<1>1. sector \in Nat
  OBVIOUS
<1>2. CASE ~DirectAssetCoversRequest(source, count) /\ spans # {}
  <2>1. \A l \in spans : l \in Level /\ HoldsAll(l, source, count)
    BY DEF LevelsHolding, StorageTypeOK
  <2>2. {l.index : l \in spans} \in SUBSET Nat /\ {l.index : l \in spans} # {}
    BY <1>2, <2>1 DEF Level
  <2>3. PICK n \in {l.index : l \in spans} : \A k \in {l.index : l \in spans} : n <= k
    BY <2>2, LeastNatural
  <2>4. \E l \in spans : \A m \in spans : l.index <= m.index
    BY <2>3
  <2>5. file \in spans
    BY <1>2, <2>4 DEF Source
  <2> HIDE DEF file, spans
  <2>6. file.start \in Nat /\ file.count \in Nat /\ HoldsAll(file, source, count)
    BY <2>1, <2>5 DEF Level
  <2>7. Holds(file, sector)
    BY <2>6 DEF Holds, HoldsAll
  <2> QED
    BY <2>6, <2>7 DEF file
<1>3. CASE ~(~DirectAssetCoversRequest(source, count) /\ spans # {})
  <2>1. file = FindAssetContainingSector(sector)
    BY <1>3 DEF Source
  <2>2. file \in assets /\ Holds(file, sector)
    BY <1>1, <2>1, FoundAssetHolds
  <2> QED
    BY <2>2 DEF StorageTypeOK, Asset
<1> QED
  BY <1>2, <1>3

(* A segment is never empty, stays within the request, and holds the       *)
(* sectors that come next.                                                 *)
LEMMA SegmentIsNext ==
  ASSUME StorageTypeOK, StagingIsRange, call # NoCall, Accepted, Len(staging) < call.count
  PROVE  /\ Segment \in Seq(Nat) /\ Len(Segment) > 0
         /\ Len(staging) + Len(Segment) <= call.count
         /\ \A i \in 1 .. Len(Segment) : Segment[i] = call.source + Len(staging) + i - 1
<1>1. call.source \in Nat /\ call.count \in Nat /\ Len(staging) \in Nat
  BY DEF StorageTypeOK
<1>2. NextSector \in call.source .. call.source + call.count - 1
  BY <1>1 DEF NextSector
<1>3. NextFile # None
  BY <1>2 DEF Accepted, NextFile
<1>4. NextFile.start \in Nat /\ NextFile.count \in Nat /\ Holds(NextFile, NextSector)
  BY <1>1, <1>2, <1>3, SourceHolds DEF NextFile
<1>5. NextSector = call.source + Len(staging) /\ NextSector \in Nat
  BY <1>1 DEF NextSector
<1>6. Take \in Nat /\ Take > 0 /\ Take <= call.count - Len(staging)
  <2> DEFINE rest == call.count - Len(staging)
             left == NextFile.start + NextFile.count - NextSector
  <2>1. rest \in Nat /\ rest > 0
    BY <1>1
  <2>2. left \in Nat /\ left > 0
    BY <1>4, <1>5 DEF Holds
  <2>3. Take = IF rest < left THEN rest ELSE left
    BY DEF Take, Smaller
  <2> HIDE DEF rest, left
  <2>4. Take \in Nat /\ Take > 0 /\ Take <= rest
    BY <2>1, <2>2, <2>3
  <2> QED
    BY <2>4 DEF rest
<1>7. \A i \in 1 .. Take :
        Content(NextFile, Offset(NextFile, NextSector + i - 1)) = NextSector + i - 1
  BY <1>4, <1>5 DEF Content, Offset
<1> HIDE DEF NextFile, NextSector, Take
<1>8. Segment = [i \in 1 .. Take |-> NextSector + i - 1]
  BY <1>7 DEF Segment
<1>9. Segment \in Seq(Nat) /\ Len(Segment) = Take
  BY <1>5, <1>6, <1>8
<1> QED
  BY <1>1, <1>5, <1>6, <1>8, <1>9

----------------------------------------------------------------------------
LEMMA StorageInitInv == StorageInit => StorageInv
<1> SUFFICES ASSUME StorageInit PROVE StorageInv
  OBVIOUS
<1> USE DEF StorageInit
<1>1. \A name \in Files(toc) : Complete(toc)[name] \in Nat
  <2> SUFFICES ASSUME NEW name \in Files(toc) PROVE Complete(toc)[name] \in Nat
    OBVIOUS
  <2> DEFINE all == toc.entries \cup toc.levels
  <2>1. toc.entries \subseteq Asset /\ toc.levels \subseteq Level
    BY StorageAssumption DEF Toc
  <2>2. \E f \in all : Name(f) = name
    BY DEF Files
  <2>3. (CHOOSE f \in all : Name(f) = name) \in all
    BY <2>2
  <2>4. \A f \in all : f.count \in Nat
    BY <2>1 DEF Asset, Level
  <2> QED
    BY <2>3, <2>4 DEF Complete
<1>2. DOMAIN disk = Files(toc) /\ \A name \in DOMAIN disk : disk[name] \in Nat
  BY <1>1 DEF Complete
<1>3. last.path = "none" /\ last.v0 = 0
  BY DEF NoRequest
<1>4. StorageTypeOK
  BY <1>2, <1>3 DEF StorageTypeOK
<1>5. CatalogueInitialized
  BY <1>3 DEF CatalogueInitialized, Overlapping
<1> QED
  BY <1>3, <1>4, <1>5
  DEF StorageInv, StagingIsRange, BeforeKept, DeliveredAsRequested, UnservedLeavesMemory

(* A catalogue with overlapping neighbours is refused.                     *)
LEMMA InitializeInv == ASSUME StorageInv, Initialize PROVE StorageInv'
<1> USE DEF StorageInv
<1>1. /\ UNCHANGED <<toc, disk, memory, call, staging, last, observed>>
      /\ observed = None /\ last.path = "none" /\ phase = "created" /\ call = NoCall
  BY DEF Initialize, CatalogueInitialized, BeforeKept, callVars
<1>2. toc.entries \subseteq Asset /\ toc.levels \subseteq Level
  BY StorageAssumption DEF StorageTypeOK, Toc
<1>3. \A l \in levelAssets' : l \in Level /\ l.count > 0
  <2>1. levelAssets' \subseteq IndexedLevels(toc)
    BY DEF Initialize
  <2> QED
    BY <1>2, <2>1 DEF IndexedLevels, Level
<1>4. \/ phase' = "exited" /\ assets' = {}
      \/ phase' = "running" /\ assets' = Indexed(toc) /\ ~Overlapping(Indexed(toc))
         /\ BootPresent(Indexed(toc))
  BY DEF Initialize
<1>5. \A a \in assets' : a \in Asset /\ a.start > 0 /\ a.count > 0
  BY <1>2, <1>4 DEF Indexed, Asset
<1>6. StorageTypeOK'
  BY <1>1, <1>3, <1>4, <1>5 DEF StorageTypeOK
<1>7. CatalogueInitialized'
  BY <1>1, <1>4 DEF CatalogueInitialized, Overlapping, Indexed, BootPresent
<1> QED
  BY <1>1, <1>6, <1>7
  DEF StagingIsRange, BeforeKept, DeliveredAsRequested, UnservedLeavesMemory

(* A call begins: nothing is staged, and all it wrote are the status       *)
(* words.                                                                  *)
LEMMA BeginInv ==
  ASSUME StorageInv, NEW entry \in {"game", "async", "raw"}, NEW destination \in Cell,
         NEW source \in Nat, NEW count \in Nat, Begin(entry, destination, source, count),
         IF entry = "async" THEN memory' = [memory EXCEPT ![StatusCell] = Cleared]
                            ELSE memory' = memory
  PROVE  StorageInv'
<1> USE DEF StorageInv
<1>1. /\ UNCHANGED <<toc, disk, phase, assets, levelAssets, observed>> /\ phase = "running"
      /\ call'.entry = entry /\ call'.destination = destination /\ call'.source = source
      /\ call'.count = count /\ call'.before = memory
      /\ staging' = <<>> /\ last'.path = "none" /\ last'.v0 = 0
  BY DEF Begin, catalogueVars, NoRequest
<1>2. call' # NoCall
  BY <1>1 DEF NoCall
<1>3. memory' \in [Cell -> Nat \cup {Cleared, Other}]
  BY DEF StorageTypeOK
<1>4. StorageTypeOK'
  BY <1>1, <1>3 DEF StorageTypeOK
<1>5. CatalogueInitialized'
  BY <1>1 DEF CatalogueInitialized, Overlapping
<1>6. StagingIsRange'
  BY <1>1, <1>2 DEF StagingIsRange
<1>7. BeforeKept'
  BY <1>1 DEF BeforeKept, StorageTypeOK
<1> QED
  BY <1>1, <1>4, <1>5, <1>6, <1>7 DEF DeliveredAsRequested, UnservedLeavesMemory

(* The next segment extends the range that is staged.                      *)
LEMMA StageSegmentInv == ASSUME StorageInv, StageSegment PROVE StorageInv'
<1> USE DEF StorageInv
<1>1. /\ UNCHANGED <<toc, disk, phase, assets, levelAssets, memory, call, last, observed>>
      /\ call # NoCall /\ staging' = staging \o Segment
  BY DEF StageSegment, catalogueVars
<1>2. /\ Segment \in Seq(Nat)
      /\ Len(staging) + Len(Segment) <= call.count
      /\ \A i \in 1 .. Len(Segment) : Segment[i] = call.source + Len(staging) + i - 1
  BY SegmentIsNext DEF StageSegment
<1>3. staging \in Seq(Nat) /\ call.source \in Nat
  BY <1>1 DEF StorageTypeOK
<1> HIDE DEF Segment
<1>4. staging' \in Seq(Nat) /\ Len(staging') = Len(staging) + Len(Segment)
  BY <1>1, <1>2, <1>3
<1>5. \A i \in 1 .. Len(staging') : staging'[i] = call.source + i - 1
  <2> SUFFICES ASSUME NEW i \in 1 .. Len(staging') PROVE staging'[i] = call.source + i - 1
    OBVIOUS
  <2>1. CASE i <= Len(staging)
    <3>1. staging'[i] = staging[i]
      BY <1>1, <1>2, <1>3, <1>4, <2>1
    <3> QED
      BY <1>1, <1>3, <2>1, <3>1 DEF StagingIsRange
  <2>2. CASE i > Len(staging)
    <3>1. i - Len(staging) \in 1 .. Len(Segment)
      BY <1>2, <1>3, <1>4, <2>2
    <3>2. staging'[i] = Segment[i - Len(staging)]
      BY <1>1, <1>2, <1>3, <1>4, <2>2
    <3>3. Segment[i - Len(staging)] = call.source + Len(staging) + (i - Len(staging)) - 1
      BY <1>2, <3>1
    <3> QED
      BY <1>3, <3>2, <3>3
  <2> QED
    BY <1>3, <2>1, <2>2
<1>6. StorageTypeOK'
  BY <1>1, <1>4 DEF StorageTypeOK
<1>7. CatalogueInitialized'
  BY <1>1 DEF CatalogueInitialized, Overlapping
<1>8. StagingIsRange'
  BY <1>1, <1>2, <1>4, <1>5 DEF StagingIsRange
<1>9. BeforeKept' /\ DeliveredAsRequested'
  BY <1>1 DEF BeforeKept, DeliveredAsRequested
<1>10. UnservedLeavesMemory'
  BY <1>1 DEF UnservedLeavesMemory, BootStart, BootAlias
<1> QED
  BY <1>6, <1>7, <1>8, <1>9, <1>10

(* What memory must be when a call returns, for the invariant to hold.     *)
LEMMA ReturnInv ==
  ASSUME StorageInv, call # NoCall, NEW path \in {"native", "alias", "failed", "fallback"},
         NEW v0 \in Nat, Return(path, v0),
         memory' \in [Cell -> Nat \cup {Cleared, Other}], observed' \in assets \cup {None},
         path = "native" =>
           /\ call.count > 0
           /\ \A k \in 0 .. call.count - 1 : memory'[call.destination + k] = call.source + k,
         path \in {"failed", "fallback"} =>
           \A cell \in Cell : memory'[cell] # call.before[cell] =>
             \/ call.entry = "async" /\ cell = StatusCell /\ memory'[cell] = Cleared
             \/ /\ call.entry = "raw" /\ BootAlias(call) /\ LegacyBootTop <= cell
                /\ \A read \in LegacyBootTop .. cell :
                     memory'[read] = BootStart + (read - LegacyBootTop)
  PROVE  StorageInv'
<1> USE DEF StorageInv
<1>1. /\ UNCHANGED <<toc, disk, phase, assets, levelAssets>> /\ call' = NoCall /\ staging' = <<>>
      /\ last'.path = path /\ last'.v0 = v0 /\ last'.count = call.count
      /\ last'.destination = call.destination /\ last'.source = call.source
      /\ last'.entry = call.entry /\ last'.before = call.before
  BY DEF Return, catalogueVars
<1>2. StorageTypeOK'
  BY <1>1 DEF StorageTypeOK
<1>3. phase = "running"
  BY DEF BeforeKept
<1>4. CatalogueInitialized'
  BY <1>1, <1>3 DEF CatalogueInitialized, Overlapping
<1>5. StagingIsRange' /\ BeforeKept'
  BY <1>1 DEF StagingIsRange, BeforeKept
<1>6. DeliveredAsRequested'
  BY <1>1 DEF DeliveredAsRequested
<1>7. (BootStart)' = BootStart /\ BootAlias(last') = BootAlias(call)
  BY <1>1 DEF BootStart, BootAlias
<1>8. UnservedLeavesMemory'
  BY <1>1, <1>7 DEF UnservedLeavesMemory
<1> QED
  BY <1>2, <1>4, <1>5, <1>6, <1>8

(* A completed read put the request into memory.                           *)
LEMMA CompletedRead ==
  ASSUME StorageInv, ReadCompletes
  PROVE  /\ call # NoCall /\ call.count > 0 /\ call.count \in Nat
         /\ memory' \in [Cell -> Nat \cup {Cleared, Other}]
         /\ \A k \in 0 .. call.count - 1 : memory'[call.destination + k] = call.source + k
<1> USE DEF StorageInv
<1>1. /\ call # NoCall /\ call.count # 0 /\ call.destination + call.count <= Cells
      /\ Len(staging) = call.count
  BY DEF ReadCompletes, Accepted
<1>2. /\ call.destination \in Cell /\ call.source \in Nat /\ call.count \in Nat
      /\ staging \in Seq(Nat)
  BY <1>1 DEF StorageTypeOK
<1>3. \A i \in 1 .. call.count : staging[i] = call.source + i - 1
  BY <1>1 DEF StagingIsRange
<1>4. ASSUME NEW cell \in Cell, InRequest(cell)
      PROVE  cell - call.destination + 1 \in 1 .. call.count
  BY <1>2, <1>4 DEF InRequest, Cell
<1>5. memory' = [cell \in Cell |-> IF InRequest(cell) THEN staging[cell - call.destination + 1]
                                   ELSE memory[cell]]
  BY DEF ReadCompletes
<1>6. memory' \in [Cell -> Nat \cup {Cleared, Other}]
  <2>1. \A cell \in Cell : InRequest(cell) => staging[cell - call.destination + 1] \in Nat
    BY <1>1, <1>2, <1>4
  <2> QED
    BY <1>5, <2>1 DEF StorageTypeOK
<1>7. ASSUME NEW k \in 0 .. call.count - 1
      PROVE  memory'[call.destination + k] = call.source + k
  <2>1. /\ call.destination <= call.destination + k
        /\ call.destination + k < call.destination + call.count
    BY <1>2 DEF Cell
  <2>2. call.destination + k \in Cell /\ InRequest(call.destination + k)
    BY <1>1, <1>2, <2>1, StorageAssumption DEF Cell, InRequest
  <2>3. memory'[call.destination + k] = staging[(call.destination + k) - call.destination + 1]
    BY <1>5, <2>2
  <2>4. (call.destination + k) - call.destination + 1 = k + 1 /\ k + 1 \in 1 .. call.count
    BY <1>2 DEF Cell
  <2>5. staging[k + 1] = call.source + (k + 1) - 1
    BY <1>3, <2>4
  <2> QED
    BY <1>2, <2>3, <2>4, <2>5
<1> QED
  BY <1>1, <1>2, <1>6, <1>7

(* A read that failed left memory as it was during the call.               *)
LEMMA FailedRead ==
  ASSUME StorageInv, ReadFails, UNCHANGED memory
  PROVE  /\ call # NoCall /\ memory' \in [Cell -> Nat \cup {Cleared, Other}]
         /\ \A cell \in Cell : memory'[cell] # call.before[cell] =>
              call.entry = "async" /\ cell = StatusCell /\ memory'[cell] = Cleared
<1>1. call # NoCall
  BY DEF ReadFails
<1> QED
  BY <1>1 DEF StorageInv, BeforeKept, StorageTypeOK

(* The observer is told of an indexed asset or of nothing.                 *)
LEMMA ObservedType ==
  ASSUME StorageTypeOK, NEW source \in Nat, NEW count \in Nat, NEW path,
         Observe(source, count, path)
  PROVE  observed' \in assets \cup {None}
<1>1. ExactAsset(source, count) \in assets \cup {None}
  BY FoundAssetHolds DEF ExactAsset
<1> QED
  BY <1>1 DEF Observe, StorageTypeOK

LEMMA GameSectorReadReturnsInv == ASSUME StorageInv, GameSectorReadReturns PROVE StorageInv'
<1> USE DEF GameSectorReadReturns
<1>1. call # NoCall
  BY DEF NoCall
<1>2. call.source \in Nat /\ call.count \in Nat /\ StorageTypeOK
  BY <1>1 DEF StorageInv, StorageTypeOK
<1>3. CASE ReadCompletes /\ Observe(call.source, call.count, "native") /\ Return("native", call.count)
  BY <1>1, <1>2, <1>3, CompletedRead, ObservedType, ReturnInv
<1>4. CASE /\ ReadFails /\ UNCHANGED memory
           /\ Observe(call.source, call.count, "failed") /\ Return("failed", 0)
  BY <1>1, <1>2, <1>4, FailedRead, ObservedType, ReturnInv
<1> QED
  BY <1>3, <1>4

LEMMA GameAsyncSectorReadReturnsInv ==
  ASSUME StorageInv, GameAsyncSectorReadReturns PROVE StorageInv'
<1> USE DEF GameAsyncSectorReadReturns
<1>1. call # NoCall
  BY DEF NoCall
<1>2. observed' \in assets \cup {None}
  BY DEF StorageInv, StorageTypeOK
<1>3. CASE ReadCompletes /\ Return("native", 1)
  BY <1>1, <1>2, <1>3, CompletedRead, ReturnInv
<1>4. CASE ReadFails /\ UNCHANGED memory /\ Return("fallback", 0)
  BY <1>1, <1>2, <1>4, FailedRead, ReturnInv
<1> QED
  BY <1>3, <1>4

(* The boot alias reads straight into memory, from a file initialize()     *)
(* found: cut short, it leaves a prefix of that file.                      *)
LEMMA TryLegacyBootAliasInv ==
  ASSUME StorageInv, call # NoCall, call.entry = "raw", BootAlias(call), TryLegacyBootAlias,
         UNCHANGED observed
  PROVE  StorageInv'
<1> USE DEF StorageInv
<1> DEFINE boot == CHOOSE a \in assets : Name(a) = <<"wad2", 0>>
<1>1. boot \in assets /\ Name(boot) = <<"wad2", 0>>
  BY DEF CatalogueInitialized, BeforeKept
<1>2. BootStart \in Nat /\ disk[<<"wad2", 0>>] \in Nat
  BY <1>1 DEF StorageTypeOK, Asset, CatalogueInitialized, Files, BootStart
<1>3. BootWanted \in Int
  BY <1>2, StorageAssumption DEF BootWanted, Smaller, Cell
<1>4. PICK n \in 0 .. BootWanted :
        BootPrefix(n) /\ (Return("alias", n) \/ Return("fallback", 0))
  BY DEF TryLegacyBootAlias
<1>5. n \in Nat
  BY <1>3
<1> HIDE DEF boot
<1>6. memory' = [cell \in Cell |-> IF LegacyBootTop <= cell /\ cell < LegacyBootTop + n
                                   THEN BootStart + (cell - LegacyBootTop) ELSE memory[cell]]
  BY <1>4 DEF BootPrefix
<1>7. \A cell \in Cell : LegacyBootTop <= cell => BootStart + (cell - LegacyBootTop) \in Nat
  BY <1>2, StorageAssumption DEF Cell
<1>8. memory' \in [Cell -> Nat \cup {Cleared, Other}]
  BY <1>6, <1>7 DEF StorageTypeOK
<1>9. observed' \in assets \cup {None}
  BY DEF StorageTypeOK
<1>10. ASSUME NEW cell \in Cell, memory'[cell] # call.before[cell]
       PROVE  /\ LegacyBootTop <= cell
              /\ \A read \in LegacyBootTop .. cell :
                   memory'[read] = BootStart + (read - LegacyBootTop)
  <2>1. memory[cell] = call.before[cell]
    BY DEF BeforeKept
  <2>2. LegacyBootTop <= cell /\ cell < LegacyBootTop + n
    BY <1>6, <1>10, <2>1
  <2>3. \A read \in LegacyBootTop .. cell : read \in Cell /\ read < LegacyBootTop + n
    BY <1>5, <2>2, StorageAssumption DEF Cell
  <2> QED
    BY <1>6, <2>2, <2>3
<1>11. CASE Return("alias", n)
  BY <1>5, <1>8, <1>9, <1>11, ReturnInv
<1>12. CASE Return("fallback", 0)
  BY <1>8, <1>9, <1>10, <1>12, ReturnInv
<1> QED
  BY <1>4, <1>11, <1>12

LEMMA SectorReadReturnsInv == ASSUME StorageInv, SectorReadReturns PROVE StorageInv'
<1> USE DEF SectorReadReturns
<1>1. call # NoCall /\ call.entry = "raw"
  BY DEF NoCall
<1>2. observed' \in assets \cup {None}
  BY DEF StorageInv, StorageTypeOK
<1>3. CASE ReadCompletes /\ Return("native", call.count)
  BY <1>1, <1>2, <1>3, CompletedRead, ReturnInv
<1>4. CASE ReadFails /\ BootAlias(call) /\ TryLegacyBootAlias
  BY <1>1, <1>4, TryLegacyBootAliasInv
<1>5. CASE ReadFails /\ ~BootAlias(call) /\ UNCHANGED memory /\ Return("fallback", 0)
  BY <1>1, <1>2, <1>5, FailedRead, ReturnInv
<1> QED
  BY <1>3, <1>4, <1>5

----------------------------------------------------------------------------
LEMMA GuestWriteInv == ASSUME StorageInv, NEW cell \in Cell, GuestWrite(cell) PROVE StorageInv'
<1> USE DEF StorageInv
<1>1. /\ UNCHANGED <<toc, disk, phase, assets, levelAssets, call, staging, observed>>
      /\ call = NoCall /\ memory' = [memory EXCEPT ![cell] = Other]
      /\ last'.path = "none" /\ last'.v0 = 0
  BY DEF GuestWrite, catalogueVars, callVars, NoRequest
<1>2. StorageTypeOK'
  BY <1>1 DEF StorageTypeOK
<1>3. CatalogueInitialized'
  BY <1>1 DEF CatalogueInitialized, Overlapping
<1> QED
  BY <1>1, <1>2, <1>3 DEF StagingIsRange, BeforeKept, DeliveredAsRequested, UnservedLeavesMemory

LEMMA LoseSectorsInv ==
  ASSUME StorageInv, NEW file \in Indexed(toc) \cup IndexedLevels(toc),
         NEW left \in {0, file.count - 1}, LoseSectors(file, left)
  PROVE  StorageInv'
<1> USE DEF StorageInv
<1>1. /\ UNCHANGED <<toc, phase, assets, levelAssets, memory, call, staging, observed>>
      /\ disk' = [disk EXCEPT ![Name(file)] = left] /\ last'.path = "none" /\ last'.v0 = 0
  BY DEF LoseSectors, callVars, NoRequest
<1>2. file.count \in Nat \ {0}
  BY StorageAssumption DEF StorageTypeOK, Toc, Indexed, IndexedLevels, Asset, Level
<1>3. left \in Nat
  BY <1>2
<1>4. StorageTypeOK'
  BY <1>1, <1>3 DEF StorageTypeOK
<1>5. CatalogueInitialized'
  BY <1>1 DEF CatalogueInitialized, Overlapping
<1> QED
  BY <1>1, <1>4, <1>5 DEF StagingIsRange, BeforeKept, DeliveredAsRequested, UnservedLeavesMemory

LEMMA StorageNextInv == StorageInv /\ [StorageNext]_storageVars => StorageInv'
<1> SUFFICES ASSUME StorageInv, [StorageNext]_storageVars PROVE StorageInv'
  OBVIOUS
<1>1. \A r \in Requests : r[1] \in Nat /\ r[2] \in Nat
  BY StorageAssumption
<1>2. CASE Initialize
  BY <1>2, InitializeInv
<1>3. ASSUME NEW destination \in Cell, NEW r \in Requests,
             \/ GameSectorRead(destination, r[1], r[2])
             \/ GameAsyncSectorRead(destination, r[1], r[2])
             \/ SectorRead(destination, r[1], r[2])
      PROVE  StorageInv'
  <2>1. PICK entry \in {"game", "async", "raw"} :
          /\ Begin(entry, destination, r[1], r[2])
          /\ IF entry = "async" THEN memory' = [memory EXCEPT ![StatusCell] = Cleared]
                                ELSE memory' = memory
    BY <1>3 DEF GameSectorRead, GameAsyncSectorRead, SectorRead
  <2> QED
    BY <1>1, <2>1, BeginInv
<1>4. CASE StageSegment
  BY <1>4, StageSegmentInv
<1>5. CASE GameSectorReadReturns \/ GameAsyncSectorReadReturns \/ SectorReadReturns
  BY <1>5, GameSectorReadReturnsInv, GameAsyncSectorReadReturnsInv, SectorReadReturnsInv
<1>6. CASE \E cell \in Cell : GuestWrite(cell)
  BY <1>6, GuestWriteInv
<1>7. CASE \E file \in Indexed(toc) \cup IndexedLevels(toc) :
             \E left \in {0, file.count - 1} : LoseSectors(file, left)
  BY <1>7, LoseSectorsInv
<1>8. CASE UNCHANGED storageVars
  <2>1. /\ UNCHANGED <<toc, disk, phase, assets, levelAssets>>
        /\ UNCHANGED <<memory, call, staging, last, observed>>
    BY <1>8 DEF storageVars, catalogueVars, callVars
  <2>2. StorageTypeOK'
    BY <2>1 DEF StorageInv, StorageTypeOK
  <2>3. CatalogueInitialized'
    BY <2>1 DEF StorageInv, CatalogueInitialized, Overlapping
  <2>4. StagingIsRange' /\ BeforeKept' /\ DeliveredAsRequested'
    BY <2>1 DEF StorageInv, StagingIsRange, BeforeKept, DeliveredAsRequested
  <2>5. UnservedLeavesMemory'
    BY <2>1 DEF StorageInv, UnservedLeavesMemory, BootStart, BootAlias
  <2> QED
    BY <2>2, <2>3, <2>4, <2>5 DEF StorageInv
<1> QED
  BY <1>2, <1>3, <1>4, <1>5, <1>6, <1>7, <1>8 DEF StorageNext

(* The strengthened invariant: types, what initialize() left, what the     *)
(* call in progress staged and changed, and what the latest call left.     *)
THEOREM StorageInvariant == StorageSpec => []StorageInv
  BY StorageInitInv, StorageNextInv, PTL DEF StorageSpec

(* Types of the catalogue, the files and guest memory.                     *)
THEOREM StorageTypeCorrect == StorageSpec => []StorageTypeOK
<1>1. StorageInv => StorageTypeOK
  BY DEF StorageInv
<1> QED
  BY <1>1, StorageInvariant, PTL

(* Every sector of an indexed asset is answered with that asset: comparing *)
(* neighbours in NativeVfs::initialize is enough for the binary search of  *)
(* findAssetContainingSector.                                              *)
THEOREM CatalogueAnswersExactly == StorageSpec => []CatalogueIsExact
<1>1. StorageInv => CatalogueIsExact
  <2> SUFFICES ASSUME StorageInv, NEW a \in assets, NEW sector \in a.start .. a.start + a.count - 1
               PROVE  FindAssetContainingSector(sector) = a
    BY DEF CatalogueIsExact
  <2>1. a.start \in Nat /\ a.count \in Nat
    BY DEF StorageInv, StorageTypeOK, Asset
  <2>2. sector \in Nat /\ Holds(a, sector)
    BY <2>1 DEF Holds
  <2> QED
    BY <2>2, HoldingAssetFound DEF StorageInv
<1> QED
  BY <1>1, StorageInvariant, PTL

(* A served request left exactly the disc's sectors in guest memory,       *)
(* whatever files they came from: readSectors and the native hooks.        *)
THEOREM ServedSectorsDelivered == StorageSpec => []DeliveredAsRequested
<1>1. StorageInv => DeliveredAsRequested
  BY DEF StorageInv
<1> QED
  BY <1>1, StorageInvariant, PTL

(* A call that returns unserved, whichever of its files failed and however *)
(* much was staged by then, changed only the status words an asynchronous  *)
(* request clears, or left a gapless prefix of the boot program: the       *)
(* staging buffer of readSectors and the in-place readAssetPrefix.         *)
THEOREM UnservedMutatesNothing == StorageSpec => []UnservedLeavesMemory
<1>1. StorageInv => UnservedLeavesMemory
  BY DEF StorageInv
<1> QED
  BY <1>1, StorageInvariant, PTL

(* The runtime is told of an asset only when all of it is in memory:       *)
(* indexedAssetReadObserver after a completed read.                        *)
THEOREM ObserverHearsOfLoadedAssets == StorageSpec => ObservedAssetsAreLoaded
<1> DEFINE Loaded == observed' # observed =>
                       /\ last'.source = observed'.start /\ last'.count = observed'.count
                       /\ \A k \in 0 .. observed'.count - 1 :
                            memory'[last'.destination + k] = observed'.start + k
<1>1. StorageInv /\ [StorageNext]_storageVars => Loaded
  <2> SUFFICES ASSUME StorageInv, [StorageNext]_storageVars, observed' # observed
               PROVE  /\ last'.source = observed'.start /\ last'.count = observed'.count
                      /\ \A k \in 0 .. observed'.count - 1 :
                           memory'[last'.destination + k] = observed'.start + k
    OBVIOUS
  <2>1. GameSectorReadReturns
    BY DEF StorageNext, Initialize, GameSectorRead, GameAsyncSectorRead, SectorRead, Begin,
           StageSegment, GameAsyncSectorReadReturns, SectorReadReturns, GuestWrite, LoseSectors,
           storageVars
  <2>2. ReadCompletes /\ Observe(call.source, call.count, "native") /\ Return("native", call.count)
    BY <2>1 DEF GameSectorReadReturns, Observe
  <2>3. /\ observed' = ExactAsset(call.source, call.count)
        /\ ExactAsset(call.source, call.count) # None
    BY <2>2 DEF Observe
  <2>4. observed'.start = call.source /\ observed'.count = call.count
    BY <2>3 DEF ExactAsset
  <2>5. /\ last'.source = call.source /\ last'.count = call.count
        /\ last'.destination = call.destination
    BY <2>2 DEF Return
  <2>6. \A k \in 0 .. call.count - 1 : memory'[call.destination + k] = call.source + k
    BY <2>2, CompletedRead
  <2> QED
    BY <2>4, <2>5, <2>6
<1> QED
  BY <1>1, StorageInvariant, PTL DEF StorageSpec, ObservedAssetsAreLoaded

=============================================================================
