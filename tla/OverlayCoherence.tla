-------------------------- MODULE OverlayCoherence --------------------------
(***************************************************************************)
(* inspectLevelOverlayCoherence: at every presentation, is the overlay of  *)
(* the mapped level in guest memory, and does it replace code the static   *)
(* recompilation still has a function for?  The level's overlay and the    *)
(* static program counters inside it are renewed by a level load; memory   *)
(* is the guest's, which copies payloads there and writes over them.       *)
(*   an overlay  - [bytes, ones, segments], a segment [at, destination,    *)
(*                 size]: payload and its place in guest memory            *)
(* Bytes are 0 or 1, in memory, in payloads and in the ELF.                *)
(***************************************************************************)
EXTENDS StaticElf, BootProgress, FiniteSets

CONSTANTS
  MemoryBytes,      \* PS2_RAM_SIZE
  BootElf,          \* the file initialize parsed, accepted or not
  StaticPcs,        \* staticFallbackAddresses, ascending
  Overlays,         \* of the levels there are
  BootSnapshots     \* the words of guest memory the boot path is in

OverlaySegment == [at : Nat, destination : Nat, size : Nat]
ProgramHeader == [load : BOOLEAN, at : Nat, address : Nat, size : Nat, memory : Nat]

\* Only the words the guest tests the sign of can be negative.
ASSUME OverlayCoherenceAssumption ==
  /\ MemoryBytes \in Nat /\ StaticPcs \in Seq(Nat)
  /\ BootElf.bytes \in Nat /\ BootElf.headers \in Seq(ProgramHeader)
  /\ BootElf.tableAt \in Nat /\ BootElf.entryBytes \in Nat
  /\ \A o \in Overlays :
       /\ o.bytes \in Nat /\ o.segments \in Seq(OverlaySegment)
       /\ \A i \in DOMAIN o.segments :
            RangeFits(<<o.segments[i].at, o.segments[i].size>>, o.bytes)
  /\ \A guest \in BootSnapshots :
       /\ guest.bytes \in Nat
       /\ \A a \in DOMAIN guest.words :
            /\ guest.words[a] \in Int
            /\ a \notin {kState15F600Address, kState13D364Address, kState13D36CAddress} =>
                 guest.words[a] \in Nat

VARIABLES
  memory,        \* guest bytes from 0
  overlay,       \* what the renderer has kept of the mapped level
  fallbackPcs,   \* overlayFallbackAddresses, by their places in StaticPcs
  verdict        \* overlayCoherence, and what was in memory when it was made

coherenceVars == <<memory, overlay, fallbackPcs, verdict>>

kConflictProbeBytes == 16
NoOverlay == [bytes |-> 0, ones |-> {}, segments |-> <<>>]
NoVerdict == [status |-> "none", memory |-> <<>>, reads |-> {}]

Lesser(a, b) == IF a < b THEN a ELSE b

Covers(segment, pc) == segment.destination <= pc /\ pc < segment.destination + segment.size

\* overlaySegmentForPc: the first segment that covers the pc, if one does.
SegmentsForPc(o, pc) == {i \in DOMAIN o.segments : Covers(o.segments[i], pc)}
SegmentForPc(o, pc) == o.segments[Min(SegmentsForPc(o, pc))]

\* rebuildOverlayFallbackAddressSet
PcsIn(segments) ==
  {p \in DOMAIN StaticPcs : \E i \in DOMAIN segments : Covers(segments[i], StaticPcs[p])}

----------------------------------------------------------------------------
(* inspectRac1OverlayCoherence.                                            *)
SegmentSteps(o, s) ==
  <<Require("SegmentPayloadOutOfRange", RangeFits(<<s.at, s.size>>, o.bytes),
            {Bytes(s.at, s.size, o.bytes)}),
    Require("GuestDestinationOutOfRange", RangeFits(<<s.destination, s.size>>, MemoryBytes),
            {Bytes(s.destination, s.size, MemoryBytes)})>>

IsMaterialized(o, s) ==
  \A i \in 0 .. s.size - 1 : memory[s.destination + i] = ByteOf(o, s.at + i)

\* What is compared at a pc: its first segment's bytes, the ELF's, how many.
Probe(o, pc) ==
  LET s == SegmentForPc(o, pc)
      inOverlay == Lesser(kConflictProbeBytes, s.destination + s.size - pc)
      static == StaticBytesAt(BootElf, pc, inOverlay)
  IN [at |-> s.at + pc - s.destination, static |-> static[1],
      bytes |-> IF inOverlay < 4 \/ static[2] < 4 THEN 0 ELSE Lesser(inOverlay, static[2])]

IsComparable(o, pc) == SegmentsForPc(o, pc) # {} /\ Probe(o, pc).bytes # 0

ProbeSteps(o, pc) ==
  LET p == Probe(o, pc) IN
  IF ~IsComparable(o, pc) THEN <<>>
  ELSE <<Require("SegmentPayloadOutOfRange", RangeFits(<<p.at, p.bytes>>, o.bytes),
                 {Bytes(p.at, p.bytes, o.bytes), Bytes(p.static, p.bytes, BootElf.bytes)})>>

Conflicts(o, pc) ==
  IsComparable(o, pc) /\ \E i \in 0 .. Probe(o, pc).bytes - 1 :
    ByteOf(BootElf, Probe(o, pc).static + i) # ByteOf(o, Probe(o, pc).at + i)

CoherenceSteps(o, pcs) ==
  Then(<<Require("StaticElfUnavailable", ElfStatus(BootElf) = "Ok", {})>>,
       ForEach([i \in DOMAIN o.segments |-> SegmentSteps(o, o.segments[i])])
         \o ForEach([p \in DOMAIN StaticPcs |->
                       IF p \in pcs THEN ProbeSteps(o, StaticPcs[p]) ELSE <<>>]))

\* Mistake: some of the overlay in guest memory counts as all of it.
StatusOfAnySegment(o, pcs) ==
  IF Outcome(CoherenceSteps(o, pcs)) # "Ok" THEN Outcome(CoherenceSteps(o, pcs))
  ELSE IF \A i \in DOMAIN o.segments : ~IsMaterialized(o, o.segments[i])
  THEN "OverlayNotMaterialized"
  ELSE IF \E p \in pcs : Conflicts(o, StaticPcs[p]) THEN "StaleFallbackConflictProved"
  ELSE "NoStaticConflictObserved"

CoherenceStatus(o, pcs) ==
  IF Outcome(CoherenceSteps(o, pcs)) # "Ok" THEN Outcome(CoherenceSteps(o, pcs))
  ELSE IF \E i \in DOMAIN o.segments : ~IsMaterialized(o, o.segments[i])
  THEN "OverlayNotMaterialized"
  ELSE IF pcs = {} THEN "NoRegisteredFallbackOverlap"
  ELSE IF \A p \in pcs : ~IsComparable(o, StaticPcs[p]) THEN "NoComparableFallbackOverlap"
  ELSE IF \A p \in pcs : ~Conflicts(o, StaticPcs[p]) THEN "NoStaticConflictObserved"
  ELSE "StaleFallbackConflictProved"

FirstConflict(o, pcs) ==
  LET conflicting == {p \in pcs : Conflicts(o, StaticPcs[p])} IN
  IF Outcome(CoherenceSteps(o, pcs)) # "Ok" \/ conflicting = {} THEN -1
  ELSE StaticPcs[Min(conflicting)]

----------------------------------------------------------------------------
\* The renderer is unloaded first; a level that is not indexed leaves the
\* verdict of the one before, which is not inspected again.
MapLevelOverlay ==
  \/ \E o \in Overlays \union {NoOverlay} :
       /\ overlay' = o
       /\ fallbackPcs' = PcsIn(o.segments)
       /\ verdict' = NoVerdict
       /\ UNCHANGED memory
  \/ overlay' = NoOverlay /\ UNCHANGED <<memory, fallbackPcs, verdict>>

InspectOverlay ==
  /\ overlay.bytes # 0 /\ overlay.segments # <<>>
  /\ \E guest \in BootSnapshots :
       verdict' = [status |-> CoherenceStatus(overlay, fallbackPcs), memory |-> memory,
                   firstConflict |-> FirstConflict(overlay, fallbackPcs),
                   boot |-> BootProgressOf(guest),
                   reads |-> ReadsOf(CoherenceSteps(overlay, fallbackPcs))
                               \union ReadsOf(BootSteps(guest))]
  /\ UNCHANGED <<memory, overlay, fallbackPcs>>

\* The guest's loader copies a payload, and its code writes over it.
GuestMaterializes ==
  /\ \E o \in Overlays : \E n \in DOMAIN o.segments :
       LET s == o.segments[n] IN
       /\ RangeFits(<<s.destination, s.size>>, MemoryBytes)
       /\ memory' = [a \in DOMAIN memory |->
                       IF Covers(s, a) THEN ByteOf(o, s.at + a - s.destination) ELSE memory[a]]
  /\ UNCHANGED <<overlay, fallbackPcs, verdict>>

GuestOverwrites ==
  /\ \E a \in Range(StaticPcs) \cap DOMAIN memory : memory' = [memory EXCEPT ![a] = 1 - @]
  /\ UNCHANGED <<overlay, fallbackPcs, verdict>>

CoherenceInit ==
  /\ memory = [a \in 0 .. MemoryBytes - 1 |-> 0]
  /\ overlay = NoOverlay /\ fallbackPcs = {} /\ verdict = NoVerdict

CoherenceNext == MapLevelOverlay \/ InspectOverlay \/ GuestMaterializes \/ GuestOverwrites

CoherenceSpec == CoherenceInit /\ [][CoherenceNext]_coherenceVars

----------------------------------------------------------------------------
\* The code a function was compiled from and the code in memory at its pc
\* differ, in what is left of one of the level's segments.
RunsStaleCode(o, then, pc) ==
  \E n \in DOMAIN o.segments :
    LET s == o.segments[n]
        shared == StaticBytesAt(BootElf, pc, s.destination + s.size - pc)
    IN
    Covers(s, pc) /\ \E i \in 0 .. shared[2] - 1 :
      then[pc + i] # ByteOf(BootElf, shared[1] + i)

(* A conflict is proved only while the whole overlay is in guest memory    *)
(* and some registered static function was compiled from other code than   *)
(* is there, at the pc reported first; "no conflict" is said of a level    *)
(* only when none was compiled from a different first instruction.  What   *)
(* the inspection reads, of memory, payloads, ELF and the boot path, is    *)
(* inside them, also after the level it was asked about has gone.          *)
ConflictVerdictIsReal ==
  /\ \A read \in verdict.reads : read[1][1] >= 0 /\ RangeFits(read[1], read[2])
  /\ verdict.status = "StaleFallbackConflictProved" /\ overlay # NoOverlay =>
       /\ \A n \in DOMAIN overlay.segments :
            LET s == overlay.segments[n] IN
            \A i \in 0 .. s.size - 1 : verdict.memory[s.destination + i] = ByteOf(overlay, s.at + i)
       /\ verdict.firstConflict \in Range(StaticPcs)
       /\ RunsStaleCode(overlay, verdict.memory, verdict.firstConflict)
  /\ verdict.status = "NoStaticConflictObserved" /\ overlay # NoOverlay =>
       \A p \in PcsIn(overlay.segments) :
         LET pc == StaticPcs[p]
             s == SegmentForPc(overlay, pc)
             static == StaticBytesAt(BootElf, pc, 4)
         IN s.destination + s.size - pc >= 4 /\ static[2] = 4 =>
              \A i \in 0 .. 3 : verdict.memory[pc + i] = ByteOf(BootElf, static[1] + i)
=============================================================================
