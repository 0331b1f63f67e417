--------------------------- MODULE MobyAnimation ---------------------------
(***************************************************************************)
(* inspectRac1MobyAnimationMetadata and inspectRac1RatchetAnimationBank:   *)
(* the second decoder of the classes MobyMesh draws.  Of a class it reads  *)
(*   joints, skeleton, common, jointsAt  - the rig, offsets in the class   *)
(*   sequences  - offsets of its animations, 0 where there is none         *)
(*   layouts    - [offset -> [frames, marker]] of those: the offsets of    *)
(*                the frames, and header byte 0x11                         *)
(* and the packets again, as a skinning program.  Ratchet's sequences are  *)
(* in a bank [at, pointers, layouts] outside his class.                    *)
(***************************************************************************)
EXTENDS MobyMesh

kFrameProbeMaxBytes == 4096
NoMarker == 255
NoLayout == [frames |-> <<>>, marker |-> 0]

LayoutAt(layouts, offset) == IF offset \in DOMAIN layouts THEN layouts[offset] ELSE NoLayout

\* findClassEnd: a class ends where the next one of the table begins.
ClassEnd(core, table, class) ==
  Min({core} \union {at \in {ClassOf(table, c.oClass).at : c \in Range(table.classes)} : at > class.at})

PointerFits(core, class, relative) ==
  relative >= 0 /\ (relative > 0 => RangeFits(<<class.at + relative, 1>>, core))

\* capturePrefix, up to the next thing the class is known to hold.
NextBoundary(class, end, relative) ==
  LET known == Range(class.sequences)
                 \union {class.skeleton, class.common, class.jointsAt, class.packetsAt}
  IN Min({end - class.at} \union {b \in known : b > 0 /\ b > relative /\ b <= end - class.at})

PrefixRead(core, from, limit) ==
  IF from >= Min({limit, core}) THEN {}
  ELSE {Bytes(from, Min({64, limit - from, core - from}), core)}

ProbeReads(core, class, end) ==
  LET rig == IF class.joints = 0 THEN {} ELSE {class.skeleton, class.common, class.jointsAt} IN
  UNION {PrefixRead(core, class.at + relative, class.at + NextBoundary(class, end, relative)) :
         relative \in (Range(class.sequences) \ {0}) \union rig}

----------------------------------------------------------------------------
(* A sequence: its header, the table of its frames, one frame of each      *)
(* stride.  Frames are relative to base and lie before end.                *)
FrameProbes(layout, base) ==
  LET stride(i) == layout.frames[i + 1] - layout.frames[i] IN
  {<<base + layout.frames[i], stride(i)>> :
   i \in {i \in 1 .. Len(layout.frames) - 1 :
            stride(i) <= kFrameProbeMaxBytes /\ \A j \in 1 .. i - 1 : stride(j) # stride(i)}}

LayoutSteps(core, layout, sequence, base, end) ==
  LET invalid == "InvalidSequenceLayout"
      table == <<sequence + 28, 4 * Len(layout.frames)>>
      tableEnd == table[1] + table[2]
      count == Len(layout.frames)
  IN <<Require(invalid, RangeFits(<<sequence, 28>>, core), {Bytes(sequence, 28, core)}),
       Require(invalid, count # 0 /\ (layout.marker = NoMarker \/ layout.marker < count), {}),
       Require(invalid, RangeFits(table, core) /\ tableEnd <= end, {<<table, core>>}),
       Require(invalid,
               \A i \in 1 .. count :
                 /\ layout.frames[i] >= tableEnd - base /\ layout.frames[i] % 16 = 0
                 /\ base + layout.frames[i] < Min({end, core})
                 /\ i > 1 => layout.frames[i] > layout.frames[i - 1], {}),
       Require(invalid, \A probe \in FrameProbes(layout, base) : RangeFits(probe, Min({end, core})),
               {<<probe, core>> : probe \in FrameProbes(layout, base)})>>

SequenceSteps(core, class, end) ==
  LET steps(relative) ==
        IF relative = 0 THEN <<>>
        ELSE LayoutSteps(core, LayoutAt(class.layouts, relative), class.at + relative, class.at, end)
  IN ForEach([i \in DOMAIN class.sequences |-> steps(class.sequences[i])])

----------------------------------------------------------------------------
(* inspectClass.                                                           *)
ClassHeaderSteps(core, class, end) ==
  LET table == <<class.at + 72, 4 * Len(class.sequences)>> IN
  <<Require("InvalidClassHeader", end > class.at /\ RangeFits(<<class.at, 72>>, core),
            {Bytes(class.at, 72, core)}),
    Require("InvalidClassHeader",
            \A relative \in {class.skeleton, class.common, class.jointsAt} :
              PointerFits(core, class, relative), {}),
    Require("InvalidSequenceTable", RangeFits(table, core), {<<table, core>>}),
    Require("InvalidSequenceTable",
            \A relative \in Range(class.sequences) : PointerFits(core, class, relative),
            ProbeReads(core, class, end))>>

RigSteps(core, class, end) ==
  LET matrices == <<class.at + class.skeleton, 64 * class.joints>>
      transforms == <<class.at + class.common, 16 * class.joints>>
  IN <<Require("InvalidRigLayout",
               class.joints # 0 =>
                 /\ class.common = class.skeleton + matrices[2]
                 /\ class.jointsAt = class.common + transforms[2]
                 /\ RangeFits(matrices, end) /\ RangeFits(transforms, end),
               IF class.joints = 0 THEN {} ELSE {<<matrices, core>>, <<transforms, core>>})>>

\* validVu0MatrixAddress, an address being one byte or two times seven bits.
IsMatrixAddress(address) == address <= 252 /\ address % 4 = 0

Transfers(p) == [i \in 1 .. p.counts.matrix |-> ItemAt(p.transferTable, i - 1, <<0, 0>>)]

\* Two-way vertices come first, then three-way, then those of one joint.
VertexKind(p, i) ==
  IF i < p.counts.two THEN "TwoWay"
  ELSE IF i < p.counts.two + p.counts.three THEN "ThreeWay" ELSE "Main"

PackedL3(row) == 2 * row.low7

MatrixAddresses(p, i) ==
  LET row == VertexRow(p, i)
      kind == VertexKind(p, i)
  IN {row.b2, row.b3}
       \union CASE kind = "TwoWay" -> {row.b6, row.b7}
                [] kind = "ThreeWay" -> {row.b7, PackedL3(row)}
                [] kind = "Main" -> {}

ProgramSteps(core, class, p) ==
  LET invalid == "InvalidSkinningProgram"
      table == class.at + p.vertexAt
      transfers == <<table + 32, 2 * p.counts.matrix>>
      vertices == <<table + p.counts.vertices, 16 * VertexCount(p)>>
      counted == {p.counts.matrix, p.counts.two, p.counts.three, p.counts.main,
                  p.counts.duplicate, p.counts.transfer}
  IN <<Require("InvalidVertexTable", p.vertexAt >= 0 /\ RangeFits(<<table, 32>>, core),
               {Bytes(table, 32, core)}),
       Require("InvalidVertexTable",
               counted \subseteq 0 .. kMaxStaticCount /\ p.counts.transfer = p.transfers, {}),
       Require("InvalidMatrixTransfer", RangeFits(transfers, core), {<<transfers, core>>}),
       Require("InvalidMatrixTransfer", \A t \in Range(Transfers(p)) : IsMatrixAddress(t[2]), {}),
       Require(invalid,
               /\ p.counts.vertices >= 0 /\ p.counts.vertices % 16 = 0
               /\ p.counts.end >= 0 /\ p.counts.end % 16 = 0
               /\ p.counts.vertices \div 16 <= p.dataSize, {}),
       Require(invalid, p.counts.vertices + vertices[2] <= p.counts.end /\ RangeFits(vertices, core),
               {<<vertices, core>>}),
       Require(invalid,
               \A i \in 0 .. VertexCount(p) - 1 : \A a \in MatrixAddresses(p, i) : IsMatrixAddress(a), {})>>

ProgramTableSteps(core, class) ==
  LET packets == <<class.at + class.packetsAt, 16 * Len(class.packets)>> IN
  <<Require("InvalidPacketTable",
            IF class.packetsAt = 0 THEN ~HasMesh(class) /\ class.low = 0
            ELSE class.packetsAt > 0 /\ RangeFits(packets, core),
            IF class.packetsAt = 0 THEN {} ELSE {<<packets, core>>})>>

InspectClassSteps(core, class, end) ==
  IF class.at = 0 THEN <<>>
  ELSE Then(ClassHeaderSteps(core, class, end),
       Then(SequenceSteps(core, class, end),
       Then(RigSteps(core, class, end),
       Then(ProgramTableSteps(core, class),
            ForEach([i \in DOMAIN class.packets |-> ProgramSteps(core, class, class.packets[i])])))))

\* What is known of a class: of one without data, nothing but its name.
AnimationClass(class) ==
  IF class.at = 0 THEN [class EXCEPT !.joints = 0, !.sequences = <<>>, !.packets = <<>>] ELSE class

SkinVertices(class) ==
  LET upTo[n \in 0 .. Len(class.packets)] ==
        IF n = 0 THEN 0 ELSE upTo[n - 1] + VertexCount(class.packets[n])
  IN upTo[Len(class.packets)]

----------------------------------------------------------------------------
(* The block of instances, then every class one names, in order of its     *)
(* number.                                                                 *)
AnimationBlockSteps(coreIndex, gameplay, scene) ==
  LET block == scene.block IN
  <<Require("InvalidIndexTable", ClassTableFits(scene.table, 32, coreIndex),
            {Bytes(scene.table.at, 32 * Len(scene.table.classes), coreIndex)}),
    Require("InvalidGameplayHeader", gameplay >= 144, {Bytes(68, 4, gameplay)}),
    Require("InvalidGameplayHeader", block.at >= 0, {}),
    Require("InvalidInstanceBlock", block.at = 0 \/ RangeFits(<<block.at, 16>>, gameplay), {}),
    Require("InvalidInstanceBlock",
            block.at = 0 \/ (/\ block.count \in 0 .. kMaxStaticCount
                             /\ RangeFits(<<block.at + 16, 120 * block.count>>, gameplay)),
            InstanceReads(block, 120, gameplay)),
    Require("EmptyScene", Instances(block) # <<>>, {})>>

AnimationSteps(core, coreIndex, gameplay, scene) ==
  LET named == Ascending({i.oClass : i \in Range(Instances(scene.block))})
      classSteps(oClass) ==
        Then(<<Require("MissingReferencedClass", HasClass(scene.table, oClass), {})>>,
             LET class == ClassOf(scene.table, oClass) IN
             InspectClassSteps(core, class, ClassEnd(core, scene.table, class)))
  IN Then(AnimationBlockSteps(coreIndex, gameplay, scene),
          ForEach([i \in DOMAIN named |-> classSteps(named[i])]))

\* Ratchet's own sequences, one after the other in the core; each ends where
\* the next begins.
BankPointers(class, bank) == [i \in DOMAIN class.sequences |-> ItemAt(bank.pointers, i - 1, 0)]

BankTableSteps(class, bank, coreIndex) ==
  LET table == <<bank.at, 4 * Len(class.sequences)>> IN
  <<Require("MissingSkeleton", class.joints # 0, {}),
    Require("InvalidSequenceTable", class.sequences # <<>>, {}),
    Require("LocalSequenceTableNotEmpty", \A relative \in Range(class.sequences) : relative = 0, {}),
    Require("InvalidSequenceTable", bank.at # 0 /\ RangeFits(table, coreIndex), {<<table, coreIndex>>})>>

BankPointerSteps(core, pointers, i) ==
  <<Require("SequencePointerZero", pointers[i] # 0, {}),
    Require("SequencePointerMisaligned", pointers[i] % 16 = 0, {}),
    Require("SequencePointerOutOfRange", RangeFits(<<pointers[i], 28>>, core), {}),
    Require("SequencePointersNotIncreasing", i = 1 \/ pointers[i] > pointers[i - 1], {})>>

BankSequenceSteps(core, bank, pointers, i) ==
  LET end == IF i < Len(pointers) THEN pointers[i + 1] ELSE core IN
  <<Reading(PrefixRead(core, pointers[i], end))>>
    \o LayoutSteps(core, LayoutAt(bank.layouts, pointers[i]), pointers[i], pointers[i], end)

BankSteps(core, coreIndex, class, bank) ==
  LET pointers == BankPointers(class, bank) IN
  Then(BankTableSteps(class, bank, coreIndex),
  Then(ForEach([i \in DOMAIN pointers |-> BankPointerSteps(core, pointers, i)]),
       ForEach([i \in DOMAIN pointers |-> BankSequenceSteps(core, bank, pointers, i)])))
=============================================================================
