---------------------------- MODULE TerrainMesh ----------------------------
(***************************************************************************)
(* decodeRac1TfragTerrain.  A terrain block is a record [table, count,     *)
(* fragments], and a fragment one of                                       *)
(*   data                      - its data, from the table                  *)
(*   lod2, shared, lod0, rgba  - offsets in its data                       *)
(*   commonSize, lod1Size, lod0Size - ends of three groups, in quadwords   *)
(*   primitives, rgbaSize      - texture primitives, colours / 4           *)
(*   packets                   - the commands of the five groups           *)
(*   header                    - [common, lod01, lod0]: position counts    *)
(* The elements of its unpacks are: materials of texture primitives; the   *)
(* vertex field of vertex infos; strips [count, material, offset, end];    *)
(* indices.  Coordinates are not modelled: they are always finite.         *)
(***************************************************************************)
EXTENDS VifCode

IsFragment(f) ==
  /\ f.data \in Int
  /\ {f.lod2, f.shared, f.lod0, f.rgba, f.commonSize, f.lod1Size, f.lod0Size, f.primitives,
      f.rgbaSize, f.header.common, f.header.lod01, f.header.lod0} \subseteq Nat
  /\ \A g \in 1 .. 5 : IsPacket(f.packets[g])

IsTerrain(t) ==
  /\ {t.table, t.count} \subseteq Int /\ IsSequence(t.fragments)
  /\ \A f \in Range(t.fragments) : IsFragment(f)

kMaxTfragCount == 2 ^ 20
kSentinel == 255
kKeepMaterial == -1
NoStrip == [count |-> 0, material |-> FALSE, offset |-> 0, end |-> 0]

----------------------------------------------------------------------------
(* Offset 0x1c of the five groups in the data, and the end of the last.    *)
Pointers(f) ==
  <<f.lod2, f.shared, f.shared + 16 * f.commonSize, f.lod0, f.shared + 16 * f.lod1Size,
    f.lod0 + 16 * f.lod0Size>>

GroupBytes(f, g) == Pointers(f)[g + 1] - Pointers(f)[g]
GroupUnpacks(f, g) == Unpacks(GroupBytes(f, g), f.packets[g], TRUE)

HasLayout(unpacks, i, layout) == i <= Len(unpacks) /\ unpacks[i].layout = layout

\* Group 4: one or two bookkeeping unpacks, infos, positions; each by its layout.
Group4Of(unpacks, count) ==
  LET first == IF count > 0 THEN 2 ELSE 1
      infosAt == IF HasLayout(unpacks, first, V4_8) /\ unpacks[first].addr # 0
                 THEN first + 1 ELSE first
      hasInfos == HasLayout(unpacks, infosAt, V4_16)
      positionsAt == IF hasInfos THEN infosAt + 1 ELSE infosAt
  IN [unpacks |-> unpacks, infosAt |-> infosAt, hasInfos |-> hasInfos,
      positionsAt |-> positionsAt, hasPositions |-> HasLayout(unpacks, positionsAt, V3_16)]

\* Group 5: positions when there are any, strips, indices, bookkeeping, infos.
Group5Of(unpacks, count) ==
  LET stripsAt == IF count > 0 THEN 2 ELSE 1
      bookkeeping == IF count > 0 THEN stripsAt + 3 ELSE stripsAt + 2
  IN [unpacks |-> unpacks, stripsAt |-> stripsAt,
      infosAt |-> IF HasLayout(unpacks, bookkeeping, V4_8) THEN bookkeeping + 1 ELSE bookkeeping]

Group4(f) == Group4Of(GroupUnpacks(f, 4), f.header.lod01)
Group5(f) == Group5Of(GroupUnpacks(f, 5), f.header.lod0)

WholeInfos(c) == LogicalBytes(c) % 8 = 0
PositionsFit(c, count) == 6 * count <= 4 * (CommandWords(c) - 1)

BeforeSentinel(strips) ==
  LET sentinel == SelectInSeq(strips, LAMBDA s : s.end = kSentinel) IN
  IF sentinel = 0 THEN strips ELSE SubSeq(strips, 1, sentinel - 1)

\* Positions and vertex infos as the three groups appended them, and the rest.
MeshOf(f, unpacks2, g4, g5) ==
  LET strips == Elements(g5.unpacks[g5.stripsAt], 4, NoStrip)
      infos(has, c) == IF has THEN Elements(c, 8, 0) ELSE <<>>
  IN [infos |-> Elements(unpacks2[3], 8, 0) \o infos(g4.hasInfos, g4.unpacks[g4.infosAt])
                  \o infos(f.header.lod0 > 0, g5.unpacks[g5.infosAt]),
      positions |-> f.header.common + f.header.lod0
                      + (IF g4.hasPositions THEN f.header.lod01 ELSE 0),
      colours |-> 4 * f.rgbaSize,
      primitives |-> SubSeq(Elements(unpacks2[2], 80, 0), 1, f.primitives),
      strips |-> BeforeSentinel(strips),
      sentinelFound |-> BeforeSentinel(strips) # strips,
      indices |-> Elements(g5.unpacks[g5.stripsAt + 1], 1, 0)]

FragmentMesh(f) == MeshOf(f, GroupUnpacks(f, 2), Group4(f), Group5(f))

----------------------------------------------------------------------------
(* The checks of a fragment up to its strips.                              *)
PointerSteps(f, dataBytes) ==
  LET p == Pointers(f) IN
  <<Require("InvalidTfragHeader", \A i \in 1 .. 5 : p[i] < p[i + 1] /\ p[i + 1] <= dataBytes,
            {Bytes(p[i], p[i + 1] - p[i], dataBytes) : i \in 1 .. 5})>>

PacketSteps(f) ==
  LET status(g) == VifStatus(GroupBytes(f, g), f.packets[g], TRUE) IN
  [g \in 1 .. 5 |-> Require(status(g), status(g) = "Ok", {})]

Group2Steps(f, unpacks, slots) ==
  LET present ==
        <<Require("MissingVifData", Len(slots) > 5 /\ slots[6].form = "strow",
                  {Bytes(0, 16, 4 * (CommandWords(slots[6]) - 1))}),
          Require("MissingVifData", Len(unpacks) >= 4, {})>>
      read ==
        <<Require("InvalidVuHeader", LogicalBytes(unpacks[1]) >= 40,
                  {Bytes(0, 10, LogicalBytes(unpacks[1]))}),
          Require("MissingVifData", 80 * f.primitives <= LogicalBytes(unpacks[2]),
                  {Bytes(0, 80 * f.primitives, LogicalBytes(unpacks[2]))}),
          Require("MissingVifData", WholeInfos(unpacks[3]), {}),
          Require("MissingVifData", PositionsFit(unpacks[4], f.header.common), {})>>
  IN Then(present, read)

Group4Steps(g, count) ==
  <<Require("MissingVifData", count = 0 \/ HasLayout(g.unpacks, 1, V4_8), {}),
    Require("MissingVifData", ~g.hasInfos \/ WholeInfos(g.unpacks[g.infosAt]), {}),
    Require("MissingVifData",
            IF g.hasPositions THEN PositionsFit(g.unpacks[g.positionsAt], count) ELSE count = 0,
            {})>>

Group5Steps(g, count) ==
  LET positions ==
        <<Require("MissingVifData",
                  count = 0 \/ (HasLayout(g.unpacks, 1, V3_16) /\ PositionsFit(g.unpacks[1], count)),
                  {}),
          Require("MissingVifData", g.stripsAt + 1 <= Len(g.unpacks), {})>>
      strips ==
        <<Require("InvalidStrip", LogicalBytes(g.unpacks[g.stripsAt]) % 4 = 0, {}),
          Require("MissingVifData",
                  count > 0 => /\ HasLayout(g.unpacks, g.stripsAt + 2, V4_8)
                               /\ HasLayout(g.unpacks, g.infosAt, V4_16)
                               /\ WholeInfos(g.unpacks[g.infosAt]), {})>>
  IN Then(positions, strips)

----------------------------------------------------------------------------
(* The strips.  Local material numbers are in units of five; one strip may *)
(* keep the material of the strip before it, the first keeps material 0.   *)
Names(s) == s.material /\ s.offset # kKeepMaterial
Named(m, s) == m.primitives[s.offset \div 5 + 1]

NamedMaterialIsValid(m, s) ==
  Names(s) => /\ s.offset \in Nat /\ s.offset % 5 = 0
              /\ s.offset \div 5 < Len(m.primitives) /\ Named(m, s) \in Nat

ActiveMaterial(m, i) ==
  LET naming == {j \in 1 .. i : Names(m.strips[j])} IN
  IF naming = {} THEN 0 ELSE Named(m, m.strips[Max(naming)])

IndexCursor(m, i) ==
  LET upTo[n \in 0 .. i - 1] == IF n = 0 THEN 0 ELSE upTo[n - 1] + m.strips[n].count
  IN upTo[i - 1]

CornerSteps(m, index) ==
  LET vertex == m.infos[index + 1]
      position == vertex \div 2
  IN <<Require("InvalidVertexIndex", index \in 0 .. Len(m.infos) - 1, {Element(index, Len(m.infos))}),
       Require("InvalidVertexIndex",
               index \in 0 .. Len(m.infos) - 1 /\ vertex \in Nat /\ vertex % 2 = 0
                 /\ position < m.positions /\ position < m.colours,
               {Element(position, m.positions), Bytes(4 * position, 4, 4 * m.colours)})>>

StripSteps(m, i, textureCount) ==
  LET s == m.strips[i]
      first == IndexCursor(m, i)
      named == <<Require("InvalidStrip", s.end \in {0, 128}, {}),
                 Require("InvalidMaterialIndex", NamedMaterialIsValid(m, s), {})>>
      fits == <<Require("InvalidMaterialIndex", ActiveMaterial(m, i) < textureCount,
                        {Element(ActiveMaterial(m, i), textureCount)}),
                Require("InvalidStrip", s.count \in 0 .. Len(m.indices) - first,
                        {<<<<first, s.count>>, Len(m.indices)>>})>>
      corners == IF s.count < 3 THEN <<>> ELSE SubSeq(m.indices, first + 1, first + s.count)
  IN Then(Then(named, fits), ForEach([n \in DOMAIN corners |-> CornerSteps(m, corners[n])]))

DrawSteps(m, textureCount) ==
  Then(ForEach([i \in DOMAIN m.strips |-> StripSteps(m, i, textureCount)]),
       <<Require("InvalidStrip", m.sentinelFound, {})>>)

FragmentSteps(f, dataBytes, textureCount) ==
  LET slots == VifParse(GroupBytes(f, 2), f.packets[2], TRUE).commands
      colours == <<Require("InvalidTfragHeader", RangeFits(<<f.rgba, 16 * f.rgbaSize>>, dataBytes),
                           {Bytes(f.rgba, 16 * f.rgbaSize, dataBytes)})>>
      groups == Then(Then(PointerSteps(f, dataBytes), PacketSteps(f)),
                     Then(Group2Steps(f, GroupUnpacks(f, 2), slots),
                          Then(Group4Steps(Group4(f), f.header.lod01),
                               Group5Steps(Group5(f), f.header.lod0))))
  IN Then(groups, Then(colours, DrawSteps(FragmentMesh(f), textureCount)))

MeshMaterials(m) ==
  FlattenSeq([i \in DOMAIN m.strips |->
    [n \in 1 .. m.strips[i].count - 2 |-> ActiveMaterial(m, i)]])

TerrainTriangles(t) ==
  FlattenSeq([k \in DOMAIN t.fragments |-> MeshMaterials(FragmentMesh(t.fragments[k]))])

\* An entry of the table of fragments, and the fragment it leads to.
TfragSteps(f, bytes, textureCount) ==
  Then(<<Require("InvalidTfragHeader", f.data >= 0 /\ f.data < bytes, {})>>,
       FragmentSteps(f, bytes - f.data, textureCount))

TerrainSteps(core, at, textureCount, t) ==
  LET block == core - at
      table == <<t.table, 64 * t.count>>
      header ==
        <<Require("OffsetOutOfRange", RangeFits(<<at, 16>>, core), {Bytes(at, 16, core)}),
          Require("InvalidBlockHeader", t.table >= 0 /\ t.count \in 0 .. kMaxTfragCount, {}),
          Require("InvalidBlockHeader", RangeFits(table, block), {<<table, block>>})>>
  IN Then(header,
     Then(ForEach([i \in DOMAIN t.fragments |->
                     TfragSteps(t.fragments[i], block - t.table, textureCount)]),
          <<Require("EmptyMesh", TerrainTriangles(t) # <<>>, {})>>))

\* A batch for each material of an accepted terrain, in the order they appear.
BatchPerMaterial(triangles) ==
  LET order == FirstOfEach(triangles) IN
  [i \in DOMAIN order |->
     [kind |-> "terrain", shell |-> 0, material |-> order[i], finite |-> TRUE,
      vertices |-> 3 * Cardinality({n \in DOMAIN triangles : triangles[n] = order[i]})]]

TerrainBatches(t) == BatchPerMaterial(TerrainTriangles(t))
=============================================================================
