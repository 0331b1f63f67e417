------------------------------ MODULE MobyMesh ------------------------------
(***************************************************************************)
(* decodeRac1MobyScene and the class catalog.  A scene is [table, block]   *)
(* as in StaticScene; a class is a record of                               *)
(*   at, oClass, textures                - its entry of the class table    *)
(*   packetsAt, packets, low, scale      - high and low LOD packets        *)
(*   joints, skeleton, common, jointsAt, parents, sequences, layouts       *)
(*                                       - read by MobyAnimation, MobyPose *)
(* and a packet a record of                                                *)
(*   vif, size, textured, commands       - its VIF code; the third unpack  *)
(*                              carries [secrets, material], four secrets  *)
(*   vertexAt, dataSize, transfers       - the rest of its header          *)
(*   counts                              - the header of its vertex table  *)
(*   transferTable                       - <<<<joint, address>>, ...>>     *)
(*   rows        - vertices and what follows: [id, low7, b2, b3, b6, b7]   *)
(*   trailing, duplicates                - vertex cache addresses          *)
(* Positions and texture coordinates are left out: a vertex is known by    *)
(* the index the skinning program gives it.                                *)
(***************************************************************************)
EXTENDS StaticScene

kVertexCacheSize == 512
CacheAddresses == 0 .. kVertexCacheSize - 1

\* A row is read as bytes, and cache addresses are nine bits of a word.
IsRow(row) == row.id \in CacheAddresses /\ {row.low7, row.b2, row.b3, row.b6, row.b7} \subseteq Nat

IsMobyPacket(p) ==
  /\ {p.vif, p.vertexAt} \subseteq Int /\ {p.size, p.dataSize, p.transfers} \subseteq Nat
  /\ p.textured \in BOOLEAN /\ IsPacket(p.commands)
  /\ p.counts \in [{"matrix", "two", "three", "main", "duplicate", "transfer", "vertices", "end"} -> Int]
  /\ p.transferTable \in Seq(Nat \X Nat)
  /\ IsSequence(p.rows) /\ \A row \in Range(p.rows) : IsRow(row)
  /\ p.trailing \in Seq(CacheAddresses) /\ p.duplicates \in Seq(CacheAddresses)

\* What is listed of a sequence: where its frames are, and a byte of its header.
IsLayout(layout) == layout.frames \in Seq(Nat) /\ layout.marker \in Nat

IsMobyClass(class) ==
  /\ {"joints", "sequences", "packets"} \subseteq DOMAIN class
  /\ {class.at, class.low, class.joints} \subseteq Nat /\ class.textures \in Seq(Nat)
  /\ {class.packetsAt, class.skeleton, class.common, class.jointsAt} \subseteq Int
  /\ IsSequence(class.packets) /\ \A p \in Range(class.packets) : IsMobyPacket(p)
  /\ class.sequences \in Seq(Int)
  /\ \A offset \in DOMAIN class.layouts : IsLayout(class.layouts[offset])

IsMobyScene(scene) ==
  /\ IsClassTable(scene.table) /\ \A c \in Range(scene.table.classes) : IsMobyClass(c)
  /\ IsBlock(scene.block) /\ \A i \in Range(scene.block.instances) : i.oClass \in Int
  /\ scene.bank.at \in Nat /\ scene.bank.pointers \in Seq(Nat)
  /\ \A offset \in DOMAIN scene.bank.layouts : IsLayout(scene.bank.layouts[offset])

NoRow == [id |-> 0, low7 |-> 0, b2 |-> 0, b3 |-> 0, b6 |-> 0, b7 |-> 0]
NoTextures == [secrets |-> <<0, 0, 0, 0>>, material |-> 0]

\* Number i, from zero, of a sequence whose tail is not listed.
ItemAt(items, i, other) == IF i < Len(items) THEN items[i + 1] ELSE other

----------------------------------------------------------------------------
(* parsePacket.                                                            *)
PacketUnpacks(p) == Unpacks(16 * p.size, p.commands, TRUE)

\* The index stream, and the secret indices that stand for its zeroes.
IndexBytes(p) == Elements(PacketUnpacks(p)[2], 1, 0)
TextureRecords(p) ==
  IF p.textured THEN Elements(PacketUnpacks(p)[3], 64, NoTextures) ELSE <<>>
TextureSecret(records, i) == records[i \div 4 + 1].secrets[(i % 4) + 1]

PacketStream(indexes, records) ==
  [indexes |-> SubSeq(indexes, 5, Len(indexes)),
   secrets |-> <<indexes[3]>> \o [i \in DOMAIN records |-> TextureSecret(records, i - 1)],
   materials |-> [i \in DOMAIN records |-> records[i].material]]

StreamReads(p, unpacks) ==
  LET bytes(i) == LogicalBytes(unpacks[i]) IN
  {Bytes(2, 1, bytes(2)), Bytes(4, bytes(2) - 4, bytes(2))}
    \union (IF p.textured
            THEN UNION {{Bytes(16 * i + 12, 1, bytes(3)), Bytes(64 * i + 32, 4, bytes(3))} :
                        i \in 0 .. bytes(3) \div 64 - 1}
            ELSE {})

VifSteps(core, class, p) ==
  LET vif == <<class.at + p.vif, 16 * p.size>>
      invalid == "InvalidVifLayout"
      unpacks == PacketUnpacks(p)
      bytes(i) == LogicalBytes(unpacks[i])
  IN Then(<<Require("InvalidPacket", p.vif >= 0 /\ p.vertexAt >= 0 /\ p.size # 0, {}),
            Require("InvalidPacket", RangeFits(vif, core), {<<vif, core>>}),
            Require(invalid, VifStatus(16 * p.size, p.commands, TRUE) = "Ok", {}),
            Require(invalid, Len(unpacks) = IF p.textured THEN 3 ELSE 2, {})>>,
          <<Require(invalid, bytes(1) % 4 = 0 /\ bytes(2) >= 4, {}),
            Require(invalid, p.textured => bytes(3) % 64 = 0, StreamReads(p, unpacks))>>)

VertexCount(p) == p.counts.two + p.counts.three + p.counts.main

\* Rows from the vertices on: theirs, and an epilogue of addresses.
SerializedBlocks(p) == (p.counts.end - p.counts.vertices) \div 16

VertexRow(p, i) == ItemAt(p.rows, i, NoRow)

\* The address of a vertex is seven rows further on; those of the last ones
\* are in the epilogue and in the six numbers that end it.
CacheAddress(p, j) ==
  LET beyond == j + 7 - SerializedBlocks(p) IN
  IF beyond < 0 THEN VertexRow(p, j + 7).id
  ELSE IF beyond < 6 THEN ItemAt(p.trailing, beyond, 0) ELSE VertexRow(p, j).id

AlignUp(value, alignment) == value + ((-value) % alignment)

VertexTableSteps(core, class, p) ==
  LET invalid == "InvalidVertexTable"
      table == class.at + p.vertexAt
      count == VertexCount(p)
      blocks == SerializedBlocks(p)
      vertices == table + p.counts.vertices
      transfers == <<table + 32, 2 * p.counts.matrix>>
      duplicates == <<AlignUp(table + 32 + transfers[2], 8), 2 * p.counts.duplicate>>
      last == vertices + 16 * (Max({blocks, 7}) - 1)
      epilogue == {<<vertices + 16 * i, 2>> : i \in Max({count, 7}) .. blocks - 1}
  IN <<Require(invalid, RangeFits(<<table, 32>>, core), {Bytes(table, 32, core)}),
       Require(invalid, \A c \in Range(p.counts) : c \in 0 .. 16 * kMaxStaticCount, {}),
       Require(invalid,
               /\ count <= kMaxStaticCount /\ p.counts.duplicate <= kMaxStaticCount
               /\ p.counts.transfer = p.transfers /\ p.counts.vertices \div 16 <= p.dataSize
               /\ p.counts.end >= p.counts.vertices, {}),
       Require(invalid, RangeFits(<<vertices, 16 * count>>, core), {Bytes(vertices, 16 * count, core)}),
       Require(invalid, RangeFits(transfers, core), {}),
       Require(invalid, RangeFits(duplicates, core), {<<duplicates, core>>}),
       Require(invalid, blocks \in count .. count + 6, {}),
       Require(invalid, count < 7 => RangeFits(<<vertices, 112>>, core), {}),
       Require(invalid, \A row \in epilogue : RangeFits(row, core), {<<row, core>> : row \in epilogue}),
       Require(invalid, RangeFits(<<last + 4, 12>>, core), {Bytes(last + 4, 12, core)}),
       Require("InvalidPacket",
               LogicalBytes(PacketUnpacks(p)[1]) \div 4 >= count + p.counts.duplicate, {})>>

MobyPacketSteps(core, class, p) ==
  Then(VifSteps(core, class, p), VertexTableSteps(core, class, p))

----------------------------------------------------------------------------
(* decodeClass.  The vertex cache and the material survive from packet to  *)
(* packet; a triangle is [material, corners], a corner its skin vertex.    *)
Corner(vertices, r, index) ==
  LET real == (IF index > 0 THEN index ELSE index + 128) - 1
      corners == Append(IF Len(r.corners) = 3 THEN Tail(r.corners) ELSE r.corners, vertices[real + 1])
  IN IF real \notin 0 .. Len(vertices) - 1 \/ (index > 0 /\ Len(r.corners) < 2)
     THEN [r EXCEPT !.status = "InvalidIndexStream"]
     ELSE [r EXCEPT !.corners = corners, !.reads = @ \union {Element(real, Len(vertices))},
             !.triangles = IF index > 0
                           THEN Append(@, [material |-> r.material, corners |-> corners]) ELSE @]

\* A zero stands for the next secret index and takes the next material; a
\* secret zero ends the packet and drops the three triangles in flight.
NextIndex(class, textureCount, stream, vertices, r, index) ==
  LET secret == stream.secrets[r.change + 1]
      local == stream.materials[r.change + 1]
      changed == [r EXCEPT !.change = @ + 1,
                    !.material = IF local >= 0 THEN class.textures[local + 1] ELSE -1,
                    !.reads = @ \union {Element(r.change, Len(stream.secrets)),
                                        Element(r.change, Len(stream.materials))}
                                \union IF local >= 0
                                       THEN {Element(local, Len(class.textures)),
                                             Element(class.textures[local + 1], textureCount)}
                                       ELSE {}]
  IN IF r.status # "Ok" THEN r
     ELSE IF index # 0 THEN Corner(vertices, r, index)
     ELSE IF r.change >= Len(stream.secrets) THEN [r EXCEPT !.status = "InvalidIndexStream"]
     ELSE IF secret = 0
     THEN [r EXCEPT !.status = "Ended", !.triangles = SubSeq(@, 1, Len(@) - 3)]
     ELSE IF r.change >= Len(stream.materials)
               \/ (local >= 0 /\ ~MaterialIsValid(class, local, textureCount))
     THEN [r EXCEPT !.status = "InvalidMaterial"]
     ELSE Corner(vertices, changed, secret - 128)

StreamStep(r) == <<Reading(r.reads), Require(r.status, r.status \in {"Ok", "Ended"}, {})>>

DrawPacket(class, textureCount, s, stream, vertices) ==
  LET after[n \in 0 .. Len(stream.indexes)] ==
        IF n = 0 THEN [status |-> "Ok", change |-> 0, material |-> s.material, corners |-> <<>>,
                       reads |-> {}, triangles |-> s.triangles]
        ELSE NextIndex(class, textureCount, stream, vertices, after[n - 1], stream.indexes[n])
      r == after[Len(stream.indexes)]
  IN [s EXCEPT !.steps = @ \o StreamStep(r), !.material = r.material, !.triangles = r.triangles]

\* Vertices take the next skin indexes and go to the cache; duplicates are
\* what is there, of this packet or of one before it.
CachedVertices(p, s) ==
  LET addresses == [j \in 1 .. VertexCount(p) |-> CacheAddress(p, j - 1)]
      latest(a) == Max({j \in DOMAIN addresses : addresses[j] = a})
  IN [a \in Range(addresses) \union DOMAIN s.cache |->
        IF a \in Range(addresses) THEN s.next + latest(a) - 1 ELSE s.cache[a]]

Duplicates(p) == [i \in 1 .. p.counts.duplicate |-> ItemAt(p.duplicates, i - 1, 0)]

DecodeVertices(class, textureCount, p, s, cache) ==
  LET count == VertexCount(p)
      known == \A a \in Range(Duplicates(p)) : a \in DOMAIN cache
      vertices == [j \in 1 .. count |-> s.next + j - 1]
                    \o [i \in DOMAIN Duplicates(p) |-> cache[Duplicates(p)[i]]]
      cached == [s EXCEPT !.cache = cache, !.next = @ + count,
                   !.steps = Append(@, Require("InvalidVertexCache", known,
                               {Element(a, kVertexCacheSize) :
                                a \in DOMAIN cache \union Range(Duplicates(p))}))]
  IN IF ~known THEN cached
     ELSE DrawPacket(class, textureCount, cached, PacketStream(IndexBytes(p), TextureRecords(p)), vertices)

DecodeParsed(class, textureCount, p, s) ==
  IF FirstFailure(s.steps) # 0 THEN s
  ELSE DecodeVertices(class, textureCount, p, s, CachedVertices(p, s))

DecodeMobyPacket(core, class, textureCount, s, p) ==
  DecodeParsed(class, textureCount, p, [s EXCEPT !.steps = Then(@, MobyPacketSteps(core, class, p))])

HasMesh(class) == class.packets # <<>>

MobyHeaderSteps(core, class) ==
  LET packets == <<class.at + class.packetsAt, 16 * Len(class.packets)>> IN
  <<Require("InvalidClass", RangeFits(<<class.at, 72>>, core), {Bytes(class.at, 72, core)}),
    Require("InvalidClass", class.packetsAt = 0 => ~HasMesh(class) /\ class.low = 0, {}),
    Require("UnsupportedLowLodOnlyClass", HasMesh(class) \/ class.low = 0, {}),
    Require("InvalidClass",
            HasMesh(class) => class.packetsAt > 0 /\ class.scale /\ RangeFits(packets, core),
            IF HasMesh(class) THEN {<<packets, core>>} ELSE {})>>

\* A class with packets that draws nothing at all is not explained.
Explained(class, mesh) ==
  [mesh EXCEPT !.steps =
     Then(@, <<Require("UnaccountedNonRenderableClass",
                       class.at = 0 \/ ~HasMesh(class) \/ mesh.triangles # <<>>, {})>>)]

\* What one class decodes to: [steps, cache, next, material, triangles].
DecodeClass(core, class, textureCount) ==
  LET packets == IF class.at = 0 THEN <<>> ELSE class.packets
      after[n \in 0 .. Len(packets)] ==
        IF n = 0 THEN [steps |-> IF class.at = 0 THEN <<>> ELSE MobyHeaderSteps(core, class),
                       cache |-> <<>>, next |-> 0, triangles |-> <<>>,
                       material |-> IF textureCount > 0 THEN 0 ELSE -1]
        ELSE DecodeMobyPacket(core, class, textureCount, after[n - 1], packets[n])
  IN Explained(class, after[Len(packets)])

Visible(mesh) == Select(mesh.triangles, {t \in DOMAIN mesh.triangles : mesh.triangles[t].material >= 0})

SkipReason(class, mesh) ==
  CASE class.at = 0 -> "NoClassData"
    [] class.at # 0 /\ class.packetsAt = 0 -> "NoPacketTable"
    [] class.at # 0 /\ class.packetsAt # 0 /\ ~HasMesh(class) -> "ZeroLodPacketCounts"
    [] OTHER -> "SpecialMaterialDiscard"

----------------------------------------------------------------------------
(* The scene: classes are decoded when an instance first names them.       *)
MobyBlockSteps(coreIndex, gameplay, scene) ==
  LET block == scene.block IN
  <<Require("InvalidIndexTable", ClassTableFits(scene.table, 32, coreIndex),
            {Bytes(scene.table.at, 32 * Len(scene.table.classes), coreIndex)}),
    Require("InvalidGameplayHeader", gameplay >= 144, {Bytes(68, 4, gameplay)}),
    Require("InvalidInstanceBlock",
            block.at = 0 \/ (block.at > 0 /\ RangeFits(<<block.at, 16>>, gameplay)), {}),
    Require("InvalidInstanceBlock",
            block.at = 0 \/ (/\ block.count \in 0 .. kMaxStaticCount
                             /\ RangeFits(<<block.at + 16, 120 * block.count>>, gameplay)),
            InstanceReads(block, 120, gameplay)),
    Require("InvalidInstanceBlock", \A i \in Range(Instances(block)) : i.finite, {})>>

\* The classes instances name, each once, in order.
ReferencedClasses(block) ==
  FirstOfEach([i \in DOMAIN Instances(block) |-> Instances(block)[i].oClass])

\* Their meshes; the decoder stops at the first that cannot be decoded.
MeshOfClass(core, table, textureCount, oClass) ==
  IF HasClass(table, oClass) THEN DecodeClass(core, ClassOf(table, oClass), textureCount)
  ELSE [steps |-> <<Require("MissingReferencedClass", FALSE, {})>>]

MobyMeshes(core, scene, textureCount) ==
  LET names == ReferencedClasses(scene.block) IN
  [i \in DOMAIN names |-> [oClass |-> names[i],
                           mesh |-> MeshOfClass(core, scene.table, textureCount, names[i])]]

MobySceneSteps(coreIndex, gameplay, scene, meshes) ==
  Then(MobyBlockSteps(coreIndex, gameplay, scene),
       ForEach([i \in DOMAIN meshes |-> meshes[i].mesh.steps]))

\* appendInstance: batches by material, in the order materials appear.
MobyBatches(triangles) ==
  LET materials == [t \in DOMAIN triangles |-> triangles[t].material]
      order == FirstOfEach(materials)
      of(material) == Select(triangles, {t \in DOMAIN triangles : materials[t] = material})
  IN [i \in DOMAIN order |-> [material |-> order[i], triangles |-> of(order[i])]]

\* A class's triangles by material, as its instances append them.
ClassTriangles(mesh) ==
  LET batches == MobyBatches(Visible(mesh)) IN
  FlattenSeq([i \in DOMAIN batches |-> batches[i].triangles])

MeshNamed(meshes, oClass) == meshes[Min({i \in DOMAIN meshes : meshes[i].oClass = oClass})].mesh

InstanceTriangles(meshes, block, i) ==
  LET oClass == Instances(block)[i].oClass
      triangles == ClassTriangles(MeshNamed(meshes, oClass))
  IN [t \in DOMAIN triangles |->
        [material |-> triangles[t].material, corners |-> triangles[t].corners,
         instance |-> i, oClass |-> oClass]]

\* The scene's mesh: what is drawn, what is not and why, and the counts.
MobyScene(scene, meshes) ==
  LET block == scene.block
      numbers == [i \in DOMAIN Instances(block) |-> i]
      meshOf(i) == MeshNamed(meshes, Instances(block)[i].oClass)
      drawn == Select(numbers, {i \in DOMAIN numbers : Visible(meshOf(i)) # <<>>})
      hidden == {i \in DOMAIN meshes : Visible(meshes[i].mesh) = <<>>}
  IN [rendered |-> [r \in DOMAIN drawn |->
                      [instance |-> drawn[r], oClass |-> Instances(block)[drawn[r]].oClass,
                       skinVertices |-> meshOf(drawn[r]).next]],
      skipped |-> {<<meshes[i].oClass, SkipReason(ClassOf(scene.table, meshes[i].oClass), meshes[i].mesh)>> :
                   i \in hidden},
      renderableClasses |-> Cardinality(DOMAIN meshes \ hidden),
      batches |-> MobyBatches(FlattenSeq([r \in DOMAIN drawn |-> InstanceTriangles(meshes, block, drawn[r])]))]

\* inspectRac1MobyClassCatalog
CatalogSteps(coreIndex, table) ==
  <<Require("InvalidIndexTable", ClassTableFits(table, 32, coreIndex),
            {Bytes(table.at, 32 * Len(table.classes), coreIndex)}),
    Require("DuplicateOClass", IsInjective([i \in DOMAIN table.classes |-> table.classes[i].oClass]), {})>>

Catalog(table) == {c.oClass : c \in Range(table.classes)}
=============================================================================
