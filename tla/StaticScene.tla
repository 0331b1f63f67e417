---------------------------- MODULE StaticScene ----------------------------
(***************************************************************************)
(* decodeRac1StaticScene: ties and shrubs.  A scene is a record of         *)
(*   tieTable, shrubTable   - [at, classes] in the core index, a class     *)
(*                            [at, oClass, textures, body]                 *)
(*   tieBlock, shrubBlock   - [at, count, instances] in the gameplay WAD,  *)
(*                            an instance [oClass, finite, colour]         *)
(* The body of a tie class is [scale, packetsAt, packets], a packet        *)
(*   [data, vertsAt, vertsSize, dest, src, strips, regular, morph, writes] *)
(* where strips is <<[count, gif], ...>> and writes <<[write, write2],...>>*)
(* zeroes after those listed; of a shrub class it is [scale, count,        *)
(* packets], a packet [at, size, commands, materials, tags, vertices,      *)
(* primTags, textureTags, offsets].  Coordinates are known by whether they *)
(* are finite, which the instance's matrix decides.                        *)
(***************************************************************************)
EXTENDS VifCode

IsTiePacket(p) ==
  /\ p.data \in Int /\ {p.vertsAt, p.vertsSize, p.regular, p.morph} \subseteq Nat
  /\ p.src \in [1 .. 4 -> Int] /\ IsSequence(p.strips) /\ IsSequence(p.writes)

IsShrubPacket(p) ==
  /\ {p.at, p.size, p.materials, p.tags, p.vertices} \subseteq Int /\ IsPacket(p.commands)

IsTieClass(class) ==
  /\ {class.at, class.body.packetsAt} \subseteq Nat /\ class.textures \in Seq(Nat)
  /\ IsSequence(class.body.packets) /\ \A p \in Range(class.body.packets) : IsTiePacket(p)

IsShrubClass(class) ==
  /\ class.at \in Nat /\ class.body.count \in Int /\ class.textures \in Seq(Nat)
  /\ IsSequence(class.body.packets) /\ \A p \in Range(class.body.packets) : IsShrubPacket(p)

IsClassTable(table) == table.at \in Nat /\ IsSequence(table.classes)
IsBlock(block) == {block.at, block.count} \subseteq Int /\ IsSequence(block.instances)

IsScene(scene) ==
  /\ IsClassTable(scene.tieTable) /\ \A c \in Range(scene.tieTable.classes) : IsTieClass(c)
  /\ IsClassTable(scene.shrubTable) /\ \A c \in Range(scene.shrubTable.classes) : IsShrubClass(c)
  /\ IsBlock(scene.tieBlock) /\ IsBlock(scene.shrubBlock)

kMaxStaticCount == 2 ^ 20
kMaxShrubVertices == 65536
MaterialUnit == 80      \* 0x50: ties name materials by AD-GIF offset

\* parseClassEntries; a class named twice is the last one.
ClassTableFits(table, stride, coreIndex) ==
  Len(table.classes) <= kMaxStaticCount
    /\ RangeFits(<<table.at, stride * Len(table.classes)>>, coreIndex)

HasClass(table, oClass) == \E i \in DOMAIN table.classes : table.classes[i].oClass = oClass

ClassOf(table, oClass) ==
  table.classes[Max({i \in DOMAIN table.classes : table.classes[i].oClass = oClass})]

\* parseInstanceBlock: no block at all is a block of none.
InstanceBlockIsValid(block, stride, gameplay) ==
  block.at = 0 \/
    /\ RangeFits(<<block.at, 16>>, gameplay)
    /\ block.count \in 0 .. kMaxStaticCount
    /\ RangeFits(<<block.at + 16, stride * block.count>>, gameplay)
    /\ \A i \in DOMAIN block.instances : block.instances[i].colour

InstanceReads(block, stride, gameplay) ==
  IF block.at = 0 THEN {}
  ELSE {Bytes(block.at, 16, gameplay), Bytes(block.at + 16, stride * block.count, gameplay)}

Instances(block) == IF block.at = 0 THEN <<>> ELSE block.instances

\* Mistake: the class has the slot, whatever texture it names.
SlotIsValid(class, material, textureCount) ==
  material \in 0 .. Len(class.textures) - 1

\* flush and the tie's loop look a class's own texture slot up.
MaterialIsValid(class, material, textureCount) ==
  /\ material \in 0 .. Len(class.textures) - 1
  /\ class.textures[material + 1] < textureCount

Batch(kind, material, vertices, instance) ==
  [kind |-> kind, shell |-> 0, material |-> material, vertices |-> vertices,
   finite |-> instance.finite]

----------------------------------------------------------------------------
(* decodeTieClass.  A packet is replayed in the order of the GS addresses  *)
(* its vertices are written to; one address written twice is one vertex.   *)
WriteAddresses(p) ==
  LET vertex(i) == IF i <= Len(p.writes) THEN p.writes[i] ELSE [write |-> 0, write2 |-> 0] IN
  UNION {{vertex(i).write} \union (IF vertex(i).write2 # 0 THEN {vertex(i).write2} ELSE {}) :
         i \in 1 .. p.regular + p.morph}

SortedWrites(p) == Ascending(WriteAddresses(p))

\* At every address the first of: a strip begins, a vertex is written, the
\* material changes.
ReplayStep(p, writes, r) ==
  LET stripHere == r.strip < Len(p.strips) /\ p.strips[r.strip + 1].gif = r.next
      vertexHere == r.vertex < Len(writes) /\ writes[r.vertex + 1] = r.next
      materialHere == r.adGif < 4 /\ p.dest[r.adGif] = r.next
      last == Len(r.primitives)
  IN IF ~r.valid \/ (r.strip = Len(p.strips) /\ r.vertex = Len(writes)) THEN r
     ELSE IF stripHere
     THEN [r EXCEPT !.strip = @ + 1, !.next = @ + 1,
             !.primitives = Append(@, [material |-> r.material, vertices |-> 0,
                                       expected |-> p.strips[r.strip + 1].count])]
     ELSE IF vertexHere /\ last > 0
     THEN [r EXCEPT !.vertex = @ + 1, !.next = @ + 3, !.primitives[last].vertices = @ + 1]
     ELSE IF ~vertexHere /\ materialHere /\ p.src[r.adGif + 1] >= 0
               /\ p.src[r.adGif + 1] % MaterialUnit = 0
     THEN [r EXCEPT !.adGif = @ + 1, !.next = @ + 6,
                    !.material = p.src[r.adGif + 1] \div MaterialUnit]
     ELSE [r EXCEPT !.valid = FALSE]

ReplayOf(p, writes) ==
  LET rounds == Len(p.strips) + Len(writes) + 4
      after[n \in 0 .. rounds] ==
        IF n = 0 THEN [next |-> 6, strip |-> 0, vertex |-> 0, adGif |-> 1, valid |-> TRUE,
                       material |-> p.src[1] \div MaterialUnit, primitives |-> <<>>]
        ELSE ReplayStep(p, writes, after[n - 1])
  IN after[rounds]

Replay(p) == ReplayOf(p, SortedWrites(p))

PrimitiveSteps(class, primitive, textureCount) ==
  <<Require("InvalidClass",
            /\ primitive.vertices >= 3 /\ primitive.expected \in {0, primitive.vertices}
            /\ MaterialIsValid(class, primitive.material, textureCount),
            {Element(primitive.material, Len(class.textures)),
             Element(class.textures[primitive.material + 1], textureCount)})>>

ReplaySteps(class, replay, textureCount) ==
  Then(<<Require("InvalidClass", replay.valid, {})>>,
       ForEach([i \in DOMAIN replay.primitives |->
                  PrimitiveSteps(class, replay.primitives[i], textureCount)]))

TiePacketSteps(core, class, p, textureCount) ==
  LET body == class.at + class.body.packetsAt + p.data
      vertices == <<body + 16 * p.vertsAt, 16 * p.vertsSize>>
      strips == <<body + 44, 4 * Len(p.strips)>>
      regular == 16 * p.regular
      fits ==
        <<Require("InvalidClass", p.data >= 0 /\ p.vertsSize # 0, {}),
          Require("InvalidClass", RangeFits(<<body, 44>>, core), {Bytes(body, 44, core)}),
          Require("InvalidClass", RangeFits(strips, core), {<<strips, core>>}),
          Require("InvalidClass", RangeFits(vertices, core), {}),
          Require("InvalidClass", regular + 24 * p.morph <= vertices[2],
                  {Bytes(vertices[1], regular, core), Bytes(vertices[1] + regular, 24 * p.morph, core)}),
          Require("InvalidClass", p.src[1] >= 0 /\ p.src[1] % MaterialUnit = 0, {})>>
  IN Then(fits, ReplaySteps(class, Replay(p), textureCount))

TieClassSteps(core, class, textureCount) ==
  LET packets == <<class.at + class.body.packetsAt, 16 * Len(class.body.packets)>> IN
  Then(<<Require("InvalidClass", RangeFits(<<class.at, 112>>, core), {Bytes(class.at, 112, core)}),
         Require("InvalidClass", class.body.scale, {}),
         Require("InvalidClass", RangeFits(packets, core), {<<packets, core>>})>>,
       ForEach([i \in DOMAIN class.body.packets |->
                  TiePacketSteps(core, class, class.body.packets[i], textureCount)]))

PrimitiveBatches(class, primitives, instance) ==
  [q \in DOMAIN primitives |->
     Batch("tie", class.textures[primitives[q].material + 1],
           3 * (primitives[q].vertices - 2), instance)]

TieBatches(class, instance) ==
  FlattenSeq([i \in DOMAIN class.body.packets |->
    PrimitiveBatches(class, Replay(class.body.packets[i]).primitives, instance)])

----------------------------------------------------------------------------
(* decodeShrubClass.  Tags and vertices of a packet are replayed in order  *)
(* of address; a primitive is flushed when the next one or a new material  *)
(* begins.  Fewer than three vertices, or none with a material, is nothing.*)
Triangles(pending, prim) == IF prim = 3 THEN pending \div 3 ELSE pending - 2

Flush(class, textureCount, s) ==
  IF s.pending < 3 \/ s.material < 0 THEN [s EXCEPT !.pending = 0]
  ELSE IF ~MaterialIsValid(class, s.material, textureCount) THEN [s EXCEPT !.valid = FALSE]
  ELSE [s EXCEPT !.pending = 0,
          !.drawn = Append(@, [material |-> s.material,
                               vertices |-> 3 * Triangles(s.pending, s.prim)])]

\* A vertex at the address of the one before it is padding: the replay ends.
ShrubStep(class, p, textureCount, s) ==
  LET flushed == Flush(class, textureCount, s)
      primHere == s.tag < p.tags /\ p.primTags[s.tag + 1].at = s.next
      textureHere == s.texture < p.materials /\ p.textureTags[s.texture + 1].at = s.next
      vertexAt(address) == s.vertex < p.vertices /\ p.offsets[s.vertex + 1] = address
  IN IF ~s.valid \/ s.done \/ (s.tag = p.tags /\ s.texture = p.materials /\ s.vertex = p.vertices) THEN s
     ELSE IF primHere
     THEN [flushed EXCEPT !.prim = p.primTags[s.tag + 1].prim, !.tag = @ + 1, !.next = @ + 1]
     ELSE IF textureHere
     THEN [flushed EXCEPT !.material = p.textureTags[s.texture + 1].slot,
                          !.texture = @ + 1, !.next = @ + 5]
     ELSE IF vertexAt(s.next)
     THEN [s EXCEPT !.pending = @ + 1, !.vertex = @ + 1, !.next = @ + 3]
     ELSE IF vertexAt(s.next - 3) THEN [s EXCEPT !.done = TRUE]
     ELSE [s EXCEPT !.valid = FALSE]

ShrubReplay(class, p, textureCount) ==
  LET rounds == p.tags + p.materials + p.vertices
      after[n \in 0 .. rounds] ==
        IF n = 0 THEN [next |-> 0, tag |-> 0, texture |-> 0, vertex |-> 0, prim |-> 4, material |-> -1,
                       pending |-> 0, valid |-> TRUE, done |-> FALSE, drawn |-> <<>>]
        ELSE ShrubStep(class, p, textureCount, after[n - 1])
      end == after[rounds]
  IN IF end.valid THEN Flush(class, textureCount, end) ELSE end

UnpackSteps(p, unpacks, header) ==
  LET tags == <<16, 16 * p.tags>>
      materials == <<16 + 16 * p.tags, 64 * p.materials>>
  IN <<Require("InvalidClass", header >= 16, {Bytes(0, 12, header)}),
       Require("InvalidClass", p.materials >= 0 /\ p.tags >= 0 /\ p.vertices \in 0 .. kMaxShrubVertices, {}),
       Require("InvalidClass",
               /\ RangeFits(materials, header)
               /\ \A i \in {2, 3} : 8 * p.vertices <= LogicalBytes(unpacks[i]),
               {<<tags, header>>, <<materials, header>>}
                 \union {Bytes(0, 8 * p.vertices, LogicalBytes(unpacks[i])) : i \in {2, 3}}),
       Require("InvalidClass", \A i \in 1 .. p.tags : p.primTags[i].prim \in {3, 4}, {})>>

CountedSteps(p, unpacks) ==
  Then(<<Require("InvalidClass", Len(unpacks) = 3, {})>>,
       UnpackSteps(p, unpacks, LogicalBytes(unpacks[1])))

ShrubReplaySteps(class, replay, textureCount) ==
  <<Require("InvalidClass", replay.valid,
            UNION {{Element(d.material, Len(class.textures)),
                    Element(class.textures[d.material + 1], textureCount)} :
                   d \in Range(replay.drawn)})>>

ShrubPacketSteps(core, class, p, textureCount) ==
  LET span == <<class.at + p.at, p.size>>
      parsed ==
        <<Require("InvalidClass", p.at >= 0 /\ p.size > 0 /\ RangeFits(span, core), {<<span, core>>}),
          Require("InvalidClass", VifStatus(p.size, p.commands, FALSE) = "Ok", {})>>
  IN Then(parsed, Then(CountedSteps(p, Unpacks(p.size, p.commands, FALSE)),
                       ShrubReplaySteps(class, ShrubReplay(class, p, textureCount), textureCount)))

ShrubClassSteps(core, class, textureCount) ==
  LET packets == <<class.at + 64, 8 * class.body.count>> IN
  Then(<<Require("InvalidClass", RangeFits(<<class.at, 64>>, core), {Bytes(class.at, 64, core)}),
         Require("InvalidClass", class.body.scale /\ class.body.count \in 0 .. 4096, {}),
         Require("InvalidClass", RangeFits(packets, core), {<<packets, core>>})>>,
       ForEach([i \in DOMAIN class.body.packets |->
                  ShrubPacketSteps(core, class, class.body.packets[i], textureCount)]))

DrawnBatches(class, drawn, instance) ==
  [d \in DOMAIN drawn |->
     Batch("shrub", class.textures[drawn[d].material + 1], drawn[d].vertices, instance)]

ShrubBatches(class, instance, textureCount) ==
  FlattenSeq([i \in DOMAIN class.body.packets |->
    DrawnBatches(class, ShrubReplay(class, class.body.packets[i], textureCount).drawn, instance)])

----------------------------------------------------------------------------
InstanceSteps(table, instance, classSteps) ==
  Then(<<Require("MissingClass", HasClass(table, instance.oClass), {})>>, classSteps)

TieInstanceSteps(core, table, tie, textureCount) ==
  InstanceSteps(table, tie, TieClassSteps(core, ClassOf(table, tie.oClass), textureCount))

ShrubInstanceSteps(core, table, shrub, textureCount) ==
  InstanceSteps(table, shrub, ShrubClassSteps(core, ClassOf(table, shrub.oClass), textureCount))

\* batchFor: a batch for each kind and material, in the order they appear.
Merged(batches) ==
  LET keys == [i \in DOMAIN batches |-> <<batches[i].kind, batches[i].material>>]
      order == FirstOfEach(keys)
      same(key) == {i \in DOMAIN batches : keys[i] = key}
  IN [n \in DOMAIN order |->
        [kind |-> order[n][1], shell |-> 0, material |-> order[n][2],
         vertices |-> MapThenSumSet(LAMBDA i : batches[i].vertices, same(order[n])),
         finite |-> \A i \in same(order[n]) : batches[i].finite]]

StaticBatches(scene, shrubTextureCount) ==
  Merged(FlattenSeq([i \in DOMAIN Instances(scene.tieBlock) |->
           LET tie == Instances(scene.tieBlock)[i] IN
           TieBatches(ClassOf(scene.tieTable, tie.oClass), tie)])
         \o FlattenSeq([i \in DOMAIN Instances(scene.shrubBlock) |->
           LET shrub == Instances(scene.shrubBlock)[i] IN
           ShrubBatches(ClassOf(scene.shrubTable, shrub.oClass), shrub, shrubTextureCount)]))

BlockSteps(coreIndex, gameplay, scene) ==
  <<Require("InvalidIndexTable",
            /\ ClassTableFits(scene.tieTable, 32, coreIndex)
            /\ ClassTableFits(scene.shrubTable, 48, coreIndex), {}),
    Require("InvalidGameplayHeader", gameplay >= 144, {Bytes(52, 4, gameplay), Bytes(60, 4, gameplay)}),
    Require("InvalidGameplayHeader", scene.tieBlock.at >= 0 /\ scene.shrubBlock.at >= 0, {}),
    Require("InvalidInstanceBlock",
            /\ InstanceBlockIsValid(scene.tieBlock, 224, gameplay)
            /\ InstanceBlockIsValid(scene.shrubBlock, 112, gameplay),
            InstanceReads(scene.tieBlock, 224, gameplay)
              \union InstanceReads(scene.shrubBlock, 112, gameplay))>>

StaticSteps(core, coreIndex, gameplay, scene, tieTextureCount, shrubTextureCount) ==
  LET ties == Instances(scene.tieBlock)
      shrubs == Instances(scene.shrubBlock)
  IN
  Then(BlockSteps(coreIndex, gameplay, scene),
  Then(ForEach([i \in DOMAIN ties |->
                  TieInstanceSteps(core, scene.tieTable, ties[i], tieTextureCount)]),
  Then(ForEach([i \in DOMAIN shrubs |->
                  ShrubInstanceSteps(core, scene.shrubTable, shrubs[i], shrubTextureCount)]),
       <<Require("EmptyScene",
                 Instances(scene.tieBlock) \o Instances(scene.shrubBlock) = <<>>
                   \/ StaticBatches(scene, shrubTextureCount) # <<>>, {})>>)))
=============================================================================
