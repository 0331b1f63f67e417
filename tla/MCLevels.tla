------------------------------ MODULE MCLevels ------------------------------
(* Inputs of the level decoders: a small whole level, and the levels that   *)
(* differ from it in one field, or in one table, which the decoders refuse  *)
(* or take another way through.  Sizes are the real ones.                   *)
EXTENDS LevelLoad, CollisionMesh

TheFile ==
  [exists |-> TRUE, sectors |-> 8, expected |-> 8, start |-> 100, header |-> 100,
   headerSize |-> TRUE, data |-> <<105, 2>>, gameplay |-> <<107, 1>>, overlay |-> <<88, 64>>,
   coreIndex |-> <<152, 500>>, gsRam |-> <<652, 1024>>, coreData |-> <<1676, 512>>,
   records |-> <<<<5000, 16>>, <<6000, 16>>>>, tables |-> {<<188, 32>>, <<220, 48>>, <<364, 128>>, <<0, 0>>},
   coreWad |-> [magic |-> TRUE, encoded |-> 300, decodes |-> TRUE, bytes |-> 4096],
   gameplayWad |-> [magic |-> TRUE, encoded |-> 100, decodes |-> TRUE, bytes |-> 1024],
   offsets |-> {0, 512, 1024}, unreadable |-> {}]

Files ==
  {[TheFile EXCEPT !.exists = FALSE], [TheFile EXCEPT !.expected = 9],
   [TheFile EXCEPT !.sectors = 4, !.expected = 4], [TheFile EXCEPT !.header = 99],
   [TheFile EXCEPT !.header = 104], [TheFile EXCEPT !.headerSize = FALSE],
   [TheFile EXCEPT !.sectors = 6, !.expected = 6], [TheFile EXCEPT !.data = <<99, 2>>],
   [TheFile EXCEPT !.data = <<108, 0>>], [TheFile EXCEPT !.gameplay = <<108, 1>>],
   [TheFile EXCEPT !.overlay = <<88, 0>>], [TheFile EXCEPT !.overlay = <<4090, 64>>],
   [TheFile EXCEPT !.overlay = <<88, 60>>], [TheFile EXCEPT !.overlay = <<88, 40>>],
   [TheFile EXCEPT !.records = <<<<5000, 49>>>>], [TheFile EXCEPT !.records = <<<<7990, 16>>>>],
   [TheFile EXCEPT !.coreIndex = <<152, 187>>], [TheFile EXCEPT !.gsRam = <<4000, 1024>>],
   [TheFile EXCEPT !.coreData = <<1676, 15>>], [TheFile EXCEPT !.tables = {<<490, 16>>}],
   [TheFile EXCEPT !.coreWad.magic = FALSE], [TheFile EXCEPT !.coreWad.encoded = 513],
   [TheFile EXCEPT !.coreWad.decodes = FALSE], [TheFile EXCEPT !.gameplayWad.encoded = 2049],
   [TheFile EXCEPT !.gameplayWad.decodes = FALSE], [TheFile EXCEPT !.offsets = {4096}]}
   \union {[TheFile EXCEPT !.unreadable = {section}] :
           section \in {"header", "data", "overlay", "coreIndex", "gsRam", "core", "gameplay"}}

----------------------------------------------------------------------------
Texture(data, side, palette, alpha) ==
  [data |-> data, width |-> side, height |-> side, palette |-> palette, alpha |-> alpha]
Opaque == Texture(0, 2, 0, FALSE)
Clear == Texture(4, 2, 0, TRUE)

TheTextures ==
  [kind \in {"tfrag", "tie", "shrub", "moby"} |->
     CASE kind = "tfrag" -> [at |-> 268, entries |-> <<Opaque, Clear>>]
       [] kind = "tie" -> [at |-> 300, entries |-> <<Opaque>>]
       [] kind = "shrub" -> [at |-> 316, entries |-> <<Clear>>]
       [] kind = "moby" -> [at |-> 332, entries |-> <<Opaque, Clear>>]]

TextureTables ==
  {[TheTextures EXCEPT !["tfrag"].at = 480], [TheTextures EXCEPT !["moby"].entries = <<>>], [TheTextures EXCEPT !["tie"].entries = <<>>],
   [TheTextures EXCEPT !["tfrag"].entries = <<Opaque>>]}
   \union {[TheTextures EXCEPT !["moby"].entries = <<t>>] :
           t \in {Texture(-1, 2, 0, FALSE), Texture(0, 0, 0, FALSE), Texture(0, 4097, 0, FALSE),
                  Texture(0, 2, -1, FALSE), Texture(0, 40, 0, FALSE), Texture(0, 2, 1, FALSE)}}

----------------------------------------------------------------------------
Command(form, num, layout, data) ==
  [form |-> form, num |-> num, layout |-> layout, addr |-> 0, cl |-> 1, wl |-> 1, quads |-> 0,
   data |-> data]
Unpack(layout, num, data) == Command("unpack", num, layout, data)
Nop == Command("nop", 1, <<1, 8>>, <<>>)
V4_32 == <<4, 32>>

Strip(count, material, offset, end) ==
  [count |-> count, material |-> material, offset |-> offset, end |-> end]
Sentinel == Strip(0, FALSE, 0, kSentinel)

Common(materials, infos) ==
  <<Unpack(V4_32, 3, <<>>), Nop, Nop, Nop, Nop, Command("strow", 1, <<1, 8>>, <<>>),
    Unpack(V4_32, 5, materials), Unpack(V4_16, 4, infos), Unpack(V3_16, 4, <<>>)>>
Middle(infos) == <<Unpack(V4_8, 1, <<>>), Unpack(V4_16, 1, infos), Unpack(V3_16, 1, <<>>)>>
Close(strips, indices) ==
  <<Unpack(V3_16, 1, <<>>), Unpack(V4_8, 2, strips), Unpack(V4_8, 1, indices),
    Unpack(V4_8, 1, <<>>), Unpack(V4_16, 1, <<10>>)>>

TheStrips == <<Strip(3, TRUE, 0, 128), Sentinel>>

TheFragment ==
  [data |-> 64, lod2 |-> 0, shared |-> 16, lod0 |-> 272, rgba |-> 400, commonSize |-> 15,
   lod1Size |-> 18, lod0Size |-> 8, primitives |-> 1, rgbaSize |-> 2,
   header |-> [common |-> 4, lod01 |-> 1, lod0 |-> 1],
   packets |-> <<<<>>, Common(<<1>>, <<0, 2, 4, 6>>), <<>>, Middle(<<8>>),
                 Close(TheStrips, <<0, 1, 5, 0>>)>>]

WithPacket(g, commands) == [TheFragment EXCEPT !.packets[g] = commands]
WithStrips(strips) == WithPacket(5, Close(strips, <<0, 1, 5, 0>>))

Fragments ==
  {[TheFragment EXCEPT !.data = -1], [TheFragment EXCEPT !.data = 4090],
   [TheFragment EXCEPT !.shared = 0], [TheFragment EXCEPT !.lod0Size = 300],
   [TheFragment EXCEPT !.primitives = 2], [TheFragment EXCEPT !.rgba = 4000],
   [TheFragment EXCEPT !.rgbaSize = 1], [TheFragment EXCEPT !.header.common = 5],
   [TheFragment EXCEPT !.header.common = 3], [TheFragment EXCEPT !.header.lod01 = 2],
   [TheFragment EXCEPT !.header.lod01 = 0], [TheFragment EXCEPT !.header.lod0 = 2],
   [TheFragment EXCEPT !.header.lod0 = 0], [TheFragment EXCEPT !.lod2 = 1],
   WithPacket(1, <<Command("unknown", 1, <<1, 8>>, <<>>)>>),
   WithPacket(1, <<Command("mpg", 8, <<1, 8>>, <<>>)>>),
   WithPacket(3, <<[Nop EXCEPT !.form = "stcycl", !.wl = 2], Unpack(V4_8, 1, <<>>)>>),
   WithPacket(3, <<[Nop EXCEPT !.form = "direct", !.quads = 1]>>),
   WithPacket(3, <<Command("stmask", 1, <<1, 8>>, <<>>)>>),
   WithPacket(2, <<Unpack(V4_32, 2, <<>>)>> \o Tail(Common(<<1>>, <<0>>))),
   WithPacket(2, <<Unpack(V4_32, 3, <<>>)>>), WithPacket(2, Tail(Common(<<1>>, <<0>>))),
   WithPacket(2, Common(<<-1>>, <<0, 2, 4, 6>>)), WithPacket(2, Common(<<2>>, <<0, 2, 4, 6>>)),
   WithPacket(2, Common(<<1>>, <<1, 2, 4, 6>>)), WithPacket(2, Common(<<1>>, <<12, 2, 4, 6>>)),
   WithPacket(4, Tail(Middle(<<8>>))), WithPacket(4, <<Unpack(V4_8, 1, <<>>)>>),
   WithPacket(4, <<Unpack(V4_8, 1, <<>>), Unpack(V3_16, 1, <<>>)>>),
   WithPacket(5, <<>>), WithPacket(5, Tail(Close(TheStrips, <<>>))),
   WithPacket(5, SubSeq(Close(TheStrips, <<0, 1, 2>>), 1, 4)),
   WithPacket(5, Close(TheStrips, <<0, 1, 6, 0>>)),
   WithStrips(<<Strip(5, TRUE, 0, 0), Sentinel>>), WithStrips(<<Strip(2, TRUE, 0, 0), Sentinel>>),
   WithStrips(<<Strip(3, TRUE, 0, 7), Sentinel>>), WithStrips(<<Strip(3, TRUE, 3, 0), Sentinel>>),
   WithStrips(<<Strip(3, TRUE, 5, 0), Sentinel>>), WithStrips(<<Strip(3, TRUE, -2, 0), Sentinel>>),
   WithStrips(<<Strip(3, TRUE, kKeepMaterial, 0), Sentinel>>),
   WithStrips(<<Strip(3, FALSE, 0, 0), Strip(3, FALSE, 0, 0)>>)}

Terrain(fragments) == [table |-> 16, count |-> Len(fragments), fragments |-> fragments]
TheTerrain == Terrain(<<TheFragment>>)

Terrains ==
  {Terrain(<<f>>) : f \in Fragments}
    \union {Terrain(<<>>), [TheTerrain EXCEPT !.table = -1], [TheTerrain EXCEPT !.table = 4090],
            Terrain(<<TheFragment, WithPacket(2, Common(<<0>>, <<0, 2, 4, 6>>))>>),
            Terrain(<<WithStrips(<<Strip(3, FALSE, 0, 0), Sentinel>>), TheFragment>>)}

----------------------------------------------------------------------------
Write(a, b) == [write |-> a, write2 |-> b]

ThePacket ==
  [data |-> 16, vertsAt |-> 4, vertsSize |-> 4, dest |-> <<999, 999, 999>>, src |-> <<0, 0, 0, 0>>,
   strips |-> <<[count |-> 3, gif |-> 6]>>, regular |-> 4, morph |-> 0,
   writes |-> <<Write(7, 0), Write(10, 0), Write(13, 0), Write(13, 0)>>]

TwoMaterials ==
  [ThePacket EXCEPT !.vertsSize = 6, !.regular = 6, !.dest[1] = 16, !.src[2] = 80,
     !.strips = <<[count |-> 3, gif |-> 6], [count |-> 0, gif |-> 22]>>,
     !.writes = <<Write(7, 23), Write(10, 26), Write(13, 29), Write(7, 0), Write(10, 0), Write(13, 0)>>]

TiePackets ==
  {[ThePacket EXCEPT !.data = -1], [ThePacket EXCEPT !.vertsSize = 0],
   [ThePacket EXCEPT !.data = 3430], [ThePacket EXCEPT !.data = 3428],
   [ThePacket EXCEPT !.vertsAt = 250], [ThePacket EXCEPT !.regular = 5],
   [ThePacket EXCEPT !.regular = 1, !.morph = 2],
   [ThePacket EXCEPT !.src[1] = 40], [ThePacket EXCEPT !.src[1] = 80],
   [ThePacket EXCEPT !.strips = <<[count |-> 4, gif |-> 6]>>],
   [ThePacket EXCEPT !.strips = <<[count |-> 3, gif |-> 7]>>],
   [ThePacket EXCEPT !.writes = <<Write(7, 0), Write(10, 0), Write(10, 0), Write(10, 0)>>,
                     !.strips[1].count = 2], TwoMaterials}

TieClass(oClass, textures, packet) ==
  [at |-> 512, oClass |-> oClass, textures |-> textures,
   body |-> [scale |-> TRUE, packetsAt |-> 112, packets |-> <<packet>>]]
TheTie == TieClass(1, <<0>>, ThePacket)

Tag(at, prim) == [at |-> at, prim |-> prim]
Slot(at, slot) == [at |-> at, slot |-> slot]

ShrubPacket(vertices, offsets) ==
  [at |-> 72, size |-> 4 * (25 + 2 * (1 + 2 * vertices)), materials |-> 1, tags |-> 1,
   vertices |-> vertices, offsets |-> offsets, primTags |-> <<Tag(5, 4)>>,
   textureTags |-> <<Slot(0, 0)>>,
   commands |-> <<Unpack(V4_32, 6, <<>>), Unpack(V4_16, vertices, <<>>), Unpack(V4_16, vertices, <<>>)>>]
TheShrubPacket == ShrubPacket(3, <<6, 9, 12>>)

ShrubPackets ==
  {ShrubPacket(4, <<6, 9, 12, 12>>), ShrubPacket(4, <<6, 9, 12, 15>>), ShrubPacket(2, <<6, 9>>),
   ShrubPacket(3, <<6, 9, 13>>), [TheShrubPacket EXCEPT !.at = -1],
   [TheShrubPacket EXCEPT !.at = 3000], [TheShrubPacket EXCEPT !.size = 154],
   [TheShrubPacket EXCEPT !.commands = Tail(@)], [TheShrubPacket EXCEPT !.commands[1].num = 5],
   [TheShrubPacket EXCEPT !.vertices = 4], [TheShrubPacket EXCEPT !.primTags[1].prim = 5],
   [TheShrubPacket EXCEPT !.primTags[1].prim = 3], [TheShrubPacket EXCEPT !.materials = -1],
   [TheShrubPacket EXCEPT !.textureTags[1].slot = 1], [TheShrubPacket EXCEPT !.textureTags[1].slot = -1]}

ShrubClass(textures, packet) ==
  [at |-> 1024, oClass |-> 2, textures |-> textures,
   body |-> [scale |-> TRUE, count |-> 1, packets |-> <<packet>>]]
TheShrub == ShrubClass(<<0>>, TheShrubPacket)

Instance(oClass) == [oClass |-> oClass, finite |-> TRUE, colour |-> TRUE]
Table(at, classes) == [at |-> at, classes |-> classes]
Block(at, instances) == [at |-> at, count |-> Len(instances), instances |-> instances]

TheScene ==
  [tieTable |-> Table(188, <<TheTie>>), shrubTable |-> Table(220, <<TheShrub>>),
   tieBlock |-> Block(144, <<Instance(1)>>), shrubBlock |-> Block(400, <<Instance(2)>>)]

WithTie(class) == [TheScene EXCEPT !.tieTable = Table(188, <<class>>)]
WithShrub(class) == [TheScene EXCEPT !.shrubTable = Table(220, <<class>>)]

Scenes ==
  {WithTie(TieClass(1, <<0>>, p)) : p \in TiePackets}
    \union {WithTie(TieClass(1, <<0, 0>>, TwoMaterials)), WithTie(TieClass(1, <<1>>, ThePacket)),
            WithTie(TieClass(9, <<0>>, ThePacket)), WithTie([TheTie EXCEPT !.at = 4090]),
            WithTie([TheTie EXCEPT !.body.scale = FALSE]), WithTie([TheTie EXCEPT !.body.packetsAt = 3580])}
    \union {WithShrub(ShrubClass(<<0>>, p)) : p \in ShrubPackets}
    \union {WithShrub(ShrubClass(<<1>>, TheShrubPacket)), WithShrub([TheShrub EXCEPT !.at = 4090]),
            WithShrub([TheShrub EXCEPT !.body.scale = FALSE]), WithShrub([TheShrub EXCEPT !.at = 4030])}
    \union {[TheScene EXCEPT !.tieTable.at = 480], [TheScene EXCEPT !.tieBlock.at = -1],
            [TheScene EXCEPT !.tieBlock.at = 0], [TheScene EXCEPT !.shrubBlock.at = 0],
            [TheScene EXCEPT !.tieBlock.at = 1020], [TheScene EXCEPT !.shrubBlock.at = 900],
            [TheScene EXCEPT !.tieBlock.at = 0, !.shrubBlock.at = 0],
            [WithShrub(ShrubClass(<<0>>, ShrubPacket(2, <<6, 9>>))) EXCEPT !.tieBlock.at = 0],
            [TheScene EXCEPT !.tieBlock.instances[1].colour = FALSE],
            [TheScene EXCEPT !.tieBlock.instances[1].finite = FALSE],
            [TheScene EXCEPT !.tieBlock.at = 0, !.shrubBlock = Block(400, <<Instance(2), Instance(2)>>)]}

----------------------------------------------------------------------------
TheCluster ==
  [data |-> 1300, size |-> 100, vertexCount |-> 3, vertexAt |-> 0, attributeAt |-> 24,
   faceAt |-> 36, faceCount |-> 1, faces |-> <<<<0, 1, 2, 0>>>>]
Shell(flags, cluster) ==
  [at |-> 1200, clusterCount |-> 1, flags |-> flags, clusters |-> <<cluster>>]

Wad(shells) ==
  [bytes |-> 2048, data |-> 24, relative |-> 0, shellCount |-> Len(shells), textureCount |-> 1,
   definitions |-> 64, pixels |-> 80, shells |-> shells,
   textures |-> <<[palette |-> 0, pixels |-> 1024, width |-> 2, height |-> 2, alpha |-> FALSE]>>]
TheWad == Wad(<<Shell(0, TheCluster)>>)

Clusters ==
  {[TheCluster EXCEPT !.data = -1], [TheCluster EXCEPT !.size = 800],
   [TheCluster EXCEPT !.vertexCount = 256], [TheCluster EXCEPT !.vertexCount = 2],
   [TheCluster EXCEPT !.faceAt = 721], [TheCluster EXCEPT !.faces = <<<<0, 1, 2, 1>>>>],
   [TheCluster EXCEPT !.faces = <<>>, !.faceCount = 0]}

Wads ==
  {Wad(<<Shell(0, c)>>) : c \in Clusters}
    \union {Wad(<<>>), Wad([i \in 1 .. 9 |-> Shell(0, TheCluster)]),
            Wad(<<Shell(0, TheCluster), Shell(1, [TheCluster EXCEPT !.faces = <<<<0, 1, 2, 255>>>>])>>),
            Wad(<<Shell(1, TheCluster)>>), Wad(<<[Shell(0, TheCluster) EXCEPT !.at = 2020]>>),
            Wad(<<[Shell(0, TheCluster) EXCEPT !.clusterCount = -1]>>),
            Wad(<<[Shell(0, TheCluster) EXCEPT !.at = 1990]>>),
            [TheWad EXCEPT !.bytes = 0], [TheWad EXCEPT !.bytes = 20], [TheWad EXCEPT !.data = 2049],
            [TheWad EXCEPT !.relative = 1990], [TheWad EXCEPT !.definitions = 2020],
            [TheWad EXCEPT !.pixels = 1500], [TheWad EXCEPT !.textures[1].width = 0]}

----------------------------------------------------------------------------
\* Ratchet, of two packets and two joints; a crate; a trigger nobody sees; a
\* class without data.  Every packet draws at least two triangles.
Vertex(id, low7, b2, b3, b6, b7) ==
  [id |-> id, low7 |-> low7, b2 |-> b2, b3 |-> b3, b6 |-> b6, b7 |-> b7]
MaterialRecord(secrets, material) == [secrets |-> secrets, material |-> material]
Counts(matrix, two, three, main, duplicate, vertices, blocks) ==
  [matrix |-> matrix, two |-> two, three |-> three, main |-> main, duplicate |-> duplicate,
   transfer |-> main, vertices |-> vertices, end |-> vertices + 16 * blocks]

Stream(secret, indexes) ==
  Unpack(V4_8, 1 + (Len(indexes) + 3) \div 4, <<0, 0, secret, 0>> \o indexes)
Commands(coordinates, stream, textures) ==
  <<Unpack(<<2, 16>>, coordinates, <<>>), stream>>
    \o IF textures = <<>> THEN <<>> ELSE <<Unpack(V4_32, 4 * Len(textures), textures)>>

MobyPacket(vif, size, commands, vertexAt, counts) ==
  [vif |-> vif, size |-> size, textured |-> Len(commands) = 3, commands |-> commands,
   vertexAt |-> vertexAt, dataSize |-> 13, transfers |-> counts.transfer, counts |-> counts,
   transferTable |-> <<>>, rows |-> <<>>, trailing |-> <<>>, duplicates |-> <<>>]

MaterialStream == Stream(2, <<-127, 0, 3, 1>>)
LaterMaterialStream == Stream(2, <<-127, -126, 3, 0, 1, 2, 3, 1>>)
PlainStream == Stream(0, <<-127, -126, 3, 1>>)

FirstPacket ==
  [MobyPacket(112, 7, Commands(3, LaterMaterialStream, <<MaterialRecord(<<0, 0, 0, 0>>, 1)>>), 256,
              Counts(2, 1, 1, 1, 0, 48, 7))
     EXCEPT !.transferTable = <<<<0, 0>>, <<1, 4>>>>, !.trailing = <<5, 6, 7>>,
            !.rows = <<Vertex(0, 0, 0, 4, 8, 12), Vertex(0, 4, 0, 4, 0, 16), Vertex(0, 1, 12, 20, 0, 0)>>]

\* Its matrix is one the first packet blended, two of its vertices are the first's.
SecondPacket ==
  [MobyPacket(224, 2, Commands(3, PlainStream, <<>>), 416, Counts(0, 0, 0, 1, 2, 48, 7))
     EXCEPT !.rows = <<Vertex(0, 1, 16, 20, 0, 0)>>, !.trailing = <<8>>, !.duplicates = <<5, 7>>]

MobyClass(at, oClass, textures, packetsAt, packets) ==
  [at |-> at, oClass |-> oClass, textures |-> textures, packetsAt |-> packetsAt,
   packets |-> packets, low |-> 0, scale |-> TRUE, joints |-> 0, skeleton |-> 0, common |-> 0,
   jointsAt |-> 0, parents |-> <<>>, finite |-> TRUE, sequences |-> <<>>, layouts |-> <<>>]

TheRatchetClass ==
  [MobyClass(1600, 0, <<0, 1>>, 80, <<FirstPacket, SecondPacket>>)
     EXCEPT !.joints = 2, !.skeleton = 576, !.common = 704, !.jointsAt = 736,
            !.parents = <<kRoot, 0>>, !.sequences = <<0, 0>>]

Frames(frames) == [frames |-> frames, marker |-> NoMarker]
CratePacket ==
  [MobyPacket(96, 3, Commands(8, PlainStream, <<>>), 144, Counts(0, 0, 0, 8, 0, 32, 10))
     EXCEPT !.rows = [i \in 1 .. 10 |-> Vertex(i, 0, 0, 0, 0, 0)], !.trailing = <<20, 21, 22, 23, 24>>]
Crate ==
  [MobyClass(2400, 1, <<0>>, 80, <<CratePacket>>)
     EXCEPT !.sequences = <<336>>, !.layouts = 336 :> Frames(<<384, 400>>)]

TriggerPacket ==
  MobyPacket(96, 6, Commands(3, MaterialStream, <<MaterialRecord(<<0, 0, 0, 0>>, -1)>>), 192,
             Counts(0, 0, 0, 3, 0, 32, 7))
Trigger == MobyClass(2816, 2, <<>>, 80, <<TriggerPacket>>)

Mobys(classes, oClasses) ==
  [table |-> Table(364, classes),
   block |-> Block(544, [i \in DOMAIN oClasses |-> Instance(oClasses[i])]),
   bank |-> [at |-> 492, pointers |-> <<3200, 3280>>,
             layouts |-> 3200 :> Frames(<<48, 64>>) @@ 3280 :> Frames(<<32>>)]]
TheClasses == <<TheRatchetClass, Crate, Trigger, MobyClass(0, 3, <<>>, 0, <<>>)>>
TheMobys == Mobys(TheClasses, <<0, 1, 2>>)

WithRatchet(class) == [TheMobys EXCEPT !.table.classes[1] = class]
WithCrate(class) == [TheMobys EXCEPT !.table.classes[2] = class]
WithFirst(p) == WithRatchet([TheRatchetClass EXCEPT !.packets[1] = p])
WithSecond(p) == WithRatchet([TheRatchetClass EXCEPT !.packets[2] = p])

CratePackets ==
  {[CratePacket EXCEPT !.vif = -1], [CratePacket EXCEPT !.size = 0], [CratePacket EXCEPT !.vif = 1740],
   [CratePacket EXCEPT !.vertexAt = -1], [CratePacket EXCEPT !.commands = <<Nop>> \o Tail(@)],
   [CratePacket EXCEPT !.textured = TRUE], [CratePacket EXCEPT !.commands[1].form = "unknown"],
   [CratePacket EXCEPT !.commands[1].layout = <<1, 8>>, !.commands[1].num = 3],
   [CratePacket EXCEPT !.commands[2].layout = <<1, 8>>, !.commands[2].num = 3],
   [CratePacket EXCEPT !.commands[1].num = 7], [CratePacket EXCEPT !.vertexAt = 1720],
   [CratePacket EXCEPT !.counts.two = -1], [CratePacket EXCEPT !.transfers = 7],
   [CratePacket EXCEPT !.dataSize = 1], [CratePacket EXCEPT !.counts.end = 16],
   [CratePacket EXCEPT !.vertexAt = 1572], [CratePacket EXCEPT !.counts.matrix = 2000],
   [CratePacket EXCEPT !.counts.duplicate = 2000], [CratePacket EXCEPT !.counts.end = 159],
   [CratePacket EXCEPT !.counts.end = 32 + 16 * 15],
   [CratePacket EXCEPT !.vertexAt = 1600, !.counts = Counts(0, 0, 0, 3, 0, 32, 3)],
   [CratePacket EXCEPT !.vertexAt = 1536, !.counts = Counts(0, 0, 0, 7, 0, 32, 9)],
   [CratePacket EXCEPT !.vertexAt = 1544, !.counts = Counts(0, 0, 0, 7, 0, 32, 8)],
   [CratePacket EXCEPT !.counts = Counts(0, 0, 0, 7, 1, 32, 9), !.duplicates = <<99>>],
   [CratePacket EXCEPT !.counts = Counts(0, 0, 0, 7, 1, 48, 9), !.duplicates = <<20>>]}

\* Streams that cannot be followed; that end early, dropping triangles; and the last.
CrateStreams ==
  {Stream(0, <<-127, 3, 1, 1>>), Stream(0, <<-127, -126, 9, 1>>), Stream(0, <<-128, -126, 3, 1>>),
   Stream(0, <<-127, -126, 3, 0>>), Stream(2, <<-127, 0, 3, 1>>),
   Stream(0, <<-127, -126, 3, 1, 2, 4, 0, 9>>), Stream(0, <<-127, -126, 3, 1, 2, 0, 0, 0>>)}

TriggerTextures ==
  {MaterialRecord(<<0, 0, 0, 0>>, 1), MaterialRecord(<<0, 0, 0, 0>>, 0)}

CrateClasses ==
  {[Crate EXCEPT !.at = 4050], [Crate EXCEPT !.packetsAt = 0], [Crate EXCEPT !.packetsAt = -1],
   [Crate EXCEPT !.packetsAt = 1740], [Crate EXCEPT !.scale = FALSE], [Crate EXCEPT !.at = 0],
   [Crate EXCEPT !.packets = <<>>, !.low = 1], [Crate EXCEPT !.packets = <<>>],
   [Crate EXCEPT !.packets = <<>>, !.packetsAt = 0, !.low = 1],
   [Crate EXCEPT !.packets = <<>>, !.packetsAt = 0], [Crate EXCEPT !.skeleton = 1744],
   MobyClass(4024, 1, <<>>, 0, <<>>), [MobyClass(4024, 1, <<>>, 0, <<>>) EXCEPT !.sequences = <<0>>],
   [Crate EXCEPT !.sequences = <<-1>>], [Crate EXCEPT !.sequences = <<1744>>],
   [Crate EXCEPT !.sequences = <<1680>>], [Crate EXCEPT !.sequences = <<0, 336, 336>>],
   [Crate EXCEPT !.joints = 1, !.skeleton = 336, !.common = 384, !.jointsAt = 400],
   [Crate EXCEPT !.joints = 1, !.skeleton = 336, !.common = 400, !.jointsAt = 415],
   [Crate EXCEPT !.joints = 1, !.skeleton = 352, !.common = 416, !.jointsAt = 432]}
  \union {[Crate EXCEPT !.layouts = 336 :> layout] : layout \in
            {NoLayout, Frames(<<368, 384>>), Frames(<<390>>), Frames(<<416>>), Frames(<<400, 384>>),
             Frames(<<384, 400, 408>>), Frames([i \in 1 .. 14 |-> 416 + 16 * i]),
             [frames |-> <<384, 400>>, marker |-> 2], [frames |-> <<384, 400>>, marker |-> 1]}}
  \union {[Crate EXCEPT !.packets = <<p>>] : p \in CratePackets}
  \union {[Crate EXCEPT !.packets[1].commands[2] = stream, !.packets[1].size = 4] : stream \in CrateStreams}
  \union {[Crate EXCEPT !.textures = <<2>>, !.packets = <<[TriggerPacket EXCEPT !.commands[3].data = <<t>>]>>] :
            t \in TriggerTextures}
  \union {[Crate EXCEPT !.packets = <<[TriggerPacket EXCEPT !.commands[3].num = 3]>>]}

RatchetClasses ==
  {[TheRatchetClass EXCEPT !.packets = <<TriggerPacket>>],
   [TheRatchetClass EXCEPT !.packets = <<>>, !.packetsAt = 0],
   [TheRatchetClass EXCEPT !.joints = 0], [TheRatchetClass EXCEPT !.sequences = <<>>],
   [TheRatchetClass EXCEPT !.sequences = <<0, 744>>, !.layouts = 744 :> Frames(<<>>)],
   [TheRatchetClass EXCEPT !.sequences = <<0, 744>>, !.layouts = 744 :> Frames(<<784>>)],
   [TheRatchetClass EXCEPT !.parents = <<kRoot, 1>>], [TheRatchetClass EXCEPT !.parents = <<kRoot, kNoParent>>],
   [TheRatchetClass EXCEPT !.finite = FALSE]}

\* Addresses, joints and matrices the skinning program has no right to.
FirstPackets ==
  {[FirstPacket EXCEPT !.counts.vertices = 44, !.counts.end = 156],
   [FirstPacket EXCEPT !.transferTable = <<<<0, 3>>>>], [FirstPacket EXCEPT !.transferTable = <<<<0, 254>>>>],
   [FirstPacket EXCEPT !.transferTable = <<<<5, 0>>, <<1, 4>>>>],
   [FirstPacket EXCEPT !.rows[1].b6 = 3], [FirstPacket EXCEPT !.rows[1].low7 = 2],
   [FirstPacket EXCEPT !.rows[2].low7 = 3], [FirstPacket EXCEPT !.rows[2].low7 = 127],
   [FirstPacket EXCEPT !.rows[3].b3 = 2], [FirstPacket EXCEPT !.rows[3].b2 = 252],
   [FirstPacket EXCEPT !.rows[2].b7 = 24], [FirstPacket EXCEPT !.rows[1].b3 = 8],
   [FirstPacket EXCEPT !.rows[1].b3 = 12]}

MobyScenes ==
  {WithCrate(c) : c \in CrateClasses} \union {WithRatchet(c) : c \in RatchetClasses}
    \union {WithFirst(p) : p \in FirstPackets}
    \union {WithSecond([SecondPacket EXCEPT !.duplicates = <<5, 9>>]),
            WithSecond([SecondPacket EXCEPT !.rows[1].b2 = 28])}
    \union {Mobys(TheClasses, o) : o \in {<<0>>, <<1, 2>>, <<0, 0>>, <<1, 0, 1>>, <<0, 9>>, <<3, 0>>}}
    \union {Mobys(<<TheRatchetClass, Crate, Trigger, MobyClass(0, 2, <<>>, 0, <<>>)>>, <<0, 1, 2>>),
            [TheMobys EXCEPT !.table.at = 400], [TheMobys EXCEPT !.block.at = -1],
            [TheMobys EXCEPT !.block.at = 0], [TheMobys EXCEPT !.block.at = 1010],
            [TheMobys EXCEPT !.block.at = 700], [TheMobys EXCEPT !.block.instances[2].finite = FALSE],
            [TheMobys EXCEPT !.bank.at = 0], [TheMobys EXCEPT !.bank.at = 496]}
    \union {[TheMobys EXCEPT !.bank.pointers = pointers] : pointers \in
              {<<3200>>, <<3200, 3284>>, <<3200, 4080>>, <<3280, 3200>>, <<3200, 3216>>, <<3200, 3232>>}}
    \union {[TheMobys EXCEPT !.bank.layouts = 3200 :> Frames(frames)] : frames \in
              {<<32, 48>>, <<48, 80>>, <<48, 56>>, <<64, 48>>, <<48, 64>>}}

\* Packets of a frame of two joints; the second moves one of them.
Still ==
  [bytes |-> 32, payload |-> 1, stream1 |-> [at |-> 16, count |-> 0], stream2 |-> [at |-> 16, count |-> 0],
   compressed |-> <<>>, moved |-> <<>>, unit |-> TRUE, palette |-> TRUE, vertices |-> TRUE]
Moving ==
  [Still EXCEPT !.bytes = 48, !.payload = 2, !.stream1.count = 1, !.stream2 = [at |-> 24, count |-> 1],
     !.moved = <<1>>]

MCPoses ==
  {<<Still, Moving>>}
    \union {<<Moving, packet>> : packet \in
              {[Still EXCEPT !.bytes = 15], [Still EXCEPT !.payload = 2], [Still EXCEPT !.payload = 0],
               [Moving EXCEPT !.stream1.at = 24], [Moving EXCEPT !.stream2.at = 32],
               [Moving EXCEPT !.bytes = 64, !.payload = 3], [Moving EXCEPT !.moved = <<2>>],
               [Moving EXCEPT !.compressed = <<<<TRUE, 1>>>>], [Moving EXCEPT !.compressed = <<<<TRUE, 2>>>>],
               [Still EXCEPT !.unit = FALSE], [Still EXCEPT !.palette = FALSE], [Still EXCEPT !.vertices = FALSE]}}

TheLevel ==
  [present |-> TRUE, file |-> TheFile, base |-> 3900, textures |-> TheTextures, terrainAt |-> 0,
   terrain |-> TheTerrain, static |-> TheScene, wadPresent |-> TRUE, wadWhole |-> TRUE,
   wad |-> TheWad, mobys |-> TheMobys]

MCLevelInputs ==
  {TheLevel, [TheLevel EXCEPT !.present = FALSE], [TheLevel EXCEPT !.wadPresent = FALSE],
   [TheLevel EXCEPT !.wadWhole = FALSE], [TheLevel EXCEPT !.base = 4097],
   [TheLevel EXCEPT !.terrainAt = 4090]}
    \union {[TheLevel EXCEPT !.file = f] : f \in Files}
    \union {[TheLevel EXCEPT !.textures = t] : t \in TextureTables}
    \union {[TheLevel EXCEPT !.terrain = t] : t \in Terrains}
    \union {[TheLevel EXCEPT !.static = s] : s \in Scenes}
    \union {[TheLevel EXCEPT !.wad = w] : w \in Wads}
    \union {[TheLevel EXCEPT !.mobys = m] : m \in MobyScenes}

\* Everything the GPU may refuse, of a level that is whole.
MCLoads ==
  {<<level, {}>> : level \in MCLevelInputs}
    \union {<<TheLevel, {fault}>> : fault \in {"tfrag", "tie", "shrub", "sky", "moby", "mesh"}}

----------------------------------------------------------------------------
TheOctant == [at |-> 48, units |-> 2, vertices |-> 3, quads |-> 1,
              faces |-> <<<<0, 1, 2, 2>>, <<0, 1, 2>>>>]
CellsOf(o) == [at |-> 16, cells |-> <<EmptyCell, [at |-> 24, cells |-> <<o>>]>>]
Axis(at, o) == [at |-> at, cells |-> <<CellsOf(o), EmptyCell>>]
TheGroup == [data |-> 32, vertices |-> 3, faces |-> <<<<0, 1, 2>>>>]
TheCollision ==
  [offset |-> 0, mesh |-> 16, hero |-> 200, axis |-> Axis(0, TheOctant), groups |-> <<TheGroup>>]

MCCollisionInputs ==
  {<<300, c>> : c \in
    {TheCollision, [TheCollision EXCEPT !.hero = 0], [TheCollision EXCEPT !.offset = 296],
     [TheCollision EXCEPT !.mesh = -1], [TheCollision EXCEPT !.mesh = 297],
     [TheCollision EXCEPT !.hero = 290], [TheCollision EXCEPT !.hero = 284],
     [TheCollision EXCEPT !.groups[1].data = 80], [TheCollision EXCEPT !.groups[1].vertices = 2],
     [TheCollision EXCEPT !.axis = Axis(282, TheOctant)],
     [TheCollision EXCEPT !.axis.cells = <<EmptyCell>>, !.hero = 0]}
     \union {[TheCollision EXCEPT !.axis = Axis(0, o)] : o \in
              {[TheOctant EXCEPT !.at = 0], [TheOctant EXCEPT !.units = 3],
               [TheOctant EXCEPT !.quads = 3], [TheOctant EXCEPT !.vertices = 2],
               [TheOctant EXCEPT !.at = 270], [TheOctant EXCEPT !.vertices = 200]}}}
=============================================================================
