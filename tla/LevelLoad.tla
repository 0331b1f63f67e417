----------------------------- MODULE LevelLoad -----------------------------
(***************************************************************************)
(* Rac1RuntimeRenderer: loadLevel, unload, what is drawn and Ratchet's     *)
(* skin.  One call decodes a whole level on the render thread, so it is    *)
(* one step; the GPU may refuse any set of textures, or a mesh.  A level   *)
(* is a record of                                                          *)
(*   present, file       - its LevelContainer file                         *)
(*   base                - where textures begin in the core                *)
(*   textures            - tfrag, tie, shrub and moby tables               *)
(*   terrainAt, terrain, static - TerrainMesh and StaticScene inputs       *)
(*   wadPresent, wadWhole, wad  - the runtime WAD the sky comes from       *)
(*   mobys               - a MobyMesh scene, and Ratchet's sequence bank   *)
(***************************************************************************)
EXTENDS LevelContainer, TerrainMesh, SkyMesh, RenderParity, MobyPose

CONSTANTS
  Loads,       \* <<level, what the GPU refuses while it is loaded>>
  Poses        \* <<packet, packet>>: the ends of a live pose

IsLevel(level) ==
  /\ IsFile(level.file) /\ {level.base, level.terrainAt} \subseteq Nat
  /\ \A kind \in {"tfrag", "tie", "shrub", "moby"} : IsTextureTable(level.textures[kind])
  /\ IsTerrain(level.terrain) /\ IsScene(level.static)
  /\ IsWad(level.wad) /\ IsMobyScene(level.mobys)

ASSUME LoadsAssumption ==
  \A load \in Loads :
    IsLevel(load[1]) /\ load[2] \subseteq {"tfrag", "tie", "shrub", "sky", "moby", "mesh"}

ASSUME PosesAssumption == \A pose \in Poses : IsFrame(pose[1]) /\ IsFrame(pose[2])

VARIABLES
  renderer,    \* Rac1RuntimeRenderer
  request,     \* the last call: <<level, what the GPU refused, reads made>>
  skin         \* the last pose applied: <<status, refused by the GPU, reads made>>

loadVars == <<renderer, request, skin>>

EmptyGpu == [textures |-> <<>>, terrain |-> <<>>, static |-> <<>>, sky |-> <<>>]

NoRatchet == [class |-> <<>>, skinVertices |-> 0]

\* unload
Unloaded ==
  [status |-> "Uninitialized", overlay |-> <<>>, gpu |-> EmptyGpu, digest |-> <<>>,
   topology |-> <<>>, ratchet |-> NoRatchet, live |-> <<>>, liveReady |-> FALSE,
   classes |-> {}, shells |-> <<>>]

NoRequest == <<>>
NoSkin == <<>>

----------------------------------------------------------------------------
(* Decoding, up to the sky.                                                *)
Core(level) == level.file.coreWad.bytes
CoreIndex(level) == level.file.coreIndex[2]
Gameplay(level) == level.file.gameplayWad.bytes
TextureCount(level, kind) == Len(level.textures[kind].entries)

LevelTextureSteps(level, kind) ==
  Within("TextureDecodeFailed",
    TextureSteps(Core(level), CoreIndex(level), level.file.gsRam[2], level.textures[kind], level.base))

AllTextureSteps(level) ==
  ForEach(<<LevelTextureSteps(level, "tfrag"), LevelTextureSteps(level, "tie"),
            LevelTextureSteps(level, "shrub"), LevelTextureSteps(level, "moby")>>)

WorldSteps(level) ==
  Then(Within("TerrainDecodeFailed",
         TerrainSteps(Core(level), level.terrainAt, TextureCount(level, "tfrag"), level.terrain)),
       Within("StaticSceneDecodeFailed",
         StaticSteps(Core(level), CoreIndex(level), Gameplay(level), level.static,
                     TextureCount(level, "tie"), TextureCount(level, "shrub"))))

\* The textures each kind of batch is drawn with.
BatchTextures(level) ==
  [terrain |-> level.textures["tfrag"].entries, tie |-> level.textures["tie"].entries,
   shrub |-> level.textures["shrub"].entries, sky |-> level.wad.textures]

\* What the decoders made of it.
World(level) ==
  [terrain |-> TerrainBatches(level.terrain),
   static |-> StaticBatches(level.static, TextureCount(level, "shrub")),
   sky |-> SkyBatches(level.wad), shells |-> SkyIdentities(level.wad)]

ParityCheck(world, textures) ==
  Within("StaticWorldParityInvalid", ParitySteps(world.terrain, world.static, textures))

\* readRuntimeWadAsset, the decompressor and the two sky decoders.
RuntimeSkySteps(level) ==
  <<Require("RuntimeSkyAssetMissing", level.wadPresent, {}),
    Require("RuntimeSkyAssetInvalid", level.wadWhole, {}),
    Require("RuntimeSkyDecompressionFailed", level.wad.bytes # 0, {})>>
  \o Then(Within("RuntimeSkySourceInvalid", LocateSteps(level.wad)),
          Within("SkyDecodeFailed", SkySteps(level.wad)))

----------------------------------------------------------------------------
(* Mobys: every class of the table is drawn, invisible on purpose, or only *)
(* a class; class 0 is Ratchet, drawn once and skinned every frame.        *)
Meshes(level) == MobyMeshes(Core(level), level.mobys, TextureCount(level, "moby"))

SceneSteps(level, meshes) ==
  Within("MobySceneDecodeFailed",
    MobySceneSteps(CoreIndex(level), Gameplay(level), level.mobys, meshes))

Scene(level) == MobyScene(level.mobys, Meshes(level))

Rendered(scene) == {r.oClass : r \in Range(scene.rendered)}
Skipped(scene) == {s[1] : s \in scene.skipped}

ClassKind(scene, oClass) ==
  IF oClass \in Rendered(scene) THEN "RenderableTopology"
  ELSE IF oClass \in Skipped(scene) THEN "IntentionallyInvisible" ELSE "ClassOnly"

CountOf(scene, catalog, kind) == Cardinality({c \in catalog : ClassKind(scene, c) = kind})

AccountingSteps(level, scene) ==
  Within("MobyClassCatalogFailed", CatalogSteps(CoreIndex(level), level.mobys.table))
    \o <<Require("MobyClassAccountingInvalid",
                 /\ Rendered(scene) \cap Skipped(scene) \cap Catalog(level.mobys.table) = {}
                 /\ Rendered(scene) \union Skipped(scene) \subseteq Catalog(level.mobys.table), {})>>

RatchetClass(level) == AnimationClass(ClassOf(level.mobys.table, 0))

RigAndBankSteps(level) ==
  LET bank == level.mobys.bank
      referenced == {i.oClass : i \in Range(Instances(level.mobys.block))}
      base == Then(Within("MobyAnimationMetadataFailed",
                     AnimationSteps(Core(level), CoreIndex(level), Gameplay(level), level.mobys)),
                   <<Require("RatchetTopologyInvalid", 0 \in referenced, {})>>)
  IN Then(base,
     Then(Within("RatchetAnimationBankFailed",
            BankSteps(Core(level), CoreIndex(level), RatchetClass(level), bank)),
          <<Require("RatchetTopologyInvalid", HasMesh(RatchetClass(level)) /\ bank.at # 0, {})>>))

Ratchets(scene) ==
  Select(scene.rendered, {r \in DOMAIN scene.rendered : scene.rendered[r].oClass = 0})
TheRatchet(scene) == Ratchets(scene)[1]

\* nativeSkinnedMobyVertexMatches; the corners of a triangle are of one instance.
IsOf(t, instance) == t.oClass = instance.oClass /\ t.instance = instance.instance

\* The batches left when only Ratchet's triangles are kept.
RatchetTopology(scene) ==
  LET own(batch) ==
        [material |-> batch.material,
         triangles |-> Select(batch.triangles,
           {t \in DOMAIN batch.triangles : IsOf(batch.triangles[t], TheRatchet(scene))})]
      kept == [i \in DOMAIN scene.batches |-> own(scene.batches[i])]
  IN Select(kept, {i \in DOMAIN kept : kept[i].triangles # <<>>})

TopologySteps(level, scene) ==
  LET invalid == "RatchetTopologyInvalid"
      skinVertices == TheRatchet(scene).skinVertices
      corners == UNION {Range(SkinIndexes(b)) : b \in Range(RatchetTopology(scene))}
  IN Then(<<Require(invalid, Len(Ratchets(scene)) = 1, {})>>,
          <<Require(invalid, skinVertices = SkinVertices(RatchetClass(level)), {}),
            Require(invalid, \A v \in corners : v < skinVertices, {}),
            Require(invalid, RatchetTopology(scene) # <<>>, {})>>)

MobySteps(level, meshes, scene) ==
  Then(SceneSteps(level, meshes),
  Then(AccountingSteps(level, scene),
  Then(RigAndBankSteps(level), TopologySteps(level, scene))))

----------------------------------------------------------------------------
LevelSteps(level, meshes, scene) ==
  Then(<<Require("LevelFileMissing", level.present, {})>>
         \o Within("LevelLoadFailed", LevelCoreSteps(level.file)),
  Then(AllTextureSteps(level),
  Then(WorldSteps(level),
  Then(ParityCheck(World(level), BatchTextures(level)),
  Then(RuntimeSkySteps(level), MobySteps(level, meshes, scene))))))

\* The overlay is kept as soon as the level core is loaded, whatever follows.
OverlayKept(level) ==
  IF level.present /\ Outcome(LevelCoreSteps(level.file)) = "Ok"
  THEN OverlaySegments(level.file) ELSE <<>>

\* Uploading, in order: textures, terrain, static batches, sky shells.
IdentitiesMatch(level, world) == Len(world.shells) = level.wad.shellCount

UploadStatus(level, refused, world, textures) ==
  LET uploadable(batches) ==
        batches = <<>> \/ ("mesh" \notin refused /\ \A b \in Range(batches) : BatchIsUploadable(b, textures))
      textureRefused(kind) ==
        kind \in refused /\ (IF kind = "sky" THEN level.wad.textures ELSE level.textures[kind].entries) # <<>>
  IN IF \E kind \in {"tfrag", "tie", "shrub", "sky", "moby"} : textureRefused(kind)
     THEN "GpuUploadFailed"
     ELSE IF ~uploadable(world.terrain) \/ ~uploadable(world.static)
     THEN "GpuUploadFailed"
     ELSE IF ~IdentitiesMatch(level, world) \/ \E b \in Range(world.sky) : b.shell >= level.wad.shellCount
     THEN "SkyDecodeFailed"
     ELSE IF ~uploadable(world.sky) THEN "GpuUploadFailed" ELSE "Ok"

\* The summary's zero counts and cross-checks, after everything is uploaded.
SummaryStatus(level, world, scene) ==
  LET catalog == Catalog(level.mobys.table)
      kinds == {"RenderableTopology", "IntentionallyInvisible", "ClassOnly"}
  IN IF \/ world.sky = <<>> \/ catalog = {} \/ TheRatchet(scene).skinVertices = 0
        \/ Cardinality(catalog) # Len(level.mobys.table.classes)
        \/ CountOf(scene, catalog, "RenderableTopology") # scene.renderableClasses
        \/ CountOf(scene, catalog, "IntentionallyInvisible") # Cardinality(scene.skipped)
        \/ MapThenSumSet(LAMBDA kind : CountOf(scene, catalog, kind), kinds) # Cardinality(catalog)
     THEN "RatchetTopologyInvalid"
     ELSE IF ClassKind(scene, 0) # "RenderableTopology" THEN "MobyClassAccountingInvalid" ELSE "Ok"

Loaded(level, world, scene, textures) ==
  [status |-> "Ok", overlay |-> OverlayKept(level),
   gpu |-> [textures |-> [kind \in {"tfrag", "tie", "shrub", "moby"} |-> TextureCount(level, kind)],
            terrain |-> UploadedBatches(world.terrain, textures),
            static |-> UploadedBatches(world.static, textures),
            sky |-> UploadedBatches(world.sky, textures)],
   digest |-> DigestOrder(world.terrain, textures) \o DigestOrder(world.static, textures),
   topology |-> RatchetTopology(scene), live |-> <<>>, liveReady |-> FALSE,
   ratchet |-> [class |-> RatchetClass(level), skinVertices |-> TheRatchet(scene).skinVertices],
   classes |-> {<<c, ClassKind(scene, c)>> : c \in Catalog(level.mobys.table)},
   shells |-> world.shells]

\* Mistake: a level that is refused while it is uploaded is not unloaded.
LeftHalfUploaded(level, refused, decoded, world, scene, textures) ==
  IF decoded # "Ok" THEN [Unloaded EXCEPT !.status = decoded]
  ELSE [Loaded(level, world, scene, textures) EXCEPT !.status = UploadStatus(level, refused, world, textures)]

\* A level that is refused after uploading began is unloaded again, but for a
\* sky without its identities; before, there is only its overlay to keep.
LoadResult(level, refused, decoded, world, scene, textures) ==
  LET upload == UploadStatus(level, refused, world, textures)
      summary == SummaryStatus(level, world, scene)
  IN IF decoded # "Ok" THEN [Unloaded EXCEPT !.status = decoded, !.overlay = OverlayKept(level)]
     ELSE IF upload = "SkyDecodeFailed" /\ ~IdentitiesMatch(level, world)
     THEN [Loaded(level, world, scene, textures) EXCEPT !.status = upload, !.gpu.sky = <<>>,
             !.digest = <<>>, !.topology = <<>>, !.ratchet = NoRatchet, !.classes = {}, !.shells = <<>>]
     ELSE IF upload # "Ok" THEN [Unloaded EXCEPT !.status = upload]
     ELSE IF summary # "Ok" THEN [Unloaded EXCEPT !.status = summary]
     ELSE Loaded(level, world, scene, textures)

Load(level, refused, scene, steps) ==
  [renderer |-> LoadResult(level, refused, Outcome(steps), World(level), scene, BatchTextures(level)),
   request |-> <<level, refused, ReadsOf(steps)>>]

LoadScene(level, refused, meshes, scene) ==
  Load(level, refused, scene, LevelSteps(level, meshes, scene))

LoadMeshes(level, refused, meshes) ==
  LoadScene(level, refused, meshes, MobyScene(level.mobys, meshes))

LoadLevel ==
  \E load \in {LoadMeshes(l[1], l[2], Meshes(l[1])) : l \in Loads} :
    /\ renderer' = load.renderer
    /\ request' = load.request
    /\ skin' = NoSkin

----------------------------------------------------------------------------
(* prepareLiveRatchetFrame and applyLiveRatchetFrame, for two packets that *)
(* LiveAnimation selected: the first pose that can be skinned is uploaded, *)
(* later ones are written over it.                                         *)
PrepareSteps(r, a, b) ==
  Then(Within("PoseDecodeFailed", PoseSteps(r.ratchet.class, a, b)),
  Then(Within("SkinExecutionFailed", SkinSteps(r.ratchet.class, a, b)),
       <<Require("SkinVertexCountMismatch", SkinVertices(r.ratchet.class) = r.ratchet.skinVertices, {})>>))

ApplySteps(r, refused) ==
  LET executed == SkinVertices(r.ratchet.class) IN
  IF r.live = <<>>
  THEN ForEach([i \in DOMAIN r.topology |->
                  SkinBatchSteps(r.topology[i], r.gpu.textures["moby"], executed)])
         \o <<Require("GpuUploadFailed", ~refused, {})>>
  ELSE ForEach([i \in DOMAIN r.live |-> UpdateSteps(r.live[i], executed)])

Skinned(r, prepared, status) ==
  IF prepared # "Ok" THEN r
  ELSE IF status # "Ok" THEN [r EXCEPT !.liveReady = FALSE]
  ELSE [r EXCEPT !.liveReady = TRUE,
          !.live = IF @ = <<>> THEN [i \in DOMAIN r.topology |-> SkinIndexes(r.topology[i])] ELSE @]

Apply(r, refused, prepared, steps) ==
  [renderer |-> Skinned(r, Outcome(prepared), Outcome(steps)),
   skin |-> <<Outcome(steps), refused, ReadsOf(steps)>>]

SkinRatchet ==
  /\ renderer.status = "Ok" /\ renderer.topology # <<>>
  /\ \E pose \in Poses : \E refused \in BOOLEAN :
       LET prepared == PrepareSteps(renderer, pose[1], pose[2]) IN
       \E applied \in {Apply(renderer, refused, prepared, Then(prepared, ApplySteps(renderer, refused)))} :
         /\ renderer' = applied.renderer
         /\ skin' = applied.skin
  /\ UNCHANGED request

LoadInit == renderer = Unloaded /\ request = NoRequest /\ skin = NoSkin

LoadNext == LoadLevel \/ SkinRatchet

LoadSpec == LoadInit /\ [][LoadNext]_loadVars

----------------------------------------------------------------------------
(* Whatever the loader and the decoders read, on the way to acceptance or  *)
(* to the check that refuses the level, is inside the file, buffer, table  *)
(* or vector they read it from; so is what posing and skinning read.       *)
LevelReadsStayInRange ==
  LET reads == (IF request = NoRequest THEN {} ELSE request[3])
                 \union (IF skin = NoSkin THEN {} ELSE skin[3])
  IN \A read \in reads : read[1][1] >= 0 /\ RangeFits(read[1], read[2])

(* A renderer that is ready has all of the level on the GPU and draws it   *)
(* in the order its parity digest says, with a Ratchet to skin; one that   *)
(* is not has nothing on it.  The mesh and the animation decoder find the  *)
(* same vertices in Ratchet's class, so every pose that executes skins all *)
(* of it and no index of it is wrong: only the GPU refuses an upload, and  *)
(* then the pose is not ready to be drawn.                                 *)
LoadedLevelIsWhole ==
  request # NoRequest =>
  LET world == World(request[1]) IN
     /\ renderer.status = "Ok" =>
          /\ renderer.digest = DrawOrder(renderer.gpu.terrain) \o DrawOrder(renderer.gpu.static)
          /\ Len(renderer.gpu.terrain \o renderer.gpu.static) = Len(world.terrain \o world.static)
          /\ \A b \in Range(renderer.gpu.sky) : b.shell < Len(renderer.shells)
          /\ renderer.topology # <<>> /\ <<0, "RenderableTopology">> \in renderer.classes
     /\ renderer.status # "Ok" => renderer.gpu = EmptyGpu
     /\ renderer.liveReady => renderer.live # <<>> /\ Len(renderer.live) = Len(renderer.topology)
     /\ skin # NoSkin =>
          /\ skin[1] # "SkinVertexCountMismatch"
          /\ skin[1] = "GpuUploadFailed" => skin[2] /\ ~renderer.liveReady

(* What the decoders accept its consumers take: the digest refuses only a  *)
(* world that is empty or not finite, uploading fails only when the GPU    *)
(* does, and no sky loses its shells on the way.  Mobys always add up, and *)
(* a level whose one Ratchet can be seen and that has a sky is not refused *)
(* for its topology.                                                       *)
RefusalsHaveTheirCause ==
  request # NoRequest =>
  LET level == request[1]
      world == World(level)
  IN /\ renderer.status = "StaticWorldParityInvalid" =>
          \/ world.terrain = <<>> \/ world.static = <<>>
          \/ \E b \in Range(world.terrain \o world.static) : ~b.finite
     /\ renderer.status = "GpuUploadFailed" => request[2] # {}
     /\ renderer.status = "SkyDecodeFailed" => Outcome(SkySteps(level.wad)) # "Ok"
     /\ renderer.status # "MobyClassAccountingInvalid"
     /\ renderer.status = "RatchetTopologyInvalid" =>
          Len(Ratchets(Scene(level))) # 1 \/ world.sky = <<>>
=============================================================================
