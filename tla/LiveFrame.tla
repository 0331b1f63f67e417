------------------------------ MODULE LiveFrame ------------------------------
(***************************************************************************)
(* One presented frame after another: the guest writes its memory a field  *)
(* at a time, the host reads all of it inside one GuestExecutionScope,     *)
(* loads the mapped level, uploads Ratchet's pose, draws and accounts for  *)
(* what it drew.  Only the inspection excludes the guest.                  *)
(***************************************************************************)
EXTENDS RenderBridge

CONSTANTS
  StartMemories,     \* guest memory when the presentation starts
  MobyWrites,        \* <<slot, field, value>> the guest may write to a moby
  GlobalWrites,      \* <<field, value>> the guest may write elsewhere
  MaxWrites,         \* bound on those writes
  Catalogs,          \* what a successful loadLevel may leave in the renderer
  DiagnosticPeriod   \* frames between diagnostic ticks; 60 in the code

\* loadLevel requires the class of Ratchet and a sky.
ASSUME LiveFrameAssumption ==
  /\ MaxWrites \in Nat /\ DiagnosticPeriod \in Nat \ {0}
  /\ \A c \in Catalogs :
       /\ c.ready = TRUE
       /\ 0 \in DOMAIN c.classes /\ c.classes[0] = "RenderableTopology"
       /\ c.classes \in [DOMAIN c.classes -> Kinds]
       /\ c.shells # <<>> /\ c.shells \in Seq([offset : Nat, clusters : Nat, flags : Nat])

----------------------------------------------------------------------------
(* Guest memory: whatever the guest writes to a field, the inspectors read *)
(* a number of that field's width.                                         *)
Endpoints == [sequence : Nat, frame : Nat, pointer : Nat]

MobyOK(moby) ==
  /\ {"state", "oClass", "a", "b"} \subseteq DOMAIN moby
  /\ moby.state \in Int /\ moby.oClass \in Int /\ moby.a \in Endpoints /\ moby.b \in Endpoints

PacketsOK(packets) == \A p \in 0 .. RamSize - 1 : packets[p].payload \in Nat
SkiesOK(skies) == \A p \in 0 .. RamSize - 1 : skies[p].count \in Int

MemoryOK(m) ==
  /\ {"base", "moby", "packet", "sky", "skyPointer"} \subseteq DOMAIN m
  /\ m.base \in Nat /\ m.skyPointer \in Nat
  /\ DOMAIN m.moby = Slot /\ \A s \in Slot : MobyOK(m.moby[s])
  /\ PacketsOK(m.packet) /\ SkiesOK(m.sky)

ASSUME GuestMemoryAssumption ==
  /\ \A m \in StartMemories : MemoryOK(m)
  /\ \A w \in MobyWrites :
       /\ w[1] \in Slot
       /\ w[2] \in {"state", "oClass"} => w[3] \in Int
       /\ w[2] \in {"a", "b"} => w[3] \in Endpoints
  /\ \A w \in GlobalWrites :
       /\ w[1] # "moby"
       /\ w[1] \in {"base", "skyPointer"} => w[2] \in Nat
       /\ w[1] = "packet" => PacketsOK(w[2])
       /\ w[1] = "sky" => SkiesOK(w[2])

VARIABLES
  mem, writes,       \* guest memory
  requested,         \* requestedNativeLevel >= 0
  attempted,         \* the mapped level was handed to loadLevel
  catalog,           \* the renderer
  gpuReady,          \* liveRatchetGpuReady_
  native,            \* presentationOwnership is NativeGameplay
  tick,              \* liveMobyPresentationCount modulo the period
  phase,             \* "idle", "inspected", "loaded"
  snap,              \* the live snapshots of the frame
  control,           \* liveRatchetControlState
  drawn,             \* what the last frame drew
  report             \* its accounting

guestVars == <<mem, writes, requested>>
hostVars == <<attempted, catalog, gpuReady, native, tick, phase, snap, control, drawn, report>>
liveVars == <<guestVars, hostVars>>

NoReport == [ok |-> TRUE]
NothingDrawn == [scene |-> FALSE, sky |-> <<>>, ratchet |-> FALSE]
NoSnapshot == [pool |-> "none"]

----------------------------------------------------------------------------
(* The guest.                                                              *)
WriteMoby ==
  \E w \in MobyWrites :
    /\ mem.moby[w[1]][w[2]] # w[3]
    /\ mem' = [mem EXCEPT !.moby[w[1]][w[2]] = w[3]]

WriteGlobal ==
  \E w \in GlobalWrites :
    /\ mem[w[1]] # w[2]
    /\ mem' = [mem EXCEPT ![w[1]] = w[2]]

GuestWrite ==
  /\ writes < MaxWrites /\ writes' = writes + 1
  /\ WriteMoby \/ WriteGlobal
  /\ UNCHANGED <<requested, hostVars>>

\* nativeLevelForRetailAssetRead recognised Level 0's WAD: the only one it knows.
MapLevel ==
  /\ ~requested /\ requested' = TRUE
  /\ UNCHANGED <<mem, writes, hostVars>>

----------------------------------------------------------------------------
(* inspectLiveMobyState.                                                   *)
DiagnosticTick == tick = 0

SnapshotOf(pool, transformPool) ==
  LET animation == Animation(mem, pool)
      transform == Transform(transformPool)
  IN [pool |-> pool, registry |-> ClassRegistry(mem, pool),
      animation |-> animation, transform |-> transform,
      camera |-> CameraStatus(mem), sky |-> Sky(mem),
      frame |-> FrameStatus(mem, catalog, animation, transform)]

InspectWith(taken) ==
  /\ phase = "idle" /\ phase' = "inspected"
  /\ tick' = (tick + 1) % DiagnosticPeriod
  /\ snap' = taken
  /\ control' = IF DiagnosticTick THEN ControlState(mem, Pool(mem)) ELSE control
  /\ drawn' = NothingDrawn /\ report' = NoReport
  /\ UNCHANGED <<guestVars, attempted, catalog, gpuReady, native>>

\* Mistake: the transform comes from the pool of the frame before.
InspectTorn ==
  InspectWith(SnapshotOf(Pool(mem), IF snap = NoSnapshot THEN Pool(mem) ELSE snap.pool))

Inspect == InspectWith(SnapshotOf(Pool(mem), Pool(mem)))

(* ensureMappedLevelLoaded: one attempt for the one mapped level.          *)
EnsureMappedLevelLoaded ==
  /\ phase = "inspected" /\ phase' = "loaded"
  /\ IF requested /\ ~attempted
     THEN attempted' = TRUE /\ gpuReady' = FALSE /\ catalog' \in Catalogs \cup {NoCatalog}
     ELSE UNCHANGED <<attempted, gpuReady, catalog>>
  /\ UNCHANGED <<guestVars, native, tick, snap, control, drawn, report>>

----------------------------------------------------------------------------
(* applyLiveRatchetFrame.  An upload may fail.                             *)
ApplyUnchecked ==    \* Mistake: a frame is uploaded without looking at it or the renderer.
  {"Ok", "GpuUploadFailed"}

ApplyStatuses ==
  IF snap.frame # "Ok" THEN {"FrameNotMaterialized"}
  ELSE IF ~catalog.ready \/ snap.animation.moby = 0 THEN {"LevelMismatch"}
  ELSE {"Ok", "GpuUploadFailed"}

GpuReadyAfter(applied) ==
  IF applied \in {"FrameNotMaterialized", "LevelMismatch"} THEN gpuReady ELSE applied = "Ok"

(* logNativeRenderAccounting.                                              *)
One(condition) == IF condition THEN 1 ELSE 0

SceneReport(scene) ==
  [mapped |-> One(requested), rendered |-> One(scene),
   deferred |-> IF scene /\ ~requested THEN 0 ELSE One(requested) - One(scene),
   unaccounted |-> One(scene /\ ~requested)]

SkyReport(scene) ==
  LET map == SkyMap(catalog.shells, snap.sky)
      rendered == One(scene /\ map.materialized = 1)
      ordered == map.materialized <= map.mapped /\ rendered <= map.materialized
  IN [mapped |-> map.mapped, rendered |-> rendered, status |-> map.status,
      deferred |-> IF ordered THEN map.mapped - rendered ELSE 0,
      unaccounted |-> (IF catalog.ready THEN map.unaccounted ELSE 0) + One(~ordered)]

MobyReport(scene, applied) ==
  LET map == ClassMap(snap.pool, snap.registry, catalog)
      required == catalog.ready /\ snap.pool.status = "Ok"
      materialized == One(applied = "Ok" /\ snap.frame = "Ok")
      rendered == One(scene /\ materialized = 1 /\ GpuReadyAfter(applied))
      ordered == materialized <= map.mapped /\ rendered <= materialized
  IN [map |-> map, mapped |-> map.mapped, rendered |-> rendered, ordered |-> ordered,
      deferred |-> IF ordered THEN map.mapped - rendered ELSE 0,
      unaccounted |-> (IF required THEN map.unaccounted ELSE 0) + One(~ordered),
      healthy |-> ~required \/ map.status = "Ok"]

PoolUnaccounted ==
  IF snap.pool.status # "Ok" THEN 0
  ELSE LET accounted == snap.pool.traversed + snap.pool.skipped
           slots == snap.pool.slotsBeforeTerminator
       IN IF slots >= accounted THEN slots - accounted ELSE accounted - slots

Identity == IdentityStatus(catalog.ready, snap.animation, snap.transform)

Report(scene, applied) ==
  LET sky == SkyReport(scene)
      moby == MobyReport(scene, applied)
  IN [scene |-> SceneReport(scene), sky |-> sky, moby |-> moby, identity |-> Identity,
      applied |-> applied,
      ok |-> /\ SceneReport(scene).unaccounted = 0 /\ sky.unaccounted = 0
             /\ moby.unaccounted = 0 /\ PoolUnaccounted = 0 /\ moby.healthy
             /\ Identity \notin {"MobyAddressMismatch", "OClassMismatch"}
             /\ snap.frame \in {"RendererNotReady", "IdentityNotMapped",
                                "AnimationNotMaterialized", "TransformNotMaterialized", "Ok"}
             /\ applied \in {"FrameNotMaterialized", "Ok"}]

(* The rest of presentNativeFrame, drawNativeWorldWithRetailCamera         *)
(* included.  level0 is whether the Level-0 generation is active now.      *)
DrawFrame ==
  /\ phase = "loaded" /\ phase' = "idle"
  /\ \E applied \in ApplyStatuses, level0 \in BOOLEAN :
       LET scene == catalog.ready /\ snap.camera = "Ok" IN
       /\ gpuReady' = GpuReadyAfter(applied)
       /\ native' = (native \/ (level0 /\ requested /\ scene))
       /\ IF native'
          THEN /\ drawn' = [scene |-> scene,
                            sky |-> IF scene /\ SkyMap(catalog.shells, snap.sky).materialized = 1
                                    THEN snap.sky.shells ELSE <<>>,
                            ratchet |-> scene /\ gpuReady']
               /\ report' = Report(scene, applied)
          ELSE UNCHANGED <<drawn, report>>
  /\ UNCHANGED <<guestVars, attempted, catalog, tick, snap, control>>

----------------------------------------------------------------------------
LiveInit ==
  /\ mem \in StartMemories /\ writes = 0 /\ requested = FALSE
  /\ attempted = FALSE /\ catalog = NoCatalog /\ gpuReady = FALSE /\ native = FALSE
  /\ tick = 0 /\ phase = "idle" /\ snap = NoSnapshot
  /\ control = [status |-> "PoolUnavailable", ratchet |-> 0]
  /\ drawn = NothingDrawn /\ report = NoReport

LiveNext == GuestWrite \/ MapLevel \/ Inspect \/ EnsureMappedLevelLoaded \/ DrawFrame

LiveSpec == LiveInit /\ [][LiveNext]_liveVars

----------------------------------------------------------------------------
(* Type invariant.                                                         *)
LiveTypeOK ==
  /\ writes \in 0 .. MaxWrites /\ requested \in BOOLEAN /\ attempted \in BOOLEAN
  /\ catalog \in Catalogs \cup {NoCatalog} /\ gpuReady \in BOOLEAN /\ native \in BOOLEAN
  /\ tick \in 0 .. DiagnosticPeriod - 1 /\ phase \in {"idle", "inspected", "loaded"}
  /\ control.ratchet \in Nat
  /\ attempted => requested
  /\ gpuReady => catalog.ready
  /\ native => catalog.ready

(* The packets a pose is decoded from lie inside guest memory whatever the *)
(* guest was doing when it was stopped: a packet that is still its         *)
(* transition slot's does not reach into the next slot, a packet kept as a *)
(* class-local sequence's is the one that sequence's frame table names,    *)
(* and an external frame is one the native bank has.                       *)
PacketsInGuestMemory ==
  snap # NoSnapshot /\ snap.frame = "Ok" =>
    /\ snap.animation.external = Len(NativeBank)
    /\ \A e \in {snap.animation.a, snap.animation.b} :
         /\ e.observed # 0 /\ e.size > 0 /\ e.observed + e.size <= RamSize
         /\ e.kind = "TransitionCache" =>
              \E s \in 0 .. TransitionSlots - 1 :
                /\ e.observed = TransitionBase + s * TransitionSlotSize
                /\ e.observed + e.size <= TransitionBase + (s + 1) * TransitionSlotSize
         /\ e.kind = "SequenceFrame" => e.observed = e.expected
         /\ e.kind = "ExternalSequence" => e.frame < NativeBank[e.sequence + 1]

(* Pose, placement and lifecycle state are about one moby: three           *)
(* inspectors look for Ratchet on their own, and nothing the guest writes  *)
(* between two frames makes them disagree about the frame they are in.     *)
RatchetIdentityNeverTorn ==
  snap # NoSnapshot =>
    /\ IdentityStatus(TRUE, snap.animation, snap.transform)
         \notin {"MobyAddressMismatch", "OClassMismatch"}
    /\ snap.frame = "Ok" =>
         /\ snap.pool.ratchets = 1
         /\ {snap.animation.moby, snap.transform.moby} = {RatchetOf(snap.pool).address}
    /\ tick = 1 % DiagnosticPeriod /\ control.status = "Ok" =>
         control.ratchet = RatchetOf(snap.pool).address

(* The frame's accounting adds up, and says "accounting-error" exactly     *)
(* when something it saw is wrong: a live moby the retail registry does    *)
(* not confirm, a sky that is not the native one, a pose that cannot be    *)
(* decoded or uploaded.  Memory still being set up is deferred, not wrong. *)
AccountingBalances ==
  report # NoReport =>
    /\ \A part \in {report.scene, report.sky} : part.mapped = part.rendered + part.deferred
    /\ report.moby.ordered => report.moby.mapped = report.moby.rendered + report.moby.deferred
    /\ ~report.moby.ordered => report.moby.map.status = "RetailRegistryIdentityMismatch"
    /\ report.moby.map.status # "AccountingMismatch"
    /\ report.ok <=>
         /\ \A i \in DOMAIN snap.registry.entries : snap.registry.entries[i].status = "Ok"
         /\ report.sky.status \in {"Ok", "LiveTransformDeferred"}
         /\ snap.frame \notin {"PoseDecodeFailed", "SkinExecutionFailed"}
         /\ report.applied # "GpuUploadFailed"

(* The sky on the screen is the loaded level's: every live shell it was    *)
(* placed with is the native shell of the same place in the sky, and its   *)
(* translation was materialized.                                           *)
SkyDrawnIsLoadedSky ==
  drawn.sky # <<>> =>
    /\ Len(drawn.sky) = Len(catalog.shells)
    /\ \A i \in DOMAIN drawn.sky :
         /\ InRam(drawn.sky[i].at, 1)
         /\ drawn.sky[i].at - snap.sky.address = catalog.shells[i].offset
         /\ drawn.sky[i].clusters = catalog.shells[i].clusters
         /\ drawn.sky[i].flags = catalog.shells[i].flags
    /\ snap.sky.status = "Ok"
=============================================================================
