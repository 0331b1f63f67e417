# OpenRatchet in TLA+

OpenRatchet runs the statically recompiled PS2 program of a game natively: the
recompiled functions (PS2Recomp, a submodule) execute on a *guest thread* over
32 MiB of guest RAM, while the host replaces subsystems one by one with native
code. This directory holds TLA+ models of the parts where the two sides meet,
TLC configurations that check them on small instances, and TLAPS proofs about
the models for all values of their constants.

- [Inventory](#inventory)
- [Modules and the code they model](#modules-and-the-code-they-model)
- [Runs](#runs)
- [Fairness](#fairness)
- [Proofs](#proofs)
- [Disagreements between code and documentation](#disagreements-between-code-and-documentation)
- [Not modelled](#not-modelled)
- [Plan](#plan)

## Inventory

| Component (under `src/src/`) | State | Operations | What makes it hard | Correct means |
|---|---|---|---|---|
| Overlay dispatch manager (`game/rac1_overlay_aot_dispatch.*`) | saved boot owners, capture bits, bound table, active generation and ranges | `activate`, `deactivate` | overlapping generations, repeated and refused activations, slots changed behind its back | the boot owner saved is the one before the *first* overlay touch; deactivation restores every slot |
| Overlay materializer bridge (`game/rac1_overlay_aot_bridge.cpp`) | call counters, captured fallback, the manager, a mutex | the bridge around retail `0x12D8F8`, `inspectRac1OverlayAotRuntimeState` | code is overwritten record by record before the owners change; another thread inspects | a function is offered only while the bytes it was compiled from are resident |
| SIF RPC transport (`sif_rpc_transport.*`) | bindings (16), captured payloads (32), one live heap base | `recordBinding`, `recordOutboundPayload`, `resolveCall` | tables that fill up, rebinding, payloads matched by address | a bound client is routed to its service; the heap base is handed out once |
| SIF response bridge (`guest_overrides.cpp`, `sif_startup_responses.cpp`) | three flags, the resolver's flag | response dispatcher `0x11A948`, DMA capture `0x118B20`, IOP-ready poll `0x11CF10` | one shared response buffer, stale packets in guest memory, resets, head-of-line blocking | every answer goes to the client that waits for it; INIT answers are not overwritten |
| Presentation (`runtime/openratchet_runtime.cpp`, `render/rac1_presentation_ownership.cpp`) | requested level and WAD2 (two atomics), owner, attempted pair | initialize / per-frame / shutdown callbacks, asset-read observer | the guest changes everything between two steps of a frame | the screen goes to native gameplay once, for good, and only when it is earned |
| Frontend autopilot, native input (`game/rac1_frontend_autopilot.cpp`, `game/rac1_native_input.cpp`) | frame counter, one-way stop; published report | `step`, `publish` | Level 0 may come and go | no synthetic button after Level 0 has been seen |
| Runtime renderer (`render/rac1_runtime_renderer.cpp`) | load status, GPU-ready flag for the live Ratchet | `loadLevel`, `prepare`/`applyLiveRatchetFrame`, draw | frames that are not materialized, failed loads | what is drawn is what is accounted for |
| Native stash (`game/rac1_native_stash.cpp`) | 64 slots, next slot, a mutex | initialize, store, read, size | capacity, boundary ranges, sources overwritten after a store | bytes read are the bytes stored |
| Native VFS and I/O (`platform/native_vfs.cpp`, `game/native_io.cpp`) | catalogue of assets and levels; services pointer | initialize, `readSectors`, four guest sector reads, boot alias | files missing or short, requests that span files, overlapping level spans | a request is served exactly, or not at all |
| Replacement registry and startup (`runtime/native_replacements.cpp`, `game/native_replacements.cpp`, `OpenRatchetRuntime::initialize`) | replacements per stage, fallback storage, the function table, which parts of the runtime exist | `add`, `install`, `initialize`, `run`, destruction | order of stages, each step of initialization failing, an address declared twice | each fallback is the generated function |
| Platform / audio bootstrap (`game/native_platform_bootstrap.cpp`, `game/native_audio_bootstrap.cpp`) | 16 DBC link slots, log flags | a dozen HLE functions | exhaustion, re-initialization | a link is handed out once |
| Native asset selection, WAD decompressor (`game/native_assets.cpp`, `assets/wad_decompressor.cpp`) | none outside the call; writes guest memory | the replacement of retail `0x20B618` | input and output overlap in guest memory, matches overlap themselves, output at the end of RAM | what is written is what the packets stand for |
| Overlay coherence (`game/rac1_overlay_coherence.cpp`) | the boot ELF; the level's segments and static PCs are the runtime's | parse the ELF, judge an overlay, follow the boot path | the guest is half through a copy, a level goes between two looks, pointers into nowhere | a conflict is reported only when one is there |
| Live-state inspectors (`game/rac1_live_*.cpp`) | none | parse guest structures inside one guest-execution scope | the guest was stopped between two stores; three inspectors each find Ratchet on their own | what they agree on is one moby, and every packet is inside memory |
| Render bridge (`render/rac1_render_bridge.cpp`) | none | map classes, sky and Ratchet to the native level | snapshots and native level are of different levels | counts add up; the native sky is the live one |
| Level load (`render/rac1_runtime_renderer.cpp`, `render/rac1_render_parity.cpp`) | the loaded level and its GPU handles | `loadLevel`, `unload`, preparing and applying Ratchet's pose | some twenty stages, each of which can refuse; Ratchet's class is decoded twice, by different code | a whole level or nothing; a pose moves every vertex of Ratchet or none |
| Asset decoders (`assets/*.cpp`) | none | level container, textures, terrain, static scene, sky, collision, Mobys | counts and offsets from the file, tables that index each other | every read in its buffer; what one accepts the next can use |
| Mesh and skinned renderers | GPU handles | raylib calls | which batches can be uploaded at all | drawn in the parity digest's order |
| Tools (`tools/`, CMake) | none | offline generators, viewer, oracle | none | guarantees used by the bridge, see `ModuleAssumption` |

How they interact. The guest thread calls replacements through the dispatch
table the registry filled at startup and the dispatch manager rewrites at each
overlay load. Sector reads go through the VFS; a complete WAD2 read is reported
to the runtime, which maps it to a level in two atomics. The presentation
thread runs once per host frame, reads those atomics, the overlay state (under
its mutex) and guest memory (in a guest-execution scope the guest grants only
at function boundaries), and publishes the pad report the guest polls. What is
left of the IOP is answered by the SIF bridge.

The hazards these properties aim at are listed with their source lines in
`PROJECT.json`.

## Modules and the code they model

Definitions keep the source's names. A definition with the comment `Mistake:`
is a variant of its neighbour with one plausible bug. No specification uses
them; they are there so that each property can be seen to fail when the bug is
put in place of the neighbour (`PROJECT.json`, `mutants`).

**`OverlayDispatch`** models `Rac1OverlayDispatchManager`. A slot is named by the
guest PC it serves; `slots` is the dense dispatch table. `Validate` follows
`activate`'s tests in order and yields its status; `Reject`, `KeepActive` and
`Materialize` are its three outcomes, `Deactivate` has the three of
`deactivate`. `ReplaceFunction` is any other writer of the table. `boot` is a
history variable: what each slot held before overlays touched it.

**`OverlayBridge`** extends it with the bridge: entering, the generated loader
copying *one record per step* (external), its return, and the commit under the
mutex; `Inspect` is the presentation thread. `resident` says which image each
guest word holds, and `Body[f]` which words function `f` was compiled from.
Two assumptions name what the code takes for granted: `BridgeAssumption`
(typing) and `ModuleAssumption` (what `rac1_overlay_aot.py` guarantees of a compiled
module). `DispatchMatchesMemory` is about every moment up to a requested stop,
a copy in progress included: a word of an offered function's body holds the bytes
the function was compiled from, or the copy in progress has just overwritten
it, or it was last written by a generation that leaves the function's entry
alone. The last case is real: the manager clears owners by entry PC, the records
of one generation leave gaps, and a function whose body reaches out of a gap into
a record keeps its owner over foreign bytes (the instance has one, `native`).
Nothing in the repository rules such a function out; what the property says
is that there is no other way.
The bridge's early return for a null runtime is not modelled: the bridge is
only installed by a live runtime. The model stops the guest at the step that
requests a stop; a few instructions may still run in the program.

**`SifTransport`** models the tables and `resolveCall`; `Behavior` is the shape of
a verified row. **`SifBridge`** extends it with the guest's packets, the DMA
capture, the reset and the response dispatcher. The guest RPC library is game
code, outside the repository. What is assumed of it is written in the module's
header: a request takes the first free packet slot, sets the first word of its
client, sends its payload by DMA, and is not made before the INIT answer. The
IOP-ready poll may reset the bridge at any moment, as `guest_11cf10` does,
whatever is in flight. With a BIND in flight the next run of the dispatcher
injects INIT and then overwrites it with the BIND's answer in the one
response buffer, and no INIT is repeated until the next poll:
`InitLostOnlyToEarlierBind` says that this is the only way to lose it, with the
history variable `bindsAcrossReset`. `Careful` restricts the guest further
(one live allocation, idle at a reset) for the liveness run only.

**`Presentation`** models one host frame as eight steps (`Sample`, `Publish`,
`InspectLiveMobyState`, `EnsureMappedLevelLoaded`, `ApplyLiveRatchetFrame`,
`InspectOverlay`, `Observe`, `Draw`) with guest steps between any two of them:
a generation is activated, memory is rewritten, a mapped read stores its two
atomics one after the other. The frame counter of the autopilot is kept modulo
its cycle. `level0Observed`, `level0Taken` and `loadFailed` are history variables. The
second guest scope, in `inspectLevelOverlayCoherence`, only writes diagnostics
and is left out.

**`StashStore`** is the abstract promise: numbered stores, exact retrieval,
refusals that change nothing. **`NativeStash`** models the four replacements of
`rac1_native_stash.cpp` over words above every length, and is shown to implement
it: `Promise == INSTANCE StashStore WITH ...` maps the stash to the slots below
`nextSlot`. Addresses and lengths both count 16-byte units; a read length of
`MaxWord` is the code's `0xFFFFFFFF`, "the whole slot". The retail tag only feeds
the log and is left out.

**`NativeStorage`** models the catalogue that `NativeVfs::initialize` builds from
`toc.json`, `readSectors` and `readAssetPrefix`, and the four guest functions of
`native_io.cpp` that read sectors. RAM cells and files are counted in sectors; a
cell holds the number of the disc sector last delivered to it, so that "the
right bytes" means "the right sector number". `disk` says how many sectors of
each extracted file can still be read; `LoseSectors` removes or shortens a
file. A call is several steps: it begins (`GameSectorRead`, `GameAsyncSectorRead`,
which clears the status words, `SectorRead`), reads its files one after the
other into the staging buffer (`StageSegment`), and returns served or not
(`...Returns`). A file may be lost between two segments, and `Faults` lets a
read fail after its size check. The generated fallback is
external, and what it does is not modelled.

**`LiveState`** models the read-only inspectors, one operator per inspector, each
yielding the status the code returns: `Pool`, `ClassRegistry`, `ControlState`,
`Transform`, `CameraStatus`, `Sky`. **`LiveAnimation`** is the animation
inspector: which two packets Ratchet's moby selects (`SequenceEndpoint`,
`TransitionEndpoint`), what a packet found in memory is (`Classified`) and
whether the native bank can decode the pose (`PoseStatus`). **`RenderBridge`**
matches these snapshots with the loaded level: `ClassMap`, `SkyMap`,
`IdentityStatus`, and `FrameStatus` of `prepareLiveRatchetFrame`.
**`LiveFrame`** composes them: the guest writes one field per step,
`Inspect` reads everything in one step, as the guest-execution scope has it,
then `EnsureMappedLevelLoaded` and `DrawFrame` with the accounting `Report`,
the guest writing in between. Which level a catalogue came from is abstracted:
any of `Catalogs` may be what a load leaves, so that snapshots and native level
can disagree. `Presentation` models the same frame with the ownership protocol
in full and this data abstracted away; the two share no state.

**`CheckedReads`** is the vocabulary of the decoders. All of them are a run of
checks, each returning its own status, with reads between. A decoder is a
sequence of steps, and from it come its status (`Outcome`) and every range it
read before it returned (`ReadsOf`), each with the size of its buffer.
The inputs are records of the numbers a file holds, not bytes; a module's header
lists them. On it are built **`LevelContainer`** (`rac1_level.cpp`: the
container, its index, the overlay's records, the compressed core),
**`PaletteTextures`**, **`VifCode`** (`parseVif` and the shrubs' copy of it),
**`TerrainMesh`** (`rac1_tfrag.cpp`), **`StaticScene`** (ties and shrubs),
**`SkyMesh`**, **`CollisionMesh`**, and **`RenderParity`**, which is the parity
digest, `appendMeshBatch` and the order of `drawBatches`. What a decoder passes
on is modelled as far as something later looks at it: batches with kind,
shell, material, vertex count and finiteness.

Three modules are about Mobys, and read the same class record differently.
**`MobyMesh`** (`rac1_moby.cpp`) turns VIF packets and the vertex table into
triangles: `Corner` and `NextIndex` walk the index stream with its secret
indices and material changes, `CacheAddress` is where a vertex goes in a cache that
outlives the packet, `MobyScene` what instances make of it.
**`MobyAnimation`** (`rac1_moby_animation.cpp`, first half) checks sequences, rig
and skinning program of every referenced class, and Ratchet's bank of sequences.
**`MobyPose`** (second half, and `native_skinned_moby_renderer.cpp`) resolves two
frame packets to a pose, executes the skinning program on the 64 matrix
slots of VU0 memory (`Execute` knows which were written), and says
which batches can be filled from the result. A vertex is the number of its place in
the program; matrices and positions are only finite or not.

**`LevelLoad`** runs all of it in `loadLevel`'s order, `Unloaded` first,
and lets the GPU refuse any textures or mesh. `SkinRatchet` is
`prepareLiveRatchetFrame` and `applyLiveRatchetFrame` on the level that is loaded,
for two packets the frame's selection found.

**`WadDecompressor`** models the replacement of the retail decompressor, one packet
per step (`DecodePacket`), between `CallWad`, with the address checks of
`nativeDecompressWad`, and `ReturnWad`, which copies to the guest what was
decompressed and sets the return value. Which packets follow each other is free. A
cell holds the name of the byte in it, so that "the right bytes" can be said;
`expanded` is the history variable that says what the packets stand for.

**`Startup`** has an action for each step of `initialize`, each with its failure, then
`Run` and `Destroy`. The registry keeps the entries `add` does not refuse by their
place in the declared list; `Install` replaces the slots of a stage's entries in that
order, capturing before each replacement what its slot holds. The table of `PS2Runtime` is external: a slot per PC, initially the
generated function or missing. Once the guest runs, it calls the DBC link
functions.

**`StaticElf`** models the parse of the boot ELF, **`BootProgress`** the walk over guest
pointers that says how far the boot path has come, and **`OverlayCoherence`** the verdict
on the mapped level's overlay. The guest copies payloads
(`GuestMaterializes`) and writes over them (`GuestOverwrites`) at any time, the
level may change or go (`MapLevelOverlay`), and `InspectOverlay` looks.

## Runs

Distinct states with the bounds in the `.cfg` files:

| Run | States | Question |
|---|---|---|
| `MCOverlayDispatch` | 9,477 | Do the owner records stay exact under any sequence of activations (two overlapping generations, one rebuilt with another body), refusals (one request for each status), deactivations and foreign writes? |
| `MCOverlayBridge` | 9,520 | Does dispatch match resident bytes at every record copied and after it, with two overlapping generations, one without a compiled module, and a boot function partly overwritten? |
| `MCSifBridge` | 144,210 | Three clients on two binding entries, one payload entry and two packet slots: are clients, INIT answers and the heap base handled exactly, whatever the guest calls and whenever it resets, BINDs in flight or not? |
| `MCSifBridgeLive` | 22,765 | Does the packet at the head of the scan always move, for a guest that keeps to supported calls? |
| `MCPresentation` | 456,960 | Are ownership, the autopilot's stop and failed loads right under every interleaving of frame and guest? |
| `MCPresentationLive` | 89,632 | Does native gameplay take the screen? |
| `MCPresentationAccounting` | violated | Is Ratchet drawn exactly when accounting says so? |
| `NativeStash` | 3,036 | Does the stash implement the abstract store for every argument of every handler? |
| `MCNativeStorage` | 56,232 | Is every sector request served exactly or not at all, with a file damaged between or during calls and reads failing? |
| `MCLiveFrame` | 544,314 | Is what is drawn one moby and the loaded level's sky, and does the accounting add up, whatever the guest writes and whenever it is stopped? |
| `MCBootAndLoad` | 47,209 | Starting up, decompressing, loading a level and posing its Ratchet, loading a collision block, judging an overlay: is each whole or refused, whichever step fails? |
| `MCNativeStorageFallback` | violated | Do indexed assets never reach the generated disc path? |

What each property says is written above its definition. What they show, and
why the bounds are enough:

- *Overlay dispatch.* Three slots and two generations overlapping on one of
  them give every case of a slot: touched by neither, one or both, first or
  second. `RecordsAgree`, `BaselineExact` and `DeactivateRestoresBoot` are proved
  without the bound. `MaxCalls = 4` bounds the bridge's calls: both generations
  twice, or one, the other and the first again.
- *SIF.* Tables of two bindings and one payload make a third client or a second
  remote buffer find them full. Clients are symmetric in the safety run. The
  safety run does not look for deadlock: a call nobody verifies stays pending
  and blocks the packets behind it, as the code intends.
- *Presentation.* The code knows one mapping (WADS2 69 to Level 0), and an
  attempt is recorded by its pair, so a load that failed is never tried again:
  `FailedLoadIsFinal`. The autopilot's cycle is four frames
  instead of sixty; pulses depend only on the phase.
- *Stash.* Two units of RAM and two slots, and all words up to 3: lengths of
  zero, ranges that end exactly at the end of RAM or of the copied bytes, sums
  that overrun both, slot indexes beyond the table.
- *Storage.* Cells of one sector, two of them; the catalogue has two adjacent assets, a gap,
  another asset, an unused entry and a level span (not starting at its header) over
  the gap and two of the assets, and two more tables, one with overlapping assets and one
  with a boot WAD too small for the alias. Requests name a whole asset, two
  assets at once, a part of a level, a range only partly known, and the alias.
  One damaged file suffices: which file a sector is taken from does not depend
  on the files, and a request fails if any one of them is short, before or after others
  were staged. `UnservedLeavesMemory` compares memory at the return with what
  the caller left, and says where the code does mutate it unserved: the cleared
  status words, and the legacy boot alias, which reads straight into guest
  memory and may refuse the result or fail half way. The run does not look for
  deadlock: the program exits when the catalogue is refused.
- *Live frame.* Two guest writes, at any points of any frames, from cleared memory or from the
  middle of a level: enough to leave any two fields that must change together half changed.
  The written values give each inspector a value for every test it makes:
  pointers null, in range, and running out of RDRAM; a packet in its slot,
  too long for it, and undecodable; mobies dead, ending the pool early,
  doubled, or of a class with no mesh. Three slots hold Ratchet, another moby and the terminator.
  The sky has its limit in shells and one more. Ratchet's three inspectors cannot
  disagree about a frame because they read in one scope; with the reads of one frame in
  two scopes the run finds a torn one (the mutant of `RatchetIdentityNeverTorn`).
- *Boot and load.* The five subjects share no state, so a behaviour is of one of them.
  Inputs in `MCLevels` are one level that loads, and, around it, levels that fail one check of one
  stage by a little and, at limits, levels that just pass: an offset at the end and one past it, a count at its maximum and above, an index that
  names the last element and the next. Mobys have a class of two packets, the second drawing
vertices the first left in the cache, one without data, one of low detail only, one drawn
invisibly; streams that end early, change material and run out of secrets;
programs that load matrices stored before, later or never; and a Ratchet who is missing, or twice
there, or whose two decoders could disagree. Poses are a moving joint, packets
too short for what they announce, and values that are not finite. Two
  properties say of the stages together what no single decoder promises.
  `LoadedLevelIsWhole`: all of an accepted world is on the GPU and drawn in the digest's
  order, nothing of a refused one is, and what the mesh decoder draws of Ratchet is what the
  skinning program moves. `RefusalsHaveTheirCause`: no world the decoders accept is refused by the
  digest except an empty or non-finite one, and no upload fails but for the GPU.
  WAD streams of some ten bytes in 24 cells, read in blocks of four, lie before, behind and across
  their own output. Startup tries lists with an address declared
  twice, in one stage and in both, and a PC with no generated function. Overlays over
  40 bytes of memory and an ELF of 24 loaded bytes give payloads that touch, miss
  and leave the ELF's segment. The run does not look for deadlock: a call
  that has returned is the end of its behaviour. Verdicts `StaticElfUnavailable` and
  `SegmentPayloadOutOfRange` do not occur, because the runtime does not start without its ELF
  and the container has already checked the payloads.

## Fairness

Safety runs use no fairness.

- `FairSifSpec`: weak fairness of the dispatcher, which the guest's wait loops
  run again and again, and of each client's payload DMA, which follows its
  request in straight-line code.
- `FairPresentationSpec`: weak fairness of the host frame, which the runtime's window loop
  repeats, and of `PublishLevel`, the second of two adjacent stores; strong
  fairness of `InspectLiveMobyState`, because the guest hands over the scope at
  function boundaries, which come back for ever but not all the time.
  `TakeoverHappens` further assumes that the guest stays in Level 0 with a
  camera, and that the renderer does not refuse the level.

The SIF scan is not fair to packets in high slots and no run claims it is:
`HeadOfLineMoves` is the progress the code does promise.

## Proofs

A component's theorems are in a module of its own; `OverlayProofs` is about `OverlayDispatch`
and `OverlayBridge`, `IopServiceProofs` about `SifBridge` and `NativeStash`, which stand in for
services of the IOP, `NativeReplacementProofs` about `Startup` and `WadDecompressor`,
`BootAndLoadProofs` about `OverlayCoherence`, collision and the decoders of a level's world, and
`LevelProofs` about mobys, animation and `LevelLoad` as a whole. They hold for every value of the constants that satisfies
the named assumptions, which TLC evaluates in the runs. Each proof of an invariant has
the same plan: a strengthening that TLC first checks as an invariant of the run's instance, one lemma per action for its preservation, and a last step
by `PTL`.

- **Dispatch manager.** `ManagerInv` is `ManagerTypeOK /\ RecordsAgree /\
  BaselineExact`, and is inductive as a whole: `BaselineExact` needs
  `RecordsAgree`, because a slot is captured at its first touch only if the
  capture bits name exactly the slots saved, and an untouched slot still holds
  its boot owner only if installation stays inside captured ranges.
  `ManagerTypeCorrect`, `ManagerRecordsAgree`, `ManagerBaselineExact` follow, and
  `ManagerRestoresBoot` is a property of the one step that unbinds.
  `ManagerActivationOwnsItsRanges` needs no invariant, only
  what validation establishes of a request. Assumptions:
  `TableAssumption`, `RequestAssumption`.
- **Bridge.** `BridgeInv` adds what holds *during* a copy: `CopyProgress`, that the words the
  copy has reached hold the generation being copied, and that
  the counters and the last snapshot are related. At the commit the copied records are
  exactly the module's ranges, so the manager's new owners match again, and an
  owner outside them lost only words to a generation that leaves its entry alone. This
  gives `BridgeTypeCorrect`, `BridgeDispatchMatchesMemory` and
  `BridgeSnapshotConsistent`, from `BridgeAssumption`, `ModuleAssumption`
  and the table's.
- **Stash.** `StashInv` is `StashTypeOK` and `UnusedEmpty` (the slots not yet handed
  out are empty). `StashTypeCorrect`, `StashReadsBack` and `StashImplementsStore`
  follow from it; the last maps initial states to initial states and each
  handler to a step of the abstract store, refusals to `Refuse`. Assumption:
  `StashAssumption`.

- **SIF.** `SifInv` adds to the four checked invariants what the guest library's way of taking
  packet slots gives: a client that waits, waits for a packet of its own
  (`WaitsForOwnPacket`); the packets it left behind lie above that one
  (`StalePacketsBehind`), which is why a stale packet is never answered in its place; a bind
  outstanding before the INIT answer is one the latest reset found in flight
  (`BindsCrossedReset`), so only such a one can overwrite INIT; and the tables are finite, so
  that a full one is really full. `BoundClientsRouted`, `HeapAllocatedOnce`,
  `InitOverwrittenByEarlierBind` follow, and `AnswersReachWaitingClient` for
  each step of the dispatcher, `Careful` or not. Assumptions: `TransportAssumption`, `SifAssumption`.
- **Presentation.** `PresentationInv` relates the flags each frame step leaves behind: the
  autopilot's stop is permanent once Level 0 was observed (`StoppedForGood`), the screen
  follows the owner (`ScreenFollowsOwner`), and a renderer that loaded holds a level of the
  index (`LoadedIsIndexed`); ownership is earned only through the last. A failed attempt leaves
  its pair recorded and the renderer without a level until it is shut down (`FailureRecorded`),
  and no frame attempts a recorded pair again. Hence `PulsesStopForGood`, `NativeGameplayIsEarned`,
  `NativeScreenIsKept` and `FailedLoadsAreFinal`. Only the last uses `SingleMapping`, which states
  the one mapping the code knows: with a second pair a later read could load after all.
- **Storage.** `CatalogueInitialized` says what `initialize` left: no two neighbours overlap.
  Comparing neighbours of a sorted table is enough to compare all (a minimal counterexample
  would be a pair of neighbours), so `CatalogueAnswersExactly`. Each segment is cut from a file that
  holds its sectors (`SourceHolds`), so whatever is staged is the beginning of the request
  (`StagingIsRange`), hence `ServedSectorsDelivered`. While a call is in progress memory is as
  its caller left it, the cleared status words apart (`BeforeKept`), hence
  `UnservedMutatesNothing`: a failure after any number of segments changes no more.
  `ObserverHearsOfLoadedAssets` is a property of each step. Assumption: `StorageAssumption`.
- **Live frame.** `LiveInv` holds the memory's types and what a snapshot says together:
  the registry adds up to the pool it walked (`RegistryAddsUp`, by cardinalities of the
  scanned slots), and a sky that is materialized has its shells in RDRAM. A frame in progress keeps its snapshot
  while the guest writes (`FrameInProgress`), so what is drawn and reported is about that
  one. This gives `RatchetIsOne`, `PosePacketsInMemory`, `FrameAccountingBalances` and
  `SkyIsLoadedSky`, for a pool of any number of slots. `LiveFrameAssumption` says what a
  loaded catalogue holds, `GuestMemoryAssumption` that memory words are numbers.
- **Startup.** `RegistrySound` follows the function table through the stages: until the
  replacements are declared it is the recompiler's; until the runtime stage each slot a
  wrapper will capture still is, because the bootstrap entries are elsewhere, and no two
  entries of a stage share an address, because `add` refuses the second. So
  `FallbacksStayStatic`. A link handed out is marked, and the next was not (`LinksSound`).
  `StartupAssumption` says what the declarations in `src/` satisfy: the bootstrap
  addresses belong to no wrapper, and each storage variable to one entry.
- **WAD decompressor.** `WadInv` says of every moment of a decompression what the property says
  of its end: memory holds exactly the bytes decoded so far, at the destination, and
  nothing else has changed (`HoldsExactly`). The step that needs an argument is a match that overlaps
  its own output: copying byte by byte repeats the last `distance` bytes
  (`CopyIsRepetition`: at the first byte that differed an equal one would have been
  copied). Then both copies put new bytes after the old ones (`PutHoldsExactly`). Nothing is
  assumed of the packets but that their fields are naturals: a stream is refused, or
  `WadOutputIsExact`. A behaviour is of one call, from memory nothing was decompressed into.
- **Decoders.** A sequence of steps is `Sound` when every read of a step is in range once
  its check and those before it hold. What a sound decoder reads before it returns is in range,
  wherever it returns (`ReadsOfSteps`). Sound parts make sound wholes: `\o`, `Then`, and
  `ForEach`, where an induction over the turns is an argument about the first turn that would
  be wrong (`ConcatSound`, `ThenSound`, `ForEachSound`). With these a decoder's proof follows its
  code, loop by loop. `CollisionIsReadInRange` is proved so, for collision blocks of any shape
  (`CollisionsAssumption` is their type).
- **Level loading.** `LevelIsReadInRange` is the same for a whole level, of any number and size
  of sections, textures, fragments, classes, instances, packets and sequences, and for every pose
  applied to it. `LoadsAssumption` and `PosesAssumption` are typing only (`IsLevel`, `IsFrame`): numbers
  parsed as unsigned are naturals, those parsed as signed are integers, an address the code masks
  is one its mask leaves, tables are sequences, and a sky lists the shells its header counts.
  A later check leans on earlier ones, so a decoder's lemma also says what its acceptance
  establishes: a parsed overlay's records lie in it (`OverlayParseFacts`); a terrain fragment's
  unpacks hold the strips and the vertices its header counts (`FragmentMeshFacts`); a shrub packet's three
  unpacks hold what the first one counts (`CountedStepsSound`); an instance names a class that is
  there. Loops that carry state have invariants: the vertex cache of a moby class maps
  addresses to vertices already decoded (`IsCache`, `IsClassMesh`, along the run of `DecodeClassFacts`), and
  each moby index stream is drawn inside the vertices of its packet (`NextIndexTyped`). The
  animation decoder's acceptance is what makes skinning safe many frames later: every matrix address of an accepted
  class is a slot of VU0 memory (`IsSkinned`, `ExecutionTyped`). The inductive invariant `LoadInv`
  carries that over: a renderer that is ready has a class that can be skinned and lists of
  batches to draw it with, whichever loads and poses came before (`IsReady`). Without it a
  pose over a ready renderer would be a pose over anything.

  `LevelIsLoadedWhole` follows from the same invariant, which also says that a ready renderer holds
  its whole world (`IsWhole`) and one that is not holds nothing (`IsEmpty`). The digest and the
  renderer each walk the batches twice, opaque and transparent, and look a batch's transparency
  up in different places: the texture table, and what uploading stored. They select the same places
  of the same list (`DrawnAsDigested`), and a batch nothing was uploaded of would have ended the load.
  Ratchet's class is decoded twice. `TopologySteps` compares the two vertex counts when the level
  is loaded, so acceptance makes them equal, and `IsReady` keeps that for every later pose: every
  corner of a triangle is a vertex his pose is executed for (`SkinnedReady`).

  The proof attempt found one error in the model: `IndexSteps` read the GS memory's section also
  when its size is zero, which `rac1_level.cpp:378` does not do. An empty section may have any offset,
  so the property was false of a level no run listed.
- **Overlay coherence.** The inspector's reads are sound in the same way, through the boot ELF's program
  headers (`StaticBytesFit`) and the guest pointers of the boot path (`BootSound`). `CoherenceInv` adds
  the types and one fact that the property alone does not keep: while an overlay is mapped, the
  places kept with it are those inside it, so a verdict is about the level it is remembered with.
  The verdict is then true when it is made (`VerdictOfInspection`) and stays true of the memory it was
  made from: `InspectorSaysTheTruth`. `OverlayCoherenceAssumption` is typing, and that the container has
  checked the overlays' payloads.

Only model-checked:

- the liveness properties `HeadOfLineMoves` and `TakeoverHappens`
  (fairness and `ENABLED` are out of the provers' reach);
- `RefusalsHaveTheirCause`, for the inputs listed. It needs what the decoders put in the vertices and
  materials of every batch, not only where they read it; that Ratchet's packets are numbered on
  from one another alike by both decoders; and that the kinds of classes add up, a sum over a
  set: induction over data beyond the first-bad-turn argument used here;
- the two properties the code violates.

## Disagreements between code and documentation

- `MCPresentationAccounting`. Once one pose of Ratchet has been uploaded, a frame
  whose pose or basis is not materialized leaves the previous one drawable
  (`rac1_runtime_renderer.cpp:592`): the frame draws Ratchet while its accounting
  defers him. `README.md:308-310` says he "remains mapped-but-deferred".
- `MCNativeStorageFallback`. `native_io.cpp:302-303` says that indexed game assets
  never take the generated CDVD path. They do when their file is missing or
  short: initialization only counts such files, except for `wads2/0`.

## Not modelled

- Code that is absent from the repository: PS2Recomp and the recompiled game.
  Where a module needs them, the action is named external and says what
  the code in `src/` relies on.
- JSON parsing of `toc.json`, the guest-visible TOC image and its loader.
- The graphics and VIF bridges of `guest_overrides.cpp`: one-shot register writes.
- Throttled logging and the diagnostic counters, unless a property needs them;
  the development screen drawn before native gameplay.
- The pose decoders only tools call (one sequence and frame of a file, instead of
  two packets) and `inspectRac1MobyPosePaletteContract`, which only reports.
- What a blend or a skinned vertex is: matrices, quaternions and weights. `LiveAnimation`
  and `LiveFrame` take the status of a pose as an input; `LevelLoad` computes it, for
  the packets it is given.
- `native_level_viewer.cpp`: a tool that calls the same decoders from its own `main`.
- Coordinates, matrices, colours and hashes: floats are "finite", "zero" or
  not. The clip matrix of the render bridge and the arithmetic of the audio bootstrap are
  left out.
- What the GPU and raylib do; they may refuse.
- Offline tools and build scripts.

Hazards without a property: a pulse shorter than the guest's polling period
(`native_input.cpp:186`) and a client overtaken for ever
(`guest_overrides.cpp:372`) are what the code accepts; a payload found by
remote address before its own was sent (`sif_rpc_transport.cpp:150`) depends on
the order of two DMAs of the guest library; the model lets the stale payload match.

## Plan

Done, in this order: overlay dispatch and its bridge, SIF transport and bridge,
presentation, stash, storage; the live frame; startup, the WAD decompressor, level loading
and the decoders with the Mobys and Ratchet's skin, overlay coherence; proofs of every safety
property of the passing runs but one.

Next:

1. `RefusalsHaveTheirCause`: what one decoder accepts the next can use.
2. `Presentation` over `OverlayBridge`'s real commits and `LiveFrame`'s
   snapshots instead of its own.
3. The disc TOC image and its loader; the path from sector read to
   `PublishLevel`, composing `NativeStorage`'s observer with `Presentation`.
4. `LevelLoad` under `LiveFrame`: the packets an inspector selects as those `SkinRatchet` applies.
