---------------------------- MODULE Presentation ----------------------------
(***************************************************************************)
(* presentNativeFrame against the running guest.  The host callback is a   *)
(* sequence of steps; between any two of them the guest may activate a     *)
(* generation, finish reading a level, or rewrite the state the host       *)
(* inspects.  Host and guest meet in three places: the guest-execution     *)
(* scope, which the host enters only at a guest function boundary; the     *)
(* overlay state, read under its mutex; and three atomics, read one by one.*)
(***************************************************************************)
EXTENDS Integers, FiniteSets

CONSTANTS
  Level0,                        \* kLevel0GenerationEntry
  OtherGenerations,              \* every other generation entry the guest activates
  LevelOf,                       \* LevelOf[wad2]: nativeLevelForRetailAssetRead
  Indexed,                       \* <<level, wad2>> pairs the VFS index holds
  Neutral, Cycle, PulseFrames, CrossOffset,   \* autopilot cadence: 60, 60, 6, 30
  LiveInputs                     \* button sets the real controller reports

Wad2 == DOMAIN LevelOf
NotRequested == -1
Pair == {LevelOf[w] : w \in Wad2} \X Wad2
Generations == {0, Level0} \cup OtherGenerations

ASSUME PresentationAssumption ==
  /\ LevelOf \in [Wad2 -> Nat] /\ Wad2 \subseteq Nat
  /\ Indexed \subseteq Pair
  /\ Level0 \in Nat \ {0} /\ OtherGenerations \subseteq Nat \ {0, Level0}
  /\ {Neutral, Cycle, PulseFrames, CrossOffset} \subseteq Nat \ {0}
  /\ PulseFrames <= CrossOffset /\ CrossOffset + PulseFrames <= Cycle
  /\ IsFiniteSet(LiveInputs)

\* nativeLevelForRetailAssetRead maps one asset: WADS2 69, to Level 0.
ASSUME SingleMapping == \A v, w \in Wad2 : v = w

VARIABLES
  generation,      \* active AOT generation
  camera, ratchet, \* guest memory: clip transform and Ratchet state materialized
  reading,         \* wad2 of a mapped read between the two stores, or NotRequested
  requestedRuntimeWad2, requestedNativeLevel,
  report,          \* the published pad report
  host,            \* next step of presentNativeFrame; "created", "idle" or "closed" outside it
  frame, stopped,  \* Rac1FrontendAutopilot
  input,           \* autopilotFrame.input, with the live sample it came from
  liveCamera,      \* the frame copied a materialized clip transform out of guest memory
  ratchetFrame,    \* level the frame prepared Ratchet for, or NotRequested
  renderer,        \* Rac1RuntimeRenderer status: "uninitialized", "ok", "failed"
  attempted,       \* <<level, wad2>> last handed to the renderer, or <<>>
  gpuReady, applied,
  aotGeneration,   \* the overlay state read for this frame's readiness
  owner,
  drawn,           \* what the last frame put on screen, and its accounting
  level0Observed, level0Taken,  \* history: a frame sampled Level 0; L0 seen by observe
  loadFailed       \* history: a load attempt did not leave a drawable level

guestVars == <<generation, camera, ratchet, reading>>
atomics == <<requestedRuntimeWad2, requestedNativeLevel>>
autopilotVars == <<frame, stopped, input>>
snapshotVars == <<liveCamera, ratchetFrame>>
rendererVars == <<renderer, attempted, gpuReady, applied>>
ownerVars == <<aotGeneration, owner>>
history == <<level0Observed, level0Taken, loadFailed>>
presentationVars == <<guestVars, atomics, report, host, autopilotVars, snapshotVars,
                      rendererVars, ownerVars, drawn, history>>

hostVars == <<host, autopilotVars, snapshotVars, rendererVars, ownerVars, drawn, history>>

----------------------------------------------------------------------------
(* The guest.  Activation is OverlayBridge's commit; memory is rewritten   *)
(* at will; a complete mapped read stores wad2, then the level.            *)
ActivateGeneration(gen) ==
  /\ generation' = gen
  /\ UNCHANGED <<camera, ratchet, reading, atomics, report, hostVars>>

RewriteMemory(c, r) ==
  /\ camera' = c /\ ratchet' = r
  /\ UNCHANGED <<generation, reading, atomics, report, hostVars>>

ObserveRead(wad2) ==
  /\ reading = NotRequested
  /\ reading' = wad2 /\ requestedRuntimeWad2' = wad2
  /\ UNCHANGED <<generation, camera, ratchet, requestedNativeLevel, report, hostVars>>

PublishLevel ==
  /\ reading # NotRequested
  /\ requestedNativeLevel' = LevelOf[reading] /\ reading' = NotRequested
  /\ UNCHANGED <<generation, camera, ratchet, requestedRuntimeWad2, report, hostVars>>

Guest ==
  \/ \E gen \in Generations : ActivateGeneration(gen)
  \/ \E c, r \in BOOLEAN : RewriteMemory(c, r)
  \/ \E wad2 \in Wad2 : ObserveRead(wad2)
  \/ PublishLevel

----------------------------------------------------------------------------
NextFrameLate == IF frame = Neutral + Cycle THEN Neutral ELSE frame + 1    \* Mistake: off by one.

(* Rac1FrontendAutopilot::step.  The 64-bit frame counter is kept modulo   *)
(* the cycle, which is all the pulses depend on.                           *)
NextFrame == IF frame + 1 = Neutral + Cycle THEN Neutral ELSE frame + 1

Pulse ==
  LET phase == frame - Neutral IN
  IF phase < 0 THEN {}
  ELSE IF phase < PulseFrames THEN {"Start"}
  ELSE IF CrossOffset <= phase /\ phase < CrossOffset + PulseFrames THEN {"Cross"}
  ELSE {}

StepUnlatched(level0Active, live) ==    \* Mistake: the stop is not permanent.
  /\ stopped' = level0Active
  /\ input' = [live |-> live, buttons |-> IF stopped' THEN live ELSE live \cup Pulse]
  /\ frame' = NextFrame

StepAutopilot(level0Active, live) ==
  /\ stopped' = (stopped \/ level0Active)
  /\ input' = [live |-> live, buttons |-> IF stopped' THEN live ELSE live \cup Pulse]
  /\ frame' = NextFrame

----------------------------------------------------------------------------
Step(from, to) == host = from /\ host' = to

Initialize ==
  /\ Step("created", "idle")
  /\ owner' = "DevelopmentFrontend"
  /\ frame' = 0 /\ stopped' = FALSE
  /\ UNCHANGED <<guestVars, atomics, report, input, snapshotVars, rendererVars,
                 aotGeneration, drawn, history>>

Sample(live) ==
  /\ Step("idle", "sampled")
  /\ StepAutopilot(generation = Level0, live)
  /\ level0Observed' = (level0Observed \/ generation = Level0)
  /\ UNCHANGED <<guestVars, atomics, report, snapshotVars, rendererVars, ownerVars,
                 drawn, level0Taken, loadFailed>>

Publish ==
  /\ Step("sampled", "published")
  /\ report' = input.buttons
  /\ UNCHANGED <<guestVars, atomics, autopilotVars, snapshotVars, rendererVars, ownerVars,
                 drawn, history>>

PreparedFrame == IF ratchet /\ renderer = "ok" THEN attempted[1] ELSE NotRequested

InspectThroughRatchet ==    \* Mistake: the camera counts only with Ratchet.
  /\ Step("published", "inspected")
  /\ reading = NotRequested
  /\ liveCamera' = (camera /\ ratchet)
  /\ ratchetFrame' = PreparedFrame
  /\ UNCHANGED <<guestVars, atomics, report, autopilotVars, rendererVars, ownerVars,
                 drawn, history>>

(* inspectLiveMobyState: one guest-execution scope.  The Ratchet frame is  *)
(* prepared with the renderer as it is now.                                *)
InspectLiveMobyState ==
  /\ Step("published", "inspected")
  /\ reading = NotRequested
  /\ liveCamera' = camera
  /\ ratchetFrame' = PreparedFrame
  /\ UNCHANGED <<guestVars, atomics, report, autopilotVars, rendererVars, ownerVars,
                 drawn, history>>

(* ensureMappedLevelLoaded: an attempt is never repeated for the same      *)
(* pair, whatever became of it.                                            *)
Requested == <<requestedNativeLevel, requestedRuntimeWad2>>

NeedsLoadAlways ==    \* Mistake: the level is loaded again in every frame.
  requestedNativeLevel # NotRequested /\ requestedRuntimeWad2 # NotRequested

NeedsLoad ==
  /\ requestedNativeLevel # NotRequested /\ requestedRuntimeWad2 # NotRequested
  /\ attempted # Requested

LoadResult == IF Requested \in Indexed THEN {"ok", "failed"} ELSE {"uninitialized"}

EnsureMappedLevelLoaded ==
  /\ Step("inspected", "loaded")
  /\ IF NeedsLoad
     THEN /\ attempted' = Requested /\ renderer' \in LoadResult /\ gpuReady' = FALSE
          /\ loadFailed' = (loadFailed \/ renderer' # "ok")
     ELSE UNCHANGED <<attempted, renderer, gpuReady, loadFailed>>
  /\ UNCHANGED <<guestVars, atomics, report, autopilotVars, snapshotVars, applied,
                 ownerVars, drawn, level0Observed, level0Taken>>

(* applyLiveRatchetFrame: a frame that was not materialized, or prepared   *)
(* for another level, leaves the GPU buffers, and the flag that lets them  *)
(* be drawn, as they were.                                                 *)
ApplyLiveRatchetFrame ==
  /\ Step("loaded", "applied")
  /\ IF ratchetFrame # NotRequested /\ renderer = "ok" /\ ratchetFrame = attempted[1]
     THEN gpuReady' \in BOOLEAN /\ applied' = gpuReady'
     ELSE applied' = FALSE /\ UNCHANGED gpuReady
  /\ UNCHANGED <<guestVars, atomics, report, autopilotVars, snapshotVars, renderer,
                 attempted, ownerVars, drawn, history>>

InspectOverlay ==
  /\ Step("applied", "overlayRead")
  /\ aotGeneration' = generation
  /\ UNCHANGED <<guestVars, atomics, report, autopilotVars, snapshotVars, rendererVars,
                 owner, drawn, history>>

Ready ==
  /\ aotGeneration = Level0 /\ requestedNativeLevel = 0
  /\ renderer = "ok" /\ liveCamera

ObserveBothWays ==    \* Mistake: ownership follows readiness back.
  /\ Step("overlayRead", "observed")
  /\ owner' = IF Ready THEN "NativeGameplay" ELSE "DevelopmentFrontend"
  /\ level0Taken' = (level0Taken \/ aotGeneration = Level0)
  /\ UNCHANGED <<guestVars, atomics, report, autopilotVars, snapshotVars, rendererVars,
                 aotGeneration, drawn, level0Observed, loadFailed>>

Observe ==
  /\ Step("overlayRead", "observed")
  /\ owner' = IF Ready THEN "NativeGameplay" ELSE owner
  /\ level0Taken' = (level0Taken \/ aotGeneration = Level0)
  /\ UNCHANGED <<guestVars, atomics, report, autopilotVars, snapshotVars, rendererVars,
                 aotGeneration, drawn, level0Observed, loadFailed>>

(* drawNativeWorldWithRetailCamera and logNativeRenderAccounting.          *)
Draw ==
  /\ Step("observed", "idle")
  /\ LET native == owner = "NativeGameplay"
         scene == native /\ renderer = "ok" /\ liveCamera
     IN drawn' = [screen |-> IF native THEN "native" ELSE "development",
                  scene |-> scene,
                  ratchet |-> scene /\ gpuReady,
                  ratchetAccounted |-> scene /\ applied /\ gpuReady]
  /\ UNCHANGED <<guestVars, atomics, report, autopilotVars, snapshotVars, rendererVars,
                 ownerVars, history>>

Shutdown ==
  /\ Step("idle", "closed")
  /\ owner' = "DevelopmentFrontend"
  /\ frame' = 0 /\ stopped' = FALSE
  /\ renderer' = "uninitialized" /\ attempted' = <<>> /\ gpuReady' = FALSE /\ applied' = FALSE
  /\ ratchetFrame' = NotRequested
  /\ UNCHANGED <<guestVars, atomics, report, input, liveCamera, aotGeneration, drawn,
                 history>>

Frame ==
  \/ \E live \in LiveInputs : Sample(live)
  \/ Publish \/ InspectLiveMobyState \/ EnsureMappedLevelLoaded
  \/ ApplyLiveRatchetFrame \/ InspectOverlay \/ Observe \/ Draw

PresentationInit ==
  /\ generation = 0 /\ camera = FALSE /\ ratchet = FALSE /\ reading = NotRequested
  /\ requestedRuntimeWad2 = NotRequested /\ requestedNativeLevel = NotRequested
  /\ report = {}
  /\ host = "created" /\ frame = 0 /\ stopped = FALSE
  /\ input = [live |-> {}, buttons |-> {}]
  /\ liveCamera = FALSE /\ ratchetFrame = NotRequested
  /\ renderer = "uninitialized" /\ attempted = <<>> /\ gpuReady = FALSE /\ applied = FALSE
  /\ aotGeneration = 0 /\ owner = "DevelopmentFrontend"
  /\ drawn = [screen |-> "none", scene |-> FALSE, ratchet |-> FALSE, ratchetAccounted |-> FALSE]
  /\ level0Observed = FALSE /\ level0Taken = FALSE /\ loadFailed = FALSE

PresentationNext == Guest \/ Initialize \/ Frame \/ Shutdown

PresentationSpec == PresentationInit /\ [][PresentationNext]_presentationVars

(* The callback runs once per host frame and always completes.  The guest   *)
(* passes function boundaries for ever and hands the scope over at them.    *)
FairPresentationSpec ==
  /\ PresentationSpec
  /\ WF_presentationVars(Initialize)
  /\ WF_presentationVars(Frame)
  /\ SF_presentationVars(InspectLiveMobyState)
  /\ WF_presentationVars(PublishLevel)

----------------------------------------------------------------------------
Buttons == {"Start", "Cross"} \cup UNION LiveInputs

PresentationTypeOK ==
  /\ generation \in Generations /\ aotGeneration \in Generations
  /\ {camera, ratchet, stopped, liveCamera, gpuReady, applied,
      level0Observed, level0Taken, loadFailed} \subseteq BOOLEAN
  /\ {reading, requestedRuntimeWad2} \subseteq Wad2 \cup {NotRequested}
  /\ {requestedNativeLevel, ratchetFrame} \subseteq {LevelOf[w] : w \in Wad2} \cup {NotRequested}
  /\ host \in {"created", "idle", "sampled", "published", "inspected", "loaded", "applied",
               "overlayRead", "observed", "closed"}
  /\ frame \in 0 .. Neutral + Cycle - 1
  /\ input \in [live : LiveInputs \cup {{}}, buttons : SUBSET Buttons]
  /\ report \in SUBSET Buttons
  /\ renderer \in {"uninitialized", "ok", "failed"}
  /\ attempted \in Pair \cup {<<>>}
  /\ owner \in {"DevelopmentFrontend", "NativeGameplay"}

(* The pair a load was attempted for is never attempted again, whatever    *)
(* became of it, and there is no other pair: after one failed load native  *)
(* gameplay never owns or draws the screen, however often the guest reads  *)
(* the level again or leaves and re-enters it.                             *)
FailedLoadIsFinal ==
  loadFailed => owner = "DevelopmentFrontend" /\ drawn.screen # "native"

(* "The autopilot stops permanently": after a frame has sampled Level 0    *)
(* active, no later report carries a synthetic button, even if the guest   *)
(* leaves Level 0 and native gameplay was never acquired.                  *)
PulsesNeverResume ==
  [][report' # report /\ level0Observed => report' = input.live]_presentationVars

(* Native gameplay owns the screen only after Level 0 was active, on a     *)
(* renderer that is still loaded with a level the guest asked for.         *)
NativeOwnershipEarned ==
  owner = "NativeGameplay" => level0Taken /\ renderer = "ok" /\ attempted \in Indexed

(* Once native gameplay has been drawn, no later frame shows the           *)
(* development screen.                                                     *)
ScreenNeverFallsBack ==
  [][drawn.screen = "native" => drawn'.screen = "native"]_presentationVars

(* If the guest stays in Level 0 with a camera, its level read and the     *)
(* renderer does not refuse it, native gameplay takes the screen.          *)
TakeoverHappens ==
  /\ <>[](generation = Level0 /\ camera /\ requestedNativeLevel = 0)
  /\ [](renderer # "failed" /\ host # "closed")
  => <>[](drawn.screen = "native" /\ drawn.scene)

(* "otherwise the Ratchet remains mapped-but-deferred": a frame draws      *)
(* Ratchet exactly when its accounting says it was rendered.               *)
RatchetDrawnAsAccounted == drawn.ratchet <=> drawn.ratchetAccounted
=============================================================================
