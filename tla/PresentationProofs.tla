-------------------------- MODULE PresentationProofs --------------------------
(***************************************************************************)
(* The presentation callback against the running guest, for every cadence  *)
(* of the autopilot, every controller, every set of generations and every  *)
(* index: its types, that pulses stop for good, that a failed load is      *)
(* final, and that native gameplay takes the screen once, earned, and      *)
(* keeps it.                                                               *)
(***************************************************************************)
EXTENDS Presentation, TLAPS

(* The stop is permanent while the runtime is up, and a frame sampled      *)
(* after it passes the controller through unchanged.                       *)
StoppedForGood ==
  /\ level0Observed /\ host \notin {"created", "closed"} => stopped
  /\ host = "sampled" /\ stopped => input.buttons = input.live

(* The screen shows native gameplay only under its owner, or after the     *)
(* last frame.                                                             *)
ScreenFollowsOwner ==
  drawn.screen = "native" => owner = "NativeGameplay" \/ host = "closed"

(* A loaded renderer holds a level of the index.                           *)
LoadedIsIndexed == renderer = "ok" => attempted \in Indexed

(* A failed attempt leaves its pair recorded and the renderer without a    *)
(* level until the renderer is shut down.                                  *)
FailureRecorded ==
  loadFailed => /\ host = "closed" \/ (attempted # <<>> /\ renderer # "ok")
                /\ owner = "DevelopmentFrontend" /\ drawn.screen # "native"

(* Before initialization no frame has sampled or drawn anything.           *)
FreshBeforeInitialize == host = "created" => ~level0Observed /\ drawn.screen = "none"

PresentationInv ==
  /\ PresentationTypeOK
  /\ FreshBeforeInitialize
  /\ StoppedForGood
  /\ ScreenFollowsOwner
  /\ LoadedIsIndexed
  /\ NativeOwnershipEarned
  /\ FailureRecorded

----------------------------------------------------------------------------
(* With one mapping there is one pair: an attempt that was made was for    *)
(* the pair now requested, and nothing loads again.                        *)
LEMMA OnePair == ASSUME NEW p \in Pair, NEW q \in Pair PROVE p = q
  BY SingleMapping DEF Pair

LEMMA PresentationInitInv == PresentationInit => PresentationInv
<1> SUFFICES ASSUME PresentationInit PROVE PresentationInv
  OBVIOUS
<1> USE DEF PresentationInit
<1>1. 0 \in 0 .. Neutral + Cycle - 1
  BY PresentationAssumption
<1>2. input \in [live : LiveInputs \cup {{}}, buttons : SUBSET Buttons] /\ report \in SUBSET Buttons
  OBVIOUS
<1>3. PresentationTypeOK
  BY <1>1, <1>2 DEF PresentationTypeOK, Generations
<1> QED
  BY <1>3 DEF PresentationInv, StoppedForGood, FreshBeforeInitialize, ScreenFollowsOwner,
              LoadedIsIndexed, NativeOwnershipEarned, FailureRecorded

LEMMA GuestInv == ASSUME PresentationInv, Guest PROVE PresentationInv'
<1> USE DEF PresentationInv, hostVars, autopilotVars, snapshotVars, rendererVars, ownerVars, history,
            guestVars, atomics
<1>1. UNCHANGED <<report, host, frame, stopped, input, liveCamera, ratchetFrame, renderer,
attempted,
                  gpuReady, applied, aotGeneration, owner, drawn, level0Observed, level0Taken,
                  loadFailed>>
  BY DEF Guest, ActivateGeneration, RewriteMemory, ObserveRead, PublishLevel
<1>2. /\ generation' \in Generations /\ {camera', ratchet'} \subseteq BOOLEAN
      /\ {reading', requestedRuntimeWad2'} \subseteq Wad2 \cup {NotRequested}
      /\ requestedNativeLevel' \in {LevelOf[w] : w \in Wad2} \cup {NotRequested}
  <2>1. CASE \E gen \in Generations : ActivateGeneration(gen)
    BY <2>1 DEF ActivateGeneration, PresentationTypeOK
  <2>2. CASE \E c, r \in BOOLEAN : RewriteMemory(c, r)
    BY <2>2 DEF RewriteMemory, PresentationTypeOK
  <2>3. CASE \E wad2 \in Wad2 : ObserveRead(wad2)
    BY <2>3 DEF ObserveRead, PresentationTypeOK
  <2>4. CASE PublishLevel
    <3>1. reading \in Wad2
      BY <2>4 DEF PublishLevel, PresentationTypeOK
    <3> QED
      BY <2>4, <3>1 DEF PublishLevel, PresentationTypeOK
  <2> QED
    BY <2>1, <2>2, <2>3, <2>4 DEF Guest
<1>3. PresentationTypeOK'
  BY <1>1, <1>2 DEF PresentationTypeOK
<1> QED
  BY <1>1, <1>3 DEF StoppedForGood, FreshBeforeInitialize, ScreenFollowsOwner, LoadedIsIndexed,
                    NativeOwnershipEarned, FailureRecorded

----------------------------------------------------------------------------
(* The autopilot: the counter stays in its cycle, and once it stopped the  *)
(* sample is the live one.                                                 *)
LEMMA SampleInv == ASSUME PresentationInv, NEW live \in LiveInputs, Sample(live) PROVE PresentationInv'
<1> USE DEF PresentationInv, snapshotVars, rendererVars, ownerVars, guestVars, atomics
<1>1. /\ host = "idle" /\ host' = "sampled"
      /\ stopped' = (stopped \/ generation = Level0)
      /\ input' = [live |-> live, buttons |-> IF stopped' THEN live ELSE live \cup Pulse]
      /\ frame' = NextFrame
      /\ level0Observed' = (level0Observed \/ generation = Level0)
      /\ UNCHANGED <<generation, camera, ratchet, reading, requestedRuntimeWad2, requestedNativeLevel,
                     report, liveCamera, ratchetFrame, renderer, attempted, gpuReady, applied,
                     aotGeneration, owner, drawn, level0Taken, loadFailed>>
  BY DEF Sample, Step, StepAutopilot
<1>2. frame' \in 0 .. Neutral + Cycle - 1
  <2>1. Neutral \in Nat \ {0} /\ Cycle \in Nat \ {0} /\ frame \in 0 .. Neutral + Cycle - 1
    BY PresentationAssumption DEF PresentationTypeOK
  <2> QED
    BY <1>1, <2>1 DEF NextFrame
<1>3. input' \in [live : LiveInputs \cup {{}}, buttons : SUBSET Buttons]
  <2>1. Pulse \subseteq {"Start", "Cross"}
    BY DEF Pulse
  <2>2. live \subseteq Buttons /\ live \cup Pulse \subseteq Buttons
    BY <2>1 DEF Buttons
  <2> QED
    BY <1>1, <2>2
<1>4. {stopped', level0Observed'} \subseteq BOOLEAN
  BY <1>1 DEF PresentationTypeOK
<1>5. PresentationTypeOK'
  BY <1>1, <1>2, <1>3, <1>4 DEF PresentationTypeOK
<1>6. StoppedForGood'
  <2>1. stopped' => input'.buttons = input'.live
    BY <1>1
  <2>2. level0Observed' => stopped'
    BY <1>1 DEF StoppedForGood
  <2> QED
    BY <2>1, <2>2 DEF StoppedForGood
<1> QED
  BY <1>1, <1>5, <1>6 DEF FreshBeforeInitialize, ScreenFollowsOwner, LoadedIsIndexed,
                          NativeOwnershipEarned, FailureRecorded

LEMMA PublishInv == ASSUME PresentationInv, Publish PROVE PresentationInv'
<1> USE DEF PresentationInv, autopilotVars, snapshotVars, rendererVars, ownerVars, guestVars, atomics,
            history
<1>1. /\ host = "sampled" /\ host' = "published" /\ report' = input.buttons
      /\ UNCHANGED <<generation, camera, ratchet, reading, requestedRuntimeWad2, requestedNativeLevel,
                     frame, stopped, input, liveCamera, ratchetFrame, renderer, attempted, gpuReady,
                     applied, aotGeneration, owner, drawn, level0Observed, level0Taken, loadFailed>>
  BY DEF Publish, Step
<1>2. PresentationTypeOK'
  BY <1>1 DEF PresentationTypeOK
<1> QED
  BY <1>1, <1>2 DEF StoppedForGood, FreshBeforeInitialize, ScreenFollowsOwner, LoadedIsIndexed,
                    NativeOwnershipEarned, FailureRecorded

----------------------------------------------------------------------------
(* The snapshot, the level load and the GPU upload.                        *)
LEMMA InspectInv == ASSUME PresentationInv, InspectLiveMobyState PROVE PresentationInv'
<1> USE DEF PresentationInv, autopilotVars, rendererVars, ownerVars, guestVars, atomics, history
<1>1. /\ host = "published" /\ host' = "inspected"
      /\ liveCamera' = camera /\ ratchetFrame' = PreparedFrame
      /\ UNCHANGED <<generation, camera, ratchet, reading, requestedRuntimeWad2, requestedNativeLevel,
                     report, frame, stopped, input, renderer, attempted, gpuReady,
                     applied, aotGeneration, owner, drawn, level0Observed, level0Taken, loadFailed>>
  BY DEF InspectLiveMobyState, Step
<1>2. ratchetFrame' \in {LevelOf[w] : w \in Wad2} \cup {NotRequested}
  BY <1>1, PresentationAssumption DEF PreparedFrame, LoadedIsIndexed, Pair
<1>3. PresentationTypeOK'
  BY <1>1, <1>2 DEF PresentationTypeOK
<1> QED
  BY <1>1, <1>3 DEF StoppedForGood, FreshBeforeInitialize, ScreenFollowsOwner, LoadedIsIndexed,
                    NativeOwnershipEarned, FailureRecorded

(* A needed load is for a pair read completely, and it is never needed     *)
(* while native gameplay owns the screen.                                  *)
LEMMA LoadInv == ASSUME PresentationInv, EnsureMappedLevelLoaded PROVE PresentationInv'
<1> USE DEF PresentationInv, autopilotVars, snapshotVars, ownerVars, guestVars, atomics, history
<1>1. /\ host = "inspected" /\ host' = "loaded"
      /\ UNCHANGED <<generation, camera, ratchet, reading, requestedRuntimeWad2, requestedNativeLevel,
                     report, frame, stopped, input, liveCamera, ratchetFrame,
                     applied, aotGeneration, owner, drawn, level0Observed, level0Taken>>
  BY DEF EnsureMappedLevelLoaded, Step
<1>2. StoppedForGood' /\ FreshBeforeInitialize' /\ ScreenFollowsOwner'
  BY <1>1 DEF StoppedForGood, FreshBeforeInitialize, ScreenFollowsOwner
<1>3. CASE NeedsLoad
  <2>1. /\ attempted' = Requested /\ renderer' \in LoadResult /\ gpuReady' = FALSE
        /\ loadFailed' = (loadFailed \/ renderer' # "ok")
    BY <1>3 DEF EnsureMappedLevelLoaded
  <2>2. Requested \in Pair
    BY <1>3 DEF NeedsLoad, Requested, Pair, PresentationTypeOK
  <2>3. /\ renderer' \in {"uninitialized", "ok", "failed"}
        /\ renderer' = "ok" => attempted' \in Indexed
    BY <2>1 DEF LoadResult
  <2>4. owner # "NativeGameplay"
    <3> SUFFICES ASSUME owner = "NativeGameplay" PROVE FALSE
      OBVIOUS
    <3>1. attempted \in Pair
      BY PresentationAssumption DEF NativeOwnershipEarned
    <3>2. attempted = Requested
      BY <2>2, <3>1, OnePair
    <3> QED
      BY <1>3, <3>2 DEF NeedsLoad
  <2>5. PresentationTypeOK'
    BY <1>1, <2>1, <2>2, <2>3 DEF PresentationTypeOK
  <2>6. FailureRecorded'
    <3>1. ~loadFailed
      <4> SUFFICES ASSUME loadFailed PROVE FALSE
        OBVIOUS
      <4>1. attempted \in Pair
        BY <1>1 DEF FailureRecorded, PresentationTypeOK
      <4>2. attempted = Requested
        BY <2>2, <4>1, OnePair
      <4> QED
        BY <1>3, <4>2 DEF NeedsLoad
    <3>2. drawn.screen # "native" /\ owner = "DevelopmentFrontend"
      BY <1>1, <2>4 DEF ScreenFollowsOwner, PresentationTypeOK
    <3>3. Requested # <<>>
      BY DEF Requested
    <3> QED
      BY <1>1, <2>1, <3>1, <3>2, <3>3 DEF FailureRecorded
  <2> QED
    BY <1>1, <1>2, <2>3, <2>4, <2>5, <2>6 DEF LoadedIsIndexed, NativeOwnershipEarned
<1>4. CASE ~NeedsLoad
  <2>1. UNCHANGED <<attempted, renderer, gpuReady, loadFailed>>
    BY <1>4 DEF EnsureMappedLevelLoaded
  <2>2. PresentationTypeOK'
    BY <1>1, <2>1 DEF PresentationTypeOK
  <2> QED
    BY <1>1, <1>2, <2>1, <2>2 DEF LoadedIsIndexed, NativeOwnershipEarned, FailureRecorded
<1> QED
  BY <1>3, <1>4

LEMMA ApplyInv == ASSUME PresentationInv, ApplyLiveRatchetFrame PROVE PresentationInv'
<1> USE DEF PresentationInv, autopilotVars, snapshotVars, ownerVars, guestVars, atomics, history
<1>1. /\ host = "loaded" /\ host' = "applied"
      /\ UNCHANGED <<generation, camera, ratchet, reading, requestedRuntimeWad2, requestedNativeLevel,
                     report, frame, stopped, input, liveCamera, ratchetFrame, renderer, attempted,
                     aotGeneration, owner, drawn, level0Observed, level0Taken, loadFailed>>
  BY DEF ApplyLiveRatchetFrame, Step
<1>2. {gpuReady', applied'} \subseteq BOOLEAN
  BY DEF ApplyLiveRatchetFrame, PresentationTypeOK
<1>3. PresentationTypeOK'
  BY <1>1, <1>2 DEF PresentationTypeOK
<1> QED
  BY <1>1, <1>3 DEF StoppedForGood, FreshBeforeInitialize, ScreenFollowsOwner, LoadedIsIndexed,
                    NativeOwnershipEarned, FailureRecorded

----------------------------------------------------------------------------
(* The ownership state machine.                                            *)
LEMMA InspectOverlayInv == ASSUME PresentationInv, InspectOverlay PROVE PresentationInv'
<1> USE DEF PresentationInv, autopilotVars, snapshotVars, rendererVars, guestVars, atomics, history
<1>1. /\ host = "applied" /\ host' = "overlayRead" /\ aotGeneration' = generation
      /\ UNCHANGED <<generation, camera, ratchet, reading, requestedRuntimeWad2, requestedNativeLevel,
                     report, frame, stopped, input, liveCamera, ratchetFrame, renderer, attempted,
                     gpuReady, applied, owner, drawn, level0Observed, level0Taken, loadFailed>>
  BY DEF InspectOverlay, Step
<1>2. PresentationTypeOK'
  BY <1>1 DEF PresentationTypeOK
<1> QED
  BY <1>1, <1>2 DEF StoppedForGood, FreshBeforeInitialize, ScreenFollowsOwner, LoadedIsIndexed,
                    NativeOwnershipEarned, FailureRecorded

LEMMA ObserveInv == ASSUME PresentationInv, Observe PROVE PresentationInv'
<1> USE DEF PresentationInv, autopilotVars, snapshotVars, rendererVars, guestVars, atomics
<1>1. /\ host = "overlayRead" /\ host' = "observed"
      /\ owner' = (IF Ready THEN "NativeGameplay" ELSE owner)
      /\ level0Taken' = (level0Taken \/ aotGeneration = Level0)
      /\ UNCHANGED <<generation, camera, ratchet, reading, requestedRuntimeWad2, requestedNativeLevel,
                     report, frame, stopped, input, liveCamera, ratchetFrame, renderer, attempted,
                     gpuReady, applied, aotGeneration, drawn, level0Observed, loadFailed>>
  BY DEF Observe, Step
<1>2. level0Taken' \in BOOLEAN /\ owner' \in {"DevelopmentFrontend", "NativeGameplay"}
  BY <1>1 DEF PresentationTypeOK
<1>3. PresentationTypeOK'
  BY <1>1, <1>2 DEF PresentationTypeOK
<1>4. FailureRecorded'
  BY <1>1 DEF FailureRecorded, Ready
<1>5. NativeOwnershipEarned'
  BY <1>1 DEF NativeOwnershipEarned, LoadedIsIndexed, Ready
<1> QED
  BY <1>1, <1>3, <1>4, <1>5 DEF StoppedForGood, FreshBeforeInitialize, ScreenFollowsOwner,
                                LoadedIsIndexed

LEMMA DrawInv == ASSUME PresentationInv, Draw PROVE PresentationInv'
<1> USE DEF PresentationInv, autopilotVars, snapshotVars, rendererVars, ownerVars, guestVars, atomics,
            history
<1>1. /\ host = "observed" /\ host' = "idle"
      /\ drawn'.screen = IF owner = "NativeGameplay" THEN "native" ELSE "development"
      /\ UNCHANGED <<generation, camera, ratchet, reading, requestedRuntimeWad2, requestedNativeLevel,
                     report, frame, stopped, input, liveCamera, ratchetFrame, renderer, attempted,
                     gpuReady, applied, aotGeneration, owner, level0Observed, level0Taken,
                     loadFailed>>
  BY DEF Draw, Step
<1>2. PresentationTypeOK'
  BY <1>1 DEF PresentationTypeOK
<1> QED
  BY <1>1, <1>2 DEF StoppedForGood, FreshBeforeInitialize, ScreenFollowsOwner, LoadedIsIndexed,
                    NativeOwnershipEarned, FailureRecorded

----------------------------------------------------------------------------
(* The callbacks around the frames.                                        *)
LEMMA InitializeInv == ASSUME PresentationInv, Initialize PROVE PresentationInv'
<1> USE DEF PresentationInv, snapshotVars, rendererVars, guestVars, atomics, history
<1>1. /\ host = "created" /\ host' = "idle" /\ owner' = "DevelopmentFrontend"
      /\ frame' = 0 /\ stopped' = FALSE
      /\ UNCHANGED <<generation, camera, ratchet, reading, requestedRuntimeWad2, requestedNativeLevel,
                     report, input, liveCamera, ratchetFrame, renderer, attempted,
                     gpuReady, applied, aotGeneration, drawn, level0Observed, level0Taken,
                     loadFailed>>
  BY DEF Initialize, Step
<1>2. frame' \in 0 .. Neutral + Cycle - 1
  BY <1>1, PresentationAssumption
<1>3. PresentationTypeOK'
  BY <1>1, <1>2 DEF PresentationTypeOK
<1> QED
  BY <1>1, <1>3 DEF StoppedForGood, FreshBeforeInitialize, ScreenFollowsOwner, LoadedIsIndexed,
                    NativeOwnershipEarned, FailureRecorded

LEMMA ShutdownInv == ASSUME PresentationInv, Shutdown PROVE PresentationInv'
<1> USE DEF PresentationInv, guestVars, atomics, history
<1>1. /\ host = "idle" /\ host' = "closed" /\ owner' = "DevelopmentFrontend"
      /\ frame' = 0 /\ stopped' = FALSE
      /\ renderer' = "uninitialized" /\ attempted' = <<>> /\ gpuReady' = FALSE /\ applied' = FALSE
      /\ ratchetFrame' = NotRequested
      /\ UNCHANGED <<generation, camera, ratchet, reading, requestedRuntimeWad2, requestedNativeLevel,
                     report, input, liveCamera, aotGeneration, drawn, level0Observed, level0Taken,
                     loadFailed>>
  BY DEF Shutdown, Step
<1>2. frame' \in 0 .. Neutral + Cycle - 1
  BY <1>1, PresentationAssumption
<1>3. PresentationTypeOK'
  BY <1>1, <1>2 DEF PresentationTypeOK
<1> QED
  BY <1>1, <1>3 DEF StoppedForGood, FreshBeforeInitialize, ScreenFollowsOwner, LoadedIsIndexed,
                    NativeOwnershipEarned, FailureRecorded

----------------------------------------------------------------------------
LEMMA PresentationNextInv ==
  PresentationInv /\ [PresentationNext]_presentationVars => PresentationInv'
<1> SUFFICES ASSUME PresentationInv, [PresentationNext]_presentationVars PROVE PresentationInv'
  OBVIOUS
<1>1. CASE Guest
  BY <1>1, GuestInv
<1>2. CASE Initialize
  BY <1>2, InitializeInv
<1>3. CASE Frame
  BY <1>3, SampleInv, PublishInv, InspectInv, LoadInv, ApplyInv, InspectOverlayInv, ObserveInv, DrawInv
     DEF Frame
<1>4. CASE Shutdown
  BY <1>4, ShutdownInv
<1>5. CASE UNCHANGED presentationVars
  <2>1. UNCHANGED <<generation, camera, ratchet, reading, requestedRuntimeWad2, requestedNativeLevel,
                    report, host, frame, stopped, input, liveCamera, ratchetFrame, renderer, attempted,
                    gpuReady, applied, aotGeneration, owner, drawn, level0Observed, level0Taken,
                    loadFailed>>
    BY <1>5 DEF presentationVars, guestVars, atomics, autopilotVars, snapshotVars, rendererVars,
                ownerVars, history
  <2> QED
    BY <2>1 DEF PresentationInv, PresentationTypeOK, StoppedForGood, FreshBeforeInitialize,
                ScreenFollowsOwner, LoadedIsIndexed, NativeOwnershipEarned, FailureRecorded
<1> QED
  BY <1>1, <1>2, <1>3, <1>4, <1>5 DEF PresentationNext

(* The strengthened invariant: types, the permanent stop, the screen's     *)
(* owner and the loaded renderer.                                          *)
THEOREM PresentationInvariant == PresentationSpec => []PresentationInv
  BY PresentationInitInv, PresentationNextInv, PTL DEF PresentationSpec

(* Types of the host's, the guest's and the shared state.                  *)
THEOREM PresentationTypeCorrect == PresentationSpec => []PresentationTypeOK
<1>1. PresentationInv => PresentationTypeOK
  BY DEF PresentationInv
<1> QED
  BY <1>1, PresentationInvariant, PTL

(* One failed load keeps native gameplay off the screen for good:          *)
(* ensureMappedLevelLoaded never repeats an attempt, and maps one pair.    *)
THEOREM FailedLoadsAreFinal == PresentationSpec => []FailedLoadIsFinal
<1>1. PresentationInv => FailedLoadIsFinal
  BY DEF PresentationInv, FailureRecorded, FailedLoadIsFinal
<1> QED
  BY <1>1, PresentationInvariant, PTL

(* Native gameplay owns the screen only after Level 0 was observed active  *)
(* and with a level of the index loaded: Rac1PresentationOwnership.        *)
THEOREM NativeGameplayIsEarned == PresentationSpec => []NativeOwnershipEarned
<1>1. PresentationInv => NativeOwnershipEarned
  BY DEF PresentationInv
<1> QED
  BY <1>1, PresentationInvariant, PTL

(* After a frame that sampled Level 0, no report carries a synthetic       *)
(* button: the permanent stop of Rac1FrontendAutopilot.                    *)
THEOREM PulsesStopForGood == PresentationSpec => PulsesNeverResume
<1>1. PresentationInv /\ [PresentationNext]_presentationVars =>
        (report' # report /\ level0Observed => report' = input.live)
  <2> SUFFICES ASSUME PresentationInv, [PresentationNext]_presentationVars,
                      report' # report, level0Observed
               PROVE  report' = input.live
    OBVIOUS
  <2>1. Publish
    BY DEF PresentationNext, Guest, ActivateGeneration, RewriteMemory, ObserveRead, PublishLevel,
           Initialize, Frame, Sample, InspectLiveMobyState, EnsureMappedLevelLoaded,
           ApplyLiveRatchetFrame, InspectOverlay, Observe, Draw, Shutdown, presentationVars
  <2> QED
    BY <2>1 DEF Publish, Step, PresentationInv, StoppedForGood
<1> QED
  BY <1>1, PresentationInvariant, PTL DEF PresentationSpec, PulsesNeverResume

(* Once native gameplay has been drawn, every later frame draws it: draw   *)
(* follows an owner that only shutdown takes back.                         *)
THEOREM NativeScreenIsKept == PresentationSpec => ScreenNeverFallsBack
<1>1. PresentationInv /\ [PresentationNext]_presentationVars =>
        (drawn.screen = "native" => drawn'.screen = "native")
  <2> SUFFICES ASSUME PresentationInv, [PresentationNext]_presentationVars, drawn.screen = "native"
               PROVE  drawn'.screen = "native"
    OBVIOUS
  <2>1. CASE Draw
    BY <2>1 DEF Draw, Step, PresentationInv, ScreenFollowsOwner
  <2>2. CASE ~Draw
    <3>1. UNCHANGED drawn
      BY <2>2 DEF PresentationNext, Guest, ActivateGeneration, RewriteMemory, ObserveRead, PublishLevel,
           Initialize, Frame, Sample, Publish, InspectLiveMobyState, EnsureMappedLevelLoaded,
           ApplyLiveRatchetFrame, InspectOverlay, Observe, Shutdown, presentationVars, hostVars
    <3> QED
      BY <3>1
  <2> QED
    BY <2>1, <2>2
<1> QED
  BY <1>1, PresentationInvariant, PTL DEF PresentationSpec, ScreenNeverFallsBack

=============================================================================
