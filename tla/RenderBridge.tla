---------------------------- MODULE RenderBridge ----------------------------
(***************************************************************************)
(* How the frame's live snapshots are matched with the native level that   *)
(* is loaded, and the accounting of what was drawn.  A catalog is what     *)
(* loadLevel left in the renderer:                                         *)
(*   ready   - status() is Ok                                              *)
(*   classes - kind of each native moby class, by oClass                   *)
(*   shells  - identity of each native sky shell                           *)
(* When ready is FALSE the rest is empty.                                  *)
(***************************************************************************)
EXTENDS LiveAnimation

Kinds == {"RenderableTopology", "IntentionallyInvisible", "ClassOnly"}
NoCatalog == [ready |-> FALSE, classes |-> <<>>, shells |-> <<>>]

----------------------------------------------------------------------------
(* mapLiveMobyClassIdentity.  The catalog is a function, so it has no      *)
(* duplicate class: loadLevel refuses one.                                 *)
NoClassMap(status) ==
  [status |-> status, records |-> 0, active |-> 0, inactive |-> 0, mapped |-> 0,
   runtimeOnly |-> 0, kinds |-> [k \in Kinds |-> 0], issues |-> 0, unaccounted |-> 0]

Confirmed(entries) == {i \in DOMAIN entries : entries[i].status = "Ok"}
Known(entries, classes) == {i \in Confirmed(entries) : entries[i].oClass \in DOMAIN classes}
OfKind(entries, classes, k) == {i \in Known(entries, classes) : classes[entries[i].oClass] = k}

ClassMapCounts(registry, catalog) ==
  LET confirmed == Confirmed(registry.entries)
      issues == Cardinality(DOMAIN registry.entries \ confirmed)
  IN [status |-> "Ok", records |-> registry.records,
      active |-> registry.active, inactive |-> registry.inactive,
      mapped |-> Cardinality(confirmed),
      runtimeOnly |-> Cardinality(confirmed \ Known(registry.entries, catalog.classes)),
      kinds |-> [k \in Kinds |-> Cardinality(OfKind(registry.entries, catalog.classes, k))],
      issues |-> issues, unaccounted |-> issues]

CountsMatch(pool, registry, map) ==
  /\ map.records = pool.slotsBeforeTerminator
  /\ map.active = pool.traversed /\ map.inactive = pool.skipped
  /\ map.active + map.inactive = map.records
  /\ registry.records = Len(pool.records) /\ Cardinality(DOMAIN registry.entries) = map.active
  /\ map.mapped + map.issues = map.active
  /\ map.kinds["RenderableTopology"] + map.kinds["IntentionallyInvisible"]
       + map.kinds["ClassOnly"] + map.runtimeOnly = map.mapped

ClassMap(pool, registry, catalog) ==
  IF pool.status # "Ok" THEN NoClassMap("PoolUnavailable")
  ELSE IF registry.status # "Ok" THEN NoClassMap("RetailRegistryUnavailable")
  ELSE IF catalog.classes = <<>> THEN NoClassMap("NativeClassCatalogUnavailable")
  ELSE LET map == ClassMapCounts(registry, catalog)
           matches == CountsMatch(pool, registry, map)
       IN [map EXCEPT
             !.unaccounted = IF matches THEN @ ELSE @ + 1,
             !.status = IF ~matches THEN "AccountingMismatch"
                        ELSE IF map.issues # 0 THEN "RetailRegistryIdentityMismatch" ELSE @]

----------------------------------------------------------------------------
(* mapLiveSkyRenderState                                                   *)
SamePlace(live, native, address) ==    \* Mistake: only the shell's address is compared.
  live.at = address + native.offset

SameShell(live, native, address) ==
  /\ live.at = address + native.offset
  /\ live.clusters = native.clusters /\ live.flags = native.flags

SkyMapStatus(shells, sky) ==
  IF shells = <<>> THEN "NativeSkyUnavailable"
  ELSE IF sky.identityMaterialized /\ Len(sky.shells) # Len(shells) THEN "ShellCountMismatch"
  ELSE IF /\ sky.identityMaterialized
          /\ \E i \in DOMAIN shells : ~SameShell(sky.shells[i], shells[i], sky.address)
  THEN "ShellIdentityMismatch"
  ELSE IF sky.status \in SkyDeferredStatuses THEN "LiveTransformDeferred"
  ELSE IF sky.status # "Ok" \/ ~sky.identityMaterialized THEN "LiveTransformInvalid"
  ELSE "Ok"

SkyMap(shells, sky) ==
  LET status == SkyMapStatus(shells, sky) IN
  [status |-> status,
   mapped |-> IF status = "NativeSkyUnavailable" THEN 0 ELSE 1,
   materialized |-> IF status = "Ok" THEN 1 ELSE 0,
   deferred |-> IF status = "LiveTransformDeferred" THEN 1 ELSE 0,
   unaccounted |-> IF status \in {"ShellCountMismatch", "ShellIdentityMismatch",
                                  "LiveTransformInvalid"} THEN 1 ELSE 0]

----------------------------------------------------------------------------
(* identifyLiveRatchetRenderIdentity                                       *)
IdentityStatus(topology, animation, transform) ==
  IF ~topology THEN "NativeTopologyUnavailable"
  ELSE IF ~(/\ animation.status \in {"Ok", "EndpointsNotMaterialized"}
            /\ animation.candidates = 1 /\ animation.moby # 0)
  THEN "AnimationIdentityUnavailable"
  ELSE IF ~(/\ transform.status \in {"Ok", "RotationBasisNotMaterialized"}
            /\ transform.candidates = 1 /\ transform.moby # 0)
  THEN "TransformIdentityUnavailable"
  ELSE IF transform.oClass # 0 THEN "OClassMismatch"
  ELSE IF animation.moby # transform.moby THEN "MobyAddressMismatch"
  ELSE "Ok"

(* prepareLiveRatchetFrame.  Whether a decoded pose can be skinned is also *)
(* up to the packets; when it can, the vertex count is the one loadLevel   *)
(* required of the class.                                                  *)
Unskinnable(mem, e) == mem.packet[e.observed].quality = "unskinnable"

FrameStatus(mem, catalog, animation, transform) ==
  IF ~catalog.ready THEN "RendererNotReady"
  ELSE IF IdentityStatus(TRUE, animation, transform) # "Ok" THEN "IdentityNotMapped"
  ELSE IF animation.status # "Ok" THEN "AnimationNotMaterialized"
  ELSE IF transform.status # "Ok" THEN "TransformNotMaterialized"
  ELSE IF PoseStatus(mem, animation) # "Ok" THEN "PoseDecodeFailed"
  ELSE IF Unskinnable(mem, animation.a) \/ Unskinnable(mem, animation.b)
  THEN "SkinExecutionFailed"
  ELSE "Ok"
=============================================================================
