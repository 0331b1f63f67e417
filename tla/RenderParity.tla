---------------------------- MODULE RenderParity ----------------------------
(***************************************************************************)
(* buildRac1StaticWorldParityDigest and the GPU side of drawing: batches   *)
(* [kind, shell, material, vertices, finite] as the decoders make them,    *)
(* and textures by kind, a sequence of [alpha] records each.  Of the       *)
(* digest's hashes only the draw order is modelled.                        *)
(***************************************************************************)
EXTENDS PaletteTextures

BatchSteps(batch, invalid, textures) ==
  <<Require(invalid, batch.vertices # 0 /\ batch.vertices % 3 = 0, {}),
    Require("InvalidMaterialIndex", batch.material \in 0 .. Len(textures[batch.kind]) - 1,
            {Element(batch.material, Len(textures[batch.kind]))}),
    Require("NonFiniteVertex", batch.finite, {})>>

ParitySteps(terrain, static, textures) ==
  LET of(batches, invalid) == ForEach([i \in DOMAIN batches |-> BatchSteps(batches[i], invalid, textures)]) IN
  Then(Then(<<Require("EmptyWorld", terrain # <<>> /\ static # <<>>, {})>>,
            of(terrain, "InvalidTerrainBatch")),
       of(static, "InvalidStaticBatch"))

HasAlpha(batch, textures) == textures[batch.kind][batch.material + 1].alpha

\* What the draw-order hash is fed with: <<kind, material, alpha>>, opaque first.
DigestOrder(batches, textures) ==
  LET pass(transparent) ==
        Select(batches, {i \in DOMAIN batches : HasAlpha(batches[i], textures) = transparent})
      named(b) == <<b.kind, b.material, HasAlpha(b, textures)>>
      order == pass(FALSE) \o pass(TRUE)
  IN [i \in DOMAIN order |-> named(order[i])]

----------------------------------------------------------------------------
(* appendMeshBatch: a batch is uploaded with the transparency of its       *)
(* texture; an empty one is not, and is no failure.  A sky batch without a *)
(* texture is transparent if a vertex is, which is not modelled.           *)
BatchIsUploadable(batch, textures) ==
  batch.vertices = 0 \/ batch.material = kNoMaterial
    \/ batch.material < Len(textures[batch.kind])

UploadedBatches(batches, textures) ==
  LET uploaded == Select(batches, {i \in DOMAIN batches : batches[i].vertices # 0})
      transparent(b) == b.material # kNoMaterial /\ HasAlpha(b, textures)
  IN [i \in DOMAIN uploaded |->
        [kind |-> uploaded[i].kind, shell |-> uploaded[i].shell,
         material |-> uploaded[i].material, transparent |-> transparent(uploaded[i])]]

\* drawBatches draws a vector of batches in two passes.
DrawOrder(uploaded) ==
  LET pass(wanted) == Select(uploaded, {i \in DOMAIN uploaded : uploaded[i].transparent = wanted})
      order == pass(FALSE) \o pass(TRUE)
  IN [i \in DOMAIN order |-> <<order[i].kind, order[i].material, order[i].transparent>>]
=============================================================================
