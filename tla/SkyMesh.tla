------------------------------ MODULE SkyMesh ------------------------------
(***************************************************************************)
(* locateRac1RuntimeSky and decodeRac1Sky.  A runtime WAD is a record of   *)
(*   bytes, data, relative  - its decoded size, where its header says the  *)
(*                            data begins and where in it the sky is       *)
(*   shellCount, textureCount, definitions, pixels - the sky's header      *)
(*   textures  - <<[palette, pixels, width, height, alpha], ...>>          *)
(*   shells    - <<[at, clusterCount, flags, clusters], ...>>, a cluster   *)
(*               [data, size, vertexCount, vertexAt, attributeAt, faceAt,  *)
(*                faceCount, faces], a face <<i0, i1, i2, texture>>        *)
(* A count the decoder takes is the number of elements listed.             *)
(***************************************************************************)
EXTENDS PaletteTextures

IsCluster(c) ==
  /\ {c.data, c.size, c.vertexCount, c.vertexAt, c.attributeAt, c.faceAt, c.faceCount} \subseteq Int
  /\ c.faces \in Seq(Nat \X Nat \X Nat \X Nat)

IsWad(w) ==
  /\ {w.bytes, w.data, w.relative} \subseteq Nat /\ {w.definitions, w.pixels} \subseteq Int
  /\ w.textureCount \in Int /\ w.shellCount = Len(w.shells)
  /\ IsSequence(w.textures) /\ IsSequence(w.shells)
  /\ \A t \in Range(w.textures) : {t.palette, t.pixels, t.width, t.height} \subseteq Int
  /\ \A s \in Range(w.shells) :
       /\ {s.at, s.clusterCount} \subseteq Int /\ IsSequence(s.clusters)
       /\ \A c \in Range(s.clusters) : IsCluster(c)

\* Mistake: one shell more than the header has offsets for.
NineShells == 9

kMaxShells == 8
kMaxSkyCount == 2 ^ 20
kUntextured == 255           \* texture byte of a face of a shell without textures

SkyOffset(w) == w.data + w.relative

LocateSteps(w) ==
  <<Require("HeaderTooSmall", w.bytes >= 24, {Bytes(4, 4, w.bytes), Bytes(20, 4, w.bytes)}),
    Require("DataOffsetOutOfRange", w.data <= w.bytes, {}),
    Require("SkyOffsetOutOfRange", RangeFits(<<SkyOffset(w), 64>>, w.bytes), {})>>

----------------------------------------------------------------------------
\* The decoder's span runs from the sky to the end of the runtime WAD.
SkyBytes(w) == w.bytes - SkyOffset(w)

HeaderSteps(w) ==
  <<Require("OffsetOutOfRange", RangeFits(<<SkyOffset(w), 64>>, w.bytes), {}),
    Require("InvalidHeader",
            /\ w.shellCount \in 0 .. kMaxShells /\ w.textureCount \in 0 .. kMaxSkyCount
            /\ w.definitions >= 0 /\ w.pixels >= 0, {}),
    Require("InvalidHeader",
            /\ RangeFits(<<w.definitions, 16 * w.textureCount>>, SkyBytes(w))
            /\ w.pixels <= SkyBytes(w),
            {Bytes(w.definitions, 16 * w.textureCount, SkyBytes(w))})>>

SkyTextureSteps(w, t) ==
  LET palette == w.pixels + t.palette
      pixels == <<w.pixels + t.pixels, t.width * t.height>>
      sky == SkyBytes(w)
  IN <<Require("InvalidTexture", t.palette >= 0 /\ t.pixels >= 0
                                   /\ SideIsValid(t.width) /\ SideIsValid(t.height), {}),
       Require("InvalidTexture", RangeFits(<<palette, kPaletteBytes>>, sky) /\ RangeFits(pixels, sky),
               {<<pixels, sky>>} \union PaletteReads(palette, sky))>>

Textured(shell) == shell.flags % 2 = 0

FaceSteps(w, shell, c, face) ==
  LET corners == {face[i] : i \in 1 .. 3} IN
  <<Require("InvalidFace", \A i \in corners : i < c.vertexCount,
            {Element(i, c.vertexCount) : i \in corners}),
    Require("InvalidFace",
            IF Textured(shell) THEN face[4] < w.textureCount ELSE face[4] = kUntextured, {})>>

ClusterSteps(w, shell, c) ==
  LET sky == SkyBytes(w)
      vertices == <<c.data + c.vertexAt, 8 * c.vertexCount>>
      attributes == <<c.data + c.attributeAt, 4 * c.vertexCount>>
      faces == <<c.data + c.faceAt, 4 * c.faceCount>>
      fields == {c.data, c.vertexCount, c.faceCount, c.vertexAt, c.attributeAt, c.faceAt, c.size}
  IN <<Require("InvalidCluster", \A f \in fields : f >= 0, {}),
       Require("InvalidCluster",
               c.vertexCount <= 255 /\ c.faceCount <= kMaxSkyCount
                 /\ RangeFits(<<c.data, c.size>>, sky), {}),
       Require("InvalidCluster", \A r \in {vertices, attributes, faces} : RangeFits(r, sky),
               {<<r, sky>> : r \in {vertices, attributes, faces}})>>
     \o ForEach([i \in DOMAIN c.faces |-> FaceSteps(w, shell, c, c.faces[i])])

\* Header offset 0x20 holds an offset for each shell, whatever their number.
ShellSteps(w, i) ==
  LET shell == w.shells[i]
      sky == SkyBytes(w)
      clusters == <<shell.at + 16, 32 * shell.clusterCount>>
  IN <<Require("InvalidShell", shell.at >= 0 /\ RangeFits(<<shell.at, 16>>, sky),
               {Bytes(32 + 4 * (i - 1), 4, 64), Bytes(shell.at, 16, sky)}),
       Require("InvalidShell", shell.clusterCount \in 0 .. kMaxSkyCount, {}),
       Require("InvalidShell", RangeFits(clusters, sky), {<<clusters, sky>>})>>
     \o ForEach([n \in DOMAIN shell.clusters |-> ClusterSteps(w, shell, shell.clusters[n])])

SkyFaces(w) ==
  FlattenSeq([s \in DOMAIN w.shells |-> FlattenSeq([c \in DOMAIN w.shells[s].clusters |->
    [f \in DOMAIN w.shells[s].clusters[c].faces |->
      [shell |-> s - 1,
       material |-> IF Textured(w.shells[s]) THEN w.shells[s].clusters[c].faces[f][4]
                    ELSE kNoMaterial]]])])

SkySteps(w) ==
  LET textures == ForEach([i \in DOMAIN w.textures |-> SkyTextureSteps(w, w.textures[i])])
      shells == ForEach([i \in DOMAIN w.shells |-> ShellSteps(w, i)])
      triangles == <<Require("EmptySky", w.shellCount = 0 \/ SkyFaces(w) # <<>>, {})>>
  IN Then(Then(Then(HeaderSteps(w), textures), shells), triangles)

----------------------------------------------------------------------------
\* The mesh of a sky that was accepted: a batch for each shell and material,
\* in the order they appear.
SkyIdentities(w) ==
  [i \in DOMAIN w.shells |-> [source |-> w.shells[i].at, clusters |-> w.shells[i].clusterCount,
                              flags |-> w.shells[i].flags]]

BatchPerFace(faces) ==
  LET order == FirstOfEach(faces) IN
  [i \in DOMAIN order |->
     [kind |-> "sky", shell |-> order[i].shell, material |-> order[i].material, finite |-> TRUE,
      vertices |-> 3 * Cardinality({n \in DOMAIN faces : faces[n] = order[i]})]]

SkyBatches(w) == BatchPerFace(SkyFaces(w))
=============================================================================
