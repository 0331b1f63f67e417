--------------------------- MODULE CollisionMesh ---------------------------
(***************************************************************************)
(* decodeRac1Collision.  A collision block is a record of                  *)
(*   offset, mesh, hero - where it is in the core, where its mesh and hero *)
(*                        groups are in it (no groups at 0)                *)
(*   axis               - the Z axis, [at, cells]; a cell is "empty" or    *)
(*                        the Y axis below it, whose cells are X axes,     *)
(*                        whose cells are octants                          *)
(*                        [at, units, vertices, faces, quads], a face a    *)
(*                        sequence of three vertices, four when it is of   *)
(*                        the first quads faces                            *)
(*   groups             - <<[data, vertices, faces], ...>>                 *)
(* Offsets of axes and octants are from the mesh, 0 or "empty" means none. *)
(* Coordinates are not modelled.  Nothing in the runtime decodes collision *)
(* yet; its callers are tests.                                             *)
(***************************************************************************)
EXTENDS CheckedReads

CONSTANT Collisions      \* <<size of the core, block>> a caller may decode

VARIABLE collision       \* the block decoded last, and its status

EmptyCell == [at |-> 0]

AxisOver(below) == [at : Int, cells : Seq(below \union {EmptyCell})]
Octant == [at : Int, units : Nat, vertices : Nat, faces : Seq(Seq(Nat)), quads : Nat]
HeroGroup == [data : Nat, vertices : Nat, faces : Seq(Seq(Nat))]

ASSUME CollisionsAssumption ==
  Collisions \subseteq
    Nat \X [offset : Nat, mesh : Int, hero : Int, axis : AxisOver(AxisOver(AxisOver(Octant))),
            groups : Seq(HeroGroup)]

Units16(bytes) == (bytes + 15) \div 16

\* An axis: a header of four bytes and width bytes for each of its cells.
AxisSteps(axis, width, mesh) ==
  LET header == <<axis.at, 4>>
      cells == <<axis.at + 4, width * Len(axis.cells)>>
  IN <<Require("AxisOutOfRange", axis.at >= 0 /\ RangeFits(header, mesh), {<<header, mesh>>}),
       Require("AxisOutOfRange", RangeFits(cells, mesh), {<<cells, mesh>>})>>

CellSteps(cells, steps) ==
  ForEach([i \in DOMAIN cells |-> IF cells[i] = EmptyCell THEN <<>> ELSE steps[i]])

\* Mistake: a face may name the vertex after the last one.
FaceReachesPast(face, vertices) == \A i \in DOMAIN face : face[i] <= vertices

FaceIsValid(face, vertices) == \A i \in DOMAIN face : face[i] < vertices

CollisionFaceSteps(faces, vertices) ==
  ForEach([f \in DOMAIN faces |->
    <<Require("FaceIndexOutOfRange", FaceIsValid(faces[f], vertices),
              {Element(index, vertices) : index \in Range(faces[f])})>>])

OctantSteps(o, mesh) ==
  LET vertices == <<o.at + 4, 4 * o.vertices>>
      faces == <<vertices[1] + vertices[2], 4 * Len(o.faces)>>
      quads == <<faces[1] + faces[2], o.quads>>
  IN <<Require("OctantOutOfRange", o.at > 0 /\ o.units # 0 /\ RangeFits(<<o.at, 4>>, mesh),
               {Bytes(o.at, 4, mesh)}),
       Require("OctantOutOfRange", o.quads <= Len(o.faces), {}),
       Require("OctantOutOfRange", RangeFits(vertices, mesh), {<<vertices, mesh>>}),
       Require("OctantOutOfRange", RangeFits(faces, mesh), {<<faces, mesh>>}),
       Require("OctantOutOfRange", RangeFits(quads, mesh), {<<quads, mesh>>}),
       Require("OctantOutOfRange", o.units = Units16(quads[1] + quads[2] - o.at), {})>>
     \o CollisionFaceSteps(o.faces, o.vertices)

XAxisSteps(x, mesh) ==
  Then(AxisSteps(x, 4, mesh),
       CellSteps(x.cells, [i \in DOMAIN x.cells |-> OctantSteps(x.cells[i], mesh)]))

YAxisSteps(y, mesh) ==
  Then(AxisSteps(y, 4, mesh),
       CellSteps(y.cells, [i \in DOMAIN y.cells |-> XAxisSteps(y.cells[i], mesh)]))

MeshSteps(z, mesh) ==
  Then(AxisSteps(z, 2, mesh),
       CellSteps(z.cells, [i \in DOMAIN z.cells |-> YAxisSteps(z.cells[i], mesh)]))

GroupSteps(g, hero) ==
  LET data == <<g.data, 8 * g.vertices + 4 * Len(g.faces)>> IN
  Then(<<Require("HeroGroupsOutOfRange", RangeFits(data, hero), {<<data, hero>>})>>,
       CollisionFaceSteps(g.faces, g.vertices))

HeroSteps(c, bytes) ==
  LET hero == bytes - c.hero
      table == <<16, 16 * Len(c.groups)>>
  IN IF c.hero = 0 THEN <<>>
     ELSE Then(<<Require("HeroGroupsOutOfRange", c.hero >= 0 /\ RangeFits(<<c.hero, 16>>, bytes), {}),
                 Require("HeroGroupsOutOfRange", RangeFits(table, hero), {<<table, hero>>})>>,
               ForEach([i \in DOMAIN c.groups |-> GroupSteps(c.groups[i], hero)]))

\* A quad is two triangles.
CollisionTriangles(c) ==
  LET below(axis) == Range(axis.cells) \ {EmptyCell}
      octants == UNION {UNION {below(x) : x \in below(y)} : y \in below(c.axis)}
      drawn(o) == Len(o.faces) + o.quads
      inGroups == IF c.hero = 0 THEN 0 ELSE FoldLeft(LAMBDA n, g : n + Len(g.faces), 0, c.groups)
  IN FoldSet(LAMBDA o, n : n + drawn(o), inGroups, octants)

CollisionSteps(core, c) ==
  LET bytes == core - c.offset
      header ==
        <<Require("OffsetOutOfRange", RangeFits(<<c.offset, 8>>, core), {Bytes(c.offset, 8, core)}),
          Require("HeaderOutOfRange", c.mesh >= 0, {}),
          Require("MeshOutOfRange", RangeFits(<<c.mesh, 4>>, bytes), {})>>
  IN Then(Then(Then(header, MeshSteps(c.axis, bytes - c.mesh)), HeroSteps(c, bytes)),
          <<Require("EmptyMesh", CollisionTriangles(c) > 0, {})>>)

NoCollision == [status |-> "none", reads |-> {}]

CollisionInit == collision = NoCollision

CollisionDecoded ==
  [c \in Collisions |-> [status |-> Outcome(CollisionSteps(c[1], c[2])),
                         reads |-> ReadsOf(CollisionSteps(c[1], c[2]))]]

DecodeCollision == \E c \in Collisions : collision' = CollisionDecoded[c]

CollisionSpec == CollisionInit /\ [][DecodeCollision]_collision

\* Every read of a collision block is inside the core, mesh or vertex list.
CollisionReadsStayInRange ==
  \A read \in collision.reads : read[1][1] >= 0 /\ RangeFits(read[1], read[2])
=============================================================================
