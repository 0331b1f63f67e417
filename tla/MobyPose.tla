------------------------------ MODULE MobyPose ------------------------------
(***************************************************************************)
(* From two frame packets to skinned vertices: the pose of a class's rig,  *)
(* its skinning program run in VU0 memory, and the batches the renderer    *)
(* keeps of it.  A frame packet is a record of                             *)
(*   bytes, payload      - its size, and that of its payload in qwords     *)
(*   stream1, stream2    - [at, count] of its sparse streams               *)
(*   compressed, moved   - their entries: <<active, joint>>, and joints    *)
(*   unit                - its rotations can be blended                    *)
(*   palette, vertices   - what the matrices and the vertices become is    *)
(*                         finite                                          *)
(* and of a class the rig's parents (kRoot, a joint, or kNoParent for a    *)
(* pointer that is none) are read here.  The interpolation is in range:    *)
(* LiveAnimation refuses a selection where it is not.                      *)
(***************************************************************************)
EXTENDS MobyAnimation

IsFrame(f) ==
  /\ {f.bytes, f.payload, f.stream1.at, f.stream1.count, f.stream2.at, f.stream2.count} \subseteq Nat
  /\ f.compressed \in Seq(BOOLEAN \X Nat) /\ f.moved \in Seq(Nat)

kRoot == -1
kNoParent == -2
kMatrixSlots == 64

----------------------------------------------------------------------------
(* resolvePosePacketView: a rotation for every joint, then two streams.    *)
ActiveEntries(f) ==
  {i \in 1 .. f.stream1.count : ItemAt(f.compressed, i - 1, <<FALSE, 0>>)[1]}

StreamJoints(f) ==
  {f.compressed[i][2] : i \in ActiveEntries(f)}
    \union {ItemAt(f.moved, i - 1, 0) : i \in 1 .. f.stream2.count}

EntryReads(f, joints) ==
  LET second == 16 + 8 * joints + 8 * f.stream1.count IN
  {Bytes(16 + 8 * j, 8, f.bytes) : j \in 0 .. joints - 1}
    \union {Bytes(16 + 8 * joints + 8 * i, 7, f.bytes) : i \in 0 .. f.stream1.count - 1}
    \union {Bytes(second + 8 * i, 7, f.bytes) : i \in 0 .. f.stream2.count - 1}

PacketViewSteps(class, f) ==
  LET dense == 8 * class.joints
      second == dense + 8 * f.stream1.count
      unused == 16 * f.payload - second - 8 * f.stream2.count
  IN <<Require("FrameOutOfRange", RangeFits(<<0, 16>>, f.bytes), {Bytes(0, 16, f.bytes)}),
       Require("FrameOutOfRange", RangeFits(<<0, 16 + 16 * f.payload>>, f.bytes), {}),
       Require("InvalidSparseLayout", dense <= 16 * f.payload, {}),
       Require("InvalidSparseLayout",
               /\ f.stream1.at = dense /\ f.stream2.at = second
               /\ unused \in 0 .. 15 /\ unused % 8 = 0, EntryReads(f, class.joints)),
       Require("InvalidSparseJointIndex", \A j \in StreamJoints(f) : j < class.joints,
               {Element(j, class.joints) : j \in StreamJoints(f)}),
       Require("UnsupportedSparseFrame", ActiveEntries(f) = {}, {})>>

\* blendResolvedPoseViews: joints in order, each after its parent.
ParentOf(class, joint) == ItemAt(class.parents, joint, kRoot)

BlendSteps(class, a, b) ==
  LET joints == 0 .. class.joints - 1
      linked == {j \in joints : ParentOf(class, j) # kRoot}
  IN <<Require("InvalidCommonTransform", class.finite, {Element(j, class.joints) : j \in joints}),
       Require("NonFinitePose", a.unit /\ b.unit, {}),
       Require("InvalidParentPointer", \A j \in linked : ParentOf(class, j) \in 0 .. j - 1,
               {Element(ParentOf(class, j), j) : j \in linked})>>

PoseSteps(class, a, b) ==
  Then(PacketViewSteps(class, a), Then(PacketViewSteps(class, b), BlendSteps(class, a, b)))

----------------------------------------------------------------------------
(* executeRac1MobySkinningProgram.  An operation stores a joint's matrix,  *)
(* loads some, and may store the blend; what a packet leaves in VU0 memory *)
(* the next one may load.                                                  *)
NoJoint == -1
NoStore == -1

Operation(joint, store, loads, blend) ==
  [joint |-> joint, store |-> store, loads |-> loads, blend |-> blend]

VertexOperation(p, i) ==
  LET row == VertexRow(p, i) IN
  CASE VertexKind(p, i) = "TwoWay" -> Operation(row.low7, row.b6, {row.b2, row.b3}, row.b7)
    [] VertexKind(p, i) = "ThreeWay" ->
         Operation(NoJoint, NoStore, {row.b2, row.b3, PackedL3(row)}, row.b7)
    [] VertexKind(p, i) = "Main" -> Operation(row.low7, row.b3, {row.b2}, NoStore)

PacketProgram(p) ==
  LET transfers == Transfers(p) IN
  [t \in DOMAIN transfers |-> Operation(transfers[t][1], transfers[t][2], {}, NoStore)]
    \o [i \in 1 .. VertexCount(p) |-> VertexOperation(p, i - 1)]

SlotOf(address) == address \div 4

Execute(joints, r, op) ==
  LET stored == r.written \union (IF op.store = NoStore THEN {} ELSE {SlotOf(op.store)})
      blended == stored \union (IF op.blend = NoStore THEN {} ELSE {SlotOf(op.blend)})
      loads == {SlotOf(a) : a \in op.loads}
      touched == {Element(slot, kMatrixSlots) : slot \in blended \union loads}
                   \union (IF op.joint = NoJoint THEN {} ELSE {Element(op.joint, joints)})
  IN IF r.status # "Ok" THEN r
     ELSE IF op.joint >= joints THEN [r EXCEPT !.status = "JointIndexOutOfRange"]
     ELSE IF ~(loads \subseteq stored) THEN [r EXCEPT !.status = "Vu0ReadBeforeWrite"]
     ELSE [r EXCEPT !.written = blended, !.reads = @ \union touched]

Execution(class) ==
  LET program == FlattenSeq([i \in DOMAIN class.packets |-> PacketProgram(class.packets[i])])
      after[n \in 0 .. Len(program)] ==
        IF n = 0 THEN [status |-> "Ok", written |-> {}, reads |-> {}]
        ELSE Execute(class.joints, after[n - 1], program[n])
  IN after[Len(program)]

ExecutionSteps(execution, a, b) ==
  <<Reading(execution.reads), Require(execution.status, execution.status = "Ok", {}),
    Require("NonFiniteVertex", a.vertices /\ b.vertices, {})>>

SkinSteps(class, a, b) ==
  <<Require("NoSkeleton", class.joints # 0, {}),
    Require("NonFiniteMatrix", a.palette /\ b.palette, {})>>
    \o ExecutionSteps(Execution(class), a, b)

----------------------------------------------------------------------------
(* A batch of triangles drawn with skinned vertices: its indexes into them.*)
SkinIndexes(batch) == FlattenSeq([t \in DOMAIN batch.triangles |-> batch.triangles[t].corners])

\* appendSkinnedMobyBatch, and updateSkinnedMobyBatches for a later pose.
BatchIsSkinned(indexes, skinVertices) ==
  \A v \in Range(indexes) : v \in 0 .. skinVertices - 1

SkinBatchSteps(batch, textures, skinVertices) ==
  <<Require("GpuUploadFailed",
            batch.material \in 0 .. textures - 1 /\ BatchIsSkinned(SkinIndexes(batch), skinVertices),
            {Element(batch.material, textures)}
              \union {Element(v, skinVertices) : v \in Range(SkinIndexes(batch))})>>

UpdateSteps(indexes, skinVertices) ==
  <<Require("GpuUploadFailed", BatchIsSkinned(indexes, skinVertices),
            {Element(v, skinVertices) : v \in Range(indexes)})>>
=============================================================================
