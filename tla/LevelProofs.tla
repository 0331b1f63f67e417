----------------------------- MODULE LevelProofs -----------------------------
(***************************************************************************)
(* A whole level: the mobys, Ratchet's rig, bank and skinning program, and *)
(* Rac1RuntimeRenderer over all the decoders.  For every level, pose and   *)
(* GPU, loading and skinning read only inside what they read from.         *)
(***************************************************************************)
EXTENDS BootAndLoadProofs, LevelLoad

----------------------------------------------------------------------------
(* The meshes of mobys: packets, streams and the vertex cache.             *)

\* What the fields of a packet are, one by one.
LEMMA MobyPacketFacts ==
  ASSUME NEW p, IsMobyPacket(p)
  PROVE  /\ p.vif \in Int /\ p.vertexAt \in Int /\ p.size \in Nat /\ p.dataSize \in Nat
         /\ p.transfers \in Nat /\ IsPacket(p.commands)
         /\ p.counts.matrix \in Int /\ p.counts.two \in Int /\ p.counts.three \in Int
         /\ p.counts.main \in Int /\ p.counts.duplicate \in Int /\ p.counts.transfer \in Int
         /\ p.counts.vertices \in Int /\ p.counts.end \in Int
         /\ VertexCount(p) \in Int /\ SerializedBlocks(p) \in Int
<1>1. /\ p.vif \in Int /\ p.vertexAt \in Int /\ p.size \in Nat /\ p.dataSize \in Nat
      /\ p.transfers \in Nat /\ IsPacket(p.commands)
  BY DEF IsMobyPacket
<1> DEFINE names == {"matrix", "two", "three", "main", "duplicate", "transfer", "vertices", "end"}
<1>2. p.counts \in [names -> Int]
  BY DEF IsMobyPacket
<1>3. \A name \in names : p.counts[name] \in Int
  <2> HIDE DEF names
  <2> QED BY <1>2
<1>4. /\ p.counts.matrix \in Int /\ p.counts.two \in Int /\ p.counts.three \in Int
      /\ p.counts.main \in Int /\ p.counts.duplicate \in Int /\ p.counts.transfer \in Int
      /\ p.counts.vertices \in Int /\ p.counts.end \in Int
  BY <1>3
<1>5. VertexCount(p) \in Int /\ SerializedBlocks(p) \in Int
  BY <1>4 DEF VertexCount, SerializedBlocks
<1> QED BY <1>1, <1>4, <1>5

\* What the stream of a packet is read from, once its unpacks are there.
LEMMA StreamReadsInRange ==
  ASSUME NEW p, NEW unpacks, LogicalBytes(unpacks[2]) \in Nat, LogicalBytes(unpacks[2]) >= 4,
         p.textured => LogicalBytes(unpacks[3]) \in Nat
  PROVE  \A r \in StreamReads(p, unpacks) : InRange(r)
<1> DEFINE second == LogicalBytes(unpacks[2])
           third == LogicalBytes(unpacks[3])
           of(i) == {Bytes(16 * i + 12, 1, third), Bytes(64 * i + 32, 4, third)}
           records == IF p.textured THEN UNION {of(i) : i \in 0 .. third \div 64 - 1} ELSE {}
<1>1. StreamReads(p, unpacks) = {Bytes(2, 1, second), Bytes(4, second - 4, second)} \union records
  BY DEF StreamReads
<1>2. second \in Nat /\ second >= 4 /\ (p.textured => third \in Nat)
  OBVIOUS
<1> HIDE DEF second, third
<1>3. InRange(Bytes(2, 1, second)) /\ InRange(Bytes(4, second - 4, second))
  BY <1>2 DEF InRange, RangeFits, Bytes
<1>4. ASSUME p.textured, NEW i \in 0 .. third \div 64 - 1 PROVE \A r \in of(i) : InRange(r)
  <2>1. third \in Nat /\ i \in Nat /\ 64 * (i + 1) <= third
    BY <1>2, <1>4
  <2> QED BY <2>1 DEF InRange, RangeFits, Bytes
<1>5. \A r \in records : InRange(r)
  <2> HIDE DEF of
  <2> QED BY <1>4
<1> HIDE DEF records
<1> QED BY <1>1, <1>3, <1>5

\* A packet whose VIF code was accepted.
IsUnpacked(p) ==
  /\ p.vertexAt >= 0 /\ Len(PacketUnpacks(p)) = (IF p.textured THEN 3 ELSE 2)
  /\ LogicalBytes(PacketUnpacks(p)[2]) >= 4

(* A moby packet's VIF code.                                               *)
LEMMA VifStepsSound ==
  ASSUME NEW core \in Int, NEW class, IsMobyClass(class), NEW p, IsMobyPacket(p)
  PROVE  /\ Sound(VifSteps(core, class, p))
         /\ AllHold(VifSteps(core, class, p)) => IsUnpacked(p)
<1> DEFINE unpacks == PacketUnpacks(p)
           vif == <<class.at + p.vif, 16 * p.size>>
           placed == p.vif >= 0 /\ p.vertexAt >= 0 /\ p.size # 0
           fits == RangeFits(vif, core)
           whole == <<vif, core>>
           valid == VifStatus(16 * p.size, p.commands, TRUE) = "Ok"
           counted == Len(unpacks) = IF p.textured THEN 3 ELSE 2
           aligned == LogicalBytes(unpacks[1]) % 4 = 0 /\ LogicalBytes(unpacks[2]) >= 4
           records == p.textured => LogicalBytes(unpacks[3]) % 64 = 0
           reads == StreamReads(p, unpacks)
           first == <<Require("InvalidPacket", placed, {}), Require("InvalidPacket", fits, {whole}),
                      Require("InvalidVifLayout", valid, {}), Require("InvalidVifLayout", counted, {})>>
           second == <<Require("InvalidVifLayout", aligned, {}), Require("InvalidVifLayout", records, reads)>>
<1>1. VifSteps(core, class, p) = Then(first, second)
  BY DEF VifSteps
<1>2. class.at \in Nat /\ p.vif \in Int /\ p.size \in Nat /\ IsPacket(p.commands)
  BY MobyPacketFacts DEF IsMobyClass
<1>3. placed /\ fits => InRange(whole)
  BY <1>2 DEF InRange
<1>4. unpacks \in Seq(Range(p.commands))
  <2> DEFINE size == 16 * p.size
  <2>1. size \in Int /\ unpacks = Unpacks(size, p.commands, TRUE)
    BY <1>2 DEF PacketUnpacks
  <2> HIDE DEF size, unpacks
  <2> QED BY <1>2, <2>1, VifParseFacts
<1>5. counted =>
        /\ LogicalBytes(unpacks[2]) \in Nat
        /\ p.textured => LogicalBytes(unpacks[3]) \in Nat
  <2> HIDE DEF unpacks
  <2>1. counted => Len(unpacks) \in Int /\ 2 <= Len(unpacks) /\ (p.textured => 3 <= Len(unpacks))
    OBVIOUS
  <2> HIDE DEF counted
  <2> QED BY <1>2, <1>4, <2>1, UnpackFacts
<1>6. counted /\ aligned => \A r \in reads : InRange(r)
  <2> HIDE DEF unpacks, counted
  <2> QED BY <1>5, StreamReadsInRange
<1>7. placed /\ counted /\ aligned => IsUnpacked(p)
  BY DEF IsUnpacked
<1> HIDE DEF placed, fits, whole, valid, counted, aligned, records, reads
<1>8. Sound(first) /\ (AllHold(first) => placed /\ counted)
  <2>1. Sound(first)
    BY <1>3 DEF Require, Sound, IsSteps, FailuresNamed, Verdicts, Guarded
  <2>2. AllHold(first) => placed /\ counted
    BY DEF AllHold, Require
  <2> QED BY <2>1, <2>2
<1>9. (counted => Sound(second)) /\ (AllHold(second) => aligned)
  <2>1. counted => Sound(second)
    BY <1>6 DEF Require, Sound, IsSteps, FailuresNamed, Verdicts, Guarded
  <2>2. AllHold(second) => aligned
    BY DEF AllHold, Require
  <2> QED BY <2>1, <2>2
<1> HIDE DEF first, second
<1>10. /\ Sound(Then(first, second))
       /\ AllHold(Then(first, second)) => AllHold(first) /\ AllHold(second)
  BY <1>8, <1>9, ThenSound
<1> QED BY <1>1, <1>7, <1>8, <1>9, <1>10

----------------------------------------------------------------------------
\* A packet whose vertex table was accepted.
IsTabled(p) == VertexCount(p) \in Nat /\ p.counts.duplicate \in Nat

(* A moby packet's vertex table, from its counts.                          *)
LEMMA VertexTableStepsSound ==
  ASSUME NEW core \in Int, NEW class, IsMobyClass(class), NEW p, IsMobyPacket(p), p.vertexAt >= 0
  PROVE  /\ Sound(VertexTableSteps(core, class, p))
         /\ AllHold(VertexTableSteps(core, class, p)) => IsTabled(p)
<1> DEFINE invalid == "InvalidVertexTable"
           table == class.at + p.vertexAt
           count == VertexCount(p)
           blocks == SerializedBlocks(p)
           vertices == table + p.counts.vertices
           matrices == 2 * p.counts.matrix
           transfers == <<table + 32, matrices>>
           align == AlignUp(table + 32 + matrices, 8)
           duplicates == <<align, 2 * p.counts.duplicate>>
           most == Max({blocks, 7})
           start == Max({count, 7})
           last == vertices + 16 * (most - 1)
           epilogue == {<<vertices + 16 * i, 2>> : i \in start .. blocks - 1}
           headerFits == RangeFits(<<table, 32>>, core)
           header == Bytes(table, 32, core)
           natural == \A c \in Range(p.counts) : c \in 0 .. 16 * kMaxStaticCount
           counted == /\ count <= kMaxStaticCount /\ p.counts.duplicate <= kMaxStaticCount
                      /\ p.counts.transfer = p.transfers /\ p.counts.vertices \div 16 <= p.dataSize
                      /\ p.counts.end >= p.counts.vertices
           verticesFit == RangeFits(<<vertices, 16 * count>>, core)
           vertexRows == Bytes(vertices, 16 * count, core)
           transfersFit == RangeFits(transfers, core)
           duplicatesFit == RangeFits(duplicates, core)
           duplicateRows == <<duplicates, core>>
           between == blocks \in count .. count + 6
           sevenFit == count < 7 => RangeFits(<<vertices, 112>>, core)
           epilogueFits == \A row \in epilogue : RangeFits(row, core)
           epilogueRows == {<<row, core>> : row \in epilogue}
           lastFits == RangeFits(<<last + 4, 12>>, core)
           lastRow == Bytes(last + 4, 12, core)
           enough == LogicalBytes(PacketUnpacks(p)[1]) \div 4 >= count + p.counts.duplicate
           steps == <<Require(invalid, headerFits, {header}), Require(invalid, natural, {}),
                      Require(invalid, counted, {}), Require(invalid, verticesFit, {vertexRows}),
                      Require(invalid, transfersFit, {}), Require(invalid, duplicatesFit, {duplicateRows}),
                      Require(invalid, between, {}), Require(invalid, sevenFit, {}),
                      Require(invalid, epilogueFits, epilogueRows), Require(invalid, lastFits, {lastRow}),
                      Require("InvalidPacket", enough, {})>>
<1>1. VertexTableSteps(core, class, p) = steps
  BY DEF VertexTableSteps
<1>2. table \in Nat
  BY MobyPacketFacts DEF IsMobyClass
<1>3. count \in Int /\ blocks \in Int
  BY MobyPacketFacts
<1>4. natural => /\ p.counts.vertices \in Nat /\ matrices \in Nat /\ p.counts.duplicate \in Nat
                 /\ count \in Nat
  <2> DEFINE names == {"matrix", "two", "three", "main", "duplicate", "transfer", "vertices", "end"}
             big == 16 * kMaxStaticCount
  <2>1. p.counts \in [names -> Int]
    BY DEF IsMobyPacket
  <2>2. natural => \A name \in names : p.counts[name] \in 0 .. big
    <3> HIDE DEF names
    <3>1. \A name \in names : p.counts[name] \in Range(p.counts)
      BY <2>1 DEF Range
    <3> QED BY <3>1
  <2>3. \A name \in names : p.counts[name] \in Int
    <3> HIDE DEF names
    <3> QED BY <2>1
  <2>4. natural => \A name \in names : p.counts[name] \in Nat
    <3> HIDE DEF names, natural, big
    <3> QED BY <2>2, <2>3
  <2> HIDE DEF natural
  <2>5. natural => /\ p.counts.vertices \in Nat /\ p.counts.matrix \in Nat /\ p.counts.duplicate \in Nat
                   /\ p.counts.two \in Nat /\ p.counts.three \in Nat /\ p.counts.main \in Nat
    BY <2>4
  <2> QED BY <2>5 DEF VertexCount
<1>5. most \in Int /\ most >= 7 /\ start \in Int /\ start >= 7
  <2> HIDE DEF count, blocks
  <2>1. \A k \in Int : Max({k, 7}) \in Int /\ Max({k, 7}) >= 7
    <3> TAKE k \in Int
    <3> DEFINE S == {k, 7}
               n == IF k <= 7 THEN 7 ELSE k
    <3>1. S \in SUBSET Int /\ S # {} /\ n \in Int /\ (\A x \in S : x <= n) /\ 7 \in S
      OBVIOUS
    <3> HIDE DEF S, n
    <3>2. Max(S) \in S /\ \A x \in S : x <= Max(S)
      BY <3>1, MaxIsGreatest
    <3>3. Max(S) \in Int /\ Max(S) >= 7
      BY <3>1, <3>2
    <3> QED BY <3>3 DEF S
  <2> QED BY <1>3, <2>1
<1>6. natural => vertices \in Nat /\ align \in Nat /\ last \in Nat
  <2> HIDE DEF table, natural, matrices, most
  <2>1. natural => vertices \in Nat
    BY <1>2, <1>4
  <2>2. natural => table + 32 + matrices \in Nat
    BY <1>2, <1>4
  <2> DEFINE v == table + 32 + matrices
  <2> HIDE DEF v
  <2>3. v \in Nat => AlignUp(v, 8) \in Nat
    BY DEF AlignUp
  <2>4. natural => align \in Nat
    BY <2>2, <2>3 DEF v
  <2> HIDE DEF vertices, align
  <2> QED BY <1>5, <2>1, <2>4
<1>7. headerFits => InRange(header)
  BY <1>2 DEF InRange, RangeFits, Bytes
<1> HIDE DEF table, vertices, matrices, align, most, start, last, natural, count, blocks
<1>8. natural /\ verticesFit => InRange(vertexRows)
  <2> DEFINE size == 16 * count
  <2>1. size \in Int
    BY <1>3
  <2> HIDE DEF size
  <2> QED BY <1>6, <2>1 DEF InRange, RangeFits, Bytes, size
<1>9. natural /\ duplicatesFit => InRange(duplicateRows)
  BY <1>6 DEF InRange
<1>10. natural /\ epilogueFits => \A r \in epilogueRows : InRange(r)
  <2>1. ASSUME natural, epilogueFits, NEW i \in start .. blocks - 1
        PROVE  InRange(<<<<vertices + 16 * i, 2>>, core>>)
    <3>1. i \in Nat /\ vertices \in Nat
      BY <1>3, <1>5, <1>6, <2>1
    <3>2. RangeFits(<<vertices + 16 * i, 2>>, core)
      BY <2>1
    <3> QED BY <3>1, <3>2 DEF InRange
  <2> HIDE DEF epilogueFits
  <2> QED BY <2>1
<1>11. natural /\ lastFits => InRange(lastRow)
  BY <1>6 DEF InRange, RangeFits, Bytes
<1> HIDE DEF headerFits, header, counted, verticesFit, vertexRows, transfersFit, duplicatesFit,
             duplicateRows, between, sevenFit, epilogueFits, epilogueRows, lastFits, lastRow, enough
<1>12. Sound(steps)
  BY <1>7, <1>8, <1>9, <1>10, <1>11 DEF Require, Sound, IsSteps, FailuresNamed, Verdicts, Guarded
<1>13. AllHold(steps) => natural
  BY DEF AllHold, Require
<1> HIDE DEF steps
<1> QED BY <1>1, <1>4, <1>12, <1>13 DEF IsTabled, count

(* A moby packet: its VIF code, then its vertex table.                     *)
LEMMA MobyPacketStepsSound ==
  ASSUME NEW core \in Int, NEW class, IsMobyClass(class), NEW p, IsMobyPacket(p)
  PROVE  /\ Sound(MobyPacketSteps(core, class, p))
         /\ AllHold(MobyPacketSteps(core, class, p)) => IsUnpacked(p) /\ IsTabled(p)
<1> DEFINE a == VifSteps(core, class, p)
           b == VertexTableSteps(core, class, p)
<1>1. Sound(a) /\ (AllHold(a) => IsUnpacked(p))
  BY VifStepsSound
<1>2. IsUnpacked(p) => Sound(b) /\ (AllHold(b) => IsTabled(p))
  BY VertexTableStepsSound DEF IsUnpacked
<1> HIDE DEF a, b
<1>3. Sound(Then(a, b)) /\ (AllHold(Then(a, b)) => AllHold(a) /\ AllHold(b))
  BY <1>1, <1>2, ThenSound
<1> QED BY <1>1, <1>2, <1>3 DEF MobyPacketSteps, a, b

\* A triangle of skin vertices, and a packet's stream being drawn.
\* A material is one of the level's moby textures or none, a corner one of the
\* vertices the skinning program has given an index by then.
Materials(count) == -1 .. count - 1
Skins(limit) == 0 .. limit - 1
MobyTriangle(count, limit) == [material : Materials(count), corners : Seq(Skins(limit))]
StreamStatus == {"Ok", "Ended", "InvalidIndexStream", "InvalidMaterial"}
ReadsInRange == {r \in (Int \X Int) \X Int : InRange(r)}
Drawing(count, limit) ==
  [status : StreamStatus, change : Nat, material : Materials(count), corners : Seq(Skins(limit)),
   reads : SUBSET ReadsInRange, triangles : Seq(MobyTriangle(count, limit))]

(* An element counted from zero is one of its table's.                     *)
LEMMA ElementInRange ==
  ASSUME NEW i \in Int, NEW count \in Int, 0 <= i, i < count
  PROVE  Element(i, count) \in ReadsInRange
BY DEF Element, ReadsInRange, InRange, RangeFits

(* A corner of the index stream keeps the drawing's types.                 *)
LEMMA CornerTyped ==
  ASSUME NEW textureCount, NEW limit, NEW vertices \in Seq(Skins(limit)),
         NEW r \in Drawing(textureCount, limit), NEW index
  PROVE  Corner(vertices, r, index) \in Drawing(textureCount, limit)
<1> DEFINE real == (IF index > 0 THEN index ELSE index + 128) - 1
           three == IF Len(r.corners) = 3 THEN Tail(r.corners) ELSE r.corners
           corners == Append(three, vertices[real + 1])
           reads == r.reads \union {Element(real, Len(vertices))}
           triangle == [material |-> r.material, corners |-> corners]
           triangles == IF index > 0 THEN Append(r.triangles, triangle) ELSE r.triangles
           outside == real \notin 0 .. Len(vertices) - 1 \/ (index > 0 /\ Len(r.corners) < 2)
<1>1. Corner(vertices, r, index) =
        IF outside THEN [r EXCEPT !.status = "InvalidIndexStream"]
        ELSE [r EXCEPT !.corners = corners, !.reads = reads, !.triangles = triangles]
  BY DEF Corner
<1>2. [r EXCEPT !.status = "InvalidIndexStream"] \in Drawing(textureCount, limit)
  BY DEF Drawing, StreamStatus
<1>3. ASSUME ~outside
      PROVE  /\ corners \in Seq(Skins(limit)) /\ reads \in SUBSET ReadsInRange
             /\ triangles \in Seq(MobyTriangle(textureCount, limit))
  <2>1. real \in 0 .. Len(vertices) - 1
    BY <1>3
  <2> HIDE DEF real, outside
  <2>2. /\ Len(vertices) \in Nat /\ real \in Nat /\ real < Len(vertices)
        /\ vertices[real + 1] \in Skins(limit)
    <3>1. Len(vertices) \in Nat
      BY LenProperties
    <3>2. real \in Nat /\ real < Len(vertices) /\ real + 1 \in 1 .. Len(vertices)
      BY <2>1, <3>1
    <3> QED BY <3>1, <3>2, ElementOfSeq
  <2>3. r.corners \in Seq(Skins(limit)) /\ r.reads \subseteq ReadsInRange /\ r.triangles \in Seq(MobyTriangle(textureCount, limit))
        /\ r.material \in Materials(textureCount)
    BY DEF Drawing
  <2>4. three \in Seq(Skins(limit))
    <3>1. CASE Len(r.corners) = 3
      <4>1. r.corners # <<>>
        <5> DEFINE t == r.corners
        <5>1. Len(t) = 3
          BY <3>1
        <5> HIDE DEF t
        <5>2. t # <<>>
          BY <5>1
        <5> QED BY <5>2 DEF t
      <4> QED BY <2>3, <3>1, <4>1, HeadTailProperties
    <3>2. CASE Len(r.corners) # 3
      BY <2>3, <3>2
    <3> QED BY <3>1, <3>2
  <2> HIDE DEF three
  <2>5. corners \in Seq(Skins(limit))
    BY <2>2, <2>4, AppendProperties
  <2>6. Element(real, Len(vertices)) \in ReadsInRange
    BY <2>2, ElementInRange
  <2>7. reads \in SUBSET ReadsInRange
    BY <2>3, <2>6
  <2> HIDE DEF corners
  <2>8. triangle \in MobyTriangle(textureCount, limit)
    BY <2>3, <2>5 DEF MobyTriangle
  <2> HIDE DEF triangle
  <2>9. triangles \in Seq(MobyTriangle(textureCount, limit))
    BY <2>3, <2>8, AppendProperties
  <2> QED BY <2>5, <2>7, <2>9
<1> HIDE DEF real, corners, reads, triangles, outside
<1>4. ASSUME ~outside PROVE [r EXCEPT !.corners = corners, !.reads = reads, !.triangles = triangles] \in Drawing(textureCount, limit)
  <2>1. corners \in Seq(Skins(limit)) /\ reads \in SUBSET ReadsInRange /\ triangles \in Seq(MobyTriangle(textureCount, limit))
    BY <1>3, <1>4
  <2> QED BY <2>1 DEF Drawing
<1> QED BY <1>1, <1>2, <1>4

(* So does any index: a restart, a new material or a corner.               *)
LEMMA NextIndexTyped ==
  ASSUME NEW class, class.textures \in Seq(Nat), NEW textureCount \in Nat, NEW stream,
         Len(stream.secrets) \in Nat, Len(stream.materials) \in Nat,
         NEW limit, NEW vertices \in Seq(Skins(limit)), NEW r \in Drawing(textureCount, limit), NEW index
  PROVE  NextIndex(class, textureCount, stream, vertices, r, index) \in Drawing(textureCount, limit)
<1> DEFINE secret == stream.secrets[r.change + 1]
           local == stream.materials[r.change + 1]
           change == r.change + 1
           material == IF local >= 0 THEN class.textures[local + 1] ELSE -1
           slots == IF local >= 0
                    THEN {Element(local, Len(class.textures)), Element(class.textures[local + 1], textureCount)}
                    ELSE {}
           reads == r.reads \union {Element(r.change, Len(stream.secrets)),
                                    Element(r.change, Len(stream.materials))} \union slots
           changed == [r EXCEPT !.change = change, !.material = material, !.reads = reads]
           triangles == SubSeq(r.triangles, 1, Len(r.triangles) - 3)
           refused == r.change >= Len(stream.materials)
                        \/ (local >= 0 /\ ~MaterialIsValid(class, local, textureCount))
           spent == r.change >= Len(stream.secrets)
<1>1. NextIndex(class, textureCount, stream, vertices, r, index) =
        IF r.status # "Ok" THEN r
        ELSE IF index # 0 THEN Corner(vertices, r, index)
        ELSE IF spent THEN [r EXCEPT !.status = "InvalidIndexStream"]
        ELSE IF secret = 0 THEN [r EXCEPT !.status = "Ended", !.triangles = triangles]
        ELSE IF refused THEN [r EXCEPT !.status = "InvalidMaterial"]
        ELSE Corner(vertices, changed, secret - 128)
  BY DEF NextIndex
<1>2. r.change \in Nat /\ r.triangles \in Seq(MobyTriangle(textureCount, limit)) /\ r.reads \subseteq ReadsInRange
  BY DEF Drawing
<1>3. /\ [r EXCEPT !.status = "InvalidIndexStream"] \in Drawing(textureCount, limit)
      /\ [r EXCEPT !.status = "InvalidMaterial"] \in Drawing(textureCount, limit)
  BY DEF Drawing, StreamStatus
<1>4. triangles \in Seq(MobyTriangle(textureCount, limit))
  <2> DEFINE t == r.triangles
             n == Len(t) - 3
  <2>1. t \in Seq(MobyTriangle(textureCount, limit))
    BY <1>2
  <2> HIDE DEF t
  <2>2. n \in Int /\ \A i \in 1 .. n : t[i] \in MobyTriangle(textureCount, limit)
    <3>1. Len(t) \in Nat
      BY <2>1, LenProperties
    <3>2. n \in Int /\ \A i \in 1 .. n : i \in 1 .. Len(t)
      BY <3>1
    <3> HIDE DEF n
    <3> QED BY <2>1, <3>2, ElementOfSeq
  <2> HIDE DEF n
  <2>3. SubSeq(t, 1, n) \in Seq(MobyTriangle(textureCount, limit))
    BY <2>2, SubSeqProperties
  <2> QED BY <2>3 DEF t, n
<1>5. [r EXCEPT !.status = "Ended", !.triangles = triangles] \in Drawing(textureCount, limit)
  <2> HIDE DEF triangles
  <2> QED BY <1>4 DEF Drawing, StreamStatus
<1>6. ASSUME ~spent, ~refused PROVE changed \in Drawing(textureCount, limit)
  <2>1. /\ Element(r.change, Len(stream.secrets)) \in ReadsInRange
        /\ Element(r.change, Len(stream.materials)) \in ReadsInRange
    <3>1. /\ r.change \in Int /\ 0 <= r.change /\ r.change < Len(stream.secrets)
          /\ r.change < Len(stream.materials) /\ Len(stream.secrets) \in Int /\ Len(stream.materials) \in Int
      BY <1>2, <1>6
    <3> QED BY <3>1, ElementInRange
  <2>2. material \in Materials(textureCount) /\ slots \subseteq ReadsInRange
    <3>1. CASE local >= 0
      <4>1. MaterialIsValid(class, local, textureCount)
        BY <1>6, <3>1
      <4> HIDE DEF local
      <4> DEFINE n == Len(class.textures)
                 texture == class.textures[local + 1]
      <4>2. local \in 0 .. n - 1 /\ texture < textureCount
        BY <4>1 DEF MaterialIsValid
      <4>3. n \in Nat
        BY LenProperties
      <4> HIDE DEF n
      <4>4. local \in Int /\ 0 <= local /\ local < n /\ local + 1 \in 1 .. n
        BY <4>2, <4>3
      <4>5. texture \in Nat
        BY <4>4, ElementOfSeq DEF n
      <4> HIDE DEF texture
      <4>6. Element(local, n) \in ReadsInRange
        BY <4>3, <4>4, ElementInRange
      <4>7. Element(texture, textureCount) \in ReadsInRange
        <5>1. texture \in Int /\ 0 <= texture /\ textureCount \in Int
          BY <4>5
        <5> QED BY <4>2, <5>1, ElementInRange
      <4>8. slots = {Element(local, n), Element(texture, textureCount)} /\ material = texture
        BY <3>1 DEF n, texture
      <4>9. texture \in Materials(textureCount)
        BY <4>2, <4>5 DEF Materials
      <4> HIDE DEF slots, material
      <4> QED BY <4>6, <4>7, <4>8, <4>9
    <3>2. CASE ~(local >= 0)
      <4>1. material = -1 /\ slots = {}
        BY <3>2
      <4> HIDE DEF material, slots
      <4> QED BY <4>1 DEF Materials
    <3> QED BY <3>1, <3>2
  <2> HIDE DEF slots, material
  <2>3. reads \in SUBSET ReadsInRange
    BY <1>2, <2>1, <2>2
  <2>4. change \in Nat
    BY <1>2
  <2> HIDE DEF reads, change
  <2> QED BY <2>2, <2>3, <2>4 DEF Drawing
<1>7. Corner(vertices, r, index) \in Drawing(textureCount, limit)
  BY CornerTyped
<1> HIDE DEF changed, refused, spent, triangles
<1>8. ~spent /\ ~refused => Corner(vertices, changed, secret - 128) \in Drawing(textureCount, limit)
  <2> DEFINE k == secret - 128
  <2> HIDE DEF k
  <2>1. ~spent /\ ~refused => Corner(vertices, changed, k) \in Drawing(textureCount, limit)
    BY <1>6, CornerTyped
  <2> QED BY <2>1 DEF k
<1> QED BY <1>1, <1>3, <1>5, <1>7, <1>8

\* What drawing a stream leaves of a mesh.
IsDrawnBy(m, s, r) ==
  m = [s EXCEPT !.steps = @ \o StreamStep(r), !.material = r.material, !.triangles = r.triangles]

(* Drawing a packet's stream reads inside the stream, the class's slots    *)
(* and the vertices, and leaves the mesh its material and triangles.       *)
LEMMA DrawPacketFacts ==
  ASSUME NEW class, class.textures \in Seq(Nat), NEW textureCount \in Nat, NEW stream,
         Len(stream.secrets) \in Nat, Len(stream.materials) \in Nat, Len(stream.indexes) \in Nat,
         NEW limit, NEW vertices \in Seq(Skins(limit)), NEW s, s.material \in Materials(textureCount),
         s.triangles \in Seq(MobyTriangle(textureCount, limit))
  PROVE  \E r \in Drawing(textureCount, limit) : IsDrawnBy(DrawPacket(class, textureCount, s, stream, vertices), s, r)
<1> DEFINE Drawn == Drawing(textureCount, limit)
           n == Len(stream.indexes)
           start == [status |-> "Ok", change |-> 0, material |-> s.material, corners |-> <<>>,
                     reads |-> {}, triangles |-> s.triangles]
           next == [i \in 1 .. n |-> [x \in Drawn |->
                      NextIndex(class, textureCount, stream, vertices, x, stream.indexes[i])]]
           after == CHOOSE f : f = [i \in 0 .. n |-> IF i = 0 THEN start ELSE
                      NextIndex(class, textureCount, stream, vertices, f[i - 1], stream.indexes[i])]
<1>1. IsDrawnBy(DrawPacket(class, textureCount, s, stream, vertices), s, after[n])
  BY DEF DrawPacket, IsDrawnBy
<1>2. n \in Nat
  OBVIOUS
<1>3. start \in Drawn
  BY EmptySeq DEF Drawing, StreamStatus
<1>4. ASSUME NEW x \in Drawn, NEW i \in 1 .. n
      PROVE  NextIndex(class, textureCount, stream, vertices, x, stream.indexes[i]) \in Drawn
  BY NextIndexTyped
<1>5. next \in [1 .. n -> [Drawn -> Drawn]]
  <2> HIDE DEF n, start
  <2> QED BY <1>2, <1>4
<1>6. PICK g : IsRun(g, Drawn, n, start, next)
  <2> HIDE DEF n, start, next
  <2> QED BY <1>2, <1>3, <1>5, RunExists DEF IsLoop
<1>7. g = [i \in 0 .. n |-> IF i = 0 THEN start ELSE NextIndex(class, textureCount, stream, vertices, g[i - 1], stream.indexes[i])]
  <2>1. g \in [0 .. n -> Drawn] /\ g[0] = start /\ \A i \in 1 .. n : g[i] = next[i][g[i - 1]]
    BY <1>6 DEF IsRun
  <2> HIDE DEF n, start
  <2>2. \A i \in 0 .. n : i # 0 => i \in 1 .. n /\ i - 1 \in 0 .. n
    BY <1>2
  <2>3. ASSUME NEW i \in 1 .. n PROVE g[i] = NextIndex(class, textureCount, stream, vertices, g[i - 1], stream.indexes[i])
    <3>1. g[i - 1] \in Drawn /\ next[i] = [x \in Drawn |-> NextIndex(class, textureCount, stream, vertices, x, stream.indexes[i])]
      BY <2>1, <2>2, <1>2
    <3> HIDE DEF next
    <3> QED BY <2>1, <3>1
  <2>4. g = [i \in 0 .. n |-> g[i]]
    BY <2>1
  <2> HIDE DEF next
  <2> QED BY <2>1, <2>2, <2>3, <2>4
<1>8. after = [i \in 0 .. n |-> IF i = 0 THEN start ELSE NextIndex(class, textureCount, stream, vertices, after[i - 1], stream.indexes[i])]
  <2> HIDE DEF n, start
  <2> QED BY <1>7
<1> HIDE DEF after
<1>9. after[0] = start /\ \A i \in 1 .. n : after[i] = NextIndex(class, textureCount, stream, vertices, after[i - 1], stream.indexes[i])
  <2> HIDE DEF n, start
  <2>1. 0 \in 0 .. n /\ \A i \in 1 .. n : i \in 0 .. n /\ i # 0
    BY <1>2
  <2> QED BY <1>8, <2>1
<1>10. after[0] \in Drawn /\ \A i \in 1 .. n : after[i - 1] \in Drawn => after[i] \in Drawn
  <2> HIDE DEF n, start
  <2> QED BY <1>2, <1>3, <1>4, <1>9
<1>11. \A i \in 0 .. n : after[i] \in Drawn
  <2> HIDE DEF n, start
  <2> QED BY <1>2, <1>10, RunStaysIn
<1>12. after[n] \in Drawn
  <2> HIDE DEF n
  <2> QED BY <1>2, <1>11
<1> QED BY <1>1, <1>12

(* Rows beyond those listed are zero; an address is one of the cache's.    *)
LEMMA RowFacts ==
  ASSUME NEW p, IsMobyPacket(p), NEW i \in Nat
  PROVE  IsRow(VertexRow(p, i))
<1>1. IsRow(NoRow)
  BY SMT DEF IsRow, NoRow, CacheAddresses, kVertexCacheSize
<1>2. Len(p.rows) \in Nat /\ DOMAIN p.rows = 1 .. Len(p.rows) /\ \A k \in 1 .. Len(p.rows) : IsRow(p.rows[k])
  BY SequenceFacts DEF IsMobyPacket
<1> DEFINE k == i + 1
<1>3. i < Len(p.rows) => k \in 1 .. Len(p.rows)
  BY <1>2
<1>4. VertexRow(p, i) = IF i < Len(p.rows) THEN p.rows[k] ELSE NoRow
  BY DEF VertexRow, ItemAt
<1> HIDE DEF k
<1> QED BY <1>1, <1>2, <1>3, <1>4

(* Wherever a vertex is kept is an address of the cache.                   *)
LEMMA CacheAddressFacts ==
  ASSUME NEW p, IsMobyPacket(p), NEW j \in Nat
  PROVE  CacheAddress(p, j) \in CacheAddresses
<1> DEFINE beyond == j + 7 - SerializedBlocks(p)
           k == beyond + 1
           item == IF beyond < Len(p.trailing) THEN p.trailing[k] ELSE 0
<1>1. beyond \in Int
  BY MobyPacketFacts
<1>2. CacheAddress(p, j) = IF beyond < 0 THEN VertexRow(p, j + 7).id
                           ELSE IF beyond < 6 THEN item ELSE VertexRow(p, j).id
  BY DEF CacheAddress, ItemAt
<1>3. VertexRow(p, j).id \in CacheAddresses
  BY RowFacts DEF IsRow
<1>4. VertexRow(p, j + 7).id \in CacheAddresses
  <2> DEFINE i == j + 7
  <2>1. i \in Nat
    OBVIOUS
  <2> HIDE DEF i
  <2>2. VertexRow(p, i).id \in CacheAddresses
    BY <2>1, RowFacts DEF IsRow
  <2> QED BY <2>2 DEF i
<1>5. ~(beyond < 0) => item \in CacheAddresses
  <2>1. 0 \in CacheAddresses
    BY SMT DEF CacheAddresses, kVertexCacheSize
  <2>2. p.trailing \in Seq(CacheAddresses) /\ Len(p.trailing) \in Nat
    BY LenProperties DEF IsMobyPacket
  <2>3. ~(beyond < 0) /\ beyond < Len(p.trailing) => k \in 1 .. Len(p.trailing)
    BY <1>1, <2>2
  <2> HIDE DEF k, beyond
  <2>4. ~(beyond < 0) /\ beyond < Len(p.trailing) => p.trailing[k] \in CacheAddresses
    BY <2>2, <2>3, ElementOfSeq
  <2> QED BY <2>1, <2>4
<1> HIDE DEF item, beyond
<1> QED BY <1>2, <1>3, <1>4, <1>5

\* The vertex cache: a skin vertex at some of its addresses.
IsCache(c, limit) == DOMAIN c \subseteq CacheAddresses /\ \A a \in DOMAIN c : c[a] \in Skins(limit)

(* The cache after the vertices of a packet.                               *)
LEMMA CachedVerticesFacts ==
  ASSUME NEW p, IsMobyPacket(p), VertexCount(p) \in Nat, NEW s, s.next \in Nat, IsCache(s.cache, s.next)
  PROVE  IsCache(CachedVertices(p, s), s.next + VertexCount(p))
<1> DEFINE n == VertexCount(p)
           address(j) == CacheAddress(p, j - 1)
           addresses == [j \in 1 .. n |-> address(j)]
           at(a) == {j \in DOMAIN addresses : addresses[j] = a}
           all == Range(addresses) \union DOMAIN s.cache
           value(a) == IF a \in Range(addresses) THEN s.next + Max(at(a)) - 1 ELSE s.cache[a]
           cached == [a \in all |-> value(a)]
<1>1. CachedVertices(p, s) = cached
  BY DEF CachedVertices
<1>2. n \in Nat
  OBVIOUS
<1>3. \A j \in 1 .. n : address(j) \in CacheAddresses
  <2> TAKE j \in 1 .. n
  <2> DEFINE i == j - 1
  <2>1. i \in Nat
    BY <1>2
  <2> HIDE DEF i, n
  <2>2. CacheAddress(p, i) \in CacheAddresses
    BY <2>1, CacheAddressFacts
  <2> QED BY <2>2 DEF i
<1> HIDE DEF n, address
<1>4. DOMAIN addresses = 1 .. n /\ \A j \in 1 .. n : addresses[j] \in CacheAddresses
  BY <1>3
<1> HIDE DEF addresses
<1>5. Range(addresses) \subseteq CacheAddresses
  BY <1>4 DEF Range
<1>6. ASSUME NEW a \in Range(addresses) PROVE Max(at(a)) \in 1 .. n
  <2>1. at(a) \in SUBSET Int /\ at(a) # {} /\ at(a) \subseteq 1 .. n /\ \A k \in at(a) : k <= n
    BY <1>2, <1>4 DEF Range
  <2>2. n \in Int
    BY <1>2
  <2> HIDE DEF at
  <2>3. Max(at(a)) \in at(a)
    BY <2>1, <2>2, MaxIsGreatest
  <2> QED BY <2>1, <2>3
<1> HIDE DEF at
<1> DEFINE limit == s.next + n
<1>7. \A a \in all : value(a) \in Skins(limit)
  <2> TAKE a \in all
  <2>1. CASE a \in Range(addresses)
    <3>1. value(a) = s.next + Max(at(a)) - 1
      BY <2>1
    <3> HIDE DEF value
    <3> QED BY <1>2, <1>6, <2>1, <3>1 DEF Skins
  <2>2. CASE a \notin Range(addresses)
    <3>1. value(a) = s.cache[a] /\ s.cache[a] \in Skins(s.next)
      BY <2>2 DEF IsCache
    <3> HIDE DEF value
    <3> QED BY <1>2, <3>1 DEF Skins
  <2> QED BY <2>1, <2>2
<1>8. all \subseteq CacheAddresses
  BY <1>5 DEF IsCache
<1> HIDE DEF all, value, limit
<1>9. IsCache(cached, limit)
  BY <1>7, <1>8 DEF IsCache
<1> QED BY <1>1, <1>9 DEF limit, n

----------------------------------------------------------------------------
(* One more step, whose reads rely on those before it.                     *)
LEMMA AppendSound ==
  ASSUME NEW a, Sound(a), NEW failure, failure \notin Verdicts, NEW holds, NEW reads,
         holds => \A r \in reads : InRange(r)
  PROVE  Sound(Append(a, Require(failure, holds, reads)))
<1> DEFINE x == Require(failure, holds, reads)
           S == Range(a) \union {x}
           b == <<x>>
<1>1. Sound(b)
  BY StepSound
<1> HIDE DEF x
<1>2. IsSteps(a) /\ a \in Seq(Range(a))
  BY ListIsSeq DEF Sound
<1>3. a \in Seq(S) /\ x \in S
  <2>1. \A i \in DOMAIN a : a[i] \in S
    BY DEF Range
  <2> HIDE DEF S
  <2>2. a \in Seq(S)
    BY <1>2, <2>1, SeqWiden
  <2> QED BY <2>2 DEF S
<1>4. Append(a, x) = a \o b
  <2> HIDE DEF S
  <2> QED BY <1>3, AppendIsConcat
<1> HIDE DEF b
<1>5. Sound(a \o b)
  BY <1>1, ConcatSound DEF Sound
<1> QED BY <1>4, <1>5 DEF x

(* What a packet's stream did to the mesh, as steps.                       *)
LEMMA StreamStepSound ==
  ASSUME NEW textureCount, NEW limit, NEW r \in Drawing(textureCount, limit)
  PROVE  Sound(StreamStep(r))
<1> DEFINE fine == r.status \in {"Ok", "Ended"}
           reads == r.reads
           status == r.status
<1>1. StreamStep(r) = <<Require("none", TRUE, reads), Require(status, fine, {})>>
  BY DEF StreamStep, Reading
<1>2. \A q \in reads : InRange(q)
  BY DEF Drawing, ReadsInRange
<1>3. ~fine => status \notin Verdicts
  BY DEF Drawing, StreamStatus, Verdicts
<1> HIDE DEF fine, reads, status
<1> QED BY <1>1, <1>2, <1>3 DEF Require, Sound, IsSteps, FailuresNamed, Verdicts, Guarded

\* What a class is being decoded to.
MeshFields == {"steps", "cache", "next", "triangles", "material"}

IsClassMesh(m, count) ==
  /\ DOMAIN m = MeshFields /\ Sound(m.steps) /\ m.next \in Nat /\ IsCache(m.cache, m.next)
  /\ m.material \in Materials(count) /\ m.triangles \in Seq(MobyTriangle(count, m.next))

(* Vertices there are stay there as more are added.                        *)
LEMMA TrianglesWiden ==
  ASSUME NEW count, NEW a \in Nat, NEW b \in Nat, NEW triangles \in Seq(MobyTriangle(count, a))
  PROVE  triangles \in Seq(MobyTriangle(count, a + b))
<1> DEFINE c == a + b
<1>1. \A v \in Skins(a) : v \in Skins(c)
  BY DEF Skins
<1> HIDE DEF c
<1>2. ASSUME NEW t \in MobyTriangle(count, a) PROVE t \in MobyTriangle(count, c)
  <2>1. t.corners \in Seq(Skins(a))
    BY DEF MobyTriangle
  <2>2. \A i \in DOMAIN t.corners : t.corners[i] \in Skins(c)
    BY <1>1, <2>1, ElementsOfSeq
  <2>3. t.corners \in Seq(Skins(c))
    BY <2>1, <2>2, SeqWiden
  <2> QED BY <2>3 DEF MobyTriangle
<1>3. \A i \in DOMAIN triangles : triangles[i] \in MobyTriangle(count, c)
  BY <1>2, ElementsOfSeq
<1>4. triangles \in Seq(MobyTriangle(count, c))
  BY <1>3, SeqWiden
<1> QED BY <1>4 DEF c

(* The vertices a packet takes from the cache are read where the cache has *)
(* them.                                                                   *)
LEMMA DuplicatesFacts ==
  ASSUME NEW p, p.counts.duplicate \in Nat
  PROVE  /\ DOMAIN Duplicates(p) = 1 .. p.counts.duplicate
         /\ \A i \in 1 .. p.counts.duplicate : Duplicates(p)[i] \in Range(Duplicates(p))
BY DEF Duplicates, Range

\* The vertices a packet may index: its own, and those the cache still has.
LEMMA PacketVerticesTyped ==
  ASSUME NEW p, IsTabled(p), NEW next \in Nat, NEW cache, IsCache(cache, next + VertexCount(p)),
         \A a \in Range(Duplicates(p)) : a \in DOMAIN cache
  PROVE  [j \in 1 .. VertexCount(p) |-> next + j - 1]
           \o [i \in DOMAIN Duplicates(p) |-> cache[Duplicates(p)[i]]] \in Seq(Skins(next + VertexCount(p)))
<1> DEFINE n == VertexCount(p)
           limit == next + VertexCount(p)
           m == p.counts.duplicate
           own == [j \in 1 .. n |-> next + j - 1]
           kept == [i \in DOMAIN Duplicates(p) |-> cache[Duplicates(p)[i]]]
<1>1. n \in Nat /\ m \in Nat
  BY DEF IsTabled
<1>2. own = [j \in 1 .. n |-> own[j]] /\ \A j \in 1 .. n : own[j] \in Skins(limit)
  BY <1>1 DEF Skins
<1>3. kept = [i \in 1 .. m |-> kept[i]] /\ \A i \in 1 .. m : kept[i] \in Skins(limit)
  <2>1. DOMAIN Duplicates(p) = 1 .. m /\ \A i \in 1 .. m : Duplicates(p)[i] \in DOMAIN cache
    BY <1>1, DuplicatesFacts
  <2> HIDE DEF m
  <2> QED BY <2>1 DEF IsCache
<1> HIDE DEF own, kept, n, m, limit
<1>4. own \in Seq(Skins(limit)) /\ kept \in Seq(Skins(limit))
  BY <1>1, <1>2, <1>3, FunctionIsSeq
<1>5. own \o kept \in Seq(Skins(limit))
  BY <1>4, ConcatProperties
<1> QED BY <1>5 DEF own, kept, n, m, limit

\* The stream of a packet is as long as its unpacks say.
LEMMA StreamFacts ==
  ASSUME NEW p, IsMobyPacket(p), IsUnpacked(p), NEW stream,
         stream = PacketStream(IndexBytes(p), TextureRecords(p))
  PROVE  Len(stream.secrets) \in Nat /\ Len(stream.materials) \in Nat /\ Len(stream.indexes) \in Nat
<1> DEFINE unpacks == PacketUnpacks(p)
           indexes == IndexBytes(p)
           records == TextureRecords(p)
           n == Len(records)
           secrets == [i \in DOMAIN records |-> TextureSecret(records, i - 1)]
           materials == [i \in DOMAIN records |-> records[i].material]
           one == <<indexes[3]>>
<1>1. p.size \in Nat /\ IsPacket(p.commands)
  BY MobyPacketFacts
<1>2. unpacks \in Seq(Range(p.commands))
  <2> DEFINE size == 16 * p.size
  <2>1. size \in Int /\ unpacks = Unpacks(size, p.commands, TRUE)
    BY <1>1 DEF PacketUnpacks
  <2> HIDE DEF size, unpacks
  <2> QED BY <1>1, <2>1, VifParseFacts
<1>3. Len(unpacks) = (IF p.textured THEN 3 ELSE 2) /\ LogicalBytes(unpacks[2]) >= 4
  BY DEF IsUnpacked
<1> HIDE DEF unpacks
<1>4. 2 \in Int /\ 1 <= 2 /\ 2 <= Len(unpacks)
  BY <1>3
<1>5. /\ IsSteps(indexes) /\ Len(indexes) \in Nat /\ Len(indexes) >= 4
  <2>1. /\ LogicalBytes(unpacks[2]) \in Nat
        /\ IsSteps(Elements(unpacks[2], 1, 0)) /\ Len(Elements(unpacks[2], 1, 0)) \in Nat
        /\ Len(Elements(unpacks[2], 1, 0)) = LogicalBytes(unpacks[2]) \div 1
    <3>1. 1 \in Nat \ {0}
      OBVIOUS
    <3> QED BY <1>1, <1>2, <1>4, <3>1, UnpackFacts
  <2>2. indexes = Elements(unpacks[2], 1, 0)
    BY DEF IndexBytes, unpacks
  <2> HIDE DEF indexes
  <2> DEFINE b == LogicalBytes(unpacks[2])
  <2>3. b \in Nat /\ b >= 4 /\ Len(indexes) = b \div 1
    BY <1>3, <2>1, <2>2
  <2> HIDE DEF b
  <2>4. Len(indexes) >= 4
    BY <2>3
  <2> QED BY <2>1, <2>2, <2>4
<1>6. IsSteps(records)
  <2>1. CASE p.textured
    <3>1. 3 \in Int /\ 1 <= 3 /\ 3 <= Len(unpacks) /\ 64 \in Nat \ {0}
      BY <1>3, <2>1
    <3>2. IsSteps(Elements(unpacks[3], 64, NoTextures))
      BY <1>1, <1>2, <3>1, UnpackFacts
    <3>3. records = Elements(unpacks[3], 64, NoTextures)
      BY <2>1 DEF TextureRecords, unpacks
    <3> QED BY <3>2, <3>3
  <2>2. CASE ~p.textured
    <3>1. records = <<>>
      BY <2>2 DEF TextureRecords
    <3> HIDE DEF records
    <3> QED BY <3>1 DEF IsSteps
  <2> QED BY <2>1, <2>2
<1>7. stream = [indexes |-> SubSeq(indexes, 5, Len(indexes)), secrets |-> one \o secrets,
                materials |-> materials]
  BY DEF PacketStream
<1> HIDE DEF indexes, records
<1>8. n \in Nat /\ DOMAIN records = 1 .. n
  BY <1>6 DEF IsSteps
<1> HIDE DEF n
<1>9. secrets = [i \in 1 .. n |-> secrets[i]] /\ materials = [i \in 1 .. n |-> materials[i]]
  BY <1>8
<1> HIDE DEF secrets, materials
<1>10. Len(secrets) = n /\ Len(materials) = n
  BY <1>8, <1>9, LenOfFunction
<1>11. IsSteps(secrets)
  BY <1>8, <1>9, <1>10 DEF IsSteps
<1>12. IsSteps(one)
  BY DEF IsSteps
<1> HIDE DEF one
<1>13. Len(one \o secrets) \in Nat
  <2>1. IsSteps(one \o secrets)
    BY <1>11, <1>12, ConcatSteps
  <2> QED BY <2>1 DEF IsSteps
<1>14. Len(SubSeq(indexes, 5, Len(indexes))) \in Nat
  <2> DEFINE k == Len(indexes)
  <2>1. k \in Int /\ 5 \in 1 .. k + 1 /\ k \in 5 - 1 .. k
    BY <1>5
  <2>2. IsSteps(SubSeq(indexes, 5, k))
    BY <1>5, <2>1, PartIsList
  <2> QED BY <2>2 DEF IsSteps
<1> QED BY <1>7, <1>8, <1>10, <1>13, <1>14

(* The vertices of a packet, its own and its duplicates.                   *)
LEMMA DecodeVerticesFacts ==
  ASSUME NEW class, class.textures \in Seq(Nat), NEW textureCount \in Nat, NEW p, IsMobyPacket(p),
         IsUnpacked(p), IsTabled(p), NEW s, IsClassMesh(s, textureCount),
         NEW cache, IsCache(cache, s.next + VertexCount(p))
  PROVE  IsClassMesh(DecodeVertices(class, textureCount, p, s, cache), textureCount)
<1> DEFINE count == VertexCount(p)
           known == \A a \in Range(Duplicates(p)) : a \in DOMAIN cache
           vertices == [j \in 1 .. count |-> s.next + j - 1]
                         \o [i \in DOMAIN Duplicates(p) |-> cache[Duplicates(p)[i]]]
           reads == {Element(a, kVertexCacheSize) : a \in DOMAIN cache \union Range(Duplicates(p))}
           steps == Append(s.steps, Require("InvalidVertexCache", known, reads))
           next == s.next + count
           cached == [s EXCEPT !.cache = cache, !.next = next, !.steps = steps]
           stream == PacketStream(IndexBytes(p), TextureRecords(p))
           drawn == DrawPacket(class, textureCount, cached, stream, vertices)
<1>1. DecodeVertices(class, textureCount, p, s, cache) = IF ~known THEN cached ELSE drawn
  BY DEF DecodeVertices
<1>2. /\ next \in Nat /\ IsCache(cache, next)
      /\ s.triangles \in Seq(MobyTriangle(textureCount, next))
  BY TrianglesWiden DEF IsTabled, IsClassMesh
<1>3. known => \A r \in reads : InRange(r)
  <2>1. kVertexCacheSize \in Nat
    BY SMT DEF kVertexCacheSize
  <2>2. ASSUME NEW a \in CacheAddresses PROVE InRange(Element(a, kVertexCacheSize))
    <3>1. a \in Nat /\ a < kVertexCacheSize
      BY <2>1 DEF CacheAddresses
    <3> QED BY <2>1, <3>1 DEF Element, InRange, RangeFits
  <2>3. known => DOMAIN cache \union Range(Duplicates(p)) \subseteq CacheAddresses
    BY DEF IsCache
  <2> HIDE DEF known
  <2> QED BY <2>2, <2>3
<1> HIDE DEF known, reads
<1>4. Sound(steps)
  <2>1. Sound(s.steps) /\ "InvalidVertexCache" \notin Verdicts
    BY DEF IsClassMesh, Verdicts
  <2> QED BY <1>3, <2>1, AppendSound
<1> HIDE DEF steps, next
<1>5. IsClassMesh(cached, textureCount) /\ cached.next = next
  BY <1>2, <1>4 DEF IsClassMesh, MeshFields
<1>6. known => vertices \in Seq(Skins(next))
  BY PacketVerticesTyped DEF IsClassMesh, known, next
<1>7. /\ Len(stream.secrets) \in Nat /\ Len(stream.materials) \in Nat /\ Len(stream.indexes) \in Nat
  BY StreamFacts
<1> HIDE DEF cached, stream, vertices, count
<1>8. ASSUME known PROVE IsClassMesh(drawn, textureCount)
  <2>1. PICK r \in Drawing(textureCount, next) : IsDrawnBy(drawn, cached, r)
    <3>1. cached.material \in Materials(textureCount) /\ cached.triangles \in Seq(MobyTriangle(textureCount, next))
      BY <1>5 DEF IsClassMesh
    <3>2. vertices \in Seq(Skins(next))
      BY <1>6, <1>8
    <3> QED BY <1>7, <3>1, <3>2, DrawPacketFacts
  <2> DEFINE more == cached.steps \o StreamStep(r)
             material == r.material
             triangles == r.triangles
  <2>2. Sound(more)
    <3>1. Sound(StreamStep(r)) /\ Sound(cached.steps)
      BY <1>5, StreamStepSound DEF IsClassMesh
    <3> QED BY <3>1, ConcatSound DEF Sound
  <2>3. material \in Materials(textureCount) /\ triangles \in Seq(MobyTriangle(textureCount, next))
    BY DEF Drawing
  <2>4. drawn = [cached EXCEPT !.steps = more, !.material = material, !.triangles = triangles]
    BY <2>1 DEF IsDrawnBy
  <2> HIDE DEF more, material, triangles, drawn
  <2> QED BY <1>5, <2>2, <2>3, <2>4 DEF IsClassMesh, MeshFields
<1> QED BY <1>1, <1>5, <1>8

(* A packet decoded into the mesh of the packets before it.                *)
LEMMA DecodePacketFacts ==
  ASSUME NEW core \in Int, NEW class, IsMobyClass(class), NEW textureCount \in Nat,
         NEW s, IsClassMesh(s, textureCount), NEW p, IsMobyPacket(p)
  PROVE  IsClassMesh(DecodeMobyPacket(core, class, textureCount, s, p), textureCount)
<1> DEFINE checks == MobyPacketSteps(core, class, p)
           steps == Then(s.steps, checks)
           t == [s EXCEPT !.steps = steps]
           decoded == DecodeVertices(class, textureCount, p, t, CachedVertices(p, t))
<1>1. DecodeMobyPacket(core, class, textureCount, s, p) = IF FirstFailure(t.steps) # 0 THEN t ELSE decoded
  BY DEF DecodeMobyPacket, DecodeParsed
<1>2. Sound(checks) /\ (AllHold(checks) => IsUnpacked(p) /\ IsTabled(p))
  BY MobyPacketStepsSound
<1> HIDE DEF checks
<1>3. Sound(steps) /\ (AllHold(steps) => AllHold(checks))
  BY <1>2, ThenSound DEF IsClassMesh
<1> HIDE DEF steps
<1>4. IsClassMesh(t, textureCount) /\ t.steps = steps
  BY <1>3 DEF IsClassMesh, MeshFields
<1> HIDE DEF t
<1>5. ASSUME FirstFailure(t.steps) = 0 PROVE IsClassMesh(decoded, textureCount)
  <2>1. AllHold(steps)
    BY <1>3, <1>4, <1>5, FirstFailureFacts DEF Sound
  <2>2. IsUnpacked(p) /\ IsTabled(p)
    BY <1>2, <1>3, <2>1
  <2>3. IsCache(CachedVertices(p, t), t.next + VertexCount(p))
    BY <1>4, <2>2, CachedVerticesFacts DEF IsClassMesh, IsTabled
  <2>4. class.textures \in Seq(Nat)
    BY DEF IsMobyClass
  <2> QED BY <1>4, <2>2, <2>3, <2>4, DecodeVerticesFacts
<1> HIDE DEF decoded
<1> QED BY <1>1, <1>4, <1>5

(* A moby class's header and its packet table.                             *)
LEMMA MobyHeaderStepsSound ==
  ASSUME NEW core \in Int, NEW class, IsMobyClass(class)
  PROVE  Sound(MobyHeaderSteps(core, class))
<1> DEFINE packets == <<class.at + class.packetsAt, 16 * Len(class.packets)>>
           headerFits == RangeFits(<<class.at, 72>>, core)
           header == Bytes(class.at, 72, core)
           none == class.packetsAt = 0 => ~HasMesh(class) /\ class.low = 0
           some == HasMesh(class) \/ class.low = 0
           fits == HasMesh(class) => class.packetsAt > 0 /\ class.scale /\ RangeFits(packets, core)
           table == <<packets, core>>
           reads == IF HasMesh(class) THEN {table} ELSE {}
<1>1. MobyHeaderSteps(core, class) =
        <<Require("InvalidClass", headerFits, {header}), Require("InvalidClass", none, {}),
          Require("UnsupportedLowLodOnlyClass", some, {}), Require("InvalidClass", fits, reads)>>
  BY DEF MobyHeaderSteps
<1>2. class.at \in Nat /\ class.packetsAt \in Int
  BY DEF IsMobyClass
<1>3. headerFits => InRange(header)
  BY <1>2 DEF InRange, RangeFits, Bytes
<1>4. HasMesh(class) /\ fits => InRange(table)
  <2> DEFINE size == 16 * Len(class.packets)
             at == class.at + class.packetsAt
  <2>1. class.packetsAt > 0 => at \in Nat
    BY <1>2
  <2> HIDE DEF size, at
  <2>2. HasMesh(class) /\ fits => at \in Nat /\ RangeFits(<<at, size>>, core)
    BY <2>1 DEF at, size
  <2>3. at \in Nat /\ RangeFits(<<at, size>>, core) => InRange(<<<<at, size>>, core>>)
    BY DEF InRange
  <2> QED BY <2>2, <2>3 DEF at, size
<1>5. fits => \A r \in reads : InRange(r)
  <2> HIDE DEF fits, table
  <2> QED BY <1>4
<1> HIDE DEF headerFits, header, none, some, fits, reads
<1> QED BY <1>1, <1>3, <1>5 DEF Require, Sound, IsSteps, FailuresNamed, Verdicts, Guarded

(* A class's packets one after the other: each turn decodes one into the   *)
(* mesh the ones before it left, and such a run exists for any number.     *)
IsDecodeRun(f, core, class, textureCount, start, k) ==
  f = [i \in 0 .. k |-> IF i = 0 THEN start
                        ELSE DecodeMobyPacket(core, class, textureCount, f[i - 1], class.packets[i])]

(* The run of a class's packets.                                           *)
LEMMA DecodeRunExists ==
  ASSUME NEW core, NEW class, NEW textureCount, NEW start, NEW n \in Nat
  PROVE  \E f : IsDecodeRun(f, core, class, textureCount, start, n)
<1> DEFINE Bad == {k \in Nat : ~ \E f : IsDecodeRun(f, core, class, textureCount, start, k)}
           step(x, i) == DecodeMobyPacket(core, class, textureCount, x, class.packets[i])
<1>1. SUFFICES ASSUME Bad # {} PROVE FALSE
  OBVIOUS
<1>2. PICK m \in Bad : \A k \in Bad : m <= k
  BY <1>1, LeastNatural
<1>3. CASE m = 0
  <2> DEFINE f == [i \in 0 .. 0 |-> start]
  <2>1. IsDecodeRun(f, core, class, textureCount, start, 0)
    BY DEF IsDecodeRun
  <2> QED BY <2>1, <1>3, <1>2
<1>4. CASE m # 0
  <2>1. m \in Nat /\ m - 1 \in Nat /\ m - 1 \notin Bad
    BY <1>2, <1>4
  <2>2. PICK f : f = [i \in 0 .. m - 1 |-> IF i = 0 THEN start ELSE step(f[i - 1], i)]
    BY <2>1 DEF IsDecodeRun
  <2> HIDE DEF step
  <2> DEFINE g == [i \in 0 .. m |-> IF i = m THEN step(f[m - 1], m) ELSE f[i]]
  <2>3. ASSUME NEW i \in 0 .. m
        PROVE  g[i] = IF i = 0 THEN start ELSE step(g[i - 1], i)
    <3>1. CASE i = m
      <4>1. g[m - 1] = f[m - 1] /\ g[m] = step(f[m - 1], m)
        BY <2>1
      <4> HIDE DEF g
      <4> QED BY <4>1, <3>1, <1>4
    <3>2. CASE i # m
      <4>1. i \in 0 .. m - 1 /\ g[i] = f[i] /\ (i # 0 => i - 1 \in 0 .. m /\ g[i - 1] = f[i - 1])
        BY <2>1, <2>3, <3>2
      <4>2. f[i] = IF i = 0 THEN start ELSE step(f[i - 1], i)
        BY <2>2, <4>1
      <4> HIDE DEF g
      <4> QED BY <4>1, <4>2
    <3> QED BY <3>1, <3>2
  <2>4. g = [i \in 0 .. m |-> g[i]]
    OBVIOUS
  <2>5. g = [i \in 0 .. m |-> IF i = 0 THEN start ELSE step(g[i - 1], i)]
    <3> HIDE DEF g
    <3> QED BY <2>3, <2>4
  <2>6. IsDecodeRun(g, core, class, textureCount, start, m)
    <3> HIDE DEF g
    <3> QED BY <2>5 DEF IsDecodeRun, step
  <2> QED BY <2>6, <1>2
<1> QED BY <1>3, <1>4

(* decodeClass reads only inside the core, the class's tables, the streams *)
(* and the vertex cache, for any class and any content of its packets.     *)
LEMMA DecodeClassFacts ==
  ASSUME NEW core \in Int, NEW class, IsMobyClass(class), NEW textureCount \in Nat
  PROVE  /\ Sound(DecodeClass(core, class, textureCount).steps)
         /\ DecodeClass(core, class, textureCount).next \in Nat
         /\ DecodeClass(core, class, textureCount).triangles \in
              Seq(MobyTriangle(textureCount, DecodeClass(core, class, textureCount).next))
<1> DEFINE packets == IF class.at = 0 THEN <<>> ELSE class.packets
           header == IF class.at = 0 THEN <<>> ELSE MobyHeaderSteps(core, class)
           material == IF textureCount > 0 THEN 0 ELSE -1
           start == [steps |-> header, cache |-> <<>>, next |-> 0, triangles |-> <<>>,
                     material |-> material]
           n == Len(packets)
           after == CHOOSE f : f = [i \in 0 .. n |-> IF i = 0 THEN start ELSE
                      DecodeMobyPacket(core, class, textureCount, f[i - 1], packets[i])]
<1>1. DecodeClass(core, class, textureCount) = Explained(class, after[n])
  BY DEF DecodeClass
<1>2. n \in Nat /\ \A i \in 1 .. n : packets[i] = class.packets[i] /\ IsMobyPacket(packets[i])
  <2>1. CASE class.at = 0
    <3>1. n = 0
      BY <2>1
    <3> HIDE DEF n, packets
    <3> QED BY <3>1
  <2>2. CASE class.at # 0
    <3>1. packets = class.packets
      BY <2>2
    <3> HIDE DEF packets
    <3> QED BY <3>1, SequenceFacts DEF IsMobyClass
  <2> QED BY <2>1, <2>2
<1>3. IsClassMesh(start, textureCount)
  <2>1. Sound(header)
    BY MobyHeaderStepsSound, NoStepsSound
  <2>2. material \in Materials(textureCount)
    BY DEF Materials
  <2>3. IsCache(<<>>, 0) /\ <<>> \in Seq(MobyTriangle(textureCount, 0))
    <3>1. DOMAIN <<>> = {}
      OBVIOUS
    <3> QED BY <3>1, EmptySeq DEF IsCache
  <2> HIDE DEF header, material
  <2> QED BY <2>1, <2>2, <2>3 DEF IsClassMesh, MeshFields
<1> HIDE DEF start, packets, n
<1>4. after = [i \in 0 .. n |-> IF i = 0 THEN start ELSE
                 DecodeMobyPacket(core, class, textureCount, after[i - 1], packets[i])]
  <2>1. PICK f : IsDecodeRun(f, core, class, textureCount, start, n)
    BY <1>2, DecodeRunExists
  <2>2. \A i \in 0 .. n : i # 0 => packets[i] = class.packets[i]
    BY <1>2
  <2>3. f = [i \in 0 .. n |-> IF i = 0 THEN start ELSE
               DecodeMobyPacket(core, class, textureCount, f[i - 1], packets[i])]
    BY <2>1, <2>2 DEF IsDecodeRun
  <2> QED BY <2>3
<1> HIDE DEF after
<1>5. IsClassMesh(after[0], textureCount)
  <2>1. 0 \in 0 .. n
    BY <1>2
  <2>2. after[0] = start
    BY <1>4, <2>1
  <2> QED BY <1>3, <2>2
<1>6. ASSUME NEW i \in 1 .. n, IsClassMesh(after[i - 1], textureCount) PROVE IsClassMesh(after[i], textureCount)
  <2>1. i \in 0 .. n /\ i # 0
    BY <1>2
  <2>2. after[i] = DecodeMobyPacket(core, class, textureCount, after[i - 1], packets[i])
    BY <1>4, <2>1
  <2> QED BY <1>2, <1>6, <2>2, DecodePacketFacts
<1> DEFINE Bad == {i \in 0 .. n : ~IsClassMesh(after[i], textureCount)}
<1>7. Bad = {}
  <2>1. Bad \in SUBSET (0 .. n) /\ 0 \notin Bad
    BY <1>5
  <2>2. \A i \in 1 .. n : i \in Bad => i - 1 \in Bad
    BY <1>2, <1>6
  <2> HIDE DEF Bad
  <2> QED BY <1>2, <2>1, <2>2, NoFirstBad
<1> DEFINE mesh == after[n]
<1>8. IsClassMesh(mesh, textureCount)
  BY <1>2, <1>7
<1> HIDE DEF mesh, Bad
<1> DEFINE drawn == class.at = 0 \/ ~HasMesh(class) \/ mesh.triangles # <<>>
           last == <<Require("UnaccountedNonRenderableClass", drawn, {})>>
           steps == Then(mesh.steps, last)
<1>9. Explained(class, mesh) = [mesh EXCEPT !.steps = steps]
  BY DEF Explained
<1> HIDE DEF drawn
<1>10. Sound(last)
  BY StepSound DEF Verdicts
<1> HIDE DEF last
<1>11. Sound(steps)
  BY <1>8, <1>10, ThenSound DEF IsClassMesh
<1> HIDE DEF steps
<1>12. [mesh EXCEPT !.steps = steps].steps = steps /\ [mesh EXCEPT !.steps = steps].triangles = mesh.triangles
       /\ [mesh EXCEPT !.steps = steps].next = mesh.next
  BY <1>8 DEF IsClassMesh, MeshFields
<1> QED BY <1>1, <1>8, <1>9, <1>11, <1>12 DEF IsClassMesh, mesh

----------------------------------------------------------------------------
(* A moby scene, and what is drawn of it.                                  *)

(* The elements selected from a list are a list of its elements.           *)
LEMMA SelectList ==
  ASSUME NEW s, IsSteps(s), NEW places
  PROVE  /\ IsSteps(Select(s, places))
         /\ \A k \in DOMAIN Select(s, places) :
              \E i \in DOMAIN s : i \in places /\ Select(s, places)[k] = s[i]
         /\ \A i \in DOMAIN s : i \in places =>
              \E k \in DOMAIN Select(s, places) : Select(s, places)[k] = s[i]
<1> DEFINE S == Range(s)
<1> HIDE DEF S
<1>1. s \in Seq(S)
  BY ListIsSeq DEF S
<1>2. /\ Select(s, places) \in Seq(S)
      /\ \A k \in DOMAIN Select(s, places) :
           \E i \in DOMAIN s : i \in places /\ Select(s, places)[k] = s[i]
      /\ \A i \in DOMAIN s : i \in places =>
           \E k \in DOMAIN Select(s, places) : Select(s, places)[k] = s[i]
  BY <1>1, SelectFacts
<1>3. IsSteps(Select(s, places))
  BY <1>2, LenProperties DEF IsSteps
<1> QED BY <1>2, <1>3

(* Every value of a list is among the first of each.                       *)
LEMMA FirstOfEachIsAll ==
  ASSUME NEW s, IsSteps(s), NEW i \in DOMAIN s
  PROVE  \E k \in DOMAIN FirstOfEach(s) : FirstOfEach(s)[k] = s[i]
<1> DEFINE n == Len(s)
           same == {j \in DOMAIN s : s[j] = s[i]}
           places == {j \in DOMAIN s : \A l \in 1 .. j - 1 : s[l] # s[j]}
<1>1. n \in Nat /\ DOMAIN s = 1 .. n
  BY DEF IsSteps
<1> HIDE DEF n
<1>2. same \in SUBSET Nat /\ same # {}
  BY <1>1
<1> HIDE DEF same
<1>3. PICK j \in same : \A l \in same : j <= l
  BY <1>2, LeastNatural
<1>4. j \in DOMAIN s /\ s[j] = s[i] /\ \A l \in DOMAIN s : s[l] = s[i] => j <= l
  BY <1>3 DEF same
<1>5. j \in places
  <2> SUFFICES ASSUME NEW l \in 1 .. j - 1, s[l] = s[j] PROVE FALSE
    BY <1>4
  <2>1. l \in DOMAIN s /\ ~(j <= l)
    BY <1>1, <1>4
  <2> QED BY <1>4, <2>1
<1>6. FirstOfEach(s) = Select(s, places)
  BY DEF FirstOfEach
<1> HIDE DEF places
<1> QED BY <1>4, <1>5, <1>6, SelectList

----------------------------------------------------------------------------
(* What a moby scene's fields are.                                         *)
LEMMA MobySceneFacts ==
  ASSUME NEW scene, IsMobyScene(scene)
  PROVE  /\ IsClassTable(scene.table) /\ IsSequence(scene.table.classes) /\ scene.table.at \in Nat
         /\ \A c \in Range(scene.table.classes) : IsMobyClass(c)
         /\ IsBlock(scene.block)
BY DEF IsMobyScene, IsClassTable

(* The moby class table and the block of instances.                        *)
LEMMA MobyBlockStepsSound ==
  ASSUME NEW coreIndex \in Int, NEW gameplay \in Int, NEW scene, IsMobyScene(scene)
  PROVE  Sound(MobyBlockSteps(coreIndex, gameplay, scene))
<1> DEFINE block == scene.block
           size == 32 * Len(scene.table.classes)
           tableFits == ClassTableFits(scene.table, 32, coreIndex)
           table == Bytes(scene.table.at, size, coreIndex)
           long == gameplay >= 144
           word == Bytes(68, 4, gameplay)
           header == block.at = 0 \/ (block.at > 0 /\ RangeFits(<<block.at, 16>>, gameplay))
           counted == block.at = 0 \/ (/\ block.count \in 0 .. kMaxStaticCount
                                       /\ RangeFits(<<block.at + 16, 120 * block.count>>, gameplay))
           reads == InstanceReads(block, 120, gameplay)
           finite == \A i \in Range(Instances(block)) : i.finite
           invalid == "InvalidInstanceBlock"
<1>1. MobyBlockSteps(coreIndex, gameplay, scene) =
        <<Require("InvalidIndexTable", tableFits, {table}), Require("InvalidGameplayHeader", long, {word}),
          Require(invalid, header, {}), Require(invalid, counted, reads), Require(invalid, finite, {})>>
  BY DEF MobyBlockSteps
<1>2. scene.table.at \in Nat /\ IsBlock(block)
  BY MobySceneFacts
<1>3. tableFits => InRange(table)
  BY <1>2 DEF ClassTableFits, InRange, Bytes
<1>4. long => InRange(word)
  BY DEF InRange, RangeFits, Bytes
<1>5. header /\ counted => \A r \in reads : InRange(r)
  <2>1. block.at \in Int
    BY <1>2, InstancesFacts
  <2>2. header /\ counted => block.at >= 0
    BY <2>1
  <2>3. header /\ counted /\ block.at # 0 =>
          RangeFits(<<block.at, 16>>, gameplay) /\ RangeFits(<<block.at + 16, 120 * block.count>>, gameplay)
    <3> DEFINE a == RangeFits(<<block.at, 16>>, gameplay)
               b == RangeFits(<<block.at + 16, 120 * block.count>>, gameplay)
    <3> HIDE DEF a, b
    <3>1. header /\ counted /\ block.at # 0 => a /\ b
      BY DEF a, b
    <3> QED BY <3>1 DEF a, b
  <2> HIDE DEF header, counted
  <2>4. 120 \in Nat
    OBVIOUS
  <2> HIDE DEF block
  <2> QED BY <1>2, <2>2, <2>3, <2>4, InstanceReadsFit
<1> HIDE DEF tableFits, table, long, word, header, counted, reads, finite
<1> QED BY <1>1, <1>3, <1>4, <1>5 DEF Require, Sound, IsSteps, FailuresNamed, Verdicts, Guarded

\* What a decoded class draws.
IsDrawnMesh(mesh, count) ==
  /\ IsSteps(mesh.triangles) /\ mesh.next \in Nat
  /\ \A k \in DOMAIN mesh.triangles : mesh.triangles[k] \in MobyTriangle(count, mesh.next)

(* Decoding the class an instance names.                                   *)
LEMMA MeshOfClassFacts ==
  ASSUME NEW core \in Int, NEW scene, IsMobyScene(scene), NEW textureCount \in Nat, NEW oClass
  PROVE  LET mesh == MeshOfClass(core, scene.table, textureCount, oClass) IN
         /\ Sound(mesh.steps)
         /\ AllHold(mesh.steps) => IsDrawnMesh(mesh, textureCount)
<1> DEFINE mesh == MeshOfClass(core, scene.table, textureCount, oClass)
           class == ClassOf(scene.table, oClass)
<1>1. CASE HasClass(scene.table, oClass)
  <2>1. IsMobyClass(class)
    BY <1>1, MobySceneFacts, ClassOfFacts
  <2>2. mesh = DecodeClass(core, class, textureCount)
    BY <1>1 DEF MeshOfClass
  <2> HIDE DEF class, mesh
  <2>3. /\ Sound(mesh.steps) /\ mesh.next \in Nat
        /\ mesh.triangles \in Seq(MobyTriangle(textureCount, mesh.next))
    BY <2>1, <2>2, DecodeClassFacts
  <2>4. IsSteps(mesh.triangles)
    BY <2>3, LenProperties DEF IsSteps
  <2>5. \A k \in DOMAIN mesh.triangles : mesh.triangles[k] \in MobyTriangle(textureCount, mesh.next)
    BY <2>3, ElementsOfSeq
  <2>6. IsDrawnMesh(mesh, textureCount)
    BY <2>3, <2>4, <2>5 DEF IsDrawnMesh
  <2> QED BY <2>3, <2>6 DEF mesh
<1>2. CASE ~HasClass(scene.table, oClass)
  <2> DEFINE steps == <<Require("MissingReferencedClass", FALSE, {})>>
  <2>1. mesh.steps = steps
    BY <1>2 DEF MeshOfClass
  <2>2. Sound(steps) /\ (AllHold(steps) => FALSE)
    BY StepSound DEF Verdicts
  <2> HIDE DEF mesh, steps
  <2> QED BY <2>1, <2>2 DEF mesh
<1> QED BY <1>1, <1>2

\* Meshes with their triangles, and one for every instance.
AreMeshes(meshes, block, count) ==
  /\ IsSteps(meshes) /\ \A i \in DOMAIN meshes : IsDrawnMesh(meshes[i].mesh, count)
  /\ \A i \in DOMAIN Instances(block) : \E k \in DOMAIN meshes :
       meshes[k].oClass = Instances(block)[i].oClass

(* decodeRac1MobyScene: the tables, and every class an instance names.     *)
LEMMA MobySceneStepsSound ==
  ASSUME NEW core \in Int, NEW coreIndex \in Int, NEW gameplay \in Int, NEW scene, IsMobyScene(scene),
         NEW textureCount \in Nat, NEW meshes, meshes = MobyMeshes(core, scene, textureCount)
  PROVE  /\ Sound(MobySceneSteps(coreIndex, gameplay, scene, meshes))
         /\ AllHold(MobySceneSteps(coreIndex, gameplay, scene, meshes)) => AreMeshes(meshes, scene.block, textureCount)
<1> DEFINE block == scene.block
           oClasses == [i \in DOMAIN Instances(block) |-> Instances(block)[i].oClass]
           names == ReferencedClasses(block)
           m == Len(Instances(block))
           n == Len(names)
           first == MobyBlockSteps(coreIndex, gameplay, scene)
           turns == [i \in DOMAIN meshes |-> meshes[i].mesh.steps]
           loop == ForEach(turns)
<1>1. m \in Nat /\ DOMAIN Instances(block) = 1 .. m
  BY MobySceneFacts, InstancesFacts
<1>2. IsSteps(oClasses) /\ DOMAIN oClasses = 1 .. m
      /\ \A i \in 1 .. m : oClasses[i] = Instances(block)[i].oClass
  <2>1. oClasses = [i \in 1 .. m |-> oClasses[i]] /\ \A i \in 1 .. m : oClasses[i] = Instances(block)[i].oClass
    BY <1>1
  <2> HIDE DEF oClasses, m
  <2>2. Len(oClasses) = m
    BY <1>1, <2>1, LenOfFunction
  <2> QED BY <1>1, <2>1, <2>2 DEF IsSteps
<1>3. names = FirstOfEach(oClasses)
  BY DEF ReferencedClasses
<1> HIDE DEF oClasses, names
<1>4. IsSteps(names)
  BY <1>2, <1>3, FirstOfEachFacts
<1>5. n \in Nat /\ DOMAIN names = 1 .. n
  BY <1>4 DEF IsSteps
<1>6. /\ meshes = [i \in 1 .. n |-> meshes[i]]
      /\ \A i \in 1 .. n : meshes[i].oClass = names[i]
           /\ meshes[i].mesh = MeshOfClass(core, scene.table, textureCount, names[i])
  <2>1. meshes = [i \in DOMAIN names |->
                    [oClass |-> names[i], mesh |-> MeshOfClass(core, scene.table, textureCount, names[i])]]
    BY DEF MobyMeshes, names
  <2> HIDE DEF n
  <2> QED BY <1>5, <2>1
<1> HIDE DEF n
<1>7. DOMAIN meshes = 1 .. n /\ IsSteps(meshes)
  <2>1. Len(meshes) = n
    BY <1>5, <1>6, LenOfFunction
  <2> QED BY <1>5, <1>6, <2>1 DEF IsSteps
<1>8. ASSUME NEW i \in 1 .. n
      PROVE  Sound(meshes[i].mesh.steps)
               /\ (AllHold(meshes[i].mesh.steps) => IsDrawnMesh(meshes[i].mesh, textureCount))
  <2> DEFINE mesh == MeshOfClass(core, scene.table, textureCount, names[i])
  <2>1. Sound(mesh.steps) /\ (AllHold(mesh.steps) => IsDrawnMesh(mesh, textureCount))
    BY MeshOfClassFacts
  <2>2. meshes[i].mesh = mesh
    BY <1>6
  <2> HIDE DEF mesh
  <2> QED BY <2>1, <2>2
<1>9. turns = [i \in 1 .. n |-> turns[i]] /\ \A i \in 1 .. n : turns[i] = meshes[i].mesh.steps
  BY <1>7
<1> HIDE DEF turns
<1>10. Sound(loop) /\ (AllHold(loop) => \A i \in 1 .. n : AllHold(turns[i]))
  BY <1>5, <1>8, <1>9, ForEachSound
<1>11. \A i \in 1 .. m : \E k \in 1 .. n : meshes[k].oClass = Instances(block)[i].oClass
  <2> TAKE i \in 1 .. m
  <2>1. i \in DOMAIN oClasses
    BY <1>2
  <2>2. PICK k \in DOMAIN names : names[k] = oClasses[i]
    BY <1>2, <1>3, <2>1, FirstOfEachIsAll
  <2> QED BY <1>2, <1>5, <1>6, <2>2
<1> HIDE DEF loop, m
<1>12. AllHold(loop) => AreMeshes(meshes, block, textureCount)
  BY <1>1, <1>7, <1>8, <1>9, <1>10, <1>11 DEF AreMeshes
<1>13. Sound(first)
  BY MobyBlockStepsSound
<1> HIDE DEF first, block
<1>14. Sound(Then(first, loop)) /\ (AllHold(Then(first, loop)) => AllHold(loop))
  BY <1>10, <1>13, ThenSound
<1>15. MobySceneSteps(coreIndex, gameplay, scene, meshes) = Then(first, loop)
  BY DEF MobySceneSteps, first, loop, turns
<1> QED BY <1>12, <1>14, <1>15 DEF block

(* A function over the places of a list is a list.                         *)
LEMMA ListOver ==
  ASSUME NEW list, IsSteps(list), NEW f, f = [i \in DOMAIN list |-> f[i]]
  PROVE  IsSteps(f) /\ DOMAIN f = DOMAIN list
<1> DEFINE n == Len(list)
<1>1. n \in Nat /\ DOMAIN list = 1 .. n
  BY DEF IsSteps
<1> HIDE DEF n
<1>2. f = [i \in 1 .. n |-> f[i]] /\ DOMAIN f = 1 .. n
  BY <1>1
<1>3. Len(f) = n
  BY <1>1, <1>2, LenOfFunction
<1> QED BY <1>1, <1>2, <1>3 DEF IsSteps

(* Batches by material are a list, and so are the triangles of each, which *)
(* have its material.                                                      *)
LEMMA MobyBatchesFacts ==
  ASSUME NEW triangles, IsSteps(triangles)
  PROVE  /\ IsSteps(MobyBatches(triangles))
         /\ \A i \in DOMAIN MobyBatches(triangles) :
              LET batch == MobyBatches(triangles)[i] IN
              /\ IsSteps(batch.triangles)
              /\ \E t \in DOMAIN triangles : batch.material = triangles[t].material
              /\ \A j \in DOMAIN batch.triangles :
                   \E t \in DOMAIN triangles : batch.triangles[j] = triangles[t]
<1> DEFINE materials == [t \in DOMAIN triangles |-> triangles[t].material]
           order == FirstOfEach(materials)
           places(material) == {t \in DOMAIN triangles : materials[t] = material}
           batches == [i \in DOMAIN order |->
                         [material |-> order[i], triangles |-> Select(triangles, places(order[i]))]]
<1>1. MobyBatches(triangles) = batches
  BY DEF MobyBatches
<1>2. materials = [t \in DOMAIN triangles |-> materials[t]] /\ DOMAIN materials = DOMAIN triangles
      /\ \A t \in DOMAIN triangles : materials[t] = triangles[t].material
  OBVIOUS
<1> HIDE DEF materials
<1>3. IsSteps(materials)
  BY <1>2, ListOver
<1>4. IsSteps(order) /\ \A i \in DOMAIN order : \E t \in DOMAIN triangles : order[i] = triangles[t].material
  BY <1>2, <1>3, FirstOfEachFacts
<1> HIDE DEF order, places
<1>5. batches = [i \in DOMAIN order |-> batches[i]] /\ DOMAIN batches = DOMAIN order
      /\ \A i \in DOMAIN order : batches[i].material = order[i]
                                   /\ batches[i].triangles = Select(triangles, places(order[i]))
  OBVIOUS
<1> HIDE DEF batches
<1>6. IsSteps(batches)
  BY <1>4, <1>5, ListOver
<1>7. ASSUME NEW i \in DOMAIN order
      PROVE  /\ IsSteps(batches[i].triangles)
             /\ \E t \in DOMAIN triangles : batches[i].material = triangles[t].material
             /\ \A j \in DOMAIN batches[i].triangles :
                  \E t \in DOMAIN triangles : batches[i].triangles[j] = triangles[t]
  <2>1. batches[i].triangles = Select(triangles, places(order[i]))
    BY <1>5
  <2>2. IsSteps(batches[i].triangles) /\ \A j \in DOMAIN batches[i].triangles :
          \E t \in DOMAIN triangles : batches[i].triangles[j] = triangles[t]
    BY <2>1, SelectList
  <2> QED BY <1>4, <1>5, <2>2
<1> QED BY <1>1, <1>5, <1>6, <1>7

(* Flattening lists gives a list of their elements.                        *)
LEMMA FlattenOver ==
  ASSUME NEW list, IsSteps(list), NEW lists, lists = [i \in DOMAIN list |-> lists[i]],
         \A i \in DOMAIN list : IsSteps(lists[i])
  PROVE  /\ IsSteps(FlattenSeq(lists))
         /\ \A k \in DOMAIN FlattenSeq(lists) :
              \E i \in DOMAIN list : \E j \in DOMAIN lists[i] : FlattenSeq(lists)[k] = lists[i][j]
<1> DEFINE n == Len(list)
<1>1. n \in Nat /\ DOMAIN list = 1 .. n
  BY DEF IsSteps
<1> HIDE DEF n
<1>2. lists = [i \in 1 .. n |-> lists[i]] /\ \A i \in 1 .. n : IsSteps(lists[i])
  BY <1>1
<1> DEFINE all == FlattenSeq(lists)
<1>3. IsSteps(all) /\ \A k \in DOMAIN all :
        \E i \in 1 .. n : \E j \in DOMAIN lists[i] : all[k] = lists[i][j]
  <2>1. n \in Nat /\ lists = [i \in 1 .. n |-> lists[i]]
    BY <1>1, <1>2
  <2>2. \A i \in 1 .. n : IsSteps(lists[i])
    BY <1>2
  <2> QED BY <2>1, <2>2, FlattenLists
<1> HIDE DEF all
<1>4. \A k \in DOMAIN all : \E i \in DOMAIN list : \E j \in DOMAIN lists[i] : all[k] = lists[i][j]
  BY <1>1, <1>3
<1> QED BY <1>3, <1>4 DEF all

(* A class's triangles are those that are visible.                         *)
LEMMA ClassTrianglesList ==
  ASSUME NEW mesh, IsSteps(mesh.triangles)
  PROVE  /\ IsSteps(ClassTriangles(mesh))
         /\ \A k \in DOMAIN ClassTriangles(mesh) : \E t \in DOMAIN mesh.triangles :
              mesh.triangles[t].material >= 0 /\ ClassTriangles(mesh)[k] = mesh.triangles[t]
<1> DEFINE visible == Visible(mesh)
           batches == MobyBatches(visible)
           lists == [i \in DOMAIN batches |-> batches[i].triangles]
           all == FlattenSeq(lists)
<1>1. IsSteps(visible) /\ \A k \in DOMAIN visible : \E t \in DOMAIN mesh.triangles :
        mesh.triangles[t].material >= 0 /\ visible[k] = mesh.triangles[t]
  <2> DEFINE places == {t \in DOMAIN mesh.triangles : mesh.triangles[t].material >= 0}
  <2>1. visible = Select(mesh.triangles, places)
    BY DEF Visible
  <2>2. \A t \in places : t \in DOMAIN mesh.triangles /\ mesh.triangles[t].material >= 0
    OBVIOUS
  <2> HIDE DEF visible, places
  <2> QED BY <2>1, <2>2, SelectList
<1> HIDE DEF visible
<1>2. IsSteps(batches) /\ \A i \in DOMAIN batches : IsSteps(batches[i].triangles)
        /\ \A j \in DOMAIN batches[i].triangles :
             \E k \in DOMAIN visible : batches[i].triangles[j] = visible[k]
  BY <1>1, MobyBatchesFacts
<1> HIDE DEF batches
<1>3. lists = [i \in DOMAIN batches |-> lists[i]] /\ \A i \in DOMAIN batches : lists[i] = batches[i].triangles
  OBVIOUS
<1> HIDE DEF lists
<1>4. IsSteps(all) /\ \A k \in DOMAIN all :
        \E i \in DOMAIN batches : \E j \in DOMAIN lists[i] : all[k] = lists[i][j]
  <2>1. \A i \in DOMAIN batches : IsSteps(lists[i])
    BY <1>2, <1>3
  <2> QED BY <1>2, <1>3, <2>1, FlattenOver
<1>5. ClassTriangles(mesh) = all
  BY DEF ClassTriangles, lists, batches, visible
<1> HIDE DEF all
<1>6. \A k \in DOMAIN all : \E t \in DOMAIN mesh.triangles :
        mesh.triangles[t].material >= 0 /\ all[k] = mesh.triangles[t]
  BY <1>1, <1>2, <1>3, <1>4
<1> QED BY <1>4, <1>5, <1>6

(* The mesh an instance names is one of those decoded for it.              *)
LEMMA MeshNamedFacts ==
  ASSUME NEW meshes, IsSteps(meshes), NEW oClass, \E k \in DOMAIN meshes : meshes[k].oClass = oClass
  PROVE  \E k \in DOMAIN meshes : MeshNamed(meshes, oClass) = meshes[k].mesh
<1> DEFINE named == {i \in DOMAIN meshes : meshes[i].oClass = oClass}
           n == Len(meshes)
<1>1. n \in Nat /\ DOMAIN meshes = 1 .. n
  BY DEF IsSteps
<1> HIDE DEF n
<1>2. named \in SUBSET Nat /\ named # {}
  BY <1>1
<1>3. named \subseteq DOMAIN meshes
  OBVIOUS
<1>4. MeshNamed(meshes, oClass) = meshes[Min(named)].mesh
  BY DEF MeshNamed
<1> HIDE DEF named
<1>5. Min(named) \in named
  BY <1>2, MinIsLeast
<1> QED BY <1>3, <1>4, <1>5

\* A triangle of the scene, with a texture of the level and its class's vertices.
IsSceneTriangle(t, meshes, count) ==
  /\ DOMAIN t = {"material", "corners", "instance", "oClass"}
  /\ t.material \in 0 .. count - 1
  /\ MeshNamed(meshes, t.oClass).next \in Nat
  /\ t.corners \in Seq(Skins(MeshNamed(meshes, t.oClass).next))

(* An instance's triangles are a list of them.                             *)
LEMMA InstanceTrianglesList ==
  ASSUME NEW block, NEW meshes, NEW count \in Nat, AreMeshes(meshes, block, count),
         NEW i \in DOMAIN Instances(block)
  PROVE  /\ IsSteps(InstanceTriangles(meshes, block, i))
         /\ \A k \in DOMAIN InstanceTriangles(meshes, block, i) :
              IsSceneTriangle(InstanceTriangles(meshes, block, i)[k], meshes, count)
<1> DEFINE oClass == Instances(block)[i].oClass
           mesh == MeshNamed(meshes, oClass)
           triangles == ClassTriangles(mesh)
           triangle(t) == [material |-> triangles[t].material, corners |-> triangles[t].corners,
                           instance |-> i, oClass |-> oClass]
           drawn == [t \in DOMAIN triangles |-> triangle(t)]
<1>1. /\ IsSteps(meshes) /\ \A k \in DOMAIN meshes : IsDrawnMesh(meshes[k].mesh, count)
      /\ \E k \in DOMAIN meshes : meshes[k].oClass = oClass
  BY DEF AreMeshes
<1>2. InstanceTriangles(meshes, block, i) = drawn
  BY DEF InstanceTriangles
<1> HIDE DEF oClass
<1>3. \E k \in DOMAIN meshes : mesh = meshes[k].mesh
  BY <1>1, MeshNamedFacts
<1>4. IsDrawnMesh(mesh, count) /\ MeshNamed(meshes, oClass) = mesh
  BY <1>1, <1>3
<1> HIDE DEF mesh
<1>5. IsSteps(triangles) /\ \A k \in DOMAIN triangles : \E t \in DOMAIN mesh.triangles :
        mesh.triangles[t].material >= 0 /\ triangles[k] = mesh.triangles[t]
  BY <1>4, ClassTrianglesList DEF IsDrawnMesh
<1> HIDE DEF triangles
<1>6. ASSUME NEW k \in DOMAIN triangles PROVE IsSceneTriangle(triangle(k), meshes, count)
  <2>1. PICK t \in DOMAIN mesh.triangles : mesh.triangles[t].material >= 0 /\ triangles[k] = mesh.triangles[t]
    BY <1>5
  <2>2. triangles[k] \in MobyTriangle(count, mesh.next) /\ mesh.next \in Nat /\ triangles[k].material >= 0
    BY <1>4, <2>1 DEF IsDrawnMesh
  <2>3. triangles[k].material \in 0 .. count - 1 /\ triangles[k].corners \in Seq(Skins(mesh.next))
    <3>1. triangles[k].material \in Materials(count) /\ triangles[k].corners \in Seq(Skins(mesh.next))
      BY <2>2 DEF MobyTriangle
    <3> QED BY <2>2, <3>1 DEF Materials
  <2> QED BY <1>4, <2>2, <2>3 DEF IsSceneTriangle
<1> HIDE DEF triangle
<1>7. drawn = [t \in DOMAIN triangles |-> drawn[t]] /\ DOMAIN drawn = DOMAIN triangles
      /\ \A t \in DOMAIN triangles : drawn[t] = triangle(t)
  OBVIOUS
<1> HIDE DEF drawn
<1>8. IsSteps(drawn)
  BY <1>5, <1>7, ListOver
<1> QED BY <1>2, <1>6, <1>7, <1>8

\* Batches of triangles of the scene, each with a texture of the level.
AreBatches(batches, meshes, count) ==
  /\ IsSteps(batches)
  /\ \A i \in DOMAIN batches :
       /\ IsSteps(batches[i].triangles) /\ batches[i].material \in 0 .. count - 1
       /\ \A k \in DOMAIN batches[i].triangles :
            IsSceneTriangle(batches[i].triangles[k], meshes, count)

(* What is drawn of a decoded scene is a list of batches.                  *)
LEMMA SceneBatchesList ==
  ASSUME NEW scene, IsBlock(scene.block), NEW meshes, NEW count \in Nat,
         AreMeshes(meshes, scene.block, count)
  PROVE  AreBatches(MobyScene(scene, meshes).batches, meshes, count)
<1> DEFINE block == scene.block
           numbers == [i \in DOMAIN Instances(block) |-> i]
           places == {i \in DOMAIN numbers : Visible(MeshNamed(meshes, Instances(block)[i].oClass)) # <<>>}
           drawn == Select(numbers, places)
           lists == [r \in DOMAIN drawn |-> InstanceTriangles(meshes, block, drawn[r])]
           all == FlattenSeq(lists)
<1>1. MobyScene(scene, meshes).batches = MobyBatches(all)
  BY DEF MobyScene
<1> DEFINE n == Len(Instances(block))
<1>2. n \in Nat /\ DOMAIN Instances(block) = 1 .. n
  BY InstancesFacts
<1> HIDE DEF n
<1>3. numbers = [i \in 1 .. n |-> numbers[i]] /\ DOMAIN numbers = 1 .. n
      /\ \A i \in 1 .. n : numbers[i] \in DOMAIN Instances(block)
  BY <1>2
<1> HIDE DEF numbers, places
<1>4. Len(numbers) = n
  BY <1>2, <1>3, LenOfFunction
<1>5. IsSteps(numbers)
  BY <1>2, <1>3, <1>4 DEF IsSteps
<1>6. IsSteps(drawn) /\ \A k \in DOMAIN drawn : \E i \in DOMAIN numbers : drawn[k] = numbers[i]
  BY <1>5, SelectList
<1>7. \A k \in DOMAIN drawn : drawn[k] \in DOMAIN Instances(block)
  BY <1>3, <1>6
<1> HIDE DEF drawn
<1>8. lists = [r \in DOMAIN drawn |-> lists[r]]
      /\ \A r \in DOMAIN drawn : lists[r] = InstanceTriangles(meshes, block, drawn[r])
  OBVIOUS
<1> HIDE DEF lists
<1>9. \A r \in DOMAIN drawn : IsSteps(lists[r])
        /\ \A j \in DOMAIN lists[r] : IsSceneTriangle(lists[r][j], meshes, count)
  BY <1>7, <1>8, InstanceTrianglesList
<1>10. IsSteps(all) /\ \A k \in DOMAIN all :
         \E r \in DOMAIN drawn : \E j \in DOMAIN lists[r] : all[k] = lists[r][j]
  BY <1>6, <1>8, <1>9, FlattenOver
<1> HIDE DEF all
<1>11. \A k \in DOMAIN all : IsSceneTriangle(all[k], meshes, count)
  BY <1>9, <1>10
<1> DEFINE batches == MobyBatches(all)
<1>12. IsSteps(batches) /\ \A i \in DOMAIN batches :
         /\ IsSteps(batches[i].triangles)
         /\ \E t \in DOMAIN all : batches[i].material = all[t].material
         /\ \A j \in DOMAIN batches[i].triangles :
              \E t \in DOMAIN all : batches[i].triangles[j] = all[t]
  BY <1>10, MobyBatchesFacts
<1> HIDE DEF batches
<1>13. ASSUME NEW i \in DOMAIN batches
       PROVE  /\ batches[i].material \in 0 .. count - 1
              /\ \A j \in DOMAIN batches[i].triangles :
                   IsSceneTriangle(batches[i].triangles[j], meshes, count)
  <2>1. batches[i].material \in 0 .. count - 1
    BY <1>11, <1>12 DEF IsSceneTriangle
  <2> QED BY <1>11, <1>12, <2>1
<1> QED BY <1>1, <1>12, <1>13 DEF AreBatches, batches

(* The batches that are Ratchet's alone.                                   *)
LEMMA TopologyList ==
  ASSUME NEW scene, NEW meshes, NEW count, AreBatches(scene.batches, meshes, count)
  PROVE  /\ AreBatches(RatchetTopology(scene), meshes, count)
         /\ \A i \in DOMAIN RatchetTopology(scene) :
              \A k \in DOMAIN RatchetTopology(scene)[i].triangles :
                IsOf(RatchetTopology(scene)[i].triangles[k], TheRatchet(scene))
<1> DEFINE batches == scene.batches
           ratchet == TheRatchet(scene)
           mine(batch) == {t \in DOMAIN batch.triangles : IsOf(batch.triangles[t], ratchet)}
           own(batch) == [material |-> batch.material, triangles |-> Select(batch.triangles, mine(batch))]
           kept == [i \in DOMAIN batches |-> own(batches[i])]
           places == {i \in DOMAIN kept : kept[i].triangles # <<>>}
           topology == RatchetTopology(scene)
<1>1. topology = Select(kept, places)
  BY DEF RatchetTopology
<1>2. kept = [i \in DOMAIN batches |-> kept[i]] /\ \A i \in DOMAIN batches : kept[i] = own(batches[i])
  OBVIOUS
<1> HIDE DEF kept, places, topology
<1>3. IsSteps(batches)
  BY DEF AreBatches
<1>4. IsSteps(kept) /\ DOMAIN kept = DOMAIN batches
  BY <1>2, <1>3, ListOver
<1>5. ASSUME NEW i \in DOMAIN batches
      PROVE  /\ IsSteps(kept[i].triangles) /\ kept[i].material \in 0 .. count - 1
             /\ \A k \in DOMAIN kept[i].triangles :
                  IsSceneTriangle(kept[i].triangles[k], meshes, count) /\ IsOf(kept[i].triangles[k], ratchet)
  <2> DEFINE batch == batches[i]
             list == Select(batch.triangles, mine(batch))
  <2>1. kept[i].material = batch.material /\ kept[i].triangles = list
    <3>1. kept[i] = [material |-> batch.material, triangles |-> list]
      BY <1>2
    <3> HIDE DEF list, batch
    <3> QED BY <3>1
  <2>2. /\ IsSteps(batch.triangles) /\ batch.material \in 0 .. count - 1
        /\ \A k \in DOMAIN batch.triangles : IsSceneTriangle(batch.triangles[k], meshes, count)
    BY DEF AreBatches
  <2>3. \A k \in mine(batch) : IsOf(batch.triangles[k], ratchet)
    OBVIOUS
  <2> HIDE DEF batch, mine, ratchet
  <2>4. IsSteps(list) /\ \A k \in DOMAIN list :
          \E t \in DOMAIN batch.triangles : t \in mine(batch) /\ list[k] = batch.triangles[t]
    BY <2>2, SelectList
  <2> HIDE DEF list
  <2> QED BY <2>1, <2>2, <2>3, <2>4
<1>6. IsSteps(topology) /\ \A k \in DOMAIN topology : \E i \in DOMAIN kept : topology[k] = kept[i]
  BY <1>1, <1>4, SelectList
<1> HIDE DEF ratchet, batches
<1>7. \A i \in DOMAIN topology :
        /\ IsSteps(topology[i].triangles) /\ topology[i].material \in 0 .. count - 1
        /\ \A k \in DOMAIN topology[i].triangles :
             IsSceneTriangle(topology[i].triangles[k], meshes, count) /\ IsOf(topology[i].triangles[k], ratchet)
  BY <1>4, <1>5, <1>6
<1>8. AreBatches(topology, meshes, count)
  BY <1>6, <1>7 DEF AreBatches
<1> QED BY <1>7, <1>8 DEF topology, ratchet

----------------------------------------------------------------------------
(* Animation metadata and Ratchet's sequences.                             *)

(* What a class's fields are, to the animation decoder.                    *)
LEMMA MobyClassFacts ==
  ASSUME NEW class, IsMobyClass(class)
  PROVE  /\ class.at \in Nat /\ class.low \in Nat /\ class.joints \in Nat
         /\ class.packetsAt \in Int /\ class.skeleton \in Int /\ class.common \in Int /\ class.jointsAt \in Int
         /\ Len(class.packets) \in Nat /\ DOMAIN class.packets = 1 .. Len(class.packets)
         /\ \A i \in 1 .. Len(class.packets) : IsMobyPacket(class.packets[i])
         /\ Len(class.sequences) \in Nat /\ DOMAIN class.sequences = 1 .. Len(class.sequences)
         /\ \A i \in 1 .. Len(class.sequences) : class.sequences[i] \in Int
         /\ Range(class.sequences) \subseteq Int
<1>1. /\ class.at \in Nat /\ class.low \in Nat /\ class.joints \in Nat
      /\ class.packetsAt \in Int /\ class.skeleton \in Int /\ class.common \in Int /\ class.jointsAt \in Int
  BY DEF IsMobyClass
<1>2. /\ Len(class.packets) \in Nat /\ DOMAIN class.packets = 1 .. Len(class.packets)
      /\ \A i \in 1 .. Len(class.packets) : IsMobyPacket(class.packets[i])
  BY SequenceFacts DEF IsMobyClass
<1>3. /\ Len(class.sequences) \in Nat /\ DOMAIN class.sequences = 1 .. Len(class.sequences)
      /\ \A i \in DOMAIN class.sequences : class.sequences[i] \in Int
      /\ Range(class.sequences) \subseteq Int
  BY ElementsOfSeq DEF IsMobyClass
<1> QED BY <1>1, <1>2, <1>3

(* The prefix of what a class points at is cut at the core's end.          *)
LEMMA PrefixInRange ==
  ASSUME NEW core \in Int, NEW from \in Nat, NEW limit \in Int
  PROVE  \A r \in PrefixRead(core, from, limit) : InRange(r)
<1> DEFINE sizes == {64, limit - from, core - from}
           size == Min(sizes)
           ends == {limit, core}
           least == IF limit - from <= core - from
                    THEN (IF limit - from <= 64 THEN limit - from ELSE 64)
                    ELSE (IF core - from <= 64 THEN core - from ELSE 64)
<1>1. sizes \in SUBSET Int /\ sizes # {} /\ least \in Int /\ (\A k \in sizes : least <= k)
      /\ core - from \in sizes
  OBVIOUS
<1> HIDE DEF sizes, least
<1>2. size \in sizes /\ \A k \in sizes : size <= k
  BY <1>1, MinIsLeastInt
<1>3. size \in Int /\ size <= core - from
  BY <1>1, <1>2
<1> HIDE DEF size
<1>4. PrefixRead(core, from, limit) \subseteq {Bytes(from, size, core)}
  BY DEF PrefixRead, size, sizes
<1>5. InRange(Bytes(from, size, core))
  BY <1>3 DEF InRange, RangeFits, Bytes
<1> QED BY <1>4, <1>5

(* Where the next class begins is not beyond the core.                     *)
LEMMA ClassEndFacts ==
  ASSUME NEW core \in Int, NEW scene, IsMobyScene(scene), NEW class, class.at \in Nat
  PROVE  ClassEnd(core, scene.table, class) \in Int /\ ClassEnd(core, scene.table, class) <= core
<1> DEFINE starts == {ClassOf(scene.table, c.oClass).at : c \in Range(scene.table.classes)}
           ends == {core} \union {at \in starts : at > class.at}
           least == IF core < 0 THEN core ELSE 0
<1>1. starts \subseteq Nat
  <2> SUFFICES ASSUME NEW c \in Range(scene.table.classes)
               PROVE  ClassOf(scene.table, c.oClass).at \in Nat
    OBVIOUS
  <2>1. IsSequence(scene.table.classes) /\ \A d \in Range(scene.table.classes) : IsMobyClass(d)
    BY MobySceneFacts
  <2>2. HasClass(scene.table, c.oClass)
    BY DEF HasClass, Range
  <2>3. ClassOf(scene.table, c.oClass) \in Range(scene.table.classes)
    BY <2>1, <2>2, ClassOfFacts
  <2> QED BY <2>1, <2>3, MobyClassFacts
<1>2. ends \in SUBSET Int /\ ends # {} /\ least \in Int /\ (\A k \in ends : least <= k) /\ core \in ends
  BY <1>1
<1>3. ClassEnd(core, scene.table, class) = Min(ends)
  BY DEF ClassEnd
<1> HIDE DEF ends, least
<1>4. Min(ends) \in ends /\ \A k \in ends : Min(ends) <= k
  BY <1>2, MinIsLeastInt
<1> QED BY <1>2, <1>3, <1>4

(* The next class or the core's end.                                       *)
LEMMA NextBoundaryTyped ==
  ASSUME NEW class, IsMobyClass(class), NEW end \in Int, NEW relative
  PROVE  NextBoundary(class, end, relative) \in Int
<1> DEFINE known == Range(class.sequences)
                      \union {class.skeleton, class.common, class.jointsAt, class.packetsAt}
           size == end - class.at
           others == {b \in known : b > 0 /\ b > relative /\ b <= size}
           bounds == {size} \union others
           least == IF size < 0 THEN size ELSE 0
<1>1. known \subseteq Int /\ class.at \in Nat
  BY MobyClassFacts
<1> HIDE DEF known
<1>2. bounds \in SUBSET Int /\ bounds # {} /\ least \in Int /\ (\A k \in bounds : least <= k)
  <2>1. size \in Int
    BY <1>1
  <2>2. others \subseteq Int /\ \A k \in others : k > 0
    BY <1>1
  <2> HIDE DEF size, others
  <2> QED BY <2>1, <2>2
<1>3. NextBoundary(class, end, relative) = Min(bounds)
  BY DEF NextBoundary, known
<1> HIDE DEF bounds, least
<1> QED BY <1>2, <1>3, MinIsLeastInt

(* What is captured of a class whose pointers all fit.                     *)
LEMMA ProbeReadsInRange ==
  ASSUME NEW core \in Int, NEW class, IsMobyClass(class), NEW end \in Int,
         class.skeleton >= 0 /\ class.common >= 0 /\ class.jointsAt >= 0,
         \A relative \in Range(class.sequences) : relative >= 0
  PROVE  \A r \in ProbeReads(core, class, end) : InRange(r)
<1> DEFINE rig == IF class.joints = 0 THEN {} ELSE {class.skeleton, class.common, class.jointsAt}
           places == (Range(class.sequences) \ {0}) \union rig
           reads(relative) ==
             PrefixRead(core, class.at + relative, class.at + NextBoundary(class, end, relative))
<1>1. ProbeReads(core, class, end) = UNION {reads(relative) : relative \in places}
  BY DEF ProbeReads
<1>2. places \subseteq Nat /\ class.at \in Nat
  BY MobyClassFacts
<1>3. ASSUME NEW relative \in places PROVE \A r \in reads(relative) : InRange(r)
  <2> DEFINE from == class.at + relative
             limit == class.at + NextBoundary(class, end, relative)
  <2>1. from \in Nat /\ limit \in Int
    <3>1. NextBoundary(class, end, relative) \in Int
      BY NextBoundaryTyped
    <3> QED BY <1>2, <3>1
  <2> HIDE DEF from, limit
  <2>2. \A r \in PrefixRead(core, from, limit) : InRange(r)
    BY <2>1, PrefixInRange
  <2> QED BY <2>2 DEF from, limit
<1> HIDE DEF places, reads
<1> QED BY <1>1, <1>3

----------------------------------------------------------------------------
(* The layout read at an offset is a layout.                               *)
LEMMA LayoutAtTyped ==
  ASSUME NEW layouts, \A offset \in DOMAIN layouts : IsLayout(layouts[offset]), NEW offset
  PROVE  IsLayout(LayoutAt(layouts, offset))
<1>1. IsLayout(NoLayout)
  BY EmptySeq DEF IsLayout, NoLayout
<1> QED BY <1>1 DEF LayoutAt

(* A sequence's header, table and frames.                                  *)
LEMMA LayoutStepsSound ==
  ASSUME NEW core \in Int, NEW layout, IsLayout(layout), NEW sequence \in Nat, NEW base \in Nat,
         NEW end \in Int
  PROVE  Sound(LayoutSteps(core, layout, sequence, base, end))
<1> DEFINE invalid == "InvalidSequenceLayout"
           count == Len(layout.frames)
           table == <<sequence + 28, 4 * count>>
           tableEnd == sequence + 28 + 4 * count
           header == RangeFits(<<sequence, 28>>, core)
           headerRead == Bytes(sequence, 28, core)
           counted == count # 0 /\ (layout.marker = NoMarker \/ layout.marker < count)
           listed == RangeFits(table, core) /\ tableEnd <= end
           tableRead == <<table, core>>
           placed == \A i \in 1 .. count :
                       /\ layout.frames[i] >= tableEnd - base /\ layout.frames[i] % 16 = 0
                       /\ base + layout.frames[i] < Min({end, core})
                       /\ i > 1 => layout.frames[i] > layout.frames[i - 1]
           probes == FrameProbes(layout, base)
           probed == \A probe \in probes : RangeFits(probe, Min({end, core}))
           reads == {<<probe, core>> : probe \in probes}
<1>1. LayoutSteps(core, layout, sequence, base, end) =
        <<Require(invalid, header, {headerRead}), Require(invalid, counted, {}),
          Require(invalid, listed, {tableRead}), Require(invalid, placed, {}),
          Require(invalid, probed, reads)>>
  BY DEF LayoutSteps
<1>2. count \in Nat /\ DOMAIN layout.frames = 1 .. count /\ \A i \in 1 .. count : layout.frames[i] \in Nat
  <2>1. layout.frames \in Seq(Nat)
    BY DEF IsLayout
  <2> QED BY <2>1, ElementsOfSeq
<1> HIDE DEF count
<1>3. header => InRange(headerRead)
  BY DEF InRange, RangeFits, Bytes
<1>4. listed => InRange(tableRead)
  BY <1>2 DEF InRange, RangeFits
<1>5. probed => \A r \in reads : InRange(r)
  <2> DEFINE ends == {end, core}
             least == Min(ends)
  <2>1. least \in Int /\ least <= core
    <3> DEFINE low == IF end <= core THEN end ELSE core
    <3>1. ends \in SUBSET Int /\ ends # {} /\ low \in Int /\ (\A k \in ends : low <= k) /\ core \in ends
      OBVIOUS
    <3> HIDE DEF ends, low
    <3>2. Min(ends) \in ends /\ \A k \in ends : Min(ends) <= k
      BY <3>1, MinIsLeastInt
    <3> QED BY <3>1, <3>2
  <2>2. \A probe \in probes : \E i \in 1 .. count : \E n \in Int : probe = <<base + layout.frames[i], n>>
    <3> SUFFICES ASSUME NEW probe \in probes
                 PROVE  \E i \in 1 .. count : \E n \in Int : probe = <<base + layout.frames[i], n>>
      OBVIOUS
    <3>1. PICK i \in 1 .. Len(layout.frames) - 1 :
            probe = <<base + layout.frames[i], layout.frames[i + 1] - layout.frames[i]>>
      BY DEF FrameProbes
    <3>2. i \in 1 .. count /\ i + 1 \in 1 .. count
      BY <1>2, <3>1 DEF count
    <3> DEFINE n == layout.frames[i + 1] - layout.frames[i]
    <3>3. n \in Int
      BY <1>2, <3>2
    <3> HIDE DEF n
    <3> QED BY <3>1, <3>2, <3>3 DEF n
  <2> HIDE DEF probes, least
  <2>3. ASSUME probed, NEW probe \in probes PROVE InRange(<<probe, core>>)
    <3>1. PICK i \in 1 .. count : \E n \in Int : probe = <<base + layout.frames[i], n>>
      BY <2>2
    <3>2. PICK n \in Int : probe = <<base + layout.frames[i], n>>
      BY <3>1
    <3>3. RangeFits(probe, least)
      BY <2>3 DEF least
    <3> QED BY <1>2, <2>1, <3>2, <3>3 DEF InRange, RangeFits
  <2> HIDE DEF probed
  <2> QED BY <2>3
<1> HIDE DEF header, headerRead, counted, listed, tableRead, placed, probed, reads
<1> QED BY <1>1, <1>3, <1>4, <1>5 DEF Require, Sound, IsSteps, FailuresNamed, Verdicts, Guarded

(* The sequences a class points at.                                        *)
LEMMA SequenceStepsSound ==
  ASSUME NEW core \in Int, NEW class, IsMobyClass(class), NEW end \in Int,
         \A relative \in Range(class.sequences) : relative >= 0
  PROVE  Sound(SequenceSteps(core, class, end))
<1> DEFINE n == Len(class.sequences)
           steps(relative) ==
             IF relative = 0 THEN <<>>
             ELSE LayoutSteps(core, LayoutAt(class.layouts, relative), class.at + relative, class.at, end)
           turns == [i \in DOMAIN class.sequences |-> steps(class.sequences[i])]
<1>1. n \in Nat /\ DOMAIN class.sequences = 1 .. n /\ class.at \in Nat
      /\ \A i \in 1 .. n : class.sequences[i] \in Nat
  <2>1. n \in Nat /\ DOMAIN class.sequences = 1 .. n /\ class.at \in Nat
      /\ \A i \in 1 .. n : class.sequences[i] \in Int
    BY MobyClassFacts
  <2>2. \A i \in 1 .. n : class.sequences[i] \in Range(class.sequences)
    BY <2>1 DEF Range
  <2> QED BY <2>1, <2>2
<1> HIDE DEF n
<1>2. ASSUME NEW relative \in Nat PROVE Sound(steps(relative))
  <2> DEFINE layout == LayoutAt(class.layouts, relative)
             at == class.at + relative
  <2>1. IsLayout(layout)
    BY LayoutAtTyped DEF IsMobyClass
  <2>2. at \in Nat
    BY <1>1
  <2> HIDE DEF layout, at
  <2>3. Sound(LayoutSteps(core, layout, at, class.at, end))
    BY <1>1, <2>1, <2>2, LayoutStepsSound
  <2>4. Sound(<<>>)
    BY NoStepsSound
  <2> QED BY <2>3, <2>4 DEF layout, at
<1>3. SequenceSteps(core, class, end) = ForEach(turns)
  BY DEF SequenceSteps
<1> HIDE DEF steps
<1>4. turns = [i \in 1 .. n |-> turns[i]] /\ \A i \in 1 .. n : Sound(turns[i])
  BY <1>1, <1>2
<1> HIDE DEF turns
<1> QED BY <1>1, <1>3, <1>4, ForEachSound

(* The animation header of a class.                                        *)
LEMMA ClassHeaderStepsSound ==
  ASSUME NEW core \in Int, NEW class, IsMobyClass(class), NEW end \in Int
  PROVE  /\ Sound(ClassHeaderSteps(core, class, end))
         /\ AllHold(ClassHeaderSteps(core, class, end)) =>
              /\ class.skeleton >= 0 /\ class.common >= 0 /\ class.jointsAt >= 0
              /\ \A relative \in Range(class.sequences) : relative >= 0
<1> DEFINE table == <<class.at + 72, 4 * Len(class.sequences)>>
           header == end > class.at /\ RangeFits(<<class.at, 72>>, core)
           headerRead == Bytes(class.at, 72, core)
           rig == \A relative \in {class.skeleton, class.common, class.jointsAt} :
                    PointerFits(core, class, relative)
           listed == RangeFits(table, core)
           tableRead == <<table, core>>
           pointed == \A relative \in Range(class.sequences) : PointerFits(core, class, relative)
           reads == ProbeReads(core, class, end)
           a == "InvalidClassHeader"
           b == "InvalidSequenceTable"
<1>1. ClassHeaderSteps(core, class, end) =
        <<Require(a, header, {headerRead}), Require(a, rig, {}),
          Require(b, listed, {tableRead}), Require(b, pointed, reads)>>
  BY DEF ClassHeaderSteps
<1>2. class.at \in Nat /\ Len(class.sequences) \in Nat
  BY MobyClassFacts
<1>3. header => InRange(headerRead)
  BY <1>2 DEF InRange, RangeFits, Bytes
<1>4. listed => InRange(tableRead)
  BY <1>2 DEF InRange, RangeFits
<1>5. rig => class.skeleton >= 0 /\ class.common >= 0 /\ class.jointsAt >= 0
  BY DEF PointerFits
<1>6. pointed => \A relative \in Range(class.sequences) : relative >= 0
  BY DEF PointerFits
<1>7. rig /\ pointed => \A r \in reads : InRange(r)
  BY <1>5, <1>6, ProbeReadsInRange
<1> HIDE DEF header, headerRead, rig, listed, tableRead, pointed, reads
<1>8. Sound(ClassHeaderSteps(core, class, end))
  BY <1>1, <1>3, <1>4, <1>7 DEF Require, Sound, IsSteps, FailuresNamed, Verdicts, Guarded
<1>9. AllHold(ClassHeaderSteps(core, class, end)) => rig /\ pointed
  BY <1>1 DEF AllHold, Require
<1> QED BY <1>5, <1>6, <1>8, <1>9

(* A class's joints and their table.                                       *)
LEMMA RigStepsSound ==
  ASSUME NEW core \in Int, NEW class, IsMobyClass(class), NEW end \in Int, end <= core,
         class.skeleton >= 0 /\ class.common >= 0
  PROVE  Sound(RigSteps(core, class, end))
<1> DEFINE matrices == <<class.at + class.skeleton, 64 * class.joints>>
           transforms == <<class.at + class.common, 16 * class.joints>>
           laid == class.joints # 0 =>
                     /\ class.common = class.skeleton + matrices[2]
                     /\ class.jointsAt = class.common + transforms[2]
                     /\ RangeFits(matrices, end) /\ RangeFits(transforms, end)
           reads == IF class.joints = 0 THEN {} ELSE {<<matrices, core>>, <<transforms, core>>}
<1>1. RigSteps(core, class, end) = <<Require("InvalidRigLayout", laid, reads)>>
  BY DEF RigSteps
<1>2. class.at \in Nat /\ class.joints \in Nat /\ class.skeleton \in Int /\ class.common \in Int
  BY MobyClassFacts
<1>3. class.joints # 0 /\ laid => RangeFits(matrices, end) /\ RangeFits(transforms, end)
  OBVIOUS
<1>4. RangeFits(matrices, end) => InRange(<<matrices, core>>)
  BY <1>2 DEF InRange, RangeFits
<1>5. RangeFits(transforms, end) => InRange(<<transforms, core>>)
  BY <1>2 DEF InRange, RangeFits
<1> HIDE DEF matrices, transforms, laid
<1>6. laid => \A r \in reads : InRange(r)
  BY <1>3, <1>4, <1>5
<1> HIDE DEF reads
<1> QED BY <1>1, <1>6, StepSound DEF Verdicts

(* The table of a class's packets, for its skinning program.               *)
LEMMA ProgramTableStepsSound ==
  ASSUME NEW core \in Int, NEW class, IsMobyClass(class)
  PROVE  Sound(ProgramTableSteps(core, class))
<1> DEFINE packets == <<class.at + class.packetsAt, 16 * Len(class.packets)>>
           placed == IF class.packetsAt = 0 THEN ~HasMesh(class) /\ class.low = 0
                     ELSE class.packetsAt > 0 /\ RangeFits(packets, core)
           reads == IF class.packetsAt = 0 THEN {} ELSE {<<packets, core>>}
<1>1. ProgramTableSteps(core, class) = <<Require("InvalidPacketTable", placed, reads)>>
  BY DEF ProgramTableSteps
<1>2. class.at \in Nat /\ class.packetsAt \in Int /\ Len(class.packets) \in Nat
  BY MobyClassFacts
<1>3. class.packetsAt # 0 /\ placed => class.packetsAt > 0 /\ RangeFits(packets, core)
  OBVIOUS
<1>4. class.packetsAt > 0 /\ RangeFits(packets, core) => InRange(<<packets, core>>)
  BY <1>2 DEF InRange, RangeFits
<1> HIDE DEF packets, placed
<1>5. placed => \A r \in reads : InRange(r)
  BY <1>3, <1>4
<1> HIDE DEF reads
<1> QED BY <1>1, <1>5, StepSound DEF Verdicts

\* A packet whose skinning program was accepted: its counts are natural and
\* its matrices are in VU0 memory.
IsProgram(p) ==
  /\ p.counts.matrix \in Nat /\ VertexCount(p) \in Nat
  /\ \A t \in Range(Transfers(p)) : IsMatrixAddress(t[2])
  /\ \A i \in 0 .. VertexCount(p) - 1 : \A a \in MatrixAddresses(p, i) : IsMatrixAddress(a)

(* The matrix transfers and vertices of one packet's program.              *)
LEMMA ProgramStepsSound ==
  ASSUME NEW core \in Int, NEW class, class.at \in Nat, NEW p, IsMobyPacket(p)
  PROVE  /\ Sound(ProgramSteps(core, class, p))
         /\ AllHold(ProgramSteps(core, class, p)) => IsProgram(p)
<1> DEFINE invalid == "InvalidSkinningProgram"
           table == class.at + p.vertexAt
           matrices == 2 * p.counts.matrix
           transfers == <<table + 32, matrices>>
           rows == 16 * VertexCount(p)
           vertices == <<table + p.counts.vertices, rows>>
           counted == {p.counts.matrix, p.counts.two, p.counts.three, p.counts.main,
                       p.counts.duplicate, p.counts.transfer}
           header == p.vertexAt >= 0 /\ RangeFits(<<table, 32>>, core)
           headerRead == Bytes(table, 32, core)
           natural == counted \subseteq 0 .. kMaxStaticCount /\ p.counts.transfer = p.transfers
           transfersFit == RangeFits(transfers, core)
           transfersRead == <<transfers, core>>
           addressed == \A t \in Range(Transfers(p)) : IsMatrixAddress(t[2])
           placed == /\ p.counts.vertices >= 0 /\ p.counts.vertices % 16 = 0
                     /\ p.counts.end >= 0 /\ p.counts.end % 16 = 0
                     /\ p.counts.vertices \div 16 <= p.dataSize
           verticesFit == p.counts.vertices + rows <= p.counts.end /\ RangeFits(vertices, core)
           verticesRead == <<vertices, core>>
           loaded == \A i \in 0 .. VertexCount(p) - 1 : \A a \in MatrixAddresses(p, i) : IsMatrixAddress(a)
           b == "InvalidVertexTable"
           c == "InvalidMatrixTransfer"
           steps == <<Require(b, header, {headerRead}), Require(b, natural, {}),
                      Require(c, transfersFit, {transfersRead}), Require(c, addressed, {}),
                      Require(invalid, placed, {}), Require(invalid, verticesFit, {verticesRead}),
                      Require(invalid, loaded, {})>>
<1>1. ProgramSteps(core, class, p) = steps
  BY DEF ProgramSteps
<1>2. /\ p.vertexAt \in Int /\ p.counts.matrix \in Int /\ p.counts.two \in Int /\ p.counts.three \in Int
      /\ p.counts.main \in Int /\ p.counts.vertices \in Int /\ VertexCount(p) \in Int
  BY MobyPacketFacts
<1>3. natural => p.counts.matrix \in Nat /\ VertexCount(p) \in Nat
  <2> DEFINE big == kMaxStaticCount
  <2>1. natural => /\ p.counts.matrix \in 0 .. big /\ p.counts.two \in 0 .. big
                   /\ p.counts.three \in 0 .. big /\ p.counts.main \in 0 .. big
    OBVIOUS
  <2> HIDE DEF big, natural
  <2> QED BY <1>2, <2>1 DEF VertexCount
<1>4. header => InRange(headerRead)
  BY <1>2 DEF InRange, RangeFits, Bytes
<1>5. header /\ transfersFit => InRange(transfersRead)
  BY <1>2 DEF InRange, RangeFits
<1>6. header /\ placed /\ verticesFit => InRange(verticesRead)
  BY <1>2 DEF InRange, RangeFits
<1> HIDE DEF table, matrices, transfers, rows, vertices, counted, header, headerRead, natural,
             transfersFit, transfersRead, addressed, placed, verticesFit, verticesRead, loaded
<1>7. Sound(steps)
  BY <1>4, <1>5, <1>6 DEF Require, Sound, IsSteps, FailuresNamed, Verdicts, Guarded
<1>8. AllHold(steps) => natural /\ addressed /\ loaded
  BY DEF AllHold, Require
<1> HIDE DEF steps
<1>9. addressed = (\A t \in Range(Transfers(p)) : IsMatrixAddress(t[2]))
  BY DEF addressed
<1>10. loaded = (\A i \in 0 .. VertexCount(p) - 1 : \A a \in MatrixAddresses(p, i) : IsMatrixAddress(a))
  BY DEF loaded
<1> QED BY <1>1, <1>3, <1>7, <1>8, <1>9, <1>10 DEF IsProgram

\* A class whose animation was inspected.
IsSkinned(class) ==
  /\ class.joints \in Nat /\ Len(class.packets) \in Nat /\ DOMAIN class.packets = 1 .. Len(class.packets)
  /\ \A i \in 1 .. Len(class.packets) : IsMobyPacket(class.packets[i]) /\ IsProgram(class.packets[i])
  /\ class.sequences \in Seq(Int)

(* A class that is accepted can be skinned.                                *)
LEMMA InspectClassStepsSound ==
  ASSUME NEW core \in Int, NEW class, IsMobyClass(class), NEW end \in Int, end <= core
  PROVE  /\ Sound(InspectClassSteps(core, class, end))
         /\ AllHold(InspectClassSteps(core, class, end)) => IsSkinned(AnimationClass(class))
<1>1. CASE class.at = 0
  <2> DEFINE empty == AnimationClass(class)
  <2>1. Sound(InspectClassSteps(core, class, end))
    BY <1>1, NoStepsSound DEF InspectClassSteps
  <2>2. /\ {"joints", "sequences", "packets"} \subseteq DOMAIN class
        /\ empty = [class EXCEPT !.joints = 0, !.sequences = <<>>, !.packets = <<>>]
    BY <1>1 DEF AnimationClass, IsMobyClass
  <2> HIDE DEF empty
  <2>3. empty.joints = 0 /\ empty.sequences = <<>> /\ empty.packets = <<>>
    BY <2>2
  <2>4. <<>> \in Seq(Int)
    BY EmptySeq
  <2>5. IsSkinned(empty)
    BY <2>3, <2>4 DEF IsSkinned
  <2> QED BY <2>1, <2>5 DEF empty
<1>2. CASE class.at # 0
  <2> DEFINE n == Len(class.packets)
             header == ClassHeaderSteps(core, class, end)
             sequences == SequenceSteps(core, class, end)
             rig == RigSteps(core, class, end)
             table == ProgramTableSteps(core, class)
             program(i) == ProgramSteps(core, class, class.packets[i])
             turns == [i \in DOMAIN class.packets |-> program(i)]
             programs == ForEach(turns)
  <2>1. InspectClassSteps(core, class, end) = Then(header, Then(sequences, Then(rig, Then(table, programs))))
    BY <1>2 DEF InspectClassSteps
  <2>2. /\ n \in Nat /\ DOMAIN class.packets = 1 .. n /\ class.at \in Nat /\ class.joints \in Nat
        /\ \A i \in 1 .. n : IsMobyPacket(class.packets[i])
    BY MobyClassFacts
  <2>3. \A i \in 1 .. n : Sound(program(i)) /\ (AllHold(program(i)) => IsProgram(class.packets[i]))
    <3> HIDE DEF n
    <3> QED BY <2>2, ProgramStepsSound
  <2>4. turns = [i \in 1 .. n |-> turns[i]] /\ \A i \in 1 .. n : turns[i] = program(i)
    <3> HIDE DEF program, n
    <3> QED BY <2>2
  <2> HIDE DEF turns, program
  <2>5. Sound(programs) /\ (AllHold(programs) => \A i \in 1 .. n : IsProgram(class.packets[i]))
    <3>1. Sound(programs) /\ (AllHold(programs) => \A i \in 1 .. n : AllHold(turns[i]))
      BY <2>2, <2>3, <2>4, ForEachSound
    <3> HIDE DEF programs
    <3> QED BY <2>3, <2>4, <3>1
  <2> DEFINE signed == /\ class.skeleton >= 0 /\ class.common >= 0 /\ class.jointsAt >= 0
                       /\ \A relative \in Range(class.sequences) : relative >= 0
  <2>6. Sound(header) /\ (AllHold(header) => signed)
    BY ClassHeaderStepsSound
  <2>7. signed => Sound(sequences) /\ Sound(rig)
    BY SequenceStepsSound, RigStepsSound
  <2>8. Sound(table)
    BY ProgramTableStepsSound
  <2> HIDE DEF n, header, sequences, rig, table, programs, signed
  <2> DEFINE a == Then(table, programs)
  <2>9. Sound(a) /\ (AllHold(a) => AllHold(programs))
    BY <2>5, <2>8, ThenSound
  <2> HIDE DEF a
  <2> DEFINE b == Then(rig, a)
  <2>10. signed => Sound(b) /\ (AllHold(b) => AllHold(a))
    BY <2>7, <2>9, ThenSound
  <2> HIDE DEF b
  <2> DEFINE c == Then(sequences, b)
  <2>11. signed => Sound(c) /\ (AllHold(c) => AllHold(b))
    BY <2>7, <2>10, ThenSound
  <2> HIDE DEF c
  <2> DEFINE d == Then(header, c)
  <2>12. Sound(d) /\ (AllHold(d) => AllHold(header) /\ AllHold(c))
    BY <2>6, <2>11, ThenSound
  <2> HIDE DEF d
  <2>13. AllHold(d) => \A i \in 1 .. n : IsProgram(class.packets[i])
    BY <2>5, <2>6, <2>9, <2>10, <2>11, <2>12
  <2>14. AnimationClass(class) = class
    BY <1>2 DEF AnimationClass
  <2>15. class.sequences \in Seq(Int)
    BY DEF IsMobyClass
  <2>16. AllHold(d) => IsSkinned(class)
    <3> HIDE DEF d
    <3>1. SUFFICES ASSUME AllHold(d) PROVE IsSkinned(class)
      OBVIOUS
    <3>2. \A i \in 1 .. n : IsMobyPacket(class.packets[i]) /\ IsProgram(class.packets[i])
      BY <2>2, <2>13, <3>1
    <3> QED BY <2>2, <2>15, <3>2 DEF IsSkinned, n
  <2> QED BY <2>1, <2>12, <2>14, <2>16 DEF a, b, c, d
<1> QED BY <1>1, <1>2

(* The classes instances name are finitely many numbers.                   *)
LEMMA NamedClassesFacts ==
  ASSUME NEW scene, IsMobyScene(scene)
  PROVE  LET named == {i.oClass : i \in Range(Instances(scene.block))} IN
         named \in SUBSET Int /\ IsFiniteSet(named)
<1> DEFINE instances == Instances(scene.block)
           named == {i.oClass : i \in Range(instances)}
           n == Len(instances)
           oClasses == [i \in 1 .. n |-> instances[i].oClass]
           values == {oClasses[i] : i \in 1 .. n}
<1>1. n \in Nat /\ DOMAIN instances = 1 .. n
  BY MobySceneFacts, InstancesFacts
<1>2. \A i \in Range(instances) : i.oClass \in Int
  BY DEF IsMobyScene, Instances, Range
<1> HIDE DEF instances, n
<1>3. named = values
  <2>1. \A i \in 1 .. n : oClasses[i] = instances[i].oClass
    OBVIOUS
  <2> HIDE DEF oClasses
  <2>2. Range(instances) = {instances[i] : i \in 1 .. n}
    BY <1>1 DEF Range
  <2> QED BY <2>1, <2>2
<1>4. oClasses = [i \in 1 .. n |-> oClasses[i]]
  OBVIOUS
<1> HIDE DEF oClasses
<1>5. IsFiniteSet(values)
  BY <1>1, <1>4, ListIsFinite
<1>6. named \in SUBSET Int
  BY <1>2
<1> HIDE DEF named, values
<1> QED BY <1>3, <1>5, <1>6 DEF named, instances

(* inspectRac1MobyAnimationMetadata, before it looks at a class.           *)
LEMMA AnimationBlockStepsSound ==
  ASSUME NEW coreIndex \in Int, NEW gameplay \in Int, NEW scene, IsMobyScene(scene)
  PROVE  Sound(AnimationBlockSteps(coreIndex, gameplay, scene))
<1> DEFINE block == scene.block
           size == 32 * Len(scene.table.classes)
           tableFits == ClassTableFits(scene.table, 32, coreIndex)
           table == Bytes(scene.table.at, size, coreIndex)
           long == gameplay >= 144
           word == Bytes(68, 4, gameplay)
           signed == block.at >= 0
           header == block.at = 0 \/ RangeFits(<<block.at, 16>>, gameplay)
           counted == block.at = 0 \/ (/\ block.count \in 0 .. kMaxStaticCount
                                       /\ RangeFits(<<block.at + 16, 120 * block.count>>, gameplay))
           reads == InstanceReads(block, 120, gameplay)
           some == Instances(block) # <<>>
           invalid == "InvalidInstanceBlock"
<1>1. AnimationBlockSteps(coreIndex, gameplay, scene) =
        <<Require("InvalidIndexTable", tableFits, {table}), Require("InvalidGameplayHeader", long, {word}),
          Require("InvalidGameplayHeader", signed, {}),
          Require(invalid, header, {}), Require(invalid, counted, reads), Require("EmptyScene", some, {})>>
  BY DEF AnimationBlockSteps
<1>2. scene.table.at \in Nat /\ IsBlock(block)
  BY MobySceneFacts
<1>3. tableFits => InRange(table)
  BY <1>2 DEF ClassTableFits, InRange, Bytes
<1>4. long => InRange(word)
  BY DEF InRange, RangeFits, Bytes
<1>5. signed /\ header /\ counted => \A r \in reads : InRange(r)
  <2>1. header /\ counted /\ block.at # 0 =>
          RangeFits(<<block.at, 16>>, gameplay) /\ RangeFits(<<block.at + 16, 120 * block.count>>, gameplay)
    <3> DEFINE a == RangeFits(<<block.at, 16>>, gameplay)
               b == RangeFits(<<block.at + 16, 120 * block.count>>, gameplay)
    <3> HIDE DEF a, b
    <3>1. header /\ counted /\ block.at # 0 => a /\ b
      BY DEF a, b
    <3> QED BY <3>1 DEF a, b
  <2> HIDE DEF header, counted
  <2>2. 120 \in Nat
    OBVIOUS
  <2> HIDE DEF block
  <2> QED BY <1>2, <2>1, <2>2, InstanceReadsFit
<1> HIDE DEF tableFits, table, long, word, signed, header, counted, reads, some
<1> QED BY <1>1, <1>3, <1>4, <1>5 DEF Require, Sound, IsSteps, FailuresNamed, Verdicts, Guarded

(* inspectRac1MobyAnimationMetadata: every class an instance names is in   *)
(* the table, and its skinning program is checked.                         *)
LEMMA AnimationStepsSound ==
  ASSUME NEW core \in Int, NEW coreIndex \in Int, NEW gameplay \in Int, NEW scene, IsMobyScene(scene)
  PROVE  /\ Sound(AnimationSteps(core, coreIndex, gameplay, scene))
         /\ AllHold(AnimationSteps(core, coreIndex, gameplay, scene)) =>
              \A i \in Range(Instances(scene.block)) :
                IsSkinned(AnimationClass(ClassOf(scene.table, i.oClass)))
<1> DEFINE names == {i.oClass : i \in Range(Instances(scene.block))}
           n == Cardinality(names)
           named == Ascending(names)
           first == AnimationBlockSteps(coreIndex, gameplay, scene)
           class(oClass) == ClassOf(scene.table, oClass)
           inspect(oClass) ==
             InspectClassSteps(core, class(oClass), ClassEnd(core, scene.table, class(oClass)))
           classSteps(oClass) ==
             Then(<<Require("MissingReferencedClass", HasClass(scene.table, oClass), {})>>, inspect(oClass))
           turns == [i \in DOMAIN named |-> classSteps(named[i])]
           loop == ForEach(turns)
<1>1. AnimationSteps(core, coreIndex, gameplay, scene) = Then(first, loop)
  BY DEF AnimationSteps
<1>2. ASSUME NEW oClass
      PROVE  /\ Sound(classSteps(oClass))
             /\ AllHold(classSteps(oClass)) => IsSkinned(AnimationClass(class(oClass)))
  <2> DEFINE found == HasClass(scene.table, oClass)
             head == <<Require("MissingReferencedClass", found, {})>>
             c == class(oClass)
             end == ClassEnd(core, scene.table, c)
             body == InspectClassSteps(core, c, end)
  <2>1. Sound(head) /\ (AllHold(head) <=> found)
    <3> HIDE DEF found
    <3> QED BY StepSound DEF Verdicts
  <2>2. found => Sound(body) /\ (AllHold(body) => IsSkinned(AnimationClass(c)))
    <3> SUFFICES ASSUME found PROVE Sound(body) /\ (AllHold(body) => IsSkinned(AnimationClass(c)))
      OBVIOUS
    <3>1. IsMobyClass(c)
      BY MobySceneFacts, ClassOfFacts
    <3> HIDE DEF c
    <3>2. c.at \in Nat
      BY <3>1, MobyClassFacts
    <3>3. end \in Int /\ end <= core
      BY <3>2, ClassEndFacts
    <3> HIDE DEF end
    <3> QED BY <3>1, <3>3, InspectClassStepsSound
  <2>3. classSteps(oClass) = Then(head, body)
    OBVIOUS
  <2> HIDE DEF head, body, found, c, classSteps
  <2>4. Sound(Then(head, body)) /\ (AllHold(Then(head, body)) => AllHold(head) /\ AllHold(body))
    BY <2>1, <2>2, ThenSound
  <2> QED BY <2>1, <2>2, <2>3, <2>4 DEF c
<1>3. names \in SUBSET Int /\ IsFiniteSet(names)
  BY NamedClassesFacts
<1> DEFINE good(oClass) == IsSkinned(AnimationClass(class(oClass)))
<1>4. \A i \in Range(Instances(scene.block)) : i.oClass \in names
  OBVIOUS
<1> HIDE DEF names
<1>5. n \in Nat /\ named = [i \in 1 .. n |-> named[i]] /\ \A c \in names : \E i \in 1 .. n : named[i] = c
  BY <1>3, AscendingFacts
<1> HIDE DEF n, named, classSteps, class, good
<1>6. turns = [i \in 1 .. n |-> turns[i]] /\ \A i \in 1 .. n : turns[i] = classSteps(named[i])
  BY <1>5
<1>7. \A i \in 1 .. n : Sound(turns[i]) /\ (AllHold(turns[i]) => good(named[i]))
  BY <1>2, <1>6 DEF good
<1> HIDE DEF turns
<1>8. Sound(loop) /\ (AllHold(loop) => \A i \in 1 .. n : AllHold(turns[i]))
  BY <1>5, <1>6, <1>7, ForEachSound
<1> HIDE DEF loop
<1>9. Sound(first)
  BY AnimationBlockStepsSound
<1> HIDE DEF first
<1>10. Sound(Then(first, loop)) /\ (AllHold(Then(first, loop)) => AllHold(loop))
  BY <1>8, <1>9, ThenSound
<1>11. AllHold(loop) => \A c \in names : good(c)
  BY <1>5, <1>7, <1>8
<1>12. AllHold(loop) => \A i \in Range(Instances(scene.block)) : good(i.oClass)
  BY <1>4, <1>11
<1> QED BY <1>1, <1>10, <1>12 DEF good, class

----------------------------------------------------------------------------
(* inspectRac1MobyClassCatalog.                                            *)
LEMMA CatalogStepsSound ==
  ASSUME NEW coreIndex \in Int, NEW table, table.at \in Nat
  PROVE  Sound(CatalogSteps(coreIndex, table))
<1> DEFINE size == 32 * Len(table.classes)
           fits == ClassTableFits(table, 32, coreIndex)
           read == Bytes(table.at, size, coreIndex)
           once == IsInjective([i \in DOMAIN table.classes |-> table.classes[i].oClass])
<1>1. CatalogSteps(coreIndex, table) =
        <<Require("InvalidIndexTable", fits, {read}), Require("DuplicateOClass", once, {})>>
  BY DEF CatalogSteps
<1>2. fits => InRange(read)
  BY DEF ClassTableFits, InRange, Bytes
<1> HIDE DEF fits, read, once
<1> QED BY <1>1, <1>2 DEF Require, Sound, IsSteps, FailuresNamed, Verdicts, Guarded

(* inspectRac1RatchetAnimationBank.                                        *)
LEMMA BankTableStepsSound ==
  ASSUME NEW class, IsSkinned(class), NEW bank, bank.at \in Nat, NEW coreIndex \in Int
  PROVE  Sound(BankTableSteps(class, bank, coreIndex))
<1> DEFINE table == <<bank.at, 4 * Len(class.sequences)>>
           skeleton == class.joints # 0
           some == class.sequences # <<>>
           own == \A relative \in Range(class.sequences) : relative = 0
           fits == bank.at # 0 /\ RangeFits(table, coreIndex)
           read == <<table, coreIndex>>
<1>1. BankTableSteps(class, bank, coreIndex) =
        <<Require("MissingSkeleton", skeleton, {}), Require("InvalidSequenceTable", some, {}),
          Require("LocalSequenceTableNotEmpty", own, {}), Require("InvalidSequenceTable", fits, {read})>>
  BY DEF BankTableSteps
<1>2. fits => InRange(read)
  BY DEF InRange
<1> HIDE DEF skeleton, some, own, fits, read
<1> QED BY <1>1, <1>2 DEF Require, Sound, IsSteps, FailuresNamed, Verdicts, Guarded

(* One pointer of the bank, from another class's.                          *)
LEMMA BankPointerStepsSound ==
  ASSUME NEW core, NEW pointers, NEW i
  PROVE  Sound(BankPointerSteps(core, pointers, i))
<1> DEFINE some == pointers[i] # 0
           aligned == pointers[i] % 16 = 0
           fits == RangeFits(<<pointers[i], 28>>, core)
           above == i = 1 \/ pointers[i] > pointers[i - 1]
<1>1. BankPointerSteps(core, pointers, i) =
        <<Require("SequencePointerZero", some, {}), Require("SequencePointerMisaligned", aligned, {}),
          Require("SequencePointerOutOfRange", fits, {}), Require("SequencePointersNotIncreasing", above, {})>>
  BY DEF BankPointerSteps
<1> HIDE DEF some, aligned, fits, above
<1> QED BY <1>1 DEF Require, Sound, IsSteps, FailuresNamed, Verdicts, Guarded

(* One sequence of the bank, in the level's core.                          *)
LEMMA BankSequenceStepsSound ==
  ASSUME NEW core \in Int, NEW bank, \A offset \in DOMAIN bank.layouts : IsLayout(bank.layouts[offset]),
         NEW pointers \in Seq(Nat), NEW i \in DOMAIN pointers
  PROVE  Sound(BankSequenceSteps(core, bank, pointers, i))
<1> DEFINE from == pointers[i]
           end == IF i < Len(pointers) THEN pointers[i + 1] ELSE core
           layout == LayoutAt(bank.layouts, from)
           captured == <<Reading(PrefixRead(core, from, end))>>
           steps == LayoutSteps(core, layout, from, from, end)
<1>1. BankSequenceSteps(core, bank, pointers, i) = captured \o steps
  BY DEF BankSequenceSteps
<1>2. from \in Nat /\ end \in Int
  BY ElementsOfSeq
<1> HIDE DEF from, end
<1>3. IsLayout(layout)
  BY LayoutAtTyped
<1> HIDE DEF layout
<1>4. Sound(captured)
  BY <1>2, PrefixInRange, StepSound DEF Reading
<1>5. Sound(steps)
  BY <1>2, <1>3, LayoutStepsSound
<1> HIDE DEF captured, steps
<1> QED BY <1>1, <1>4, <1>5, ConcatSoundAllHold DEF Sound

(* The whole of it: the table, then what it points at.                     *)
LEMMA BankStepsSound ==
  ASSUME NEW core \in Int, NEW coreIndex \in Int, NEW class, IsSkinned(class), NEW bank, bank.at \in Nat,
         bank.pointers \in Seq(Nat), \A offset \in DOMAIN bank.layouts : IsLayout(bank.layouts[offset])
  PROVE  Sound(BankSteps(core, coreIndex, class, bank))
<1> DEFINE pointers == BankPointers(class, bank)
           n == Len(class.sequences)
           table == BankTableSteps(class, bank, coreIndex)
           pointerTurns == [i \in DOMAIN pointers |-> BankPointerSteps(core, pointers, i)]
           sequenceTurns == [i \in DOMAIN pointers |-> BankSequenceSteps(core, bank, pointers, i)]
           a == ForEach(pointerTurns)
           b == ForEach(sequenceTurns)
<1>1. BankSteps(core, coreIndex, class, bank) = Then(table, Then(a, b))
  BY DEF BankSteps
<1>2. n \in Nat /\ DOMAIN class.sequences = 1 .. n
  BY ElementsOfSeq DEF IsSkinned
<1> HIDE DEF n
<1>3. pointers \in Seq(Nat) /\ DOMAIN pointers = 1 .. n
  <2> DEFINE item(i) == ItemAt(bank.pointers, i - 1, 0)
  <2>1. pointers = [i \in 1 .. n |-> item(i)]
    BY <1>2 DEF BankPointers
  <2>2. ASSUME NEW i \in 1 .. n PROVE item(i) \in Nat
    <3> DEFINE k == i - 1 + 1
               m == Len(bank.pointers)
    <3>1. item(i) = IF i - 1 < m THEN bank.pointers[k] ELSE 0
      BY DEF ItemAt
    <3>2. m \in Nat /\ \A j \in 1 .. m : bank.pointers[j] \in Nat
      BY ElementsOfSeq
    <3>3. i - 1 < m => k \in 1 .. m
      BY <1>2, <3>2
    <3> HIDE DEF k, m, item
    <3> QED BY <3>1, <3>2, <3>3
  <2> HIDE DEF item, pointers
  <2>3. pointers = [i \in 1 .. n |-> pointers[i]] /\ \A i \in 1 .. n : pointers[i] \in Nat
    BY <2>1, <2>2
  <2> QED BY <1>2, <2>3, FunctionIsSeq
<1>4. Sound(table)
  BY BankTableStepsSound
<1> HIDE DEF pointers, table
<1>5. Sound(a)
  <2>1. pointerTurns = [i \in 1 .. n |-> pointerTurns[i]] /\ \A i \in 1 .. n : Sound(pointerTurns[i])
    BY <1>3, BankPointerStepsSound
  <2> HIDE DEF pointerTurns
  <2> QED BY <1>2, <2>1, ForEachSound
<1>6. Sound(b)
  <2>1. sequenceTurns = [i \in 1 .. n |-> sequenceTurns[i]] /\ \A i \in 1 .. n : Sound(sequenceTurns[i])
    BY <1>3, BankSequenceStepsSound
  <2> HIDE DEF sequenceTurns
  <2> QED BY <1>2, <2>1, ForEachSound
<1> HIDE DEF a, b
<1> DEFINE c == Then(a, b)
<1>7. Sound(c)
  BY <1>5, <1>6, ThenSound
<1> HIDE DEF c
<1>8. Sound(Then(table, c))
  BY <1>4, <1>7, ThenSound
<1> QED BY <1>1, <1>8 DEF c

----------------------------------------------------------------------------
(* Poses and the skinning program.                                         *)

(* What a pose packet's fields are.                                        *)
LEMMA FrameFacts ==
  ASSUME NEW f, IsFrame(f)
  PROVE  /\ f.bytes \in Nat /\ f.payload \in Nat
         /\ f.stream1.at \in Nat /\ f.stream1.count \in Nat
         /\ f.stream2.at \in Nat /\ f.stream2.count \in Nat
         /\ StreamJoints(f) \subseteq Nat
<1>1. /\ f.bytes \in Nat /\ f.payload \in Nat
      /\ f.stream1.at \in Nat /\ f.stream1.count \in Nat
      /\ f.stream2.at \in Nat /\ f.stream2.count \in Nat
  BY DEF IsFrame
<1> DEFINE m == Len(f.compressed)
           n == Len(f.moved)
<1>2. /\ m \in Nat /\ \A i \in 1 .. m : f.compressed[i] \in BOOLEAN \X Nat
      /\ n \in Nat /\ \A i \in 1 .. n : f.moved[i] \in Nat
  BY ElementsOfSeq DEF IsFrame
<1>3. ASSUME NEW i \in ActiveEntries(f) PROVE f.compressed[i][2] \in Nat
  <2> DEFINE k == i - 1 + 1
             item == IF i - 1 < m THEN f.compressed[k] ELSE <<FALSE, 0>>
  <2>1. i \in 1 .. f.stream1.count /\ item[1]
    BY DEF ActiveEntries, ItemAt
  <2>2. ~(i - 1 < m) => ~item[1]
    OBVIOUS
  <2> HIDE DEF item, m
  <2>3. i \in 1 .. m
    BY <1>1, <1>2, <2>1, <2>2
  <2>4. f.compressed[i] \in BOOLEAN \X Nat
    BY <1>2, <2>3
  <2> QED BY <2>4
<1>4. ASSUME NEW i \in 1 .. f.stream2.count PROVE ItemAt(f.moved, i - 1, 0) \in Nat
  <2> DEFINE k == i - 1 + 1
  <2>1. ItemAt(f.moved, i - 1, 0) = IF i - 1 < n THEN f.moved[k] ELSE 0
    BY DEF ItemAt
  <2>2. i - 1 < n => k \in 1 .. n
    BY <1>1, <1>2
  <2> HIDE DEF k, n
  <2> QED BY <1>2, <2>1, <2>2
<1> HIDE DEF m, n
<1>5. StreamJoints(f) \subseteq Nat
  BY <1>3, <1>4 DEF StreamJoints
<1> QED BY <1>1, <1>5

(* The entries of a frame's rotations and of its two streams.              *)
LEMMA EntryReadsInRange ==
  ASSUME NEW f, IsFrame(f), NEW joints \in Nat,
         16 + 16 * f.payload <= f.bytes,
         16 * f.payload - (8 * joints + 8 * f.stream1.count) - 8 * f.stream2.count >= 0
  PROVE  \A r \in EntryReads(f, joints) : InRange(r)
<1> DEFINE bytes == f.bytes
           ones == f.stream1.count
           twos == f.stream2.count
           second == 16 + 8 * joints + 8 * ones
           dense == {Bytes(16 + 8 * j, 8, bytes) : j \in 0 .. joints - 1}
           first == {Bytes(16 + 8 * joints + 8 * i, 7, bytes) : i \in 0 .. ones - 1}
           others == {Bytes(second + 8 * i, 7, bytes) : i \in 0 .. twos - 1}
<1>1. EntryReads(f, joints) = dense \union first \union others
  BY DEF EntryReads
<1>2. bytes \in Nat /\ ones \in Nat /\ twos \in Nat /\ f.payload \in Nat
  BY FrameFacts
<1>3. 16 + 8 * joints + 8 * ones + 8 * twos <= bytes
  BY <1>2
<1> HIDE DEF bytes, ones, twos
<1>4. ASSUME NEW j \in 0 .. joints - 1 PROVE InRange(Bytes(16 + 8 * j, 8, bytes))
  BY <1>2, <1>3 DEF InRange, RangeFits, Bytes
<1>5. ASSUME NEW i \in 0 .. ones - 1 PROVE InRange(Bytes(16 + 8 * joints + 8 * i, 7, bytes))
  BY <1>2, <1>3 DEF InRange, RangeFits, Bytes
<1>6. ASSUME NEW i \in 0 .. twos - 1 PROVE InRange(Bytes(second + 8 * i, 7, bytes))
  BY <1>2, <1>3 DEF InRange, RangeFits, Bytes
<1>7. \A r \in dense \union first \union others : InRange(r)
  BY <1>4, <1>5, <1>6
<1> HIDE DEF dense, first, others
<1> QED BY <1>1, <1>7

(* resolvePosePacketView.                                                  *)
LEMMA PacketViewStepsSound ==
  ASSUME NEW class, class.joints \in Nat, NEW f, IsFrame(f)
  PROVE  Sound(PacketViewSteps(class, f))
<1> DEFINE joints == class.joints
           dense == 8 * joints
           second == dense + 8 * f.stream1.count
           unused == 16 * f.payload - second - 8 * f.stream2.count
           header == RangeFits(<<0, 16>>, f.bytes)
           headerRead == Bytes(0, 16, f.bytes)
           payload == RangeFits(<<0, 16 + 16 * f.payload>>, f.bytes)
           full == dense <= 16 * f.payload
           laid == /\ f.stream1.at = dense /\ f.stream2.at = second
                   /\ unused \in 0 .. 15 /\ unused % 8 = 0
           entries == EntryReads(f, joints)
           inside == \A j \in StreamJoints(f) : j < joints
           reads == {Element(j, joints) : j \in StreamJoints(f)}
           dull == ActiveEntries(f) = {}
           a == "FrameOutOfRange"
           b == "InvalidSparseLayout"
<1>1. PacketViewSteps(class, f) =
        <<Require(a, header, {headerRead}), Require(a, payload, {}), Require(b, full, {}),
          Require(b, laid, entries), Require("InvalidSparseJointIndex", inside, reads),
          Require("UnsupportedSparseFrame", dull, {})>>
  BY DEF PacketViewSteps
<1>2. f.bytes \in Nat /\ f.payload \in Nat /\ StreamJoints(f) \subseteq Nat /\ joints \in Nat
  BY FrameFacts
<1>3. header => InRange(headerRead)
  BY <1>2 DEF InRange, Bytes
<1>4. payload /\ laid => \A r \in entries : InRange(r)
  <2>1. payload => 16 + 16 * f.payload <= f.bytes
    BY <1>2 DEF RangeFits
  <2>2. laid => unused >= 0
    OBVIOUS
  <2> HIDE DEF payload, laid
  <2> QED BY <2>1, <2>2, EntryReadsInRange
<1>5. inside => \A r \in reads : InRange(r)
  BY <1>2 DEF InRange, RangeFits, Element
<1> HIDE DEF header, headerRead, payload, full, laid, entries, inside, reads, dull
<1> QED BY <1>1, <1>3, <1>4, <1>5 DEF Require, Sound, IsSteps, FailuresNamed, Verdicts, Guarded

(* blendResolvedPoseViews.                                                 *)
LEMMA BlendStepsSound ==
  ASSUME NEW class, class.joints \in Nat, NEW a, NEW b
  PROVE  Sound(BlendSteps(class, a, b))
<1> DEFINE joints == 0 .. class.joints - 1
           parent(j) == ParentOf(class, j)
           linked == {j \in joints : parent(j) # kRoot}
           finite == class.finite
           own == {Element(j, class.joints) : j \in joints}
           unit == a.unit /\ b.unit
           earlier == \A j \in linked : parent(j) \in 0 .. j - 1
           parents == {Element(parent(j), j) : j \in linked}
<1>1. BlendSteps(class, a, b) =
        <<Require("InvalidCommonTransform", finite, own), Require("NonFinitePose", unit, {}),
          Require("InvalidParentPointer", earlier, parents)>>
  BY DEF BlendSteps
<1>2. \A r \in own : InRange(r)
  BY DEF InRange, RangeFits, Element
<1>3. earlier => \A r \in parents : InRange(r)
  <2> SUFFICES ASSUME earlier, NEW j \in linked PROVE InRange(Element(parent(j), j))
    OBVIOUS
  <2> DEFINE k == parent(j)
  <2>1. k \in 0 .. j - 1 /\ j \in Nat
    OBVIOUS
  <2> HIDE DEF k
  <2> QED BY <2>1 DEF InRange, RangeFits, Element
<1> HIDE DEF finite, own, unit, earlier, parents
<1> QED BY <1>1, <1>2, <1>3 DEF Require, Sound, IsSteps, FailuresNamed, Verdicts, Guarded

(* Two packets and the blend of them.                                      *)
LEMMA PoseStepsSound ==
  ASSUME NEW class, class.joints \in Nat, NEW a, NEW b, IsFrame(a), IsFrame(b)
  PROVE  Sound(PoseSteps(class, a, b))
<1> DEFINE first == PacketViewSteps(class, a)
           second == PacketViewSteps(class, b)
           blend == BlendSteps(class, a, b)
<1>1. Sound(first) /\ Sound(second) /\ Sound(blend)
  BY PacketViewStepsSound, BlendStepsSound
<1> HIDE DEF first, second, blend
<1> DEFINE more == Then(second, blend)
<1>2. Sound(more)
  BY <1>1, ThenSound
<1> HIDE DEF more
<1>3. Sound(Then(first, more))
  BY <1>1, <1>2, ThenSound
<1> QED BY <1>3 DEF PoseSteps, first, second, blend, more

----------------------------------------------------------------------------
\* An operation on VU0 memory and a joint.
IsAddress(a) == a \in Nat /\ IsMatrixAddress(a)
IsOperation(op) ==
  /\ op.joint = NoJoint \/ op.joint \in Nat
  /\ op.store = NoStore \/ IsAddress(op.store)
  /\ op.blend = NoStore \/ IsAddress(op.blend)
  /\ \A a \in op.loads : IsAddress(a)

(* A matrix address is a slot of VU0 memory.                               *)
LEMMA SlotFacts ==
  ASSUME NEW a, IsAddress(a)
  PROVE  SlotOf(a) \in Nat /\ Element(SlotOf(a), kMatrixSlots) \in ReadsInRange
<1> DEFINE slot == SlotOf(a)
<1>1. slot \in Int /\ 0 <= slot /\ slot < kMatrixSlots /\ kMatrixSlots \in Int
  BY SMT DEF SlotOf, IsAddress, IsMatrixAddress, kMatrixSlots
<1> HIDE DEF slot
<1>2. Element(slot, kMatrixSlots) \in ReadsInRange
  BY <1>1, ElementInRange
<1>3. slot \in Nat
  BY <1>1
<1> QED BY <1>2, <1>3 DEF slot

(* What a vertex does to VU0 memory are operations.                        *)
LEMMA VertexOperationFacts ==
  ASSUME NEW p, IsMobyPacket(p), IsProgram(p), NEW i \in 0 .. VertexCount(p) - 1
  PROVE  IsOperation(VertexOperation(p, i))
<1> DEFINE row == VertexRow(p, i)
           kind == VertexKind(p, i)
<1>1. i \in Nat
  BY DEF IsProgram
<1>2. /\ row.low7 \in Nat /\ row.b2 \in Nat /\ row.b3 \in Nat /\ row.b6 \in Nat /\ row.b7 \in Nat
  BY <1>1, RowFacts DEF IsRow
<1>3. \A a \in MatrixAddresses(p, i) : IsMatrixAddress(a)
  BY DEF IsProgram
<1>4. /\ row.b2 \in MatrixAddresses(p, i) /\ row.b3 \in MatrixAddresses(p, i)
      /\ kind = "TwoWay" => row.b6 \in MatrixAddresses(p, i) /\ row.b7 \in MatrixAddresses(p, i)
      /\ kind = "ThreeWay" => row.b7 \in MatrixAddresses(p, i) /\ PackedL3(row) \in MatrixAddresses(p, i)
  BY DEF MatrixAddresses
<1>5. PackedL3(row) \in Nat
  BY <1>2 DEF PackedL3
<1>6. kind \in {"TwoWay", "ThreeWay", "Main"}
  BY DEF VertexKind
<1>7. VertexOperation(p, i) =
        CASE kind = "TwoWay" -> Operation(row.low7, row.b6, {row.b2, row.b3}, row.b7)
          [] kind = "ThreeWay" -> Operation(NoJoint, NoStore, {row.b2, row.b3, PackedL3(row)}, row.b7)
          [] kind = "Main" -> Operation(row.low7, row.b3, {row.b2}, NoStore)
  BY DEF VertexOperation
<1> HIDE DEF row, kind
<1>8. /\ IsAddress(row.b2) /\ IsAddress(row.b3)
      /\ kind = "TwoWay" => IsAddress(row.b6) /\ IsAddress(row.b7)
      /\ kind = "ThreeWay" => IsAddress(row.b7) /\ IsAddress(PackedL3(row))
  BY <1>2, <1>3, <1>4, <1>5 DEF IsAddress
<1>9. CASE kind = "TwoWay"
  <2>1. VertexOperation(p, i) = Operation(row.low7, row.b6, {row.b2, row.b3}, row.b7)
    BY <1>7, <1>9
  <2> QED BY <1>2, <1>8, <1>9, <2>1 DEF IsOperation, Operation
<1>10. CASE kind = "ThreeWay"
  <2>1. VertexOperation(p, i) = Operation(NoJoint, NoStore, {row.b2, row.b3, PackedL3(row)}, row.b7)
    BY <1>7, <1>10
  <2> QED BY <1>8, <1>10, <2>1 DEF IsOperation, Operation
<1>11. CASE kind = "Main"
  <2>1. VertexOperation(p, i) = Operation(row.low7, row.b3, {row.b2}, NoStore)
    BY <1>7, <1>11
  <2> QED BY <1>2, <1>8, <2>1 DEF IsOperation, Operation
<1> QED BY <1>6, <1>9, <1>10, <1>11

\* A list of operations.
IsOperations(ops) == IsSteps(ops) /\ \A k \in DOMAIN ops : IsOperation(ops[k])

(* A packet's program is a list of operations.                             *)
LEMMA PacketProgramFacts ==
  ASSUME NEW p, IsMobyPacket(p), IsProgram(p)
  PROVE  IsOperations(PacketProgram(p))
<1> DEFINE m == p.counts.matrix
           n == VertexCount(p)
           transfers == Transfers(p)
           a == [t \in DOMAIN transfers |-> Operation(transfers[t][1], transfers[t][2], {}, NoStore)]
           b == [i \in 1 .. n |-> VertexOperation(p, i - 1)]
<1>1. m \in Nat /\ n \in Nat
  BY DEF IsProgram
<1>2. DOMAIN transfers = 1 .. m /\ \A t \in 1 .. m : transfers[t] \in Nat \X Nat
  <2> DEFINE item(t) == ItemAt(p.transferTable, t - 1, <<0, 0>>)
  <2>1. transfers = [t \in 1 .. m |-> item(t)]
    BY DEF Transfers
  <2>2. ASSUME NEW t \in 1 .. m PROVE item(t) \in Nat \X Nat
    <3> DEFINE k == t - 1 + 1
               len == Len(p.transferTable)
    <3>1. item(t) = IF t - 1 < len THEN p.transferTable[k] ELSE <<0, 0>>
      BY DEF ItemAt
    <3>2. len \in Nat /\ \A j \in 1 .. len : p.transferTable[j] \in Nat \X Nat
      BY ElementsOfSeq DEF IsMobyPacket
    <3>3. t - 1 < len => k \in 1 .. len
      BY <1>1, <3>2
    <3> HIDE DEF k, len, item
    <3> QED BY <3>1, <3>2, <3>3
  <2> HIDE DEF item, transfers
  <2> QED BY <2>1, <2>2
<1>3. \A t \in 1 .. m : transfers[t] \in Range(transfers)
  BY <1>2 DEF Range
<1>4. \A t \in 1 .. m : IsMatrixAddress(transfers[t][2])
  BY <1>3 DEF IsProgram
<1> HIDE DEF m, transfers
<1>5. DOMAIN a = 1 .. m /\ a = [t \in 1 .. m |-> a[t]]
      /\ \A t \in 1 .. m : a[t] = Operation(transfers[t][1], transfers[t][2], {}, NoStore)
  BY <1>2
<1> HIDE DEF a
<1>6. IsOperations(a)
  <2>1. Len(a) = m
    BY <1>1, <1>5, LenOfFunction
  <2>2. ASSUME NEW t \in 1 .. m PROVE IsOperation(a[t])
    <3>1. transfers[t][1] \in Nat /\ IsAddress(transfers[t][2])
      BY <1>2, <1>4 DEF IsAddress
    <3> QED BY <1>5, <3>1 DEF IsOperation, Operation
  <2> QED BY <1>1, <1>5, <2>1, <2>2 DEF IsOperations, IsSteps
<1>7. IsOperations(b)
  <2>1. ASSUME NEW i \in 1 .. n PROVE IsOperation(VertexOperation(p, i - 1))
    <3> DEFINE k == i - 1
    <3>1. k \in 0 .. VertexCount(p) - 1
      BY <1>1
    <3> HIDE DEF k
    <3>2. IsOperation(VertexOperation(p, k))
      BY <3>1, VertexOperationFacts
    <3> QED BY <3>2 DEF k
  <2> HIDE DEF n
  <2>2. DOMAIN b = 1 .. n /\ b = [i \in 1 .. n |-> b[i]] /\ \A i \in 1 .. n : IsOperation(b[i])
    BY <2>1
  <2> HIDE DEF b
  <2>3. Len(b) = n
    BY <1>1, <2>2, LenOfFunction
  <2> QED BY <1>1, <2>2, <2>3 DEF IsOperations, IsSteps
<1>8. PacketProgram(p) = a \o b
  BY DEF PacketProgram, a, n, transfers
<1> HIDE DEF b, n
<1> DEFINE both == a \o b
<1>9. /\ IsSteps(both) /\ Len(both) = Len(a) + Len(b)
      /\ \A i \in 1 .. Len(a) : both[i] = a[i]
      /\ \A i \in 1 .. Len(b) : both[Len(a) + i] = b[i]
  BY <1>6, <1>7, ConcatSteps DEF IsOperations
<1> HIDE DEF both
<1>10. /\ Len(a) \in Nat /\ DOMAIN a = 1 .. Len(a) /\ Len(b) \in Nat /\ DOMAIN b = 1 .. Len(b)
       /\ DOMAIN both = 1 .. Len(a) + Len(b)
  BY <1>6, <1>7, <1>9 DEF IsOperations, IsSteps
<1>11. ASSUME NEW i \in DOMAIN both PROVE IsOperation(both[i])
  <2>1. CASE i <= Len(a)
    <3>1. i \in 1 .. Len(a)
      BY <1>10, <2>1
    <3> QED BY <1>6, <1>9, <1>10, <3>1 DEF IsOperations
  <2>2. CASE ~(i <= Len(a))
    <3> DEFINE j == i - Len(a)
    <3>1. j \in 1 .. Len(b) /\ i = Len(a) + j
      BY <1>10, <2>2
    <3> HIDE DEF j
    <3> QED BY <1>7, <1>9, <1>10, <3>1 DEF IsOperations
  <2> QED BY <2>1, <2>2
<1>12. IsOperations(both)
  BY <1>9, <1>11 DEF IsOperations
<1> QED BY <1>8, <1>12 DEF both

\* Slots of VU0 memory, and the skinning program being run.
Vu0Slots == {slot \in Nat : Element(slot, kMatrixSlots) \in ReadsInRange}
ExecutionStatus == {"Ok", "JointIndexOutOfRange", "Vu0ReadBeforeWrite"}
Executing == [status : ExecutionStatus, written : SUBSET Vu0Slots, reads : SUBSET ReadsInRange]

(* An operation touches VU0 memory and the joints, where they are.         *)
LEMMA ExecuteTyped ==
  ASSUME NEW joints \in Nat, NEW r \in Executing, NEW op, IsOperation(op)
  PROVE  Execute(joints, r, op) \in Executing
<1> DEFINE stored == r.written \union (IF op.store = NoStore THEN {} ELSE {SlotOf(op.store)})
           blended == stored \union (IF op.blend = NoStore THEN {} ELSE {SlotOf(op.blend)})
           loads == {SlotOf(a) : a \in op.loads}
           slots == {Element(slot, kMatrixSlots) : slot \in blended \union loads}
           joint == IF op.joint = NoJoint THEN {} ELSE {Element(op.joint, joints)}
           touched == slots \union joint
           reads == r.reads \union touched
           ready == loads \subseteq stored
           beyond == op.joint >= joints
<1>1. Execute(joints, r, op) =
        IF r.status # "Ok" THEN r
        ELSE IF beyond THEN [r EXCEPT !.status = "JointIndexOutOfRange"]
        ELSE IF ~ready THEN [r EXCEPT !.status = "Vu0ReadBeforeWrite"]
        ELSE [r EXCEPT !.written = blended, !.reads = reads]
  BY DEF Execute
<1>2. /\ [r EXCEPT !.status = "JointIndexOutOfRange"] \in Executing
      /\ [r EXCEPT !.status = "Vu0ReadBeforeWrite"] \in Executing
  BY DEF Executing, ExecutionStatus
<1>3. r.written \in SUBSET Vu0Slots /\ r.reads \in SUBSET ReadsInRange
  BY DEF Executing
<1>4. /\ op.store # NoStore => SlotOf(op.store) \in Vu0Slots
      /\ op.blend # NoStore => SlotOf(op.blend) \in Vu0Slots
      /\ \A a \in op.loads : SlotOf(a) \in Vu0Slots
  BY SlotFacts DEF IsOperation, Vu0Slots
<1>5. stored \subseteq Vu0Slots
  BY <1>3, <1>4
<1>6. blended \subseteq Vu0Slots
  <2> HIDE DEF stored
  <2> QED BY <1>4, <1>5
<1>7. loads \subseteq Vu0Slots
  BY <1>4
<1> HIDE DEF stored, blended, loads
<1>8. slots \subseteq ReadsInRange
  BY <1>6, <1>7 DEF Vu0Slots
<1>9. ~beyond => joint \subseteq ReadsInRange
  <2>1. CASE op.joint = NoJoint
    BY <2>1
  <2>2. CASE op.joint # NoJoint
    <3>1. op.joint \in Nat
      BY <2>2 DEF IsOperation
    <3>2. ~beyond => op.joint \in Int /\ 0 <= op.joint /\ op.joint < joints /\ joints \in Int
      BY <3>1
    <3>3. ~beyond => Element(op.joint, joints) \in ReadsInRange
      BY <3>2, ElementInRange
    <3>4. joint = {Element(op.joint, joints)}
      BY <2>2
    <3> HIDE DEF joint, beyond
    <3> QED BY <3>3, <3>4
  <2> QED BY <2>1, <2>2
<1> HIDE DEF slots, joint, beyond, ready
<1>10. ~beyond => [r EXCEPT !.written = blended, !.reads = reads] \in Executing
  <2>1. ~beyond => reads \in SUBSET ReadsInRange
    BY <1>3, <1>8, <1>9
  <2> HIDE DEF reads
  <2> QED BY <1>6, <2>1 DEF Executing
<1> HIDE DEF reads
<1> QED BY <1>1, <1>2, <1>10

(* A class's whole program is a list of operations.                        *)
LEMMA ClassProgramFacts ==
  ASSUME NEW class, IsSkinned(class)
  PROVE  IsOperations(FlattenSeq([i \in DOMAIN class.packets |-> PacketProgram(class.packets[i])]))
<1> DEFINE n == Len(class.packets)
           lists == [i \in DOMAIN class.packets |-> PacketProgram(class.packets[i])]
           flat == FlattenSeq(lists)
<1>1. n \in Nat /\ DOMAIN class.packets = 1 .. n
  BY DEF IsSkinned
<1>2. \A i \in 1 .. n : IsMobyPacket(class.packets[i]) /\ IsProgram(class.packets[i])
  BY DEF IsSkinned
<1> HIDE DEF n
<1>3. \A i \in 1 .. n : lists[i] = PacketProgram(class.packets[i])
  BY <1>1
<1>4. lists = [i \in 1 .. n |-> lists[i]]
  BY <1>1
<1> HIDE DEF lists
<1>5. \A i \in 1 .. n : IsOperations(lists[i])
  BY <1>2, <1>3, PacketProgramFacts
<1>6. \A i \in 1 .. n : IsSteps(lists[i])
  BY <1>5 DEF IsOperations
<1>7. /\ IsSteps(flat)
      /\ \A k \in DOMAIN flat : \E i \in 1 .. n : \E j \in DOMAIN lists[i] : flat[k] = lists[i][j]
  BY <1>1, <1>4, <1>6, FlattenLists
<1> HIDE DEF flat
<1>8. IsOperations(flat)
  BY <1>5, <1>7 DEF IsOperations
<1> QED BY <1>8 DEF flat, lists

(* The skinning program's execution reads inside VU0 memory and the rig.   *)
LEMMA ExecutionTyped ==
  ASSUME NEW class, IsSkinned(class)
  PROVE  Execution(class) \in Executing
<1> DEFINE joints == class.joints
           program == FlattenSeq([i \in DOMAIN class.packets |-> PacketProgram(class.packets[i])])
           n == Len(program)
           start == [status |-> "Ok", written |-> {}, reads |-> {}]
           next == [i \in 1 .. n |-> [x \in Executing |-> Execute(joints, x, program[i])]]
           after == CHOOSE f : f = [i \in 0 .. n |-> IF i = 0 THEN start ELSE
                      Execute(joints, f[i - 1], program[i])]
<1>1. Execution(class) = after[n]
  BY DEF Execution
<1>2. n \in Nat /\ joints \in Nat /\ \A i \in 1 .. n : IsOperation(program[i])
  <2>1. IsOperations(program)
    BY ClassProgramFacts
  <2>2. joints \in Nat
    BY DEF IsSkinned
  <2> HIDE DEF program, joints
  <2>3. n \in Nat /\ DOMAIN program = 1 .. n
    BY <2>1 DEF IsOperations, IsSteps
  <2> HIDE DEF n
  <2> QED BY <2>1, <2>2, <2>3 DEF IsOperations
<1> HIDE DEF program, joints
<1>3. start \in Executing
  BY DEF Executing, ExecutionStatus
<1>4. ASSUME NEW x \in Executing, NEW i \in 1 .. n
      PROVE  Execute(joints, x, program[i]) \in Executing
  <2> HIDE DEF n
  <2> QED BY <1>2, ExecuteTyped
<1>5. next \in [1 .. n -> [Executing -> Executing]]
  <2> HIDE DEF n, start
  <2> QED BY <1>2, <1>4
<1>6. PICK g : IsRun(g, Executing, n, start, next)
  <2> HIDE DEF n, start, next
  <2> QED BY <1>2, <1>3, <1>5, RunExists DEF IsLoop
<1>7. g = [i \in 0 .. n |-> IF i = 0 THEN start ELSE Execute(joints, g[i - 1], program[i])]
  <2>1. g \in [0 .. n -> Executing] /\ g[0] = start /\ \A i \in 1 .. n : g[i] = next[i][g[i - 1]]
    BY <1>6 DEF IsRun
  <2> HIDE DEF n, start
  <2>2. \A i \in 0 .. n : i # 0 => i \in 1 .. n /\ i - 1 \in 0 .. n
    BY <1>2
  <2>3. ASSUME NEW i \in 1 .. n PROVE g[i] = Execute(joints, g[i - 1], program[i])
    <3>1. g[i - 1] \in Executing /\ next[i] = [x \in Executing |-> Execute(joints, x, program[i])]
      BY <2>1, <2>2, <1>2
    <3> HIDE DEF next
    <3> QED BY <2>1, <3>1
  <2>4. g = [i \in 0 .. n |-> g[i]]
    BY <2>1
  <2> HIDE DEF next
  <2> QED BY <2>1, <2>2, <2>3, <2>4
<1>8. after = [i \in 0 .. n |-> IF i = 0 THEN start ELSE Execute(joints, after[i - 1], program[i])]
  <2> HIDE DEF n, start
  <2> QED BY <1>7
<1> HIDE DEF after
<1>9. after[0] = start /\ \A i \in 1 .. n : after[i] = Execute(joints, after[i - 1], program[i])
  <2> HIDE DEF n, start
  <2>1. 0 \in 0 .. n /\ \A i \in 1 .. n : i \in 0 .. n /\ i # 0
    BY <1>2
  <2> QED BY <1>8, <2>1
<1>10. after[0] \in Executing /\ \A i \in 1 .. n : after[i - 1] \in Executing => after[i] \in Executing
  <2> HIDE DEF n, start
  <2> QED BY <1>2, <1>3, <1>4, <1>9
<1>11. \A i \in 0 .. n : after[i] \in Executing
  <2> HIDE DEF n, start
  <2> QED BY <1>2, <1>10, RunStaysIn
<1>12. after[n] \in Executing
  <2> HIDE DEF n
  <2> QED BY <1>2, <1>11
<1> QED BY <1>1, <1>12

(* executeRac1MobySkinning, with two palettes.                             *)
LEMMA SkinStepsSound ==
  ASSUME NEW class, IsSkinned(class), NEW a, NEW b
  PROVE  Sound(SkinSteps(class, a, b))
<1> DEFINE execution == Execution(class)
           status == execution.status
           reads == execution.reads
           rigged == class.joints # 0
           finite == a.palette /\ b.palette
           fine == status = "Ok"
           drawn == a.vertices /\ b.vertices
           first == <<Require("NoSkeleton", rigged, {}), Require("NonFiniteMatrix", finite, {})>>
           second == <<Reading(reads), Require(status, fine, {}), Require("NonFiniteVertex", drawn, {})>>
<1>1. SkinSteps(class, a, b) = first \o second
  BY DEF SkinSteps, ExecutionSteps
<1>2. status \in ExecutionStatus /\ reads \in SUBSET ReadsInRange
  <2>1. execution \in Executing
    BY ExecutionTyped
  <2> HIDE DEF execution
  <2> QED BY <2>1 DEF Executing
<1>3. \A r \in reads : InRange(r)
  BY <1>2 DEF ReadsInRange
<1>4. ~fine => status \notin Verdicts
  BY <1>2 DEF ExecutionStatus, Verdicts
<1> HIDE DEF status, reads, rigged, finite, fine, drawn
<1>5. Sound(first)
  BY DEF Require, Sound, IsSteps, FailuresNamed, Verdicts, Guarded
<1>6. Sound(second)
  <2>1. second = <<Require("none", TRUE, reads), Require(status, fine, {}), Require("NonFiniteVertex", drawn, {})>>
    BY DEF Reading
  <2> QED BY <1>3, <1>4, <2>1 DEF Require, Sound, IsSteps, FailuresNamed, Verdicts, Guarded
<1> HIDE DEF first, second
<1> QED BY <1>1, <1>5, <1>6, ConcatSoundAllHold DEF Sound

(* How many vertices the program skins.                                    *)
LEMMA SkinVerticesTyped ==
  ASSUME NEW class, IsSkinned(class)
  PROVE  SkinVertices(class) \in Int
<1> DEFINE n == Len(class.packets)
           count(i) == VertexCount(class.packets[i])
           start == 0
           next == [i \in 1 .. n |-> [x \in Int |-> x + count(i)]]
           upTo == CHOOSE f : f = [i \in 0 .. n |-> IF i = 0 THEN start ELSE f[i - 1] + count(i)]
<1>1. SkinVertices(class) = upTo[n]
  BY DEF SkinVertices
<1>2. n \in Nat /\ \A i \in 1 .. n : count(i) \in Int
  BY MobyPacketFacts DEF IsSkinned
<1> HIDE DEF count
<1>3. start \in Int
  OBVIOUS
<1>4. ASSUME NEW x \in Int, NEW i \in 1 .. n PROVE x + count(i) \in Int
  BY <1>2
<1>5. next \in [1 .. n -> [Int -> Int]]
  <2> HIDE DEF n, start
  <2> QED BY <1>2, <1>4
<1>6. PICK g : IsRun(g, Int, n, start, next)
  <2> HIDE DEF n, start, next
  <2> QED BY <1>2, <1>3, <1>5, RunExists DEF IsLoop
<1>7. g = [i \in 0 .. n |-> IF i = 0 THEN start ELSE g[i - 1] + count(i)]
  <2>1. g \in [0 .. n -> Int] /\ g[0] = start /\ \A i \in 1 .. n : g[i] = next[i][g[i - 1]]
    BY <1>6 DEF IsRun
  <2> HIDE DEF n, start
  <2>2. \A i \in 0 .. n : i # 0 => i \in 1 .. n /\ i - 1 \in 0 .. n
    BY <1>2
  <2>3. ASSUME NEW i \in 1 .. n PROVE g[i] = g[i - 1] + count(i)
    <3>1. g[i - 1] \in Int /\ next[i] = [x \in Int |-> x + count(i)]
      BY <2>1, <2>2, <1>2
    <3> HIDE DEF next
    <3> QED BY <2>1, <3>1
  <2>4. g = [i \in 0 .. n |-> g[i]]
    BY <2>1
  <2> HIDE DEF next
  <2> QED BY <2>1, <2>2, <2>3, <2>4
<1>8. upTo = [i \in 0 .. n |-> IF i = 0 THEN start ELSE upTo[i - 1] + count(i)]
  <2> HIDE DEF n, start
  <2> QED BY <1>7
<1> HIDE DEF upTo
<1>9. upTo[0] = start /\ \A i \in 1 .. n : upTo[i] = upTo[i - 1] + count(i)
  <2> HIDE DEF n, start
  <2>1. 0 \in 0 .. n /\ \A i \in 1 .. n : i \in 0 .. n /\ i # 0
    BY <1>2
  <2> QED BY <1>8, <2>1
<1>10. upTo[0] \in Int /\ \A i \in 1 .. n : upTo[i - 1] \in Int => upTo[i] \in Int
  <2> HIDE DEF n, start
  <2> QED BY <1>2, <1>3, <1>4, <1>9
<1>11. \A i \in 0 .. n : upTo[i] \in Int
  <2> HIDE DEF n, start
  <2> QED BY <1>2, <1>10, RunStaysIn
<1>12. upTo[n] \in Int
  <2> HIDE DEF n
  <2> QED BY <1>2, <1>11
<1> QED BY <1>1, <1>12

----------------------------------------------------------------------------
(* appendSkinnedMobyBatch and updateSkinnedMobyBatches.                    *)
LEMMA IndexesInRange ==
  ASSUME NEW indexes, NEW count \in Int, BatchIsSkinned(indexes, count)
  PROVE  \A v \in Range(indexes) : InRange(Element(v, count))
<1> TAKE v \in Range(indexes)
<1>1. v \in 0 .. count - 1
  BY DEF BatchIsSkinned
<1>2. v \in Int /\ 0 <= v /\ v < count
  BY <1>1
<1> QED BY <1>2 DEF InRange, RangeFits, Element

(* A batch of Ratchet's first upload.                                      *)
LEMMA SkinBatchStepsSound ==
  ASSUME NEW batch, NEW textures \in Int, NEW skinVertices \in Int
  PROVE  Sound(SkinBatchSteps(batch, textures, skinVertices))
<1> DEFINE indexes == SkinIndexes(batch)
           textured == batch.material \in 0 .. textures - 1
           skinned == BatchIsSkinned(indexes, skinVertices)
           texture == Element(batch.material, textures)
           reads == {Element(v, skinVertices) : v \in Range(indexes)}
<1>1. SkinBatchSteps(batch, textures, skinVertices) =
        <<Require("GpuUploadFailed", textured /\ skinned, {texture} \union reads)>>
  BY DEF SkinBatchSteps
<1>2. textured => InRange(texture)
  <2> DEFINE m == batch.material
  <2>1. textured => m \in Int /\ 0 <= m /\ m < textures
    OBVIOUS
  <2> HIDE DEF m, textured
  <2>2. textured => InRange(Element(m, textures))
    BY <2>1 DEF InRange, RangeFits, Element
  <2> QED BY <2>2 DEF m
<1>3. skinned => \A r \in reads : InRange(r)
  BY IndexesInRange
<1> HIDE DEF textured, skinned, texture, reads
<1> DEFINE holds == textured /\ skinned
           all == {texture} \union reads
<1>4. holds => \A r \in all : InRange(r)
  BY <1>2, <1>3
<1> HIDE DEF holds, all
<1>5. Sound(<<Require("GpuUploadFailed", holds, all)>>)
  BY <1>4, StepSound DEF Verdicts
<1> QED BY <1>1, <1>5 DEF holds, all

(* A later pose written over it.                                           *)
LEMMA UpdateStepsSound ==
  ASSUME NEW indexes, NEW skinVertices \in Int
  PROVE  Sound(UpdateSteps(indexes, skinVertices))
<1> DEFINE skinned == BatchIsSkinned(indexes, skinVertices)
           reads == {Element(v, skinVertices) : v \in Range(indexes)}
<1>1. UpdateSteps(indexes, skinVertices) = <<Require("GpuUploadFailed", skinned, reads)>>
  BY DEF UpdateSteps
<1>2. skinned => \A r \in reads : InRange(r)
  BY IndexesInRange
<1> HIDE DEF skinned, reads
<1> QED BY <1>1, <1>2, StepSound DEF Verdicts

----------------------------------------------------------------------------
(* What is drawn, and the digest of it.                                    *)

(* What is selected, by where it was: the same places of another list of   *)
(* that length give the same places of it.                                 *)
Numbers(n) == [i \in 1 .. n |-> i]
Placed(s, at) == [k \in DOMAIN at |-> s[at[k]]]

LEMMA SelectByPlace ==
  ASSUME NEW s, IsSteps(s), NEW places
  PROVE  LET at == Select(Numbers(Len(s)), places) IN
         /\ at \in Seq(1 .. Len(s)) /\ \A k \in DOMAIN at : at[k] \in places
         /\ Select(s, places) = Placed(s, at)
<1> DEFINE n == Len(s)
           S == Range(s)
           numbers == Numbers(n)
           at == Select(numbers, places)
<1>1. n \in Nat /\ DOMAIN s = 1 .. n /\ s \in Seq(S)
  BY ListIsSeq
<1>2. numbers \in Seq(1 .. n) /\ Len(numbers) = n /\ DOMAIN numbers = 1 .. n
      /\ \A i \in 1 .. n : numbers[i] = i
  <2>1. numbers = [i \in 1 .. n |-> numbers[i]] /\ \A i \in 1 .. n : numbers[i] = i
    BY DEF Numbers
  <2> HIDE DEF numbers, n
  <2>2. \A i \in 1 .. n : numbers[i] \in 1 .. n
    BY <2>1
  <2> QED BY <1>1, <2>1, <2>2, FunctionIsSeq
<1> HIDE DEF numbers, S
<1>3. PICK u : IsSelecting(u, s, places) /\ Select(s, places) = u[n]
  BY <1>1, SelectRun
<1>4. PICK v : IsSelecting(v, numbers, places) /\ at = v[n]
  BY <1>2, SelectRun
<1> HIDE DEF at, n
<1> DEFINE Good(i) == /\ v[i] \in Seq(1 .. n) /\ \A k \in DOMAIN v[i] : v[i][k] \in places
                      /\ u[i] = Placed(s, v[i])
           Bad == {i \in 0 .. n : ~Good(i)}
<1>5. Good(0)
  <2>1. u[0] = <<>> /\ v[0] = <<>>
    BY <1>3, <1>4 DEF IsSelecting
  <2> QED BY <2>1, EmptySeq DEF Placed
<1>6. ASSUME NEW i \in 1 .. n, Good(i - 1) PROVE Good(i)
  <2> DEFINE a == v[i - 1]
             b == u[i - 1]
  <2>0. Len(s) = n
    BY DEF n
  <2>1. /\ u[i] = IF i \in places THEN Append(b, s[i]) ELSE b
        /\ v[i] = IF i \in places THEN Append(a, i) ELSE a
    BY <1>2, <1>3, <1>4, <2>0 DEF IsSelecting
  <2>2. a \in Seq(1 .. n) /\ (\A k \in DOMAIN a : a[k] \in places) /\ b = Placed(s, a)
    BY <1>6
  <2> HIDE DEF a, b
  <2>3. CASE i \notin places
    BY <2>1, <2>2, <2>3
  <2>4. CASE i \in places
    <3> DEFINE c == Append(a, i)
               d == Append(b, s[i])
               m == Len(a)
    <3>1. /\ c \in Seq(1 .. n) /\ Len(c) = m + 1 /\ m \in Nat /\ DOMAIN a = 1 .. m
          /\ DOMAIN c = 1 .. m + 1 /\ (\A k \in 1 .. m : c[k] = a[k]) /\ c[m + 1] = i
      BY <2>2, AppendProperties, LenProperties
    <3>2. b = [k \in 1 .. m |-> b[k]] /\ \A k \in 1 .. m : b[k] = s[a[k]]
      BY <2>2, <3>1 DEF Placed
    <3>3. \A k \in 1 .. m : a[k] \in DOMAIN s
      BY <2>2, <3>1, <1>1, ElementsOfSeq
    <3> HIDE DEF c
    <3>4. \A k \in 1 .. m : b[k] \in S
      BY <3>2, <3>3 DEF S, Range
    <3>5. s[i] \in S
      BY <1>1 DEF S, Range
    <3> HIDE DEF m
    <3>6. b \in Seq(S) /\ Len(b) = m
      BY <3>1, <3>2, <3>4, FunctionIsSeq
    <3>7. d \in Seq(S) /\ Len(d) = m + 1 /\ (\A k \in 1 .. m : d[k] = b[k]) /\ d[m + 1] = s[i]
      BY <3>5, <3>6, AppendProperties
    <3> HIDE DEF d
    <3>8. d = [k \in 1 .. m + 1 |-> d[k]]
      BY <3>7, LenProperties
    <3>9. \A k \in 1 .. m + 1 : d[k] = s[c[k]] /\ c[k] \in places
      <4> TAKE k \in 1 .. m + 1
      <4>1. CASE k = m + 1
        BY <4>1, <3>1, <3>7, <2>4
      <4>2. CASE k # m + 1
        <5>1. k \in 1 .. m
          BY <4>2, <3>1
        <5> QED BY <5>1, <3>1, <3>2, <3>7, <2>2
      <4> QED BY <4>1, <4>2
    <3>10. d = Placed(s, c)
      BY <3>1, <3>8, <3>9 DEF Placed
    <3> QED BY <2>1, <2>4, <3>1, <3>9, <3>10 DEF c, d
  <2> QED BY <2>3, <2>4
<1>7. Bad = {}
  <2>1. Bad \in SUBSET (0 .. n) /\ 0 \notin Bad
    BY <1>5
  <2>2. \A i \in 1 .. n : i \in Bad => i - 1 \in Bad
    <3> TAKE i \in 1 .. n
    <3>1. i - 1 \in 0 .. n
      BY <1>1
    <3> HIDE DEF Good
    <3> QED BY <3>1, <1>6
  <2> HIDE DEF Bad
  <2> QED BY <1>1, <2>1, <2>2, NoFirstBad
<1>8. Good(n)
  BY <1>1, <1>7
<1> QED BY <1>3, <1>4, <1>8 DEF at, numbers, n

(* Selecting all of a list.                                                *)
LEMMA SelectAll ==
  ASSUME NEW s, IsSteps(s), NEW places, DOMAIN s \subseteq places
  PROVE  Select(s, places) = s
<1> DEFINE n == Len(s)
           S == Range(s)
<1>1. n \in Nat /\ DOMAIN s = 1 .. n /\ s \in Seq(S) /\ s = [k \in 1 .. n |-> s[k]]
  BY ListIsSeq DEF IsSteps
<1>2. PICK u : IsSelecting(u, s, places) /\ Select(s, places) = u[n]
  BY <1>1, SelectRun
<1>3. u[0] = <<>> /\ \A i \in 1 .. n : u[i] = Append(u[i - 1], s[i])
  BY <1>1, <1>2 DEF IsSelecting
<1>4. \A i \in 1 .. n : s[i] \in S
  BY <1>1 DEF Range
<1> HIDE DEF n, S
<1> DEFINE Good(i) == u[i] = [k \in 1 .. i |-> s[k]]
           Bad == {i \in 0 .. n : ~Good(i)}
<1>5. Good(0)
  BY <1>3
<1>6. ASSUME NEW i \in 1 .. n, Good(i - 1) PROVE Good(i)
  <2> DEFINE b == u[i - 1]
             d == Append(b, s[i])
             m == i - 1
  <2>1. b = [k \in 1 .. m |-> s[k]] /\ m \in Nat /\ \A k \in 1 .. m : k \in 1 .. n
    BY <1>1, <1>6
  <2> HIDE DEF b
  <2>2. b = [k \in 1 .. m |-> b[k]] /\ \A k \in 1 .. m : b[k] \in S /\ b[k] = s[k]
    BY <2>1, <1>4
  <2>3. m + 1 = i
    BY <1>1
  <2> HIDE DEF m
  <2>4. b \in Seq(S) /\ Len(b) = m
    BY <2>1, <2>2, FunctionIsSeq
  <2>5. d \in Seq(S) /\ Len(d) = m + 1 /\ (\A k \in 1 .. m : d[k] = b[k]) /\ d[m + 1] = s[i]
    BY <2>4, <1>4, AppendProperties
  <2>6. u[i] = d
    BY <1>3 DEF b
  <2> HIDE DEF d
  <2>7. d = [k \in 1 .. m + 1 |-> d[k]]
    BY <2>5, LenProperties
  <2>8. \A k \in 1 .. m + 1 : d[k] = s[k]
    <3> TAKE k \in 1 .. m + 1
    <3>1. k = m + 1 \/ k \in 1 .. m
      BY <2>1
    <3> QED BY <3>1, <2>2, <2>3, <2>5
  <2> QED BY <2>3, <2>6, <2>7, <2>8
<1>7. Bad = {}
  <2>1. Bad \in SUBSET (0 .. n) /\ 0 \notin Bad
    BY <1>5
  <2>2. \A i \in 1 .. n : i \in Bad => i - 1 \in Bad
    <3> TAKE i \in 1 .. n
    <3>1. i - 1 \in 0 .. n
      BY <1>1
    <3> HIDE DEF Good
    <3> QED BY <3>1, <1>6
  <2> HIDE DEF Bad
  <2> QED BY <1>1, <2>1, <2>2, NoFirstBad
<1>8. Good(n)
  BY <1>1, <1>7
<1> QED BY <1>1, <1>2, <1>8

(* One selection after another.                                            *)
LEMMA PlacedOneAfterAnother ==
  ASSUME NEW s, IsSteps(s), NEW a \in Seq(1 .. Len(s)), NEW b \in Seq(1 .. Len(s))
  PROVE  /\ Placed(s, a) \o Placed(s, b) = Placed(s, a \o b)
         /\ a \o b \in Seq(1 .. Len(s))
<1> DEFINE n == Len(s)
           c == a \o b
           p == Placed(s, a)
           q == Placed(s, b)
<1>0. n \in Nat /\ DOMAIN s = 1 .. n
  BY DEF IsSteps
<1>1. /\ IsSteps(a) /\ IsSteps(b) /\ DOMAIN a = 1 .. Len(a) /\ DOMAIN b = 1 .. Len(b)
      /\ Len(a) \in Nat /\ Len(b) \in Nat /\ c \in Seq(1 .. n) /\ Len(c) = Len(a) + Len(b)
  BY LenProperties, ConcatProperties DEF IsSteps
<1>2. IsSteps(p) /\ Len(p) = Len(a) /\ IsSteps(q) /\ Len(q) = Len(b)
  <2>1. p = [k \in 1 .. Len(a) |-> p[k]] /\ q = [k \in 1 .. Len(b) |-> q[k]]
    BY <1>1 DEF Placed
  <2> HIDE DEF p, q
  <2> QED BY <1>1, <2>1, LenOfFunction DEF IsSteps
<1>3. /\ IsSteps(p \o q) /\ Len(p \o q) = Len(a) + Len(b)
      /\ \A k \in 1 .. Len(a) : (p \o q)[k] = p[k] /\ c[k] = a[k]
      /\ \A k \in 1 .. Len(b) : (p \o q)[Len(a) + k] = q[k] /\ c[Len(a) + k] = b[k]
  <2>1. /\ IsSteps(p \o q) /\ Len(p \o q) = Len(p) + Len(q)
        /\ \A k \in 1 .. Len(p) : (p \o q)[k] = p[k]
        /\ \A k \in 1 .. Len(q) : (p \o q)[Len(p) + k] = q[k]
    BY <1>2, ConcatSteps
  <2>2. /\ \A k \in 1 .. Len(a) : c[k] = a[k]
        /\ \A k \in 1 .. Len(b) : c[Len(a) + k] = b[k]
    BY <1>1, ConcatSteps
  <2> HIDE DEF p, q, c
  <2> QED BY <1>2, <2>1, <2>2
<1>4. /\ \A k \in 1 .. Len(a) : p[k] = s[a[k]]
      /\ \A k \in 1 .. Len(b) : q[k] = s[b[k]]
  BY <1>1 DEF Placed
<1> HIDE DEF p, q, c
<1> DEFINE m == Len(a)
           l == Len(b)
           r == p \o q
<1>5. \A k \in 1 .. m + l : r[k] = s[c[k]]
  <2> TAKE k \in 1 .. m + l
  <2>1. CASE k \in 1 .. m
    BY <2>1, <1>3, <1>4
  <2>2. CASE k \notin 1 .. m
    <3>1. k - m \in 1 .. l /\ m + (k - m) = k
      BY <2>2, <1>1
    <3> DEFINE j == k - m
    <3>2. r[m + j] = q[j] /\ c[m + j] = b[j] /\ q[j] = s[b[j]]
      BY <3>1, <1>3, <1>4
    <3> HIDE DEF j, r
    <3> QED BY <3>1, <3>2 DEF j
  <2> QED BY <2>1, <2>2
<1>6. r = [k \in 1 .. m + l |-> r[k]] /\ DOMAIN c = 1 .. m + l
  <2>1. DOMAIN c = 1 .. m + l
    BY <1>1, LenProperties
  <2> QED BY <1>3, <2>1 DEF IsSteps
<1> HIDE DEF r, m, l
<1>7. r = Placed(s, c)
  BY <1>5, <1>6 DEF Placed
<1> QED BY <1>1, <1>7 DEF r, p, q, c, n

(* The two passes of drawing, and the two of the digest: the same batches  *)
(* in the same order when none is empty and each has a texture.            *)
LEMMA DrawnAsDigested ==
  ASSUME NEW batches, IsSteps(batches), NEW textures,
         \A i \in DOMAIN batches :
           /\ batches[i].vertices # 0 /\ batches[i].material # kNoMaterial
           /\ HasAlpha(batches[i], textures) \in BOOLEAN
  PROVE  /\ DrawOrder(UploadedBatches(batches, textures)) = DigestOrder(batches, textures)
         /\ IsSteps(UploadedBatches(batches, textures))
         /\ Len(UploadedBatches(batches, textures)) = Len(batches)
         /\ IsSteps(DigestOrder(batches, textures))
<1> DEFINE n == Len(batches)
           alpha(i) == HasAlpha(batches[i], textures)
           transparent(b) == b.material # kNoMaterial /\ HasAlpha(b, textures)
           sent(b) == [kind |-> b.kind, shell |-> b.shell, material |-> b.material,
                       transparent |-> transparent(b)]
           kept == Select(batches, {i \in DOMAIN batches : batches[i].vertices # 0})
           up == [i \in DOMAIN batches |-> sent(batches[i])]
<1>1. n \in Nat /\ DOMAIN batches = 1 .. n
  BY DEF IsSteps
<1>2. kept = batches
  <2> DEFINE places == {i \in DOMAIN batches : batches[i].vertices # 0}
  <2>1. DOMAIN batches \subseteq places
    OBVIOUS
  <2> HIDE DEF places
  <2>2. Select(batches, places) = batches
    BY <2>1, SelectAll
  <2> QED BY <2>2 DEF places
<1>3. UploadedBatches(batches, textures) = up
  <2>1. UploadedBatches(batches, textures) = [i \in DOMAIN kept |-> sent(kept[i])]
    BY DEF UploadedBatches
  <2> HIDE DEF kept, sent
  <2> QED BY <1>2, <2>1
<1>4. \A i \in DOMAIN batches : /\ up[i].kind = batches[i].kind /\ up[i].material = batches[i].material
                                /\ up[i].transparent = alpha(i)
  <2> TAKE i \in DOMAIN batches
  <2>1. up[i] = sent(batches[i])
    OBVIOUS
  <2>2. transparent(batches[i]) = alpha(i)
    <3>1. batches[i].material # kNoMaterial /\ alpha(i) \in BOOLEAN
      OBVIOUS
    <3>2. transparent(batches[i]) <=> alpha(i)
      BY <3>1
    <3>3. transparent(batches[i]) \in BOOLEAN
      OBVIOUS
    <3> HIDE DEF transparent, alpha
    <3> QED BY <3>1, <3>2, <3>3
  <2> HIDE DEF up, transparent, alpha
  <2> QED BY <2>1, <2>2
<1>5. IsSteps(up) /\ Len(up) = n /\ DOMAIN up = DOMAIN batches
  <2>1. up = [i \in 1 .. n |-> up[i]]
    BY <1>1
  <2> HIDE DEF up
  <2> QED BY <1>1, <2>1, LenOfFunction DEF IsSteps
<1> HIDE DEF up, kept, sent, transparent
<1> DEFINE places(w) == {i \in DOMAIN batches : alpha(i) = w}
           at(w) == Select(Numbers(n), places(w))
           all == at(FALSE) \o at(TRUE)
           digested == Select(batches, places(FALSE)) \o Select(batches, places(TRUE))
           drawn == Select(up, places(FALSE)) \o Select(up, places(TRUE))
<1>6. ASSUME NEW w PROVE /\ at(w) \in Seq(1 .. n) /\ Select(batches, places(w)) = Placed(batches, at(w))
                         /\ Select(up, places(w)) = Placed(up, at(w))
  <2> DEFINE chosen == places(w)
  <2> HIDE DEF places
  <2>1. /\ Select(Numbers(Len(batches)), chosen) \in Seq(1 .. Len(batches))
        /\ Select(batches, chosen) = Placed(batches, Select(Numbers(Len(batches)), chosen))
    BY SelectByPlace
  <2>2. Select(up, chosen) = Placed(up, Select(Numbers(Len(up)), chosen))
    BY <1>5, SelectByPlace
  <2> QED BY <2>1, <2>2, <1>5
<1>7. digested = Placed(batches, all) /\ drawn = Placed(up, all) /\ all \in Seq(1 .. n)
  <2> DEFINE a == at(FALSE)
             b == at(TRUE)
  <2>1. /\ a \in Seq(1 .. n) /\ Select(batches, places(FALSE)) = Placed(batches, a)
        /\ Select(up, places(FALSE)) = Placed(up, a)
    BY <1>6
  <2>2. /\ b \in Seq(1 .. n) /\ Select(batches, places(TRUE)) = Placed(batches, b)
        /\ Select(up, places(TRUE)) = Placed(up, b)
    BY <1>6
  <2> HIDE DEF a, b, places, at
  <2>3. Placed(batches, a) \o Placed(batches, b) = Placed(batches, a \o b) /\ a \o b \in Seq(1 .. n)
    BY <2>1, <2>2, PlacedOneAfterAnother
  <2>4. a \in Seq(1 .. Len(up)) /\ b \in Seq(1 .. Len(up))
    BY <1>5, <2>1, <2>2
  <2>5. Placed(up, a) \o Placed(up, b) = Placed(up, a \o b)
    BY <1>5, <2>4, PlacedOneAfterAnother
  <2> QED BY <2>1, <2>2, <2>3, <2>5 DEF a, b
<1>8. DigestOrder(batches, textures) =
        [i \in DOMAIN digested |-> <<digested[i].kind, digested[i].material, HasAlpha(digested[i], textures)>>]
  BY DEF DigestOrder
<1>9. DrawOrder(up) = [i \in DOMAIN drawn |-> <<drawn[i].kind, drawn[i].material, drawn[i].transparent>>]
  <2> DEFINE pass(w) == {i \in DOMAIN up : up[i].transparent = w}
             order == Select(up, pass(FALSE)) \o Select(up, pass(TRUE))
  <2>1. DrawOrder(up) = [i \in DOMAIN order |-> <<order[i].kind, order[i].material, order[i].transparent>>]
    BY DEF DrawOrder
  <2>2. pass(FALSE) = places(FALSE) /\ pass(TRUE) = places(TRUE)
    <3> HIDE DEF alpha
    <3> QED BY <1>4, <1>5
  <2>3. order = drawn
    <3> HIDE DEF pass, places
    <3> QED BY <2>2
  <2> HIDE DEF order, drawn
  <2> QED BY <2>1, <2>3
<1> HIDE DEF digested, drawn, all, at, places
<1>10. /\ DOMAIN digested = DOMAIN all /\ DOMAIN drawn = DOMAIN all
       /\ \A i \in DOMAIN all : all[i] \in DOMAIN batches /\ digested[i] = batches[all[i]] /\ drawn[i] = up[all[i]]
  <2>1. \A i \in DOMAIN all : all[i] \in 1 .. n
    BY <1>7, ElementsOfSeq
  <2> QED BY <1>1, <1>7, <2>1 DEF Placed
<1>11. \A i \in DOMAIN all : <<digested[i].kind, digested[i].material, HasAlpha(digested[i], textures)>> =
                             <<drawn[i].kind, drawn[i].material, drawn[i].transparent>>
  <2> TAKE i \in DOMAIN all
  <2>1. all[i] \in DOMAIN batches /\ digested[i] = batches[all[i]] /\ drawn[i] = up[all[i]]
    BY <1>10
  <2>2. HasAlpha(digested[i], textures) = drawn[i].transparent
    BY <2>1, <1>4
  <2>3. digested[i].kind = drawn[i].kind /\ digested[i].material = drawn[i].material
    BY <2>1, <1>4
  <2> QED BY <2>2, <2>3
<1>12. DrawOrder(up) = DigestOrder(batches, textures)
  BY <1>8, <1>9, <1>10, <1>11
<1>13. IsSteps(DigestOrder(batches, textures))
  <2> DEFINE f == DigestOrder(batches, textures)
  <2>1. IsSteps(all) /\ DOMAIN f = DOMAIN all /\ f = [i \in DOMAIN all |-> f[i]]
    BY <1>7, <1>8, <1>10, LenProperties DEF IsSteps
  <2>2. DOMAIN all = 1 .. Len(all) /\ Len(all) \in Nat
    BY <2>1 DEF IsSteps
  <2> HIDE DEF f
  <2>3. f = [i \in 1 .. Len(all) |-> f[i]]
    BY <2>1, <2>2
  <2>4. Len(f) = Len(all)
    BY <2>2, <2>3, LenOfFunction
  <2>5. IsSteps(f)
    BY <2>2, <2>3, <2>4 DEF IsSteps
  <2> QED BY <2>5 DEF f
<1> QED BY <1>3, <1>5, <1>12, <1>13

----------------------------------------------------------------------------
(* Loading a level.                                                        *)

(* What a level's fields are.                                              *)
LEMMA LevelFacts ==
  ASSUME NEW level, IsLevel(level)
  PROVE  /\ Core(level) \in Int /\ CoreIndex(level) \in Int /\ Gameplay(level) \in Int
         /\ level.file.gsRam[2] \in Int /\ level.base \in Nat /\ level.terrainAt \in Nat
         /\ IsFile(level.file) /\ IsTerrain(level.terrain) /\ IsScene(level.static)
         /\ IsWad(level.wad) /\ IsMobyScene(level.mobys)
         /\ \A kind \in {"tfrag", "tie", "shrub", "moby"} :
              IsTextureTable(level.textures[kind]) /\ TextureCount(level, kind) \in Nat
<1>1. /\ IsFile(level.file) /\ IsTerrain(level.terrain) /\ IsScene(level.static)
      /\ IsWad(level.wad) /\ IsMobyScene(level.mobys) /\ level.base \in Nat /\ level.terrainAt \in Nat
  BY DEF IsLevel
<1>2. Core(level) \in Int /\ Gameplay(level) \in Int
  BY <1>1 DEF IsFile, Core, Gameplay
<1>3. CoreIndex(level) \in Int /\ level.file.gsRam[2] \in Int
  <2>1. level.file.coreIndex \in Nat \X Nat /\ level.file.gsRam \in Nat \X Nat
    BY <1>1 DEF IsFile
  <2> QED BY <2>1 DEF CoreIndex
<1>4. ASSUME NEW kind \in {"tfrag", "tie", "shrub", "moby"}
      PROVE  IsTextureTable(level.textures[kind]) /\ TextureCount(level, kind) \in Nat
  <2>1. IsTextureTable(level.textures[kind])
    BY DEF IsLevel
  <2>2. TextureCount(level, kind) \in Nat
    BY <2>1, SequenceFacts DEF TextureCount, IsTextureTable
  <2> QED BY <2>1, <2>2
<1> QED BY <1>1, <1>2, <1>3, <1>4

(* The four texture tables.                                                *)
LEMMA AllTextureStepsSound ==
  ASSUME NEW level, IsLevel(level)
  PROVE  Sound(AllTextureSteps(level))
<1>1. ASSUME NEW kind \in {"tfrag", "tie", "shrub", "moby"} PROVE Sound(LevelTextureSteps(level, kind))
  <2> DEFINE steps == TextureSteps(Core(level), CoreIndex(level), level.file.gsRam[2],
                                   level.textures[kind], level.base)
  <2>1. Sound(steps)
    BY LevelFacts, TextureStepsSound
  <2> HIDE DEF steps
  <2>2. Sound(Within("TextureDecodeFailed", steps))
    BY <2>1, WithinSound DEF Verdicts
  <2> QED BY <2>2 DEF LevelTextureSteps, steps
<1> DEFINE turns == <<LevelTextureSteps(level, "tfrag"), LevelTextureSteps(level, "tie"),
                      LevelTextureSteps(level, "shrub"), LevelTextureSteps(level, "moby")>>
<1>2. turns = [i \in 1 .. 4 |-> turns[i]]
  OBVIOUS
<1>3. \A i \in 1 .. 4 : Sound(turns[i])
  <2>1. /\ Sound(LevelTextureSteps(level, "tfrag")) /\ Sound(LevelTextureSteps(level, "tie"))
        /\ Sound(LevelTextureSteps(level, "shrub")) /\ Sound(LevelTextureSteps(level, "moby"))
    BY <1>1
  <2> QED BY <2>1
<1>4. AllTextureSteps(level) = ForEach(turns)
  BY DEF AllTextureSteps
<1>5. 4 \in Nat
  OBVIOUS
<1> HIDE DEF turns
<1> QED BY <1>2, <1>3, <1>4, <1>5, ForEachSound

(* What is drawn of a decoded world is batches of three kinds.             *)
IsWorld(level) ==
  /\ IsSteps(World(level).terrain) /\ \A i \in DOMAIN World(level).terrain : World(level).terrain[i].kind = "terrain"
  /\ IsSteps(World(level).static) /\ \A i \in DOMAIN World(level).static : World(level).static[i].kind \in {"tie", "shrub"}

(* The terrain and the static scene.                                       *)
LEMMA WorldStepsSound ==
  ASSUME NEW level, IsLevel(level)
  PROVE  Sound(WorldSteps(level)) /\ (AllHold(WorldSteps(level)) => IsWorld(level))
<1> DEFINE a == TerrainSteps(Core(level), level.terrainAt, TextureCount(level, "tfrag"), level.terrain)
           b == StaticSteps(Core(level), CoreIndex(level), Gameplay(level), level.static,
                            TextureCount(level, "tie"), TextureCount(level, "shrub"))
           c == Within("TerrainDecodeFailed", a)
           d == Within("StaticSceneDecodeFailed", b)
           terrain == World(level).terrain
           static == World(level).static
           terrainKind == IsSteps(terrain) /\ \A i \in DOMAIN terrain : terrain[i].kind = "terrain"
           staticKind == IsSteps(static) /\ \A i \in DOMAIN static : static[i].kind \in {"tie", "shrub"}
<1>1. /\ TextureCount(level, "tfrag") \in Nat /\ TextureCount(level, "tie") \in Nat
      /\ TextureCount(level, "shrub") \in Nat
  BY LevelFacts
<1>2. terrain = TerrainBatches(level.terrain) /\ static = StaticBatches(level.static, TextureCount(level, "shrub"))
  BY DEF World
<1> DEFINE batches == TerrainBatches(level.terrain)
<1>3. Sound(a) /\ (AllHold(a) => terrainKind)
  <2>1. Sound(a) /\ (AllHold(a) => \A i \in DOMAIN level.terrain.fragments :
                                     IsDrawn(FragmentMesh(level.terrain.fragments[i])))
    BY <1>1, LevelFacts, TerrainStepsSound
  <2> HIDE DEF a
  <2>2. AllHold(a) => /\ IsSteps(batches) /\ \A i \in DOMAIN batches : batches[i].kind = "terrain"
    BY <2>1, LevelFacts, TerrainBatchFacts
  <2>3. terrain = batches
    BY <1>2
  <2> HIDE DEF terrain, batches
  <2> QED BY <2>1, <2>2, <2>3
<1>4. Sound(b) /\ (AllHold(b) => staticKind)
  <2> DEFINE drawn == StaticBatches(level.static, TextureCount(level, "shrub"))
  <2>1. Sound(b) /\ (AllHold(b) => /\ IsSteps(drawn)
                                  /\ \A i \in DOMAIN drawn : drawn[i].kind \in {"tie", "shrub"})
    BY <1>1, LevelFacts, StaticStepsSound
  <2>2. static = drawn
    BY <1>2
  <2> HIDE DEF b, drawn, static
  <2> QED BY <2>1, <2>2
<1>5. WorldSteps(level) = Then(c, d)
  BY DEF WorldSteps
<1>6. IsWorld(level) <=> terrainKind /\ staticKind
  BY DEF IsWorld
<1> HIDE DEF a, b, terrainKind, staticKind
<1>7. Sound(c) /\ (AllHold(c) => AllHold(a)) /\ Sound(d) /\ (AllHold(d) => AllHold(b))
  BY <1>3, <1>4, WithinSound DEF Verdicts
<1> HIDE DEF c, d
<1>8. Sound(Then(c, d)) /\ (AllHold(Then(c, d)) => AllHold(c) /\ AllHold(d))
  BY <1>7, ThenSound
<1> QED BY <1>3, <1>4, <1>5, <1>6, <1>7, <1>8

\* What the digest takes of a world.
IsDigestedWorld(level) ==
  /\ \A i \in DOMAIN World(level).terrain : IsDigested(World(level).terrain[i], BatchTextures(level))
  /\ \A i \in DOMAIN World(level).static : IsDigested(World(level).static[i], BatchTextures(level))

(* The parity digest of what they were decoded to.                         *)
LEMMA ParityCheckSound ==
  ASSUME NEW level, IsLevel(level), IsWorld(level)
  PROVE  /\ Sound(ParityCheck(World(level), BatchTextures(level)))
         /\ AllHold(ParityCheck(World(level), BatchTextures(level))) => IsDigestedWorld(level)
<1> DEFINE textures == BatchTextures(level)
           terrain == World(level).terrain
           static == World(level).static
           steps == ParitySteps(terrain, static, textures)
           digested == /\ \A i \in DOMAIN terrain : IsDigested(terrain[i], textures)
                       /\ \A i \in DOMAIN static : IsDigested(static[i], textures)
<1>1. /\ Len(textures["terrain"]) \in Nat /\ Len(textures["tie"]) \in Nat /\ Len(textures["shrub"]) \in Nat
  <2>1. /\ TextureCount(level, "tfrag") \in Nat /\ TextureCount(level, "tie") \in Nat
        /\ TextureCount(level, "shrub") \in Nat
    BY LevelFacts
  <2> QED BY <2>1 DEF BatchTextures, TextureCount
<1>2. ParityCheck(World(level), textures) = Within("StaticWorldParityInvalid", steps)
  BY DEF ParityCheck
<1> HIDE DEF textures
<1>3. Sound(steps) /\ (AllHold(steps) => digested)
  <2>1. /\ IsSteps(terrain) /\ \A i \in DOMAIN terrain : terrain[i].kind = "terrain"
        /\ IsSteps(static) /\ \A i \in DOMAIN static : static[i].kind \in {"tie", "shrub"}
    BY DEF IsWorld
  <2> HIDE DEF terrain, static
  <2>2. /\ \A i \in DOMAIN terrain : Len(textures[terrain[i].kind]) \in Nat
        /\ \A i \in DOMAIN static : Len(textures[static[i].kind]) \in Nat
    BY <1>1, <2>1
  <2> QED BY <2>1, <2>2, ParityStepsSound
<1> HIDE DEF steps, digested
<1>4. /\ Sound(Within("StaticWorldParityInvalid", steps))
      /\ AllHold(Within("StaticWorldParityInvalid", steps)) => AllHold(steps)
  BY <1>3, WithinSound DEF Verdicts
<1>5. digested => IsDigestedWorld(level)
  BY DEF digested, IsDigestedWorld, textures
<1> QED BY <1>2, <1>3, <1>4, <1>5 DEF textures

(* The sky out of the runtime WAD.                                         *)
LEMMA RuntimeSkyStepsSound ==
  ASSUME NEW level, IsLevel(level)
  PROVE  Sound(RuntimeSkySteps(level))
<1> DEFINE present == level.wadPresent
           whole == level.wadWhole
           decodes == level.wad.bytes # 0
           first == <<Require("RuntimeSkyAssetMissing", present, {}),
                      Require("RuntimeSkyAssetInvalid", whole, {}),
                      Require("RuntimeSkyDecompressionFailed", decodes, {})>>
           located == LocateSteps(level.wad)
           decoded == SkySteps(level.wad)
           a == Within("RuntimeSkySourceInvalid", located)
           b == Within("SkyDecodeFailed", decoded)
           c == Then(a, b)
<1>1. RuntimeSkySteps(level) = first \o c
  BY DEF RuntimeSkySteps
<1>2. Sound(first)
  <2> HIDE DEF present, whole, decodes
  <2> QED BY DEF Require, Sound, IsSteps, FailuresNamed, Verdicts, Guarded
<1>3. Sound(located) /\ Sound(decoded)
  <2>1. IsWad(level.wad)
    BY LevelFacts
  <2>2. level.wad.bytes \in Nat
    BY <2>1 DEF IsWad
  <2> QED BY <2>1, <2>2, LocateStepsSound, SkyStepsSound
<1> HIDE DEF first, located, decoded
<1>4. Sound(a) /\ Sound(b)
  BY <1>3, WithinSound DEF Verdicts
<1> HIDE DEF a, b
<1>5. Sound(c)
  BY <1>4, ThenSound
<1> HIDE DEF c
<1> QED BY <1>1, <1>2, <1>5, ConcatSoundAllHold DEF Sound

----------------------------------------------------------------------------
(* What a level's world and sky are, uploaded.                             *)

(* The batches of a world that was digested are uploaded, all of them, and *)
(* drawn in the order of its digest.                                       *)
LEMMA WorldIsDrawnAsDigested ==
  ASSUME NEW level, IsLevel(level), IsWorld(level), IsDigestedWorld(level)
  PROVE  LET world == World(level)
             textures == BatchTextures(level)
             terrain == UploadedBatches(world.terrain, textures)
             static == UploadedBatches(world.static, textures)
         IN /\ DrawOrder(terrain) = DigestOrder(world.terrain, textures)
            /\ DrawOrder(static) = DigestOrder(world.static, textures)
            /\ Len(terrain \o static) = Len(world.terrain \o world.static)
<1> DEFINE textures == BatchTextures(level)
           terrain == World(level).terrain
           static == World(level).static
           ready(b) == /\ b.vertices # 0 /\ b.material # kNoMaterial
                       /\ HasAlpha(b, textures) \in BOOLEAN
<1>1. ASSUME NEW b, IsDigested(b, textures), b.kind \in {"terrain", "tie", "shrub"} PROVE ready(b)
  <2>1. PICK kind \in {"tfrag", "tie", "shrub", "moby"} : textures[b.kind] = level.textures[kind].entries
    <3>1. CASE b.kind = "terrain"
      <4>1. textures[b.kind] = level.textures["tfrag"].entries
        BY <3>1 DEF BatchTextures
      <4> QED BY <4>1
    <3>2. CASE b.kind \in {"tie", "shrub"}
      <4>1. textures[b.kind] = level.textures[b.kind].entries
        BY <3>2 DEF BatchTextures
      <4> QED BY <4>1, <3>2
    <3> QED BY <1>1, <3>1, <3>2
  <2>2. IsTextureTable(level.textures[kind])
    BY LevelFacts
  <2> DEFINE entries == level.textures[kind].entries
             m == b.material
  <2>3. IsSequence(entries) /\ \A e \in Range(entries) : e.alpha \in BOOLEAN
    BY <2>2 DEF IsTextureTable
  <2> HIDE DEF textures
  <2>4. b.vertices # 0 /\ m \in 0 .. Len(entries) - 1
    BY <1>1, <2>1 DEF IsDigested
  <2>5. HasAlpha(b, textures) = entries[m + 1].alpha
    BY <2>1 DEF HasAlpha
  <2> HIDE DEF entries, m
  <2>6. Len(entries) \in Nat /\ DOMAIN entries = 1 .. Len(entries)
        /\ \A i \in DOMAIN entries : entries[i] \in Range(entries)
    BY <2>3, SequenceFacts
  <2>7. m + 1 \in DOMAIN entries /\ m # -1
    BY <2>4, <2>6
  <2> QED BY <2>3, <2>4, <2>5, <2>6, <2>7 DEF m, kNoMaterial
<1>2. /\ IsSteps(terrain) /\ \A i \in DOMAIN terrain : terrain[i].kind = "terrain"
      /\ IsSteps(static) /\ \A i \in DOMAIN static : static[i].kind \in {"tie", "shrub"}
  BY DEF IsWorld
<1>3. /\ \A i \in DOMAIN terrain : IsDigested(terrain[i], textures)
      /\ \A i \in DOMAIN static : IsDigested(static[i], textures)
  BY DEF IsDigestedWorld
<1> HIDE DEF terrain, static, textures
<1>4. /\ \A i \in DOMAIN terrain : ready(terrain[i])
      /\ \A i \in DOMAIN static : ready(static[i])
  <2>1. \A i \in DOMAIN terrain : IsDigested(terrain[i], textures) /\ terrain[i].kind \in {"terrain", "tie", "shrub"}
    BY <1>2, <1>3
  <2>2. \A i \in DOMAIN static : IsDigested(static[i], textures) /\ static[i].kind \in {"terrain", "tie", "shrub"}
    BY <1>2, <1>3
  <2> HIDE DEF ready
  <2> QED BY <1>1, <2>1, <2>2
<1> DEFINE a == UploadedBatches(terrain, textures)
           b == UploadedBatches(static, textures)
<1>5. /\ DrawOrder(a) = DigestOrder(terrain, textures) /\ IsSteps(a) /\ Len(a) = Len(terrain)
  BY <1>2, <1>4, DrawnAsDigested
<1>6. /\ DrawOrder(b) = DigestOrder(static, textures) /\ IsSteps(b) /\ Len(b) = Len(static)
  BY <1>2, <1>4, DrawnAsDigested
<1> HIDE DEF a, b
<1>7. Len(a \o b) = Len(a) + Len(b) /\ Len(terrain \o static) = Len(terrain) + Len(static)
  BY <1>2, <1>5, <1>6, ConcatSteps
<1>8. Len(a \o b) = Len(terrain \o static)
  BY <1>5, <1>6, <1>7
<1> QED BY <1>5, <1>6, <1>8 DEF a, b, terrain, static, textures

(* A sky's batches are a list, each of a shell with a number.              *)
LEMMA SkyBatchesList ==
  ASSUME NEW w, IsWad(w)
  PROVE  /\ IsSteps(SkyBatches(w))
         /\ \A i \in DOMAIN SkyBatches(w) : SkyBatches(w)[i].shell \in Int
         /\ Len(SkyIdentities(w)) = w.shellCount
<1> DEFINE shells == w.shells
           clusters(s) == shells[s].clusters
           material(s, c, f) == IF Textured(shells[s]) THEN clusters(s)[c].faces[f][4] ELSE kNoMaterial
           face(s, c, f) == [shell |-> s - 1, material |-> material(s, c, f)]
           faces(s, c) == [f \in DOMAIN clusters(s)[c].faces |-> face(s, c, f)]
           perCluster(s) == [c \in DOMAIN clusters(s) |-> faces(s, c)]
           ofShell(s) == FlattenSeq(perCluster(s))
           perShell == [s \in DOMAIN shells |-> ofShell(s)]
           all == FlattenSeq(perShell)
<1>1. SkyFaces(w) = all
  BY DEF SkyFaces
<1>2. IsSequence(shells) /\ w.shellCount = Len(shells)
      /\ \A s \in Range(shells) : IsSequence(s.clusters) /\ \A c \in Range(s.clusters) : IsCluster(c)
  BY DEF IsWad
<1>3. /\ IsSteps(shells) /\ Len(shells) \in Nat /\ DOMAIN shells = 1 .. Len(shells)
      /\ \A s \in DOMAIN shells : IsSequence(clusters(s)) /\ \A c \in Range(clusters(s)) : IsCluster(c)
  BY <1>2, SequenceFacts DEF IsSteps
<1> HIDE DEF shells, material
<1>4. ASSUME NEW s \in DOMAIN shells, NEW c \in DOMAIN clusters(s)
      PROVE  IsSteps(faces(s, c)) /\ \A f \in DOMAIN faces(s, c) : faces(s, c)[f].shell \in Int
  <2> DEFINE cluster == clusters(s)[c]
             list == cluster.faces
  <2>1. IsCluster(cluster)
    BY <1>3, SequenceFacts
  <2>2. list \in Seq(Nat \X Nat \X Nat \X Nat)
    BY <2>1 DEF IsCluster
  <2>3. IsSteps(list)
    BY <2>2, LenProperties DEF IsSteps
  <2> HIDE DEF cluster
  <2>4. s - 1 \in Int
    BY <1>3
  <2> DEFINE drawn == faces(s, c)
  <2>5. drawn = [f \in DOMAIN list |-> drawn[f]] /\ DOMAIN drawn = DOMAIN list
        /\ \A f \in DOMAIN list : drawn[f].shell = s - 1
    BY DEF cluster
  <2> HIDE DEF drawn, list
  <2>6. IsSteps(drawn)
    BY <2>3, <2>5, ListOver
  <2>7. \A f \in DOMAIN drawn : drawn[f].shell \in Int
    BY <2>4, <2>5
  <2> QED BY <2>6, <2>7 DEF drawn
<1> HIDE DEF face, faces
<1>5. ASSUME NEW s \in DOMAIN shells
      PROVE  IsSteps(ofShell(s)) /\ \A k \in DOMAIN ofShell(s) : ofShell(s)[k].shell \in Int
  <2> DEFINE list == clusters(s)
             lists == perCluster(s)
             flat == ofShell(s)
  <2>1. IsSteps(list)
    BY <1>3, SequenceFacts DEF IsSteps
  <2>2. lists = [c \in DOMAIN list |-> lists[c]] /\ \A c \in DOMAIN list : lists[c] = faces(s, c)
    OBVIOUS
  <2>3. \A c \in DOMAIN list : IsSteps(lists[c]) /\ \A f \in DOMAIN lists[c] : lists[c][f].shell \in Int
    BY <1>4, <2>2
  <2>4. flat = FlattenSeq(lists)
    OBVIOUS
  <2> HIDE DEF list, lists, flat
  <2>5. IsSteps(flat) /\ \A k \in DOMAIN flat :
          \E i \in DOMAIN list : \E j \in DOMAIN lists[i] : flat[k] = lists[i][j]
    BY <2>1, <2>2, <2>3, <2>4, FlattenOver
  <2>6. \A k \in DOMAIN flat : flat[k].shell \in Int
    BY <2>3, <2>5
  <2> QED BY <2>5, <2>6 DEF flat
<1> HIDE DEF ofShell
<1>6. IsSteps(all) /\ \A k \in DOMAIN all : all[k].shell \in Int
  <2>1. perShell = [s \in DOMAIN shells |-> perShell[s]] /\ \A s \in DOMAIN shells : perShell[s] = ofShell(s)
    OBVIOUS
  <2> DEFINE lists == perShell
  <2> HIDE DEF perShell
  <2>2. IsSteps(all) /\ \A k \in DOMAIN all :
          \E i \in DOMAIN shells : \E j \in DOMAIN lists[i] : all[k] = lists[i][j]
    <3>1. lists = [s \in DOMAIN shells |-> lists[s]] /\ \A s \in DOMAIN shells : IsSteps(lists[s])
      BY <1>5, <2>1 DEF lists
    <3>2. all = FlattenSeq(lists)
      BY DEF lists
    <3> HIDE DEF all, lists
    <3> QED BY <1>3, <3>1, <3>2, FlattenOver
  <2> HIDE DEF all
  <2> QED BY <1>5, <2>1, <2>2 DEF lists
<1> HIDE DEF all
<1> DEFINE order == FirstOfEach(all)
           batch(i) == [kind |-> "sky", shell |-> order[i].shell, material |-> order[i].material, finite |-> TRUE,
                        vertices |-> 3 * Cardinality({n \in DOMAIN all : all[n] = order[i]})]
           batches == [i \in DOMAIN order |-> batch(i)]
<1>7. SkyBatches(w) = batches
  BY <1>1 DEF SkyBatches, BatchPerFace
<1>8. IsSteps(order) /\ \A k \in DOMAIN order : \E i \in DOMAIN all : order[k] = all[i]
  BY <1>6, FirstOfEachFacts
<1>9. \A i \in DOMAIN order : order[i].shell \in Int /\ batch(i).shell = order[i].shell
  BY <1>6, <1>8
<1> HIDE DEF order, batch
<1>10. batches = [i \in DOMAIN order |-> batches[i]] /\ DOMAIN batches = DOMAIN order
       /\ \A i \in DOMAIN order : batches[i] = batch(i)
  OBVIOUS
<1> HIDE DEF batches
<1>11. IsSteps(batches) /\ \A i \in DOMAIN batches : batches[i].shell \in Int
  BY <1>8, <1>9, <1>10, ListOver
<1>12. Len(SkyIdentities(w)) = w.shellCount
  <2> DEFINE identities == SkyIdentities(w)
  <2>1. identities = [i \in 1 .. Len(shells) |-> identities[i]]
    BY <1>3 DEF SkyIdentities, shells
  <2> HIDE DEF identities
  <2>2. Len(identities) = Len(shells)
    BY <1>3, <2>1, LenOfFunction
  <2> QED BY <1>2, <2>2 DEF identities, shells
<1> QED BY <1>7, <1>11, <1>12

(* What is uploaded of a list of batches is of one of them.                *)
LEMMA UploadedOf ==
  ASSUME NEW batches, IsSteps(batches), NEW textures
  PROVE  /\ IsSteps(UploadedBatches(batches, textures))
         /\ \A b \in Range(UploadedBatches(batches, textures)) : \E i \in DOMAIN batches : b.shell = batches[i].shell
<1> DEFINE places == {i \in DOMAIN batches : batches[i].vertices # 0}
           kept == Select(batches, places)
           transparent(b) == b.material # kNoMaterial /\ HasAlpha(b, textures)
           sent(b) == [kind |-> b.kind, shell |-> b.shell, material |-> b.material,
                       transparent |-> transparent(b)]
           up == [i \in DOMAIN kept |-> sent(kept[i])]
<1>1. UploadedBatches(batches, textures) = up
  BY DEF UploadedBatches
<1>2. IsSteps(kept) /\ \A k \in DOMAIN kept : \E i \in DOMAIN batches : kept[k] = batches[i]
  <2> HIDE DEF places
  <2> QED BY SelectList
<1> HIDE DEF kept, transparent
<1>3. up = [i \in DOMAIN kept |-> up[i]] /\ DOMAIN up = DOMAIN kept
      /\ \A i \in DOMAIN kept : up[i].shell = kept[i].shell
  OBVIOUS
<1> HIDE DEF up
<1>4. IsSteps(up)
  BY <1>2, <1>3, ListOver
<1>5. \A b \in Range(up) : \E i \in DOMAIN batches : b.shell = batches[i].shell
  BY <1>2, <1>3 DEF Range
<1> QED BY <1>1, <1>4, <1>5

----------------------------------------------------------------------------
(* Every class of the table is counted once.                               *)
LEMMA AccountingStepsSound ==
  ASSUME NEW level, IsLevel(level), NEW scene
  PROVE  /\ Sound(AccountingSteps(level, scene))
         /\ AllHold(AccountingSteps(level, scene)) => Rendered(scene) \subseteq Catalog(level.mobys.table)
<1> DEFINE catalog == CatalogSteps(CoreIndex(level), level.mobys.table)
           a == Within("MobyClassCatalogFailed", catalog)
           once == Rendered(scene) \cap Skipped(scene) \cap Catalog(level.mobys.table) = {}
           known == Rendered(scene) \union Skipped(scene) \subseteq Catalog(level.mobys.table)
           adds == once /\ known
           b == <<Require("MobyClassAccountingInvalid", adds, {})>>
<1>1. AccountingSteps(level, scene) = a \o b
  BY DEF AccountingSteps
<1>2. Sound(catalog)
  BY LevelFacts, MobySceneFacts, CatalogStepsSound
<1>3. known => Rendered(scene) \subseteq Catalog(level.mobys.table)
  OBVIOUS
<1>4. Sound(b) /\ (AllHold(b) => adds)
  <2> HIDE DEF adds
  <2> QED BY StepSound DEF Verdicts
<1> HIDE DEF catalog, b, known
<1>5. Sound(a)
  BY <1>2, WithinSound DEF Verdicts
<1> HIDE DEF a
<1>6. Sound(a \o b) /\ (AllHold(a \o b) => AllHold(b))
  BY <1>4, <1>5, ConcatSoundAllHold DEF Sound
<1> QED BY <1>1, <1>3, <1>4, <1>6

(* Ratchet's class is skinned from here on.                                *)
LEMMA RigAndBankStepsSound ==
  ASSUME NEW level, IsLevel(level)
  PROVE  /\ Sound(RigAndBankSteps(level))
         /\ AllHold(RigAndBankSteps(level)) => IsSkinned(RatchetClass(level))
<1> DEFINE instances == Instances(level.mobys.block)
           referenced == {i.oClass : i \in Range(instances)}
           class == RatchetClass(level)
           bank == level.mobys.bank
           animation == AnimationSteps(Core(level), CoreIndex(level), Gameplay(level), level.mobys)
           a == Within("MobyAnimationMetadataFailed", animation)
           named == 0 \in referenced
           b == <<Require("RatchetTopologyInvalid", named, {})>>
           base == Then(a, b)
           banked == BankSteps(Core(level), CoreIndex(level), class, bank)
           c == Within("RatchetAnimationBankFailed", banked)
           animated == HasMesh(class) /\ bank.at # 0
           d == <<Require("RatchetTopologyInvalid", animated, {})>>
           more == Then(c, d)
<1>1. RigAndBankSteps(level) = Then(base, more)
  BY DEF RigAndBankSteps
<1>2. IsMobyScene(level.mobys)
  BY LevelFacts
<1>3. Sound(animation) /\ (AllHold(animation) =>
        \A i \in Range(instances) : IsSkinned(AnimationClass(ClassOf(level.mobys.table, i.oClass))))
  BY <1>2, LevelFacts, AnimationStepsSound
<1>4. AllHold(animation) /\ named => IsSkinned(class)
  <2> SUFFICES ASSUME AllHold(animation), named PROVE IsSkinned(class)
    OBVIOUS
  <2> HIDE DEF animation, class
  <2>1. PICK i \in Range(instances) : i.oClass = 0
    OBVIOUS
  <2> HIDE DEF instances
  <2>2. IsSkinned(AnimationClass(ClassOf(level.mobys.table, 0)))
    BY <1>3, <2>1
  <2> QED BY <2>2 DEF RatchetClass, class
<1>5. IsSkinned(class) => Sound(banked)
  <2>1. /\ bank.at \in Nat /\ bank.pointers \in Seq(Nat)
        /\ \A offset \in DOMAIN bank.layouts : IsLayout(bank.layouts[offset])
    BY <1>2 DEF IsMobyScene
  <2> HIDE DEF bank, class
  <2> QED BY <2>1, LevelFacts, BankStepsSound
<1> HIDE DEF animation, banked, named, animated
<1>6. Sound(b) /\ (AllHold(b) <=> named) /\ Sound(d)
  BY StepSound DEF Verdicts
<1> HIDE DEF b, d, class
<1>7. Sound(a) /\ (AllHold(a) => AllHold(animation))
  BY <1>3, WithinSound DEF Verdicts
<1>8. IsSkinned(class) => Sound(c)
  BY <1>5, WithinSound DEF Verdicts
<1> HIDE DEF a, c
<1>9. Sound(base) /\ (AllHold(base) => AllHold(a) /\ AllHold(b))
  BY <1>6, <1>7, ThenSound
<1>10. IsSkinned(class) => Sound(more)
  BY <1>6, <1>8, ThenSound
<1> HIDE DEF base, more
<1>11. AllHold(base) => IsSkinned(class)
  BY <1>4, <1>6, <1>7, <1>9
<1>12. Sound(Then(base, more)) /\ (AllHold(Then(base, more)) => AllHold(base))
  BY <1>9, <1>10, <1>11, ThenSound
<1> QED BY <1>1, <1>11, <1>12 DEF class

\* Batches with a texture each, and corners among the vertices that are skinned.
IsTopology(topology, textures, skinVertices) ==
  /\ IsSteps(topology) /\ topology # <<>>
  /\ \A i \in DOMAIN topology :
       /\ topology[i].material \in 0 .. textures - 1
       /\ BatchIsSkinned(SkinIndexes(topology[i]), skinVertices)

(* A batch's corners are vertices of a class, which are natural numbers.   *)
LEMMA CornersAreNaturals ==
  ASSUME NEW batches, NEW meshes, NEW count, AreBatches(batches, meshes, count), NEW i \in DOMAIN batches
  PROVE  \A v \in Range(SkinIndexes(batches[i])) : v \in Nat
<1> DEFINE list == batches[i].triangles
           lists == [t \in DOMAIN list |-> list[t].corners]
           all == FlattenSeq(lists)
<1>1. IsSteps(list) /\ \A t \in DOMAIN list : IsSceneTriangle(list[t], meshes, count)
  BY DEF AreBatches
<1>2. SkinIndexes(batches[i]) = all
  BY DEF SkinIndexes
<1> HIDE DEF list
<1>3. lists = [t \in DOMAIN list |-> lists[t]] /\ \A t \in DOMAIN list : lists[t] = list[t].corners
  OBVIOUS
<1> HIDE DEF lists
<1>4. ASSUME NEW t \in DOMAIN list PROVE IsSteps(lists[t]) /\ \A k \in DOMAIN lists[t] : lists[t][k] \in Nat
  <2> DEFINE n == MeshNamed(meshes, list[t].oClass).next
  <2>1. n \in Nat /\ lists[t] \in Seq(Skins(n))
    BY <1>1, <1>3 DEF IsSceneTriangle
  <2> HIDE DEF n
  <2>2. \A k \in DOMAIN lists[t] : lists[t][k] \in Skins(n)
    BY <2>1, ElementsOfSeq
  <2> QED BY <2>1, <2>2, LenProperties DEF IsSteps, Skins
<1>5. IsSteps(all) /\ \A k \in DOMAIN all : \E t \in DOMAIN list : \E j \in DOMAIN lists[t] : all[k] = lists[t][j]
  BY <1>1, <1>3, <1>4, FlattenOver
<1> HIDE DEF all
<1> QED BY <1>2, <1>4, <1>5 DEF Range

(* There is one Ratchet, and his triangles use vertices he has.            *)
LEMMA TopologyStepsSound ==
  ASSUME NEW level, NEW scene
  PROVE  LET topology == RatchetTopology(scene)
             skinVertices == TheRatchet(scene).skinVertices
         IN /\ Sound(TopologySteps(level, scene))
            /\ AllHold(TopologySteps(level, scene)) =>
                 /\ skinVertices = SkinVertices(RatchetClass(level)) /\ topology # <<>>
                 /\ \A i \in DOMAIN topology : \A v \in Range(SkinIndexes(topology[i])) : v < skinVertices
<1> DEFINE invalid == "RatchetTopologyInvalid"
           topology == RatchetTopology(scene)
           skinVertices == TheRatchet(scene).skinVertices
           corners == UNION {Range(SkinIndexes(b)) : b \in Range(topology)}
           one == Len(Ratchets(scene)) = 1
           equal == skinVertices = SkinVertices(RatchetClass(level))
           inside == \A v \in corners : v < skinVertices
           some == topology # <<>>
           each == \A i \in DOMAIN topology : \A v \in Range(SkinIndexes(topology[i])) : v < skinVertices
           a == <<Require(invalid, one, {})>>
           b == <<Require(invalid, equal, {}), Require(invalid, inside, {}), Require(invalid, some, {})>>
<1>1. TopologySteps(level, scene) = Then(a, b)
  BY DEF TopologySteps
<1>2. inside => each
  <2> SUFFICES ASSUME inside, NEW i \in DOMAIN topology, NEW v \in Range(SkinIndexes(topology[i]))
               PROVE  v < skinVertices
    OBVIOUS
  <2>1. topology[i] \in Range(topology)
    BY DEF Range
  <2>2. v \in corners
    BY <2>1
  <2> HIDE DEF corners, skinVertices
  <2> QED BY <2>2
<1> HIDE DEF one, equal, inside, some, each
<1>3. Sound(a) /\ Sound(b) /\ (AllHold(b) => equal /\ inside /\ some)
  <2>1. Sound(a)
    BY StepSound DEF Verdicts
  <2>2. Sound(b)
    BY DEF Require, Sound, IsSteps, FailuresNamed, Verdicts, Guarded
  <2>3. AllHold(b) => equal /\ inside /\ some
    BY DEF AllHold, Require
  <2> QED BY <2>1, <2>2, <2>3
<1> HIDE DEF a, b
<1>4. Sound(Then(a, b)) /\ (AllHold(Then(a, b)) => AllHold(b))
  BY <1>3, ThenSound
<1> QED BY <1>1, <1>2, <1>3, <1>4 DEF equal, some, each

\* What an accepted level gives the renderer to skin and to account for.
HasRatchet(level, scene) ==
  /\ IsSkinned(RatchetClass(level))
  /\ TheRatchet(scene).skinVertices = SkinVertices(RatchetClass(level))
  /\ IsTopology(RatchetTopology(scene), TextureCount(level, "moby"), TheRatchet(scene).skinVertices)
  /\ Rendered(scene) \subseteq Catalog(level.mobys.table)

(* Mobys: what is accepted has a Ratchet to skin and a topology of his.    *)
LEMMA MobyStepsSound ==
  ASSUME NEW level, IsLevel(level), NEW meshes, meshes = Meshes(level),
         NEW scene, scene = MobyScene(level.mobys, meshes)
  PROVE  /\ Sound(MobySteps(level, meshes, scene))
         /\ AllHold(MobySteps(level, meshes, scene)) => HasRatchet(level, scene)
<1> DEFINE count == TextureCount(level, "moby")
           topology == RatchetTopology(scene)
           skinVertices == TheRatchet(scene).skinVertices
           decoded == MobySceneSteps(CoreIndex(level), Gameplay(level), level.mobys, meshes)
           a == SceneSteps(level, meshes)
           b == AccountingSteps(level, scene)
           c == RigAndBankSteps(level)
           d == TopologySteps(level, scene)
           skinned == IsSkinned(RatchetClass(level))
           known == Rendered(scene) \subseteq Catalog(level.mobys.table)
           listed == AreBatches(topology, meshes, count)
           counted == skinVertices = SkinVertices(RatchetClass(level)) /\ topology # <<>>
           inside == \A i \in DOMAIN topology : \A v \in Range(SkinIndexes(topology[i])) : v < skinVertices
<1>0. count \in Nat /\ meshes = MobyMeshes(Core(level), level.mobys, count)
  BY LevelFacts DEF Meshes
<1> HIDE DEF count
<1>1. Sound(decoded) /\ (AllHold(decoded) => AreMeshes(meshes, level.mobys.block, count))
  BY <1>0, LevelFacts, MobySceneStepsSound
<1>2. AreMeshes(meshes, level.mobys.block, count) => listed
  <2> SUFFICES ASSUME AreMeshes(meshes, level.mobys.block, count) PROVE listed
    OBVIOUS
  <2>1. IsBlock(level.mobys.block)
    BY LevelFacts, MobySceneFacts
  <2>2. AreBatches(scene.batches, meshes, count)
    BY <2>1, <1>0, SceneBatchesList
  <2> QED BY <2>2, TopologyList
<1>3. Sound(a) /\ (AllHold(a) => AllHold(decoded))
  <2>1. a = Within("MobySceneDecodeFailed", decoded)
    BY DEF SceneSteps
  <2> HIDE DEF a, decoded
  <2> QED BY <1>1, <2>1, WithinSound DEF Verdicts
<1>4. Sound(b) /\ (AllHold(b) => known) /\ Sound(d) /\ (AllHold(d) => counted /\ inside)
  BY AccountingStepsSound, TopologyStepsSound
<1>5. Sound(c) /\ (AllHold(c) => skinned)
  BY RigAndBankStepsSound
<1>6. skinned /\ known /\ listed /\ counted /\ inside => HasRatchet(level, scene)
  <2> SUFFICES ASSUME skinned, known, listed, counted, inside PROVE HasRatchet(level, scene)
    OBVIOUS
  <2>1. IsSteps(topology) /\ \A i \in DOMAIN topology : topology[i].material \in 0 .. count - 1
    BY DEF AreBatches
  <2>2. SkinVertices(RatchetClass(level)) \in Int
    BY SkinVerticesTyped
  <2>3. ASSUME NEW i \in DOMAIN topology PROVE BatchIsSkinned(SkinIndexes(topology[i]), skinVertices)
    <3>1. \A v \in Range(SkinIndexes(topology[i])) : v \in Nat /\ v < skinVertices
      <4>1. listed /\ inside
        OBVIOUS
      <4> HIDE DEF topology, skinVertices
      <4> QED BY <4>1, CornersAreNaturals
    <3>2. skinVertices \in Int
      BY <2>2
    <3> HIDE DEF skinVertices, topology
    <3> QED BY <3>1, <3>2 DEF BatchIsSkinned
  <2>4. IsTopology(topology, count, skinVertices)
    <3>1. topology # <<>>
      OBVIOUS
    <3> HIDE DEF topology, skinVertices
    <3> QED BY <2>1, <2>3, <3>1 DEF IsTopology
  <2> QED BY <2>4 DEF HasRatchet, count
<1>7. MobySteps(level, meshes, scene) = Then(a, Then(b, Then(c, d)))
  BY DEF MobySteps
<1> HIDE DEF decoded, a, b, c, d, skinned, known, listed, counted, inside
<1> DEFINE x == Then(c, d)
<1>8. Sound(x) /\ (AllHold(x) => AllHold(c) /\ AllHold(d))
  BY <1>4, <1>5, ThenSound
<1> HIDE DEF x
<1> DEFINE y == Then(b, x)
<1>9. Sound(y) /\ (AllHold(y) => AllHold(b) /\ AllHold(x))
  BY <1>4, <1>8, ThenSound
<1> HIDE DEF y
<1>10. Sound(Then(a, y)) /\ (AllHold(Then(a, y)) => AllHold(a) /\ AllHold(y))
  BY <1>3, <1>9, ThenSound
<1>11. AllHold(Then(a, y)) => HasRatchet(level, scene)
  BY <1>1, <1>2, <1>3, <1>4, <1>5, <1>6, <1>8, <1>9, <1>10
<1> QED BY <1>7, <1>10, <1>11 DEF x, y

(* A whole level: every check in order, and what an accepted one gives the *)
(* renderer to skin.                                                       *)
LEMMA LevelStepsSound ==
  ASSUME NEW level, IsLevel(level), NEW meshes, meshes = Meshes(level),
         NEW scene, scene = MobyScene(level.mobys, meshes)
  PROVE  /\ Sound(LevelSteps(level, meshes, scene))
         /\ AllHold(LevelSteps(level, meshes, scene)) =>
              IsWorld(level) /\ IsDigestedWorld(level) /\ HasRatchet(level, scene)
<1> DEFINE present == level.present
           opened == <<Require("LevelFileMissing", present, {})>>
           core == LevelCoreSteps(level.file)
           loaded == Within("LevelLoadFailed", core)
           a == opened \o loaded
           b == AllTextureSteps(level)
           c == WorldSteps(level)
           d == ParityCheck(World(level), BatchTextures(level))
           e == RuntimeSkySteps(level)
           f == MobySteps(level, meshes, scene)
           world == IsWorld(level)
           digested == IsDigestedWorld(level)
           ready == HasRatchet(level, scene)
<1>1. LevelSteps(level, meshes, scene) = Then(a, Then(b, Then(c, Then(d, Then(e, f)))))
  BY DEF LevelSteps
<1>2. Sound(a)
  <2>1. Sound(opened)
    <3> HIDE DEF present
    <3> QED BY StepSound DEF Verdicts
  <2>2. Sound(core)
    BY LevelFacts, LevelCoreStepsSound
  <2> HIDE DEF opened, core
  <2>3. Sound(loaded)
    BY <2>2, WithinSound DEF Verdicts
  <2> HIDE DEF loaded
  <2> QED BY <2>1, <2>3, ConcatSoundAllHold DEF Sound
<1>3. Sound(b)
  BY AllTextureStepsSound
<1>4. Sound(c) /\ (AllHold(c) => world /\ Sound(d) /\ (AllHold(d) => digested))
  BY WorldStepsSound, ParityCheckSound
<1>5. Sound(e)
  BY RuntimeSkyStepsSound
<1>6. Sound(f) /\ (AllHold(f) => ready)
  BY MobyStepsSound
<1> HIDE DEF a, b, c, d, e, f, world, digested, ready
<1> DEFINE v == Then(e, f)
<1>7. Sound(v) /\ (AllHold(v) => AllHold(f))
  BY <1>5, <1>6, ThenSound
<1> HIDE DEF v
<1> DEFINE w == Then(d, v)
<1>8. AllHold(c) => Sound(w) /\ (AllHold(w) => AllHold(d) /\ AllHold(v))
  BY <1>4, <1>7, ThenSound
<1> HIDE DEF w
<1> DEFINE x == Then(c, w)
<1>9. Sound(x) /\ (AllHold(x) => AllHold(c) /\ AllHold(w))
  BY <1>4, <1>8, ThenSound
<1> HIDE DEF x
<1> DEFINE y == Then(b, x)
<1>10. Sound(y) /\ (AllHold(y) => AllHold(x))
  BY <1>3, <1>9, ThenSound
<1> HIDE DEF y
<1>11. Sound(Then(a, y)) /\ (AllHold(Then(a, y)) => AllHold(y))
  BY <1>2, <1>10, ThenSound
<1> QED BY <1>1, <1>4, <1>6, <1>7, <1>8, <1>9, <1>10, <1>11 DEF v, w, x, y, world, digested, ready

----------------------------------------------------------------------------
(* The renderer's state and what a load and a pose leave of it.            *)

\* The indexes of the batches the first pose uploads.
Indexes(topology) == [i \in DOMAIN topology |-> SkinIndexes(topology[i])]

\* One that is ready has a class to skin, and lists of batches to draw it with.
IsReady(r) ==
  /\ DOMAIN r = DOMAIN Unloaded
  /\ IsSkinned(r.ratchet.class) /\ r.ratchet.skinVertices = SkinVertices(r.ratchet.class)
  /\ IsTopology(r.topology, r.gpu.textures["moby"], r.ratchet.skinVertices)
  /\ r.gpu.textures["moby"] \in Int
  /\ r.live = <<>> \/ r.live = Indexes(r.topology)
  /\ r.liveReady => r.live # <<>>

\* All of a world is on the GPU, and Ratchet is accounted for.
IsWhole(r, world) ==
  /\ r.digest = DrawOrder(r.gpu.terrain) \o DrawOrder(r.gpu.static)
  /\ Len(r.gpu.terrain \o r.gpu.static) = Len(world.terrain \o world.static)
  /\ \A b \in Range(r.gpu.sky) : b.shell < Len(r.shells)
  /\ <<0, "RenderableTopology">> \in r.classes

\* Nothing is.
IsEmpty(r) == r.gpu = EmptyGpu /\ r.liveReady = FALSE

\* Only the GPU refuses the skin of a pose.
IsSkinStatus(status, refused, liveReady) ==
  /\ status # "SkinVertexCountMismatch"
  /\ status = "GpuUploadFailed" => refused /\ ~liveReady

LoadInv ==
  /\ request # NoRequest => \A read \in request[3] : InRange(read)
  /\ skin # NoSkin => \A read \in skin[3] : InRange(read)
  /\ renderer.status = "Ok" => IsReady(renderer) /\ IsWhole(renderer, World(request[1]))
  /\ renderer.status # "Ok" => IsEmpty(renderer)
  /\ skin # NoSkin => IsSkinStatus(skin[1], skin[2], renderer.liveReady)

(* Before the first load nothing was read and nothing is ready.            *)
LEMMA LoadInitially == LoadInit => LoadInv
<1> SUFFICES ASSUME LoadInit PROVE LoadInv
  OBVIOUS
<1>1. request = NoRequest /\ skin = NoSkin /\ renderer = Unloaded
  BY DEF LoadInit
<1>2. Unloaded.status # "Ok" /\ IsEmpty(Unloaded)
  BY DEF Unloaded, IsEmpty
<1> QED BY <1>1, <1>2 DEF LoadInv

(* A level that everything accepted is uploaded whole.                     *)
LEMMA LoadedReady ==
  ASSUME NEW level, IsLevel(level), IsWorld(level), IsDigestedWorld(level),
         NEW scene, HasRatchet(level, scene), NEW refused,
         UploadStatus(level, refused, World(level), BatchTextures(level)) = "Ok",
         SummaryStatus(level, World(level), scene) = "Ok"
  PROVE  LET r == Loaded(level, World(level), scene, BatchTextures(level)) IN
         IsReady(r) /\ IsWhole(r, World(level))
<1> DEFINE world == World(level)
           textures == BatchTextures(level)
           r == Loaded(level, world, scene, textures)
           terrain == UploadedBatches(world.terrain, textures)
           static == UploadedBatches(world.static, textures)
           sky == UploadedBatches(world.sky, textures)
           classes == {<<c, ClassKind(scene, c)>> : c \in Catalog(level.mobys.table)}
           digest == DigestOrder(world.terrain, textures) \o DigestOrder(world.static, textures)
           class == RatchetClass(level)
           skinVertices == TheRatchet(scene).skinVertices
           topology == RatchetTopology(scene)
           moby == TextureCount(level, "moby")
<1>1. /\ r.gpu.terrain = terrain /\ r.gpu.static = static /\ r.gpu.sky = sky /\ r.gpu.textures["moby"] = moby
      /\ r.digest = digest /\ r.topology = topology /\ r.live = <<>> /\ r.liveReady = FALSE
      /\ r.ratchet.class = class /\ r.ratchet.skinVertices = skinVertices
      /\ r.classes = classes /\ r.shells = world.shells
  <2> HIDE DEF terrain, static, sky, classes, digest, class, skinVertices, topology, moby
  <2> QED BY DEF Loaded, terrain, static, sky, classes, digest, class, skinVertices, topology, moby
<1>2. DOMAIN r = DOMAIN Unloaded
  BY DEF Loaded, Unloaded
<1>3. moby \in Int
  BY LevelFacts
<1>4. IsReady(r)
  <2>1. IsSkinned(class) /\ skinVertices = SkinVertices(class) /\ IsTopology(topology, moby, skinVertices)
    BY DEF HasRatchet
  <2> HIDE DEF r, class, skinVertices, topology, moby, terrain, static, sky, classes, digest, world
  <2> QED BY <1>1, <1>2, <1>3, <2>1 DEF IsReady
<1>5. digest = DrawOrder(terrain) \o DrawOrder(static)
      /\ Len(terrain \o static) = Len(world.terrain \o world.static)
  BY WorldIsDrawnAsDigested
<1>6. \A b \in Range(sky) : b.shell < Len(world.shells)
  <2> DEFINE theSky == level.wad
             batches == SkyBatches(theSky)
             count == theSky.shellCount
  <2>1. IsWad(theSky)
    BY LevelFacts
  <2>2. /\ IsSteps(batches) /\ \A i \in DOMAIN batches : batches[i].shell \in Int
        /\ Len(SkyIdentities(theSky)) = count
    BY <2>1, SkyBatchesList
  <2>3. world.sky = batches /\ world.shells = SkyIdentities(theSky)
    BY DEF World
  <2>4. \A b \in Range(world.sky) : ~(b.shell >= count)
    <3> DEFINE over == \E b \in Range(world.sky) : b.shell >= level.wad.shellCount
    <3>1. ~over
      <4> HIDE DEF over, world, textures
      <4> QED BY DEF UploadStatus, over, world, textures
    <3> QED BY <3>1
  <2>5. \A b \in Range(sky) : \E i \in DOMAIN batches : b.shell = batches[i].shell
    <3> DEFINE list == world.sky
    <3>1. list = batches
      BY <2>3
    <3> HIDE DEF list, batches, textures
    <3> QED BY <2>2, <3>1, UploadedOf DEF list
  <2>6. count \in Int
    <3>1. IsSequence(theSky.shells) /\ count = Len(theSky.shells)
      BY <2>1 DEF IsWad
    <3> QED BY <3>1, SequenceFacts
  <2> HIDE DEF sky, batches, world, theSky, count
  <2>7. ASSUME NEW b \in Range(sky) PROVE b.shell < count
    <3>1. PICK i \in DOMAIN batches : b.shell = batches[i].shell
      BY <2>5
    <3>2. batches[i].shell \in Int /\ ~(batches[i].shell >= count)
      BY <2>2, <2>3, <2>4 DEF Range
    <3> DEFINE n == batches[i].shell
    <3> HIDE DEF n
    <3>3. n \in Int /\ ~(n >= count) => n < count
      BY <2>6
    <3> QED BY <3>1, <3>2, <3>3 DEF n
  <2> QED BY <2>2, <2>3, <2>7
<1>7. <<0, "RenderableTopology">> \in classes
  <2>1. ClassKind(scene, 0) = "RenderableTopology"
    <3> HIDE DEF world
    <3> QED BY DEF SummaryStatus, world
  <2>2. 0 \in Rendered(scene)
    BY <2>1 DEF ClassKind
  <2>3. 0 \in Catalog(level.mobys.table)
    BY <2>2 DEF HasRatchet
  <2> QED BY <2>1, <2>3
<1> HIDE DEF r, terrain, static, sky, classes, digest
<1>8. IsWhole(r, world)
  BY <1>1, <1>5, <1>6, <1>7 DEF IsWhole
<1> QED BY <1>4, <1>8 DEF r

(* What a load leaves: everything of a level, or nothing.                  *)
LEMMA LoadResultReady ==
  ASSUME NEW level, IsLevel(level), NEW refused, NEW decoded, NEW scene,
         decoded = "Ok" => IsWorld(level) /\ IsDigestedWorld(level) /\ HasRatchet(level, scene)
  PROVE  LET r == LoadResult(level, refused, decoded, World(level), scene, BatchTextures(level)) IN
         /\ r.status = "Ok" => IsReady(r) /\ IsWhole(r, World(level))
         /\ r.status # "Ok" => IsEmpty(r)
<1> DEFINE world == World(level)
           textures == BatchTextures(level)
           upload == UploadStatus(level, refused, world, textures)
           summary == SummaryStatus(level, world, scene)
           loaded == Loaded(level, world, scene, textures)
           r == LoadResult(level, refused, decoded, world, scene, textures)
           kept == OverlayKept(level)
           early == [Unloaded EXCEPT !.status = decoded, !.overlay = kept]
           late(s) == [Unloaded EXCEPT !.status = s]
<1>1. IdentitiesMatch(level, world)
  <2>1. Len(SkyIdentities(level.wad)) = level.wad.shellCount
    BY LevelFacts, SkyBatchesList
  <2> QED BY <2>1 DEF IdentitiesMatch, World
<1>2. r = IF decoded # "Ok" THEN early
          ELSE IF upload # "Ok" THEN late(upload)
          ELSE IF summary # "Ok" THEN late(summary) ELSE loaded
  <2> HIDE DEF world, textures
  <2> QED BY <1>1 DEF LoadResult
<1>3. loaded.status = "Ok"
  BY DEF Loaded
<1>4. decoded = "Ok" /\ upload = "Ok" /\ summary = "Ok" => IsReady(loaded) /\ IsWhole(loaded, world)
  BY LoadedReady
<1>5. {"status", "overlay", "gpu", "liveReady"} \subseteq DOMAIN Unloaded /\ IsEmpty(Unloaded)
  BY DEF Unloaded, IsEmpty
<1> HIDE DEF upload, summary, loaded, kept, world, textures, r
<1>6. /\ early.status = decoded /\ IsEmpty(early)
      /\ \A s : late(s).status = s /\ IsEmpty(late(s))
  BY <1>5 DEF IsEmpty
<1> HIDE DEF early, late
<1>7. /\ r.status = "Ok" => IsReady(r) /\ IsWhole(r, world)
      /\ r.status # "Ok" => IsEmpty(r)
  BY <1>2, <1>3, <1>4, <1>6
<1> QED BY <1>7 DEF r, world, textures

(* A load reads in range and leaves what it accepts ready.                 *)
LEMMA LoadLevelStep == ASSUME LoadLevel PROVE LoadInv'
<1>1. PICK l \in Loads : LET call == LoadMeshes(l[1], l[2], Meshes(l[1])) IN
                           renderer' = call.renderer /\ request' = call.request /\ skin' = NoSkin
  BY DEF LoadLevel
<1> DEFINE level == l[1]
           refused == l[2]
           meshes == Meshes(level)
           scene == MobyScene(level.mobys, meshes)
           steps == LevelSteps(level, meshes, scene)
           result == LoadResult(level, refused, Outcome(steps), World(level), scene, BatchTextures(level))
<1>2. IsLevel(level)
  BY LoadsAssumption
<1>3. renderer' = result /\ request' = <<level, refused, ReadsOf(steps)>> /\ skin' = NoSkin
  BY <1>1 DEF LoadMeshes, LoadScene, Load
<1>4. Sound(steps) /\ (AllHold(steps) => IsWorld(level) /\ IsDigestedWorld(level) /\ HasRatchet(level, scene))
  <2> HIDE DEF level
  <2> QED BY <1>2, LevelStepsSound
<1>5. /\ result.status = "Ok" => IsReady(result) /\ IsWhole(result, World(level))
      /\ result.status # "Ok" => IsEmpty(result)
  <2> HIDE DEF level, steps, scene, refused
  <2>1. Outcome(steps) = "Ok" => IsWorld(level) /\ IsDigestedWorld(level) /\ HasRatchet(level, scene)
    BY <1>4, OutcomeOk
  <2> QED BY <1>2, <2>1, LoadResultReady
<1>6. \A read \in request'[3] : InRange(read)
  <2>1. request'[3] = ReadsOf(steps)
    BY <1>3
  <2> HIDE DEF steps
  <2> QED BY <1>4, <2>1, ReadsOfSteps
<1>7. request'[1] = level
  BY <1>3
<1> HIDE DEF result, level
<1>8. /\ renderer'.status = "Ok" => IsReady(renderer') /\ IsWhole(renderer', World(request'[1]))
      /\ renderer'.status # "Ok" => IsEmpty(renderer')
  BY <1>3, <1>5, <1>7
<1>9. skin' = NoSkin
  BY <1>3
<1> HIDE DEF scene, steps, meshes, refused
<1> DEFINE x == renderer'
           y == request'
           z == skin'
<1> HIDE DEF x, y, z
<1>10. /\ y # NoRequest => \A read \in y[3] : InRange(read)
       /\ z # NoSkin => \A read \in z[3] : InRange(read)
       /\ x.status = "Ok" => IsReady(x) /\ IsWhole(x, World(y[1]))
       /\ x.status # "Ok" => IsEmpty(x)
       /\ z # NoSkin => IsSkinStatus(z[1], z[2], x.liveReady)
  BY <1>6, <1>8, <1>9 DEF x, y, z
<1> QED BY <1>10 DEF LoadInv, x, y, z

----------------------------------------------------------------------------
\* The failures steps can have.
FailsWith(s, failures) == \A i \in DOMAIN s : ~s[i].holds => s[i].failure \in failures

(* What steps end with is one of their failures, if they fail.             *)
LEMMA OutcomeOfSteps ==
  ASSUME NEW s, Sound(s), NEW failures, FailsWith(s, failures)
  PROVE  AllHold(s) \/ (~AllHold(s) /\ Outcome(s) \in failures)
BY FirstFailureFacts DEF Sound, Outcome, FailsWith

(* Steps that have none hold.                                              *)
LEMMA NoFailure ==
  ASSUME NEW s, FailsWith(s, {})
  PROVE  AllHold(s)
BY DEF FailsWith, AllHold

(* One step, and the steps of a call seen as one status.                   *)
LEMMA StepFailsWith ==
  ASSUME NEW failure, NEW holds, NEW reads, NEW failures, holds \/ failure \in failures
  PROVE  FailsWith(<<Require(failure, holds, reads)>>, failures)
<1> DEFINE step == Require(failure, holds, reads)
<1>1. step.failure = failure /\ (step.holds <=> holds)
  BY DEF Require
<1> HIDE DEF step
<1>2. DOMAIN <<step>> = {1} /\ <<step>>[1] = step
  OBVIOUS
<1> QED BY <1>1, <1>2 DEF FailsWith, step

LEMMA WithinFailsWith ==
  ASSUME NEW status, NEW s
  PROVE  FailsWith(Within(status, s), {status})
BY DEF FailsWith, Within, Require

(* Steps after steps, and loops.                                           *)
LEMMA ConcatFailsWith ==
  ASSUME NEW a, NEW b, IsSteps(a), IsSteps(b), NEW failures, FailsWith(a, failures), FailsWith(b, failures)
  PROVE  FailsWith(a \o b, failures)
<1> DEFINE c == a \o b
<1>1. DOMAIN c = 1 .. Len(a) + Len(b) /\ DOMAIN a = 1 .. Len(a) /\ DOMAIN b = 1 .. Len(b)
      /\ Len(a) \in Nat /\ Len(b) \in Nat
      /\ (\A i \in 1 .. Len(a) : c[i] = a[i]) /\ \A i \in 1 .. Len(b) : c[Len(a) + i] = b[i]
  BY ConcatSteps DEF IsSteps
<1> HIDE DEF c
<1>2. ASSUME NEW i \in DOMAIN c PROVE ~c[i].holds => c[i].failure \in failures
  <2>1. CASE i <= Len(a)
    <3>1. i \in DOMAIN a /\ c[i] = a[i]
      BY <1>1, <2>1
    <3> QED BY <3>1 DEF FailsWith
  <2>2. CASE ~(i <= Len(a))
    <3>1. PICK k \in 1 .. Len(b) : i = Len(a) + k
      <4>1. i - Len(a) \in 1 .. Len(b) /\ i = Len(a) + (i - Len(a))
        BY <1>1, <2>2
      <4> QED BY <4>1
    <3>2. c[i] = b[k] /\ k \in DOMAIN b
      BY <1>1, <3>1, Zenon
    <3> QED BY <3>2 DEF FailsWith
  <2> QED BY <2>1, <2>2
<1> QED BY <1>2 DEF FailsWith, c

LEMMA ThenFailsWith ==
  ASSUME NEW a, NEW b, Sound(a), NEW failures, FailsWith(a, failures),
         AllHold(a) => Sound(b) /\ FailsWith(b, failures)
  PROVE  FailsWith(Then(a, b), failures)
<1>1. CASE AllHold(a)
  <2>1. Then(a, b) = a \o b
    BY <1>1, FirstFailureFacts DEF Then, Sound
  <2>2. IsSteps(a) /\ IsSteps(b) /\ FailsWith(b, failures)
    BY <1>1 DEF Sound
  <2> QED BY <2>1, <2>2, ConcatFailsWith
<1>2. CASE ~AllHold(a)
  <2>1. Then(a, b) = a
    BY <1>2, FirstFailureFacts DEF Then, Sound
  <2> QED BY <2>1
<1> QED BY <1>1, <1>2

(* A loop none of whose turns fails does not fail.                         *)
LEMMA ForEachHolds ==
  ASSUME NEW turns, NEW n \in Nat, turns = [i \in 1 .. n |-> turns[i]],
         \A i \in 1 .. n : Sound(turns[i]) /\ AllHold(turns[i])
  PROVE  AllHold(ForEach(turns))
<1> DEFINE upTo == CHOOSE f : f = [i \in 0 .. n |-> IF i = 0 THEN <<>> ELSE Then(f[i - 1], turns[i])]
<1>1. ForEach(turns) = upTo[n]
  BY LenOfFunction DEF ForEach
<1>2. Unfolds(upTo, turns, n)
  BY UnfoldsExists DEF Unfolds
<1> HIDE DEF upTo
<1>3. upTo[0] = <<>> /\ \A i \in 1 .. n : upTo[i] = Then(upTo[i - 1], turns[i])
  BY <1>2 DEF Unfolds
<1> DEFINE Good(i) == Sound(upTo[i]) /\ AllHold(upTo[i])
           Bad == {i \in 0 .. n : ~Good(i)}
<1>4. Good(0)
  BY <1>3, NoStepsSound DEF AllHold
<1>5. ASSUME NEW i \in 1 .. n, Good(i - 1) PROVE Good(i)
  <2> DEFINE a == upTo[i - 1]
  <2>1. Sound(a) /\ AllHold(a) /\ Sound(turns[i]) /\ AllHold(turns[i]) /\ upTo[i] = Then(a, turns[i])
    BY <1>3, <1>5
  <2> HIDE DEF a
  <2>2. Sound(Then(a, turns[i])) /\ Then(a, turns[i]) = a \o turns[i]
    BY <2>1, ThenSound, FirstFailureFacts DEF Then, Sound
  <2>3. AllHold(a \o turns[i])
    BY <2>1, ConcatAllHold DEF Sound
  <2> QED BY <2>1, <2>2, <2>3
<1>6. Bad = {}
  <2>1. Bad \in SUBSET (0 .. n) /\ 0 \notin Bad
    BY <1>4
  <2>2. \A i \in 1 .. n : i \in Bad => i - 1 \in Bad
    <3> TAKE i \in 1 .. n
    <3>1. i - 1 \in 0 .. n
      OBVIOUS
    <3> HIDE DEF Good
    <3> QED BY <3>1, <1>5
  <2> HIDE DEF Bad
  <2> QED BY <2>1, <2>2, NoFirstBad
<1>7. Good(n)
  BY <1>6
<1> QED BY <1>1, <1>7

----------------------------------------------------------------------------
(* Posing and skinning a renderer that is ready.                           *)
LEMMA PrepareStepsSound ==
  ASSUME NEW r, IsReady(r), NEW a, NEW b, IsFrame(a), IsFrame(b)
  PROVE  /\ Sound(PrepareSteps(r, a, b))
         /\ FailsWith(PrepareSteps(r, a, b), {"PoseDecodeFailed", "SkinExecutionFailed"})
<1> DEFINE class == r.ratchet.class
           posed == PoseSteps(class, a, b)
           executed == SkinSteps(class, a, b)
           x == Within("PoseDecodeFailed", posed)
           y == Within("SkinExecutionFailed", executed)
           equal == SkinVertices(class) = r.ratchet.skinVertices
           z == <<Require("SkinVertexCountMismatch", equal, {})>>
           failures == {"PoseDecodeFailed", "SkinExecutionFailed"}
<1>1. PrepareSteps(r, a, b) = Then(x, Then(y, z))
  BY DEF PrepareSteps
<1>2. IsSkinned(class) /\ class.joints \in Nat /\ equal
  BY DEF IsReady, IsSkinned
<1> HIDE DEF class
<1>3. Sound(posed) /\ Sound(executed)
  BY <1>2, PoseStepsSound, SkinStepsSound
<1> HIDE DEF posed, executed, equal
<1>4. Sound(x) /\ Sound(y)
  BY <1>3, WithinSound DEF Verdicts
<1>5. Sound(z)
  BY StepSound DEF Verdicts
<1>6. FailsWith(x, failures) /\ FailsWith(y, failures) /\ FailsWith(z, failures)
  <2>1. FailsWith(x, {"PoseDecodeFailed"}) /\ FailsWith(y, {"SkinExecutionFailed"})
    BY WithinFailsWith
  <2>2. FailsWith(z, failures)
    BY <1>2, StepFailsWith
  <2> HIDE DEF x, y, z
  <2> QED BY <2>1, <2>2 DEF FailsWith
<1> HIDE DEF x, y, z, failures
<1>7. Sound(Then(y, z)) /\ FailsWith(Then(y, z), failures)
  BY <1>4, <1>5, <1>6, ThenSound, ThenFailsWith
<1> DEFINE w == Then(y, z)
<1> HIDE DEF w
<1>8. Sound(Then(x, w)) /\ FailsWith(Then(x, w), failures)
  BY <1>4, <1>6, <1>7, ThenSound, ThenFailsWith DEF w
<1> QED BY <1>1, <1>8 DEF w, failures

(* Uploading the first pose, or updating it: every batch is one the mesh   *)
(* takes, so only the GPU refuses it, and only the first time.             *)
LEMMA ApplyStepsSound ==
  ASSUME NEW r, IsReady(r), NEW refused
  PROVE  /\ Sound(ApplySteps(r, refused))
         /\ FailsWith(ApplySteps(r, refused), IF refused THEN {"GpuUploadFailed"} ELSE {})
<1> DEFINE executed == SkinVertices(r.ratchet.class)
           textures == r.gpu.textures["moby"]
           topology == r.topology
           live == r.live
           made == [i \in DOMAIN topology |-> SkinBatchSteps(topology[i], textures, executed)]
           first == ForEach(made)
           taken == ~refused
           failures == IF refused THEN {"GpuUploadFailed"} ELSE {}
           uploaded == <<Require("GpuUploadFailed", taken, {})>>
           updates == [i \in DOMAIN live |-> UpdateSteps(live[i], executed)]
           later == ForEach(updates)
<1>1. ApplySteps(r, refused) = IF live = <<>> THEN first \o uploaded ELSE later
  BY DEF ApplySteps
<1>2. /\ executed \in Int /\ textures \in Int /\ IsTopology(topology, textures, executed)
      /\ live = <<>> \/ live = Indexes(topology)
  BY SkinVerticesTyped DEF IsReady
<1>3. taken \/ "GpuUploadFailed" \in failures
  OBVIOUS
<1> HIDE DEF executed, textures, topology, live, taken, failures
<1>4. /\ DOMAIN topology = 1 .. Len(topology) /\ Len(topology) \in Nat
      /\ \A i \in DOMAIN topology : /\ topology[i].material \in 0 .. textures - 1
                                    /\ BatchIsSkinned(SkinIndexes(topology[i]), executed)
  BY <1>2 DEF IsTopology, IsSteps
<1> DEFINE n == Len(topology)
<1> HIDE DEF n
<1>5. Sound(first) /\ AllHold(first)
  <2>1. made = [i \in 1 .. n |-> made[i]]
    BY <1>4 DEF n
  <2>2. ASSUME NEW i \in 1 .. n PROVE Sound(made[i]) /\ AllHold(made[i])
    <3> DEFINE steps == SkinBatchSteps(topology[i], textures, executed)
               holds == topology[i].material \in 0 .. textures - 1
                          /\ BatchIsSkinned(SkinIndexes(topology[i]), executed)
               reads == {Element(topology[i].material, textures)}
                          \union {Element(v, executed) : v \in Range(SkinIndexes(topology[i]))}
    <3>1. made[i] = steps /\ holds
      BY <1>4 DEF n
    <3>2. Sound(steps)
      BY <1>2, SkinBatchStepsSound
    <3>3. steps = <<Require("GpuUploadFailed", holds, reads)>>
      BY DEF SkinBatchSteps
    <3> HIDE DEF steps, holds, reads, made
    <3>4. FailsWith(<<Require("GpuUploadFailed", holds, reads)>>, {})
      BY <3>1, StepFailsWith, Zenon
    <3> QED BY <3>1, <3>2, <3>3, <3>4, NoFailure
  <2>3. n \in Nat
    BY <1>4 DEF n
  <2> HIDE DEF made
  <2> QED BY <2>1, <2>2, <2>3, ForEachSound, ForEachHolds
<1>6. Sound(uploaded) /\ FailsWith(uploaded, failures)
  BY <1>3, StepSound, StepFailsWith DEF Verdicts
<1>7. ASSUME live = Indexes(topology) PROVE Sound(later) /\ AllHold(later)
  <2>1. DOMAIN live = 1 .. n /\ n \in Nat /\ \A i \in 1 .. n : live[i] = SkinIndexes(topology[i])
    BY <1>4, <1>7 DEF Indexes, n
  <2>2. updates = [i \in 1 .. n |-> updates[i]]
    BY <2>1
  <2>3. ASSUME NEW i \in 1 .. n PROVE Sound(updates[i]) /\ AllHold(updates[i])
    <3> DEFINE steps == UpdateSteps(live[i], executed)
               holds == BatchIsSkinned(live[i], executed)
               reads == {Element(v, executed) : v \in Range(live[i])}
    <3>1. updates[i] = steps /\ holds
      BY <1>4, <2>1 DEF n
    <3>2. Sound(steps)
      BY <1>2, UpdateStepsSound
    <3>3. steps = <<Require("GpuUploadFailed", holds, reads)>>
      BY DEF UpdateSteps
    <3> HIDE DEF steps, holds, reads, updates
    <3>4. FailsWith(<<Require("GpuUploadFailed", holds, reads)>>, {})
      BY <3>1, StepFailsWith, Zenon
    <3> QED BY <3>1, <3>2, <3>3, <3>4, NoFailure
  <2> HIDE DEF updates
  <2> QED BY <2>1, <2>2, <2>3, ForEachSound, ForEachHolds
<1> HIDE DEF first, uploaded, later
<1>8. Sound(first \o uploaded) /\ FailsWith(first \o uploaded, failures)
  <2>1. FailsWith(first, failures)
    BY <1>5 DEF FailsWith, AllHold
  <2>2. Sound(first \o uploaded)
    BY <1>5, <1>6, ConcatSoundAllHold DEF Sound
  <2> QED BY <1>5, <1>6, <2>1, <2>2, ConcatFailsWith DEF Sound
<1>9. live # <<>> => Sound(later) /\ FailsWith(later, failures)
  BY <1>2, <1>7 DEF FailsWith, AllHold
<1>10. /\ Sound(ApplySteps(r, refused)) /\ FailsWith(ApplySteps(r, refused), failures)
  BY <1>1, <1>8, <1>9
<1> QED BY <1>10 DEF failures

(* A pose that is applied leaves a ready renderer ready, and whole.        *)
LEMMA SkinnedReady ==
  ASSUME NEW r, IsReady(r), r.status = "Ok", NEW prepared, NEW status, NEW world, IsWhole(r, world)
  PROVE  LET s == Skinned(r, prepared, status) IN
         /\ IsReady(s) /\ IsWhole(s, world) /\ s.status = "Ok"
         /\ prepared = "Ok" /\ status # "Ok" => ~s.liveReady
<1> DEFINE topology == r.topology
           made == Indexes(topology)
           live == IF r.live = <<>> THEN made ELSE r.live
           unready == [r EXCEPT !.liveReady = FALSE]
           ready == [r EXCEPT !.liveReady = TRUE, !.live = live]
<1>1. Skinned(r, prepared, status) = IF prepared # "Ok" THEN r ELSE IF status # "Ok" THEN unready ELSE ready
  BY DEF Skinned, Indexes
<1>2. /\ DOMAIN r = DOMAIN Unloaded
      /\ IsSkinned(r.ratchet.class) /\ r.ratchet.skinVertices = SkinVertices(r.ratchet.class)
      /\ IsTopology(r.topology, r.gpu.textures["moby"], r.ratchet.skinVertices)
      /\ r.gpu.textures["moby"] \in Int
      /\ r.live = <<>> \/ r.live = made
  BY DEF IsReady
<1>3. {"status", "ratchet", "topology", "live", "gpu", "liveReady", "digest", "shells", "classes"} \subseteq DOMAIN r
  BY <1>2 DEF Unloaded
<1>4. live = made /\ made # <<>>
  <2>1. DOMAIN made = DOMAIN topology /\ DOMAIN topology # {}
    <3>1. IsSteps(topology) /\ topology # <<>>
      BY <1>2 DEF IsTopology
    <3> HIDE DEF topology
    <3>2. DOMAIN topology # {}
      BY <3>1 DEF IsSteps
    <3> QED BY <3>2 DEF Indexes
  <2> HIDE DEF made, topology
  <2>2. made # <<>>
    BY <2>1
  <2> QED BY <1>2, <2>2
<1> HIDE DEF live, made
<1>5. /\ DOMAIN unready = DOMAIN r /\ unready.ratchet = r.ratchet /\ unready.topology = r.topology
      /\ unready.live = r.live /\ unready.gpu = r.gpu /\ unready.digest = r.digest
      /\ unready.shells = r.shells /\ unready.classes = r.classes /\ unready.status = r.status
      /\ unready.liveReady = FALSE
  BY <1>3
<1>6. /\ DOMAIN ready = DOMAIN r /\ ready.ratchet = r.ratchet /\ ready.topology = r.topology
      /\ ready.live = live /\ ready.gpu = r.gpu /\ ready.digest = r.digest
      /\ ready.shells = r.shells /\ ready.classes = r.classes /\ ready.status = r.status
  BY <1>3
<1> HIDE DEF unready, ready
<1>7. IsReady(unready) /\ IsWhole(unready, world) /\ unready.status = "Ok" /\ ~unready.liveReady
  <2>1. IsReady(unready)
    BY <1>2, <1>5 DEF IsReady, made
  <2>2. IsWhole(unready, world)
    BY <1>5 DEF IsWhole
  <2> QED BY <1>5, <2>1, <2>2
<1>8. IsReady(ready) /\ IsWhole(ready, world) /\ ready.status = "Ok"
  <2>1. IsReady(ready)
    <3>1. ready.live = Indexes(ready.topology) /\ ready.live # <<>>
      BY <1>4, <1>6 DEF made
    <3> QED BY <1>2, <1>6, <3>1 DEF IsReady
  <2>2. IsWhole(ready, world)
    BY <1>6 DEF IsWhole
  <2> QED BY <1>6, <2>1, <2>2
<1> QED BY <1>1, <1>7, <1>8

(* A pose reads in range and leaves the renderer ready; the GPU alone      *)
(* refuses it.                                                             *)
LEMMA SkinRatchetStep == ASSUME LoadInv, SkinRatchet PROVE LoadInv'
<1>1. PICK pose \in Poses, refused \in BOOLEAN :
        LET prepared == PrepareSteps(renderer, pose[1], pose[2])
            applied == Apply(renderer, refused, prepared, Then(prepared, ApplySteps(renderer, refused)))
        IN renderer' = applied.renderer /\ skin' = applied.skin
  BY DEF SkinRatchet
<1>2. /\ renderer.status = "Ok" /\ request' = request /\ IsReady(renderer)
      /\ IsWhole(renderer, World(request[1]))
      /\ request # NoRequest => \A read \in request[3] : InRange(read)
  BY DEF SkinRatchet, LoadInv
<1> DEFINE r == renderer
           prepared == PrepareSteps(r, pose[1], pose[2])
           applied == ApplySteps(r, refused)
           steps == Then(prepared, applied)
           after == Skinned(r, Outcome(prepared), Outcome(steps))
           failures == IF refused THEN {"GpuUploadFailed"} ELSE {}
           early == {"PoseDecodeFailed", "SkinExecutionFailed"}
<1>3. renderer' = after /\ skin' = <<Outcome(steps), refused, ReadsOf(steps)>>
  BY <1>1 DEF Apply
<1>4. /\ Sound(prepared) /\ FailsWith(prepared, early)
      /\ Sound(applied) /\ FailsWith(applied, failures)
  <2>1. IsFrame(pose[1]) /\ IsFrame(pose[2])
    BY PosesAssumption
  <2> QED BY <1>2, <2>1, PrepareStepsSound, ApplyStepsSound
<1>5. ~AllHold(prepared) => steps = prepared /\ Outcome(prepared) \in early
  <2> HIDE DEF prepared, applied
  <2>1. ~AllHold(prepared) => steps = prepared
    BY <1>4, FirstFailureFacts DEF Then, Sound
  <2> QED BY <1>4, <2>1, OutcomeOfSteps
<1>6. Sound(steps) /\ FailsWith(steps, early \union failures)
  <2> HIDE DEF prepared, applied
  <2>1. FailsWith(prepared, early \union failures) /\ FailsWith(applied, early \union failures)
    BY <1>4 DEF FailsWith
  <2> HIDE DEF early, failures
  <2> QED BY <1>4, <2>1, ThenSound, ThenFailsWith
<1>7. AllHold(prepared) <=> Outcome(prepared) = "Ok"
  BY <1>4, OutcomeOk
<1>8. /\ Outcome(steps) # "Ok" => Outcome(steps) \in early \union failures
  <2> HIDE DEF steps, early, failures
  <2> QED BY <1>6, OutcomeOfSteps, OutcomeOk
<1>9. /\ IsReady(after) /\ IsWhole(after, World(request[1])) /\ after.status = "Ok"
      /\ Outcome(prepared) = "Ok" /\ Outcome(steps) # "Ok" => ~after.liveReady
  <2> DEFINE world == World(request[1])
  <2> HIDE DEF prepared, steps, world
  <2> QED BY <1>2, SkinnedReady DEF world
<1>10. IsSkinStatus(Outcome(steps), refused, after.liveReady)
  <2> DEFINE status == Outcome(steps)
             first == Outcome(prepared)
             live == after.liveReady
  <2>1. status # "Ok" => status \in early \union failures
    BY <1>8
  <2>2. first # "Ok" => status \in early
    BY <1>5, <1>7
  <2>3. first = "Ok" /\ status # "Ok" => ~live
    BY <1>9
  <2> HIDE DEF status, first, live
  <2>4. status # "SkinVertexCountMismatch"
    BY <2>1
  <2>5. status = "GpuUploadFailed" => refused /\ ~live
    BY <2>1, <2>2, <2>3
  <2> QED BY <2>4, <2>5 DEF IsSkinStatus, status, live
<1>11. \A read \in ReadsOf(steps) : InRange(read)
  BY <1>6, ReadsOfSteps
<1> HIDE DEF prepared, steps, applied, after
<1> DEFINE x == renderer'
           y == request'
           z == skin'
<1>12. /\ y # NoRequest => \A read \in y[3] : InRange(read)
       /\ z # NoSkin => \A read \in z[3] : InRange(read)
       /\ x.status = "Ok" => IsReady(x) /\ IsWhole(x, World(y[1]))
       /\ x.status # "Ok" => IsEmpty(x)
       /\ z # NoSkin => IsSkinStatus(z[1], z[2], x.liveReady)
  <2>1. z[1] = Outcome(steps) /\ z[2] = refused /\ z[3] = ReadsOf(steps)
    BY <1>3
  <2>2. x = after /\ y = request
    BY <1>2, <1>3
  <2> HIDE DEF x, y, z
  <2> QED BY <1>2, <1>9, <1>10, <1>11, <2>1, <2>2
<1> HIDE DEF x, y, z
<1> QED BY <1>12 DEF LoadInv, x, y, z

(* The invariant, over all the calls that are made.                        *)
LEMMA LoadStep == ASSUME LoadInv, [LoadNext]_loadVars PROVE LoadInv'
<1>1. CASE LoadLevel
  BY <1>1, LoadLevelStep
<1>2. CASE SkinRatchet
  BY <1>2, SkinRatchetStep
<1>3. CASE UNCHANGED loadVars
  BY <1>3 DEF LoadInv, loadVars
<1> QED BY <1>1, <1>2, <1>3 DEF LoadNext

(* LevelReadsStayInRange, for every level, every GPU and every pose: what  *)
(* Rac1RuntimeRenderer::loadLevel and the decoders it calls read on the    *)
(* way to accepting or refusing a level, and what posing and skinning its  *)
(* Ratchet read, lies inside what they read it from.                       *)
THEOREM LevelIsReadInRange == LoadSpec => []LevelReadsStayInRange
<1>1. LoadInit => LoadInv
  BY LoadInitially
<1>2. LoadInv /\ [LoadNext]_loadVars => LoadInv'
  BY LoadStep
<1>3. LoadInv => LevelReadsStayInRange
  BY DEF LoadInv, LevelReadsStayInRange, InRange
<1> QED BY <1>1, <1>2, <1>3, PTL DEF LoadSpec

(* LoadedLevelIsWhole, for every level, every GPU and every pose: a        *)
(* renderer that is ready draws every batch its parity digest was made of, *)
(* in that order, and no batch of a sky without its shell; one that is not *)
(* has nothing on the GPU.  The vertices the mesh decoder found in Ratchet *)
(* are those his pose is executed for, so appendSkinnedMobyBatch and       *)
(* updateSkinnedMobyBatches refuse no batch: only the GPU does.            *)
THEOREM LevelIsLoadedWhole == LoadSpec => []LoadedLevelIsWhole
<1>1. LoadInit => LoadInv
  BY LoadInitially
<1>2. LoadInv /\ [LoadNext]_loadVars => LoadInv'
  BY LoadStep
<1>3. LoadInv => LoadedLevelIsWhole
  <2> SUFFICES ASSUME LoadInv PROVE LoadedLevelIsWhole
    OBVIOUS
  <2> DEFINE r == renderer
             world == World(request[1])
  <2>1. r.status = "Ok" => IsReady(r) /\ IsWhole(r, world)
    BY DEF LoadInv
  <2>2. r.status # "Ok" => r.gpu = EmptyGpu /\ r.liveReady = FALSE
    BY DEF LoadInv, IsEmpty
  <2>3. skin # NoSkin => /\ skin[1] # "SkinVertexCountMismatch"
                         /\ skin[1] = "GpuUploadFailed" => skin[2] /\ ~r.liveReady
    BY DEF LoadInv, IsSkinStatus
  <2>4. r.status = "Ok" => r.topology # <<>>
    BY <2>1 DEF IsReady, IsTopology
  <2>5. r.liveReady => r.live # <<>> /\ Len(r.live) = Len(r.topology)
    <3> SUFFICES ASSUME r.liveReady PROVE r.live # <<>> /\ Len(r.live) = Len(r.topology)
      OBVIOUS
    <3>1. IsReady(r)
      BY <2>1, <2>2
    <3> DEFINE topology == r.topology
    <3>2. r.live # <<>> /\ r.live = Indexes(topology) /\ IsSteps(topology)
      BY <3>1 DEF IsReady, IsTopology
    <3> DEFINE made == Indexes(topology)
    <3> HIDE DEF topology
    <3>3. made = [i \in 1 .. Len(topology) |-> made[i]] /\ Len(topology) \in Nat
      BY <3>2 DEF Indexes, IsSteps
    <3> HIDE DEF made
    <3>4. Len(made) = Len(topology)
      BY <3>3, LenOfFunction
    <3> QED BY <3>2, <3>4 DEF made, topology
  <2> HIDE DEF world
  <2> QED BY <2>1, <2>2, <2>3, <2>4, <2>5 DEF LoadedLevelIsWhole, IsWhole, world
<1> QED BY <1>1, <1>2, <1>3, PTL DEF LoadSpec
=============================================================================
