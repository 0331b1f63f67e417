--------------------------- MODULE LiveFrameProofs ---------------------------
(***************************************************************************)
(* The presented frame, for any guest memory and whatever the guest writes *)
(* between two frames: types, that the packets of a pose lie in memory,    *)
(* that pose and placement are one moby's, that the accounting balances    *)
(* and blames exactly what is wrong, and that the sky drawn is the level's.*)
(***************************************************************************)
EXTENDS LiveFrame, FiniteSetTheorems, TLAPS

FrameStatuses ==
  {"RendererNotReady", "IdentityNotMapped", "AnimationNotMaterialized",
   "TransformNotMaterialized", "PoseDecodeFailed", "SkinExecutionFailed", "Ok"}

(* The registry's accounting agrees with the pool's.                       *)
RegistryAddsUp(pool, registry) ==
  /\ pool.status # "Ok" => registry = NoRegistry
  /\ pool.status = "Ok" =>
       /\ registry.status = "Ok"
       /\ registry.records = pool.slotsBeforeTerminator /\ registry.records = Len(pool.records)
       /\ registry.active = pool.traversed /\ registry.inactive = pool.skipped
       /\ pool.traversed \in Nat /\ pool.skipped \in Nat
       /\ pool.traversed + pool.skipped = pool.slotsBeforeTerminator
       /\ IsFiniteSet(DOMAIN registry.entries)
       /\ Cardinality(DOMAIN registry.entries) = pool.traversed
       /\ pool.ratchets = 1 => pool.traversed > 0

(* The shells of a materialized sky lie in guest memory.                   *)
ShellsInRam(sky) ==
  sky.identityMaterialized =>
    /\ sky.address \in Nat
    /\ Len(sky.shells) \in Nat /\ DOMAIN sky.shells = 1 .. Len(sky.shells)
    /\ \A i \in DOMAIN sky.shells : InRam(sky.shells[i].at, 1)

(* What a snapshot says holds together, whatever was in memory.            *)
SnapshotSound ==
  snap # NoSnapshot =>
    /\ RegistryAddsUp(snap.pool, snap.registry)
    /\ ShellsInRam(snap.sky)
    /\ snap.frame \in FrameStatuses
    /\ snap.frame = "Ok" => snap.pool.status = "Ok" /\ snap.animation.moby # 0

(* The frame in progress has a snapshot and shows nothing yet.             *)
FrameInProgress == phase # "idle" => snap # NoSnapshot /\ drawn = NothingDrawn /\ report = NoReport

NothingLoadedEarly == ~attempted => catalog = NoCatalog

LiveInv ==
  /\ LiveTypeOK /\ MemoryOK(mem) /\ NothingLoadedEarly
  /\ FrameInProgress /\ SnapshotSound
  /\ PacketsInGuestMemory /\ RatchetIdentityNeverTorn
  /\ AccountingBalances /\ SkyDrawnIsLoadedSky

----------------------------------------------------------------------------
(* A part of a finite set and the rest of it make up its cardinality.      *)
LEMMA PartAndRest ==
  ASSUME NEW S, IsFiniteSet(S), NEW T \in SUBSET S
  PROVE  /\ IsFiniteSet(T) /\ Cardinality(S) \in Nat
         /\ Cardinality(T) \in Nat /\ Cardinality(S \ T) \in Nat
         /\ Cardinality(T) + Cardinality(S \ T) = Cardinality(S)
<1>1. IsFiniteSet(T) /\ IsFiniteSet(S \ T) /\ S \cap T = T
  BY FS_Subset, FS_Difference
<1>2. Cardinality(S \ T) = Cardinality(S) - Cardinality(T)
  BY <1>1, FS_Difference
<1> QED
  BY <1>1, <1>2, FS_CardinalityType

----------------------------------------------------------------------------
(* The moby pool and the class registry.                                   *)
LEMMA SlotsWithinPool ==
  ASSUME NEW m
  PROVE  SlotsBeforeTerminator(m) \in 0 .. Capacity
<1> DEFINE Before == {s \in Slot : \A t \in Terminators(m) : s < t}
<1>1. IsFiniteSet(Slot) /\ Cardinality(Slot) = Capacity
  BY FS_Interval, LiveStateAssumption DEF Slot
<1>2. IsFiniteSet(Before) /\ Cardinality(Before) <= Cardinality(Slot)
  BY <1>1, FS_Subset
<1>3. Cardinality(Before) \in Nat
  BY <1>2, FS_CardinalityType
<1> QED
  BY <1>1, <1>2, <1>3, LiveStateAssumption DEF SlotsBeforeTerminator

(* Every slot that was traversed is active or skipped.                     *)
LEMMA RecordsPartitioned ==
  ASSUME NEW m, MemoryOK(m), PoolLayoutStatus(m) = "Ok"
  PROVE  LET records == PoolRecords(m) IN
         /\ DOMAIN records = 1 .. SlotsBeforeTerminator(m)
         /\ Len(records) = SlotsBeforeTerminator(m)
         /\ SkippedIn(records) = DOMAIN records \ ActiveIn(records)
         /\ \A i \in DOMAIN records : records[i] = PoolRecord(m, i)
<1> DEFINE n == SlotsBeforeTerminator(m)
           records == PoolRecords(m)
<1>1. n \in Nat /\ n <= Capacity /\ Capacity \in Nat
  BY SlotsWithinPool, LiveStateAssumption
<1>2. records = [s \in 1 .. n |-> PoolRecord(m, s)]
  BY DEF PoolRecords
<1>3. DOMAIN records = 1 .. n /\ \A i \in 1 .. n : records[i] = PoolRecord(m, i)
  BY <1>2
<1>4. Len(records) = n
  <2> HIDE DEF n
  <2>1. records \in Seq({PoolRecord(m, s) : s \in 1 .. n})
    BY <1>1, <1>2
  <2> QED
    BY <1>1, <1>2, <2>1
<1>5. ASSUME NEW i \in 1 .. n PROVE records[i].moby.state < 0 <=> ~records[i].active
  <2>1. i \in Slot /\ m.moby[i].state \in Int
    BY <1>1 DEF MemoryOK, MobyOK, Slot
  <2>2. records[i] = PoolRecord(m, i)
    BY <1>3
  <2>3. PoolRecord(m, i).moby = m.moby[i]
    BY DEF PoolRecord
  <2>4. PoolRecord(m, i).active <=> m.moby[i].state >= 0
    BY DEF PoolRecord
  <2> HIDE DEF records
  <2> QED
    BY <2>1, <2>2, <2>3, <2>4
<1> HIDE DEF records
<1>6. SkippedIn(records) = DOMAIN records \ ActiveIn(records)
  BY <1>3, <1>5 DEF SkippedIn, ActiveIn
<1> QED
  BY <1>3, <1>4, <1>6 DEF records

(* Pool and registry count the same mobies.                                *)
LEMMA PoolAndRegistryAddUp ==
  ASSUME NEW m, MemoryOK(m)
  PROVE  RegistryAddsUp(Pool(m), ClassRegistry(m, Pool(m)))
<1> DEFINE pool == Pool(m)
           records == PoolRecords(m)
           registry == ClassRegistry(m, pool)
<1>1. CASE pool.status # "Ok"
  BY <1>1 DEF RegistryAddsUp, ClassRegistry
<1>2. CASE pool.status = "Ok"
  <2>1. PoolLayoutStatus(m) = "Ok"
    BY <1>2 DEF Pool
  <2>2. /\ Len(records) = SlotsBeforeTerminator(m) /\ SlotsBeforeTerminator(m) \in Nat
        /\ DOMAIN records = 1 .. SlotsBeforeTerminator(m)
        /\ SkippedIn(records) = DOMAIN records \ ActiveIn(records)
    BY <2>1, RecordsPartitioned, SlotsWithinPool
  <2>3. /\ pool.records = records /\ pool.slotsBeforeTerminator = SlotsBeforeTerminator(m)
        /\ pool.traversed = Cardinality(ActiveIn(records))
        /\ pool.skipped = Cardinality(SkippedIn(records))
        /\ pool.ratchets = Cardinality(RatchetsIn(records))
    BY <2>1 DEF Pool
  <2> HIDE DEF records, pool
  <2>4. /\ IsFiniteSet(ActiveIn(records))
        /\ pool.traversed \in Nat /\ pool.skipped \in Nat
        /\ pool.traversed + pool.skipped = pool.slotsBeforeTerminator
    <3>1. IsFiniteSet(DOMAIN records) /\ Cardinality(DOMAIN records) = SlotsBeforeTerminator(m)
      BY <2>2, FS_Interval
    <3>2. ActiveIn(records) \in SUBSET DOMAIN records
      BY DEF ActiveIn
    <3> QED
      BY <2>2, <2>3, <3>1, <3>2, PartAndRest
  <2>5. Len(pool.records) - Cardinality(ActiveIn(records)) = pool.skipped
    BY <2>2, <2>3, <2>4
  <2>6. /\ registry.status = "Ok" /\ registry.records = Len(pool.records)
        /\ registry.active = pool.traversed /\ registry.inactive = pool.skipped
        /\ DOMAIN registry.entries = ActiveIn(records)
    BY <1>2, <2>2, <2>3, <2>5 DEF ClassRegistry
  <2>7. ASSUME pool.ratchets = 1 PROVE pool.traversed > 0
    <3>1. RatchetsIn(records) \in SUBSET ActiveIn(records)
      BY DEF RatchetsIn
    <3>2. Cardinality(RatchetsIn(records)) <= Cardinality(ActiveIn(records))
      BY <2>4, <3>1, FS_Subset
    <3> QED
      BY <2>3, <2>4, <2>7, <3>2
  <2> QED
    BY <1>2, <2>2, <2>3, <2>4, <2>6, <2>7 DEF RegistryAddsUp, pool
<1> QED
  BY <1>1, <1>2

(* The one candidate is a record of the pool, and its oClass is Ratchet's. *)
LEMMA UniqueRatchet ==
  ASSUME NEW m, MemoryOK(m), Pool(m).status = "Ok", Pool(m).ratchets = 1
  PROVE  \E s \in Slot : RatchetOf(Pool(m)) = PoolRecord(m, s) /\ m.moby[s].oClass = 0
<1> DEFINE records == PoolRecords(m)
           first == CHOOSE i \in RatchetsIn(records) : TRUE
<1>1. PoolLayoutStatus(m) = "Ok" /\ Cardinality(RatchetsIn(records)) = 1
  BY DEF Pool
<1>2. RatchetsIn(records) # {}
  BY <1>1, FS_EmptySet
<1>3. first \in RatchetsIn(records)
  BY <1>2
<1>4. Pool(m).records = records
  BY DEF Pool
<1>5. RatchetOf(Pool(m)) = records[first]
  BY <1>4 DEF RatchetOf
<1>6. first \in DOMAIN records /\ records[first].moby.oClass = 0
  BY <1>3 DEF RatchetsIn, ActiveIn
<1> HIDE DEF records, first
<1>7. first \in Slot /\ records[first] = PoolRecord(m, first)
  BY <1>1, <1>6, RecordsPartitioned, SlotsWithinPool, LiveStateAssumption DEF records, Slot
<1> QED
  BY <1>5, <1>6, <1>7 DEF PoolRecord

LEMMA RatchetAddress ==
  ASSUME NEW m, MemoryOK(m), Pool(m).status = "Ok", Pool(m).ratchets = 1
  PROVE  /\ RatchetOf(Pool(m)).address \in Nat /\ RatchetOf(Pool(m)).moby.oClass = 0
         /\ RatchetOf(Pool(m)).moby.a \in Endpoints /\ RatchetOf(Pool(m)).moby.b \in Endpoints
<1>1. PICK s \in Slot : RatchetOf(Pool(m)) = PoolRecord(m, s) /\ m.moby[s].oClass = 0
  BY UniqueRatchet
<1>2. s \in Nat /\ s > 0 /\ m.base \in Nat /\ MobyOK(m.moby[s])
  BY LiveStateAssumption DEF MemoryOK, Slot
<1>3. RatchetOf(Pool(m)).address = m.base + s - 1 /\ RatchetOf(Pool(m)).moby = m.moby[s]
  BY <1>1 DEF PoolRecord
<1> QED
  BY <1>1, <1>2, <1>3 DEF MobyOK

----------------------------------------------------------------------------
(* Three inspectors, one moby.                                             *)
LEMMA SelectionIsOfRatchet ==
  ASSUME NEW m, NEW ratchet
  PROVE  Selection(m, ratchet).candidates = 1 /\ Selection(m, ratchet).moby = ratchet.address
BY DEF Selection, NoSelection

LEMMA AnimationIsOfRatchet ==
  ASSUME NEW m, NEW pool, Animation(m, pool).status \in {"Ok", "EndpointsNotMaterialized"}
  PROVE  /\ pool.status = "Ok" /\ pool.ratchets = 1
         /\ Animation(m, pool) = Selection(m, RatchetOf(pool))
BY DEF Animation, Rejected, NoSelection

(* A pose that is mapped and a transform that is mapped are one moby's.    *)
LEMMA InspectorsAgree ==
  ASSUME NEW m, MemoryOK(m), NEW topology \in BOOLEAN
  PROVE  LET pool == Pool(m)
             identity == IdentityStatus(topology, Animation(m, pool), Transform(pool))
         IN /\ identity \in {"NativeTopologyUnavailable", "AnimationIdentityUnavailable",
                             "TransformIdentityUnavailable", "Ok"}
            /\ identity = "Ok" =>
                 /\ pool.status = "Ok" /\ pool.ratchets = 1
                 /\ Animation(m, pool) = Selection(m, RatchetOf(pool))
                 /\ Animation(m, pool).moby = RatchetOf(pool).address
                 /\ Transform(pool).moby = RatchetOf(pool).address
                 /\ RatchetOf(pool).address # 0
<1> DEFINE pool == Pool(m)
           animation == Animation(m, pool)
           transform == Transform(pool)
           identity == IdentityStatus(topology, animation, transform)
<1>1. CASE ~(animation.status \in {"Ok", "EndpointsNotMaterialized"} /\ topology = TRUE)
  BY <1>1 DEF IdentityStatus
<1>2. CASE animation.status \in {"Ok", "EndpointsNotMaterialized"} /\ topology = TRUE
  <2>1. /\ pool.status = "Ok" /\ pool.ratchets = 1
        /\ animation = Selection(m, RatchetOf(pool))
    BY <1>2, AnimationIsOfRatchet
  <2>2. animation.candidates = 1 /\ animation.moby = RatchetOf(pool).address
    BY <2>1, SelectionIsOfRatchet
  <2>3. RatchetOf(pool).moby.oClass = 0
    BY <2>1, RatchetAddress
  <2>4. transform.candidates = 1 /\ transform.moby = RatchetOf(pool).address /\ transform.oClass = 0
    BY <2>1, <2>3 DEF Transform
  <2> HIDE DEF pool, animation, transform
  <2> QED
    BY <1>2, <2>1, <2>2, <2>4 DEF IdentityStatus, pool, animation, transform
<1> QED
  BY <1>1, <1>2

----------------------------------------------------------------------------
(* The packets of a pose.                                                  *)
PacketInMemory(e) ==
  /\ e.observed # 0 /\ e.size > 0 /\ e.observed + e.size <= RamSize
  /\ e.kind = "TransitionCache" =>
       \E s \in 0 .. TransitionSlots - 1 :
         /\ e.observed = TransitionBase + s * TransitionSlotSize
         /\ e.observed + e.size <= TransitionBase + (s + 1) * TransitionSlotSize
  /\ e.kind = "SequenceFrame" => e.observed = e.expected

(* What classification changes of an endpoint.                             *)
LEMMA ClassifiedFields ==
  ASSUME NEW m, MemoryOK(m), NEW e, {"status", "size", "kind"} \subseteq DOMAIN e,
         "observed" \in DOMAIN e, "expected" \in DOMAIN e,
         e.observed \in Nat, Classified(m, e).status = "Ok"
  PROVE  LET c == Classified(m, e) IN
         /\ PacketStatus(m, e) = "Ok"
         /\ c.observed = e.observed /\ c.expected = e.expected
         /\ c.observed # 0 /\ c.size \in Nat \ {0} /\ c.observed + c.size <= RamSize
         /\ InSlot(e) => c.size <= TransitionSlotSize
         /\ c.kind = IF e.kind \in {"SequenceFrame", "TransitionCache"} /\ e.observed # e.expected
                     THEN "DirectGuestPacket" ELSE e.kind
<1> DEFINE c == Classified(m, e)
           size == PacketSize(m, e.observed)
<1>1. /\ c.status = PacketStatus(m, e)
      /\ c.observed = e.observed /\ c.expected = e.expected
  BY DEF Classified
<1>2. PacketStatus(m, e) = "Ok"
  BY <1>1
<1>3. /\ c.size = size
      /\ c.kind = IF e.kind \in {"SequenceFrame", "TransitionCache"} /\ e.observed # e.expected
                  THEN "DirectGuestPacket" ELSE e.kind
  BY <1>2 DEF Classified
<1>4. /\ Dereferences(e.observed, 1) /\ InRam(e.observed, size)
      /\ ~(InSlot(e) /\ size > TransitionSlotSize)
  BY <1>2 DEF PacketStatus
<1>5. e.observed # 0 /\ e.observed \in 0 .. RamSize - 1
  BY <1>4, LiveStateAssumption DEF Dereferences, InRam
<1>6. size \in Nat /\ size > 0
  BY <1>5 DEF MemoryOK, PacketsOK, PacketSize
<1> HIDE DEF c, size
<1> QED
  BY <1>1, <1>2, <1>3, <1>4, <1>5, <1>6, LiveAnimationAssumption DEF InRam, c

(* A packet that is still its transition slot's does not leave the slot.   *)
LEMMA TransitionPacket ==
  ASSUME NEW m, MemoryOK(m), NEW at \in Endpoints, TransitionEndpoint(at).status = "Ok",
         Classified(m, TransitionEndpoint(at)).status = "Ok"
  PROVE  PacketInMemory(Classified(m, TransitionEndpoint(at)))
<1> DEFINE e == TransitionEndpoint(at)
           c == Classified(m, e)
<1>1. /\ {"status", "size", "kind", "observed", "expected"} \subseteq DOMAIN e
      /\ e.observed = at.pointer /\ e.kind = "TransitionCache"
      /\ e.expected = TransitionBase + at.frame * TransitionSlotSize
      /\ ~(at.frame >= TransitionSlots)
  BY DEF TransitionEndpoint, NoEndpoint
<1>2. at.pointer \in Nat /\ at.frame \in Nat
  BY DEF Endpoints
<1> HIDE DEF e
<1>3. /\ c.observed = e.observed /\ c.expected = e.expected
      /\ c.observed # 0 /\ c.size \in Nat \ {0} /\ c.observed + c.size <= RamSize
      /\ InSlot(e) => c.size <= TransitionSlotSize
      /\ c.kind = IF e.observed # e.expected THEN "DirectGuestPacket" ELSE "TransitionCache"
  BY <1>1, <1>2, ClassifiedFields DEF e
<1>4. ASSUME c.kind = "TransitionCache"
      PROVE  /\ at.frame \in 0 .. TransitionSlots - 1
             /\ c.observed = TransitionBase + at.frame * TransitionSlotSize
             /\ c.observed + c.size <= TransitionBase + (at.frame + 1) * TransitionSlotSize
  <2>1. e.observed = e.expected /\ InSlot(e)
    BY <1>1, <1>3, <1>4 DEF InSlot
  <2> DEFINE start == at.frame * TransitionSlotSize
             next == (at.frame + 1) * TransitionSlotSize
  <2>2. start \in Nat /\ next = start + TransitionSlotSize
    BY <1>2, LiveAnimationAssumption
  <2>3. c.observed = TransitionBase + start
    BY <1>1, <1>3, <2>1
  <2> HIDE DEF c, start, next
  <2>4. c.size \in Nat /\ c.size <= TransitionSlotSize
    BY <1>3, <2>1
  <2>5. c.observed + c.size <= TransitionBase + next
    BY <2>2, <2>3, <2>4, LiveAnimationAssumption
  <2>6. at.frame \in 0 .. TransitionSlots - 1
    BY <1>1, <1>2, LiveAnimationAssumption
  <2> QED
    BY <2>3, <2>5, <2>6 DEF start, next
<1> QED
  BY <1>1, <1>3, <1>4 DEF PacketInMemory, e

(* A packet that is still its sequence's is the one its frame table names. *)
LEMMA SequencePacket ==
  ASSUME NEW m, MemoryOK(m), NEW table, NEW at \in Endpoints,
         Classified(m, SequenceEndpoint(m, table, at)).status = "Ok"
  PROVE  PacketInMemory(Classified(m, SequenceEndpoint(m, table, at)))
<1> DEFINE e == SequenceEndpoint(m, table, at)
           c == Classified(m, e)
<1>1. /\ {"status", "size", "kind", "observed", "expected"} \subseteq DOMAIN e
      /\ e.observed = at.pointer /\ e.kind \in {"ExternalSequence", "SequenceFrame"}
  BY DEF SequenceEndpoint, NoEndpoint
<1>2. at.pointer \in Nat
  BY DEF Endpoints
<1> HIDE DEF e
<1>3. /\ c.observed = e.observed /\ c.expected = e.expected
      /\ c.observed # 0 /\ c.size \in Nat \ {0} /\ c.observed + c.size <= RamSize
      /\ c.kind = IF e.kind = "SequenceFrame" /\ e.observed # e.expected
                  THEN "DirectGuestPacket" ELSE e.kind
  BY <1>1, <1>2, ClassifiedFields DEF e
<1> HIDE DEF c
<1> QED
  BY <1>1, <1>3 DEF PacketInMemory, c, e

(* The two packets of a selection that ended well are classified ones.     *)
LEMMA SelectedPackets ==
  ASSUME NEW m, MemoryOK(m), NEW ratchet,
         ratchet.moby.a \in Endpoints, ratchet.moby.b \in Endpoints,
         Selection(m, ratchet).status = "Ok"
  PROVE  /\ PacketInMemory(Selection(m, ratchet).a)
         /\ PacketInMemory(Selection(m, ratchet).b)
<1> DEFINE at == ratchet.moby.a
           bt == ratchet.moby.b
           table == m.class[ratchet.moby.class]
           a == IF at.sequence = TransitionSequence THEN TransitionEndpoint(at)
                ELSE SequenceEndpoint(m, table, at)
           b == SequenceEndpoint(m, table, bt)
           s == Selection(m, ratchet)
<1>1. /\ a.status = "Ok"
      /\ Classified(m, a).status = "Ok" /\ Classified(m, b).status = "Ok"
      /\ s.a = Classified(m, a) /\ s.b = Classified(m, b)
  BY DEF Selection, NoSelection
<1>2. PacketInMemory(Classified(m, b))
  BY <1>1, SequencePacket
<1>3. CASE at.sequence = TransitionSequence
  <2>1. a = TransitionEndpoint(at)
    BY <1>3
  <2>2. PacketInMemory(Classified(m, a))
    BY <1>1, <2>1, TransitionPacket
  <2> QED
    BY <1>1, <1>2, <2>2
<1>4. CASE at.sequence # TransitionSequence
  <2>1. a = SequenceEndpoint(m, table, at)
    BY <1>4
  <2>2. PacketInMemory(Classified(m, a))
    BY <1>1, <2>1, SequencePacket
  <2> QED
    BY <1>1, <1>2, <2>2
<1> QED
  BY <1>3, <1>4

(* What preparing a frame establishes of its pose.                         *)
LEMMA FrameStatusInRange ==
  ASSUME NEW m, NEW loaded, NEW animation, NEW transform
  PROVE  FrameStatus(m, loaded, animation, transform) \in FrameStatuses
BY DEF FrameStatus, FrameStatuses

LEMMA PreparedPose ==
  ASSUME NEW m, MemoryOK(m), NEW loaded,
         FrameStatus(m, loaded, Animation(m, Pool(m)), Transform(Pool(m))) = "Ok"
  PROVE  LET animation == Animation(m, Pool(m)) IN
         /\ animation.external = Len(NativeBank)
         /\ \A e \in {animation.a, animation.b} :
              /\ PacketInMemory(e)
              /\ e.kind = "ExternalSequence" => e.frame < NativeBank[e.sequence + 1]
<1> DEFINE pool == Pool(m)
           animation == Animation(m, pool)
<1>1. /\ IdentityStatus(TRUE, animation, Transform(pool)) = "Ok"
      /\ animation.status = "Ok" /\ PoseStatus(m, animation) = "Ok"
  BY DEF FrameStatus
<1>2. /\ pool.status = "Ok" /\ pool.ratchets = 1
      /\ animation = Selection(m, RatchetOf(pool))
  BY <1>1, AnimationIsOfRatchet
<1>3. PacketInMemory(animation.a) /\ PacketInMemory(animation.b)
  BY <1>1, <1>2, RatchetAddress, SelectedPackets
<1> HIDE DEF animation, pool
<1>4. /\ animation.external = Len(NativeBank)
      /\ ~OutsideNativeBank(animation.a) /\ ~OutsideNativeBank(animation.b)
  BY <1>1 DEF PoseStatus
<1> QED
  BY <1>3, <1>4 DEF OutsideNativeBank, animation, pool

----------------------------------------------------------------------------
(* The sky.                                                                *)
LEMMA SkyShellsInRam ==
  ASSUME NEW m, MemoryOK(m)
  PROVE  ShellsInRam(Sky(m))
<1> SUFFICES ASSUME Sky(m).identityMaterialized PROVE ShellsInRam(Sky(m))
  BY DEF ShellsInRam
<1> DEFINE sky == m.sky[m.skyPointer]
           n == sky.count
           shells == [i \in 1 .. n |-> LiveShell(m, sky.shells[i])]
<1>1. ShellTableStatus(m) = "Ok"
  BY DEF Sky
<1>2. /\ InRam(m.skyPointer, 1) /\ n # 0 /\ ~(n < 0)
      /\ \A i \in 1 .. n : Dereferences(sky.shells[i], 1)
  BY <1>1 DEF ShellTableStatus
<1>3. m.skyPointer \in Nat /\ n \in Nat
  BY <1>2, LiveStateAssumption DEF MemoryOK, SkiesOK, InRam
<1>4. Sky(m).address = m.skyPointer /\ Sky(m).shells = shells
  BY <1>1 DEF Sky
<1>5. DOMAIN shells = 1 .. n /\ \A i \in 1 .. n : shells[i].at = sky.shells[i]
  BY DEF LiveShell
<1>6. Len(shells) = n
  <2> DEFINE live == {LiveShell(m, sky.shells[i]) : i \in 1 .. n}
  <2>1. shells \in Seq(live)
    <3> HIDE DEF n
    <3> QED
      BY <1>3
  <2> HIDE DEF shells, live, n
  <2> QED
    BY <1>3, <1>5, <2>1
<1> HIDE DEF shells, n
<1> QED
  BY <1>2, <1>3, <1>4, <1>5, <1>6 DEF ShellsInRam, Dereferences

----------------------------------------------------------------------------
(* The class map: every active moby is confirmed or an issue, and every    *)
(* confirmed one is of a native kind or runtime-only.                      *)
LEMMA KindsPartitionConfirmed ==
  ASSUME NEW entries, IsFiniteSet(DOMAIN entries), NEW c \in Catalogs
  PROVE  LET confirmed == Confirmed(entries)
             known == Known(entries, c.classes)
             kind(k) == Cardinality(OfKind(entries, c.classes, k))
         IN /\ IsFiniteSet(confirmed) /\ confirmed \in SUBSET DOMAIN entries
            /\ kind("RenderableTopology") + kind("IntentionallyInvisible") + kind("ClassOnly")
                 + Cardinality(confirmed \ known) = Cardinality(confirmed)
<1> DEFINE confirmed == Confirmed(entries)
           known == Known(entries, c.classes)
           ofKind(k) == OfKind(entries, c.classes, k)
           rest == known \ ofKind("RenderableTopology")
<1>1. confirmed \in SUBSET DOMAIN entries /\ known \in SUBSET confirmed
  BY DEF Confirmed, Known
<1>2. \A k : ofKind(k) \in SUBSET known
  BY DEF OfKind
<1>3. /\ ofKind("IntentionallyInvisible") \in SUBSET rest
      /\ ofKind("ClassOnly") = rest \ ofKind("IntentionallyInvisible")
  BY LiveFrameAssumption DEF OfKind, Known, Kinds
<1>4. IsFiniteSet(confirmed) /\ IsFiniteSet(known)
  BY <1>1, PartAndRest
<1>5. /\ Cardinality(known) + Cardinality(confirmed \ known) = Cardinality(confirmed)
      /\ Cardinality(confirmed \ known) \in Nat /\ Cardinality(known) \in Nat
  BY <1>1, <1>4, PartAndRest
<1>6. IsFiniteSet(rest)
  BY <1>4, FS_Difference
<1>7. /\ Cardinality(ofKind("RenderableTopology")) + Cardinality(rest) = Cardinality(known)
      /\ Cardinality(ofKind("RenderableTopology")) \in Nat /\ Cardinality(rest) \in Nat
  BY <1>2, <1>4, PartAndRest
<1>8. /\ Cardinality(ofKind("IntentionallyInvisible")) + Cardinality(ofKind("ClassOnly"))
           = Cardinality(rest)
      /\ Cardinality(ofKind("IntentionallyInvisible")) \in Nat
      /\ Cardinality(ofKind("ClassOnly")) \in Nat
  BY <1>3, <1>6, PartAndRest
<1> HIDE DEF confirmed, known, ofKind, rest
<1> QED
  BY <1>1, <1>4, <1>5, <1>7, <1>8 DEF confirmed, known, ofKind

LEMMA ClassMapBalances ==
  ASSUME NEW pool, NEW registry, RegistryAddsUp(pool, registry), NEW c \in Catalogs
  PROVE  LET map == ClassMap(pool, registry, c)
             issues == map.issues
         IN /\ map.mapped \in Nat
            /\ pool.status # "Ok" =>
                 map.status = "PoolUnavailable" /\ map.mapped = 0 /\ registry.entries = <<>>
            /\ pool.status = "Ok" =>
                 /\ issues \in Nat /\ map.unaccounted = issues
                 /\ map.mapped + issues = pool.traversed
                 /\ issues = 0 <=> \A i \in DOMAIN registry.entries : registry.entries[i].status = "Ok"
                 /\ map.status = IF issues = 0 THEN "Ok" ELSE "RetailRegistryIdentityMismatch"
<1> DEFINE map == ClassMap(pool, registry, c)
<1>1. CASE pool.status # "Ok"
  BY <1>1 DEF ClassMap, NoClassMap, RegistryAddsUp, NoRegistry
<1>2. CASE pool.status = "Ok"
  <2> DEFINE counts == ClassMapCounts(registry, c)
             entries == registry.entries
             refused == DOMAIN entries \ Confirmed(entries)
  <2>1. /\ counts.records = registry.records /\ counts.active = registry.active
        /\ counts.inactive = registry.inactive /\ counts.mapped = Cardinality(Confirmed(entries))
        /\ counts.issues = Cardinality(refused) /\ counts.unaccounted = counts.issues
        /\ counts.status = "Ok"
        /\ {"status", "unaccounted", "mapped", "issues"} \subseteq DOMAIN counts
    BY DEF ClassMapCounts
  <2>2. /\ counts.runtimeOnly = Cardinality(Confirmed(entries) \ Known(entries, c.classes))
        /\ \A k \in Kinds : counts.kinds[k] = Cardinality(OfKind(entries, c.classes, k))
    BY DEF ClassMapCounts
  <2>3. /\ IsFiniteSet(DOMAIN entries) /\ Cardinality(DOMAIN entries) = pool.traversed
    BY <1>2 DEF RegistryAddsUp
  <2> HIDE DEF counts
  <2>4. /\ Confirmed(entries) \in SUBSET DOMAIN entries
        /\ counts.kinds["RenderableTopology"] + counts.kinds["IntentionallyInvisible"]
             + counts.kinds["ClassOnly"] + counts.runtimeOnly = counts.mapped
    BY <2>1, <2>2, <2>3, KindsPartitionConfirmed DEF Kinds
  <2>5. /\ counts.mapped + counts.issues = pool.traversed
        /\ counts.mapped \in Nat /\ counts.issues \in Nat
    BY <2>1, <2>3, <2>4, PartAndRest
  <2>6. CountsMatch(pool, registry, counts)
    BY <1>2, <2>1, <2>3, <2>4, <2>5 DEF RegistryAddsUp, CountsMatch
  <2>7. counts.issues = 0 <=> \A i \in DOMAIN entries : entries[i].status = "Ok"
    <3>1. IsFiniteSet(refused)
      BY <2>3, FS_Difference
    <3>2. Cardinality(refused) = 0 <=> refused = {}
      BY <3>1, FS_EmptySet
    <3> QED
      BY <2>1, <3>2 DEF Confirmed
  <2>8. c.classes # <<>> /\ registry.status = "Ok"
    BY <1>2, LiveFrameAssumption DEF RegistryAddsUp
  <2>9. /\ map.mapped = counts.mapped /\ map.issues = counts.issues
        /\ map.unaccounted = counts.issues
        /\ map.status = IF counts.issues = 0 THEN "Ok" ELSE "RetailRegistryIdentityMismatch"
    BY <1>2, <2>1, <2>6, <2>8 DEF ClassMap, counts
  <2> HIDE DEF map
  <2> QED
    BY <1>2, <2>5, <2>7, <2>9 DEF map
<1> QED
  BY <1>1, <1>2

----------------------------------------------------------------------------
(* The frame's report, part by part.                                       *)
LEMMA SceneReportBalances ==
  ASSUME NEW scene \in BOOLEAN, requested \in BOOLEAN, scene => requested
  PROVE  LET r == SceneReport(scene) IN r.mapped = r.rendered + r.deferred /\ r.unaccounted = 0
BY DEF SceneReport, One

LEMMA SkyReportBalances ==
  ASSUME catalog \in Catalogs, NEW scene \in BOOLEAN
  PROVE  LET r == SkyReport(scene)
         IN /\ r.mapped = r.rendered + r.deferred
            /\ r.unaccounted = 0 <=> r.status \in {"Ok", "LiveTransformDeferred"}
<1> DEFINE status == SkyMapStatus(catalog.shells, snap.sky)
           map == SkyMap(catalog.shells, snap.sky)
<1>1. catalog.ready = TRUE /\ catalog.shells # <<>>
  BY LiveFrameAssumption
<1>2. status \in {"ShellCountMismatch", "ShellIdentityMismatch", "LiveTransformInvalid",
                  "LiveTransformDeferred", "Ok"}
  BY <1>1 DEF SkyMapStatus
<1> HIDE DEF status
<1>3. /\ map.status = status /\ map.mapped = 1
      /\ map.materialized = IF status = "Ok" THEN 1 ELSE 0
      /\ map.unaccounted = IF status \in {"Ok", "LiveTransformDeferred"} THEN 0 ELSE 1
  BY <1>2 DEF SkyMap, status
<1> HIDE DEF map
<1> QED
  BY <1>1, <1>2, <1>3 DEF SkyReport, One, map

LEMMA MobyReportBalances ==
  ASSUME catalog \in Catalogs, NEW scene \in BOOLEAN, NEW applied \in ApplyStatuses,
         gpuReady \in BOOLEAN, RegistryAddsUp(snap.pool, snap.registry),
         snap.frame = "Ok" => snap.pool.status = "Ok" /\ snap.pool.ratchets = 1
  PROVE  LET r == MobyReport(scene, applied)
         IN /\ r.ordered => r.mapped = r.rendered + r.deferred
            /\ ~r.ordered => r.map.status = "RetailRegistryIdentityMismatch"
            /\ r.map.status # "AccountingMismatch"
            /\ r.unaccounted = 0 /\ r.healthy <=>
                 \A i \in DOMAIN snap.registry.entries : snap.registry.entries[i].status = "Ok"
<1> DEFINE map == ClassMap(snap.pool, snap.registry, catalog)
           r == MobyReport(scene, applied)
           materialized == One(applied = "Ok" /\ snap.frame = "Ok")
           rendered == One(scene /\ materialized = 1 /\ GpuReadyAfter(applied))
           allConfirmed ==
             \A i \in DOMAIN snap.registry.entries : snap.registry.entries[i].status = "Ok"
<1>1. catalog.ready = TRUE
  BY LiveFrameAssumption
<1>2. /\ map.mapped \in Nat
      /\ snap.pool.status # "Ok" =>
           map.status = "PoolUnavailable" /\ map.mapped = 0 /\ snap.registry.entries = <<>>
      /\ snap.pool.status = "Ok" =>
           /\ map.issues \in Nat /\ map.unaccounted = map.issues
           /\ map.mapped + map.issues = snap.pool.traversed
           /\ map.issues = 0 <=> allConfirmed
           /\ map.status = IF map.issues = 0 THEN "Ok" ELSE "RetailRegistryIdentityMismatch"
  BY ClassMapBalances
<1>3. /\ materialized \in {0, 1} /\ rendered \in {0, 1} /\ rendered <= materialized
      /\ materialized = 1 => snap.frame = "Ok"
  BY DEF One
<1>4. materialized = 1 => snap.pool.status = "Ok" /\ snap.pool.traversed > 0
  BY <1>3 DEF RegistryAddsUp
<1> HIDE DEF map, materialized, rendered
<1> DEFINE ordered == materialized <= map.mapped /\ rendered <= materialized
<1>5. /\ r.map = map /\ r.mapped = map.mapped /\ r.rendered = rendered
      /\ r.ordered <=> ordered
      /\ r.deferred = IF ordered THEN map.mapped - rendered ELSE 0
      /\ r.unaccounted = (IF catalog.ready /\ snap.pool.status = "Ok" THEN map.unaccounted ELSE 0)
                           + One(~ordered)
      /\ r.healthy <=> ~(catalog.ready /\ snap.pool.status = "Ok") \/ map.status = "Ok"
  BY DEF MobyReport, map, materialized, rendered
<1> HIDE DEF r, ordered
<1>6. ~ordered => snap.pool.status = "Ok" /\ map.issues > 0
  BY <1>2, <1>3, <1>4 DEF ordered
<1>7. ordered => map.mapped = rendered + (map.mapped - rendered)
  BY <1>2, <1>3
<1>8. CASE snap.pool.status # "Ok"
  <2>1. allConfirmed
    BY <1>2, <1>8
  <2> QED
    BY <1>2, <1>5, <1>6, <1>7, <1>8, <2>1 DEF r, One
<1>9. CASE snap.pool.status = "Ok"
  <2>1. r.unaccounted = map.issues + One(~ordered) /\ (r.healthy <=> map.issues = 0)
    BY <1>1, <1>2, <1>5, <1>9
  <2>2. r.unaccounted = 0 /\ r.healthy <=> map.issues = 0
    BY <1>2, <1>6, <1>9, <2>1 DEF One
  <2> QED
    BY <1>2, <1>5, <1>6, <1>7, <1>9, <2>2 DEF r
<1> QED
  BY <1>8, <1>9

(* The whole report, for a snapshot that is sound.                         *)
ReportSound(r) ==
  /\ \A part \in {r.scene, r.sky} : part.mapped = part.rendered + part.deferred
  /\ r.moby.ordered => r.moby.mapped = r.moby.rendered + r.moby.deferred
  /\ ~r.moby.ordered => r.moby.map.status = "RetailRegistryIdentityMismatch"
  /\ r.moby.map.status # "AccountingMismatch"
  /\ r.ok <=>
       /\ \A i \in DOMAIN snap.registry.entries : snap.registry.entries[i].status = "Ok"
       /\ r.sky.status \in {"Ok", "LiveTransformDeferred"}
       /\ snap.frame \notin {"PoseDecodeFailed", "SkinExecutionFailed"}
       /\ r.applied # "GpuUploadFailed"

LEMMA ReportBalances ==
  ASSUME catalog \in Catalogs, requested \in BOOLEAN, gpuReady \in BOOLEAN,
         NEW scene \in BOOLEAN, scene => requested, NEW applied \in ApplyStatuses,
         RegistryAddsUp(snap.pool, snap.registry), snap.frame \in FrameStatuses,
         snap.frame = "Ok" =>
           snap.pool.status = "Ok" /\ snap.pool.ratchets = 1 /\ snap.animation.moby # 0,
         IdentityStatus(TRUE, snap.animation, snap.transform)
           \notin {"MobyAddressMismatch", "OClassMismatch"}
  PROVE  ReportSound(Report(scene, applied))
<1> DEFINE r == Report(scene, applied)
           sky == SkyReport(scene)
           moby == MobyReport(scene, applied)
<1>1. catalog.ready = TRUE
  BY LiveFrameAssumption
<1>2. /\ SceneReport(scene).mapped = SceneReport(scene).rendered + SceneReport(scene).deferred
      /\ SceneReport(scene).unaccounted = 0
  BY SceneReportBalances
<1>3. /\ sky.mapped = sky.rendered + sky.deferred
      /\ sky.unaccounted = 0 <=> sky.status \in {"Ok", "LiveTransformDeferred"}
  BY SkyReportBalances
<1>4. /\ moby.ordered => moby.mapped = moby.rendered + moby.deferred
      /\ ~moby.ordered => moby.map.status = "RetailRegistryIdentityMismatch"
      /\ moby.map.status # "AccountingMismatch"
      /\ moby.unaccounted = 0 /\ moby.healthy <=>
           \A i \in DOMAIN snap.registry.entries : snap.registry.entries[i].status = "Ok"
  BY MobyReportBalances
<1>5. PoolUnaccounted = 0
  BY DEF RegistryAddsUp, PoolUnaccounted
<1>6. Identity \notin {"MobyAddressMismatch", "OClassMismatch"}
  BY <1>1 DEF Identity
<1>7. applied \in {"FrameNotMaterialized", "Ok", "GpuUploadFailed"}
  BY <1>1 DEF ApplyStatuses
<1>8. snap.frame \in {"RendererNotReady", "IdentityNotMapped", "AnimationNotMaterialized",
                      "TransformNotMaterialized", "Ok"}
        <=> snap.frame \notin {"PoseDecodeFailed", "SkinExecutionFailed"}
  BY DEF FrameStatuses
<1> HIDE DEF sky, moby
<1>9. /\ r.scene = SceneReport(scene) /\ r.sky = sky /\ r.moby = moby /\ r.applied = applied
      /\ r.ok <=> /\ SceneReport(scene).unaccounted = 0 /\ sky.unaccounted = 0
                  /\ moby.unaccounted = 0 /\ PoolUnaccounted = 0 /\ moby.healthy
                  /\ Identity \notin {"MobyAddressMismatch", "OClassMismatch"}
                  /\ snap.frame \in {"RendererNotReady", "IdentityNotMapped",
                                     "AnimationNotMaterialized", "TransformNotMaterialized", "Ok"}
                  /\ applied \in {"FrameNotMaterialized", "Ok"}
  BY DEF Report, sky, moby
<1> HIDE DEF r
<1> QED
  BY <1>2, <1>3, <1>4, <1>5, <1>6, <1>7, <1>8, <1>9 DEF r, ReportSound

----------------------------------------------------------------------------
(* The invariant holds at first.                                           *)
LEMMA InitLive == LiveInit => LiveInv
<1> SUFFICES ASSUME LiveInit PROVE LiveInv
  OBVIOUS
<1> USE DEF LiveInit
<1>1. LiveTypeOK
  <2>1. writes \in 0 .. MaxWrites /\ tick \in 0 .. DiagnosticPeriod - 1 /\ control.ratchet \in Nat
    BY LiveFrameAssumption
  <2>2. catalog \in Catalogs \cup {NoCatalog} /\ phase \in {"idle", "inspected", "loaded"}
    OBVIOUS
  <2> QED
    BY <2>1, <2>2 DEF LiveTypeOK
<1>2. MemoryOK(mem)
  BY GuestMemoryAssumption
<1>3. NothingLoadedEarly /\ FrameInProgress /\ SnapshotSound
  BY DEF NothingLoadedEarly, FrameInProgress, SnapshotSound
<1>4. PacketsInGuestMemory /\ RatchetIdentityNeverTorn /\ AccountingBalances
  BY DEF PacketsInGuestMemory, RatchetIdentityNeverTorn, AccountingBalances
<1>5. SkyDrawnIsLoadedSky
  BY DEF SkyDrawnIsLoadedSky, NothingDrawn
<1> QED
  BY <1>1, <1>2, <1>3, <1>4, <1>5 DEF LiveInv

(* Whatever the guest writes, memory holds numbers where numbers are read. *)
LEMMA WritesKeepMemory ==
  ASSUME MemoryOK(mem), WriteMoby \/ WriteGlobal
  PROVE  MemoryOK(mem')
<1>1. CASE WriteMoby
  <2>1. PICK w \in MobyWrites : mem' = [mem EXCEPT !.moby[w[1]][w[2]] = w[3]]
    BY <1>1 DEF WriteMoby
  <2>2. /\ w[1] \in Slot /\ (w[2] \in {"state", "oClass"} => w[3] \in Int)
        /\ (w[2] \in {"a", "b"} => w[3] \in Endpoints)
    BY GuestMemoryAssumption
  <2>3. MobyOK([mem.moby[w[1]] EXCEPT ![w[2]] = w[3]])
    BY <2>2 DEF MemoryOK, MobyOK
  <2>4. mem'.moby = [mem.moby EXCEPT ![w[1]] = [mem.moby[w[1]] EXCEPT ![w[2]] = w[3]]]
    BY <2>1 DEF MemoryOK
  <2>5. DOMAIN mem'.moby = Slot /\ \A s \in Slot : MobyOK(mem'.moby[s])
    BY <2>2, <2>3, <2>4 DEF MemoryOK
  <2>6. /\ DOMAIN mem' = DOMAIN mem /\ mem'.base = mem.base /\ mem'.skyPointer = mem.skyPointer
        /\ mem'.packet = mem.packet /\ mem'.sky = mem.sky
    BY <2>1 DEF MemoryOK
  <2> QED
    BY <2>5, <2>6 DEF MemoryOK
<1>2. CASE WriteGlobal
  <2>1. PICK w \in GlobalWrites : mem' = [mem EXCEPT ![w[1]] = w[2]]
    BY <1>2 DEF WriteGlobal
  <2>2. /\ w[1] # "moby" /\ (w[1] \in {"base", "skyPointer"} => w[2] \in Nat)
        /\ (w[1] = "packet" => PacketsOK(w[2])) /\ (w[1] = "sky" => SkiesOK(w[2]))
    BY GuestMemoryAssumption
  <2>3. /\ DOMAIN mem' = DOMAIN mem /\ mem'.moby = mem.moby
        /\ \A f \in DOMAIN mem : mem'[f] = IF f = w[1] THEN w[2] ELSE mem[f]
    BY <2>1, <2>2 DEF MemoryOK
  <2>4. mem'.base \in Nat /\ mem'.skyPointer \in Nat
    BY <2>2, <2>3 DEF MemoryOK
  <2>5. PacketsOK(mem'.packet) /\ SkiesOK(mem'.sky)
    BY <2>2, <2>3 DEF MemoryOK
  <2> QED
    BY <2>3, <2>4, <2>5 DEF MemoryOK
<1> QED
  BY <1>1, <1>2

(* What Inspect sees is sound, whatever was in memory.                     *)
LEMMA InspectionIsSound ==
  ASSUME LiveInv, Inspect
  PROVE  SnapshotSound' /\ PacketsInGuestMemory' /\ RatchetIdentityNeverTorn'
<1> DEFINE pool == Pool(mem)
           animation == Animation(mem, pool)
           transform == Transform(pool)
           frame == FrameStatus(mem, catalog, animation, transform)
<1>1. MemoryOK(mem)
  BY DEF LiveInv
<1>2. /\ snap' = SnapshotOf(pool, pool) /\ tick' = (tick + 1) % DiagnosticPeriod
      /\ control' = IF DiagnosticTick THEN ControlState(mem, pool) ELSE control
      /\ mem' = mem
  BY DEF Inspect, InspectWith, guestVars
<1>3. /\ snap'.pool = pool /\ snap'.registry = ClassRegistry(mem, pool)
      /\ snap'.animation = animation /\ snap'.transform = transform
      /\ snap'.sky = Sky(mem) /\ snap'.frame = frame
  BY <1>2 DEF SnapshotOf
<1>4. frame = "Ok" => IdentityStatus(TRUE, animation, transform) = "Ok"
  BY DEF FrameStatus
<1>5. LET identity == IdentityStatus(TRUE, animation, transform)
      IN /\ identity \notin {"MobyAddressMismatch", "OClassMismatch"}
         /\ identity = "Ok" =>
              /\ pool.status = "Ok" /\ pool.ratchets = 1
              /\ animation.moby = RatchetOf(pool).address
              /\ transform.moby = RatchetOf(pool).address
              /\ RatchetOf(pool).address # 0
  BY <1>1, InspectorsAgree
<1>6. SnapshotSound'
  <2>1. RegistryAddsUp(pool, ClassRegistry(mem, pool))
    BY <1>1, PoolAndRegistryAddUp
  <2>2. ShellsInRam(Sky(mem))
    BY <1>1, SkyShellsInRam
  <2>3. frame \in FrameStatuses
    BY FrameStatusInRange
  <2> HIDE DEF pool, animation, transform, frame
  <2>4. RegistryAddsUp(snap'.pool, snap'.registry) /\ ShellsInRam(snap'.sky)
    BY <1>3, <2>1, <2>2
  <2>5. snap'.frame = "Ok" => snap'.pool.status = "Ok" /\ snap'.animation.moby # 0
    BY <1>3, <1>4, <1>5
  <2> QED
    BY <1>3, <2>3, <2>4, <2>5 DEF SnapshotSound
<1>7. PacketsInGuestMemory'
  <2>1. SUFFICES ASSUME frame = "Ok"
                 PROVE  /\ animation.external = Len(NativeBank)
                        /\ \A e \in {animation.a, animation.b} :
                             /\ PacketInMemory(e)
                             /\ e.kind = "ExternalSequence" => e.frame < NativeBank[e.sequence + 1]
    <3> HIDE DEF pool, animation, transform, frame
    <3> QED
      BY <1>3 DEF PacketsInGuestMemory, PacketInMemory
  <2> QED
    BY <1>1, <2>1, PreparedPose
<1>8. RatchetIdentityNeverTorn'
  <2>1. ASSUME tick' = 1 % DiagnosticPeriod PROVE tick = 0
    <3>1. DiagnosticPeriod \in Nat \ {0} /\ tick \in 0 .. DiagnosticPeriod - 1
      BY LiveFrameAssumption DEF LiveInv, LiveTypeOK
    <3>2. CASE tick + 1 = DiagnosticPeriod
      <4>1. tick' = 0
        BY <1>2, <3>1, <3>2
      <4>2. DiagnosticPeriod # 1 => 1 % DiagnosticPeriod = 1
        BY <3>1
      <4> QED
        BY <2>1, <3>1, <3>2, <4>1, <4>2
    <3>3. CASE tick + 1 # DiagnosticPeriod
      <4>1. tick' = tick + 1 /\ DiagnosticPeriod > 1
        BY <1>2, <3>1, <3>3
      <4>2. 1 % DiagnosticPeriod = 1
        BY <3>1, <4>1
      <4> QED
        BY <2>1, <3>1, <4>1, <4>2
    <3> QED
      BY <3>2, <3>3
  <2>2. ASSUME tick' = 1 % DiagnosticPeriod, control'.status = "Ok"
        PROVE  control'.ratchet = RatchetOf(pool).address
    <3>1. control' = ControlState(mem, pool)
      BY <1>2, <2>1, <2>2 DEF DiagnosticTick
    <3>2. pool.status = "Ok" /\ pool.ratchets = 1
      BY <2>2, <3>1 DEF ControlState, ControlStatus
    <3> QED
      BY <3>1, <3>2 DEF ControlState
  <2> HIDE DEF pool, animation, transform, frame
  <2>3. /\ IdentityStatus(TRUE, snap'.animation, snap'.transform)
             \notin {"MobyAddressMismatch", "OClassMismatch"}
        /\ snap'.frame = "Ok" =>
             /\ snap'.pool.ratchets = 1
             /\ {snap'.animation.moby, snap'.transform.moby} = {RatchetOf(snap'.pool).address}
    BY <1>3, <1>4, <1>5
  <2> QED
    BY <1>3, <2>2, <2>3 DEF RatchetIdentityNeverTorn
<1> QED
  BY <1>6, <1>7, <1>8

(* Every step keeps the invariant.                                         *)
LEMMA InspectKeeps ==
  ASSUME LiveInv, Inspect
  PROVE  LiveInv'
<1> USE DEF LiveInv
<1>1. /\ UNCHANGED <<guestVars, attempted, catalog, gpuReady, native>>
      /\ phase' = "inspected" /\ tick' = (tick + 1) % DiagnosticPeriod
      /\ drawn' = NothingDrawn /\ report' = NoReport
      /\ snap' = SnapshotOf(Pool(mem), Pool(mem))
      /\ control' = IF DiagnosticTick THEN ControlState(mem, Pool(mem)) ELSE control
  BY DEF Inspect, InspectWith
<1>2. LiveTypeOK'
  <2>1. tick' \in 0 .. DiagnosticPeriod - 1
    BY <1>1, LiveFrameAssumption DEF LiveTypeOK
  <2>2. control'.ratchet \in Nat
    <3>1. ControlState(mem, Pool(mem)).ratchet \in Nat
      BY RatchetAddress DEF ControlState
    <3> QED
      BY <1>1, <3>1 DEF LiveTypeOK
  <2> QED
    BY <1>1, <2>1, <2>2 DEF LiveTypeOK, guestVars
<1>3. MemoryOK(mem)' /\ NothingLoadedEarly'
  BY <1>1 DEF guestVars, NothingLoadedEarly
<1>4. FrameInProgress'
  <2>1. "registry" \in DOMAIN snap' /\ "registry" \notin DOMAIN NoSnapshot
    BY <1>1 DEF SnapshotOf, NoSnapshot
  <2> QED
    BY <1>1, <2>1 DEF FrameInProgress
<1>5. AccountingBalances' /\ SkyDrawnIsLoadedSky'
  BY <1>1 DEF AccountingBalances, SkyDrawnIsLoadedSky, NothingDrawn
<1> QED
  BY <1>2, <1>3, <1>4, <1>5, InspectionIsSound

LEMMA LoadKeeps ==
  ASSUME LiveInv, EnsureMappedLevelLoaded
  PROVE  LiveInv'
<1> USE DEF LiveInv
<1>1. /\ UNCHANGED <<guestVars, native, tick, snap, control, drawn, report>>
      /\ phase = "inspected" /\ phase' = "loaded"
      /\ \/ /\ requested /\ ~attempted /\ attempted' = TRUE /\ gpuReady' = FALSE
            /\ catalog' \in Catalogs \cup {NoCatalog}
         \/ UNCHANGED <<attempted, gpuReady, catalog>>
  BY DEF EnsureMappedLevelLoaded
<1>2. UNCHANGED <<mem, writes, requested>>
  BY <1>1 DEF guestVars
<1>3. LiveTypeOK' /\ NothingLoadedEarly'
  <2>1. CASE requested /\ ~attempted /\ attempted' = TRUE /\ gpuReady' = FALSE
             /\ catalog' \in Catalogs \cup {NoCatalog}
    <3>1. ~native
      BY <2>1 DEF NothingLoadedEarly, NoCatalog, LiveTypeOK
    <3> QED
      BY <1>1, <1>2, <2>1, <3>1 DEF LiveTypeOK, NothingLoadedEarly
  <2>2. CASE UNCHANGED <<attempted, gpuReady, catalog>>
    BY <1>1, <1>2, <2>2 DEF LiveTypeOK, NothingLoadedEarly
  <2> QED
    BY <1>1, <2>1, <2>2
<1>4. MemoryOK(mem)' /\ SnapshotSound' /\ FrameInProgress'
  BY <1>1, <1>2 DEF SnapshotSound, FrameInProgress
<1>5. PacketsInGuestMemory' /\ RatchetIdentityNeverTorn' /\ AccountingBalances'
  BY <1>1 DEF PacketsInGuestMemory, RatchetIdentityNeverTorn, AccountingBalances
<1>6. SkyDrawnIsLoadedSky'
  BY <1>1 DEF FrameInProgress, SkyDrawnIsLoadedSky, NothingDrawn
<1> QED
  BY <1>3, <1>4, <1>5, <1>6

LEMMA GuestKeeps ==
  ASSUME LiveInv, GuestWrite \/ MapLevel \/ UNCHANGED liveVars
  PROVE  LiveInv'
<1> USE DEF LiveInv
<1>1. UNCHANGED hostVars
  BY DEF GuestWrite, MapLevel, liveVars
<1>2. UNCHANGED <<attempted, catalog, gpuReady, native, tick, phase, snap, control, drawn, report>>
  BY <1>1 DEF hostVars
<1>3. writes' \in 0 .. MaxWrites /\ requested' \in BOOLEAN /\ (requested => requested')
  <2>1. CASE GuestWrite
    <3>1. writes < MaxWrites /\ writes' = writes + 1 /\ requested' = requested
      BY <2>1 DEF GuestWrite
    <3>2. writes' \in 0 .. MaxWrites
      BY <3>1, LiveFrameAssumption DEF LiveTypeOK
    <3> QED
      BY <3>1, <3>2 DEF LiveTypeOK
  <2>2. CASE MapLevel
    BY <2>2 DEF MapLevel, LiveTypeOK
  <2>3. CASE UNCHANGED liveVars
    BY <2>3 DEF liveVars, guestVars, LiveTypeOK
  <2> QED
    BY <2>1, <2>2, <2>3
<1>4. MemoryOK(mem)'
  BY WritesKeepMemory DEF GuestWrite, MapLevel, liveVars, guestVars
<1>5. LiveTypeOK'
  BY <1>2, <1>3 DEF LiveTypeOK
<1>6. NothingLoadedEarly' /\ FrameInProgress' /\ SnapshotSound'
  BY <1>2 DEF NothingLoadedEarly, FrameInProgress, SnapshotSound
<1>7. /\ PacketsInGuestMemory' /\ RatchetIdentityNeverTorn'
      /\ AccountingBalances' /\ SkyDrawnIsLoadedSky'
  BY <1>2 DEF PacketsInGuestMemory, RatchetIdentityNeverTorn, AccountingBalances,
              SkyDrawnIsLoadedSky
<1> QED
  BY <1>4, <1>5, <1>6, <1>7

LEMMA DrawKeeps ==
  ASSUME LiveInv, DrawFrame
  PROVE  LiveInv'
<1> USE DEF LiveInv
<1> DEFINE scene == catalog.ready /\ snap.camera = "Ok"
           placed == SkyMap(catalog.shells, snap.sky).materialized = 1
<1>1. PICK applied \in ApplyStatuses, level0 \in BOOLEAN :
        /\ gpuReady' = GpuReadyAfter(applied)
        /\ native' = (native \/ (level0 /\ requested /\ scene))
        /\ IF native'
           THEN /\ drawn' = [scene |-> scene,
                             sky |-> IF scene /\ placed THEN snap.sky.shells ELSE <<>>,
                             ratchet |-> scene /\ gpuReady']
                /\ report' = Report(scene, applied)
           ELSE UNCHANGED <<drawn, report>>
  BY DEF DrawFrame
<1>2. /\ phase = "loaded" /\ phase' = "idle"
      /\ UNCHANGED <<mem, writes, requested, attempted, catalog, tick, snap, control>>
  BY DEF DrawFrame, guestVars
<1>3. snap # NoSnapshot /\ drawn = NothingDrawn /\ report = NoReport
  BY <1>2 DEF FrameInProgress
<1>4. scene \in BOOLEAN /\ gpuReady' \in BOOLEAN /\ native' \in BOOLEAN
  BY <1>1 DEF GpuReadyAfter, LiveTypeOK
<1>5. catalog.ready \in BOOLEAN /\ (catalog.ready => catalog \in Catalogs /\ requested)
  <2>1. CASE catalog = NoCatalog
    BY <2>1 DEF NoCatalog
  <2>2. CASE catalog # NoCatalog
    <3>1. catalog \in Catalogs /\ attempted /\ requested
      BY <2>2 DEF LiveTypeOK, NothingLoadedEarly
    <3>2. catalog.ready = TRUE
      BY <3>1, LiveFrameAssumption
    <3> QED
      BY <3>1, <3>2
  <2> QED
    BY <2>1, <2>2
<1>6. (gpuReady' => catalog.ready) /\ (native' => catalog.ready)
  BY <1>1, <1>5 DEF GpuReadyAfter, ApplyStatuses, LiveTypeOK
<1>7. LiveTypeOK' /\ NothingLoadedEarly'
  BY <1>2, <1>4, <1>6 DEF LiveTypeOK, NothingLoadedEarly
<1>8. MemoryOK(mem)' /\ FrameInProgress' /\ SnapshotSound'
  BY <1>2 DEF FrameInProgress, SnapshotSound
<1>9. PacketsInGuestMemory' /\ RatchetIdentityNeverTorn'
  BY <1>2 DEF PacketsInGuestMemory, RatchetIdentityNeverTorn
<1>10. AccountingBalances'
  <2>1. CASE ~native'
    BY <1>1, <1>3, <2>1 DEF AccountingBalances
  <2>2. CASE native'
    <3>1. report' = Report(scene, applied) /\ catalog \in Catalogs /\ (scene => requested)
      BY <1>1, <1>5, <1>6, <2>2
    <3>2. /\ RegistryAddsUp(snap.pool, snap.registry) /\ snap.frame \in FrameStatuses
          /\ snap.frame = "Ok" =>
               snap.pool.status = "Ok" /\ snap.pool.ratchets = 1 /\ snap.animation.moby # 0
          /\ IdentityStatus(TRUE, snap.animation, snap.transform)
               \notin {"MobyAddressMismatch", "OClassMismatch"}
      BY <1>3 DEF SnapshotSound, RatchetIdentityNeverTorn
    <3>3. requested \in BOOLEAN /\ gpuReady \in BOOLEAN
      BY DEF LiveTypeOK
    <3>4. ReportSound(report')
      <4> HIDE DEF scene
      <4>1. ReportSound(Report(scene, applied))
        BY <1>4, <3>1, <3>2, <3>3, ReportBalances
      <4> QED
        BY <3>1, <4>1
    <3> QED
      BY <1>2, <3>4 DEF AccountingBalances, ReportSound
  <2> QED
    BY <1>4, <2>1, <2>2
<1>11. SkyDrawnIsLoadedSky'
  <2>1. CASE ~(native' /\ scene /\ placed)
    BY <1>1, <1>3, <2>1 DEF SkyDrawnIsLoadedSky, NothingDrawn
  <2>2. CASE native' /\ scene /\ placed
    <3>1. drawn'.sky = snap.sky.shells
      BY <1>1, <2>2
    <3>2. SkyMapStatus(catalog.shells, snap.sky) = "Ok"
      BY <2>2 DEF SkyMap
    <3>3. /\ snap.sky.identityMaterialized /\ snap.sky.status = "Ok"
          /\ Len(snap.sky.shells) = Len(catalog.shells)
          /\ \A i \in DOMAIN catalog.shells :
               SameShell(snap.sky.shells[i], catalog.shells[i], snap.sky.address)
      BY <3>2 DEF SkyMapStatus
    <3>4. ShellsInRam(snap.sky)
      BY <1>3 DEF SnapshotSound
    <3>5. catalog.shells \in Seq([offset : Nat, clusters : Nat, flags : Nat])
      BY <1>5, <2>2, LiveFrameAssumption
    <3>6. DOMAIN catalog.shells = DOMAIN snap.sky.shells
      BY <3>3, <3>4, <3>5 DEF ShellsInRam
    <3>7. ASSUME NEW i \in DOMAIN snap.sky.shells
          PROVE  /\ InRam(snap.sky.shells[i].at, 1)
                 /\ snap.sky.shells[i].at - snap.sky.address = catalog.shells[i].offset
                 /\ snap.sky.shells[i].clusters = catalog.shells[i].clusters
                 /\ snap.sky.shells[i].flags = catalog.shells[i].flags
      <4>1. catalog.shells[i] \in [offset : Nat, clusters : Nat, flags : Nat]
        <5> DEFINE NativeShell == [offset : Nat, clusters : Nat, flags : Nat]
        <5>1. catalog.shells \in Seq(NativeShell) /\ i \in DOMAIN catalog.shells
          BY <3>5, <3>6
        <5> HIDE DEF NativeShell
        <5>2. catalog.shells[i] \in NativeShell
          BY <5>1
        <5> QED
          BY <5>2 DEF NativeShell
      <4>2. catalog.shells[i].offset \in Nat /\ snap.sky.address \in Nat
        BY <3>3, <3>4, <4>1 DEF ShellsInRam
      <4> QED
        BY <3>3, <3>4, <3>6, <4>2 DEF SameShell, ShellsInRam
    <3> QED
      BY <1>2, <3>1, <3>3, <3>7 DEF SkyDrawnIsLoadedSky
  <2> QED
    BY <1>4, <2>1, <2>2
<1> QED
  BY <1>7, <1>8, <1>9, <1>10, <1>11

----------------------------------------------------------------------------
THEOREM LiveInvariant == LiveSpec => []LiveInv
<1>1. LiveInv /\ [LiveNext]_liveVars => LiveInv'
  BY InspectKeeps, LoadKeeps, GuestKeeps, DrawKeeps DEF LiveNext
<1> QED
  BY InitLive, <1>1, PTL DEF LiveSpec

(* The frame's state stays well typed, for any memory and any catalogues.  *)
THEOREM LiveTypeCorrect == LiveSpec => []LiveTypeOK
<1>1. LiveInv => LiveTypeOK
  BY DEF LiveInv
<1> QED
  BY LiveInvariant, <1>1, PTL

(* Whatever the guest left in memory, a pose that is prepared comes from   *)
(* packets inside it, of the slot, the frame table or the bank they claim. *)
THEOREM PosePacketsInMemory == LiveSpec => []PacketsInGuestMemory
<1>1. LiveInv => PacketsInGuestMemory
  BY DEF LiveInv
<1> QED
  BY LiveInvariant, <1>1, PTL

(* Pose, placement and lifecycle state of one frame are of one moby.       *)
THEOREM RatchetIsOne == LiveSpec => []RatchetIdentityNeverTorn
<1>1. LiveInv => RatchetIdentityNeverTorn
  BY DEF LiveInv
<1> QED
  BY LiveInvariant, <1>1, PTL

(* The accounting adds up for a pool of any size, and reports an error     *)
(* exactly when something it saw is wrong.                                 *)
THEOREM FrameAccountingBalances == LiveSpec => []AccountingBalances
<1>1. LiveInv => AccountingBalances
  BY DEF LiveInv
<1> QED
  BY LiveInvariant, <1>1, PTL

(* Every shell drawn is the loaded level's, at its place in the sky.       *)
THEOREM SkyIsLoadedSky == LiveSpec => []SkyDrawnIsLoadedSky
<1>1. LiveInv => SkyDrawnIsLoadedSky
  BY DEF LiveInv
<1> QED
  BY LiveInvariant, <1>1, PTL
=============================================================================
