---------------------------- MODULE LiveAnimation ----------------------------
(***************************************************************************)
(* Which two animation packets Ratchet's moby selects in guest memory, and *)
(* whether the native animation bank can decode them.                      *)
(*                                                                         *)
(* mem.class[p] is the sequence table of the class at p (0: a slot of the  *)
(* external bank), mem.sequence[p] the frame table of a class-local        *)
(* sequence, mem.packet[p] the payload length and quality of the packet at *)
(* p.  Lengths are in units of one header or one payload qword.            *)
(* The A and B spellings of a status are one here.                         *)
(***************************************************************************)
EXTENDS LiveState

CONSTANTS
  TransitionBase,       \* kTransitionCacheBase
  TransitionSlots,      \* kTransitionCacheSlotCount
  TransitionSlotSize,   \* kTransitionCacheSlotBytes
  NativeBank            \* frames of each sequence of the native Ratchet class

ASSUME LiveAnimationAssumption ==
  /\ {TransitionBase, TransitionSlots, TransitionSlotSize} \subseteq Nat \ {0}
  /\ NativeBank \in Seq(Nat)

TransitionSequence == 255

\* externalSequencePrefixCount: the leading empty slots of the class's table.
ExternalPrefix(table) ==
  IF \A i \in DOMAIN table : table[i] = 0 THEN Len(table)
  ELSE (CHOOSE i \in DOMAIN table : table[i] # 0 /\ \A j \in 1 .. i - 1 : table[j] = 0) - 1

----------------------------------------------------------------------------
(* An endpoint: the status that resolving it ends in, what kind of         *)
(* producer it has, the packet its producer would use and the one the moby *)
(* points at.  Sequences and frames are numbered from 0.                   *)
NoEndpoint == [status |-> "None", kind |-> "None", sequence |-> 0, frame |-> 0,
               expected |-> 0, observed |-> 0, size |-> 0]

SequenceStatus(mem, table, at) ==
  LET pointer == table[at.sequence + 1]
      frames == mem.sequence[pointer]
  IN IF at.sequence >= Len(table) THEN "SequenceOutOfRange"
     ELSE IF at.sequence < ExternalPrefix(table) THEN "Ok"
     ELSE IF ~Dereferences(pointer, 2) THEN "SequencePointerOutOfRange"
     ELSE IF at.frame >= Len(frames) THEN "FrameOutOfRange"
     ELSE IF ~InRam(pointer, 2 + at.frame) \/ ~Dereferences(frames[at.frame + 1], 1)
     THEN "FramePointerOutOfRange"
     ELSE "Ok"

\* resolveSequenceIdentity
SequenceEndpoint(mem, table, at) ==
  LET status == SequenceStatus(mem, table, at)
      external == at.sequence < ExternalPrefix(table)
  IN [NoEndpoint EXCEPT
        !.status = status, !.sequence = at.sequence, !.frame = at.frame,
        !.observed = at.pointer,
        !.kind = IF external THEN "ExternalSequence" ELSE "SequenceFrame",
        !.expected = IF status = "Ok" /\ ~external
                     THEN mem.sequence[table[at.sequence + 1]][at.frame + 1] ELSE 0]

\* resolveTransitionIdentity
TransitionEndpoint(at) ==
  LET expected == TransitionBase + at.frame * TransitionSlotSize IN
  [NoEndpoint EXCEPT
     !.status = IF at.frame >= TransitionSlots THEN "TransitionSlotOutOfRange"
                ELSE IF ~InRam(expected, TransitionSlotSize) THEN "TransitionPacketOutOfRange"
                ELSE "Ok",
     !.kind = "TransitionCache", !.sequence = TransitionSequence, !.frame = at.frame,
     !.observed = at.pointer, !.expected = expected]

----------------------------------------------------------------------------
(* classifyObservedPacket, with validateObservedPacket                     *)
PacketSize(mem, pointer) == 1 + mem.packet[pointer].payload

InSlot(endpoint) == endpoint.kind = "TransitionCache" /\ endpoint.observed = endpoint.expected

HeaderOnlyStatus(mem, endpoint) ==    \* Mistake: only the header's range is tested.
  IF ~Dereferences(endpoint.observed, 1) THEN "FramePointerOutOfRange" ELSE "Ok"

PacketStatus(mem, endpoint) ==
  LET size == PacketSize(mem, endpoint.observed) IN
  IF ~Dereferences(endpoint.observed, 1) THEN "FramePointerOutOfRange"
  ELSE IF InSlot(endpoint) /\ size > TransitionSlotSize THEN "TransitionPacketOutOfRange"
  ELSE IF ~InRam(endpoint.observed, size)
  THEN IF InSlot(endpoint) THEN "TransitionPacketOutOfRange" ELSE "FramePacketInvalid"
  ELSE "Ok"

Classified(mem, endpoint) ==
  [endpoint EXCEPT
     !.status = PacketStatus(mem, endpoint),
     !.size = IF PacketStatus(mem, endpoint) = "Ok" THEN PacketSize(mem, endpoint.observed) ELSE 0,
     !.kind = IF /\ PacketStatus(mem, endpoint) = "Ok"
                 /\ endpoint.kind \in {"SequenceFrame", "TransitionCache"}
                 /\ endpoint.observed # endpoint.expected
              THEN "DirectGuestPacket" ELSE endpoint.kind]

----------------------------------------------------------------------------
(* inspectRac1LiveRatchetAnimation: A is resolved before B, both before    *)
(* either packet is looked at; the first failure is the status.            *)
NoSelection == [status |-> "None", candidates |-> 0, moby |-> 0, external |-> 0,
                a |-> NoEndpoint, b |-> NoEndpoint]

Rejected(pool, status) ==
  [NoSelection EXCEPT !.status = status,
     !.candidates = IF pool.status = "Ok" THEN pool.ratchets ELSE 0]

Selection(mem, ratchet) ==
  LET moby == ratchet.moby
      table == mem.class[moby.class]
      selected == [NoSelection EXCEPT !.candidates = 1, !.moby = ratchet.address]
      a == IF moby.a.sequence = TransitionSequence THEN TransitionEndpoint(moby.a)
           ELSE SequenceEndpoint(mem, table, moby.a)
      b == SequenceEndpoint(mem, table, moby.b)
      resolved == [selected EXCEPT !.external = ExternalPrefix(table), !.a = a, !.b = b]
      ca == Classified(mem, a)
      cb == Classified(mem, b)
  IN IF moby.interpolation # "unit" THEN [selected EXCEPT !.status = "InvalidInterpolation"]
     ELSE IF ~InRam(moby.class, 1) THEN [selected EXCEPT !.status = "ClassPointerOutOfRange"]
     ELSE IF table = <<>> THEN [selected EXCEPT !.status = "SequenceCountZero"]
     ELSE IF ~InRam(moby.class, 1 + Len(table))
     THEN [selected EXCEPT !.status = "ClassPointerOutOfRange"]
     ELSE IF a.status # "Ok" THEN [resolved EXCEPT !.status = a.status, !.b = NoEndpoint]
     ELSE IF b.status # "Ok" THEN [resolved EXCEPT !.status = b.status]
     ELSE IF moby.a.pointer = 0 /\ moby.b.pointer = 0
     THEN [resolved EXCEPT !.status = "EndpointsNotMaterialized"]
     ELSE IF ca.status # "Ok" THEN [resolved EXCEPT !.a = ca, !.status = ca.status]
     ELSE [resolved EXCEPT !.a = ca, !.b = cb, !.status = cb.status]

Animation(mem, pool) ==
  IF pool.status = "PoolNotInitialized" THEN Rejected(pool, "PoolNotReady")
  ELSE IF pool.status # "Ok" THEN Rejected(pool, "PoolInvalid")
  ELSE IF pool.ratchets = 0 THEN Rejected(pool, "NoRatchetCandidate")
  ELSE IF pool.ratchets # 1 THEN Rejected(pool, "MultipleRatchetCandidates")
  ELSE Selection(mem, RatchetOf(pool))

----------------------------------------------------------------------------
(* decodeRac1LiveRatchetPose.  Whether two packets decode together is a    *)
(* property of their contents.                                             *)
OutsideNativeBank(endpoint) ==
  /\ endpoint.kind = "ExternalSequence"
  /\ ~(endpoint.sequence < Len(NativeBank) /\ endpoint.frame < NativeBank[endpoint.sequence + 1])

PoseStatus(mem, animation) ==
  IF animation.status # "Ok" THEN "LiveSelectionInvalid"
  ELSE IF animation.external # Len(NativeBank) THEN "NativeSequenceCountMismatch"
  ELSE IF OutsideNativeBank(animation.a) \/ OutsideNativeBank(animation.b)
  THEN "NativeExternalFrameOutOfRange"
  ELSE IF \E e \in {animation.a, animation.b} : e.size = 0 \/ ~InRam(e.observed, e.size)
  THEN "GuestPacketOutOfRange"
  ELSE IF \E e \in {animation.a, animation.b} : mem.packet[e.observed].quality = "undecodable"
  THEN "PoseDecodeFailed"
  ELSE "Ok"
=============================================================================
