-------------------------- MODULE IopServiceProofs --------------------------
(***************************************************************************)
(* The two stand-ins for services of the IOP.  The SIF response bridge,    *)
(* for any number of packet slots, clients, services and calls, any table  *)
(* sizes, and a guest that is careful or not: its types, that an answer    *)
(* reaches the client it is meant for, that binds route, that one          *)
(* allocation is live, and what overwrites INIT.  The resource stash, for  *)
(* every size of RAM, stash and register: its types, that every store      *)
(* reads back, and that it implements the store it promises.               *)
(***************************************************************************)
EXTENDS SifBridge, NativeStash, FiniteSetTheorems, WellFoundedInduction, TLAPS

(* What a packet slot holds: nothing, a bind or a call of a client.        *)
PacketOK(p) ==
  \/ p.command = "none"
  \/ p.command = "BIND" /\ p.client \in Client /\ p.service \in Service
  \/ p.command = "CALL" /\ p.client \in Client /\ p.call \in Call

(* The tables can be extended: their domains are finite.                   *)
TablesFinite == IsFiniteSet(DOMAIN bindings) /\ IsFiniteSet(DOMAIN payloads)

(* A client that waits, waits for a packet of its own.                     *)
WaitsForOwnPacket ==
  \A c \in Client : waiting[c] # None =>
    packet[waiting[c]].command # "none" /\ packet[waiting[c]].client = c

(* The packets a waiting client left behind lie above the one it waits     *)
(* for, because a request takes the first slot nobody waits for.           *)
StalePacketsBehind ==
  \A s \in Slot : packet[s].command # "none" /\ waiting[packet[s].client] # None =>
    waiting[packet[s].client] <= s

(* A bind outstanding while the guest has no INIT answer is one that the   *)
(* latest reset found in flight.                                           *)
BindsCrossedReset == ~inited => InFlight("BIND") \subseteq bindsAcrossReset

SifInv ==
  /\ SifTypeOK
  /\ \A s \in Slot : PacketOK(packet[s])
  /\ TablesFinite
  /\ WaitsForOwnPacket
  /\ StalePacketsBehind
  /\ BindsCrossedReset
  /\ BoundClientsAreRouted
  /\ OneLiveAllocation
  /\ InitLostOnlyToEarlierBind

----------------------------------------------------------------------------
(* A set of naturals that is not empty has a smallest element, and         *)
(* SmallestOf is it.                                                       *)
LEMMA SmallestOfNat ==
  ASSUME NEW S \in SUBSET Nat, S # {}
  PROVE  SmallestOf(S) \in S /\ \A other \in S : SmallestOf(S) <= other
<1> DEFINE UpTo(k) == S \cap 0 .. k
           Prefixes == {UpTo(k) : k \in S}
<1>1. ASSUME NEW k \in S PROVE IsFiniteSet(UpTo(k))
  <2>1. IsFiniteSet(0 .. k)
    BY FS_Interval
  <2> QED
    BY <2>1, FS_Subset
<1>2. Prefixes \subseteq FiniteSubsetsOf(S) /\ Prefixes # {}
  BY <1>1 DEF FiniteSubsetsOf
<1>3. PICK s \in S : \A k \in S : <<UpTo(k), UpTo(s)>> \notin StrictSubsetOrdering(S)
  <2>1. IsWellFoundedOn(StrictSubsetOrdering(S), FiniteSubsetsOf(S))
    BY FS_StrictSubsetOrderingWellFounded
  <2>2. PICK U \in Prefixes : \A V \in Prefixes : <<V, U>> \notin StrictSubsetOrdering(S)
    <3> HIDE DEF Prefixes
    <3> QED
      BY <1>2, <2>1, WFMin
  <2> QED
    BY <2>2
<1>4. ASSUME NEW k \in S PROVE s <= k
  <2>1. CASE k < s
    <3>1. UpTo(k) \subseteq UpTo(s) /\ s \in UpTo(s) /\ s \notin UpTo(k)
      BY <2>1
    <3> QED
      BY <3>1, <1>3 DEF StrictSubsetOrdering
  <2> QED
    BY <2>1
<1> QED
  BY <1>4 DEF SmallestOf

(* Recording an entry keeps the table within its limit and changes no      *)
(* entry but the one for its key, which is there unless the table is full. *)
LEMMA RecordedTable ==
  ASSUME NEW table, IsFiniteSet(DOMAIN table), NEW limit \in Nat,
         Cardinality(DOMAIN table) <= limit, NEW key, NEW value
  PROVE  LET new == Recorded(table, limit, key, value) IN
         /\ IsFiniteSet(DOMAIN new) /\ Cardinality(DOMAIN new) <= limit
         /\ DOMAIN new \subseteq DOMAIN table \cup {key}
         /\ \A k \in DOMAIN new : new[k] = IF k = key THEN value ELSE table[k]
         /\ DOMAIN table \subseteq DOMAIN new
         /\ key \in DOMAIN new \/ Cardinality(DOMAIN new) = limit
         /\ Cardinality(DOMAIN table) = limit => DOMAIN new = DOMAIN table
<1> DEFINE new == Recorded(table, limit, key, value)
<1>1. Cardinality(DOMAIN table) \in Nat
  BY FS_CardinalityType
<1>2. /\ IsFiniteSet(DOMAIN table \cup {key})
      /\ Cardinality(DOMAIN table \cup {key}) =
           IF key \in DOMAIN table THEN Cardinality(DOMAIN table) ELSE Cardinality(DOMAIN table) + 1
  BY FS_AddElement
<1>3. CASE key \in DOMAIN table
  <2>1. new = [k \in DOMAIN table \cup {key} |-> IF k = key THEN value ELSE table[k]]
    BY <1>3 DEF Recorded
  <2>2. DOMAIN new = DOMAIN table
    BY <1>3, <2>1
  <2> QED
    BY <1>3, <2>1, <2>2
<1>4. CASE key \notin DOMAIN table /\ Cardinality(DOMAIN table) < limit
  <2>1. new = [k \in DOMAIN table \cup {key} |-> IF k = key THEN value ELSE table[k]]
    BY <1>4 DEF Recorded
  <2>2. DOMAIN new = DOMAIN table \cup {key}
    BY <2>1
  <2> QED
    BY <1>1, <1>2, <1>4, <2>1, <2>2
<1>5. CASE key \notin DOMAIN table /\ ~(Cardinality(DOMAIN table) < limit)
  <2>1. new = table
    BY <1>5 DEF Recorded
  <2>2. Cardinality(DOMAIN table) = limit
    BY <1>1, <1>5
  <2> QED
    BY <1>5, <2>1, <2>2
<1> QED
  BY <1>3, <1>4, <1>5

LEMMA SifInitInv == SifInit => SifInv
<1> SUFFICES ASSUME SifInit PROVE SifInv
  OBVIOUS
<1>1. DOMAIN bindings = {} /\ DOMAIN payloads = {}
  BY DEF SifInit, TransportInit
<1>2. \A s \in Slot : packet[s].command = "none"
  BY DEF SifInit, FreePacket
<1>3. /\ waiting = [c \in Client |-> None] /\ server = [c \in Client |-> None]
      /\ heap = 0 /\ held = 0 /\ sent = {} /\ DOMAIN packet = Slot
      /\ ~initSent /\ ~inited /\ ~initInjected /\ ~bridgeActive /\ ~command3Seen
      /\ bindsAcrossReset = {}
  BY DEF SifInit, TransportInit
<1>4. TablesFinite /\ Cardinality(DOMAIN bindings) = 0 /\ Cardinality(DOMAIN payloads) = 0
  BY <1>1, FS_EmptySet DEF TablesFinite
<1>5. SifTypeOK
  <2>1. MaxBindings >= 0 /\ MaxPayloads >= 0 /\ held \in Nat
    BY <1>3, TransportAssumption
  <2>2. \A s \in Slot : packet[s].command # "none" => packet[s].client \in Client
    BY <1>2
  <2>3. waiting \in [Client -> Slot \cup {None}] /\ server \in [Client -> Service \cup {None}]
    BY <1>3
  <2>4. {initSent, inited, initInjected, bridgeActive, command3Seen} \subseteq BOOLEAN
    BY DEF SifInit
  <2> QED
    BY <1>1, <1>3, <1>4, <2>1, <2>2, <2>3, <2>4 DEF SifTypeOK
<1>6. (\A s \in Slot : PacketOK(packet[s])) /\ WaitsForOwnPacket /\ StalePacketsBehind
  BY <1>2, <1>3 DEF PacketOK, WaitsForOwnPacket, StalePacketsBehind
<1>7. BindsCrossedReset /\ BoundClientsAreRouted /\ InitLostOnlyToEarlierBind
  BY <1>3 DEF BindsCrossedReset, InFlight, BoundClientsAreRouted, InitLostOnlyToEarlierBind
<1>8. OneLiveAllocation
  BY <1>3, TransportAssumption DEF OneLiveAllocation
<1> QED
  BY <1>4, <1>5, <1>6, <1>7, <1>8 DEF SifInv

----------------------------------------------------------------------------
(* The guest's steps.                                                      *)
LEMMA SendInitInv == ASSUME SifInv, SendInit PROVE SifInv'
<1> USE DEF SifInv, SendInit, transportVars, clientVars, flags
<1>1. SifTypeOK'
  BY DEF SifTypeOK
<1>2. \A s \in Slot : PacketOK(packet'[s])
  OBVIOUS
<1>3. TablesFinite' /\ WaitsForOwnPacket' /\ StalePacketsBehind' /\ BindsCrossedReset'
  BY DEF TablesFinite, WaitsForOwnPacket, StalePacketsBehind, BindsCrossedReset, InFlight
<1>4. BoundClientsAreRouted' /\ OneLiveAllocation' /\ InitLostOnlyToEarlierBind'
  BY DEF BoundClientsAreRouted, Bound, OneLiveAllocation, InitLostOnlyToEarlierBind
<1> QED
  BY <1>1, <1>2, <1>3, <1>4 DEF PacketOK

(* A request of an idle client goes to the first slot nobody waits for.    *)
LEMMA RequestInv ==
  ASSUME SifInv, NEW c \in Client, NEW p, PacketOK(p), p.command # "none", p.client = c,
         Request(c, p)
  PROVE  /\ DOMAIN packet' = Slot /\ waiting' \in [Client -> Slot \cup {None}] /\ sent' \subseteq Client
         /\ \A s \in Slot : PacketOK(packet'[s])
         /\ WaitsForOwnPacket' /\ StalePacketsBehind'
<1> DEFINE slot == SmallestOf(FreeSlot)
<1>1. FreeSlot \in SUBSET Nat /\ FreeSlot # {}
  BY DEF Request, FreeSlot, Slot
<1>2. slot \in FreeSlot /\ \A other \in FreeSlot : slot <= other
  BY <1>1, SmallestOfNat
<1>3. slot \in Slot /\ \A d \in Client : waiting[d] # slot
  BY <1>2 DEF FreeSlot
<1>4. slot # None
  BY <1>3 DEF Slot, None
<1>5. /\ packet' = [packet EXCEPT ![slot] = p] /\ waiting' = [waiting EXCEPT ![c] = slot]
      /\ waiting[c] = None /\ sent' = sent \ {c}
  BY DEF Request
<1> HIDE DEF slot
<1>6. DOMAIN packet = Slot /\ waiting \in [Client -> Slot \cup {None}] /\ sent \subseteq Client
  BY DEF SifInv, SifTypeOK
<1>7. /\ DOMAIN packet' = Slot /\ waiting' \in [Client -> Slot \cup {None}]
      /\ sent' \subseteq Client
  BY <1>3, <1>5, <1>6
<1>8. \A s \in Slot : packet'[s] = IF s = slot THEN p ELSE packet[s]
  BY <1>5, <1>6
<1>9. \A d \in Client : waiting'[d] = IF d = c THEN slot ELSE waiting[d]
  BY <1>5, <1>6
<1>10. \A s \in Slot : PacketOK(packet'[s])
  BY <1>8 DEF SifInv
<1>11. WaitsForOwnPacket'
  <2> SUFFICES ASSUME NEW d \in Client, waiting'[d] # None
               PROVE  packet'[waiting'[d]].command # "none" /\ packet'[waiting'[d]].client = d
    BY DEF WaitsForOwnPacket
  <2>1. CASE d = c
    BY <1>3, <1>8, <1>9, <2>1
  <2>2. CASE d # c
    <3>1. waiting'[d] = waiting[d] /\ waiting[d] \in Slot /\ waiting[d] # slot
      BY <1>3, <1>6, <1>9, <2>2
    <3>2. packet'[waiting[d]] = packet[waiting[d]]
      BY <1>8, <3>1
    <3> QED
      BY <3>1, <3>2 DEF SifInv, WaitsForOwnPacket
  <2> QED
    BY <2>1, <2>2
<1>12. StalePacketsBehind'
  <2> SUFFICES ASSUME NEW s \in Slot, packet'[s].command # "none",
                      waiting'[packet'[s].client] # None
               PROVE  waiting'[packet'[s].client] <= s
    BY DEF StalePacketsBehind
  <2>1. CASE s = slot
    <3>1. packet'[s].client = c /\ waiting'[c] = slot
      BY <1>8, <1>9, <2>1
    <3> QED
      BY <1>3, <2>1, <3>1 DEF Slot
  <2>2. CASE s # slot
    <3> DEFINE d == packet[s].client
    <3>1. packet'[s] = packet[s] /\ packet[s].command # "none"
      BY <1>8, <2>2
    <3>2. d \in Client
      BY <3>1 DEF SifInv, SifTypeOK
    <3>3. CASE d = c
      <4>1. \A e \in Client : waiting[e] # s
        BY <1>4, <1>5, <3>2, <3>3 DEF SifInv, WaitsForOwnPacket, Slot, None
      <4>2. s \in FreeSlot
        BY <4>1 DEF FreeSlot
      <4>3. waiting'[d] = slot
        BY <1>9, <3>3
      <4> QED
        BY <1>2, <3>1, <4>2, <4>3 DEF slot
    <3>4. CASE d # c
      <4>1. waiting'[d] = waiting[d]
        BY <1>9, <3>2, <3>4
      <4> QED
        BY <3>1, <4>1 DEF SifInv, StalePacketsBehind
    <3> QED
      BY <3>3, <3>4
  <2> QED
    BY <2>1, <2>2
<1> QED
  BY <1>7, <1>10, <1>11, <1>12

LEMMA BindInv == ASSUME SifInv, NEW c \in Client, NEW s \in Service, Bind(c, s) PROVE SifInv'
<1> DEFINE p == [command |-> "BIND", client |-> c, service |-> s]
<1>1. PacketOK(p) /\ p.command # "none" /\ p.client = c
  BY DEF PacketOK
<1>2. Request(c, p) /\ server' = [server EXCEPT ![c] = None]
  BY DEF Bind
<1> HIDE DEF p
<1>3. /\ DOMAIN packet' = Slot /\ waiting' \in [Client -> Slot \cup {None}] /\ sent' \subseteq Client
      /\ \A slot \in Slot : PacketOK(packet'[slot])
      /\ WaitsForOwnPacket' /\ StalePacketsBehind'
  BY <1>1, <1>2, RequestInv
<1>4. inited /\ UNCHANGED <<bindings, payloads, heap, held, initSent, inited, initInjected,
                            bridgeActive, command3Seen, bindsAcrossReset>>
  BY <1>2 DEF Request, transportVars, flags
<1>5. SifTypeOK'
  <2>1. server' \in [Client -> Service \cup {None}]
    BY <1>2 DEF SifInv, SifTypeOK
  <2>2. \A slot \in Slot : packet'[slot].command # "none" => packet'[slot].client \in Client
    BY <1>3 DEF PacketOK
  <2> QED
    BY <1>3, <1>4, <2>1, <2>2 DEF SifInv, SifTypeOK
<1>6. TablesFinite' /\ BindsCrossedReset' /\ OneLiveAllocation' /\ InitLostOnlyToEarlierBind'
  BY <1>4 DEF SifInv, TablesFinite, BindsCrossedReset, OneLiveAllocation, InitLostOnlyToEarlierBind
<1>7. BoundClientsAreRouted'
  BY <1>2, <1>4 DEF SifInv, SifTypeOK, BoundClientsAreRouted, Bound
<1> QED
  BY <1>3, <1>5, <1>6, <1>7 DEF SifInv, PacketOK

LEMMA MakeCallInv ==
  ASSUME SifInv, NEW c \in Client, NEW m \in Calls, MakeCall(c, m.service, m.call)
  PROVE  SifInv'
<1> DEFINE p == [command |-> "CALL", client |-> c, call |-> m.call]
<1>1. PacketOK(p) /\ p.command # "none" /\ p.client = c
  BY SifAssumption DEF PacketOK
<1>2. Request(c, p) /\ server' = server
  BY DEF MakeCall
<1> HIDE DEF p
<1>3. /\ DOMAIN packet' = Slot /\ waiting' \in [Client -> Slot \cup {None}] /\ sent' \subseteq Client
      /\ \A slot \in Slot : PacketOK(packet'[slot])
      /\ WaitsForOwnPacket' /\ StalePacketsBehind'
  BY <1>1, <1>2, RequestInv
<1>4. inited /\ UNCHANGED <<bindings, payloads, heap, held, initSent, inited, initInjected,
                            bridgeActive, command3Seen, bindsAcrossReset>>
  BY <1>2 DEF Request, transportVars, flags
<1>5. SifTypeOK'
  <2>1. \A slot \in Slot : packet'[slot].command # "none" => packet'[slot].client \in Client
    BY <1>3 DEF PacketOK
  <2> QED
    BY <1>2, <1>3, <1>4, <2>1 DEF SifInv, SifTypeOK
<1>6. TablesFinite' /\ BindsCrossedReset' /\ OneLiveAllocation' /\ InitLostOnlyToEarlierBind'
  BY <1>4 DEF SifInv, TablesFinite, BindsCrossedReset, OneLiveAllocation, InitLostOnlyToEarlierBind
<1>7. BoundClientsAreRouted'
  BY <1>2, <1>4 DEF SifInv, BoundClientsAreRouted, Bound
<1> QED
  BY <1>3, <1>5, <1>6, <1>7 DEF SifInv, PacketOK

----------------------------------------------------------------------------
(* The hooks.                                                              *)
LEMMA SetDmaInv == ASSUME SifInv, NEW c \in Client, SetDma(c) PROVE SifInv'
<1> DEFINE call == packet[waiting[c]].call
           value == [size |-> call.sendSize, word |-> call.word]
<1>1. /\ \/ payloads' = payloads
         \/ /\ payloads' = Recorded(payloads, MaxPayloads, call.remote, value)
            /\ call.remote # NoRemote
      /\ sent' = sent \cup {c}
      /\ UNCHANGED <<bindings, heap, packet, waiting, server, held, initSent, inited,
                     initInjected, bridgeActive, command3Seen, bindsAcrossReset>>
  BY DEF SetDma, RecordOutboundPayload, flags
<1>2. waiting[c] \in Slot /\ packet[waiting[c]].command = "CALL"
  BY DEF SetDma, InFlight, SifInv, SifTypeOK
<1>3. call \in Call
  BY <1>2 DEF SifInv, PacketOK
<1>4. call.remote \in Remote \cup {NoRemote} /\ value \in [size : Nat, word : Nat]
  BY <1>3 DEF Call
<1> HIDE DEF call, value
<1>5. /\ IsFiniteSet(DOMAIN payloads') /\ Cardinality(DOMAIN payloads') <= MaxPayloads
      /\ DOMAIN payloads' \subseteq Remote
      /\ \A k \in DOMAIN payloads' : payloads'[k] \in [size : Nat, word : Nat]
  <2>1. CASE payloads' = payloads
    BY <2>1 DEF SifInv, SifTypeOK, TablesFinite
  <2>2. CASE /\ payloads' = Recorded(payloads, MaxPayloads, call.remote, value)
             /\ call.remote # NoRemote
    <3>1. /\ IsFiniteSet(DOMAIN payloads') /\ Cardinality(DOMAIN payloads') <= MaxPayloads
          /\ DOMAIN payloads' \subseteq DOMAIN payloads \cup {call.remote}
          /\ \A k \in DOMAIN payloads' :
               payloads'[k] = IF k = call.remote THEN value ELSE payloads[k]
      BY <2>2, RecordedTable, TransportAssumption DEF SifInv, SifTypeOK, TablesFinite
    <3> QED
      BY <1>4, <2>2, <3>1 DEF SifInv, SifTypeOK
  <2> QED
    BY <1>1, <2>1, <2>2
<1>6. SifTypeOK'
  BY <1>1, <1>4, <1>5 DEF SifInv, SifTypeOK
<1>7. TablesFinite'
  BY <1>1, <1>5 DEF SifInv, TablesFinite
<1>8. /\ \A s \in Slot : PacketOK(packet'[s])
      /\ WaitsForOwnPacket' /\ StalePacketsBehind' /\ BindsCrossedReset'
  BY <1>1 DEF SifInv, WaitsForOwnPacket, StalePacketsBehind, BindsCrossedReset, InFlight
<1>9. BoundClientsAreRouted' /\ OneLiveAllocation' /\ InitLostOnlyToEarlierBind'
  BY <1>1 DEF SifInv, BoundClientsAreRouted, Bound, OneLiveAllocation, InitLostOnlyToEarlierBind
<1> QED
  BY <1>6, <1>7, <1>8, <1>9 DEF SifInv, PacketOK

(* The IOP-ready poll makes the guest wait for INIT again, and the binds   *)
(* outstanding then are those that cross it.                               *)
LEMMA IopReadyInv == ASSUME SifInv, IopReady PROVE SifInv'
<1>1. /\ UNCHANGED <<bindings, payloads, heap, packet, waiting, sent, held, initSent>>
      /\ ~initInjected' /\ ~bridgeActive' /\ ~command3Seen' /\ ~inited'
      /\ {initInjected', bridgeActive', command3Seen', inited'} \subseteq BOOLEAN
      /\ server' = [c \in Client |-> None] \/ server' = server
      /\ bindsAcrossReset' = InFlight("BIND")
  BY DEF IopReady, transportVars
<1>2. InFlight("BIND") \subseteq Client
  BY DEF InFlight
<1>3. SifTypeOK'
  BY <1>1, <1>2 DEF SifInv, SifTypeOK
<1>4. BindsCrossedReset'
  BY <1>1 DEF BindsCrossedReset, InFlight
<1>5. BoundClientsAreRouted'
  BY <1>1 DEF SifInv, BoundClientsAreRouted, Bound
<1>6. /\ \A s \in Slot : PacketOK(packet'[s])
      /\ TablesFinite' /\ WaitsForOwnPacket' /\ StalePacketsBehind'
  BY <1>1 DEF SifInv, TablesFinite, WaitsForOwnPacket, StalePacketsBehind
<1>7. OneLiveAllocation' /\ InitLostOnlyToEarlierBind'
  BY <1>1 DEF SifInv, OneLiveAllocation, InitLostOnlyToEarlierBind
<1> QED
  BY <1>3, <1>4, <1>5, <1>6, <1>7 DEF SifInv, PacketOK

LEMMA AnswerInitInv == ASSUME SifInv, AnswerInit PROVE SifInv'
<1>1. /\ UNCHANGED <<bindings, payloads, heap, packet, waiting, server, sent, held, initSent,
                     command3Seen, bindsAcrossReset>>
      /\ initInjected' = TRUE /\ bridgeActive' = FALSE /\ inited' = TRUE
  BY DEF AnswerInit, transportVars, clientVars
<1>2. SifTypeOK'
  BY <1>1 DEF SifInv, SifTypeOK
<1>3. BindsCrossedReset' /\ InitLostOnlyToEarlierBind' /\ OneLiveAllocation' /\ BoundClientsAreRouted'
  BY <1>1 DEF SifInv, BindsCrossedReset, InitLostOnlyToEarlierBind, OneLiveAllocation,
              BoundClientsAreRouted, Bound
<1>4. /\ \A s \in Slot : PacketOK(packet'[s])
      /\ TablesFinite' /\ WaitsForOwnPacket' /\ StalePacketsBehind'
  BY <1>1 DEF SifInv, TablesFinite, WaitsForOwnPacket, StalePacketsBehind
<1> QED
  BY <1>2, <1>3, <1>4 DEF SifInv, PacketOK

----------------------------------------------------------------------------
(* The scan.  The first packet whose client waits is the one it waits for: *)
(* that packet is a candidate too, and no later than any other of its own. *)
LEMMA CandidateIsAwaited ==
  ASSUME SifInv, Candidates # {}
  PROVE  /\ Candidate \in Slot /\ packet[Candidate].client \in Client
         /\ packet[Candidate].command # "none"
         /\ waiting[packet[Candidate].client] = Candidate
<1>1. Candidates \in SUBSET Nat
  BY DEF Candidates, Slot
<1>2. Candidate \in Candidates /\ \A other \in Candidates : Candidate <= other
  BY <1>1, SmallestOfNat DEF Candidate
<1> DEFINE c == packet[Candidate].client
<1>3. Candidate \in Slot /\ packet[Candidate].command # "none" /\ waiting[c] # None
  BY <1>2 DEF Candidates
<1>4. c \in Client /\ waiting[c] \in Slot
  BY <1>3 DEF SifInv, SifTypeOK
<1>5. waiting[c] \in Candidates
  BY <1>3, <1>4 DEF SifInv, WaitsForOwnPacket, Candidates
<1>6. Candidate <= waiting[c] /\ waiting[c] <= Candidate
  BY <1>2, <1>3, <1>5 DEF SifInv, StalePacketsBehind
<1> QED
  BY <1>3, <1>4, <1>6 DEF Slot

(* What an answer settles: its packet is awaited, a call is answered only  *)
(* after INIT was, and the waiting client waits no more.                   *)
LEMMA AnswerFacts ==
  ASSUME SifInv, NEW s \in Slot, Answer(s)
  PROVE  LET c == packet[s].client IN
         /\ c \in Client /\ waiting[c] = s /\ s # None
         /\ waiting' = [waiting EXCEPT ![c] = None]
         /\ \/ packet[s].command = "BIND" /\ packet[s].service \in Service
               /\ AnswerBind(c, packet[s].service)
            \/ packet[s].command = "CALL" /\ packet[s].call \in Call
               /\ Completes(c, packet[s].call) /\ AnswerCall(c, packet[s].call)
               /\ initInjected
         /\ initInjected' = TRUE
         /\ UNCHANGED <<packet, sent, initSent, inited, bindsAcrossReset>>
<1> DEFINE c == packet[s].client
<1>1. Candidates # {} /\ s = Candidate /\ Active(s) /\ initSent
  BY DEF Answer, Answerable
<1>2. c \in Client /\ packet[s].command # "none" /\ waiting[c] = s
  BY <1>1, CandidateIsAwaited
<1>3. s # None
  BY DEF Slot, None
<1>4. packet[s].command = "CALL" => initInjected
  BY <1>1 DEF Active, InjectsInit, SifInv, SifTypeOK
<1>5. \/ packet[s].command = "BIND" /\ packet[s].service \in Service
         /\ AnswerBind(c, packet[s].service)
      \/ packet[s].command = "CALL" /\ packet[s].call \in Call
         /\ Completes(c, packet[s].call) /\ AnswerCall(c, packet[s].call)
  BY <1>2 DEF Answer, Answerable, SifInv, PacketOK
<1> QED
  BY <1>2, <1>3, <1>4, <1>5 DEF Answer

(* A client that waits no more leaves the others' packets where they were. *)
LEMMA AnswerReleases ==
  ASSUME SifInv, NEW c \in Client, waiting' = [waiting EXCEPT ![c] = None], packet' = packet
  PROVE  /\ waiting' \in [Client -> Slot \cup {None}]
         /\ \A s \in Slot : PacketOK(packet'[s])
         /\ WaitsForOwnPacket' /\ StalePacketsBehind'
<1>1. waiting' \in [Client -> Slot \cup {None}]
  BY DEF SifInv, SifTypeOK
<1>2. \A d \in Client : waiting'[d] # None => waiting'[d] = waiting[d]
  BY DEF SifInv, SifTypeOK
<1>3. WaitsForOwnPacket'
  BY <1>2 DEF SifInv, WaitsForOwnPacket
<1>4. StalePacketsBehind'
  <2> SUFFICES ASSUME NEW s \in Slot, packet[s].command # "none",
                      waiting'[packet[s].client] # None
               PROVE  waiting'[packet[s].client] <= s
    BY DEF StalePacketsBehind
  <2>1. packet[s].client \in Client
    BY DEF SifInv, SifTypeOK
  <2> QED
    BY <1>2, <2>1 DEF SifInv, StalePacketsBehind
<1> QED
  BY <1>1, <1>3, <1>4 DEF SifInv

(* A completed bind is recorded, or the table was full without it; other   *)
(* clients keep their entries, or the table stays as full as it was.       *)
LEMMA AnswerBindRoutes ==
  ASSUME SifInv, NEW c \in Client, NEW service \in Service, AnswerBind(c, service)
  PROVE  /\ IsFiniteSet(DOMAIN bindings') /\ Cardinality(DOMAIN bindings') <= MaxBindings
         /\ DOMAIN bindings' \subseteq Client
         /\ \A d \in DOMAIN bindings' : bindings'[d] \in Service
         /\ server' \in [Client -> Service \cup {None}]
         /\ BoundClientsAreRouted'
<1>1. DOMAIN bindings \subseteq Client /\ \A d \in DOMAIN bindings : bindings[d] \in Service
  BY DEF SifInv, SifTypeOK
<1>2. server \in [Client -> Service \cup {None}]
  BY DEF SifInv, SifTypeOK
<1>3. CASE BindCompletes(service)
  <2>1. /\ bindings' = Recorded(bindings, MaxBindings, c, service)
        /\ server' = [server EXCEPT ![c] = service]
    BY <1>3 DEF AnswerBind, RecordBinding
  <2>2. /\ IsFiniteSet(DOMAIN bindings') /\ Cardinality(DOMAIN bindings') <= MaxBindings
        /\ DOMAIN bindings' \subseteq DOMAIN bindings \cup {c}
        /\ \A k \in DOMAIN bindings' : bindings'[k] = IF k = c THEN service ELSE bindings[k]
        /\ DOMAIN bindings \subseteq DOMAIN bindings'
        /\ c \in DOMAIN bindings' \/ Cardinality(DOMAIN bindings') = MaxBindings
        /\ Cardinality(DOMAIN bindings) = MaxBindings => DOMAIN bindings' = DOMAIN bindings
    BY <2>1, RecordedTable, TransportAssumption DEF SifInv, SifTypeOK, TablesFinite
  <2>3. BoundClientsAreRouted'
    <3> SUFFICES ASSUME NEW d \in Client, server'[d] # None
                 PROVE  \/ d \in DOMAIN bindings' /\ bindings'[d] = server'[d]
                        \/ d \notin DOMAIN bindings' /\ Cardinality(DOMAIN bindings') = MaxBindings
      BY DEF BoundClientsAreRouted, Bound
    <3>1. CASE d = c
      BY <1>2, <2>1, <2>2, <3>1
    <3>2. CASE d # c
      <4>1. server'[d] = server[d]
        BY <1>2, <2>1, <3>2
      <4>2. \/ d \in DOMAIN bindings /\ bindings[d] = server[d]
            \/ d \notin DOMAIN bindings /\ Cardinality(DOMAIN bindings) = MaxBindings
        BY <4>1 DEF SifInv, BoundClientsAreRouted, Bound
      <4> QED
        BY <2>2, <3>2, <4>1, <4>2
    <3> QED
      BY <3>1, <3>2
  <2> QED
    BY <1>1, <1>2, <2>1, <2>2, <2>3
<1>4. CASE ~BindCompletes(service)
  <2>1. bindings' = bindings /\ server' = server
    BY <1>4 DEF AnswerBind
  <2> QED
    BY <2>1 DEF SifInv, SifTypeOK, TablesFinite, BoundClientsAreRouted, Bound
<1> QED
  BY <1>3, <1>4

(* A completed heap call moves the bridge's word and the guest's count     *)
(* together.                                                               *)
LEMMA AnswerCallAllocates ==
  ASSUME SifInv, NEW c \in Client, NEW call \in Call, Completes(c, call), AnswerCall(c, call)
  PROVE  heap' \in {0, HeapBase} /\ held' \in Nat /\ OneLiveAllocation'
<1>1. HeapBase \in Nat /\ HeapBase # 0
  BY TransportAssumption
<1>2. heap \in {0, HeapBase} /\ held = IF heap = HeapBase THEN 1 ELSE 0
  BY DEF SifInv, SifTypeOK, OneLiveAllocation
<1>3. CASE ~IsHeapCall(bindings[c], call)
  <2>1. heap' = heap /\ held' = held
    BY <1>3 DEF AnswerCall, ResolveCall
  <2> QED
    BY <1>1, <1>2, <2>1 DEF OneLiveAllocation
<1>4. CASE IsHeapCall(bindings[c], call)
  <2>1. HeapAllocates(call) \/ HeapFrees(call)
    BY <1>4 DEF Completes, HeapCompletes
  <2>2. CASE HeapAllocates(call)
    <3>1. heap = 0 /\ heap' = HeapBase /\ held' = held + 1
      BY <1>4, <2>2 DEF HeapAllocates, AnswerCall, ResolveCall
    <3> QED
      BY <1>1, <1>2, <3>1 DEF OneLiveAllocation
  <2>3. CASE HeapFrees(call)
    <3>1. heap # 0 /\ heap' = 0 /\ held' = held - 1
      BY <1>4, <2>3 DEF HeapFrees, AnswerCall, ResolveCall
    <3> QED
      BY <1>1, <1>2, <3>1 DEF OneLiveAllocation
  <2> QED
    BY <2>1, <2>2, <2>3
<1> QED
  BY <1>3, <1>4

LEMMA AnswerInv == ASSUME SifInv, NEW s \in Slot, Answer(s) PROVE SifInv'
<1> DEFINE c == packet[s].client
<1>1. /\ c \in Client
      /\ waiting' = [waiting EXCEPT ![c] = None] /\ initInjected' = TRUE
      /\ UNCHANGED <<packet, sent, initSent, inited, bindsAcrossReset>>
  BY AnswerFacts
<1>2. \/ packet[s].service \in Service /\ AnswerBind(c, packet[s].service)
      \/ packet[s].call \in Call /\ Completes(c, packet[s].call) /\ AnswerCall(c, packet[s].call)
  BY AnswerFacts
<1>3. c \in InFlight("BIND") \/ initInjected
  BY AnswerFacts DEF InFlight
<1> HIDE DEF c
<1>4. \A d \in Client : waiting'[d] = IF d = c THEN None ELSE waiting[d]
  BY <1>1 DEF SifInv, SifTypeOK
<1>5. /\ waiting' \in [Client -> Slot \cup {None}]
      /\ \A slot \in Slot : PacketOK(packet'[slot])
      /\ WaitsForOwnPacket' /\ StalePacketsBehind'
  BY <1>1, AnswerReleases
<1>6. BindsCrossedReset' /\ InitLostOnlyToEarlierBind'
  <2>1. BindsCrossedReset'
    BY <1>1, <1>4 DEF SifInv, BindsCrossedReset, InFlight
  <2>2. ASSUME ~inited PROVE \E d \in bindsAcrossReset : waiting'[d] = None
    <3>1. CASE c \in InFlight("BIND")
      BY <1>1, <1>4, <2>2, <3>1 DEF SifInv, BindsCrossedReset
    <3>2. CASE initInjected
      BY <1>4, <2>2, <3>2 DEF SifInv, SifTypeOK, InitLostOnlyToEarlierBind
    <3> QED
      BY <1>3, <3>1, <3>2
  <2> QED
    BY <1>1, <2>1, <2>2 DEF InitLostOnlyToEarlierBind
<1>7. CASE packet[s].service \in Service /\ AnswerBind(c, packet[s].service)
  <2>1. /\ UNCHANGED <<payloads, heap, held>> /\ bridgeActive' = TRUE
        /\ command3Seen' = (command3Seen \/ packet[s].service = HeapService)
    BY <1>7 DEF AnswerBind
  <2>2. /\ IsFiniteSet(DOMAIN bindings') /\ Cardinality(DOMAIN bindings') <= MaxBindings
        /\ DOMAIN bindings' \subseteq Client
        /\ \A d \in DOMAIN bindings' : bindings'[d] \in Service
        /\ server' \in [Client -> Service \cup {None}]
        /\ BoundClientsAreRouted'
    BY <1>1, <1>7, AnswerBindRoutes
  <2>3. SifTypeOK'
    BY <1>1, <1>5, <2>1, <2>2 DEF SifInv, SifTypeOK
  <2>4. TablesFinite' /\ OneLiveAllocation'
    BY <2>1, <2>2 DEF SifInv, TablesFinite, OneLiveAllocation
  <2> QED
    BY <1>5, <1>6, <2>2, <2>3, <2>4 DEF SifInv, PacketOK
<1>8. CASE /\ packet[s].call \in Call /\ Completes(c, packet[s].call)
           /\ AnswerCall(c, packet[s].call)
  <2>1. UNCHANGED <<bindings, payloads, server, bridgeActive, command3Seen>>
    BY <1>8 DEF AnswerCall
  <2>2. heap' \in {0, HeapBase} /\ held' \in Nat /\ OneLiveAllocation'
    BY <1>1, <1>8, AnswerCallAllocates
  <2>3. SifTypeOK'
    BY <1>1, <1>5, <2>1, <2>2 DEF SifInv, SifTypeOK
  <2>4. TablesFinite' /\ BoundClientsAreRouted'
    BY <2>1 DEF SifInv, TablesFinite, BoundClientsAreRouted, Bound
  <2> QED
    BY <1>5, <1>6, <2>2, <2>3, <2>4 DEF SifInv, PacketOK
<1> QED
  BY <1>2, <1>7, <1>8

----------------------------------------------------------------------------
LEMMA SifNextInv == SifInv /\ [SifNext]_sifVars => SifInv'
<1> SUFFICES ASSUME SifInv, [SifNext]_sifVars PROVE SifInv'
  OBVIOUS
<1>1. CASE SendInit
  BY <1>1, SendInitInv
<1>2. CASE \E c \in Client, s \in Service : Bind(c, s)
  BY <1>2, BindInv
<1>3. CASE \E c \in Client, m \in Calls : MakeCall(c, m.service, m.call)
  BY <1>3, MakeCallInv
<1>4. CASE \E c \in Client : SetDma(c)
  BY <1>4, SetDmaInv
<1>5. CASE IopReady
  BY <1>5, IopReadyInv
<1>6. CASE Dispatch
  BY <1>6, AnswerInv, AnswerInitInv DEF Dispatch
<1>7. CASE UNCHANGED sifVars
  <2>1. UNCHANGED <<bindings, payloads, heap, packet, waiting, server, sent, held, initSent, inited,
                    initInjected, bridgeActive, command3Seen, bindsAcrossReset>>
    BY <1>7 DEF sifVars, transportVars, clientVars, flags
  <2> QED
    BY <2>1 DEF SifInv, SifTypeOK, PacketOK, TablesFinite, WaitsForOwnPacket, StalePacketsBehind,
                BindsCrossedReset, InFlight, BoundClientsAreRouted, Bound, OneLiveAllocation,
                InitLostOnlyToEarlierBind
<1> QED
  BY <1>1, <1>2, <1>3, <1>4, <1>5, <1>6, <1>7 DEF SifNext

(* The strengthened invariant: packet shapes, who waits for what, finite   *)
(* tables, and the safety properties below with it.                        *)
THEOREM SifInvariant == SifSpec => []SifInv
  BY SifInitInv, SifNextInv, PTL DEF SifSpec

(* Types: both tables stay within their 16 and 32 entries, and the packets *)
(* scanned name clients.                                                   *)
THEOREM SifTypeCorrect == SifSpec => []SifTypeOK
<1>1. SifInv => SifTypeOK
  BY DEF SifInv
<1> QED
  BY <1>1, SifInvariant, PTL

(* A client whose bind completed is routed to the service it asked for, or *)
(* the table was full without it: guest_11a948 and recordBinding.          *)
THEOREM BoundClientsRouted == SifSpec => []BoundClientsAreRouted
<1>1. SifInv => BoundClientsAreRouted
  BY DEF SifInv
<1> QED
  BY <1>1, SifInvariant, PTL

(* The guest never holds the heap base twice, and the bridge holds it      *)
(* exactly when the guest does: the heap service of resolveCall.           *)
THEOREM HeapAllocatedOnce == SifSpec => []OneLiveAllocation
<1>1. SifInv => OneLiveAllocation
  BY DEF SifInv
<1> QED
  BY <1>1, SifInvariant, PTL

(* An INIT answer the guest has not consumed is overwritten only by the    *)
(* answer to a BIND in flight when the IOP was reset: guest_11cf10 and the *)
(* single response buffer of guest_11a948.                                 *)
THEOREM InitOverwrittenByEarlierBind == SifSpec => []InitLostOnlyToEarlierBind
<1>1. SifInv => InitLostOnlyToEarlierBind
  BY DEF SifInv
<1> QED
  BY <1>1, SifInvariant, PTL

(* Every answer is to the packet its client waits for, never to one an     *)
(* earlier request left in a slot: the packet scan of guest_11a948.        *)
THEOREM AnswersReachWaitingClient == SifSpec => AnswersWaitingClient
<1>1. SifInv => \A s \in Slot : Answer(s) => waiting[packet[s].client] = s
  BY AnswerFacts
<1> QED
  BY <1>1, SifInvariant, PTL DEF AnswersWaitingClient

----------------------------------------------------------------------------
(* The resource stash.                                                     *)

(* The inductive invariant: the numbers not handed out yet hold nothing.   *)
UnusedEmpty == \A i \in SlotIndex : i >= nextSlot => slots[i].reservedUnits = 0

StashInv == StashTypeOK /\ UnusedEmpty

LEMMA EmptySlotType == SlotTypeOK(EmptySlot)
<1>1. 0 \in 0 .. RamUnits
  BY StashAssumption
<1> QED
  BY <1>1 DEF SlotTypeOK, EmptySlot

LEMMA StashInitInv == StashInit => StashInv
<1> SUFFICES ASSUME StashInit PROVE StashInv
  OBVIOUS
<1>1. \A i \in SlotIndex : slots[i] = EmptySlot
  BY DEF StashInit
<1>2. StashTypeOK
  BY <1>1, EmptySlotType, StashAssumption DEF StashInit, StashTypeOK
<1>3. UnusedEmpty
  BY <1>1 DEF UnusedEmpty, EmptySlot
<1> QED
  BY <1>2, <1>3 DEF StashInv

LEMMA StagedType ==
  ASSUME StashTypeOK, NEW source \in Word, NEW copyUnits \in Word, NEW reservedUnits \in Word,
         StoreFits(source, copyUnits, reservedUnits)
  PROVE  SlotTypeOK(Staged(source, copyUnits, reservedUnits))
<1> DEFINE slot == Staged(source, copyUnits, reservedUnits)
<1>1. /\ source \in Nat /\ copyUnits \in Nat /\ reservedUnits \in Nat
      /\ source + copyUnits <= RamUnits /\ reservedUnits <= RamUnits
      /\ copyUnits <= reservedUnits
  BY StashAssumption DEF StoreFits, CheckedUnits, GuestRangeValid, Word
<1>2. \A k \in 0 .. copyUnits - 1 : rdram[source + k] \in Value
  <2>1. \A k \in 0 .. copyUnits - 1 : source + k \in Unit
    BY <1>1, StashAssumption DEF Unit
  <2> QED
    BY <2>1 DEF StashTypeOK
<1>3. slot.bytes \in [0 .. copyUnits - 1 -> Value]
  BY <1>2 DEF Staged
<1>4. slot.reservedUnits \in 0 .. RamUnits /\ slot.copiedUnits \in 0 .. slot.reservedUnits
  BY <1>1, StashAssumption DEF Staged
<1>5. DOMAIN slot = {"reservedUnits", "copiedUnits", "bytes"}
  BY DEF Staged
<1>6. slot.copiedUnits = copyUnits
  BY DEF Staged
<1> QED
  BY <1>3, <1>4, <1>5, <1>6 DEF SlotTypeOK

LEMMA StoreInv ==
  ASSUME StashInv, NEW source \in Word, NEW copyUnits \in Word, NEW reservedUnits \in Word,
         Store(source, copyUnits, reservedUnits)
  PROVE  StashInv'
<1>1. CASE StoreFits(source, copyUnits, reservedUnits) /\ HasSlot
  <2>1. nextSlot \in SlotIndex
    BY <1>1, StashAssumption DEF StashInv, StashTypeOK, HasSlot, SlotIndex
  <2>2. /\ slots' = [slots EXCEPT ![nextSlot] = Staged(source, copyUnits, reservedUnits)]
        /\ nextSlot' = nextSlot + 1 /\ v0' = nextSlot /\ rdram' = rdram
    BY <1>1 DEF Store
  <2>3. \A i \in SlotIndex : SlotTypeOK(slots'[i])
    <3> SUFFICES ASSUME NEW i \in SlotIndex PROVE SlotTypeOK(slots'[i])
      OBVIOUS
    <3>1. slots'[i] = IF i = nextSlot THEN Staged(source, copyUnits, reservedUnits) ELSE slots[i]
      BY <2>2 DEF StashInv, StashTypeOK
    <3>2. CASE i = nextSlot
      BY <1>1, <3>1, <3>2, StagedType DEF StashInv
    <3>3. CASE i # nextSlot
      BY <3>1, <3>3 DEF StashInv, StashTypeOK
    <3> QED
      BY <3>2, <3>3
  <2>4. StashTypeOK'
    <3>1. DOMAIN slots' = SlotIndex
      BY <2>2 DEF StashInv, StashTypeOK
    <3>2. nextSlot' \in 0 .. SlotCount /\ v0' \in Int
      BY <2>1, <2>2, StashAssumption DEF SlotIndex
    <3>3. rdram' \in [Unit -> Value]
      BY <2>2 DEF StashInv, StashTypeOK
    <3> QED
      BY <2>3, <3>1, <3>2, <3>3 DEF StashTypeOK, SlotTypeOK
  <2>5. UnusedEmpty'
    <3> SUFFICES ASSUME NEW i \in SlotIndex, i >= nextSlot'
                 PROVE  slots'[i].reservedUnits = 0
      BY DEF UnusedEmpty
    <3>1. i \in Int /\ nextSlot \in Int /\ i >= nextSlot /\ i # nextSlot
      BY <2>1, <2>2 DEF SlotIndex
    <3>2. slots'[i] = slots[i]
      BY <2>2, <3>1 DEF StashInv, StashTypeOK
    <3> QED
      BY <3>1, <3>2 DEF StashInv, UnusedEmpty
  <2> QED
    BY <2>4, <2>5 DEF StashInv
<1>2. CASE ~(StoreFits(source, copyUnits, reservedUnits) /\ HasSlot)
  <2>1. v0' \in Int /\ UNCHANGED <<slots, nextSlot, rdram>>
    BY <1>2 DEF Store, NoSlot, OutOfSpace
  <2> QED
    BY <2>1 DEF StashInv, StashTypeOK, SlotTypeOK, UnusedEmpty
<1> QED
  BY <1>1, <1>2

----------------------------------------------------------------------------
(* A read that answers 0 stays inside what was copied and inside RAM.      *)
LEMMA ReadFits ==
  ASSUME StashInv, NEW destination \in Word, NEW i \in Word, NEW offset \in Word,
         NEW readUnits \in Word, NEW rpcMode,
         ReadStatus(destination, i, offset, readUnits, rpcMode) = 0
  PROVE  LET units == Wanted(slots[i], readUnits) IN
         /\ i \in SlotIndex /\ i < nextSlot /\ slots[i].reservedUnits # 0
         /\ units \in 0 .. RamUnits /\ offset \in 0 .. RamUnits /\ destination \in 0 .. RamUnits
         /\ destination + units <= RamUnits /\ offset + units <= slots[i].copiedUnits
         /\ slots[i].copiedUnits # 0 => slots[i].bytes \in [0 .. slots[i].copiedUnits - 1 -> Value]
<1> DEFINE units == Wanted(slots[i], readUnits)
<1>1. /\ ~(i >= SlotCount) /\ slots[i].reservedUnits # 0
      /\ Available(slots[i], offset, units) /\ CheckedUnits(offset) /\ CheckedUnits(units)
      /\ GuestRangeValid(destination, units)
  BY DEF ReadStatus, OutOfSpace, InvalidSlot
<1>2. i \in SlotIndex
  BY <1>1, StashAssumption DEF Word, SlotIndex
<1>3. SlotTypeOK(slots[i]) /\ nextSlot \in Int
  BY <1>2 DEF StashInv, StashTypeOK
<1>4. i < nextSlot
  BY <1>1, <1>2, <1>3 DEF StashInv, UnusedEmpty, SlotIndex
<1>5. units \in Nat
  BY <1>3, StashAssumption DEF Wanted, SlotTypeOK, Word
<1> QED
  BY <1>1, <1>2, <1>3, <1>4, <1>5, StashAssumption
     DEF Available, CheckedUnits, GuestRangeValid, SlotTypeOK, Word

LEMMA ReadInv ==
  ASSUME StashInv, NEW destination \in Word, NEW i \in Word, NEW offset \in Word,
         NEW readUnits \in Word, NEW rpcMode, Read(destination, i, offset, readUnits, rpcMode)
  PROVE  StashInv'
<1>1. UNCHANGED <<slots, nextSlot>>
  BY DEF Read
<1>2. v0' \in Int
  BY DEF Read, ReadStatus, OutOfSpace, InvalidSlot
<1>3. rdram' \in [Unit -> Value]
  <2>1. CASE v0' = 0
    <3> DEFINE units == Wanted(slots[i], readUnits)
    <3>1. ReadStatus(destination, i, offset, readUnits, rpcMode) = 0
      BY <2>1 DEF Read
    <3>2. rdram' = [u \in Unit |-> IF destination <= u /\ u < destination + units
                                   THEN slots[i].bytes[offset + (u - destination)]
                                   ELSE rdram[u]]
      BY <2>1 DEF Read
    <3>3. \A u \in Unit : destination <= u /\ u < destination + units =>
            slots[i].bytes[offset + (u - destination)] \in Value
      <4> SUFFICES ASSUME NEW u \in Unit, destination <= u, u < destination + units
                   PROVE  slots[i].bytes[offset + (u - destination)] \in Value
        OBVIOUS
      <4>1. /\ units \in Int /\ offset \in Int /\ destination \in Int
            /\ offset >= 0 /\ offset + units <= slots[i].copiedUnits
            /\ slots[i].copiedUnits # 0 =>
                 slots[i].bytes \in [0 .. slots[i].copiedUnits - 1 -> Value]
            /\ i \in SlotIndex
        BY <3>1, ReadFits, StashAssumption
      <4>2. slots[i].copiedUnits \in Int
        <5>1. SlotTypeOK(slots[i])
          BY <4>1 DEF StashInv, StashTypeOK
        <5> QED
          BY <5>1, StashAssumption DEF SlotTypeOK
      <4>3. offset + (u - destination) \in 0 .. slots[i].copiedUnits - 1
        BY <4>1, <4>2 DEF Unit
      <4> QED
        BY <4>1, <4>2, <4>3
    <3> QED
      BY <3>2, <3>3 DEF StashInv, StashTypeOK
  <2>2. CASE v0' # 0
    BY <2>2 DEF Read, StashInv, StashTypeOK
  <2> QED
    BY <2>1, <2>2
<1> QED
  BY <1>1, <1>2, <1>3 DEF StashInv, StashTypeOK, SlotTypeOK, UnusedEmpty

LEMMA InitializeInv == StashInv /\ Initialize => StashInv'
<1> SUFFICES ASSUME StashInv, Initialize PROVE StashInv'
  OBVIOUS
<1>1. \A i \in SlotIndex : slots'[i] = EmptySlot
  BY DEF Initialize
<1>2. StashTypeOK'
  <2>1. \A i \in SlotIndex : SlotTypeOK(slots'[i])
    BY <1>1, EmptySlotType
  <2> QED
    BY <2>1, StashAssumption DEF Initialize, StashInv, StashTypeOK, SlotTypeOK
<1>3. UnusedEmpty'
  BY <1>1 DEF UnusedEmpty, EmptySlot
<1> QED
  BY <1>2, <1>3 DEF StashInv

LEMMA SizeInv == ASSUME StashInv, NEW i \in Word, Size(i) PROVE StashInv'
<1>1. v0' \in Int
  <2>1. CASE i >= SlotCount
    BY <2>1 DEF Size, InvalidSlot
  <2>2. CASE ~(i >= SlotCount)
    <3>1. i \in SlotIndex
      BY <2>2, StashAssumption DEF Word, SlotIndex
    <3> QED
      BY <2>2, <3>1, StashAssumption DEF Size, StashInv, StashTypeOK, SlotTypeOK
  <2> QED
    BY <2>1, <2>2
<1> QED
  BY <1>1 DEF Size, StashInv, StashTypeOK, SlotTypeOK, UnusedEmpty

LEMMA GuestWriteInv ==
  ASSUME StashInv, NEW u \in Unit, NEW value \in Value, GuestWrite(u, value)
  PROVE  StashInv'
BY DEF GuestWrite, StashInv, StashTypeOK, SlotTypeOK, UnusedEmpty

LEMMA StashStepInv == StashInv /\ [StashNext]_stashVars => StashInv'
<1> SUFFICES ASSUME StashInv, [StashNext]_stashVars PROVE StashInv'
  OBVIOUS
<1>1. CASE Initialize
  BY <1>1, InitializeInv
<1>2. CASE \E source, copyUnits, reservedUnits \in Word : Store(source, copyUnits, reservedUnits)
  BY <1>2, StoreInv
<1>3. CASE \E destination, i, offset, readUnits \in Word, rpcMode \in {0, 1} :
             Read(destination, i, offset, readUnits, rpcMode)
  BY <1>3, ReadInv
<1>4. CASE \E i \in Word : Size(i)
  BY <1>4, SizeInv
<1>5. CASE \E u \in Unit, value \in Value : GuestWrite(u, value)
  BY <1>5, GuestWriteInv
<1>6. CASE UNCHANGED stashVars
  BY <1>6 DEF stashVars, StashInv, StashTypeOK, SlotTypeOK, UnusedEmpty
<1> QED
  BY <1>1, <1>2, <1>3, <1>4, <1>5, <1>6 DEF StashNext

(* The stash's variables keep their types: lengths within RAM, copies      *)
(* within reservations, the bytes of each slot as many as it copied.       *)
THEOREM StashTypeCorrect == StashSpec => []StashTypeOK
<1>1. StashInv => StashTypeOK
  BY DEF StashInv
<1> QED
  BY <1>1, StashInitInv, StashStepInv, PTL DEF StashSpec

LEMMA InvReadsBack == StashInv => StoresReadBack
<1> SUFFICES ASSUME StashInv, NEW i \in SlotIndex
             PROVE  IF i < nextSlot /\ slots[i].reservedUnits # 0
                    THEN ReadStatus(0, i, 0, slots[i].copiedUnits, 0) = 0
                    ELSE ReadStatus(0, i, 0, 0, 0) = InvalidSlot
  BY DEF StoresReadBack
<1>1. /\ SlotTypeOK(slots[i]) /\ nextSlot \in Int /\ i \in Int /\ ~(i >= SlotCount)
  BY StashAssumption DEF StashInv, StashTypeOK, SlotIndex
<1>2. CASE i < nextSlot /\ slots[i].reservedUnits # 0
  <2>1. Wanted(slots[i], slots[i].copiedUnits) = slots[i].copiedUnits
    BY <1>1, StashAssumption DEF Wanted, SlotTypeOK
  <2>2. /\ Available(slots[i], 0, slots[i].copiedUnits) /\ CheckedUnits(0)
        /\ CheckedUnits(slots[i].copiedUnits) /\ GuestRangeValid(0, slots[i].copiedUnits)
    BY <1>1, StashAssumption DEF Available, CheckedUnits, GuestRangeValid, SlotTypeOK
  <2> QED
    BY <1>1, <1>2, <2>1, <2>2 DEF ReadStatus
<1>3. CASE ~(i < nextSlot /\ slots[i].reservedUnits # 0)
  <2>1. slots[i].reservedUnits = 0
    BY <1>1, <1>3 DEF StashInv, UnusedEmpty
  <2> QED
    BY <1>1, <1>3, <2>1 DEF ReadStatus
<1> QED
  BY <1>2, <1>3

(* Whatever was stored, refused and reset before, every number handed out  *)
(* for a reservation reads back what it copied, and no other number reads. *)
THEOREM StashReadsBack == StashSpec => []StoresReadBack
BY InvReadsBack, StashInitInv, StashStepInv, PTL DEF StashSpec
----------------------------------------------------------------------------
(* The refinement.  Zero answers and slot numbers are naturals, refusals   *)
(* are negative, so each handler maps to the promise its answer belongs to.*)
Stored == [i \in 0 .. nextSlot - 1 |-> Contents(i)]

LEMMA InitRefines == StashInit => Promise!StoreInit
<1> SUFFICES ASSUME StashInit PROVE Promise!StoreInit
  OBVIOUS
<1>1. 0 .. nextSlot - 1 = {}
  BY DEF StashInit
<1>2. Stored = <<>>
  BY <1>1 DEF Stored
<1> QED
  BY <1>2 DEF StashInit, Promise!StoreInit, Promise!Unit, Unit, Stored

LEMMA StoreRefines ==
  ASSUME StashInv, NEW source \in Word, NEW copyUnits \in Word, NEW reservedUnits \in Word,
         Store(source, copyUnits, reservedUnits)
  PROVE  Promise!StoreNext
<1>1. CASE StoreFits(source, copyUnits, reservedUnits) /\ HasSlot
  <2>1. /\ source \in 0 .. RamUnits /\ copyUnits \in 0 .. RamUnits
        /\ reservedUnits \in 0 .. RamUnits
        /\ source + copyUnits <= RamUnits /\ copyUnits <= reservedUnits
    BY <1>1, StashAssumption DEF StoreFits, CheckedUnits, GuestRangeValid, Word
  <2>2. nextSlot \in 0 .. SlotCount - 1 /\ nextSlot < SlotCount /\ nextSlot \in SlotIndex
    BY <1>1, StashAssumption DEF StashInv, StashTypeOK, HasSlot, SlotIndex
  <2>3. /\ slots' = [slots EXCEPT ![nextSlot] = Staged(source, copyUnits, reservedUnits)]
        /\ nextSlot' = nextSlot + 1 /\ v0' = nextSlot /\ rdram' = rdram
    BY <1>1 DEF Store
  <2> DEFINE entry == [reserved |-> reservedUnits, size |-> copyUnits,
                       data |-> Promise!Copy(source, copyUnits)]
  <2>4. Stored' = [i \in 0 .. nextSlot |-> IF i = nextSlot THEN entry ELSE Stored[i]]
    <3>1. DOMAIN Stored' = 0 .. nextSlot
      BY <2>2, <2>3 DEF Stored
    <3>2. \A i \in 0 .. nextSlot : Contents(i)' = IF i = nextSlot THEN entry ELSE Stored[i]
      <4> SUFFICES ASSUME NEW i \in 0 .. nextSlot
                   PROVE  Contents(i)' = IF i = nextSlot THEN entry ELSE Stored[i]
        OBVIOUS
      <4>1. i \in SlotIndex
        BY <2>2, StashAssumption DEF SlotIndex
      <4>2. CASE i = nextSlot
        <5>1. slots'[i] = Staged(source, copyUnits, reservedUnits)
          BY <2>3, <4>1, <4>2 DEF StashInv, StashTypeOK
        <5> QED
          BY <4>2, <5>1 DEF Contents, Staged, Promise!Copy
      <4>3. CASE i # nextSlot
        <5>1. slots'[i] = slots[i] /\ i \in 0 .. nextSlot - 1
          BY <2>2, <2>3, <4>1, <4>3 DEF StashInv, StashTypeOK
        <5> QED
          BY <4>3, <5>1 DEF Contents, Stored
      <4> QED
        BY <4>2, <4>3
    <3> QED
      BY <2>2, <2>3, <3>2 DEF Stored
  <2>5. DOMAIN Stored = 0 .. nextSlot - 1
    BY DEF Stored
  <2>6. Promise!Put(source, copyUnits, reservedUnits, nextSlot)
    BY <2>1, <2>2, <2>3, <2>4, <2>5 DEF Promise!Put, Stored
  <2> QED
    BY <2>1, <2>2, <2>6 DEF Promise!StoreNext
<1>2. CASE StoreFits(source, copyUnits, reservedUnits) /\ ~HasSlot
  <2>1. nextSlot = SlotCount
    BY <1>2, StashAssumption DEF StashInv, StashTypeOK, HasSlot
  <2>2. DOMAIN Stored = 0 .. SlotCount - 1
    BY <2>1 DEF Stored
  <2>3. v0' = -2 /\ UNCHANGED <<slots, nextSlot, rdram>>
    BY <1>2 DEF Store, NoSlot
  <2>4. Stored' = Stored
    BY <2>3 DEF Stored, Contents
  <2>5. Promise!Refuse(-2)
    BY <2>2, <2>3, <2>4 DEF Promise!Refuse, Stored
  <2> QED
    BY <2>5 DEF Promise!StoreNext
<1>3. CASE ~StoreFits(source, copyUnits, reservedUnits)
  <2>1. v0' = -1 /\ UNCHANGED <<slots, nextSlot, rdram>>
    BY <1>3 DEF Store, OutOfSpace
  <2>2. Stored' = Stored
    BY <2>1 DEF Stored, Contents
  <2>3. Promise!Refuse(-1)
    BY <2>1, <2>2 DEF Promise!Refuse, Stored
  <2> QED
    BY <2>3 DEF Promise!StoreNext
<1> QED
  BY <1>1, <1>2, <1>3

LEMMA ReadRefines ==
  ASSUME StashInv, NEW destination \in Word, NEW i \in Word, NEW offset \in Word,
         NEW readUnits \in Word, NEW rpcMode, Read(destination, i, offset, readUnits, rpcMode)
  PROVE  Promise!StoreNext
<1>1. UNCHANGED <<slots, nextSlot>> /\ v0' = ReadStatus(destination, i, offset, readUnits, rpcMode)
  BY DEF Read
<1>2. Stored' = Stored
  BY <1>1 DEF Stored, Contents
<1>3. CASE v0' = 0
  <2> DEFINE units == Wanted(slots[i], readUnits)
  <2>1. /\ i \in SlotIndex /\ i < nextSlot /\ slots[i].reservedUnits # 0
        /\ units \in 0 .. RamUnits /\ offset \in 0 .. RamUnits /\ destination \in 0 .. RamUnits
        /\ destination + units <= RamUnits /\ offset + units <= slots[i].copiedUnits
    BY <1>1, <1>3, ReadFits
  <2>2. i \in 0 .. nextSlot - 1 /\ i \in 0 .. SlotCount - 1
    BY <2>1, StashAssumption DEF StashInv, StashTypeOK, SlotIndex
  <2>3. /\ i \in DOMAIN Stored /\ Stored[i].reserved = slots[i].reservedUnits
        /\ Stored[i].size = slots[i].copiedUnits /\ Stored[i].data = slots[i].bytes
    BY <2>2 DEF Stored, Contents
  <2>4. rdram' = [u \in Unit |-> IF destination <= u /\ u < destination + units
                                 THEN slots[i].bytes[offset + (u - destination)]
                                 ELSE rdram[u]]
    BY <1>3 DEF Read
  <2>5. rdram' = Promise!Written(destination, Stored[i].data, offset, units)
    BY <2>3, <2>4 DEF Promise!Written, Promise!Range, Promise!Unit, Unit
  <2>6. Promise!Get(destination, i, offset, units)
    BY <1>2, <1>3, <2>1, <2>3, <2>5 DEF Promise!Get, Stored
  <2> QED
    BY <2>1, <2>2, <2>6 DEF Promise!StoreNext
<1>4. CASE v0' # 0
  <2>1. v0' \in {-1, -3} /\ rdram' = rdram
    BY <1>1, <1>4 DEF Read, ReadStatus, OutOfSpace, InvalidSlot
  <2>2. Promise!Refuse(v0')
    BY <1>2, <2>1 DEF Promise!Refuse, Stored
  <2> QED
    BY <2>1, <2>2 DEF Promise!StoreNext
<1> QED
  BY <1>3, <1>4

LEMMA SizeRefines ==
  ASSUME StashInv, NEW i \in Word, Size(i)
  PROVE  Promise!StoreNext
<1>1. UNCHANGED <<rdram, slots, nextSlot>>
  BY DEF Size
<1>2. Stored' = Stored
  BY <1>1 DEF Stored, Contents
<1>3. CASE i >= SlotCount
  <2>1. v0' = -3
    BY <1>3 DEF Size, InvalidSlot
  <2>2. Promise!Refuse(-3)
    BY <1>1, <1>2, <2>1 DEF Promise!Refuse, Stored
  <2> QED
    BY <2>2 DEF Promise!StoreNext
<1>4. CASE ~(i >= SlotCount)
  <2>1. i \in SlotIndex /\ i \in 0 .. SlotCount - 1
    BY <1>4, StashAssumption DEF Word, SlotIndex
  <2>2. v0' = slots[i].reservedUnits
    BY <1>4 DEF Size
  <2>3. CASE i < nextSlot
    <3>1. i \in 0 .. nextSlot - 1
      BY <2>1, <2>3 DEF StashInv, StashTypeOK
    <3>2. i \in DOMAIN Stored /\ Stored[i].reserved = slots[i].reservedUnits
      BY <3>1 DEF Stored, Contents
    <3>3. Promise!Length(i)
      BY <1>1, <1>2, <2>2, <3>2 DEF Promise!Length, Stored
    <3> QED
      BY <2>1, <3>3 DEF Promise!StoreNext
  <2>4. CASE ~(i < nextSlot)
    <3>1. i \notin DOMAIN Stored
      BY <2>1, <2>4 DEF Stored, StashInv, StashTypeOK
    <3>2. slots[i].reservedUnits = 0
      BY <2>1, <2>4 DEF StashInv, StashTypeOK, UnusedEmpty
    <3>3. Promise!Length(i)
      BY <1>1, <1>2, <2>2, <3>1, <3>2 DEF Promise!Length, Stored
    <3> QED
      BY <2>1, <3>3 DEF Promise!StoreNext
  <2> QED
    BY <2>3, <2>4
<1> QED
  BY <1>3, <1>4

LEMMA StepRefines ==
  StashInv /\ [StashNext]_stashVars => [Promise!StoreNext]_(Promise!storeVars)
<1> SUFFICES ASSUME StashInv, [StashNext]_stashVars
             PROVE  [Promise!StoreNext]_(Promise!storeVars)
  OBVIOUS
<1>1. CASE Initialize
  <2>1. 0 .. nextSlot' - 1 = {}
    BY <1>1 DEF Initialize
  <2>2. Stored' = <<>>
    BY <2>1 DEF Stored
  <2>3. Promise!Reset
    BY <1>1, <2>2 DEF Initialize, Promise!Reset, Stored
  <2> QED
    BY <2>3 DEF Promise!StoreNext
<1>2. CASE \E source, copyUnits, reservedUnits \in Word : Store(source, copyUnits, reservedUnits)
  BY <1>2, StoreRefines
<1>3. CASE \E destination, i, offset, readUnits \in Word, rpcMode \in {0, 1} :
             Read(destination, i, offset, readUnits, rpcMode)
  BY <1>3, ReadRefines
<1>4. CASE \E i \in Word : Size(i)
  BY <1>4, SizeRefines
<1>5. CASE \E u \in Unit, value \in Value : GuestWrite(u, value)
  <2>1. PICK u \in Unit, value \in Value : GuestWrite(u, value)
    BY <1>5
  <2>2. Stored' = Stored
    BY <2>1 DEF GuestWrite, Stored, Contents
  <2>3. Promise!GuestWrite(u, value)
    BY <2>1, <2>2 DEF GuestWrite, Promise!GuestWrite, Stored
  <2> QED
    BY <2>3 DEF Promise!StoreNext, Promise!Unit, Unit
<1>6. CASE UNCHANGED stashVars
  <2>1. Stored' = Stored
    BY <1>6 DEF stashVars, Stored, Contents
  <2> QED
    BY <1>6, <2>1 DEF stashVars, Promise!storeVars, Stored
<1> QED
  BY <1>1, <1>2, <1>3, <1>4, <1>5, <1>6 DEF StashNext

(* The host-memory stash implements the store it promises: snapshots,      *)
(* exact retrieval, and refusals without effect.                           *)
THEOREM StashImplementsStore == StashSpec => StashKeepsPromise
<1>1. StashSpec => []StashInv
  BY StashInitInv, StashStepInv, PTL DEF StashSpec
<1> QED
  BY <1>1, InitRefines, StepRefines, PTL DEF StashSpec, StashKeepsPromise, Promise!StoreSpec
=============================================================================
