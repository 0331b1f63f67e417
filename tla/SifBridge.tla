----------------------------- MODULE SifBridge -----------------------------
(***************************************************************************)
(* The SIF compatibility bridge: guest_11a948 stands in for the IOP.  Each *)
(* time the guest's response dispatcher runs, the bridge looks for the     *)
(* first outbound RPC packet whose client still waits, writes one answer   *)
(* into the guest's single response buffer, and lets the generated         *)
(* dispatcher consume it.                                                  *)
(*                                                                         *)
(* The guest RPC library is recompiled game code, outside the repository.  *)
(* What is modelled of it: a request takes the first free packet slot and  *)
(* sets the first word of its client; an answer clears that word and frees *)
(* the slot, whose old contents stay in memory; payloads follow by DMA; no *)
(* request is made before the INIT answer.                                 *)
(***************************************************************************)
EXTENDS SifTransport

CONSTANTS
  Slots,       \* packet slots scanned (64 in the code)
  Calls,       \* calls the guest makes, with the word its payload starts with
  Startup,     \* services of kStartupResponseMappings
  Careful      \* TRUE: the guest keeps one live allocation, is idle when it resets
               \* the IOP, and binds its clients again afterwards

Slot == 1 .. Slots
None == 0

Call == [function : Nat, receiveBuffer : BOOLEAN, receiveSize : Nat,
         remote : Remote \cup {NoRemote}, sendSize : Nat, word : Nat]

ASSUME SifAssumption ==
  /\ Slots \in Nat \ {0} /\ Careful \in BOOLEAN
  /\ Calls \subseteq [service : Service, call : Call]
  /\ Startup \subseteq Service \ {HeapService}
  /\ None \notin Service

VARIABLES
  packet,         \* guest memory of each slot
  waiting,        \* first word of each client: the slot of its request, or None
  server,         \* service the guest believes a client is bound to, or None
  sent,           \* clients whose call payload has been sent
  held,           \* live allocations, as the guest counts them
  initSent,       \* the INIT command is in guest memory
  inited,         \* the guest has consumed an INIT answer
  initInjected, bridgeActive, command3Seen,  \* g_sif* flags and the resolver's
  bindsAcrossReset   \* history: clients with a BIND in flight at the latest IopReady

flags == <<initInjected, bridgeActive, command3Seen>>
clientVars == <<packet, waiting, server, sent>>
sifVars == <<transportVars, clientVars, held, initSent, inited, flags, bindsAcrossReset>>

FreePacket == [command |-> "none"]
SmallestOf(S) == CHOOSE s \in S : \A other \in S : s <= other
FreeSlot == Slot \ {waiting[c] : c \in Client}
InFlight(command) == {c \in Client : waiting[c] # None /\ packet[waiting[c]].command = command}

----------------------------------------------------------------------------
(* The guest (external).                                                   *)
SendInit ==
  /\ ~initSent /\ initSent' = TRUE
  /\ UNCHANGED <<transportVars, clientVars, held, inited, flags, bindsAcrossReset>>

Request(c, p) ==
  /\ inited /\ waiting[c] = None /\ FreeSlot # {}
  /\ packet' = [packet EXCEPT ![SmallestOf(FreeSlot)] = p]
  /\ waiting' = [waiting EXCEPT ![c] = SmallestOf(FreeSlot)]
  /\ sent' = sent \ {c}
  /\ UNCHANGED <<transportVars, held, initSent, inited, flags, bindsAcrossReset>>

Bind(c, s) ==
  /\ Request(c, [command |-> "BIND", client |-> c, service |-> s])
  /\ server' = [server EXCEPT ![c] = None]

AllocationInFlight == \E c \in InFlight("CALL") : server[c] = HeapService

RespectsHeap(s, call) ==
  s = HeapService => /\ call.function = 1 => held = 0
                     /\ call.function = 2 => held = 1
                     /\ ~AllocationInFlight

MakeCall(c, s, call) ==
  /\ server[c] = s
  /\ Careful => RespectsHeap(s, call)
  /\ Request(c, [command |-> "CALL", client |-> c, call |-> call])
  /\ UNCHANGED server

----------------------------------------------------------------------------
(* guest_118b20: the payload of a request, captured on its way out.        *)
SetDma(c) ==
  /\ c \in InFlight("CALL") \ sent
  /\ LET call == packet[waiting[c]].call IN
     RecordOutboundPayload(call.remote, call.sendSize, call.word)
  /\ sent' = sent \cup {c}
  /\ UNCHANGED <<bindings, heap, packet, waiting, server, held, initSent, inited, flags,
                 bindsAcrossReset>>

(* guest_11cf10: the IOP-ready poll.  It forgets the bridge's flags and    *)
(* the resolver's, but nothing of the transport, whatever is in flight.    *)
IopReady ==
  /\ IF Careful
     THEN /\ held = 0 /\ \A c \in Client : waiting[c] = None
          /\ server' = [c \in Client |-> None]
     ELSE UNCHANGED server
  /\ initInjected' = FALSE /\ bridgeActive' = FALSE /\ command3Seen' = FALSE
  /\ inited' = FALSE
  /\ bindsAcrossReset' = InFlight("BIND")
  /\ UNCHANGED <<transportVars, packet, waiting, sent, held, initSent>>

----------------------------------------------------------------------------
(* guest_11a948.                                                           *)
InjectsInit == initSent /\ ~initInjected

AllPackets == {s \in Slot : packet[s].command # "none"}    \* Mistake: stale packets too.

\* Packets whose client's first word is still set.
Candidates == {s \in Slot : packet[s].command # "none" /\ waiting[packet[s].client] # None}
Candidate == SmallestOf(Candidates)

AlwaysActive(s) == TRUE    \* Mistake: calls are answered before any BIND.

\* The bridge is active once it has seen a BIND since the latest INIT.
Active(s) == packet[s].command = "BIND" \/ (bridgeActive /\ ~InjectsInit)

\* An uncompletable call stays pending, and so does every packet behind it.
Answerable(s) ==
  /\ Candidates # {} /\ s = Candidate /\ Active(s)
  /\ packet[s].command = "CALL" => Completes(packet[s].client, packet[s].call)

\* SifStartupResponseResolver: the first bind of the heap service only arms it.
BindCompletes(service) == service \in Startup \/ (service = HeapService /\ command3Seen)

AnswerBind(c, service) ==
  /\ bridgeActive' = TRUE
  /\ command3Seen' = (command3Seen \/ service = HeapService)
  /\ IF BindCompletes(service)
     THEN RecordBinding(c, service) /\ server' = [server EXCEPT ![c] = service]
     ELSE UNCHANGED <<bindings, server>>
  /\ UNCHANGED <<payloads, heap, held>>

AnswerCall(c, call) ==
  /\ ResolveCall(c, call)
  /\ held' = IF ~IsHeapCall(bindings[c], call) THEN held
             ELSE IF call.function = 1 THEN held + 1 ELSE held - 1
  /\ UNCHANGED <<bindings, payloads, server, bridgeActive, command3Seen>>

\* The answer overwrites an INIT response written by the same invocation.
Answer(s) ==
  /\ initSent /\ Answerable(s)
  /\ initInjected' = TRUE
  /\ \/ packet[s].command = "BIND" /\ AnswerBind(packet[s].client, packet[s].service)
     \/ packet[s].command = "CALL" /\ AnswerCall(packet[s].client, packet[s].call)
  /\ waiting' = [waiting EXCEPT ![packet[s].client] = None]
  /\ UNCHANGED <<packet, sent, initSent, inited, bindsAcrossReset>>

AnswerInit ==
  /\ InjectsInit /\ \A s \in Slot : ~Answerable(s)
  /\ initInjected' = TRUE /\ bridgeActive' = FALSE
  /\ inited' = TRUE
  /\ UNCHANGED <<transportVars, clientVars, held, initSent, command3Seen, bindsAcrossReset>>

\* A run of the dispatcher that finds nothing to answer changes nothing.
Dispatch == AnswerInit \/ \E s \in Slot : Answer(s)

SifInit ==
  /\ TransportInit
  /\ packet = [s \in Slot |-> FreePacket]
  /\ waiting = [c \in Client |-> None]
  /\ server = [c \in Client |-> None]
  /\ sent = {} /\ held = 0
  /\ initSent = FALSE /\ inited = FALSE
  /\ initInjected = FALSE /\ bridgeActive = FALSE /\ command3Seen = FALSE
  /\ bindsAcrossReset = {}

SifNext ==
  \/ SendInit
  \/ \E c \in Client, s \in Service : Bind(c, s)
  \/ \E c \in Client, m \in Calls : MakeCall(c, m.service, m.call)
  \/ \E c \in Client : SetDma(c)
  \/ IopReady
  \/ Dispatch

SifSpec == SifInit /\ [][SifNext]_sifVars

FairSifSpec == SifSpec /\ WF_sifVars(Dispatch) /\ \A c \in Client : WF_sifVars(SetDma(c))

----------------------------------------------------------------------------
SifTypeOK ==
  /\ DOMAIN bindings \subseteq Client /\ \A c \in DOMAIN bindings : bindings[c] \in Service
  /\ Cardinality(DOMAIN bindings) <= MaxBindings
  /\ DOMAIN payloads \subseteq Remote
  /\ \A r \in DOMAIN payloads : payloads[r] \in [size : Nat, word : Nat]
  /\ Cardinality(DOMAIN payloads) <= MaxPayloads
  /\ heap \in {0, HeapBase}
  /\ DOMAIN packet = Slot
  /\ \A s \in Slot : packet[s].command # "none" => packet[s].client \in Client
  /\ waiting \in [Client -> Slot \cup {None}]
  /\ server \in [Client -> Service \cup {None}]
  /\ sent \subseteq Client /\ held \in Nat /\ bindsAcrossReset \subseteq Client
  /\ {initSent, inited, initInjected, bridgeActive, command3Seen} \subseteq BOOLEAN

(* The bridge answers exactly the packet its client waits for, never the   *)
(* outbound packet a previous request left in a lower slot.                *)
AnswersWaitingClient ==
  [][\A s \in Slot : Answer(s) => waiting[packet[s].client] = s]_sifVars

(* A client whose BIND the guest saw complete is routed to that service,   *)
(* whatever it was bound to before, unless other clients fill the table.   *)
BoundClientsAreRouted ==
  \A c \in Client : server[c] # None =>
    \/ Bound(c) /\ bindings[c] = server[c]
    \/ ~Bound(c) /\ Cardinality(DOMAIN bindings) = MaxBindings

(* The verified heap base is reused only after its matching free: whatever *)
(* the guest asks, it never holds the base twice, and the bridge holds it  *)
(* exactly when the guest does.                                            *)
OneLiveAllocation == held = IF heap = HeapBase THEN 1 ELSE 0

(* The response buffer is single, and an INIT answer is not repeated until *)
(* the next poll.  One the guest has not consumed is overwritten only by   *)
(* the answer to a BIND that was in flight when the IOP was reset: never   *)
(* by a call's answer alone, nor if no BIND crossed the reset.             *)
InitLostOnlyToEarlierBind ==
  initInjected /\ ~inited => \E c \in bindsAcrossReset : waiting[c] = None

(* The head of the scan never blocks the requests behind it for ever, if   *)
(* the guest makes supported calls only, keeps one live allocation and     *)
(* resets the IOP when idle.  (A later request may still be overtaken by   *)
(* new ones in lower slots again and again: the scan is not fair.)         *)
HeadOfLineMoves ==
  \A s \in Slot : (Candidates # {} /\ Candidate = s) ~> (Candidates = {} \/ Candidate # s)
=============================================================================
