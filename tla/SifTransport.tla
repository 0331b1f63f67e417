---------------------------- MODULE SifTransport ----------------------------
(***************************************************************************)
(* SifRpcTransport: which service each EE RPC client is bound to, the last *)
(* payload sent to each remote buffer, and the one verified allocation of  *)
(* the IOP heap service.                                                   *)
(*                                                                         *)
(* Both tables are fixed arrays searched from the front.  An entry is      *)
(* never removed while the program runs, so a partial function of bounded  *)
(* size is the same table.                                                 *)
(***************************************************************************)
EXTENDS Integers, Sequences, FiniteSets

CONSTANTS
  Client, Service, Remote,   \* client objects, service ids, remote buffers
  NoRemote,                  \* a call without a send buffer
  HeapService,               \* 0x80000003
  HeapBase,                  \* kVerifiedIopHeapBase
  Behaviors,                 \* the rows of kVerifiedCallBehaviors
  MaxBindings, MaxPayloads   \* table sizes: 16 and 32 in the code

\* A row asks for no payload when requestSize is 0, for any word when requestWord is 0.
Behavior == [service : Service, function : Nat, receiveSize : Nat,
             requestSize : Nat, requestWord : Nat]

ASSUME TransportAssumption ==
  /\ HeapService \in Service /\ NoRemote \notin Remote
  /\ HeapBase \in Nat \ {0}
  /\ Behaviors \subseteq Behavior
  /\ MaxBindings \in Nat /\ MaxPayloads \in Nat

VARIABLES bindings, payloads, heap    \* heap: iopHeapActiveAddress_

transportVars == <<bindings, payloads, heap>>

RecordedUnbounded(table, limit, key, value) ==    \* Mistake: no free slot is looked for.
  [k \in DOMAIN table \cup {key} |-> IF k = key THEN value ELSE table[k]]

RecordedOnce(table, limit, key, value) ==    \* Mistake: a known key keeps its old value.
  IF key \notin DOMAIN table /\ Cardinality(DOMAIN table) < limit
  THEN [k \in DOMAIN table \cup {key} |-> IF k = key THEN value ELSE table[k]]
  ELSE table

\* table[key] = value if the key is there already or a slot is free.
Recorded(table, limit, key, value) ==
  IF key \in DOMAIN table \/ Cardinality(DOMAIN table) < limit
  THEN [k \in DOMAIN table \cup {key} |-> IF k = key THEN value ELSE table[k]]
  ELSE table

RecordBinding(client, service) ==
  bindings' = Recorded(bindings, MaxBindings, client, service)

RecordOutboundPayload(remote, size, word) ==
  payloads' = IF remote = NoRemote \/ size = 0 THEN payloads
              ELSE Recorded(payloads, MaxPayloads, remote, [size |-> size, word |-> word])

----------------------------------------------------------------------------
(* resolveCall.  A call carries function, receive buffer and size, remote  *)
(* send buffer and send size.                                              *)
Bound(client) == client \in DOMAIN bindings

Captured(call, size) ==
  call.remote \in DOMAIN payloads /\ call.sendSize = size /\ payloads[call.remote].size = size

HeapAllocatesAgain(call) ==    \* Mistake: a live allocation is not noticed.
  call.function = 1 /\ payloads[call.remote].word # 0

HeapAllocates(call) ==
  /\ call.function = 1
  /\ payloads[call.remote].word # 0 /\ heap = 0

HeapFrees(call) ==
  /\ call.function = 2
  /\ payloads[call.remote].word # 0 /\ payloads[call.remote].word = heap

HeapCompletes(call) ==
  /\ call.receiveSize = 4 /\ Captured(call, 4)
  /\ HeapAllocates(call) \/ HeapFrees(call)

RowMatches(row, service, call) ==
  /\ row.service = service
  /\ row.function = call.function /\ row.receiveSize = call.receiveSize
  /\ row.requestSize # 0 =>
       /\ Captured(call, row.requestSize)
       /\ row.requestWord # 0 => payloads[call.remote].word = row.requestWord

IsHeapCall(service, call) == service = HeapService /\ call.function \in {1, 2}

Completes(client, call) ==
  /\ Bound(client)
  /\ call.receiveSize # 0 => call.receiveBuffer
  /\ IF IsHeapCall(bindings[client], call) THEN HeapCompletes(call)
     ELSE \E row \in Behaviors : RowMatches(row, bindings[client], call)

ResolveWithoutFree(client, call) ==    \* Mistake: a free does not release the base.
  heap' = IF IsHeapCall(bindings[client], call) THEN HeapBase ELSE heap

\* The heap word after a completed call.
ResolveCall(client, call) ==
  heap' = IF ~IsHeapCall(bindings[client], call) THEN heap
          ELSE IF call.function = 1 THEN HeapBase ELSE 0

TransportInit == bindings = <<>> /\ payloads = <<>> /\ heap = 0
=============================================================================
