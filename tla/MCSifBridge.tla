----------------------------- MODULE MCSifBridge ----------------------------
(* Three services with the shapes of the verified table: the heap (allocate *)
(* and free through one remote buffer), one that asks for nothing, one that *)
(* asks for a payload starting with the heap base.                          *)
EXTENDS SifBridge, TLC

CONSTANTS heapBuffer, fileBuffer

HeapId == 3
DiskId == 4
FileId == 6

Row(s, f, receive, send, first) ==
  [service |-> s, function |-> f, receiveSize |-> receive, requestSize |-> send,
   requestWord |-> first]

DiskBehaviors == {Row(DiskId, 0, 4, 0, 0)}
FileBehaviors == {Row(FileId, 6, 8, 512, HeapBase)}

Message(s, f, receive, to, send, first) ==
  [service |-> s,
   call |-> [function |-> f, receiveBuffer |-> TRUE, receiveSize |-> receive,
             remote |-> to, sendSize |-> send, word |-> first]]

Allocate == Message(HeapId, 1, 4, heapBuffer, 4, 7)
Free     == Message(HeapId, 2, 4, heapBuffer, 4, HeapBase)
DiskCall == Message(DiskId, 0, 4, NoRemote, 0, 0)
FileCall == Message(FileId, 6, 8, fileBuffer, 512, HeapBase)

\* A call no row verifies.
UnknownCall == Message(DiskId, 9, 0, NoRemote, 0, 0)

SupportedCalls == {Allocate, Free, FileCall}
AllCalls == {Allocate, Free, DiskCall, UnknownCall}

ClientSymmetry == Permutations(Client)
=============================================================================
