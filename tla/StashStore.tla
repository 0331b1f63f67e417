----------------------------- MODULE StashStore -----------------------------
(***************************************************************************)
(* What the game is promised of its resource stash: every accepted store   *)
(* keeps a copy of the memory it named under the next slot number, a       *)
(* retrieval writes exactly the bytes stored, whatever became of the       *)
(* source since, and a refused request changes neither the stash nor       *)
(* guest memory.                                                           *)
(***************************************************************************)
EXTENDS Integers

CONSTANTS RamUnits, Value, SlotCount

VARIABLES
  memory,   \* guest RAM, one value per 16-byte unit
  store,    \* slot number -> what was stored, for the numbers handed out
  answer    \* v0

storeVars == <<memory, store, answer>>

Unit == 0 .. RamUnits - 1

Range(first, n) == {u \in Unit : first <= u /\ u < first + n}

\* A copy of n units of memory, and memory after n units of data are written to it.
Copy(first, n) == [k \in 0 .. n - 1 |-> memory[first + k]]
Written(first, data, from, n) ==
  [u \in Unit |-> IF u \in Range(first, n) THEN data[from + (u - first)] ELSE memory[u]]

Reset ==
  /\ store' = <<>>
  /\ UNCHANGED <<memory, answer>>

Put(first, n, reserved, number) ==
  /\ answer' = number
  /\ first + n <= RamUnits /\ n <= reserved
  /\ DOMAIN store = 0 .. number - 1 /\ number < SlotCount
  /\ store' = [i \in 0 .. number |->
                 IF i = number THEN [reserved |-> reserved, size |-> n, data |-> Copy(first, n)]
                 ELSE store[i]]
  /\ UNCHANGED memory

Get(first, i, from, n) ==
  /\ answer' = 0
  /\ i \in DOMAIN store /\ store[i].reserved # 0
  /\ from + n <= store[i].size /\ first + n <= RamUnits
  /\ memory' = Written(first, store[i].data, from, n)
  /\ UNCHANGED store

Length(i) ==
  /\ answer' = IF i \in DOMAIN store THEN store[i].reserved ELSE 0
  /\ UNCHANGED <<memory, store>>

\* -2 is reserved for a full stash, -3 for a slot that holds nothing.
Refuse(why) ==
  /\ answer' = why
  /\ why = -2 => DOMAIN store = 0 .. SlotCount - 1
  /\ UNCHANGED <<memory, store>>

GuestWrite(u, value) ==
  /\ memory' = [memory EXCEPT ![u] = value]
  /\ UNCHANGED <<store, answer>>

StoreInit ==
  /\ memory \in [Unit -> Value]
  /\ store = <<>>
  /\ answer = 0

StoreNext ==
  \/ \E why \in {-1, -2, -3} : Refuse(why)
  \/ Reset
  \/ \E first, n, reserved \in 0 .. RamUnits, number \in 0 .. SlotCount - 1 :
       Put(first, n, reserved, number)
  \/ \E first, from, n \in 0 .. RamUnits, i \in 0 .. SlotCount - 1 : Get(first, i, from, n)
  \/ \E i \in 0 .. SlotCount - 1 : Length(i)
  \/ \E u \in Unit, value \in Value : GuestWrite(u, value)

StoreSpec == StoreInit /\ [][StoreNext]_storeVars
=============================================================================
