-------------------------- MODULE MCOverlayBridge --------------------------
(* Five slots.  Generation 8 (two records, a gap at 12 that keeps its      *)
(* owner) and generation 16 overlap on slot 16 only, so owners of three    *)
(* images meet in the table.  The body of boot function 12 reaches into    *)
(* slot 16, which both overwrite.  Generation 20 has no compiled module.   *)
EXTENDS OverlayBridge

CONSTANTS bootA, bootB, native, outer, inner, second

range(b, e) == [begin |-> b, end |-> e]
entry(address, owner) == [pc |-> address, function |-> owner]

MCRecords ==
  [gen \in {8, 16, 20} |->
     CASE gen = 8  -> <<range(8, 12), range(16, 20)>>
       [] gen = 16 -> <<range(16, 24)>>
       [] gen = 20 -> <<range(4, 8), range(16, 20)>>]

MCModule ==
  [gen \in {8, 16} |->
     [validTable |-> TRUE, generation |-> gen, ranges |-> MCRecords[gen],
      entries |-> IF gen = 8 THEN <<entry(8, outer), entry(16, inner)>>
                  ELSE <<entry(16, second)>>]]

MCImage ==
  [owner \in Owner |-> CASE owner \in {outer, inner} -> 8
                         [] owner = second -> 16
                         [] OTHER -> Boot]

MCBody ==
  [owner \in Owner |-> CASE owner = bootA  -> {4}
                         [] owner = bootB  -> {16, 20}
                         [] owner = native -> {12, 16}
                         [] owner = outer  -> {8}
                         [] owner = inner  -> {16}
                         [] owner = second -> {16, 20}]

MCBootOwners == {<<4, bootA>>, <<16, bootB>>, <<12, native>>}
============================================================================
