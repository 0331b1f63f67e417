------------------------- MODULE MCOverlayDispatch -------------------------
(* A table of three slots, two overlapping generations (4 over slots 4 and *)
(* 8, 8 over slots 8 and 12 in two records), and one request for every     *)
(* reason activate() has to refuse.                                        *)
EXTENDS OverlayDispatch

CONSTANTS f, g

range(first, last) == [begin |-> first, end |-> last]
entry(address, owner) == [pc |-> address, function |-> owner]
request(gen, fns, rngs) ==
  [validTable |-> TRUE, generation |-> gen, entries |-> fns, ranges |-> rngs]

FirstGeneration ==
  request(4, <<entry(4, f), entry(8, g)>>, <<range(4, 12)>>)

\* The same generation entry with another callable body: the intact test must see it.
FirstGenerationRebuilt ==
  request(4, <<entry(4, g), entry(8, g)>>, <<range(4, 12)>>)

SecondGeneration ==
  request(8, <<entry(8, f)>>, <<range(12, 16), range(8, 12)>>)

Malformed ==
  {[FirstGeneration EXCEPT !.validTable = FALSE],
   request(0, FirstGeneration.entries, FirstGeneration.ranges),
   request(4, <<>>, FirstGeneration.ranges),
   request(4, FirstGeneration.entries, <<>>),
   request(4, FirstGeneration.entries, <<range(4, 12), range(8, 20)>>),
   request(4, FirstGeneration.entries, <<range(4, 12), range(8, 16)>>),
   request(4, <<entry(4, f), entry(5, g)>>, <<range(4, 12)>>),
   request(4, <<entry(4, f), entry(8, g), entry(4, g)>>, <<range(4, 12)>>),
   request(4, <<entry(4, f), entry(12, g)>>, <<range(4, 12)>>),
   request(12, FirstGeneration.entries, FirstGeneration.ranges)}

MCRequests == Malformed \cup {FirstGeneration, FirstGenerationRebuilt, SecondGeneration}
============================================================================
