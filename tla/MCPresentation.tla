--------------------------- MODULE MCPresentation ---------------------------
(* The one mapping the code knows, WADS2 69 to Level 0, a second generation *)
(* (the frontend's), and an autopilot cycle of four frames.                 *)
EXTENDS Presentation

MCLevelOf == [wad2 \in {69} |-> 0]
MCIndexed == {<<0, 69>>}
=============================================================================
