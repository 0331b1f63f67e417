----------------------------- MODULE MCLiveFrame -----------------------------
(* RDRAM of 14 units.  The pool is at 1-3; the class of Ratchet at 4 with   *)
(* one external and one class-local sequence, the latter at 7 with one      *)
(* frame; packets at 9, in the one transition slot at 11-12, and at 13,     *)
(* where a payload runs out of RDRAM; skies at 5 and 8.  A run starts with  *)
(* memory cleared or in the middle of a level with two mobies.              *)
EXTENDS LiveFrame

Address == 0 .. 20

Endpoint(sequence, frame, pointer) ==
  [sequence |-> sequence, frame |-> frame, pointer |-> pointer]

ClearedMoby == [state |-> 0, oClass |-> 0, class |-> 0, placement |-> "set", basis |-> "zero",
                interpolation |-> "unit", a |-> Endpoint(0, 0, 0), b |-> Endpoint(0, 0, 0),
                pvar |-> 0]

Ratchet == [ClearedMoby EXCEPT !.class = 4, !.basis = "set", !.pvar = 6,
              !.a = Endpoint(255, 0, 11), !.b = Endpoint(1, 0, 9)]
Crate == [Ratchet EXCEPT !.oClass = 1, !.class = 4]
EndMoby == [ClearedMoby EXCEPT !.state = End]

Table(local) == [p \in Address |-> IF p = 4 THEN local ELSE <<>>]
Packets(slotPayload, quality) ==
  [p \in Address |->
     [payload |-> IF p = 13 THEN 5 ELSE IF p = 11 THEN slotPayload ELSE 1,
      quality |-> IF p = 9 THEN quality ELSE "good"]]
SkyOf(count) == [p \in Address |->
  IF p = 5 THEN [count |-> count, shells |-> <<6, 7, 14>>]
  ELSE IF p = 8 THEN [count |-> 1, shells |-> <<9>>] ELSE [count |-> 0, shells |-> <<>>]]
Shells == [p \in Address |-> [clusters |-> 1, flags |-> IF p = 9 THEN 1 ELSE 0]]
CameraWith(orientation, clip) ==
  [position |-> "set", orientation |-> orientation, clip |-> clip]

Registry(slot0, slot1) == [c \in 0 .. 1 |-> IF c = 0 THEN slot0 ELSE slot1]

Level ==
  [base |-> 1, last |-> 3, moby |-> <<Ratchet, Crate, EndMoby>>,
   registry |-> Registry(0, 1), classTable |-> [s \in 0 .. 1 |-> 4],
   class |-> Table(<<0, 7>>), sequence |-> [p \in Address |-> IF p = 7 THEN <<9>> ELSE <<>>],
   packet |-> Packets(1, "good"), stateOf |-> [p \in Address |-> IF p = 6 THEN 8 ELSE 0],
   ownerOf |-> [p \in Address |-> 1],
   camera |-> CameraWith("set", "set"),
   skyPointer |-> 5, sky |-> SkyOf(1), shell |-> Shells,
   skyAngle |-> "set", skyTranslation |-> "set"]

Cleared ==
  [Level EXCEPT !.base = 0, !.last = 0, !.moby = [s \in 1 .. 3 |-> ClearedMoby],
     !.registry = Registry(Unregistered, Unregistered), !.camera = CameraWith("zero", "zero"),
     !.skyPointer = 0, !.skyTranslation = "zero", !.sky = SkyOf(0)]

MCStartMemories == {Level, Cleared}

MCMobyWrites ==
  ({1} \X {"a"} \X {Endpoint(255, 0, 13), Endpoint(255, 1, 11), Endpoint(1, 0, 0),
                    Endpoint(255, 0, 9),
                    Endpoint(0, 1, 9), Endpoint(1, 1, 9)})
    \cup ({1} \X {"b"} \X {Endpoint(2, 0, 9), Endpoint(0, 0, 11), Endpoint(1, 0, 0)})
    \cup ({1} \X {"class"} \X {0, 13, 14})
    \cup ({1} \X {"interpolation"} \X {"outside"})
    \cup ({1} \X {"placement"} \X {"nonfinite"}) \cup ({1} \X {"basis"} \X {"zero", "nonfinite"})
    \cup ({1, 2} \X {"state"} \X {-2, End}) \cup ({3} \X {"state"} \X {-2, 0})
    \cup ({1} \X {"oClass"} \X {-1, 1, 2}) \cup ({2} \X {"oClass"} \X {0})
    \cup ({1} \X {"pvar"} \X {0, 14, 7})

MCGlobalWrites ==
  ({"base"} \X {0, 1, 13}) \cup ({"last"} \X {0, 3})
    \cup ({"registry"} \X {Registry(Unregistered, 1), Registry(0, Unregistered)})
    \cup ({"class"} \X {Table(<<0, 0>>), Table(<<7, 7>>), Table(<<>>), Table(<<0, 13>>)})
    \cup ({"packet"} \X {Packets(2, "good"), Packets(1, "undecodable"), Packets(1, "unskinnable")})
    \cup ({"ownerOf"} \X {[p \in Address |-> 2]})
    \cup ({"stateOf"} \X {[p \in Address |-> 14]})
    \cup ({"skyAngle"} \X {"nonfinite"})
    \cup ({"camera"} \X {CameraWith("set", "zero"), CameraWith("nonfinite", "set")})
    \cup ({"skyPointer"} \X {5, 8, 14}) \cup ({"sky"} \X {SkyOf(1), SkyOf(2), SkyOf(3), SkyOf(7)})
    \cup ({"skyTranslation"} \X {"zero", "set", "wrongW", "nonfinite"})

Kind(crate) == [c \in 0 .. 1 |-> IF c = 0 THEN "RenderableTopology" ELSE crate]
MCCatalogs ==
  {[ready |-> TRUE, classes |-> [c \in {0} |-> "RenderableTopology"],
    shells |-> <<[offset |-> 1, clusters |-> 1, flags |-> 0]>>],
   [ready |-> TRUE, classes |-> Kind("ClassOnly"),
    shells |-> <<[offset |-> 1, clusters |-> 1, flags |-> 0],
                 [offset |-> 2, clusters |-> 1, flags |-> 0]>>]}

MCNativeBank == <<1>>
=============================================================================
