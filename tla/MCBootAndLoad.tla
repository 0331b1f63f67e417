--------------------------- MODULE MCBootAndLoad ---------------------------
(* What runs once or between frames, side by side: starting up, one call of *)
(* the WAD decompressor, one level or collision block decoded, the overlay  *)
(* inspector.  They share no state, so each behaviour is of one of them.    *)
EXTENDS WadDecompressor, MCLevels, Startup, OverlayCoherence

VARIABLE subject

\* Streams of a two-byte header and packets, in blocks of four bytes.
Call(source, destination, size, magic) ==
  [source |-> source, destination |-> destination, size |-> size, magic |-> magic]
MCCalls ==
  {Call(0, 15, 11, TRUE), Call(2, 4, 12, TRUE), Call(4, 3, 12, TRUE), Call(0, 20, 11, TRUE),
   Call(23, 0, 11, TRUE), Call(0, 24, 11, TRUE), Call(0, 15, 11, FALSE), Call(0, 15, 1, TRUE),
   Call(16, 0, 11, TRUE), Call(0, 15, 2, TRUE)}

Packet(form, head, literals, distance, length, trailing) ==
  [form |-> form, head |-> head, literals |-> literals, distance |-> distance,
   length |-> length, trailing |-> trailing]
MCWadPackets ==
  {Packet("first", 1, 2, 0, 0, 0), Packet("literal", 1, 4, 0, 0, 0), Packet("match", 2, 0, 1, 3, 1),
   Packet("match", 2, 0, 2, 3, 0), Packet("match", 3, 0, 4, 3, 2), Packet("noOp", 3, 0, 0, 0, 1),
   Packet("noOp", 3, 0, 0, 0, 0), Packet("block", 3, 0, 0, 0, 0)}

\* An ELF of one load segment of 24 bytes at 8, and files that are not.
Header(load, address, size, memorySize) ==
  [load |-> load, at |-> 120, address |-> address, size |-> size, memory |-> memorySize]
MCElf ==
  [readable |-> TRUE, bytes |-> 144, header |-> TRUE, tableAt |-> 52, entryBytes |-> 32,
   headers |-> <<Header(FALSE, 0, 900, 0), Header(TRUE, 8, 24, 24)>>, ones |-> {120, 124, 130, 140}]
MCElfFiles ==
  {MCElf, [MCElf EXCEPT !.readable = FALSE], [MCElf EXCEPT !.bytes = 51], [MCElf EXCEPT !.header = FALSE],
   [MCElf EXCEPT !.entryBytes = 31], [MCElf EXCEPT !.tableAt = 100],
   [MCElf EXCEPT !.headers = <<Header(TRUE, 8, 24, 20)>>], [MCElf EXCEPT !.headers = <<Header(TRUE, 8, 25, 32)>>],
   [MCElf EXCEPT !.headers = <<Header(TRUE, 9990, 24, 24)>>], [MCElf EXCEPT !.headers = <<Header(TRUE, 8, 0, 24)>>]}

\* The declared replacements, by their kinds; one list declares an address twice.
Entry(address, stage, function, storage) ==
  [address |-> address, stage |-> stage, function |-> function, storage |-> storage]
Declared ==
  <<Entry(1, "Runtime", <<"native", "sectorRead">>, "sectorRead"),
    Entry(2, "Runtime", <<"native", "dbcInit">>, "none"),
    Entry(3, "Runtime", <<"native", "dbcLinkAllocate">>, "none"),
    Entry(4, "Runtime", <<"native", "materialize">>, "materialize"),
    Entry(5, "Bootstrap", <<"native", "guest_11a428">>, "none"),
    Entry(6, "Runtime", <<"native", "guest_12f1c8">>, "none"),
    Entry(9, "Runtime", <<"native", "guest_121e40">>, "guest121e40")>>
MCDeclarations ==
  {Declared, Append(Declared, Entry(1, "Runtime", <<"native", "guest_118b20">>, "guest118b20")),
   Append(Declared, Entry(5, "Runtime", <<"native", "guest_120788">>, "none")),
   Append(Declared, Entry(0, "Runtime", <<"native", "guest_11cf10">>, "none"))}
MCDbcInit == <<"native", "dbcInit">>
MCDbcLinkAllocate == <<"native", "dbcLinkAllocate">>

MCWorkState == <<1422464, 192>>
MCGeneratedPcs == {1, 2, 3, 4, 5, 7}

\* Overlays over the same memory, of the ELF's code, of other code, beyond memory.
MCOverlay(ones, segments) == [bytes |-> 32, ones |-> ones, segments |-> segments]
Payload(at, destination, size) == [at |-> at, destination |-> destination, size |-> size]
MCOverlays ==
  {MCOverlay({0, 6}, <<Payload(0, 12, 8), Payload(10, 30, 10)>>),
   MCOverlay({1, 6}, <<Payload(0, 12, 8), Payload(10, 30, 10)>>),
   MCOverlay({2, 8, 16}, <<Payload(2, 6, 5), Payload(16, 28, 6)>>),
   MCOverlay({}, <<Payload(0, 38, 3)>>), MCOverlay({}, <<Payload(0, 35, 5)>>),
   MCOverlay({}, <<Payload(0, 0, 0), Payload(0, 33, 5)>>)}
MCStaticPcs == <<8, 12, 16, 29, 34>>

MCWord(address, value) == [a \in {address} |-> value]
BootWords == MCWord(kSharedLoaderPointerAddress, 2000000) @@ MCWord(2000000, 96)
FirstRecord == MCWord(2000096, 1437440) @@ MCWord(2000100, 9000) @@ MCWord(2000104, 1) @@ MCWord(2000108, 2004568)
Callbacks == MCWord(kCallback2195OwnerAddress, 1924100) @@ MCWord(1924168, 1950000)
               @@ MCWord(1924172, 40000000) @@ MCWord(1924176, 1950004) @@ MCWord(1950004, kCallback21E7C8)
Guest(bytes, words) == [bytes |-> bytes, words |-> words]
MCBootSnapshots ==
  {Guest(1439258, MCWord(0, 0)), Guest(33554432, MCWord(kState13D36CAddress, -1)),
   Guest(33554432, MCWord(kSharedLoaderPointerAddress, 33554430) @@ MCWord(kState15F600Address, -1)),
   Guest(33554432, MCWord(kSharedLoaderPointerAddress, 2000000)),
   Guest(2000100, BootWords @@ MCWord(kState13D364Address, 3)), Guest(33554432, BootWords @@ Callbacks),
   Guest(2000112, BootWords @@ FirstRecord), Guest(33554432, BootWords @@ FirstRecord @@ Callbacks),
   Guest(33554432, MCWord(kCallback2195OwnerAddress, 33554400))}

----------------------------------------------------------------------------
BootAndLoadInit ==
  /\ subject \in {"startup", "wad", "level", "collision", "coherence"}
  /\ WadInit /\ LoadInit /\ CollisionInit /\ StartupInit /\ CoherenceInit

\* A load begins by unloading, and an inspection looks at no earlier one: the
\* first of each shows what any does; after it only levels change, and poses.
BootAndLoadNext ==
  /\ UNCHANGED subject
  /\ \/ subject = "wad" /\ WadNext
        /\ UNCHANGED <<loadVars, collision, startupVars, coherenceVars>>
     \/ subject = "level" /\ ((request = NoRequest /\ LoadLevel) \/ SkinRatchet)
        /\ UNCHANGED <<wadVars, collision, startupVars, coherenceVars>>
     \/ subject = "collision" /\ DecodeCollision
        /\ UNCHANGED <<wadVars, loadVars, startupVars, coherenceVars>>
     \/ subject = "startup" /\ StartupNext
        /\ UNCHANGED <<wadVars, loadVars, collision, coherenceVars>>
     \/ subject = "coherence" /\ CoherenceNext /\ (verdict # NoVerdict => UNCHANGED <<memory, verdict>>)
        /\ UNCHANGED <<wadVars, loadVars, collision, startupVars>>

BootAndLoadSpec ==
  BootAndLoadInit /\ [][BootAndLoadNext]_<<subject, wadVars, loadVars, collision, startupVars, coherenceVars>>
=============================================================================
