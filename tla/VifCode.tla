------------------------------ MODULE VifCode ------------------------------
(***************************************************************************)
(* parseVif of the terrain decoder and parseShrubVif: where the commands   *)
(* of a VIF packet begin and end.  A command is a record of                *)
(*   form   - "nop", "stcycl" (or any one-word command), "stmask", "strow",*)
(*            "stcol", "mpg", "direct", "unpack" or "unknown"              *)
(*   num    - its number field, 1 to 256                                   *)
(*   layout - <<components, bits>> of an unpack                            *)
(*   addr, cl, wl, quads - its immediate, read as the form reads it        *)
(*   data   - the elements an unpack carries, zeroes after those listed    *)
(* A packet is the commands listed and zeroes, which are nops.             *)
(***************************************************************************)
EXTENDS CheckedReads

IsPacket(commands) ==
  /\ IsSequence(commands)
  /\ \A c \in Range(commands) :
       {c.num, c.cl, c.wl, c.quads} \subseteq Nat /\ c.layout \in Nat \X Nat

V4_8 == <<4, 8>>
V4_16 == <<4, 16>>
V3_16 == <<3, 16>>

PayloadBits(c) == c.num * c.layout[1] * c.layout[2]

LogicalBytes(c) == (PayloadBits(c) + 7) \div 8

CommandWords(c) ==
  CASE c.form = "stmask" -> 2
    [] c.form \in {"strow", "stcol"} -> 5
    [] c.form = "mpg" -> 1 + 2 * c.num
    [] c.form = "direct" -> 1 + 4 * c.quads
    [] c.form = "unpack" -> 1 + (PayloadBits(c) + 31) \div 32
    [] OTHER -> 1

\* Shrub packets are read without write cycles.
VifCommand(bytes, cycles, parse, c) ==
  LET end == parse.at + 4 * CommandWords(c) IN
  IF parse.status # "Ok" \/ parse.at >= bytes THEN parse
  ELSE IF parse.at + 4 > bytes \/ c.form = "unknown"
  THEN [parse EXCEPT !.status = "InvalidVifLayout"]
  ELSE IF c.form = "unpack" /\ cycles /\ parse.wl > parse.cl
  THEN [parse EXCEPT !.status = "UnsupportedVifCycle"]
  ELSE IF end > bytes THEN [parse EXCEPT !.status = "InvalidVifLayout"]
  ELSE [parse EXCEPT !.at = end, !.commands = Append(@, c),
                     !.unpacks = IF c.form = "unpack" THEN Append(@, c) ELSE @,
                     !.cl = IF c.form = "stcycl" THEN c.cl ELSE @,
                     !.wl = IF c.form = "stcycl" THEN c.wl ELSE @]

VifParse(bytes, commands, cycles) ==
  LET upTo[n \in 0 .. Len(commands)] ==
        IF n = 0 THEN [status |-> "Ok", at |-> 0, cl |-> 1, wl |-> 1,
                       commands |-> <<>>, unpacks |-> <<>>]
        ELSE VifCommand(bytes, cycles, upTo[n - 1], commands[n])
      parsed == upTo[Len(commands)]
  IN IF bytes % 4 # 0 THEN [parsed EXCEPT !.status = "InvalidVifLayout"] ELSE parsed

VifStatus(bytes, commands, cycles) == VifParse(bytes, commands, cycles).status

Unpacks(bytes, commands, cycles) == VifParse(bytes, commands, cycles).unpacks

\* The elements of that size an unpack holds, and those listed no further.
Elements(c, size, zero) ==
  [i \in 1 .. LogicalBytes(c) \div size |-> IF i <= Len(c.data) THEN c.data[i] ELSE zero]
=============================================================================
