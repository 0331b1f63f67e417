-------------------------- MODULE PaletteTextures --------------------------
(***************************************************************************)
(* decodeRac1PaletteTextures.  A texture table is a record of              *)
(*   at       - its offset in the core index                               *)
(*   entries  - <<[data, width, height, palette, alpha], ...>>             *)
(* where alpha says whether a colour it uses is not opaque.  A decoded     *)
(* texture is known by that flag.                                          *)
(***************************************************************************)
EXTENDS CheckedReads

IsTextureTable(table) ==
  /\ table.at \in Nat /\ IsSequence(table.entries)
  /\ \A e \in Range(table.entries) :
       {e.data, e.width, e.height, e.palette} \subseteq Int /\ e.alpha \in BOOLEAN

kMaxTextureSide == 4096
kPaletteBytes == 1024
kTextureEntryBytes == 16
kNoMaterial == -1         \* UINT32_MAX: a batch without a texture

Bit(index, b) == (index \div b) % 2

\* PSMT8 palettes swap the middle two rows of eight colours.
MapPaletteIndex(index) ==
  IF Bit(index, 16) = Bit(index, 8) THEN index
  ELSE IF Bit(index, 16) = 1 THEN index - 8 ELSE index + 8

\* Four bytes for a colour: the ends of the palette and of the rows swapped.
PaletteReads(palette, capacity) ==
  {Bytes(palette + 4 * MapPaletteIndex(index), 4, capacity) : index \in {0, 8, 16, 255}}

SideIsValid(side) == 0 < side /\ side <= kMaxTextureSide

EntrySteps(core, gsRam, base, e) ==
  LET pixels == <<base + e.data, e.width * e.height>>
      palette == e.palette * 256
  IN <<Require("InvalidEntry",
               e.data >= 0 /\ SideIsValid(e.width) /\ SideIsValid(e.height) /\ e.palette >= 0,
               {}),
       Require("PixelDataOutOfRange", RangeFits(pixels, core), {}),
       Require("PaletteOutOfRange", RangeFits(<<palette, kPaletteBytes>>, gsRam),
               {<<pixels, core>>} \union PaletteReads(palette, gsRam))>>

TextureSteps(core, coreIndex, gsRam, table, base) ==
  LET bytes == <<table.at, Len(table.entries) * kTextureEntryBytes>> IN
  IF table.entries = <<>> THEN <<>>
  ELSE Then(<<Require("IndexTableOutOfRange", RangeFits(bytes, coreIndex) /\ base <= core,
                      {<<bytes, coreIndex>>})>>,
            ForEach([i \in DOMAIN table.entries |-> EntrySteps(core, gsRam, base, table.entries[i])]))
=============================================================================
