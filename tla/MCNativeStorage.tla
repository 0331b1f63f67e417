--------------------------- MODULE MCNativeStorage ---------------------------
(* Three assets: the boot WAD on sectors 1-2, its neighbour on 3, another   *)
(* on 5-6; a level span on 3-6 over both of the last two and the gap        *)
(* between them.  A second table is rejected (a long asset reaches into its *)
(* neighbour), a third has a boot WAD too short for the alias.              *)
EXTENDS NativeStorage

asset(k, i, s, n) == [kind |-> k, index |-> i, start |-> s, count |-> n]
level(i, h, s, n) == [kind |-> "level", index |-> i, header |-> h, start |-> s, count |-> n]

GoodToc ==
  [entries |-> {asset("wad2", 0, 1, 2), asset("wad", 0, 3, 1), asset("wad2", 1, 5, 2),
                asset("wad", 1, 0, 0)},
   levels |-> {level(0, 4, 3, 4), level(1, 9, 3, 4)}]

OverlappingToc ==
  [entries |-> {asset("wad2", 0, 1, 3), asset("wad", 0, 3, 1)}, levels |-> {}]

ShortBootToc == [entries |-> {asset("wad2", 0, 1, 1)}, levels |-> {}]

MCTocs == {GoodToc, OverlappingToc, ShortBootToc}

\* The alias, a whole asset, two assets, part of the level with the gap, outside.
MCRequests == {<<0, 0>>, <<1, 2>>, <<2, 2>>, <<3, 1>>, <<4, 2>>, <<6, 2>>}
=============================================================================
