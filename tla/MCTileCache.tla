---------------------------- MODULE MCTileCache -----------------------------
(***************************************************************************)
(* Small instances of TileCache for TLC: a cache "near" the screen and one *)
(* "far" from it, from which it is computed.                               *)
(***************************************************************************)
EXTENDS TileCache, TLC

CONSTANTS t1, t2, near, far

TwoThreads == {t1, t2}
TwoCaches == {near, far}
ThreePositions == 1 .. 3
NearAreas == {{1, 2}, {3}, {}}
Chain == near :> far @@ far :> None
\* A tile is made from the tile at the same place.
SamePlace == [c \in TwoCaches |-> [p \in ThreePositions |-> {p}]]
FarCache == {far}
=============================================================================
