---------------------------- MODULE MCSinkScreen ----------------------------
(***************************************************************************)
(* Small instances of SinkScreen for TLC.                                  *)
(***************************************************************************)
EXTENDS SinkScreen

CONSTANTS r1, r2, w1, w2

OneRender == {r1}
TwoRenders == {r1, r2}
TwoWorkers == {w1, w2}
OtherRender == {r2}
ThreePositions == 1 .. 3
\* Areas with as many positions as the render has tiles, and one with more.
SomeAreas == {{1, 2}, {2, 3}, {1, 2, 3}}
=============================================================================
