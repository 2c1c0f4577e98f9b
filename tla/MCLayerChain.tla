---------------------------- MODULE MCLayerChain ----------------------------
(***************************************************************************)
(* Small trees of layers for TLC.  Layers are named for their role: bg is  *)
(* a background image, op is an operation, mask is a mask of op, and group *)
(* contains in1.                                                           *)
(***************************************************************************)
EXTENDS LayerChain

CONSTANTS bg, op, group, in1, mask

Lists(f) == [l \in Layers |-> IF l \in DOMAIN f THEN f[l] ELSE <<>>]
NoLists == [l \in Layers |-> <<>>]
NoChoice == [l \in Layers |-> {}]

\* bg, a group of one operation, op above it with a mask made from the group
TreeTop == <<bg, group, op>>
TreeSub == Lists([l \in {group} |-> <<in1>>])
TreeInputs == Lists([l \in {mask} |-> <<group>>])
TreeOmap == Lists([l \in {op} |-> <<mask>>])
OpChoices == [l \in Layers |-> IF l = op THEN {bg, NoLayer} ELSE {}]
=============================================================================
