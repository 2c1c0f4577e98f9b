-------------------------- MODULE MCImageProcessor --------------------------
(***************************************************************************)
(* Small instances of ImageProcessor for TLC: model values for images and  *)
(* pipelines, and the sets of GUI operations of each run.                  *)
(***************************************************************************)
EXTENDS ImageProcessor

CONSTANTS i1, i2, p1, p2

OneImage == {i1}
TwoImages == {i1, i2}
NoPipelines == {}
\* The images may change places: no operation tells one from the other.
Swaps == Permutations(TwoImages)
OnePipeline == {p1}
TwoPipelines == {p1, p2}
JunkNull == {NoImage}
JunkAny == {NoImage, i2}

\* No operation that may see a condition left signaled by another request.
ExactOps == {"Update", "LockedUpdate", "Zoom", "MoveLayer", "RemoveLayer", "Export",
             "Redraw"}
\* Every operation that does not destroy an image.
WorkOps == {"Update", "SyncUpdate", "SpotWB", "LockedUpdate", "Zoom", "MoveLayer",
            "RemoveLayer", "Export", "Redraw"}
\* The operations that submit one request.
SingleOps == {"Update", "SyncUpdate", "SpotWB", "LockedUpdate", "Export", "Close"}
UpdateOps == {"Update"}
CloseOps == {"Update", "Redraw", "Close"}
=============================================================================
