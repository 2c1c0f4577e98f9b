--------------------------- MODULE MCRebuildSteps ---------------------------
(***************************************************************************)
(* Small instances of RebuildSteps for TLC.                                *)
(***************************************************************************)
EXTENDS RebuildSteps

\* The layers above the source, which is edited without the lock and cannot be
\* read with setting 1.
UpperLayers == 2 .. N
BadSource == {<<1, 1>>}
NoLayers == {}
NoFailure == {}
=============================================================================
