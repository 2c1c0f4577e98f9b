----------------------------- MODULE MCDisplay ------------------------------
(***************************************************************************)
(* Small instances of Display for TLC.                                     *)
(***************************************************************************)
EXTENDS Display

\* A window of two tiles that scrolls over a widget of three.
TwoViews == {{1, 2}, {2, 3}}
\* The second display image is wider than the first.
SmallAndLarge == <<2, 3>>
=============================================================================
