----------------------------- MODULE ShownEdits -----------------------------
(***************************************************************************)
(* What the user may expect of an image: each rebuild shows, in every      *)
(* pipeline at once, the settings as they were at one moment.              *)
(***************************************************************************)
CONSTANTS Layers, Pipelines, Settings

VARIABLES setting,  \* setting[l], as edited
          shown     \* shown[p][l], as the pipelines show it

Init ==
  /\ setting \in [Layers -> Settings]
  /\ shown = [p \in Pipelines |-> setting]

Edit(l, v) ==
  /\ setting' = [setting EXCEPT ![l] = v]
  /\ UNCHANGED shown

Show ==
  /\ shown' = [p \in Pipelines |-> setting]
  /\ UNCHANGED setting

Next == Show \/ \E l \in Layers, v \in Settings : Edit(l, v)

Spec == Init /\ [][Next]_<<setting, shown>>
=============================================================================
