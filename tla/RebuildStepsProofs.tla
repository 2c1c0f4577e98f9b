------------------------- MODULE RebuildStepsProofs -------------------------
(***************************************************************************)
(* A rebuild is one step to those who edit under the lock of the image:    *)
(* RebuildSteps implements ShownEdits, for any layers and pipelines.       *)
(***************************************************************************)
EXTENDS RebuildSteps, TLAPS

(***************************************************************************)
(* The inductive invariant.                                                *)
(***************************************************************************)

\* What the theorem takes of the failures: a layer that may fail is below every layer
\* that is edited under the lock, as the source of an image is.  A layer that fails
\* keeps the image it had, and shows it at the next rebuild, with what is below it as
\* it was then (rebuild_chain).
FailsBelow == \A l \in Layers, v \in Settings : <<l, v>> \in Fails => \A k \in Locked : l < k

\* The parts of TypeOK.
EditTyped ==
  /\ setting \in [Layers -> Settings]
  /\ property \in [Layers -> BOOLEAN] /\ modified \in [Layers -> BOOLEAN]
  /\ requested \in BOOLEAN /\ mutex \in {"free", "gui", "processor"}
GuiTyped ==
  /\ gpc \in {"idle", "lock", "edit", "flag", "assign", "ask", "unlock"}
  /\ layer \in Layers /\ value \in Settings /\ edits \in 0 .. MaxEdits
WalkTyped ==
  /\ pc \in {"idle", "lock", "prepare", "chain", "build", "output", "finalize", "unlock"}
  /\ at \in Layers /\ pipe \in Pipelines /\ dirty \in BOOLEAN /\ imported \in Settings
ImagesTyped ==
  /\ out \in Images /\ node \in [Pipelines -> [Layers -> Images]]
  /\ output \in [Pipelines -> Images] /\ before \in [Pipelines -> Images]

\* The processor holds the lock all through a rebuild, the GUI thread all through an
\* edit of a locked layer.
Rebuilding == {"prepare", "chain", "build", "output", "finalize", "unlock"}
Locks ==
  /\ mutex = "processor" <=> pc \in Rebuilding
  /\ gpc \in {"lock", "unlock"} => layer \in Locked
  /\ gpc \in {"edit", "flag", "assign", "ask", "unlock"} /\ layer \in Locked => mutex = "gui"

\* The layer that has its value and is about to be flagged.
Unflagged(k) == gpc = "flag" /\ layer = k

\* A locked layer that was flagged before it is changed stays so until then.
Flagged == gpc = "assign" /\ layer \in Locked => modified[layer]

\* A node has the locked layers as they are set, but for those that are flagged or
\* about to be.
NodesFollow ==
  \A p \in Pipelines, l \in Layers, k \in Locked :
    k <= l => modified[k] \/ Unflagged(k) \/ node[p][l][k] = setting[k]

\* update_dirty flags all that is above a flagged layer.
Marked ==
  /\ pc = "prepare" =>
       \A k \in Locked : k < at /\ modified[k] =>
         dirty /\ \A l \in Layers : k <= l /\ l < at => modified[l]
  /\ pc \in {"chain", "build", "output"} =>
       \A k \in Locked, l \in Layers : k <= l /\ modified[k] => modified[l]

\* The pipelines and the layers that are done have the locked layers as they are set.
NodeDone(p, l) == \A k \in Locked : k <= l => node[p][l][k] = setting[k]
OutputDone(p) == \A k \in Locked : output[p][k] = setting[k]
PipelinesDone ==
  pc \in {"chain", "build", "output"} =>
    \A p \in Pipelines : p < pipe => OutputDone(p) /\ \A l \in Layers : NodeDone(p, l)
LayersDone ==
  /\ pc \in {"chain", "build"} =>
       /\ \A k \in Locked : k < at => out[k] = setting[k]
       /\ \A l \in Layers : l < at => NodeDone(pipe, l)
  /\ pc = "build" /\ at \in Locked => imported = setting[at]
  /\ pc = "output" =>
       /\ at = 1
       /\ \A k \in Locked : out[k] = setting[k]
       /\ \A l \in Layers : NodeDone(pipe, l)
AllDone == pc \in {"finalize", "unlock"} => \A p \in Pipelines, l \in Layers : NodeDone(p, l)

IInv ==
  /\ EditTyped /\ GuiTyped /\ WalkTyped /\ ImagesTyped
  /\ Locks /\ Flagged /\ NodesFollow /\ Marked /\ PipelinesDone /\ LayersDone /\ AllDone

-----------------------------------------------------------------------------
(* The initial state *)

LEMMA SizeParts ==
  /\ N \in Nat /\ N >= 1 /\ 1 \in Layers /\ N \in Layers /\ Layers \subseteq Nat
  /\ P \in Nat /\ P >= 1 /\ 1 \in Pipelines /\ P \in Pipelines /\ Pipelines \subseteq Nat
  /\ Locked \subseteq Layers /\ 0 \in Settings /\ None \notin Settings
BY SizesAssumption, LockedAssumption, SettingsAssumption DEF Layers, Pipelines

LEMMA InitInv == Init => IInv
<1> SUFFICES ASSUME Init PROVE IInv
  OBVIOUS
<1>1. /\ Start \in [Layers -> Settings] /\ Start \in Images
      /\ Nothing \in Images /\ \A l \in Layers : UpTo(l) \in Images
  BY SizeParts DEF Start, Images, Nothing, UpTo
<1>2. EditTyped /\ GuiTyped /\ WalkTyped
  <2>1. property \in [Layers -> BOOLEAN] /\ modified \in [Layers -> BOOLEAN]
    BY Zenon DEF Init
  <2>2. EditTyped
    BY <1>1, <2>1 DEF Init, EditTyped
  <2>3. GuiTyped
    BY SizeParts, SizesAssumption DEF Init, GuiTyped
  <2>4. WalkTyped
    BY SizeParts DEF Init, WalkTyped
  <2>5. QED
    BY <2>2, <2>3, <2>4
<1>3. ImagesTyped
  BY <1>1 DEF Init, ImagesTyped
<1>4. Locks /\ Flagged /\ Marked /\ PipelinesDone /\ LayersDone /\ AllDone
  BY DEF Init, Locks, Rebuilding, Flagged, Marked, PipelinesDone, LayersDone, AllDone
<1>5. NodesFollow
  BY SizeParts DEF Init, NodesFollow, UpTo, Start
<1>6. QED
  BY <1>2, <1>3, <1>4, <1>5 DEF IInv

-----------------------------------------------------------------------------
(* The GUI thread *)

\* What is built is not disturbed by a step that leaves the locked layers and the
\* processor alone; a flag may be set.
LEMMA EditKept ==
  ASSUME IInv, UNCHANGED builder, setting' \in [Layers -> Settings],
         \A k \in Locked : setting'[k] = setting[k],
         modified' = modified \/ (layer \in Layers /\ modified' = [modified EXCEPT ![layer] = TRUE]
                                    /\ (layer \in Locked => pc \notin Rebuilding)),
         \A k \in Locked : Unflagged(k) => modified'[k] \/ Unflagged(k)'
  PROVE  NodesFollow' /\ Marked' /\ PipelinesDone' /\ LayersDone' /\ AllDone'
<1>1. UNCHANGED <<pc, at, pipe, dirty, imported, out, node, output>>
  BY DEF builder
<1>2. /\ modified \in [Layers -> BOOLEAN] /\ Locked \subseteq Layers
      /\ \A l \in Layers : modified[l] => modified'[l]
  BY SizeParts DEF IInv, EditTyped
<1>3. pc \in Rebuilding => \A k \in Locked : modified'[k] => modified[k]
  BY <1>2
<1>4. NodesFollow'
  <2> SUFFICES ASSUME NEW p \in Pipelines, NEW l \in Layers, NEW k \in Locked, k <= l
               PROVE  modified'[k] \/ Unflagged(k)' \/ node'[p][l][k] = setting'[k]
    BY DEF NodesFollow
  <2>1. modified[k] \/ Unflagged(k) \/ node[p][l][k] = setting[k]
    BY DEF IInv, NodesFollow
  <2>2. QED
    BY <1>1, <1>2, <2>1
<1>5. Marked'
  BY <1>1, <1>2, <1>3 DEF IInv, Marked, Rebuilding
<1>6. PipelinesDone' /\ AllDone'
  BY <1>1 DEF IInv, PipelinesDone, AllDone, NodeDone, OutputDone
<1>7. LayersDone'
  BY <1>1 DEF IInv, LayersDone, NodeDone
<1>8. QED
  BY <1>4, <1>5, <1>6, <1>7

LEMMA GuiInv ==
  ASSUME IInv, (\E l \in Layers, v \in Settings : Edit(l, v)) \/ LockGui \/ Flag \/ Ask \/ UnlockGui
  PROVE  IInv'
<1>1. UNCHANGED <<setting, builder>> /\ UNCHANGED <<pc, at, pipe, dirty, imported, out, node,
                                                    output, before>>
  BY DEF Edit, LockGui, Flag, Ask, UnlockGui, builder
<1>2. EditTyped'
  BY <1>1 DEF IInv, EditTyped, GuiTyped, Edit, LockGui, Flag, Ask, UnlockGui
<1>3. GuiTyped'
  BY SizesAssumption DEF IInv, GuiTyped, Edit, LockGui, Flag, Ask, UnlockGui
<1>4. WalkTyped' /\ ImagesTyped'
  BY <1>1 DEF IInv, WalkTyped, ImagesTyped
<1>5. Locks'
  BY <1>1 DEF IInv, Locks, Rebuilding, Edit, LockGui, Flag, Ask, UnlockGui
<1>6. Flagged'
  BY DEF IInv, Flagged, EditTyped, GuiTyped, Edit, LockGui, Flag, Ask, UnlockGui
<1>7. modified' = modified \/ (layer \in Layers /\ modified' = [modified EXCEPT ![layer] = TRUE]
                                 /\ (layer \in Locked => pc \notin Rebuilding))
  BY DEF IInv, Locks, GuiTyped, Edit, LockGui, Flag, Ask, UnlockGui
<1>8. \A k \in Locked : Unflagged(k) => modified'[k] \/ Unflagged(k)'
  BY SizeParts DEF IInv, EditTyped, Unflagged, Edit, LockGui, Flag, Ask, UnlockGui
<1>9. NodesFollow' /\ Marked' /\ PipelinesDone' /\ LayersDone' /\ AllDone'
  BY <1>1, <1>7, <1>8, EditKept DEF IInv, EditTyped
<1>10. QED
  BY <1>2, <1>3, <1>4, <1>5, <1>6, <1>9 DEF IInv

\* A locked layer is flagged, or about to be, and the image is not being rebuilt, when
\* it is changed.
LEMMA AssignInv ==
  ASSUME IInv, Assign
  PROVE  IInv'
<1>1. /\ UNCHANGED <<property, modified, requested, mutex, layer, value, edits, builder>>
      /\ UNCHANGED <<pc, at, pipe, dirty, imported, out, node, output, before>>
      /\ gpc \in {"edit", "assign"} /\ gpc' = IF gpc = "edit" THEN "flag" ELSE "ask"
      /\ setting' = [setting EXCEPT ![layer] = value]
  BY DEF Assign, builder
<1>2. setting' \in [Layers -> Settings] /\ layer \in Layers
  BY <1>1 DEF IInv, EditTyped, GuiTyped
<1>3. EditTyped' /\ GuiTyped' /\ WalkTyped' /\ ImagesTyped'
  BY <1>1, <1>2 DEF IInv, EditTyped, GuiTyped, WalkTyped, ImagesTyped
<1>4. Locks' /\ Flagged'
  BY <1>1 DEF IInv, Locks, Flagged
<1>5. CASE layer \notin Locked
  <2>1. \A k \in Locked : setting'[k] = setting[k]
    BY <1>1, <1>5, SizeParts DEF IInv, EditTyped
  <2>2. \A k \in Locked : ~Unflagged(k)
    BY <1>1 DEF Unflagged
  <2>3. NodesFollow' /\ Marked' /\ PipelinesDone' /\ LayersDone' /\ AllDone'
    BY <1>1, <1>2, <2>1, <2>2, EditKept
  <2>4. QED
    BY <1>3, <1>4, <2>3 DEF IInv
<1>6. CASE layer \in Locked
  <2>1. pc \notin Rebuilding /\ (modified[layer] \/ Unflagged(layer)')
    BY <1>1, <1>6 DEF IInv, Locks, Flagged, Unflagged
  <2>2. Marked' /\ PipelinesDone' /\ LayersDone' /\ AllDone'
    BY <1>1, <2>1 DEF Rebuilding, Marked, PipelinesDone, LayersDone, AllDone
  <2>3. NodesFollow'
    <3>1. \A k \in Locked : ~Unflagged(k) /\ (k = layer \/ setting'[k] = setting[k])
      BY <1>1, SizeParts DEF IInv, EditTyped, Unflagged
    <3>2. QED
      BY <1>1, <2>1, <3>1 DEF IInv, NodesFollow
  <2>4. QED
    BY <1>3, <1>4, <2>2, <2>3 DEF IInv
<1>7. QED
  BY <1>5, <1>6

-----------------------------------------------------------------------------
(* The processor *)

\* A step of the processor leaves the edits alone.
LEMMA GuiKept ==
  ASSUME IInv, UNCHANGED <<setting, gui>>, mutex' = mutex \/ mutex' \in {"free", "processor"},
         mutex = "gui" => mutex' = "gui", mutex' = "processor" <=> pc' \in Rebuilding,
         pc \in Rebuilding \/ UNCHANGED modified
  PROVE  GuiTyped' /\ Locks' /\ Flagged'
<1>1. UNCHANGED <<gpc, layer, value, edits>>
  BY DEF gui
<1>2. GuiTyped' /\ Locks'
  BY <1>1 DEF IInv, GuiTyped, Locks
<1>3. Flagged'
  BY <1>1 DEF IInv, Flagged, Locks
<1>4. QED
  BY <1>2, <1>3

LEMMA TakeInv ==
  ASSUME IInv, Take \/ LockImage \/ UnlockImage
  PROVE  IInv'
<1>1. /\ UNCHANGED <<setting, property, modified, gui, pipe, imported, out, node, output>>
      /\ requested' \in {requested, FALSE}
      /\ \/ pc = "idle" /\ pc' = "lock" /\ UNCHANGED <<mutex, at, dirty, before>>
         \/ /\ pc = "lock" /\ pc' = "prepare" /\ mutex = "free" /\ mutex' = "processor"
            /\ at' = 1 /\ dirty' = FALSE /\ before' = output
         \/ pc = "unlock" /\ pc' = "idle" /\ mutex' = "free" /\ UNCHANGED <<at, dirty, before>>
  BY DEF Take, LockImage, UnlockImage
<1>2. EditTyped' /\ WalkTyped' /\ ImagesTyped'
  <2>1. EditTyped'
    BY <1>1 DEF IInv, EditTyped
  <2>2. WalkTyped'
    BY <1>1, SizeParts DEF IInv, WalkTyped
  <2>3. ImagesTyped'
    BY <1>1 DEF IInv, ImagesTyped
  <2>4. QED
    BY <2>1, <2>2, <2>3
<1>3. GuiTyped' /\ Locks' /\ Flagged'
  BY <1>1, GuiKept DEF Rebuilding, IInv, Locks
<1>4. NodesFollow'
  BY <1>1 DEF IInv, NodesFollow, Unflagged, gui
<1>5. Marked'
  <2>1. \A k \in Locked : ~(k < 1)
    BY SizeParts DEF Layers
  <2>2. QED
    BY <1>1, <2>1 DEF Marked
<1>6. PipelinesDone' /\ LayersDone' /\ AllDone'
  BY <1>1 DEF PipelinesDone, LayersDone, AllDone
<1>7. QED
  BY <1>2, <1>3, <1>4, <1>5, <1>6 DEF IInv

LEMMA PrepareInv ==
  ASSUME IInv, Prepare
  PROVE  IInv'
<1>1. /\ UNCHANGED <<setting, property, requested, mutex, gui, imported, node, output, before>>
      /\ pc = "prepare" /\ modified' = [modified EXCEPT ![at] = modified[at] \/ dirty]
      /\ dirty' = (dirty \/ modified[at]) /\ pipe' = 1 /\ out' = Nothing
      /\ at' = IF at = N THEN 1 ELSE at + 1
      /\ pc' = IF at = N THEN "chain" ELSE "prepare"
  BY DEF Prepare, Advance
<1>2. /\ at \in Layers /\ modified \in [Layers -> BOOLEAN] /\ at \in Nat /\ N \in Nat
      /\ dirty \in BOOLEAN
  BY SizeParts DEF IInv, EditTyped, WalkTyped
<1>3. at' \in Layers
  BY <1>1, <1>2 DEF Layers
<1>4. EditTyped' /\ WalkTyped' /\ ImagesTyped'
  <2>1. EditTyped'
    BY <1>1, <1>2 DEF IInv, EditTyped
  <2>2. WalkTyped'
    BY <1>1, <1>3, SizeParts DEF IInv, WalkTyped
  <2>3. ImagesTyped'
    BY <1>1 DEF IInv, ImagesTyped, Nothing, Images
  <2>4. QED
    BY <2>1, <2>2, <2>3
<1>5. GuiTyped' /\ Locks' /\ Flagged'
  BY <1>1, GuiKept DEF Rebuilding, IInv, Locks
<1>6. \A l \in Layers : /\ modified[l] => modified'[l]
                        /\ l # at => (modified'[l] <=> modified[l])
                        /\ l = at /\ (dirty \/ modified[l]) => modified'[l]
                        /\ l = at /\ modified'[l] => dirty'
  BY <1>1, <1>2
<1>7. NodesFollow'
  <2> SUFFICES ASSUME NEW p \in Pipelines, NEW l \in Layers, NEW k \in Locked, k <= l
               PROVE  modified'[k] \/ Unflagged(k)' \/ node'[p][l][k] = setting'[k]
    BY DEF NodesFollow
  <2>1. modified[k] \/ Unflagged(k) \/ node[p][l][k] = setting[k]
    BY DEF IInv, NodesFollow
  <2>2. Unflagged(k)' <=> Unflagged(k)
    BY <1>1 DEF Unflagged, gui
  <2>3. QED
    BY <1>1, <1>6, <2>1, <2>2, SizeParts
<1>8. ASSUME NEW k \in Locked, NEW l \in Layers, k <= l, l <= at, modified'[k]
      PROVE  modified'[l] /\ dirty'
  <2>1. k \in Layers /\ k \in Nat /\ l \in Nat
    BY SizeParts
  <2>2. CASE k = at
    <3>1. l = at
      BY <1>2, <1>8, <2>1, <2>2
    <3>2. QED
      BY <1>6, <1>8, <2>1, <2>2, <3>1
  <2>3. CASE k # at
    <3>1. k < at /\ modified[k]
      BY <1>2, <1>6, <1>8, <2>1, <2>3
    <3>2. dirty /\ \A j \in Layers : k <= j /\ j < at => modified[j]
      BY <1>1, <3>1 DEF IInv, Marked
    <3>3. CASE l = at
      BY <1>1, <1>6, <3>2, <3>3
    <3>4. CASE l # at
      BY <1>1, <1>2, <1>6, <1>8, <2>1, <3>2, <3>4
    <3>5. QED
      BY <3>3, <3>4
  <2>4. QED
    BY <2>2, <2>3
<1>9. Marked'
  <2>1. CASE at = N
    <3>1. pc' = "chain" /\ \A l \in Layers : l <= at
      BY <1>1, <2>1, SizeParts DEF Layers
    <3>2. QED
      BY <1>8, <3>1 DEF Marked
  <2>2. CASE at # N
    <3>1. pc' = "prepare" /\ at' = at + 1
      BY <1>1, <2>2
    <3>2. ASSUME NEW k \in Locked, k < at', modified'[k]
          PROVE  dirty' /\ \A l \in Layers : k <= l /\ l < at' => modified'[l]
      <4>1. k \in Layers /\ k \in Nat /\ k <= at /\ k <= k
        BY <1>2, <3>1, <3>2, SizeParts
      <4>2. dirty'
        BY <1>8, <3>2, <4>1
      <4>3. ASSUME NEW l \in Layers, k <= l, l < at' PROVE modified'[l]
        <5>1. l <= at
          BY <1>2, <3>1, <4>3, SizeParts
        <5>2. QED
          BY <1>8, <3>2, <4>3, <5>1
      <4>4. QED
        BY <4>2, <4>3
    <3>3. QED
      BY <3>1, <3>2 DEF Marked
  <2>3. QED
    BY <2>1, <2>2
<1>10. PipelinesDone'
  BY <1>1, SizeParts DEF PipelinesDone, Pipelines
<1>11. LayersDone' /\ AllDone'
  BY <1>1, SizeParts DEF LayersDone, AllDone, Layers
<1>12. QED
  BY <1>4, <1>5, <1>7, <1>9, <1>10, <1>11 DEF IInv

LEMMA ImportInv ==
  ASSUME IInv, Import
  PROVE  IInv'
<1>1. /\ UNCHANGED <<setting, property, modified, requested, mutex, gui, at, pipe, dirty, out, node,
                     output, before>>
      /\ pc = "chain" /\ pc' = "build" /\ imported' = setting[at]
  BY DEF Import
<1>2. EditTyped' /\ WalkTyped' /\ ImagesTyped'
  BY <1>1 DEF IInv, EditTyped, WalkTyped, ImagesTyped
<1>3. GuiTyped' /\ Locks' /\ Flagged'
  BY <1>1, GuiKept DEF Rebuilding, IInv, Locks
<1>4. NodesFollow' /\ Marked' /\ PipelinesDone' /\ LayersDone' /\ AllDone'
  BY <1>1 DEF IInv, NodesFollow, Unflagged, gui, Marked, PipelinesDone, LayersDone, AllDone,
              NodeDone, OutputDone
<1>5. QED
  BY <1>2, <1>3, <1>4 DEF IInv

\* A node that is reused was not flagged, one that is built is new, and one that fails
\* has no locked layer.
LEMMA BuildInv ==
  ASSUME FailsBelow, IInv, Build
  PROVE  IInv'
<1> DEFINE built == [Below EXCEPT ![at] = imported]
<1>1. /\ UNCHANGED <<setting, property, modified, requested, mutex, gui, pipe, dirty, imported,
                     output, before>>
      /\ pc = "build"
      /\ at' = IF at = N THEN 1 ELSE at + 1
      /\ pc' = IF at = N THEN "output" ELSE "chain"
      /\ \/ ~modified[at] /\ out' = node[pipe][at] /\ node' = node
         \/ <<at, imported>> \in Fails /\ out' = out /\ node' = node
         \/ out' = built /\ node' = [node EXCEPT ![pipe][at] = built]
  BY DEF Build
<1>2. /\ at \in Layers /\ at \in Nat /\ pipe \in Pipelines /\ imported \in Settings
      /\ out \in Images /\ node \in [Pipelines -> [Layers -> Images]]
      /\ Locked \subseteq Nat /\ Locked \subseteq Layers /\ N \in Nat
  BY SizeParts DEF IInv, WalkTyped, ImagesTyped
<1>3. /\ Below \in Images /\ built \in Images /\ built[at] = imported
      /\ \A l \in Layers : l # at => built[l] = Below[l]
  <2>1. Below \in Images
    BY <1>2 DEF Below, Nothing, Images, Layers
  <2>2. QED
    BY <1>2, <2>1 DEF Images
<1> HIDE DEF built
<1>4. /\ EditTyped' /\ WalkTyped' /\ ImagesTyped'
  <2>1. at' \in Layers
    BY <1>1, <1>2 DEF Layers
  <2>2. WalkTyped'
    BY <1>1, <2>1 DEF IInv, WalkTyped
  <2>3. out' \in Images /\ node' \in [Pipelines -> [Layers -> Images]]
    BY <1>1, <1>2, <1>3
  <2>4. EditTyped' /\ ImagesTyped'
    BY <1>1, <2>3 DEF IInv, EditTyped, ImagesTyped
  <2>5. QED
    BY <2>2, <2>4
<1>5. GuiTyped' /\ Locks' /\ Flagged'
  BY <1>1, GuiKept DEF Rebuilding, IInv, Locks
<1>6. /\ \A k \in Locked : k < at => Below[k] = setting[k]
      /\ \A l \in Layers : l < at => NodeDone(pipe, l)
      /\ at \in Locked => imported = setting[at]
  <2>1. /\ \A l \in Layers : l < at => NodeDone(pipe, l)
        /\ at \in Locked => imported = setting[at]
    BY <1>1 DEF IInv, LayersDone
  <2>2. ASSUME NEW k \in Locked, k < at PROVE Below[k] = setting[k]
    <3>1. at # 1 /\ at - 1 \in Layers /\ at - 1 < at /\ k <= at - 1
      BY <1>2, <2>2 DEF Layers
    <3>2. QED
      BY <2>1, <3>1 DEF Below, NodeDone
  <2>3. QED
    BY <2>1, <2>2
<1>7. \A k \in Locked : k <= at => built[k] = setting[k]
  BY <1>2, <1>3, <1>6
<1>8. \A p \in Pipelines, l \in Layers : p # pipe \/ l # at => node'[p][l] = node[p][l]
  BY <1>1, <1>2
<1>9. \A k \in Locked : k <= at => out'[k] = setting[k] /\ node'[pipe][at][k] = setting[k]
  <2>1. CASE ~modified[at] /\ out' = node[pipe][at] /\ node' = node
    <3>1. \A k \in Locked : (k <= at => ~modified[k]) /\ ~Unflagged(k)
      BY <1>1, <1>2, <2>1 DEF IInv, Marked, Locks, Rebuilding, Unflagged
    <3>2. QED
      BY <1>2, <2>1, <3>1 DEF IInv, NodesFollow
  <2>2. CASE <<at, imported>> \in Fails
    BY <1>2, <2>2 DEF FailsBelow
  <2>3. CASE out' = built /\ node' = [node EXCEPT ![pipe][at] = built]
    BY <1>2, <1>7, <2>3
  <2>4. QED
    BY <1>1, <2>1, <2>2, <2>3
<1>10. \A l \in Layers : l <= at => NodeDone(pipe, l)'
  <2>1. ASSUME NEW l \in Layers, l < at PROVE NodeDone(pipe, l)'
    <3>1. l # at
      BY <1>2, <2>1, SizeParts
    <3>2. QED
      <4>1. node'[pipe][l] = node[pipe][l] /\ pipe' = pipe /\ setting' = setting
        BY <1>1, <1>2, <1>8, <3>1
      <4>2. NodeDone(pipe, l)
        BY <1>6, <2>1
      <4>3. QED
        BY <4>1, <4>2 DEF NodeDone
  <2>3. ASSUME NEW l \in Layers, l = at PROVE NodeDone(pipe, l)'
    BY <1>1, <1>9, <2>3 DEF NodeDone
  <2>4. QED
    BY <1>2, <2>1, <2>3, SizeParts
<1>11. NodesFollow'
  <2>1. ASSUME NEW p \in Pipelines, NEW l \in Layers, NEW k \in Locked, k <= l
        PROVE  modified'[k] \/ Unflagged(k)' \/ node'[p][l][k] = setting'[k]
    <3>1. CASE p = pipe /\ l = at
      BY <1>1, <1>9, <2>1, <3>1
    <3>2. CASE ~(p = pipe /\ l = at)
      BY <1>1, <1>8, <2>1, <3>2 DEF IInv, NodesFollow, Unflagged, gui
    <3>3. QED
      BY <3>1, <3>2
  <2>2. QED
    BY <2>1 DEF NodesFollow
<1>12. Marked'
  BY <1>1 DEF IInv, Marked
<1>13. PipelinesDone'
  <2>1. ASSUME NEW p \in Pipelines, p < pipe PROVE OutputDone(p)' /\ \A l \in Layers : NodeDone(p, l)'
    <3>1. OutputDone(p) /\ \A l \in Layers : NodeDone(p, l)
      BY <1>1, <2>1 DEF IInv, PipelinesDone
    <3>2. p # pipe
      BY <1>2, <2>1, SizeParts
    <3>3. QED
      BY <1>1, <1>8, <3>1, <3>2 DEF OutputDone, NodeDone
  <2>2. QED
    BY <1>1, <2>1 DEF PipelinesDone
<1>14. LayersDone'
  <2>1. CASE at = N
    <3>1. pc' = "output" /\ \A l \in Layers : l <= at
      BY <1>1, <2>1, SizeParts DEF Layers
    <3>2. QED
      BY <1>1, <1>2, <1>9, <1>10, <3>1 DEF LayersDone
  <2>2. CASE at # N
    <3>1. pc' = "chain" /\ at' = at + 1
      BY <1>1, <2>2
    <3>2. \A l \in Layers : l < at' => l <= at
      BY <1>2, <3>1, SizeParts
    <3>3. QED
      BY <1>1, <1>2, <1>9, <1>10, <3>1, <3>2 DEF LayersDone
  <2>3. QED
    BY <2>1, <2>2
<1>15. AllDone'
  BY <1>1 DEF AllDone
<1>16. QED
  BY <1>4, <1>5, <1>11, <1>12, <1>13, <1>14, <1>15 DEF IInv

LEMMA OutputInv ==
  ASSUME IInv, Output
  PROVE  /\ IInv'
         /\ pipe = P => \A p \in Pipelines, k \in Locked : output'[p][k] = setting[k]
<1>1. /\ UNCHANGED <<setting, property, modified, requested, mutex, gui, at, dirty, imported, node,
                     before>>
      /\ pc = "output" /\ output' = [output EXCEPT ![pipe] = out] /\ out' = Nothing
      /\ pipe' = IF pipe = P THEN 1 ELSE pipe + 1
      /\ pc' = IF pipe = P THEN "finalize" ELSE "chain"
  BY DEF Output
<1>2. /\ pipe \in Pipelines /\ pipe \in Nat /\ P \in Nat /\ at \in Layers
      /\ out \in Images /\ output \in [Pipelines -> Images]
  BY SizeParts DEF IInv, WalkTyped, ImagesTyped
<1>3. EditTyped' /\ WalkTyped' /\ ImagesTyped'
  <2>1. pipe' \in Pipelines
    BY <1>1, <1>2 DEF Pipelines
  <2>2. WalkTyped'
    BY <1>1, <2>1 DEF IInv, WalkTyped
  <2>3. EditTyped' /\ ImagesTyped'
    BY <1>1, <1>2 DEF IInv, EditTyped, ImagesTyped, Nothing, Images
  <2>4. QED
    BY <2>2, <2>3
<1>4. GuiTyped' /\ Locks' /\ Flagged'
  BY <1>1, GuiKept DEF Rebuilding, IInv, Locks
<1>5. NodesFollow' /\ Marked'
  BY <1>1 DEF IInv, NodesFollow, Unflagged, gui, Marked
<1>6. ASSUME NEW p \in Pipelines, p <= pipe PROVE OutputDone(p)' /\ \A l \in Layers : NodeDone(p, l)'
  <2>1. CASE p = pipe
    BY <1>1, <1>2, <2>1 DEF IInv, LayersDone, OutputDone, NodeDone
  <2>2. CASE p # pipe
    <3>1. p < pipe
      BY <1>2, <1>6, <2>2, SizeParts
    <3>2. OutputDone(p) /\ \A l \in Layers : NodeDone(p, l)
      BY <1>1, <3>1 DEF IInv, PipelinesDone
    <3>3. QED
      BY <1>1, <1>2, <2>2, <3>2 DEF OutputDone, NodeDone
  <2>3. QED
    BY <2>1, <2>2
<1>7. pipe = P => \A p \in Pipelines : p <= pipe
  BY <1>2 DEF Pipelines
<1>8. PipelinesDone'
  <2>1. CASE pipe = P
    BY <1>1, <2>1 DEF PipelinesDone
  <2>2. CASE pipe # P
    <3>1. \A p \in Pipelines : p < pipe' => p <= pipe
      BY <1>1, <1>2, <2>2, SizeParts
    <3>2. QED
      BY <1>6, <3>1 DEF PipelinesDone
  <2>3. QED
    BY <2>1, <2>2
<1>9. AllDone'
  BY <1>1, <1>6, <1>7 DEF AllDone
<1>10. LayersDone'
  BY <1>1, <1>2, SizeParts DEF IInv, LayersDone, Layers
<1>11. pipe = P => \A p \in Pipelines, k \in Locked : output'[p][k] = setting[k]
  BY <1>1, <1>6, <1>7 DEF OutputDone
<1>12. QED
  BY <1>3, <1>4, <1>5, <1>8, <1>9, <1>10, <1>11 DEF IInv

\* The flags are cleared when all nodes have the locked layers as they are set.
LEMMA FinalizeInv ==
  ASSUME IInv, Finalize
  PROVE  IInv'
<1>1. /\ UNCHANGED <<setting, requested, mutex, gui, pipe, dirty, imported, out, node, output, before>>
      /\ pc = "finalize" /\ pc' \in {"finalize", "unlock"}
      /\ modified' = [modified EXCEPT ![at] = FALSE] /\ property' = [property EXCEPT ![at] = FALSE]
      /\ at' = IF at = N THEN 1 ELSE at + 1
  BY DEF Finalize, Advance
<1>2. at \in Layers /\ at \in Nat /\ N \in Nat
  BY SizeParts DEF IInv, WalkTyped
<1>3. EditTyped' /\ WalkTyped' /\ ImagesTyped'
  <2>1. at' \in Layers
    BY <1>1, <1>2 DEF Layers
  <2>2. WalkTyped'
    BY <1>1, <2>1 DEF IInv, WalkTyped
  <2>3. EditTyped' /\ ImagesTyped'
    BY <1>1, <1>2 DEF IInv, EditTyped, ImagesTyped
  <2>4. QED
    BY <2>2, <2>3
<1>4. GuiTyped' /\ Locks' /\ Flagged'
  BY <1>1, GuiKept DEF Rebuilding, IInv, Locks
<1>5. AllDone'
  BY <1>1 DEF IInv, AllDone, NodeDone
<1>6. NodesFollow'
  BY <1>1 DEF IInv, AllDone, NodeDone, NodesFollow
<1>7. Marked' /\ PipelinesDone' /\ LayersDone'
  BY <1>1 DEF Marked, PipelinesDone, LayersDone
<1>8. QED
  BY <1>3, <1>4, <1>5, <1>6, <1>7 DEF IInv

-----------------------------------------------------------------------------
(* The theorems *)

LEMMA NextInv == FailsBelow /\ IInv /\ [Next]_vars => IInv'
<1> SUFFICES ASSUME FailsBelow, IInv, [Next]_vars PROVE IInv'
  OBVIOUS
<1>1. CASE (\E l \in Layers, v \in Settings : Edit(l, v)) \/ LockGui \/ Flag \/ Ask \/ UnlockGui
  BY <1>1, GuiInv
<1>2. CASE Assign
  BY <1>2, AssignInv
<1>3. CASE Take \/ LockImage \/ UnlockImage
  BY <1>3, TakeInv
<1>4. CASE Prepare
  BY <1>4, PrepareInv
<1>5. CASE Import
  BY <1>5, ImportInv
<1>6. CASE Build
  BY <1>6, BuildInv
<1>7. CASE Output
  BY <1>7, OutputInv
<1>8. CASE Finalize
  BY <1>8, FinalizeInv
<1>9. CASE UNCHANGED vars
  <2>1. /\ UNCHANGED <<setting, property, modified, requested, mutex, builder, pc, at, pipe, dirty>>
        /\ UNCHANGED <<gpc, layer, value, edits, imported, out, node, output, before>>
    BY <1>9 DEF vars, gui, builder
  <2>2. NodesFollow' /\ Marked' /\ PipelinesDone' /\ LayersDone' /\ AllDone'
    BY <2>1, EditKept DEF IInv, EditTyped, Unflagged
  <2>3. EditTyped' /\ GuiTyped' /\ WalkTyped' /\ ImagesTyped' /\ Locks' /\ Flagged'
    BY <2>1 DEF IInv, EditTyped, GuiTyped, WalkTyped, ImagesTyped, Locks, Flagged
  <2>4. QED
    BY <2>2, <2>3 DEF IInv
<1>10. QED
  BY <1>1, <1>2, <1>3, <1>4, <1>5, <1>6, <1>7, <1>8, <1>9 DEF Next, Gui, Processor, Rest

LEMMA IInvCorrect ==
  ASSUME FailsBelow
  PROVE  Spec => []IInv
<1>1. Init => IInv
  BY InitInv
<1>2. IInv /\ [Next]_vars => IInv'
  BY NextInv
<1>3. QED
  BY <1>1, <1>2, PTL DEF Spec

\* The types, whatever may fail.
LEMMA TypesKept ==
  ASSUME EditTyped, GuiTyped, WalkTyped, ImagesTyped, [Next]_vars
  PROVE  EditTyped' /\ GuiTyped' /\ WalkTyped' /\ ImagesTyped'
<1>1. EditTyped'
  <2>1. setting' \in [Layers -> Settings]
    BY DEF EditTyped, GuiTyped, Next, Gui, Processor, Rest, Edit, LockGui, Flag, Assign, Ask, UnlockGui,
           Take, LockImage, Prepare, Import, Build, Output, Finalize, UnlockImage, vars
  <2>2. property' \in [Layers -> BOOLEAN] /\ modified' \in [Layers -> BOOLEAN]
    <3>1. CASE Prepare
      BY <3>1 DEF EditTyped, WalkTyped, Prepare
    <3>2. CASE ~Prepare
      BY <3>2 DEF EditTyped, GuiTyped, WalkTyped, Next, Gui, Processor, Rest, Edit, LockGui, Flag, Assign,
                  Ask, UnlockGui, Take, LockImage, Import, Build, Output, Finalize, UnlockImage, vars
    <3>3. QED
      BY <3>1, <3>2
  <2>3. requested' \in BOOLEAN /\ mutex' \in {"free", "gui", "processor"}
    BY DEF EditTyped, GuiTyped, Next, Gui, Processor, Rest, Edit, LockGui, Flag, Assign, Ask, UnlockGui,
           Take, LockImage, Prepare, Import, Build, Output, Finalize, UnlockImage, vars
  <2>4. QED
    BY <2>1, <2>2, <2>3 DEF EditTyped
<1>2. GuiTyped'
  BY SizesAssumption
     DEF GuiTyped, Next, Gui, Processor, Rest, Edit, LockGui, Flag, Assign, Ask, UnlockGui, Take,
         LockImage, Prepare, Import, Build, Output, Finalize, UnlockImage, vars, gui
<1>3. WalkTyped'
  <2>1. at' \in Layers
    BY SizeParts DEF Layers, WalkTyped, Next, Gui, Processor, Rest, Edit, LockGui, Flag, Assign, Ask,
                     UnlockGui, Take, LockImage, Prepare, Import, Build, Output, Finalize, Advance,
                     UnlockImage, vars, builder
  <2>2. pipe' \in Pipelines
    BY SizeParts DEF Pipelines, WalkTyped, Next, Gui, Processor, Rest, Edit, LockGui, Flag, Assign, Ask,
                     UnlockGui, Take, LockImage, Prepare, Import, Build, Output, Finalize,
                     UnlockImage, vars, builder
  <2>3. pc' \in {"idle", "lock", "prepare", "chain", "build", "output", "finalize", "unlock"}
    BY DEF WalkTyped, Next, Gui, Processor, Rest, Edit, LockGui, Flag, Assign, Ask,
           UnlockGui, Take, LockImage, Prepare, Import, Build, Output, Finalize, Advance,
           UnlockImage, vars, builder
  <2>4. dirty' \in BOOLEAN /\ imported' \in Settings
    BY DEF WalkTyped, EditTyped, Next, Gui, Processor, Rest, Edit, LockGui, Flag, Assign, Ask,
           UnlockGui, Take, LockImage, Prepare, Import, Build, Output, Finalize,
           UnlockImage, vars, builder
  <2>5. QED
    BY <2>1, <2>2, <2>3, <2>4 DEF WalkTyped
<1>4. ImagesTyped'
  <2>1. CASE Build
    <3>1. Below \in Images
      BY SizeParts DEF ImagesTyped, WalkTyped, Below, Nothing, Images, Layers
    <3>2. [Below EXCEPT ![at] = imported] \in Images
      BY <3>1 DEF ImagesTyped, WalkTyped, Images
    <3>3. QED
      BY <2>1, <3>2 DEF Build, ImagesTyped, WalkTyped
  <2>2. Nothing \in Images
    BY DEF Nothing, Images
  <2>3. CASE Output
    BY <2>2, <2>3 DEF Output, ImagesTyped, WalkTyped
  <2>4. CASE ~Build /\ ~Output
    BY <2>2, <2>4 DEF ImagesTyped, Next, Gui, Processor, Rest, Edit, LockGui, Flag, Assign, Ask,
                      UnlockGui, Take, LockImage, Prepare, Import, Finalize, UnlockImage, vars, builder
  <2>5. QED
    BY <2>1, <2>3, <2>4
<1>5. QED
  BY <1>1, <1>2, <1>3, <1>4

\* The settings, the nodes and the outputs stay what the code makes of them, and the
\* walks over the layers and the pipelines stay inside them, whatever may fail.
THEOREM TypeCorrect == Spec => []TypeOK
<1> DEFINE Typed == EditTyped /\ GuiTyped /\ WalkTyped /\ ImagesTyped
<1>1. Init => Typed
  BY InitInv DEF IInv
<1>2. Typed /\ [Next]_vars => Typed'
  BY TypesKept
<1>3. Typed => TypeOK
  BY Zenon DEF EditTyped, GuiTyped, WalkTyped, ImagesTyped, TypeOK
<1>4. QED
  BY <1>1, <1>2, <1>3, PTL DEF Spec

\* What ShownEdits sees of a state: the locked layers as they are set, and as shown.
Edited == [l \in Locked |-> setting[l]]
Seen == [p \in Pipelines |-> [l \in Locked |-> Shown(p)[l]]]

\* Every step shows all that is edited, or edits a locked layer, or does neither.
LEMMA NextRefines ==
  ASSUME FailsBelow, IInv, [Next]_vars
  PROVE  Atomic!Next \/ UNCHANGED <<Edited, Seen>>
<1>1. CASE Assign
  <2>1. setting' = [setting EXCEPT ![layer] = value] /\ UNCHANGED <<pc, before, output>>
    BY <1>1 DEF Assign, builder
  <2>2. setting \in [Layers -> Settings] /\ layer \in Layers /\ value \in Settings
        /\ Locked \subseteq Layers
    BY SizeParts DEF IInv, EditTyped, GuiTyped
  <2>3. Seen' = Seen
    BY <2>1 DEF Seen, Shown
  <2>4. CASE layer \in Locked
    <3>1. Edited' = [Edited EXCEPT ![layer] = value]
      BY <2>1, <2>2, <2>4 DEF Edited
    <3>2. PICK l \in Locked, v \in Settings : Edited' = [Edited EXCEPT ![l] = v]
      BY <2>2, <2>4, <3>1
    <3>3. Atomic!Edit(l, v)
      BY <2>3, <3>2 DEF Atomic!Edit, Edited, Seen
    <3>4. QED
      BY <3>3 DEF Atomic!Next
  <2>5. CASE layer \notin Locked
    <3>1. Edited' = Edited
      BY <2>1, <2>2, <2>5 DEF Edited
    <3>2. QED
      BY <2>3, <3>1
  <2>6. QED
    BY <2>4, <2>5
<1>2. CASE Output /\ pipe = P
  <2>1. UNCHANGED setting /\ pc' = "finalize"
    BY <1>2 DEF Output
  <2>2. \A p \in Pipelines, k \in Locked : output'[p][k] = setting[k]
    BY <1>2, OutputInv
  <2>3. Edited' = Edited
    BY <2>1 DEF Edited
  <2>4. Seen' = [p \in Pipelines |-> [l \in Locked |-> output'[p][l]]]
    BY <2>1 DEF Seen, Shown
  <2>5. Seen' = [p \in Pipelines |-> Edited]
    BY <2>2, <2>4 DEF Edited
  <2>6. Atomic!Show
    BY <2>3, <2>5 DEF Atomic!Show, Edited, Seen
  <2>7. QED
    BY <2>6 DEF Atomic!Next
<1>3. ASSUME ~Assign, ~(Output /\ pipe = P) PROVE UNCHANGED <<Edited, Seen>>
  <2>1. /\ UNCHANGED setting
        /\ \/ pc = "lock" /\ pc' = "prepare" /\ before' = output
           \/ /\ pc \in {"prepare", "chain", "build", "output"} <=>
                   pc' \in {"prepare", "chain", "build", "output"}
              /\ pc \in {"prepare", "chain", "build", "output"} => UNCHANGED before
              /\ pc \notin {"prepare", "chain", "build", "output"} => UNCHANGED output
    BY <1>3 DEF Next, Gui, Processor, Rest, Edit, LockGui, Flag, Ask, UnlockGui, Take, LockImage,
                Prepare, Import, Build, Output, Finalize, Advance, UnlockImage, vars, gui, builder
  <2>2. Edited' = Edited
    BY <2>1 DEF Edited
  <2>3. \A p \in Pipelines : Shown(p)' = Shown(p)
    BY <2>1 DEF Shown
  <2>4. Seen' = Seen
    BY <2>3 DEF Seen
  <2>5. QED
    BY <2>2, <2>4
<1>4. QED
  BY <1>1, <1>2, <1>3

\* A rebuild under the lock is one step for those who edit under it: RebuildSteps
\* implements ShownEdits, whatever is edited without the lock meanwhile, when the
\* layers that may fail are all below those edited under the lock (do_update of Image,
\* update_dirty, rebuild_chain and reset_layers_dirty_flag of LayerManager).
THEOREM RebuildsAreAtomicCorrect ==
  ASSUME FailsBelow
  PROVE  Spec => RebuildsAreAtomic
<1>1. Init => Atomic!Init
  <2> SUFFICES ASSUME Init PROVE Atomic!Init
    OBVIOUS
  <2>1. Edited \in [Locked -> Settings]
    BY SizeParts DEF Init, Edited, Start
  <2>2. \A p \in Pipelines : Shown(p) = Start
    BY DEF Init, Shown
  <2>3. Seen = [p \in Pipelines |-> Edited]
    BY <2>2, SizeParts DEF Init, Seen, Edited
  <2>4. QED
    BY <2>1, <2>3 DEF Atomic!Init, Edited, Seen
<1>2. IInv /\ [Next]_vars
        => [Atomic!Next]_<<[l \in Locked |-> setting[l]],
                           [p \in Pipelines |-> [l \in Locked |-> Shown(p)[l]]]>>
  BY NextRefines DEF Edited, Seen
<1>3. QED
  BY <1>1, <1>2, IInvCorrect, PTL DEF Spec, RebuildsAreAtomic, Atomic!Spec
-----------------------------------------------------------------------------
(* At rest, what is edited under the lock is shown.                                *)

\* Until a rebuild is under way, a pipeline has the locked layers as they are set, but
\* for those that are flagged or about to be; when it ends, it has them all.
OutputsFollow ==
  /\ pc \in {"idle", "lock", "prepare"} =>
       \A p \in Pipelines, k \in Locked :
         modified[k] \/ Unflagged(k) \/ output[p][k] = setting[k]
  /\ pc \in {"finalize", "unlock"} => \A p \in Pipelines : OutputDone(p)

\* A flagged layer waits for a rebuild that is asked for, or about to be, or goes on.
Awaited(k) ==
  \/ requested
  \/ gpc \in {"assign", "ask"} /\ layer = k
  \/ pc \in {"lock", "prepare", "chain", "build", "output"}
  \/ pc = "finalize" /\ at <= k
FlagsAwaited == \A k \in Locked : modified[k] => Awaited(k)

LEMMA NextOutputs ==
  ASSUME FailsBelow, IInv, OutputsFollow, [Next]_vars
  PROVE  OutputsFollow'
<1>1. CASE Assign
  <2>1. /\ setting' = [setting EXCEPT ![layer] = value] /\ gpc \in {"edit", "assign"}
        /\ gpc' = (IF gpc = "edit" THEN "flag" ELSE "ask") /\ layer' = layer
        /\ UNCHANGED <<modified, pc, output>>
    BY <1>1 DEF Assign, builder
  <2>2. setting \in [Layers -> Settings] /\ Locked \subseteq Layers
    BY SizeParts DEF IInv, EditTyped
  <2>3. layer \in Locked => (modified[layer] \/ Unflagged(layer)') /\ pc \notin Rebuilding
    BY <2>1 DEF IInv, Locks, Flagged, Unflagged
  <2>4. \A k \in Locked : ~Unflagged(k) /\ (k # layer => setting'[k] = setting[k])
    BY <2>1, <2>2 DEF Unflagged
  <2>5. CASE pc \in {"idle", "lock", "prepare"}
    BY <2>1, <2>3, <2>4, <2>5 DEF OutputsFollow
  <2>6. CASE pc \notin {"idle", "lock", "prepare"}
    BY <2>1, <2>3, <2>4, <2>6 DEF OutputsFollow, OutputDone, Rebuilding
  <2>7. QED
    BY <2>5, <2>6
<1>2. CASE Output
  <2>1. UNCHANGED setting /\ pc' = IF pipe = P THEN "finalize" ELSE "chain"
    BY <1>2 DEF Output
  <2>2. pipe = P => \A p \in Pipelines, k \in Locked : output'[p][k] = setting[k]
    BY <1>2, OutputInv
  <2>3. QED
    BY <2>1, <2>2 DEF OutputsFollow, OutputDone
<1>3. CASE UnlockImage
  BY <1>3 DEF UnlockImage, gui, OutputsFollow, OutputDone
<1>4. CASE Finalize
  BY <1>4 DEF Finalize, Advance, OutputsFollow, OutputDone
<1>5. ASSUME ~Assign, ~Output, ~UnlockImage, ~Finalize PROVE OutputsFollow'
  <2>1. /\ UNCHANGED <<setting, output>>
        /\ \A k \in Layers : modified[k] => modified'[k]
        /\ \A k \in Layers : Unflagged(k) => modified'[k] \/ Unflagged(k)'
    <3>1. Locked \subseteq Layers /\ modified \in [Layers -> BOOLEAN]
      BY SizeParts DEF IInv, EditTyped
    <3>2. CASE Flag
      BY <3>1, <3>2 DEF Flag, builder, Unflagged
    <3>3. CASE Prepare
      BY <3>1, <3>3 DEF Prepare, gui, Unflagged
    <3>4. CASE ~Flag /\ ~Prepare
      BY <1>5, <3>4 DEF Next, Gui, Processor, Rest, Edit, LockGui, Ask, UnlockGui, Take, LockImage,
                        Import, Build, vars, gui, builder, Unflagged
    <3>5. QED
      BY <3>2, <3>3, <3>4
  <2>2. /\ pc' \in {"idle", "lock", "prepare"} => pc \in {"idle", "lock", "prepare"}
        /\ pc' \in {"finalize", "unlock"} => pc \in {"finalize", "unlock"}
    BY <1>5 DEF Next, Gui, Processor, Rest, Edit, LockGui, Flag, Ask, UnlockGui, Take, LockImage,
                Prepare, Advance, Import, Build, vars, builder
  <2>3. QED
    BY <2>1, <2>2, SizeParts DEF OutputsFollow, OutputDone
<1>6. QED
  BY <1>1, <1>2, <1>3, <1>4, <1>5

LEMMA NextAwaited ==
  ASSUME IInv, FlagsAwaited, [Next]_vars
  PROVE  FlagsAwaited'
<1> SUFFICES ASSUME NEW k \in Locked, modified'[k] PROVE Awaited(k)'
  BY DEF FlagsAwaited
<1>1. k \in Layers /\ k \in Nat /\ Layers \subseteq Nat /\ N \in Nat
  BY SizeParts
<1>2. at \in Layers /\ layer \in Layers /\ modified \in [Layers -> BOOLEAN]
  BY DEF IInv, EditTyped, GuiTyped, WalkTyped
<1>3. CASE Flag
  <2>1. CASE layer = k
    BY <1>3, <2>1 DEF Flag, Awaited
  <2>2. CASE layer # k
    BY <1>2, <1>3, <2>2 DEF Flag, builder, FlagsAwaited, Awaited
  <2>3. QED
    BY <2>1, <2>2
<1>4. CASE Ask
  BY <1>4 DEF Ask, builder, FlagsAwaited, Awaited
<1>5. CASE Prepare
  BY <1>5 DEF Prepare, Advance, Awaited
<1>6. CASE Finalize
  <2>1. /\ pc = "finalize" /\ modified' = [modified EXCEPT ![at] = FALSE]
        /\ UNCHANGED <<requested, gpc, layer>>
        /\ at' = IF at = N THEN 1 ELSE at + 1
        /\ pc' = IF at = N THEN "unlock" ELSE pc
    BY <1>6 DEF Finalize, Advance, gui
  <2>2. k # at /\ modified[k]
    BY <1>1, <1>2, <2>1
  <2>3. CASE at <= k
    <3>1. at # N /\ at + 1 <= k
      BY <1>1, <1>2, <2>2, <2>3 DEF Layers
    <3>2. QED
      BY <2>1, <3>1 DEF Awaited
  <2>4. CASE ~(at <= k)
    BY <2>1, <2>2, <2>4 DEF FlagsAwaited, Awaited
  <2>5. QED
    BY <2>3, <2>4
<1>7. CASE Output
  <2>1. Awaited(k) /\ k >= 1
    BY <1>1, <1>7 DEF Output, FlagsAwaited, Layers
  <2>2. at = 1
    BY <1>7 DEF Output, IInv, LayersDone
  <2>3. QED
    BY <1>7, <2>1, <2>2 DEF Output, Awaited
<1>8. CASE ~Flag /\ ~Ask /\ ~Prepare /\ ~Finalize /\ ~Output
  <2>1. modified' = modified
    BY <1>8 DEF Next, Gui, Processor, Rest, Edit, LockGui, Assign, UnlockGui, Take, LockImage,
                Import, Build, UnlockImage, vars
  <2>2. Awaited(k)
    BY <2>1 DEF FlagsAwaited
  <2>3. QED
    BY <1>8, <2>2
       DEF Awaited, Next, Gui, Processor, Rest, Edit, LockGui, Assign, UnlockGui, Take, LockImage,
           Import, Build, UnlockImage, vars, gui, builder
<1>9. QED
  BY <1>3, <1>4, <1>5, <1>6, <1>7, <1>8

\* When both threads are at rest every pipeline shows the layers that are edited under
\* the lock as they are set: reset_layers_dirty_flag forgets none of their edits, and
\* none is left that no rebuild was asked for.  What may fail is below them, as before.
THEOREM AtRestIsShownCorrect ==
  ASSUME FailsBelow
  PROVE  Spec => []AtRestIsShown
<1>1. Init => OutputsFollow /\ FlagsAwaited
  <2> SUFFICES ASSUME Init PROVE OutputsFollow /\ FlagsAwaited
    OBVIOUS
  <2>1. \A k \in Locked : ~modified[k] /\ \A p \in Pipelines : output[p][k] = setting[k]
    BY SizeParts DEF Init, Start
  <2>2. QED
    BY <2>1 DEF Init, OutputsFollow, FlagsAwaited
<1>2. IInv /\ OutputsFollow /\ FlagsAwaited /\ [Next]_vars => OutputsFollow' /\ FlagsAwaited'
  BY NextOutputs, NextAwaited
<1>3. OutputsFollow /\ FlagsAwaited => AtRestIsShown
  BY DEF OutputsFollow, FlagsAwaited, Awaited, Unflagged, AtRestIsShown, Shows
<1>4. QED
  BY <1>1, <1>2, <1>3, IInvCorrect, PTL DEF Spec
=============================================================================
