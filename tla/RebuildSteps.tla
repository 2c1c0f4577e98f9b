---------------------------- MODULE RebuildSteps ----------------------------
(***************************************************************************)
(* A rebuild, step by step, while the GUI thread edits: Image::do_update   *)
(* (src/base/image.cc) with rebuild_prepare, rebuild and rebuild_finalize  *)
(* (src/base/layermanager.cc), against PFWidget::changed, which takes no   *)
(* lock, and the handlers that edit under the lock of the image.  Layers   *)
(* are a plain list, numbered from the bottom up; LayerChain has the tree  *)
(* of layers, with each rebuild as one step.                               *)
(*                                                                         *)
(* An image is known by the settings it was made with: a function from the *)
(* layers to the setting of each, None for a layer that is not in it.      *)
(***************************************************************************)
EXTENDS Naturals

CONSTANTS N,          \* layers
          P,          \* pipelines
          Settings,
          Fails,      \* <<l, v>>: layer l cannot be built with setting v
          Locked,     \* the layers that are edited under image->lock()
          None,
          MaxEdits    \* bound: edits by the user

Layers == 1 .. N
Pipelines == 1 .. P

ASSUME SizesAssumption == N \in Nat \ {0} /\ P \in Nat \ {0} /\ MaxEdits \in Nat
ASSUME SettingsAssumption == 0 \in Settings /\ None \notin Settings
ASSUME FailsAssumption == Fails \subseteq Layers \X Settings /\ \A l \in Layers : <<l, 0>> \notin Fails
ASSUME LockedAssumption == Locked \subseteq Layers

VARIABLES
  \* shared
  setting,    \* setting[l]: the properties of the operation of layer l
  property,   \* property[l]: modified_flag of the property the control sets
  modified,   \* modified[l]: modified_flag of the operation
  requested,  \* an IMAGE_REBUILD is in the queue
  mutex,      \* who holds image_mutex
  \* GUI thread
  gpc, layer, value, edits,
  \* processor
  pc, at, pipe,
  dirty,      \* "dirty" of update_dirty
  imported,   \* the settings imported by the operation of the node
  out,        \* "out" of rebuild_chain
  node,       \* node[p][l]: what the node keeps for layer l
  output,     \* output[p]
  before      \* history: output as it was when the image was locked

gui == <<gpc, layer, value, edits>>
builder == <<pc, at, pipe, dirty, imported, out, node, output, before>>
vars == <<setting, property, modified, requested, mutex, gui, builder>>

Nothing == [l \in Layers |-> None]
Start == [l \in Layers |-> 0]
UpTo(l) == [k \in Layers |-> IF k <= l THEN 0 ELSE None]

\* The image has just been opened and built.
Init ==
  /\ setting = Start
  /\ property = [l \in Layers |-> FALSE] /\ modified = [l \in Layers |-> FALSE]
  /\ requested = FALSE /\ mutex = "free"
  /\ gpc = "idle" /\ layer = 1 /\ value = 0 /\ edits = 0
  /\ pc = "idle" /\ at = 1 /\ pipe = 1 /\ dirty = FALSE /\ imported = 0
  /\ out = Nothing
  /\ node = [p \in Pipelines |-> [l \in Layers |-> UpTo(l)]]
  /\ output = [p \in Pipelines |-> Start]
  /\ before = [p \in Pipelines |-> Start]

-----------------------------------------------------------------------------
(* The GUI thread: one edit after the other *)

\* The user moves a control of layer l to v.
Edit(l, v) ==
  /\ gpc = "idle" /\ edits < MaxEdits /\ setting[l] # v
  /\ gpc' = IF l \in Locked THEN "lock" ELSE "edit"
  /\ layer' = l /\ value' = v /\ edits' = edits + 1
  /\ UNCHANGED <<setting, property, modified, requested, mutex, builder>>

LockGui ==
  /\ gpc = "lock" /\ mutex = "free"
  /\ mutex' = "gui"
  /\ gpc' = "edit"
  /\ UNCHANGED <<setting, property, modified, requested, layer, value, edits, builder>>

\* modified(): Property::set and set_enum_value raise the flags before they assign the
\* value, PropertyBase::update, which the controls call, after it.
Flag ==
  /\ gpc \in {"edit", "flag"}
  /\ property' = [property EXCEPT ![layer] = TRUE]
  /\ modified' = [modified EXCEPT ![layer] = TRUE]
  /\ gpc' = IF gpc = "edit" THEN "assign" ELSE "ask"
  /\ UNCHANGED <<setting, requested, mutex, layer, value, edits, builder>>

\* The property gets its value.
Assign ==
  /\ gpc \in {"edit", "assign"}
  /\ setting' = [setting EXCEPT ![layer] = value]
  /\ gpc' = IF gpc = "edit" THEN "flag" ELSE "ask"
  /\ UNCHANGED <<property, modified, requested, mutex, layer, value, edits, builder>>

\* image->update(): the handlers that hold the lock ask for it always,
\* PFWidget::changed if the property says it is modified.
Ask ==
  /\ gpc = "ask"
  /\ requested' = (requested \/ layer \in Locked \/ property[layer])
  /\ gpc' = IF layer \in Locked THEN "unlock" ELSE "idle"
  /\ UNCHANGED <<setting, property, modified, mutex, layer, value, edits, builder>>

UnlockGui ==
  /\ gpc = "unlock"
  /\ mutex' = "free"
  /\ gpc' = "idle"
  /\ UNCHANGED <<setting, property, modified, requested, layer, value, edits, builder>>

Gui == LockGui \/ Flag \/ Assign \/ Ask \/ UnlockGui

-----------------------------------------------------------------------------
(* The processor: Image::do_update *)

\* The request leaves the queue.
Take ==
  /\ pc = "idle" /\ requested
  /\ requested' = FALSE
  /\ pc' = "lock"
  /\ UNCHANGED <<setting, property, modified, mutex, gui, at, pipe, dirty, imported, out, node,
                 output, before>>

\* Slip in LockImage: the lock is not waited for.
LockAtOnce ==
  /\ pc = "lock"
  /\ mutex' = "processor"
  /\ pc' = "prepare" /\ at' = 1 /\ dirty' = FALSE
  /\ before' = output
  /\ UNCHANGED <<setting, property, modified, requested, gui, pipe, imported, out, node, output>>

\* request.image->lock()
LockImage ==
  /\ pc = "lock" /\ mutex = "free"
  /\ mutex' = "processor"
  /\ pc' = "prepare" /\ at' = 1 /\ dirty' = FALSE
  /\ before' = output
  /\ UNCHANGED <<setting, property, modified, requested, gui, pipe, imported, out, node, output>>

\* The cursor of a walk over the list: to the next layer, or on to "next".
Advance(next) ==
  /\ at' = IF at = N THEN 1 ELSE at + 1
  /\ pc' = IF at = N THEN next ELSE pc

\* Slip in Prepare: the layers above a modified one are not marked.
PrepareHere ==
  /\ pc = "prepare"
  /\ Advance("chain")
  /\ pipe' = 1 /\ out' = Nothing
  /\ UNCHANGED <<setting, property, modified, requested, mutex, gui, dirty, imported, node,
                 output, before>>

\* update_dirty, for one layer of the list: it is marked as modified if one below
\* it is.
Prepare ==
  /\ pc = "prepare"
  /\ modified' = [modified EXCEPT ![at] = @ \/ dirty]
  /\ dirty' = (dirty \/ modified[at])
  /\ Advance("chain")
  /\ pipe' = 1 /\ out' = Nothing
  /\ UNCHANGED <<setting, property, requested, mutex, gui, imported, node, output, before>>

\* set_node: the operation of the node imports the settings of the layer.
Import ==
  /\ pc = "chain"
  /\ imported' = setting[at]
  /\ pc' = "build"
  /\ UNCHANGED <<setting, property, modified, requested, mutex, gui, at, pipe, dirty, out, node,
                 output, before>>

\* The image of the layer, made of the one that the node below has
\* (get_default_input_layer), which is an old one if that layer could not be built; or
\* the image its own node has.  A layer that gives no image keeps its node as it was.
Below == IF at = 1 THEN Nothing ELSE node[pipe][at - 1]
Build ==
  LET reuse == ~modified[at] /\ node[pipe][at] # Nothing
      built == [Below EXCEPT ![at] = imported]
      fails == <<at, imported>> \in Fails
  IN
  /\ pc = "build"
  /\ out' = IF reuse THEN node[pipe][at] ELSE IF fails THEN out ELSE built
  /\ node' = IF reuse \/ fails THEN node ELSE [node EXCEPT ![pipe][at] = built]
  /\ at' = IF at = N THEN 1 ELSE at + 1
  /\ pc' = IF at = N THEN "output" ELSE "chain"
  /\ UNCHANGED <<setting, property, modified, requested, mutex, gui, pipe, dirty, imported,
                 output, before>>

\* Slip in Output: the pipelines are counted from 0.
OutputFrom0 ==
  /\ pc = "output"
  /\ output' = [output EXCEPT ![pipe] = out]
  /\ out' = Nothing
  /\ pipe' = IF pipe = P THEN 0 ELSE pipe + 1
  /\ pc' = IF pipe = P THEN "finalize" ELSE "chain"
  /\ UNCHANGED <<setting, property, modified, requested, mutex, gui, at, dirty, imported, node,
                 before>>

\* set_output; on to the next pipeline, or rebuild_done_signal.
Output ==
  /\ pc = "output"
  /\ output' = [output EXCEPT ![pipe] = out]
  /\ out' = Nothing
  /\ pipe' = IF pipe = P THEN 1 ELSE pipe + 1
  /\ pc' = IF pipe = P THEN "finalize" ELSE "chain"
  /\ UNCHANGED <<setting, property, modified, requested, mutex, gui, at, dirty, imported, node,
                 before>>

\* reset_layers_dirty_flag, for one layer.
Finalize ==
  /\ pc = "finalize"
  /\ modified' = [modified EXCEPT ![at] = FALSE]
  /\ property' = [property EXCEPT ![at] = FALSE]
  /\ Advance("unlock")
  /\ UNCHANGED <<setting, requested, mutex, gui, pipe, dirty, imported, out, node, output, before>>

\* request.image->unlock()
UnlockImage ==
  /\ pc = "unlock"
  /\ mutex' = "free"
  /\ pc' = "idle"
  /\ UNCHANGED <<setting, property, modified, requested, gui, at, pipe, dirty, imported, out,
                 node, output, before>>

Processor ==
  \/ Take \/ LockImage \/ Prepare \/ Import \/ Build \/ Output \/ Finalize \/ UnlockImage

\* Both threads wait for the user.
Rest == gpc = "idle" /\ pc = "idle" /\ ~requested /\ UNCHANGED vars

Next ==
  \/ \E l \in Layers, v \in Settings : Edit(l, v)
  \/ Gui \/ Processor \/ Rest

\* Both threads are scheduled again and again.  The user need not edit.
Fairness == WF_vars(Gui) /\ WF_vars(Processor)

Spec == Init /\ [][Next]_vars /\ Fairness

-----------------------------------------------------------------------------
(* Properties *)
Images == [Layers -> Settings \cup {None}]

\* Type invariant.
TypeOK ==
  /\ setting \in [Layers -> Settings]
  /\ property \in [Layers -> BOOLEAN] /\ modified \in [Layers -> BOOLEAN]
  /\ requested \in BOOLEAN /\ mutex \in {"free", "gui", "processor"}
  /\ gpc \in {"idle", "lock", "edit", "flag", "assign", "ask", "unlock"}
  /\ layer \in Layers /\ value \in Settings /\ edits \in 0 .. MaxEdits
  /\ pc \in {"idle", "lock", "prepare", "chain", "build", "output", "finalize", "unlock"}
  /\ at \in Layers /\ pipe \in Pipelines /\ dirty \in BOOLEAN /\ imported \in Settings
  /\ out \in Images /\ node \in [Pipelines -> [Layers -> Images]]
  /\ output \in [Pipelines -> Images] /\ before \in [Pipelines -> Images]

\* A rebuild under the lock of the image is one step to those who edit under it:
\* when rebuild_done is signaled all pipelines change at once, to the settings of
\* one moment (ShownEdits), whatever is edited without the lock meanwhile.  This is
\* what LayerChain takes for granted.
Shown(p) == IF pc \in {"prepare", "chain", "build", "output"} THEN before[p] ELSE output[p]
Atomic == INSTANCE ShownEdits WITH
  Layers <- Locked,
  setting <- [l \in Locked |-> setting[l]],
  shown <- [p \in Pipelines |-> [l \in Locked |-> Shown(p)[l]]]
RebuildsAreAtomic == Atomic!Spec

Shows(l, v) == \A p \in Pipelines : output[p][l] = v

\* What is edited under the lock reaches every pipeline, unless it is edited again.
LockedEditsShow ==
  \A l \in Locked, v \in Settings : setting[l] = v ~> (Shows(l, v) \/ setting[l] # v)

\* When both threads are at rest, every pipeline shows the layers that are edited
\* under the lock as they are set: an edit that falls into a rebuild, or between its
\* flag and its request, is not forgotten by reset_layers_dirty_flag.
AtRestIsShown ==
  gpc = "idle" /\ pc = "idle" /\ ~requested => \A l \in Locked : Shows(l, setting[l])

\* When both threads are at rest, the pipelines show every layer as it is set: "If
\* the operation associated to the current layer has been modified, the dirty flag
\* is set to true" (update_dirty).
EditsShow ==
  gpc = "idle" /\ pc = "idle" /\ ~requested => \A l \in Layers : Shows(l, setting[l])
=============================================================================
