----------------------------- MODULE LayerChain -----------------------------
(***************************************************************************)
(* How a rebuild decides what to build again (src/base/layermanager.cc):   *)
(* update_visible, update_dirty and rebuild_chain over the tree of layers, *)
(* as Image::do_update calls them, against the edits of the GUI.           *)
(*                                                                         *)
(* An image is the recipe it was built from: the layer, the setting and    *)
(* the level it was built with, and the images it was given.  Two images   *)
(* are equal when the same chain of operations makes them.                 *)
(*                                                                         *)
(* One rebuild is one step: no edit falls into the middle of it.           *)
(***************************************************************************)
EXTENDS Naturals, Sequences, SequencesExt

CONSTANTS Layers, NoLayer,   \* the layers of the tree, and the null Layer*
          Pipelines,         \* the pipelines of the image
          NoImage,           \* the null VipsImage*
          Top,               \* LayerManager::layers, from the bottom up
          Sub, Imap, Omap,   \* the lists of sublayers and masks of each layer
          Inputs,            \* the inputs a layer has when the image is opened
          Choosable,         \* the inputs the user may choose for it
          Maps,              \* the layers whose is_map() is TRUE
          Sources,           \* the layers whose operation uses no input
          Settings, Levels,  \* values of parameters, zoom levels
          CanSet, CanBlend, CanMask, CanHide, \* the layers that get each edit
          Targets            \* the pipelines that are rebuilt alone

ASSUME TreeAssumption ==
  /\ NoLayer \notin Layers
  /\ Top \in Seq(Layers) /\ {Sub, Imap, Omap} \subseteq [Layers -> Seq(Layers)]
  /\ Inputs \in [Layers -> Seq(Layers \cup {NoLayer})]
  /\ Choosable \in [Layers -> SUBSET (Layers \cup {NoLayer})]
  /\ Maps \cup Sources \subseteq Layers
  /\ \A l \in Layers : ToSet(Imap[l] \o Omap[l]) \subseteq Maps /\ (l \in Maps => ToSet(Sub[l]) \subseteq Maps)
ASSUME EditsAssumption ==
  /\ CanSet \cup CanBlend \cup CanMask \cup CanHide \subseteq Layers
  /\ Targets \subseteq Pipelines
  /\ 0 \in Settings /\ 0 \in Levels

VARIABLES
  \* edited by the GUI
  enabled, setting, opacity, masked, inputs,
  modified,    \* the flag of the parameters of a layer
  bmodified,   \* the flag of the parameters of its blender
  dirty,       \* the flag of the layer itself
  level, force_rebuild,   \* of each pipeline
  \* built by the processor
  nodes,       \* nodes[p][l]: the image of layer l in pipeline p, and the blended one
  output,      \* output[p]
  settled      \* every edit so far was followed by a rebuild of all pipelines

edited == <<enabled, setting, opacity, masked, inputs>>
flags == <<modified, bmodified, dirty>>
built == <<nodes, output>>
vars == <<edited, flags, level, force_rebuild, built, settled>>

-----------------------------------------------------------------------------
(* rebuild_prepare *)

\* update_visible: a layer is visible when it and everything that contains it is
\* enabled.
RECURSIVE Visible(_)
Visible(l) ==
  /\ enabled[l]
  /\ \A c \in Layers : l \in ToSet(Sub[c] \o Imap[c] \o Omap[c]) => Visible(c)

\* A slip in ExtraDirty: the inputs are not looked at.
ExtraDirtyNever(l, f) == FALSE

\* One of the chosen inputs of the layer is dirty.
ExtraDirty(l, f) == \E x \in ToSet(inputs[l]) \cap Layers : f.dirty[x]

\* A slip in Marked: the parameters of a layer above are not marked.
MarkedHere(l, f, d, input, blend) ==
  [f EXCEPT !.dirty[l] = d, !.bmodified[l] = @ \/ input \/ blend \/ f.modified[l]]

\* The flags that update_dirty leaves on a layer: its parameters are modified if
\* what they work on is, its blender if anything is.
Marked(l, f, d, input, blend) ==
  [f EXCEPT !.dirty[l] = d,
            !.modified[l] = @ \/ input,
            !.bmodified[l] = @ \/ input \/ blend \/ f.modified[l]]

\* update_dirty( list, d ): the flags f afterwards, and the d it hands back.
RECURSIVE UpdateDirty(_, _, _)
UpdateDirty(list, d0, f0) ==
  FoldLeft(
    LAMBDA a, l :
      LET imap == UpdateDirty(Imap[l], FALSE, a.f)
          omap == UpdateDirty(Omap[l], FALSE, imap.f)
          sub == UpdateDirty(Sub[l], a.d, omap.f)
          input == a.d \/ ExtraDirty(l, a.f) \/ imap.d \/ sub.d
          blend == a.f.bmodified[l] \/ omap.d
          d == a.d \/ a.f.dirty[l] \/ input \/ blend \/ a.f.modified[l]
      IN [d |-> d, f |-> Marked(l, sub.f, d, input, blend)],
    [d |-> d0, f |-> f0], list)

-----------------------------------------------------------------------------
(* rebuild_chain *)

\* What OpParBase::build_many and the build of the blender return.
Build(l, v, in, map) ==
  [op |-> l, setting |-> setting[l], level |-> v,
   in |-> IF l \in Sources THEN <<>> ELSE in, map |-> map]
Blend(l, below, top, mask) ==
  [below |-> below, top |-> top, mask |-> mask, opacity |-> opacity[l]]

\* get_container_layer
Container(l) ==
  IF l \in ToSet(Top) THEN NoLayer
  ELSE CHOOSE c \in Layers : l \in ToSet(Sub[c] \o Imap[c] \o Omap[c])

\* The layers get_parent_layers meets before l, in its order; it looks into masks
\* only for the sake of a map layer ("deep").
Before(l, list) == SubSeq(list, 1, SelectInSeq(list, LAMBDA x : x = l) - 1)
RECURSIVE Expand(_, _)
Expand(list, deep) ==
  FlattenSeq([n \in 1..Len(list) |->
    Expand(Sub[list[n]], deep) \o <<list[n]>>
      \o (IF deep THEN Expand(Imap[list[n]] \o Omap[list[n]], deep) ELSE <<>>)])
RECURSIVE Parents(_, _)
Parents(l, deep) ==
  LET c == Container(l)
      found(list) == Expand(Before(l, list), deep)
  IN IF c = NoLayer THEN found(Top)
     ELSE Parents(c, deep) \o
          (IF l \in ToSet(Sub[c]) THEN found(Sub[c])
           ELSE Expand(Sub[c], deep) \o <<c>> \o found(Imap[c] \o Omap[c]))

\* The first input the user chose for the layer, if any.
FirstInput(l) == IF inputs[l] = <<>> THEN NoLayer ELSE inputs[l][1]

\* get_default_input_layer: the last visible layer met before; a mask that would
\* take a layer that is none takes the input of its container instead.
RECURSIVE DefaultInput(_)
DefaultInput(l) ==
  LET seen == SelectSeq(Parents(l, l \in Maps), Visible)
      c == Container(l)
  IN IF seen = <<>> THEN NoLayer
     ELSE IF c # NoLayer /\ l \in Maps /\ Last(seen) \notin Maps
     THEN IF FirstInput(c) = NoLayer THEN DefaultInput(c) ELSE FirstInput(c)
     ELSE Last(seen)

\* The layers a layer without sublayers takes its input images from: the first is
\* the default one unless the user chose another, and a chosen layer that is not
\* visible is left out.
Given(l) ==
  LET own == FirstInput(l) # NoLayer
      Chosen(x) == IF x # NoLayer /\ Visible(x) THEN x ELSE NoLayer
  IN FoldLeft(LAMBDA in, x : Append(in, Chosen(x)),
              IF own THEN <<>> ELSE <<DefaultInput(l)>>,
              IF own THEN inputs[l] ELSE SubSeq(inputs[l], 2, Len(inputs[l])))

\* Those images, where n holds the nodes of the pipeline.
InputImages(l, n) ==
  FoldLeft(LAMBDA in, x : Append(in, IF x = NoLayer THEN NoImage ELSE n[x].blended),
           <<>>, Given(l))

\* A slip in Reuses: the level may have changed.
ReusesAnyLevel(l, p, f, n) == ~f.modified[l] /\ n[l].image # NoImage

\* The image of the node is kept.
Reuses(l, p, f, n) == ~force_rebuild[p] /\ ~f.modified[l] /\ n[l].image # NoImage

\* rebuild_chain( pipeline p, list, previous_layer ), as the flags f want it: the
\* nodes afterwards and the image it returns.
RECURSIVE RebuildChain(_, _, _, _, _)
RebuildChain(p, f, list, previous_layer, nodes0) ==
  LET \* "previous" inside the loop over the list, given the state a of the loop
      Previous(a) == IF a.layer = NoLayer THEN a.previous ELSE a.n[a.layer].blended
      \* the chain of a list of masks, if there is a mask and something below
      Chain(n, below, masks, wanted) ==
        IF below # NoImage /\ masks # <<>> /\ wanted
        THEN RebuildChain(p, f, masks, NoLayer, n)
        ELSE [n |-> n, out |-> NoImage]
      Result(a, l, n, image, blended) ==
        [n |-> [n EXCEPT ![l] = [image |-> image, blended |-> blended]],
         out |-> blended, layer |-> l, previous |-> Previous(a)]
      Reblend(a, l) ==
        LET omap == Chain(a.n, Previous(a), Omap[l], masked[l])
        IN Result(a, l, omap.n, a.n[l].image,
                  Blend(l, Previous(a), a.n[l].image, omap.out))
      BuildLayer(a, l) ==
        LET below == Previous(a)
            sub == IF Sub[l] = <<>> THEN [n |-> a.n, out |-> NoImage]
                   ELSE RebuildChain(p, f, Sub[l], IF below = NoImage THEN NoLayer ELSE a.layer, a.n)
            imap == Chain(sub.n, below, Imap[l], TRUE)
            omap == Chain(imap.n, below, Omap[l], masked[l])
            in == IF Sub[l] = <<>> THEN InputImages(l, omap.n) ELSE <<sub.out>>
            image == Build(l, level[p], in, imap.out)
        IN Result(a, l, omap.n, image, Blend(l, below, image, omap.out))
      Layer(a, l) ==
        IF ~enabled[l] THEN a
        ELSE IF ~Reuses(l, p, f, a.n) THEN BuildLayer(a, l)
        ELSE IF f.bmodified[l] THEN Reblend(a, l)
        ELSE Result(a, l, a.n, a.n[l].image, a.n[l].blended)
  IN FoldLeft(Layer, [n |-> nodes0, out |-> NoImage, layer |-> previous_layer,
                      previous |-> NoImage], list)

-----------------------------------------------------------------------------
(* Image::do_update *)

\* The pipelines of "target" are rebuilt, and all flags of all layers cleared.
DoUpdate(target) ==
  LET f == UpdateDirty(Top, FALSE, [modified |-> modified, bmodified |-> bmodified,
                                    dirty |-> dirty]).f
      new == [p \in target |-> RebuildChain(p, f, Top, NoLayer, nodes[p])]
  IN /\ nodes' = [p \in Pipelines |-> IF p \in target THEN new[p].n ELSE nodes[p]]
     /\ output' = [p \in Pipelines |-> IF p \in target THEN new[p].out ELSE output[p]]
     /\ force_rebuild' = [p \in Pipelines |-> force_rebuild[p] /\ p \notin target]
     /\ modified' = [l \in Layers |-> FALSE]
     /\ bmodified' = [l \in Layers |-> FALSE]
     /\ dirty' = [l \in Layers |-> FALSE]
     /\ UNCHANGED <<edited, level>>

\* IMAGE_REBUILD of all pipelines, once some edit has asked for it.
Rebuild == ~settled /\ DoUpdate(Pipelines) /\ settled' = TRUE

\* Image::update( pipeline ): only that one.
RebuildOne(p) == p \in Targets /\ DoUpdate({p}) /\ UNCHANGED settled

-----------------------------------------------------------------------------
(* The edits of the GUI; each is followed by image->update() *)

Edit == settled' = FALSE /\ UNCHANGED built

\* PFWidget::changed, on a control of the operation or of the blender.
Set(l, v) ==
  /\ l \in CanSet /\ Edit /\ setting[l] # v
  /\ setting' = [setting EXCEPT ![l] = v]
  /\ modified' = [modified EXCEPT ![l] = TRUE]
  /\ UNCHANGED <<enabled, opacity, masked, inputs, bmodified, dirty, level, force_rebuild>>
SetOpacity(l, v) ==
  /\ l \in CanBlend /\ Edit /\ opacity[l] # v
  /\ opacity' = [opacity EXCEPT ![l] = v]
  /\ bmodified' = [bmodified EXCEPT ![l] = TRUE]
  /\ UNCHANGED <<enabled, setting, masked, inputs, modified, dirty, level, force_rebuild>>

\* enable_masks, disable_masks
ToggleMasks(l) ==
  /\ l \in CanMask /\ Edit
  /\ masked' = [masked EXCEPT ![l] = ~@]
  /\ bmodified' = [bmodified EXCEPT ![l] = TRUE]
  /\ dirty' = [dirty EXCEPT ![l] = TRUE]
  /\ UNCHANGED <<enabled, setting, opacity, inputs, modified, level, force_rebuild>>

\* show_layer, hide_layer
Toggle(l) ==
  /\ l \in CanHide /\ Edit
  /\ enabled' = [enabled EXCEPT ![l] = ~@]
  /\ modified' = [modified EXCEPT ![l] = TRUE]
  /\ dirty' = [dirty EXCEPT ![l] = TRUE]
  /\ UNCHANGED <<setting, opacity, masked, inputs, bmodified, level, force_rebuild>>

\* LayerList::changed, for the first input.
SetInput(l, x) ==
  /\ x \in Choosable[l] /\ Edit /\ FirstInput(l) # x
  /\ inputs' = [inputs EXCEPT ![l] = <<x>> \o SubSeq(@, 2, Len(@))]
  /\ dirty' = [dirty EXCEPT ![l] = TRUE]
  /\ UNCHANGED <<enabled, setting, opacity, masked, modified, bmodified, level, force_rebuild>>

\* Image::set_pipeline_level, handled before the rebuild that follows it.
Zoom(p, v) ==
  /\ Edit /\ level[p] # v
  /\ level' = [level EXCEPT ![p] = v]
  /\ force_rebuild' = [force_rebuild EXCEPT ![p] = TRUE]
  /\ UNCHANGED <<edited, flags>>

\* The image has just been opened and built.
Init ==
  /\ enabled = [l \in Layers |-> TRUE] /\ masked = [l \in Layers |-> TRUE]
  /\ setting = [l \in Layers |-> 0] /\ opacity = [l \in Layers |-> 0]
  /\ inputs = Inputs
  /\ modified = [l \in Layers |-> FALSE] /\ bmodified = [l \in Layers |-> FALSE]
  /\ dirty = [l \in Layers |-> FALSE]
  /\ level = [p \in Pipelines |-> 0] /\ force_rebuild = [p \in Pipelines |-> FALSE]
  /\ LET f == [modified |-> modified, bmodified |-> bmodified, dirty |-> dirty]
         none == [l \in Layers |-> [image |-> NoImage, blended |-> NoImage]]
         new == [p \in Pipelines |-> RebuildChain(p, f, Top, NoLayer, none)]
     IN /\ nodes = [p \in Pipelines |-> new[p].n]
        /\ output = [p \in Pipelines |-> new[p].out]
  /\ settled = TRUE

Next ==
  \/ Rebuild
  \/ \E p \in Pipelines : RebuildOne(p) \/ \E v \in Levels : Zoom(p, v)
  \/ \E l \in Layers :
       \/ ToggleMasks(l) \/ Toggle(l)
       \/ \E v \in Settings : Set(l, v) \/ SetOpacity(l, v)
       \/ \E x \in Layers \cup {NoLayer} : SetInput(l, x)

Spec == Init /\ [][Next]_vars

-----------------------------------------------------------------------------
(* What the layers mean, without flags or nodes *)

\* The layer whose result l is laid upon.
RECURSIVE Under(_)
Under(l) ==
  LET c == Container(l)
      here == SelectSeq(Before(l, IF c = NoLayer THEN Top
                                  ELSE CHOOSE s \in {Sub[c], Imap[c], Omap[c]} : l \in ToSet(s)),
                        LAMBDA x : enabled[x])
  IN IF here # <<>> THEN Last(here)
     ELSE IF c # NoLayer /\ l \in ToSet(Sub[c]) THEN Under(c)
     ELSE NoLayer

\* The picture of a layer blended with what is under it, and of a list of layers,
\* at level v.
RECURSIVE Picture(_, _)
PictureOf(list, v) ==
  LET shown == SelectSeq(list, LAMBDA x : enabled[x])
  IN IF shown = <<>> THEN NoImage ELSE Picture(Last(shown), v)
Picture(l, v) ==
  LET under == Under(l)
      Shown(x) == IF x # NoLayer /\ Visible(x) THEN Picture(x, v) ELSE NoImage
      in == IF Sub[l] # <<>> THEN <<PictureOf(Sub[l], v)>>
            ELSE [k \in DOMAIN Given(l) |-> Shown(Given(l)[k])]
      Mask(list) == IF under = NoLayer THEN NoImage ELSE PictureOf(list, v)
  IN Blend(l, IF under = NoLayer THEN NoImage ELSE Picture(under, v),
           Build(l, v, in, Mask(Imap[l])),
           IF masked[l] THEN Mask(Omap[l]) ELSE NoImage)

-----------------------------------------------------------------------------
(* Properties *)

\* Once every edit has been followed by a rebuild, what each pipeline shows is the
\* picture of the layers as they are now: "we mark the operations as "modified" if
\* their input data has changed, so that they will be re-built" (update_dirty), and
\* rebuild_chain reuses nothing else.
UpToDate == settled => \A p \in Pipelines : output[p] = PictureOf(Top, level[p])

\* Whatever was edited, with whatever flags: the rebuild that a change of the level
\* forces (Pipeline::set_level, get_force_rebuild in rebuild_chain) shows the picture
\* of the layers as they are.
ForcedIsUpToDate ==
  [][\A p \in Pipelines : force_rebuild[p] /\ ~force_rebuild'[p]
                           => output'[p] = PictureOf(Top, level[p])]_vars
=============================================================================
