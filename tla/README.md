# A verification model of PhotoFlow

PhotoFlow is a non-destructive, layer-based photo editor. A GUI thread changes
the layers of an image and asks, through a queue of requests, an
image-processing thread to rebuild the VIPS pipelines of the image and to
redraw what is on screen. This directory holds TLA+ modules written from the
C++ source, the TLC configurations that check them on small instances, and
theorems checked by TLAPS. Paths below are relative to the repository
(`src/base/...` is PhotoFlow's own `src` directory); `PROJECT.json` gives, for
every definition, the lines it stands for.

## 1. The parts of the system

| Part | State it keeps | Operations | Interaction |
|---|---|---|---|
| Request queue and processor thread (`src/base/imageprocessor.cc`, `condition.hh`) | `requests` (a GAsyncQueue), `temp_queue`, `optimized_requests`, `processing_completed`, `caching_completed` | `submit_request`, `optimize_requests`, `run`, `remove_image_from_queue`, `wait_for_processing_completed`, `wait_for_caching`, `join` | every GUI operation submits to it; it calls the image, its pipelines and their sinks |
| Image (`src/base/image.cc`) | the lock `image_mutex`, one flag per condition (`rebuild_cond`, `remove_layer_cond`, `export_cond`), pipelines, `disable_update`, `force_synced_update` | `update`/`do_update`, `set_pipeline_level`, `remove_layer`/`do_remove_layer`, `export_merged`, `sample`, `destroy`, `open`, `save` | first half on the GUI thread, `do_` half on the processor |
| Layer manager and layers (`layermanager.cc`, `layer.cc`) | the tree of layers, ids, inputs, `dirty`, `modified`, `cached` and `visible` flags | `rebuild_prepare`, `rebuild`, `rebuild_finalize`, `update_visible`, `update_dirty`, `rebuild_chain`, `insert_layer`, `remove_layer` | called by `do_update` under the image lock; edited by the GUI, often without it |
| Pipelines (`pipeline.cc`) | nodes (images and blended images by layer id), level, sinks, output | `set_image`, `set_blended`, `set_level`, `update`, `sink`, `remove_node` | owned by the image; sinks are displays |
| PF file loader, presets (`pf_file_loader.cc`) | a stack of layer lists, the offset of the ids | `start_element`, `end_element`, `load_pf_image`, `insert_pf_preset` | builds layers through the manager |
| Display (`src/gui/imagearea.cc`, `doublebuffer.cc`) | two buffers of pixels, the area being drawn, a pending repaint | `on_draw`, `process_start`, `process_area`, `process_end`, `draw_area`, `update` | `on_draw` on the GUI thread submits the requests whose handlers are the `process_` functions |
| Image pyramid, cache buffers (`imagepyramid.cc`, `cachebuffer.cc`) | levels with files and images; a buffer filled step by step | `init`, `update`, `get_level`, `step`, `write` | used by raster-drawing operations and by layer caching |
| Editor, layer widget, operation dialogs (`src/gui`) | the selected layer, controls, zoom | open, edit, preview, zoom, drag and drop, remove, spot white balance, close | each is a short sequence of calls on the image |
| Main program (`src/main.cc`) | windows | start-up, event loop, end | sends `PROCESSOR_END`, joins |
| Batch mode (`pfbatch.cc`, `photoflow_run_batch.cc`) | none of its own | load, apply presets, export | one thread; bypasses the queue |
| Undo copies (`image_hierarchy.cc`) | the VIPS image graph | `image_hierarchy_fill`, `image_hierarchy_copy` | used by the display update |
| Operations, blenders, colour code (`src/operations`, `src/base/*.hh`) | parameters | `build`, pixel loops | called by `rebuild_chain` |
| Screen sink (`src/vips/sinkscreen_pf.c`) | for each display image a `Render`: tiles, dirty list, semaphores, reference count; the list of dirty renders | `vips_sink_screen2`, `image_fill`, `pfrender_thread_main`, `render_allocate`, `render_work` | `process_area` fills through it; a background thread and a pool of workers paint |
| Tile caches (`src/vips/tilecache_pf.c`) | a pool of tiles shared by all caches, a table for each cache | `phf_tile_cache_gen`, `phf_tile_cache_ref`, `phf_tile_find`, `phf_tile_cache_unref` | called by the workers wherever a cache stands in a pipeline |
| Other VIPS extensions and vendored code (`src/vips`, `src/external`, `src/rt`) | regions | image filters | called through VIPS |
| Plug-ins for GIMP, help, packaging | - | input and output | - |

What is hard here is the traffic between the two threads: coalescing of
requests that are still queued, conditions that are plain flags with a single
bit of memory, a "processing completed" flag written by both threads, an image
lock that some edits take and others do not, and an image that is destroyed by
one thread while the other serves its requests. Below them, pixels are computed
by pools of threads that share tiles, with locks, counters and semaphores of
their own. What makes each part correct:

* queue: nothing is lost but by coalescing, order is kept, what is dropped is
  replaced, waits return for their own request, the program can end;
* image and layer manager: every edit is in some later rebuild of every
  pipeline, and the flags that say so are not cleared by a rebuild that has not
  seen it;
* layer rendering: after a rebuild every visible layer is built from what is
  now below it;
* layer tree: ids stay unique, inputs refer to layers that exist, a move loses
  no layer;
* display: what is shown is a complete buffer, and the last rebuild is shown in
  the end;
* sink and caches: each tile is computed by one thread, reaches everybody who
  waits for it, and is not taken away while it is in use;
* pyramid, nodes: each level is built from the current one below it; each
  reference is given back once.

`PROJECT.json` lists the hazards at their lines, with the property that covers
each one or the reason why none does yet.

## 2. Plan

In the order of importance.

| Module | Subject | State of it |
|---|---|---|
| `ImageProcessor`; `ImageProcessorProofs`, `QueueProofs`, `WaitsProofs` | the queue, the two threads, lock, conditions, closing and quitting | done, safety proved |
| `LayerChain` | `update_visible`, `update_dirty` and `rebuild_chain` over a tree of layers, against the picture the layers stand for | done (TLC only: it is recursive) |
| `RebuildSteps`, implementing `ShownEdits`; `RebuildStepsProofs` | a rebuild step by step against the edits of the GUI | done, refinement proved |
| `Display`; `DisplayProofs` | the two buffers of `ImageArea`, the drawing and the display update | done, safety proved |
| `SinkScreen`; `SinkScreenProofs` | a fill of an area by background thread and workers | done, safety proved |
| `TileCache`, implementing `TileReader`; `TileCacheProofs` | the pool of tiles under its callers | done, safety and refinement proved |
| `LayerTree` | insert, move and remove of layers, inputs and ids, loading of presets | later |
| `ImagePyramid`, `NodeRefs`, `ImageHierarchy` | small algorithms, against reference definitions | later |

How they fit together: `ImageProcessor` orders the requests and takes the work
of a handler as one step. Three modules take such a step apart. `RebuildSteps`
does so with `IMAGE_REBUILD`, and its refinement of `ShownEdits` is what allows
`LayerChain` to have a rebuild as one step for edits made under the lock.
`Display` does so with the `REDRAW` requests and the update of a display; it
relies on the order of the requests (`InOrder`) and on a fill that is complete
(`FillIsWhole` of `SinkScreen`). The workers of `SinkScreen` compute their tiles
through `TileCache`, of which `TileReader` is all that a caller sees.

Each theorem is about one module. What is not proved: `UpToDate` and
`ForcedIsUpToDate` of `LayerChain` (its operators are recursive), whatever is
liveness, and the hypotheses of section 9 where one module could discharge that
of another.

## 3. ImageProcessor

**State.** A request is known by its number, and `reqs[k]` is the
`ProcessRequestInfo` of the k-th one. `queue`, `temp` and `batch` are
`requests`, `temp_queue` and `optimized_requests` as sequences of numbers,
`cur` the request being handled, `handled` a history of those handled.
`completed` is `processing_completed`, `signaled[c][i]` the flag inside the
condition `c` of image `i`, `mutex[i]` the holder of its lock. `fresh` and
`alive` say which images have been opened and not yet destroyed.

A request keeps the two image pointers that matter: `image` is the field
`request.image`, which submitters of `REDRAW_START`, `REDRAW_END` and
`PROCESSOR_END` never set (it is then any value of `Garbage`), and `owner` is
the image that owns the pipeline or sink the handler really dereferences.

**Processor thread.** `pc` follows `run` and `optimize_requests`:
`PopFirst`, `QueueLength`, `PopMore` (the length is read once and then popped
that many times, each pop blocking), `Scan` (one turn of the reverse walk, with
`rebuild_found` and `push_front`), `Dequeue`, `LockImage`, `HandleLocked`, `UnlockImage`,
`SignalExport`, `HandleUnlocked`, `EndBatch`. The work of a handler on layers
and pixels is one step; what it signals, and whether that comes before or after
the unlock, is as in the code: `do_update` and `remove_layer_signal` signal
with the lock held, `export_done_signal` comes after it.

**GUI thread.** Each user operation is a program, a sequence of instructions
`clear`, `push`, `reset`, `wait`, `lock`, `unlock`, `sample`, `settle`,
`length`, `drain`, `destroy`, `join`; `todo` is what is left of it, and each
instruction is an action, so that the processor may step between any two.
`submit_request` is two instructions (`processing_completed` is cleared first,
the push comes after), `update( pipe, true )` is reset, submit, wait, and
`ImageEditor::dispose` is settle (`wait_for_processing_completed`), length,
drain, destroy. An operation starts from the event loop (`todo = <<>>`), on an
image that is open, in any order; `Quit` is the end of `main`, once every
image is closed.

**What is abstracted.** Layers, pixels and parameters; the second and third fields
of a condition (its mutex and its GCond: `wait` returns exactly when the flag is
set, and clears it). `IMAGE_SAMPLE`, `IMAGE_DESTROY` and `OBJECT_UNREF` have
handlers or names but no caller (`sample` and `destroy` are guarded by `true ||`),
so no operation submits them. Nor does anything submit `IMAGE_UPDATE`:
`DrawConfigGUI::draw_point` returns before it would (`draw_config.cc:319`), so do
the handlers of the clone tool (`clone_stamp_config.cc:261`, `:306`), and
`ImageArea::sink` returns at once. The part of `optimize_requests` that merges its
area into the last request of a batch (`imageprocessor.cc:164-173`) is therefore not
modelled, and requests have no area. `caching_completed` is left out: only
`export_merged_to_mem` waits for it. One pipeline level is as good as another.

`Patient = TRUE` restricts a run to operations that start when the processor is
asleep, except `Close`: it isolates what closing alone can do.

### The properties

* `TypeOK`: types, and the loops of `optimize_requests` have something to walk.
* `InOrder`: requests are handled in the order of submission, none twice, and
  nothing that still waits has been overtaken.
* `OnlyCoalesced`: a request vanishes only when it is a `REBUILD` and a later
  `REBUILD` was kept, with no `EXPORT` and no `REMOVE_LAYER` submitted between the
  two: what is exported has been rebuilt first. `optimize_requests` does not see to
  that, it drops a rebuild over whatever stands between. That nothing of the kind
  does is the merit of `export_merged` and `remove_layer`, which do not come back
  before they are served, so that no rebuild can be submitted behind them; the
  mutant is an export that is not waited for.
* `RebuildStillComes`: what replaces a rebuild does its work: it is a rebuild of
  the same image and pipeline.
* `WaitsAreExact`: when a wait returns, nothing submitted is still pending.
* `NoUseAfterDestroy`: the processor never works for a destroyed image.
* `QueueForgets`: once an image is closed, no request in the queue names it, those
  apart whose `image` was never set. The loop of `remove_image_from_queue` counts the
  queue once and goes round it while the processor takes requests from it too: it
  must not come to its end before it has seen all that were there.
* `NoLostWakeup`: no thread sleeps with nobody left to wake it. A pop in the
  middle of a batch finds a request; whatever condition the GUI thread waits for,
  a request that signals it has still to be handled; when it waits for
  `processing_completed` the processor has still a batch to end, and when it joins
  the thread `PROCESSOR_END` is still to come; and it sleeps with no image locked.
* `GuiComesBack`, `RequestsSettle`, `ProcessorStops`: no wait of the GUI thread
  lasts for ever, every request is served or replaced, `main` can end.

`NoLostWakeup` is the safety half of the last three, what a fair scheduler does not
give. It is stated because it can be proved for any number of requests
(section 9), and liveness cannot.

### The runs

`MCImageProcessor` names the model values and the sets of operations.

| Run | Instance | Shows |
|---|---|---|
| `exact` | 2 images, 1 pipeline, 5 requests; update, locked update, zoom, move, remove, export, redraw | `TypeOK`, `InOrder`, `OnlyCoalesced`, `WaitsAreExact` hold |
| `progress` | 1 image, 1 pipeline, 4 requests, every operation but close | `NoLostWakeup` holds, and `GuiComesBack`, `RequestsSettle` under fairness |
| `patient_close` | 2 images, 1 pipeline, 4 requests, one-request operations and close, `Patient` | `NoUseAfterDestroy`, `NoLostWakeup`, `ProcessorStops` hold |
| `close_any` | 2 images, 5 requests, update, redraw, close at any time, `request.image` unset or pointing to the other image | `QueueForgets` holds |
| `rebuild_dropped` | 2 images, 2 pipelines, updates | `RebuildStillComes` is violated: `optimize_requests` compares neither image nor pipeline |

What the code does that its comments do not say:

* `imageprocessor.cc:129` announces the removal of *redundant* requests. Two
  editors open side by side, or an edit followed by the update of one pipeline,
  lose a rebuild that is not redundant (`rebuild_dropped`, a finding).
  `OnlyCoalesced` allows that: it asks for a later rebuild, of any image. With one
  image, and rebuilds of all its pipelines only, that is enough.
* `image.cc:356` says a sync update leaves the image locked. The calls that did
  so are commented out, so that a rebuild may come between a sync update and the
  sample of the spot white balance.
* `rebuild_cond` is one flag for all rebuilds of an image. With
  `Ops <- WorkOps` in `MC_exact.cfg`, TLC finds `WaitsAreExact` violated: an
  image is opened, a sync update resets the condition, the rebuild of the opening
  ends and signals, the sync update submits its own and its wait returns at once.
* `imageeditor.cc:833` says images need to be destroyed by the processing
  thread. `Image::destroy` runs on the GUI thread (`if( true || ...`), behind a
  wait that does not exclude the processor. With `Ops <- CloseOps` and
  `Patient = FALSE` in `MC_patient_close.cfg`, TLC finds `NoUseAfterDestroy`
  violated: a batch has been handled, the GUI submits (flag cleared), the batch
  ends (flag set, the new request still queued), the GUI closes the image, and
  the wait returns although the processor still has that request to serve.
* The same instance violates `NoLostWakeup`: `optimize_requests` reads the length
  of the queue (`imageprocessor.cc:143`), `remove_image_from_queue` takes out what
  was counted, and the processor sleeps in `g_async_queue_pop` with requests in
  hand that it does not serve until somebody submits another.
* `remove_image_from_queue` pushes back what it keeps while the processor pops, so
  the other images' requests change their order, and when the processor empties the
  queue first the GUI thread sleeps in the pop of its loop. Nothing in the
  repository claims otherwise, and no run states it; `InOrder` is checked and proved
  without `Close`. What the loop deletes besides, the requests whose `image` happens
  to hold the pointer of the closed image, is a matter of what was in memory.

**Bounds.** `MaxSubmit` bounds the requests of a behaviour, `PROCESSOR_END`
excepted. A batch can hold all of them, so four or five requests give batches with a
rebuild that is dropped, one that is kept, and requests of other kinds before,
between and after; three are enough for the shortest of them (dropped, kept, and one
in between). Two images tell "mine" from "another"; one pipeline and `NoPipe` tell a
rebuild of one from a rebuild of all. `close_any` has no pipelines, since its
requests are told apart by image. `exact` takes the two images as symmetric
(`Swaps`): its properties are invariants and an action property, and no operation
tells one image from the other. The other runs use no symmetry: they are small, or
check liveness.

**Deadlock** is checked in every run. `Rest` lets the system stay where it is
when the processor sleeps in `g_async_queue_pop` or has ended, since the user
may do nothing; a cycle of locks has no such step and would be reported. That
the GUI thread is not asleep as well is `GuiComesBack`.

**Fairness.** Weak fairness of each thread: the operating system runs both, and
neither has a step that is only sometimes enabled while it waits (a condition
that is set stays set until its one waiter clears it; a lock is contended by
two threads, one of which asks for it at most once per operation). Nothing
is assumed of the user.

## 4. LayerChain

A rebuild does not build everything again: `rebuild_chain` keeps the image of a
layer whose parameters are not flagged as modified, and `update_dirty` is there
to flag every layer whose inputs have changed. `LayerChain` asks whether it
does.

**State.** `enabled`, `setting`, `opacity`, `masked` and `inputs` are what the
user edits in a layer; `modified`, `bmodified` and `dirty` are the flags of its
parameters, of its blender's and of the layer. Each pipeline has its `level`,
`force_rebuild`, an `output` and a node for each layer (`image`, `blended`).
`settled` is a history variable: every edit so far has been followed by a
rebuild of all pipelines. The tree (`Top`, `Sub`, `Imap`, `Omap`) is constant.

**Images are recipes.** An image is the record of the layer, setting and level
it was built with and of the images it was given; a blended image is the record
of what is below, on top and masking. Two images are equal when the same chain
of operations makes them, so that a stale image is one with an old setting or
an old image somewhere inside.

**Actions.** `DoUpdate` is `Image::do_update`: `update_visible` (`Visible`),
`update_dirty` (`UpdateDirty`, recursive like the code, with the two booleans
that travel through it), `rebuild_chain` (`RebuildChain`, with the three ways a
layer can go: kept, blended again, built again), and the clearing of all flags
of all layers in `rebuild_finalize`. `Rebuild` is the call for all pipelines,
`RebuildOne` the call for one. The edits `Set`, `SetOpacity`, `ToggleMasks`,
`Toggle`, `SetInput` and `Zoom` change what their handlers change and set the
flags they set, no more. A rebuild is one step: what edits can do in the middle
of it is the matter of `RebuildSteps`.

**The reference.** `Picture` says what a layer looks like from the edited state
alone: what it is laid upon (`Under`), its inputs, its sublayers, its masks. It
uses no flag and no node. It shares with the rebuild only the choice of the
input layers (`Given`, `DefaultInput`).

**What is abstracted.** `has_opacity()` is always true, the intensity map is
never switched off, every colour space is accepted, operations have one output
and never fail, and they keep the level they are asked for. The lazy evaluation
of VIPS is not modelled: an operation that reads its parameters while its
pixels are computed may show a new setting in an image that was kept. The
traces reported below do not hinge on it, they change the images an operation
is connected to.

| Run | Instance | Shows |
|---|---|---|
| `chain_tree` | a background, a group of one layer, a layer with a mask made from the group, 2 settings, 2 levels; settings, opacity, hiding of the sublayer, zoom | `UpToDate` holds |
| `chain_any` | the same tree, its mask with the default input; hiding of the group, new inputs, masks on and off, rebuilds of one pipeline, zoom | `ForcedIsUpToDate` holds: zooming repairs what the flags have missed |

`UpToDate`: once settled, every output is the picture of the layers as they
are. `ForcedIsUpToDate`: a rebuild with `force_rebuild` gives that picture,
whatever has been edited before it.

`chain_tree` keeps to the edits for which the flags are enough. Each of these
changes of one or two constants in `MC_chain_tree.cfg` makes TLC find another way to
a stale image:

* `CanHide = {bg, group}` (with `CanSet = {}`): `rebuild_chain` skips what is
  inside a hidden group, `rebuild_finalize` clears its flags, and showing the
  group flags the group alone. Hide the group, hide the background, rebuild, show
  the group, and its sublayer still contains the background.
* `Inputs <- NoLists`: the mask takes what its layer is laid upon; `update_dirty`
  starts the list of masks with FALSE, so the mask is kept when that changes.
* `CanMask = {op}`: a mask that is switched off is not rebuilt; after a zoom, or
  an edit of the mask, it is switched on with its old image.
* `Choosable <- OpChoices`: `LayerList::changed` sets only the dirty flag of the
  layer, which `rebuild_chain` does not look at.
* `Targets = {p0}` with two pipelines: a rebuild of one pipeline clears the flags
  for both.

**Bounds.** Settings and levels have two values: the old one and the new one.
No counter is bounded, the state space is finite. Three and five layers give
every pair of relations that the code distinguishes (below, input, sublayer,
mask) with one more layer above or under it to pass a change on. Deadlock is
checked; there is always an edit. No property is a liveness property, so no
fairness is assumed.

## 5. RebuildSteps

`LayerChain` takes a rebuild as one step. It is not: the processor walks over
the layers three times, holding the lock of the image, while the GUI thread goes
on, and most of the controls edit without that lock. `RebuildSteps` is about
what the two may do to each other, for a list of layers.

**State.** `setting[l]` is the property a control sets, `property[l]` and
`modified[l]` are the flags of the property and of the operation, `requested`
says that an `IMAGE_REBUILD` is queued, `mutex` who holds `image_mutex`. The
processor has a cursor (`pc`, `at`, `pipe`), the local `dirty`, the settings
`imported` by the operation of a node, the image `out` made so far, and each
pipeline its nodes and its output. An image is the function that says with which
setting each layer is in it.

**GUI thread.** `Edit` begins, then come `Flag` and `Assign` in either order, then
`Ask`. `Property::set` and `set_enum_value` raise the flags before they assign
(`property.hh:341`); the controls go through `PropertyBase::update` to `from_stream`,
which assigns first (`property.hh:348`). A layer in `Locked` is edited as in
`OperationConfigGUI::enable_preview`, between `LockGui` and `UnlockGui`, and
always asks for an update; the others as in `PFWidget::changed`, which asks only
if the property still says that it is modified.

**Processor.** `Take`, `LockImage`; `Prepare`, one layer of `update_dirty` a
step; for each pipeline and layer `Import` (`Pipeline::set_node`) and `Build`
(the test of the flag, and the image, the node's or a new one, made from the node
of the layer below, which is what `get_default_input_layer` finds); `Output`;
`Finalize`, one layer of `reset_layers_dirty_flag` a step; `UnlockImage`. An
operation in `Fails` gives no image for some setting: the layer is passed over
and its node keeps what it had, for the layer above to build on.

**The abstract specification** `ShownEdits` has the settings and what is shown,
and shows all settings in all pipelines in one step. `RebuildsAreAtomic` says
that `RebuildSteps` implements it for the layers edited under the lock, where
"shown" is the output of before until `rebuild_done` is signaled: a locked edit
is never half in a rebuild, in one pipeline and not in another, or built with
the flag of one moment and the value of the next. `LockedEditsShow` is its other
half: what is edited under the lock comes to be shown. `AtRestIsShown` says the
same without time: when both threads are at rest and no rebuild is asked for,
every pipeline shows the layers edited under the lock as they are set. If a
rebuild did not wait for the lock, an edit before the layer's turn in
`reset_layers_dirty_flag` would lose its flag and break it.

| Run | Instance | Shows |
|---|---|---|
| `rebuild_steps` | 3 layers, 2 pipelines, 2 settings, 4 edits; the source at the bottom is edited without the lock and fails for one setting | `TypeOK`, `AtRestIsShown`, `RebuildsAreAtomic`, `LockedEditsShow` hold |
| `edit_lost` | 2 layers, 1 pipeline, 2 edits, nobody takes the lock | `EditsShow` is violated |

`edit_lost` is a finding. The settings of a layer are imported, the user moves its
control (flag raised and value assigned, in either order), `rebuild_finalize` clears
the flag: `PFWidget::changed` finds the property unmodified and does not even ask
for an update. When it asks before the flag is cleared, the rebuild that follows
finds nothing modified and reuses the node. Either way both threads come to rest
with the old setting on the screen. The two calls that would lock are in the code,
as comments (`pfwidget.cc:86` and `:89`).

With a failing layer above another one, an old image can be shown: the layer
below is edited, the one above fails to build with its own setting at that
moment, its node keeps an image made from the old layer below, and when the
setting is taken back under a rebuild that finds it unmodified, that image is
reused (`layermanager.cc:1634`). In the run the failing layer is the one at the
bottom, where there is nothing below to be old.

**Bounds.** Two settings are the old and the new value. Three layers give one
below and one above the edited one, two pipelines the first and a later one.
Four edits allow two in one rebuild and two in the next. **Fairness**: weak, of
each thread; the processor's wait for the lock ends since the GUI thread's
critical section does. Only the user is free to stop.

## 6. Display

**State.** `image` numbers the display images that `ImageArea::update` makes,
`Sizes` gives their widths; `buf` are the two `PixelBuffer`s with `rect`,
`dirty` and pixels, `active` is `active_id`, `lock` the mutex of the
`DoubleBuffer`. A pixel is the number of the display image it shows, 0 for what
nobody has painted. `queue` has the requests of the processor. Of Gtk there is
what it does to this code: `view` is what the scrolled window shows, `damage`
what it will ask `on_draw` for, `screen` what is on the screen; the two
dispatchers `signal_set_size` and `signal_queue_draw` are flags, since several
emissions before the GUI thread comes to them have the effect of one.

**Actions.** GUI thread: `OnDraw` and `Paint` (`on_draw` under the lock, up to
the decision whether it has all it needs), `SubmitStart`, `SubmitArea` (cut to
the display image, whose size it reads without a lock), `SubmitEnd`,
`SetSizeCb`, `QueueDraw`, `Scroll` by the user, `AskUpdate` for any edit.
Processor: `ProcessStart` (resize the inactive buffer and copy the active one
into it), `ProcessArea`, `ProcessEnd` (swap under the lock), and `update` in
three steps, `Release`, `Renew` and `Mark`, or one when it has nothing to
display. Two error paths are left out. `process_area` returns when
`vips_region_prepare` fails (`imagearea.cc:497`), which it does not for the image of
a screen sink, whose `image_fill` always gives 0. `update` returns in the middle when
VIPS cannot make one of the images it chains together (`imagearea.cc:1195`, `:1441`,
`:1447`, `:1507`): the display image is then the one given back, and the buffers
are not marked.

**Properties.** `CleanIsNew`: a buffer that counts as clean, and for which
`on_draw` therefore asks for nothing, has the newest display image all over.
`FrameHolds`: what the GUI thread copies does not change meanwhile; this is what
the comment above `process_start` claims. `NeverBack`: a position in view never
goes back to an older image. `ShowsInTheEnd`: left alone, the screen comes to
show the newest image. `AtRestIsNew`: whenever nobody has anything left to do
(no drawing, no request, no signal, no damage), it does show it.

`CleanIsNew`, `AtRestIsNew` and `ShowsInTheEnd` have an exception, the history
variable `lapse`: the last drawing was cut by `submit_area` to a display image that
is gone. This really happens, and there the comment in `process_start`, "The regions
that are not in common should be filled by the subsequent draw operations", is not
what the code does: (1) the user zooms in twice; between the two updates `on_draw`
submits START, a REDRAW cut to the first, smaller image, and END; the second update
marks both buffers dirty before these are served; END then declares the inactive
buffer clean although beyond the smaller size it has old pixels or none; `on_draw`
sees a clean buffer that is large enough and asks for nothing. (2) `on_draw` runs
between `PF_UNREF( display_image )` and `vips_image_new()` (`imagearea.cc:1190`,
`:1495`): the pointer still points to the image that was given back, or the new
image has no size yet; no REDRAW at all may be sent. The next scroll or edit repairs
the picture.

| Run | Instance | Shows |
|---|---|---|
| `display` | 3 positions, a window of 2 that scrolls twice, 2 display images, the second wider than the first | all six hold |

**Bounds.** The order of one redraw against two updates and two scrolls is what
matters; with a third, smaller image and one scroll (`Sizes` of widths 2, 3, 1)
TLC found no error either, in three minutes. **Fairness**: weak, of each thread.
The lock of the buffers is held for one step of the GUI thread.

## 7. SinkScreen

**State.** A `Render` for each display image, with its reference count, tiles
(place, `painted`, `invalid` of the region, `ticks`), dirty list and
`tile_done_sem`; `dirtyAll`, `dirtySem` and `reschedule` are `render_dirty_all`,
`render_dirty_sem` and `render_reschedule`. The processor is in `image_fill`
(`pcF`, `target`, `todo` the positions not asked for yet, `tilesAll`, `wait`),
the background thread in `pfrender_thread_main` (`pcB`, `current`), each worker
has a `job`.

**Actions.** `Fill`; the ways of `render_tile_request` (`RequestValid`,
`RequestInvalid`, `RequestNew`, and `RequestReuse` of the oldest painted or of a
dirty tile), for the positions of the area row by row (`Upcoming`), `RequestsEnd`,
`Down`, `Check`, `Copy`. The background thread: `Wake`; `Get`, `GetNone` or
`GetDying`; `Start`, `PoolEnd`, `PutBack`, `Unref`, `FreeCurrent`. The workers:
`AllocateStop` and `Allocate` (`render_allocate`), `Paint` and `Announce`
(`render_work`). From outside: `New`; `Close`, `Free` and `Jog`, the three parts of
`render_close_cb`; and `Invalidate`, which is what `vips_image_invalidate_all` in
`rebuild_chain` does to the tiles downstream. A reference is given back in two
critical sections, as in the code: `render_unref` counts down under `ref_count_lock`
(`Close`, `Unref`), then `render_free` takes the render off the list under
`render_dirty_lock` (`Free`, `FreeCurrent`). The lock of a render is held in one
place over several steps, the requests of `image_fill`: there the actions that need
it wait (`LockFree`). Which dirty tile and which dirty render is taken first (the
sorting by priority) is left open.

**Properties.** `FillIsWhole`: an area that fits into the tiles of a render is
complete when `image_fill` copies it out: the reuse of the oldest tile never takes
one of the same area, and a semaphore that counts tiles, not calls, does not let it
go early. A larger area takes its own tiles back and has holes. `NeverRefused`: also
for a larger one, `render_tile_request` finds a tile for every position, so that its
"no tiles to reuse" (`sinkscreen_pf.c:893-898`) is not reached: when none is painted
all are dirty, because the workers cannot take a tile off the dirty list while
`image_fill` holds the lock of the render. `PaintsAlone`: a tile being
painted is painted by one worker and stays where it is (the comment above
`render_tile_dirty_reuse` fears a "mis-paint"). `FillEnds`: `image_fill` returns,
whatever is closed meanwhile: no wake-up is lost between the list, the two
semaphores and `render_reschedule`. `FillIsFed` is the safety half of that: while
`image_fill` sleeps, a worker is on one of its tiles, or the tile is on the dirty
list of a render that the background thread has, or that is on the global list
with a raised semaphore. `FreedIsForgotten`: once `render_free` is through with a
render, neither thread has it and the global list is without it, whichever thread
gave the last reference back and however often it was put on the list before.

`FillEnds` and `FillIsFed` except that the background thread has ended (`Ended`). It
ends without having been asked to in two ways. First, `render_free` takes a closed
render from the list and leaves `render_dirty_sem` raised (its comment says so:
"We'd just wake up the bg thread for no reason"); `render_dirty_get` then finds the
list empty and returns NULL, which is what `pfrender_thread_main` takes for the end,
although only `render_kill` is there to "ask the render thread to quit".
`pfrender_thread_create` sees a thread that exists and makes no other, and the next
`image_fill` waits for ever. Removing `\/ Ended` from `FillEnds` makes TLC show it.
Second, `render_dirty_get` may find on the list a render whose last reference has
just been given back, between `sinkscreen_pf.c:277` and `:226`, and the assertion of
`render_ref` (`:261`) ends the program (`GetDying`). Such a render is still on the
list when one fill has put it there twice: the background thread takes the render at
the first of its dirty tiles, the second puts it back and raises the semaphore
again, both tiles are painted in the same run of the pool, and the background
thread, its own reference given back, wakes once more as the display image is
closed. With `pcB # "abort"` as an invariant TLC finds it in 25 states.

Another way to wait for ever is outside the constants of the run: a tile that was
invalidated and whose computation then fails is painted black and stays invalid,
while the loop waits for valid tiles (`Failing` and `Changing` with a render in
common).

| Run | Instance | Shows |
|---|---|---|
| `sink_fill` | 2 renders of 2 tiles, 3 positions, two areas of 2 and one of 3, 2 workers, 2 fills; one render is closed and fails, the other is invalidated | all seven hold |

**Bounds.** The second fill finds what the first has left: painted tiles, a raised
semaphore, a background thread that is about to stop, a render that is closed. With
three fills TLC found no safety property violated either (3.3 million states). The
area of 3 does not fit into the tiles of a render; `ImageArea::update` gives a
render "room for at most a 4k display" (`imagearea.cc:1500`), so this is a larger
window. **Fairness**: weak, of each thread and of the pool's decision to stop.

## 8. TileCache

**State.** A tile of the pool has an `owner` (the cache in whose table it is), a
place, a state, a reference count and `data`, which says of which cache and place
its pixels are. A call `f` of `phf_tile_cache_gen` is known by its thread and its
cache; it has a `pc`, the positions it still needs a tile for, its list of work
tiles, the tile in hand, and whether that failed. The lock of the pool is held
by the call that is finding, stealing or referencing; the lock of a cache by the
call that looks at its list.

**Actions.** `phf_tile_cache_ref`: `LockPool`, then for each place `FindTile`,
`TakeFree`, or `Recycle` and `Steal` (from any cache, under its lock), then `Ref`;
`Exhausted` is `g_assert( tile )`. The loop of `phf_tile_cache_gen`:
`LockCache`, `Paste`, `Calc` (PEND becomes CALC and the lock is given up),
`Compute` at the source or `Call` and `Return` for the cache upstream, `Finish`
(black if it failed, DATA, and the broadcast), `WaitTile`, `Leave`.

**The abstract specification** `TileReader`: calls that share nothing are given
each position of their area once and end when they have them all.
`ReadsDelivered` says that `TileCache` implements it: what a call has not been
given is `need` and the places of its work tiles, and if a tile were recycled
under it, that set would change by itself.

**Properties.** `OwnTiles`: a tile on a list is of that cache and place, and
shows what it should; no place twice. `RefsExact`: the reference count is the
number of lists. `OneComputes`: what is in state CALC is being computed by
exactly one call. `AbortsWhenFull`: the assertion fails only when all tiles are
in use, so none was lost. `SomeCallMoves`: calls never wait for one another in a
circle, through the lock of the pool, those of the caches, tiles that another
call computes and the calls they make upstream. `CallsEnd`: every call ends, also
after errors ("Don't return early, we'd deadlock").

| Run | Instance | Shows |
|---|---|---|
| `tile_pool` | 2 threads, a near cache computed from a far one, 3 positions, a pool of 3 tiles, areas of 0, 1 and 2 tiles, the far cache may fail | all eight hold |

**Bounds.** Three tiles for two threads and two caches: enough to go on, few enough
that tiles are recycled from the other cache, and that the pool can be exhausted.
Each thread asks once; its calls upstream follow from that. An empty area is among
them: `phf_tile_cache_ref` then gives the pool back at once. A cache is computed
from one cache upstream, a tile from one tile: an operation that reads several
images makes its calls one after the other, each like this one. Only the cache at
the source fails of itself in the run; in the code any operation may, and an error
is passed on in the same way from there. A cache is not upstream of itself, directly
or through others (`ChainAssumption`): pipelines of VIPS images have no cycles.
**Fairness**: weak, of each call. The mutexes are given to one waiter for a bounded
number of steps, and a waiter that is passed over waits for at most as many calls as
the bound allows.

Caches that are not persistent also drop their tiles when VIPS minimises the
image: `phf_block_cache_minimise` does so under the lock of the cache, not that
of the pool, so that a tile can vanish between `phf_tile_find` and the
reference. A version of the module with such an action violated `OwnTiles`. Only
the two dynamic range compressors make such caches.

## 9. What is proved

The theorems hold for any value of the constants that satisfies the named
assumptions of the module (TLC evaluates them in every run) and, where the
table has one, the hypothesis of the theorem. The hypothesis is not an
assumption of the module: the runs also check instances that do not satisfy it.

| Theorem | Module | States | Hypothesis |
|---|---|---|---|
| `TypeCorrect` | `ImageProcessorProofs` | `Spec => []TypeOK` | |
| `InOrderCorrect` | `ImageProcessorProofs` | `Spec => []InOrder` | `Close` is not among `Ops` |
| `OnlyCoalescedCorrect` | `WaitsProofs` | `Spec => []OnlyCoalesced` | `Close` is not among `Ops` |
| `QueueForgetsCorrect` | `QueueProofs` | `Spec => []QueueForgets` | |
| `WaitsAreExactCorrect` | `WaitsProofs` | `Spec => WaitsAreExact` | `Ops \subseteq ExactOperations` |
| `NoLostWakeupCorrect` | `WaitsProofs` | `Spec => []NoLostWakeup` | `Close` is not among `Ops` |
| `TypeCorrect` | `RebuildStepsProofs` | `Spec => []TypeOK` | |
| `RebuildsAreAtomicCorrect` | `RebuildStepsProofs` | `Spec => RebuildsAreAtomic`, the refinement of `ShownEdits` | `FailsBelow` |
| `AtRestIsShownCorrect` | `RebuildStepsProofs` | `Spec => []AtRestIsShown` | `FailsBelow` |
| `TypeCorrect`, `CleanIsNewCorrect`, `AtRestIsNewCorrect` | `DisplayProofs` | `Spec => []` of each invariant | |
| `FrameHoldsCorrect`, `NeverBackCorrect` | `DisplayProofs` | `Spec => FrameHolds`, `Spec => NeverBack` | |
| `TypeCorrect`, `PaintsAloneCorrect`, `FillIsWholeCorrect`, `NeverRefusedCorrect`, `FreedIsForgottenCorrect` | `SinkScreenProofs` | `Spec => []` of each invariant | |
| `FillIsFedCorrect` | `SinkScreenProofs` | `Spec => []FillIsFed` | `Apart` |
| `TypeCorrect`, `OwnTilesCorrect`, `RefsExactCorrect`, `OneComputesCorrect`, `AbortsWhenFullCorrect`, `SomeCallMovesCorrect` | `TileCacheProofs` | `Spec => []` of each invariant | |
| `ReadsDeliveredCorrect` | `TileCacheProofs` | `Spec => ReadsDelivered`, the refinement of `TileReader` | |

All are proved by an inductive invariant; an action property or a refinement
then follows step by step from it.

### ImageProcessor

* `TypeCorrect`: `TypeOK` is inductive as it stands: it says that `left > 0`
  while popping and that `temp` is not empty while scanning. The lemmas
  `SubmitType` ... `OperationBegins` type the programs of the operations;
  `PopType`, `ScanType`, `ProcessorType`, `GuiType` and `OperationType` treat
  the actions.
* `InOrderCorrect`: `InOrder` alone is not inductive: nothing in it says that a
  new request number is above all the others, nor where the request in hand
  stands. `OrderInv` adds that every number in a sequence has been submitted
  (`Submitted`), that the request in hand lies between what was handled and
  what is left, that `temp` is empty outside `optimize_requests` and `batch`
  while popping (`InHand`), and that the program of the GUI thread drains
  nothing. The lemmas `OrderOfTail`, `OrderOfAppend`, `OrderOfFront` and
  `OrderOfCons` say what the four operations on sequences do to the order.
  The hypothesis is needed: the drain loop takes requests from the front of the
  queue and pushes them back while the processor pops.
* `QueueForgetsCorrect` has no hypothesis: it must hold while a drain loop runs and
  the processor pops. `ForgetInv` says that a program that closes an image drains
  and then destroys it (`CloseOrder`), that no program submits a request of an image
  that is closed (`OpenPushes`), and how far the loop is (`Drained`): what stands
  behind the first `gleft` requests of the queue it has seen, and none of that is of
  the image. A pop by the processor shortens the queue from the front, so that
  `gleft`, which was counted once, can only be too large: the loop then goes round
  more often than it needs, never less.
* `WaitsAreExactCorrect`: `WaitsInv` says where the waits of a program stand
  (`WaitForm`); that the export or removal in flight is the last request sent, and
  its signal not given before it is handled (`Pending`); that these two signals
  are set only for a thread that waits for them, with everything handled
  (`Signals`), which is why it does no harm that `Image::export_merged` never
  resets its own; and the same for the wait for a rebuild, which stands behind
  another wait and a reset (`Rebuilds`). `Exported` says that only an export is
  signaled after the lock is released. `ExactOperations` leaves out `Close`, and
  `SyncUpdate` and `SpotWB`, for which TLC finds the early wait of section 3.
* `OnlyCoalescedCorrect` is built on `WaitsInv`: whatever stands in the queue behind
  an export or the removal of a layer would have been submitted while the GUI thread
  waits for it, so the export in flight is the last request of all (`Pending`), and
  nothing can be put off past it (`NothingBetween`). `CoalescedInv` adds that
  `rebuild_found` tells the truth about the batch (`Found`). A turn of the walk loses
  at most the request it has reached (`ScanLoses`), and what is in the batch already
  is never dropped later; a rebuild that stood for others passes them on to the one
  that replaces it (`CoalescedScan`). With `Close` the drain loop deletes requests as
  well.
* `NoLostWakeupCorrect`: the argument is that the GUI thread only ever sleeps on the
  last request sent. `Links` says so of the programs: a `wait` or a `join` comes
  right after the push of the request it waits for, and `clear` right before a push.
  The last request is at the end of whatever holds it (`Newest`), so that it is not
  replaced by a later one, and the reset that precedes it cannot wipe out its signal
  (`Awaits`). The processor lifts `processing_completed` before it goes to sleep and
  the flag is cleared only just before the push that wakes it (`Lifted`). The GUI
  thread sleeps with no lock since a program that takes one only sends a request
  before it gives it back (`LockForm`, `GuiLocked`). What `optimize_requests` has
  counted is in the queue (`Counted`), for which nobody else may take from it: that
  is the hypothesis, under which there is no drain loop (`NoDrain`). Section 3 has
  the behaviour without it. `WakeInv` was checked by TLC on the instance of
  `progress` first.

### RebuildSteps

`IInv` says what the lock protects: who holds it when (`Locks`), that a layer that
is flagged before it is changed stays flagged until then (`Flagged`), that a node
has the locked layers as they are set but for those that are flagged or, where the
value comes first, about to be (`NodesFollow`, `Unflagged`), that `update_dirty`
flags everything above (`Marked`), and how far the walk over pipelines and layers
has come (`PipelinesDone`, `LayersDone`, `AllDone`). The step that hands a pipeline
its output is then the step of `ShownEdits`, and every other one an edit or a
stutter.

`FailsBelow`, that the layers that may fail are below those edited under the lock,
is needed: a layer that fails keeps the image it had, with all below it as it was
then, and the layer above builds on that image (`layermanager.cc:1634`), so that an
edit below it is not shown by the rebuild that follows it (section 5). The source of
an image, which has nothing below it, is the layer that fails most easily. No
hypothesis limits what is edited without the lock.

`AtRestIsShown` needs two facts more: an output has the locked layers as they are
set but for those that are flagged or about to be, and at the end of a rebuild it
has them all (`OutputsFollow`); and a flag is never left behind with no rebuild that
will see it (`FlagsAwaited`): one is queued, or under way and has not passed the
layer, or the edit that raised the flag has still to ask for one.

### Display

`IInv` describes a drawing in the queue: a start, a part unless there is none,
and an end for the same area (`Drawn`), and the inactive buffer while the
processor is inside of one (`Opened`, `OpenedWell`): its rectangle is the area of
the end to come, and what the drawing has covered is new, or is not to be had
since the image shrank (`Good`). `CleanIsNew` needs all this, since the
buffer is called clean by the end of a drawing whose parts were chosen earlier,
by the GUI thread, from an image that may be gone. `NeverBack` needs that no
buffer is older than the screen (`ActiveNewer`, `OpenedNewer`). `UpdatesCounted`
bounds the images by the updates asked for, without which they would run out of
`Sizes`. `AtRestIsNew` follows from `Fresh`: as long as the window shows an old
pixel that is not damaged, something is on its way that will have it drawn (an
update under way, one of the two signals, or the end of a drawing). This holds
through `on_draw` only because a buffer that counts as clean is new (`CleanIsNew`),
and through the end of a drawing because that always emits `signal_queue_draw`.

### SinkScreen

`IInv` has the references of a render (`References`), that tiles are made in order
(`MadeInOrder`), that an unpainted tile belongs to the area being filled
(`Awaited`, `Listed`), that a tile is collected once (`Collected`), that what
is copied is ready (`Usable`), and what the workers have (`Jobs`). `PaintsAlone` and
the types need no more.

`FillIsWhole` also needs that, for an area that fits, the tiles collected and the
positions to be collected make up the area (`MakesUp`), and that what is collected has
been touched later than anything else (`Fresher`): so the oldest tile, which
`RequestReuse` takes, is never one of them. No hypothesis limits the areas: the
property itself is about those that fit.

`NeverRefused` comes from `Queued`: while the requests are made, an unpainted tile is
on the dirty list, since the workers need the lock that `image_fill` holds. Once all
tiles are made (`MadeInOrder`) one of them is painted or dirty, for an area of any
size.

`FreedIsForgotten` comes from `ListInv`: a render on the global list has a reference
left, or `render_free` is about to take it off (`Held`, `Dying`); one with dirty
tiles is on the list or with the background thread (`Scheduled`), and the semaphore
counts the list or more (`Counted`; "or more" because `render_free` does not lower
it, the first of the two ends of the thread in section 7). Nothing is on the list
again afterwards: it is put there by a thread that has a reference. `FillIsFed` adds
`FedInv`: a fill that waits has an unpainted tile, or an announcement to come
(`Told`), and an unpainted tile is on the dirty list or with a worker (`Carried`).
Its hypothesis `Apart` is that no render both fails and is invalidated: such a tile
is painted and stays invalid, the other way to wait for ever of section 7.

### TileCache

`IInv` has the properties themselves and the mutex of the pool (`PoolMutex`), that a
tile is free when no cache has it (`InCache`), that a tile to be computed is on the
list of a call that will (`Awaited`), and what a call has in hand at each point
(`InHand`, `NeedsMore`): above all that the tile it is about to take is still
`Recyclable` and that its cache has no tile for the place, since the lock of the
pool is held from the search to the reference. `RefsExact` needs the
cardinality theorems of the library: a tile is added to one list, or taken from
one. The refinement of `TileReader` uses `OwnTiles` and `NeedsMore`: what a call
delivers it had not delivered before, and it leaves with nothing needed.

`SomeCallMoves` needs that a call that waits has a tile on its list that is in state
CALC, since who finishes a tile wakes all who wait (`Waits`). If all calls
were blocked, take the cache nearest to the source among those that have a call
under way (there is one, since the chain has no cycle, `ChainAssumption`). None of its
calls has a call upstream, so none computes; none holds a lock; so all of them wait
for tiles in state CALC, which by `OneComputes` some call of the same cache is
computing (`NoCircle`).

### Only model-checked

* Liveness under fairness is out of the prover's reach: `GuiComesBack`,
  `RequestsSettle`, `ProcessorStops`, `LockedEditsShow`, `ShowsInTheEnd`,
  `FillEnds`, `CallsEnd`. What each has of safety is proved: that nobody sleeps for
  good (`NoLostWakeup`, `FillIsFed`), that calls do not block each other
  (`SomeCallMoves`), and that what comes to rest is right (`AtRestIsShown`,
  `AtRestIsNew`). What remains for TLC is that work which can go on comes to an end.
* `UpToDate` and `ForcedIsUpToDate` of `LayerChain`: its operators are recursive,
  as the code is, and a proof would be an induction over the tree of layers.
* `RebuildStillComes` and `EditsShow`, which TLC finds violated.
* `NoUseAfterDestroy`, and `NoLostWakeup` while an image is closed: they hold when
  only the closing overlaps with processing, and operations send one request each
  (`patient_close`). The code does not see to that, so it is not worth a theorem.
* What the hypotheses leave out is claimed by no property: `InOrder` and
  `OnlyCoalesced` while an image is closed, `FillIsWhole` beyond the tiles of a
  render, `RebuildsAreAtomic` and `AtRestIsShown` with failures above the edited
  layers, `FillIsFed` with a render that fails and is invalidated. `NoLostWakeup`
  with a close in the middle of processing is known to fail.

## 10. What is not modelled

The components of the table without a module, for the reasons `PROJECT.json`
gives: the layer tree and the loader, the pyramid and the undo copies are planned
(section 2); pixel arithmetic, VIPS and vendored code (most of the lines of the
repository), batch mode, plug-ins and packaging are not.

* `ImageProcessor`: `IMAGE_UPDATE`, which nothing submits (section 3); the early
  return of `Image::open`, `wait_for_caching`, several windows each with a selected
  layer, and requests whose pointers are null (their handlers return at once; no
  modelled submitter sends one).
* `LayerChain`: the caching of layers, `output_layer_id` and automatic zoom of a
  pipeline, failing operations, and changes of the tree.
* `RebuildSteps`: the image below that a layer is blended with, which is that of the
  last layer that could be built (`layermanager.cc:1153`, `:1679`), where its input is
  the node below; the blender's flags, masks and sublayers (in `LayerChain`);
  reads of an operation's parameters while its pixels are computed.
* `Display`: the error returns of `process_area` and `update` (section 6), what
  dialogs draw over the preview, colour conversion, the choice of the layer to be
  displayed, and a second dimension: rectangles are intervals.
* `SinkScreen`: `mask_fill`, `vips__render_shutdown2` and `vips_invalidate_area`,
  which nothing reaches; life and death of VIPS's own objects, so that a display
  image closed under a worker that still announces its tile is not seen.
* `TileCache`: operations that fail between two caches or read several inputs
  (section 8), line caches, caches that are not threaded, `minimise`, and the
  disposal of a cache, of which the code says "FIXME this is a disaster if active
  threads are working on tiles".
