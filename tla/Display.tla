------------------------------ MODULE Display -------------------------------
(***************************************************************************)
(* The display of an image (src/gui/imagearea.cc, doublebuffer.hh).  The   *)
(* processor paints into the inactive buffer of a pair and swaps them, the *)
(* GUI thread copies the active one to the screen and asks for more when   *)
(* it does not have what is wanted.  A rebuild gives the area a new        *)
(* display image.                                                          *)
(*                                                                         *)
(* Requests are served in the order in which they are sent (InOrder of     *)
(* ImageProcessor), and an area that is prepared is painted whole          *)
(* (FillIsWhole of SinkScreen).  The plane has one dimension, a position   *)
(* stands for a tile, a rectangle is an interval.  Display images are      *)
(* numbered, and a pixel is the number of the image it shows; 0 is what    *)
(* nobody has painted: background, fresh memory, or pixels of another      *)
(* place.                                                                  *)
(***************************************************************************)
EXTENDS Naturals, Sequences

CONSTANTS Sizes,       \* Sizes[i]: the width of the i-th display image
          Width,       \* the width of the widget
          Views,       \* the rectangles the scrolled window may show
          MaxScrolls   \* bound: scrolls by the user

Positions == 1 .. Width
Images == 1 .. Len(Sizes)

ASSUME SizesAssumption == Width \in Nat \ {0} /\ Sizes \in Seq(Positions)
ASSUME ViewsAssumption == {} \notin Views /\ Views \subseteq SUBSET Positions
ASSUME BoundAssumption == MaxScrolls \in Nat

VARIABLES
  \* the area and its buffers
  image,        \* the number of display_image, 0 before the first
  buf,          \* the two buffers: rect, is_dirty and pixels of each
  active,       \* active_id
  lock,         \* the GUI thread holds the mutex of the buffers
  queue,        \* the requests of the processor
  \* the processor
  pcP,          \* idle, or where it is in ImageArea::update
  lapse,        \* history: the last drawing was cut to the size of an image that is gone
  \* the GUI thread and the screen
  gpc, total, seen,
  view,         \* what the scrolled window shows
  screen,       \* the pixels on the screen
  damage,       \* what Gtk has to draw
  setSize, queueDraw,  \* signal_set_size and signal_queue_draw are on their way
  scrolls, updates     \* bounded inputs so far

areaVars == <<image, buf, active, lock>>
procVars == <<pcP, lapse>>
drawVars == <<gpc, total, seen>>
gtkVars == <<view, screen, damage>>
signals == <<setSize, queueDraw>>
inputs == <<scrolls, updates>>
vars == <<areaVars, queue, procVars, drawVars, gtkVars, signals, inputs>>

Blank == [p \in Positions |-> 0]

Init ==
  /\ image = 0 /\ active = 0 /\ lock = FALSE /\ queue = <<>>
  /\ buf = [b \in {0, 1} |-> [rect |-> {}, dirty |-> TRUE, pix |-> Blank]]
  /\ pcP = "idle" /\ lapse = FALSE
  /\ gpc = "idle" /\ total = {} /\ seen = 0
  /\ view \in Views /\ screen = Blank /\ damage = {}
  /\ setSize = FALSE /\ queueDraw = FALSE
  /\ scrolls = 0 /\ updates = 0

WidthOf(i) == IF i = 0 THEN 0 ELSE Sizes[i]
Extent(i) == 1 .. WidthOf(i)
Hull(S) == {p \in Positions : \E a, b \in S : a <= p /\ p <= b}
Active == buf[active]
Submit(kind, area, s) == queue' = Append(queue, [kind |-> kind, area |-> area, seen |-> s])

-----------------------------------------------------------------------------
(* The user *)

\* What scrolls in has to be drawn.
Show(v, undrawn) ==
  /\ view' = v
  /\ screen' = [p \in Positions |-> IF p \in v \cap view THEN screen[p] ELSE 0]
  /\ damage' = ((damage \cap v) \cup undrawn)

Scroll(v) ==
  /\ gpc = "idle" /\ v # view /\ scrolls < MaxScrolls
  /\ Show(v, v \ view)
  /\ scrolls' = scrolls + 1
  /\ UNCHANGED <<areaVars, queue, procVars, drawVars, signals, updates>>

\* Any edit, or a zoom, has the pipeline rebuilt.
AskUpdate ==
  /\ gpc = "idle" /\ updates < Len(Sizes)
  /\ Submit("update", {}, 0)
  /\ updates' = updates + 1
  /\ UNCHANGED <<areaVars, procVars, drawVars, gtkVars, signals, scrolls>>

-----------------------------------------------------------------------------
(* The GUI thread *)

\* set_size_cb: the window may move over the new image, and is drawn.
SetSizeCb ==
  /\ gpc = "idle" /\ setSize
  /\ setSize' = FALSE
  /\ \E v \in Views : Show(v, v)
  /\ UNCHANGED <<areaVars, queue, procVars, drawVars, queueDraw, inputs>>

\* queue_draw
QueueDraw ==
  /\ gpc = "idle" /\ queueDraw
  /\ queueDraw' = FALSE
  /\ damage' = view
  /\ UNCHANGED <<areaVars, queue, procVars, drawVars, view, screen, setSize, inputs>>

\* on_draw, without a display image ...
OnDrawNothing ==
  /\ gpc = "idle" /\ damage # {} /\ image = 0
  /\ damage' = {}
  /\ UNCHANGED <<areaVars, queue, procVars, drawVars, view, screen, signals, inputs>>

\* ... or with one: lock, ...
OnDraw ==
  /\ gpc = "idle" /\ damage # {} /\ (image # 0 \/ pcP = "replace")
  /\ lock' = TRUE
  /\ gpc' = "paint"
  /\ UNCHANGED <<image, buf, active, queue, procVars, total, seen, gtkVars, signals, inputs>>

\* ... paint what the active buffer has, unlock, and go on only if it does not
\* have it all.
\* Slip in RepaintNeeded: is_dirty is not asked.
RepaintNeededRect == ~(Hull(damage) \subseteq Active.rect)

RepaintNeeded == ~(Hull(damage) \subseteq Active.rect) \/ Active.dirty

Paint ==
  /\ gpc = "paint"
  /\ screen' = [p \in Positions |->
       IF p \notin damage THEN screen[p] ELSE IF p \in Active.rect THEN Active.pix[p] ELSE 0]
  /\ lock' = FALSE
  /\ damage' = {}
  /\ total' = IF RepaintNeeded THEN Hull(damage \cup view) ELSE {}
  /\ gpc' = IF RepaintNeeded THEN "start" ELSE "idle"
  /\ UNCHANGED <<image, buf, active, queue, procVars, seen, view, signals, inputs>>

SubmitStart ==
  /\ gpc = "start"
  /\ Submit("start", total, 0)
  /\ gpc' = "area"
  /\ UNCHANGED <<areaVars, procVars, total, seen, gtkVars, signals, inputs>>

\* Slip in SubmitArea: what is on the screen is not asked for again (on_draw with
\* OPTIMIZE_SCROLLING).
SubmitAreaUndrawn ==
  /\ gpc = "area"
  /\ LET clip == {p \in total \cap Extent(image) : screen[p] = 0}
     IN IF clip = {} THEN UNCHANGED queue ELSE Submit("redraw", clip, 0)
  /\ seen' = image
  /\ gpc' = "end"
  /\ UNCHANGED <<areaVars, procVars, total, gtkVars, signals, inputs>>

\* submit_area: cut to the display image, without a lock.  While the processor
\* replaces it, any size can be read.
SubmitArea ==
  /\ gpc = "area"
  /\ \E width \in IF pcP = "replace" THEN 0 .. Width ELSE {WidthOf(image)} :
       LET clip == total \cap 1 .. width
       IN IF clip = {} THEN UNCHANGED queue ELSE Submit("redraw", clip, 0)
  /\ seen' = IF pcP = "replace" THEN 0 ELSE image
  /\ gpc' = "end"
  /\ UNCHANGED <<areaVars, procVars, total, gtkVars, signals, inputs>>

SubmitEnd ==
  /\ gpc = "end"
  /\ Submit("end", total, seen)
  /\ gpc' = "idle" /\ total' = {} /\ seen' = 0
  /\ UNCHANGED <<areaVars, procVars, gtkVars, signals, inputs>>

Gui ==
  \/ SetSizeCb \/ QueueDraw \/ OnDrawNothing \/ OnDraw \/ Paint
  \/ SubmitStart \/ SubmitArea \/ SubmitEnd

-----------------------------------------------------------------------------
(* The processor *)

\* The next request is of this kind.
Serve(kind) ==
  /\ pcP = "idle" /\ queue # <<>> /\ Head(queue).kind = kind
  /\ queue' = Tail(queue)

request == Head(queue)
Inactive == 1 - active

\* Slip in ProcessStart: the inactive buffer keeps what it has.
ProcessStartKeeps ==
  /\ Serve("start")
  /\ buf' = [buf EXCEPT ![Inactive].rect = request.area]
  /\ UNCHANGED <<image, active, lock, procVars, drawVars, gtkVars, signals, inputs>>

\* process_start: the inactive buffer is resized and gets what the active one has.
ProcessStart ==
  /\ Serve("start")
  /\ buf' = [buf EXCEPT ![Inactive].rect = request.area,
                       ![Inactive].pix = [p \in Positions |->
                          IF p \in request.area \cap Active.rect THEN Active.pix[p] ELSE 0]]
  /\ UNCHANGED <<image, active, lock, procVars, drawVars, gtkVars, signals, inputs>>

\* process_area: the display image is painted into the inactive buffer.  That
\* vips_region_prepare fails is left out: image_fill, which it calls, always returns 0.
ProcessArea ==
  /\ Serve("redraw")
  /\ buf' = [buf EXCEPT ![Inactive].pix = [p \in Positions |->
                IF p \in request.area \cap Extent(image) \cap buf[Inactive].rect THEN image
                ELSE @[p]]]
  /\ UNCHANGED <<image, active, lock, procVars, drawVars, gtkVars, signals, inputs>>

\* Slip in Swap: the buffers are counted.
SwapCounts ==
  /\ active' = active + 1
  /\ buf' = [buf EXCEPT ![active].dirty = TRUE]
  /\ queueDraw' = TRUE
  /\ lapse' = (request.seen = 0 \/ WidthOf(request.seen) < WidthOf(image))
  /\ UNCHANGED <<image, lock, pcP, drawVars, gtkVars, setSize, inputs>>

Swap ==
  /\ active' = Inactive
  /\ buf' = [buf EXCEPT ![Inactive].dirty = FALSE, ![active].dirty = TRUE]
  /\ queueDraw' = TRUE
  /\ lapse' = (request.seen = 0 \/ WidthOf(request.seen) < WidthOf(image))
  /\ UNCHANGED <<image, lock, pcP, drawVars, gtkVars, setSize, inputs>>

\* Slip in ProcessEnd: no lock.
ProcessEndUnlocked == Serve("end") /\ Swap

\* process_end: under the lock the buffers change places.
ProcessEnd == Serve("end") /\ ~lock /\ Swap

\* ImageArea::update returns early when it has nothing to display, ...
UpdateNothing ==
  /\ Serve("update")
  /\ UNCHANGED <<areaVars, procVars, drawVars, gtkVars, signals, inputs>>

\* ... or gives up the display image ...
Release ==
  /\ Serve("update")
  /\ pcP' = "replace"
  /\ UNCHANGED <<areaVars, lapse, drawVars, gtkVars, signals, inputs>>

\* ... for a new one.  VIPS is taken to build it: where it cannot, update returns with
\* display_image freed and no buffer marked, which is left out.
Renew ==
  /\ pcP = "replace"
  /\ image' = image + 1
  /\ pcP' = "mark"
  /\ UNCHANGED <<buf, active, lock, queue, lapse, drawVars, gtkVars, signals, inputs>>

\* Slip in Mark: only the buffer to be painted next is marked.
MarkInactive ==
  /\ pcP = "mark" /\ ~lock
  /\ buf' = [buf EXCEPT ![Inactive].dirty = TRUE]
  /\ setSize' = TRUE
  /\ pcP' = "idle"
  /\ UNCHANGED <<image, active, lock, queue, lapse, drawVars, gtkVars, queueDraw, inputs>>

\* Its end: both buffers are dirty, and the size is announced.
Mark ==
  /\ pcP = "mark" /\ ~lock
  /\ buf' = [buf EXCEPT ![0].dirty = TRUE, ![1].dirty = TRUE]
  /\ setSize' = TRUE
  /\ pcP' = "idle"
  /\ UNCHANGED <<image, active, lock, queue, lapse, drawVars, gtkVars, queueDraw, inputs>>

Processor ==
  \/ ProcessStart \/ ProcessArea \/ ProcessEnd
  \/ UpdateNothing \/ Release \/ Renew \/ Mark

-----------------------------------------------------------------------------
\* Nothing to draw and nothing to process.
Rest ==
  /\ gpc = "idle" /\ damage = {} /\ ~setSize /\ ~queueDraw
  /\ pcP = "idle" /\ queue = <<>>
  /\ UNCHANGED vars

Next ==
  \/ \E v \in Views : Scroll(v)
  \/ AskUpdate
  \/ Gui \/ Processor \/ Rest

\* Both threads are scheduled again and again; the user may stop at any moment.
Fairness == WF_vars(Gui) /\ WF_vars(Processor)

Spec == Init /\ [][Next]_vars /\ Fairness

-----------------------------------------------------------------------------
(* Properties *)
Pixels == 0 .. Len(Sizes)
Kinds == {"update", "start", "redraw", "end"}
Requests == [kind : Kinds, area : SUBSET Positions, seen : Pixels]

\* Type invariant.
TypeOK ==
  /\ image \in Pixels /\ active \in {0, 1} /\ lock \in BOOLEAN
  /\ buf \in [{0, 1} -> [rect : SUBSET Positions, dirty : BOOLEAN, pix : [Positions -> Pixels]]]
  /\ queue \in Seq(Requests)
  /\ pcP \in {"idle", "replace", "mark"} /\ lapse \in BOOLEAN
  /\ gpc \in {"idle", "paint", "start", "area", "end"}
  /\ total \in SUBSET Positions /\ seen \in Pixels
  /\ view \in Views /\ screen \in [Positions -> Pixels] /\ damage \in SUBSET Positions
  /\ setSize \in BOOLEAN /\ queueDraw \in BOOLEAN
  /\ scrolls \in Nat /\ updates \in Nat

\* A buffer that is active and not dirty, which on_draw shows without asking for
\* more, shows the newest display image all over its rectangle: requests of three
\* threads of events (draw, scroll, rebuild) never leave an old part in it, but for
\* a drawing that submit_area has cut to an image that is gone by now.
CleanIsNew ==
  pcP # "mark" /\ ~Active.dirty /\ ~lapse =>
    \A p \in Active.rect \cap Extent(image) : Active.pix[p] = image

\* What the GUI thread paints does not change while it paints: "The main thread
\* never uses the inactive buffer, therefore there is no need to protect this part
\* of code with a mutex" (process_start).
FrameHolds ==
  [][gpc = "paint" => buf'[active'].rect = Active.rect /\ buf'[active'].pix = Active.pix]_vars

\* As long as a position stays in view it never goes back to an older image.
NeverBack ==
  [][\A p \in view \cap view' :
       screen[p] # 0 /\ screen'[p] # 0 => screen'[p] >= screen[p]]_vars

\* When nobody has anything left to do, what the window shows of the newest display
\* image is on the screen: no order of draws, scrolls and rebuilds loses the last
\* redraw, but for a drawing that was cut to an image that is gone by now.
AtRestIsNew ==
  /\ gpc = "idle" /\ damage = {} /\ ~setSize /\ ~queueDraw
  /\ pcP = "idle" /\ queue = <<>> /\ ~lapse
  => \A p \in view \cap Extent(image) : screen[p] = image

\* Left alone, the screen comes to show the newest display image, unless the last
\* drawing was cut to one that is gone.
ShowsInTheEnd ==
  <>[](lapse \/ \A p \in view \cap Extent(image) : screen[p] = image)
=============================================================================
