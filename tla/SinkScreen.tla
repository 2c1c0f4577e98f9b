----------------------------- MODULE SinkScreen -----------------------------
(***************************************************************************)
(* The screen sink (src/vips/sinkscreen_pf.c), through which an image area *)
(* gets the pixels it shows.  A display image has a Render with tiles.     *)
(* The image-processing thread asks for an area (image_fill): tiles that   *)
(* are missing go to the dirty list of the render, and the thread waits on *)
(* a semaphore until all of them are painted.  One background thread takes *)
(* renders with dirty tiles from a global list and runs a pool of workers  *)
(* on the tiles.                                                           *)
(*                                                                         *)
(* Lists that are only searched are sets here: which dirty tile and which  *)
(* dirty render is taken first is left open.                               *)
(***************************************************************************)
EXTENDS Naturals, FiniteSets

CONSTANTS Renders,     \* the display images ImageArea::update makes, one Render each
          Positions,   \* the places of tiles, numbered row by row
          Areas,       \* the sets of positions that an area to be shown may cover
          MaxTiles,    \* max_tiles of a render
          Workers,     \* the threads of the pool
          Closable,    \* the renders whose display image is closed
          Failing,     \* the renders whose input may fail
          Changing,    \* the renders whose input is invalidated
          None,
          MaxFills     \* bound: calls of image_fill

ASSUME NoneAssumption == None \notin Renders \cup Positions \cup (1 .. MaxTiles)
ASSUME PositionsAssumption == Positions \subseteq Nat
ASSUME AreasAssumption == \A a \in Areas : a \in SUBSET Positions /\ IsFiniteSet(a)
ASSUME RendersAssumption ==
  Closable \subseteq Renders /\ Failing \subseteq Renders /\ Changing \subseteq Renders
ASSUME SizeAssumption == MaxTiles \in Nat \ {0} /\ MaxFills \in Nat

Slots == 1 .. MaxTiles
Tile == [area : Positions \cup {None}, painted : BOOLEAN, invalid : BOOLEAN, ticks : Nat]

VARIABLES
  \* the Renders
  life,          \* life[r]: how far its display image is from "none" to "closed"
  refs,          \* refs[r]: ref_count
  tiles,         \* tiles[r][x]: the x-th tile made, area None if not made yet
  ticks,         \* ticks[r]: count of accesses
  dirty,         \* dirty[r]: the tiles on the dirty list
  done,          \* done[r]: tile_done_sem
  \* shared by all renders
  dirtyAll,      \* render_dirty_all
  dirtySem,      \* render_dirty_sem
  reschedule,    \* render_reschedule
  \* the image-processing thread, in image_fill
  pcF, target, area, todo, tilesAll, wait,
  fills,         \* calls of image_fill so far
  \* the background thread, in pfrender_thread_main
  pcB, current,
  stop,          \* the pool allocates no more
  job            \* job[w]: the tile worker w is on, and whether it is painted

renderVars == <<life, refs, tiles, ticks, dirty, done>>
sharedVars == <<dirtyAll, dirtySem, reschedule>>
fillVars == <<pcF, target, area, todo, tilesAll, wait, fills>>
backVars == <<pcB, current, stop, job>>
vars == <<renderVars, sharedVars, fillVars, backVars>>

NoJob == [tile |-> None, painted |-> FALSE]

Init ==
  /\ life = [r \in Renders |-> "none"] /\ refs = [r \in Renders |-> 0]
  /\ tiles = [r \in Renders |-> [x \in Slots |->
        [area |-> None, painted |-> FALSE, invalid |-> FALSE, ticks |-> 0]]]
  /\ ticks = [r \in Renders |-> 0]
  /\ dirty = [r \in Renders |-> {}] /\ done = [r \in Renders |-> 0]
  /\ dirtyAll = {} /\ dirtySem = 0 /\ reschedule = FALSE
  /\ pcF = "idle" /\ target = None /\ area = {} /\ todo = {} /\ tilesAll = {}
  /\ wait = FALSE /\ fills = 0
  /\ pcB = "down" /\ current = None /\ stop = FALSE
  /\ job = [w \in Workers |-> NoJob]

-----------------------------------------------------------------------------
(* Renders *)

\* vips_sink_screen2 for a new display image.
New(r) ==
  /\ pcF = "idle" /\ life[r] = "none"
  /\ life' = [life EXCEPT ![r] = "open"]
  /\ refs' = [refs EXCEPT ![r] = 1]
  /\ UNCHANGED <<tiles, ticks, dirty, done, sharedVars, fillVars, backVars>>

\* render_close_cb, as the display image is closed by ImageArea::update or
\* ImageArea::dispose: render_unref, which is done with ref_count_lock, ...
Close(r) ==
  /\ r \in Closable /\ life[r] = "open" /\ (pcF # "idle" => target # r)
  /\ refs' = [refs EXCEPT ![r] = @ - 1]
  /\ life' = [life EXCEPT ![r] = IF refs[r] = 1 THEN "dying" ELSE "closing"]
  /\ UNCHANGED <<tiles, ticks, dirty, done, sharedVars, fillVars, backVars>>

\* Slip in Unlist: render_free leaves the render on the global list.
UnlistNot(r) == UNCHANGED dirtyAll

\* render_free: the render leaves the global list, the semaphore is left alone.
Unlist(r) == dirtyAll' = dirtyAll \ {r}

\* ... then render_free when it was the last reference, with render_dirty_lock, ...
Free(r) ==
  /\ life[r] = "dying"
  /\ Unlist(r)
  /\ life' = [life EXCEPT ![r] = "closing"]
  /\ UNCHANGED <<refs, tiles, ticks, dirty, done, dirtySem, reschedule, fillVars, backVars>>

\* ... and the background thread is told to think again.
Jog(r) ==
  /\ life[r] = "closing"
  /\ life' = [life EXCEPT ![r] = "closed"]
  /\ reschedule' = TRUE
  /\ UNCHANGED <<refs, tiles, ticks, dirty, done, dirtyAll, dirtySem, fillVars, backVars>>

\* The input of the render is invalidated (vips_image_invalidate_all in
\* rebuild_chain, on the image-processing thread): so are its tiles.
Invalidate(r) ==
  /\ r \in Changing /\ pcF = "idle" /\ life[r] = "open"
  /\ tiles' = [tiles EXCEPT ![r] = [x \in Slots |->
        [@[x] EXCEPT !.invalid = tiles[r][x].area # None]]]
  /\ UNCHANGED <<life, refs, ticks, dirty, done, sharedVars, fillVars, backVars>>

\* Slip in Put: a background thread that is running is only asked to stop.
PutRunning(r) ==
  IF r \in dirtyAll
  THEN UNCHANGED sharedVars
  ELSE /\ dirtyAll' = dirtyAll \cup {r}
       /\ dirtySem' = IF pcB = "pool" THEN dirtySem ELSE dirtySem + 1
       /\ reschedule' = TRUE

\* render_dirty_put: the render is on the list, and if it was not yet the pool
\* is asked to stop and the background thread is told.
Put(r) ==
  IF r \in dirtyAll
  THEN UNCHANGED sharedVars
  ELSE /\ dirtyAll' = dirtyAll \cup {r}
       /\ dirtySem' = dirtySem + 1
       /\ reschedule' = TRUE

-----------------------------------------------------------------------------
(* The image-processing thread: image_fill.  It holds the lock of the render *)
(* while pcF = "request".                                                    *)

Fill(r, a) ==
  /\ pcF = "idle" /\ life[r] = "open" /\ fills < MaxFills
  /\ pcF' = "request" /\ target' = r /\ area' = a /\ todo' = a
  /\ tilesAll' = {} /\ wait' = FALSE /\ fills' = fills + 1
  /\ UNCHANGED <<renderVars, sharedVars, backVars>>

At(p) == {x \in Slots : tiles[target][x].area = p}
Made == {x \in Slots : tiles[target][x].area # None}
Painted == {x \in Made : tiles[target][x].painted}
\* The painted tile that has not been looked at for longest.
OldestPainted == {x \in Painted : \A y \in Painted : tiles[target][x].ticks <= tiles[target][y].ticks}

\* image_fill goes over its area row by row.
Upcoming == {p \in todo : \A q \in todo : p <= q}

\* The tile joins those of the fill; it was touched.
Take(p, x) ==
  /\ todo' = todo \ {p}
  /\ tilesAll' = tilesAll \cup {x}
  /\ ticks' = [ticks EXCEPT ![target] = @ + 1]
  /\ UNCHANGED <<life, refs, done, pcF, target, area, fills, backVars>>

\* tile_queue: the tile, at p now, is to be painted.
Queue(p, x, invalid) ==
  /\ tiles' = [tiles EXCEPT ![target][x] =
        [area |-> p, painted |-> FALSE, invalid |-> invalid, ticks |-> ticks[target]]]
  /\ dirty' = [dirty EXCEPT ![target] = @ \cup {x}]
  /\ Put(target)
  /\ wait' = TRUE
  /\ Take(p, x)

\* render_tile_request for a tile that is there and can be used as it is, ...
RequestValid ==
  /\ pcF = "request"
  /\ \E p \in Upcoming : \E x \in At(p) :
       /\ ~tiles[target][x].invalid
       /\ tiles' = [tiles EXCEPT ![target][x].ticks = ticks[target]]
       /\ wait' = (wait \/ ~tiles[target][x].painted)
       /\ Take(p, x)
       /\ UNCHANGED <<dirty, sharedVars>>

\* ... is there but must be painted again, ...
RequestInvalid ==
  /\ pcF = "request"
  /\ \E p \in Upcoming : \E x \in At(p) : tiles[target][x].invalid /\ Queue(p, x, TRUE)

\* Slip in RequestNew: one tile too many.
RequestNewLate ==
  /\ pcF = "request"
  /\ \E p \in Upcoming :
       /\ At(p) = {}
       /\ Cardinality(Made) <= MaxTiles
       /\ Queue(p, Cardinality(Made) + 1, FALSE)

\* ... can be made, ...
RequestNew ==
  /\ pcF = "request"
  /\ \E p \in Upcoming :
       /\ At(p) = {}
       /\ Cardinality(Made) < MaxTiles
       /\ Queue(p, Cardinality(Made) + 1, FALSE)

\* Slip in RequestReuse: any painted tile is as good as the oldest.
RequestReuseAny ==
  /\ pcF = "request"
  /\ \E p \in Upcoming :
       /\ At(p) = {}
       /\ Cardinality(Made) = MaxTiles
       /\ \E x \in IF Painted # {} THEN Painted ELSE dirty[target] : Queue(p, x, FALSE)

\* ... or takes the place of another: of a painted one if there is any.  There is
\* always one that is painted or dirty (NeverRefused), so that "no tiles to reuse"
\* is no step of its own.
RequestReuse ==
  /\ pcF = "request"
  /\ \E p \in Upcoming :
       /\ At(p) = {}
       /\ Cardinality(Made) = MaxTiles
       /\ \E x \in IF Painted # {} THEN OldestPainted ELSE dirty[target] : Queue(p, x, FALSE)

RequestsEnd ==
  /\ pcF = "request" /\ todo = {}
  /\ pcF' = IF wait THEN "down" ELSE "copy"
  /\ UNCHANGED <<renderVars, sharedVars, target, area, todo, tilesAll, wait, fills, backVars>>

\* Wait until some tile of the render has been processed.
Down ==
  /\ pcF = "down" /\ done[target] > 0
  /\ done' = [done EXCEPT ![target] = @ - 1]
  /\ pcF' = "check"
  /\ UNCHANGED <<life, refs, tiles, ticks, dirty, sharedVars, target, area, todo, tilesAll,
                 wait, fills, backVars>>

Ready(x) == tiles[target][x].painted /\ ~tiles[target][x].invalid

\* Slip in Check: one tile that is ready is enough.
CheckOne ==
  /\ pcF = "check"
  /\ pcF' = IF \E x \in tilesAll : Ready(x) THEN "copy" ELSE "down"
  /\ UNCHANGED <<renderVars, sharedVars, target, area, todo, tilesAll, wait, fills, backVars>>

Check ==
  /\ pcF = "check"
  /\ pcF' = IF \A x \in tilesAll : Ready(x) THEN "copy" ELSE "down"
  /\ UNCHANGED <<renderVars, sharedVars, target, area, todo, tilesAll, wait, fills, backVars>>

\* The positions tile_copy fills in.
Copied == {tiles[target][x].area : x \in {y \in tilesAll : Ready(y)}}

Copy ==
  /\ pcF = "copy"
  /\ pcF' = "idle" /\ target' = None /\ area' = {} /\ tilesAll' = {} /\ wait' = FALSE
  /\ UNCHANGED <<renderVars, sharedVars, todo, fills, backVars>>

Processor ==
  \/ RequestValid \/ RequestInvalid \/ RequestNew \/ RequestReuse
  \/ RequestsEnd \/ Down \/ Check \/ Copy

-----------------------------------------------------------------------------
(* The background thread: pfrender_thread_main *)

Wake ==
  /\ pcB = "down" /\ dirtySem > 0
  /\ dirtySem' = dirtySem - 1
  /\ pcB' = "get"
  /\ UNCHANGED <<renderVars, dirtyAll, reschedule, fillVars, current, stop, job>>

\* render_dirty_get: NULL, which ends the thread, when the list is empty, ...
GetNone ==
  /\ pcB = "get" /\ dirtyAll = {}
  /\ pcB' = "end"
  /\ UNCHANGED <<renderVars, sharedVars, fillVars, current, stop, job>>

\* ... a failed assertion of render_ref when the render on it is about to be freed
\* (the program ends: what the other threads still do in the model is more than it
\* does), ...
GetDying ==
  /\ pcB = "get"
  /\ \E r \in dirtyAll : refs[r] = 0
  /\ pcB' = "abort"
  /\ UNCHANGED <<renderVars, sharedVars, fillVars, current, stop, job>>

\* ... and otherwise a render, with a reference to it.
Get ==
  /\ pcB = "get"
  /\ \E r \in dirtyAll :
       /\ refs[r] # 0
       /\ current' = r
       /\ refs' = [refs EXCEPT ![r] = @ + 1]
       /\ dirtyAll' = dirtyAll \ {r}
  /\ pcB' = "start"
  /\ UNCHANGED <<life, tiles, ticks, dirty, done, dirtySem, reschedule, fillVars, stop, job>>

\* Slip in Start: the order to stop is not taken back.
StartStopped ==
  /\ pcB = "start"
  /\ pcB' = "pool" /\ stop' = FALSE
  /\ UNCHANGED <<renderVars, sharedVars, fillVars, current, job>>

Start ==
  /\ pcB = "start"
  /\ reschedule' = FALSE
  /\ pcB' = "pool" /\ stop' = FALSE
  /\ UNCHANGED <<renderVars, dirtyAll, dirtySem, fillVars, current, job>>

\* vips_threadpool_run returns when it has been told to stop and all its
\* workers are done.
PoolEnd ==
  /\ pcB = "pool" /\ stop /\ \A w \in Workers : job[w] = NoJob
  /\ pcB' = "put"
  /\ UNCHANGED <<renderVars, sharedVars, fillVars, current, stop, job>>

PutBack ==
  /\ pcB = "put"
  /\ IF dirty[current] = {} THEN UNCHANGED sharedVars ELSE Put(current)
  /\ pcB' = "unref"
  /\ UNCHANGED <<renderVars, fillVars, current, stop, job>>

\* render_unref, ...
Unref ==
  /\ pcB = "unref"
  /\ refs' = [refs EXCEPT ![current] = @ - 1]
  /\ IF refs[current] = 1
     THEN pcB' = "free" /\ UNCHANGED current
     ELSE pcB' = "down" /\ current' = None
  /\ UNCHANGED <<life, tiles, ticks, dirty, done, sharedVars, fillVars, stop, job>>

\* ... then render_free when it was the last reference.
FreeCurrent ==
  /\ pcB = "free"
  /\ Unlist(current)
  /\ pcB' = "down" /\ current' = None
  /\ UNCHANGED <<renderVars, dirtySem, reschedule, fillVars, stop, job>>

Background ==
  Wake \/ GetNone \/ GetDying \/ Get \/ Start \/ PoolEnd \/ PutBack \/ Unref \/ FreeCurrent

-----------------------------------------------------------------------------
(* The workers of the pool *)

LockFree == ~(pcF = "request" /\ target = current)

\* render_allocate, when there is nothing to do or something better to do, ...
AllocateStop ==
  /\ pcB = "pool" /\ ~stop /\ LockFree
  /\ (reschedule \/ dirty[current] = {})
  /\ stop' = TRUE
  /\ UNCHANGED <<renderVars, sharedVars, fillVars, pcB, current, job>>

\* Slip in Allocate: the lock of the render is not taken.
AllocateUnlocked(w) ==
  /\ pcB = "pool" /\ ~stop /\ job[w] = NoJob
  /\ ~reschedule
  /\ \E x \in dirty[current] :
       /\ job' = [job EXCEPT ![w] = [tile |-> x, painted |-> FALSE]]
       /\ dirty' = [dirty EXCEPT ![current] = @ \ {x}]
  /\ UNCHANGED <<life, refs, tiles, ticks, done, sharedVars, fillVars, pcB, current, stop>>

\* Slip in Allocate: the tile stays on the dirty list.
AllocateKeeps(w) ==
  /\ pcB = "pool" /\ ~stop /\ LockFree /\ job[w] = NoJob
  /\ ~reschedule
  /\ \E x \in dirty[current] : job' = [job EXCEPT ![w] = [tile |-> x, painted |-> FALSE]]
  /\ UNCHANGED <<renderVars, sharedVars, fillVars, pcB, current, stop>>

\* ... and for a tile.
Allocate(w) ==
  /\ pcB = "pool" /\ ~stop /\ LockFree /\ job[w] = NoJob
  /\ ~reschedule
  /\ \E x \in dirty[current] :
       /\ job' = [job EXCEPT ![w] = [tile |-> x, painted |-> FALSE]]
       /\ dirty' = [dirty EXCEPT ![current] = @ \ {x}]
  /\ UNCHANGED <<life, refs, tiles, ticks, done, sharedVars, fillVars, pcB, current, stop>>

\* render_work: the tile is computed, or filled with black when that fails.  Only
\* pixels that were computed make it valid again.
Paint(w) ==
  /\ job[w] # NoJob /\ ~job[w].painted
  /\ \E invalid \in {FALSE} \cup
                    IF current \in Failing THEN {tiles[current][job[w].tile].invalid} ELSE {} :
       tiles' = [tiles EXCEPT ![current][job[w].tile] =
                   [@ EXCEPT !.painted = TRUE, !.invalid = invalid]]
  /\ job' = [job EXCEPT ![w].painted = TRUE]
  /\ UNCHANGED <<life, refs, ticks, dirty, done, sharedVars, fillVars, pcB, current, stop>>

\* Its end: the display image is invalidated and tile_done_sem is raised.
Announce(w) ==
  /\ job[w].painted
  /\ done' = [done EXCEPT ![current] = @ + 1]
  /\ job' = [job EXCEPT ![w] = NoJob]
  /\ UNCHANGED <<life, refs, tiles, ticks, dirty, sharedVars, fillVars, pcB, current, stop>>

Worker(w) == Allocate(w) \/ Paint(w) \/ Announce(w)

-----------------------------------------------------------------------------
\* The background thread has ended, in one of two ways.
Ended == pcB \in {"end", "abort"}

\* Nothing to show: the image-processing thread is elsewhere and the background
\* thread sleeps; or that has ended, and the other may wait for ever.
Rest ==
  /\ Ended \/ (pcB = "down" /\ pcF = "idle")
  /\ UNCHANGED vars

Next ==
  \/ \E r \in Renders : New(r) \/ Close(r) \/ Free(r) \/ Jog(r) \/ Invalidate(r)
  \/ \E r \in Renders, a \in Areas : Fill(r, a)
  \/ Processor
  \/ Background
  \/ AllocateStop
  \/ \E w \in Workers : Worker(w)
  \/ Rest

\* Each thread runs; nothing makes the user show another area.
Fairness ==
  /\ WF_vars(Processor) /\ WF_vars(Background) /\ WF_vars(AllocateStop)
  /\ \A w \in Workers : WF_vars(Worker(w))

Spec == Init /\ [][Next]_vars /\ Fairness

-----------------------------------------------------------------------------
\* Type invariant.
TypeOK ==
  /\ life \in [Renders -> {"none", "open", "dying", "closing", "closed"}]
  /\ refs \in [Renders -> Nat]
  /\ tiles \in [Renders -> [Slots -> Tile]]
  /\ ticks \in [Renders -> Nat]
  /\ dirty \in [Renders -> SUBSET Slots]
  /\ done \in [Renders -> Nat]
  /\ dirtyAll \in SUBSET Renders /\ dirtySem \in Nat /\ reschedule \in BOOLEAN
  /\ pcF \in {"idle", "request", "down", "check", "copy"}
  /\ target \in Renders \cup {None}
  /\ area \in SUBSET Positions /\ todo \in SUBSET Positions
  /\ tilesAll \in SUBSET Slots /\ wait \in BOOLEAN /\ fills \in Nat
  /\ pcB \in {"down", "get", "start", "pool", "put", "unref", "free", "end", "abort"}
  /\ current \in Renders \cup {None}
  /\ stop \in BOOLEAN
  /\ job \in [Workers -> [tile : Slots \cup {None}, painted : BOOLEAN]]

\* image_fill copies every tile of an area that fits into the tiles of a render, none is
\* left out and none has moved away: the reuse of the oldest tile never hits one of the
\* same area, and the wait on the semaphore ends only when the last one is painted.
FillIsWhole == pcF = "copy" /\ Cardinality(area) <= MaxTiles => Copied = area

\* render_tile_request finds a tile for every position, for areas of any size: with
\* all tiles made and none painted, the dirty list cannot be empty, as the workers do
\* not get at it before image_fill has made all its requests.
NeverRefused ==
  pcF = "request" /\ Cardinality(Made) = MaxTiles => Painted # {} \/ dirty[target] # {}

\* A tile that a worker paints is painted by it alone and stays where it is: the
\* "mis-paint" that the comment on render_tile_dirty_reuse fears does not happen.
PaintsAlone ==
  \A w \in Workers : job[w] # NoJob /\ ~job[w].painted =>
    /\ ~tiles[current][job[w].tile].painted
    /\ job[w].tile \notin dirty[current]
    /\ \A v \in Workers \ {w} : job[v].tile = job[w].tile => job[v].painted

\* Somebody will paint a tile of render r: a worker is on it, or the tile is on a
\* dirty list that the background thread has, or will get.
Fed(r) ==
  \/ current = r /\ \E w \in Workers : job[w] # NoJob
  \/ /\ dirty[r] # {}
     /\ \/ current = r /\ pcB \in {"start", "pool", "put"}
        \/ r \in dirtyAll /\ (pcB = "down" => dirtySem > 0)

\* When image_fill sleeps, tile_done_sem will be raised again: no order of its
\* requests, render_reschedule and the end of the pool leaves it with a tile that
\* nobody is about to paint, or with all its tiles painted, as long as the background
\* thread has not ended.
FillIsFed == pcF = "down" /\ done[target] = 0 => Fed(target) \/ Ended

\* Once render_free is through with a render, no thread uses it, and render_dirty_get
\* does not find it: whichever of render_close_cb and the background thread gives the
\* last reference back, and however often the render was put on the list before.  (While
\* render_free is at it the render is still on the list: GetDying.)
Freed(r) ==
  /\ life[r] \notin {"none", "dying"} /\ refs[r] = 0
  /\ ~(pcB = "free" /\ current = r)
FreedIsForgotten ==
  \A r \in Renders : Freed(r) => target # r /\ current # r /\ r \notin dirtyAll

\* image_fill comes back: render_reschedule, the two semaphores and the list of
\* renders never leave a dirty tile without a thread that will paint it, whatever
\* is closed meanwhile, as long as the background thread has not ended.
FillEnds == pcF # "idle" ~> (pcF = "idle" \/ Ended)
=============================================================================
