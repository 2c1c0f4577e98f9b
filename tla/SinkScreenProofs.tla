-------------------------- MODULE SinkScreenProofs --------------------------
(***************************************************************************)
(* The invariants of SinkScreen, for any display images, tiles and workers. *)
(***************************************************************************)
EXTENDS SinkScreen, FiniteSetTheorems, TLAPS

MadeIn(r) == {x \in Slots : tiles[r][x].area # None}
Unpainted(r, x) == tiles[r][x].area # None /\ ~tiles[r][x].painted

(***************************************************************************)
(* The inductive invariant.                                                *)
(***************************************************************************)

\* The parts of TypeOK: most steps leave all but one alone.
CountsTyped ==
  /\ life \in [Renders -> {"none", "open", "dying", "closing", "closed"}]
  /\ refs \in [Renders -> Nat] /\ ticks \in [Renders -> Nat] /\ done \in [Renders -> Nat]
ListsTyped ==
  /\ dirtyAll \in SUBSET Renders /\ dirtySem \in Nat /\ reschedule \in BOOLEAN
  /\ dirty \in [Renders -> SUBSET Slots]
TilesTyped == tiles \in [Renders -> [Slots -> Tile]]
FillTyped ==
  /\ pcF \in {"idle", "request", "down", "check", "copy"}
  /\ target \in Renders \cup {None}
  /\ area \in SUBSET Positions /\ todo \in SUBSET Positions
  /\ tilesAll \in SUBSET Slots /\ wait \in BOOLEAN /\ fills \in Nat
BackTyped ==
  /\ pcB \in {"down", "get", "start", "pool", "put", "unref", "free", "end", "abort"}
  /\ current \in Renders \cup {None}
  /\ stop \in BOOLEAN
JobsTyped == job \in [Workers -> [tile : Slots \cup {None}, painted : BOOLEAN]]

\* An open display image holds a reference to its render, and so does the
\* background thread while it works for it.
References ==
  \A r \in Renders :
    /\ refs[r] = (IF life[r] = "open" THEN 1 ELSE 0) + (IF current = r /\ pcB # "free" THEN 1 ELSE 0)
    /\ life[r] = "none" => current # r /\ r \notin dirtyAll
    /\ current = r /\ pcB = "free" => life[r] # "open"

\* The image-processing thread is at work for an open display image.
Phases ==
  /\ pcF = "idle" <=> target = None
  /\ target # None => life[target] = "open"
  /\ pcF = "idle" => tilesAll = {}
  /\ pcB \in {"start", "pool", "put", "unref", "free"} <=> current # None

\* The tiles are made one after the other.
MadeInOrder == \A r \in Renders : \E n \in 0 .. MaxTiles : MadeIn(r) = 1 .. n

\* A tile that is not painted belongs to the area that is being filled, ...
Awaited == \A r \in Renders, x \in Slots : Unpainted(r, x) => r = target /\ x \in tilesAll

\* ... and so does a tile on a dirty list.
Listed == \A r \in Renders : \A x \in dirty[r] : Unpainted(r, x)

\* What the fill has collected is not collected again.
Collected == \A x \in tilesAll : tiles[target][x].area \notin todo \cup {None}

\* The fill that need not wait, or need not wait any more, has tiles to copy.
Usable == pcF = "copy" \/ (pcF = "request" /\ ~wait) => \A x \in tilesAll : Ready(x)

\* A worker has a tile of the current render.
Jobs ==
  \A w \in Workers : job[w] # NoJob =>
    /\ pcB = "pool" /\ job[w].tile \in Slots
    /\ ~job[w].painted => tiles[current][job[w].tile].area # None

IInv ==
  /\ CountsTyped /\ ListsTyped /\ TilesTyped /\ FillTyped /\ BackTyped /\ JobsTyped
  /\ PaintsAlone /\ References /\ Phases /\ MadeInOrder /\ Awaited /\ Listed /\ Collected /\ Usable /\ Jobs

(***************************************************************************)
(* What is added to it for areas that fit into the tiles of a render.      *)
(***************************************************************************)
Fitting == pcF # "idle" /\ Cardinality(area) <= MaxTiles

\* The tiles collected and the positions still to be collected make up the area.
MakesUp ==
  Fitting =>
    /\ {tiles[target][x].area : x \in tilesAll} \cup todo = area
    /\ IsFiniteSet(todo) /\ Cardinality(tilesAll) + Cardinality(todo) <= MaxTiles
    /\ pcF # "request" => todo = {}

\* The tiles collected have been looked at last.
Fresher ==
  /\ \A r \in Renders : \A x \in MadeIn(r) : tiles[r][x].ticks < ticks[r]
  /\ Fitting => \A x \in tilesAll : \A y \in MadeIn(target) \ tilesAll :
       tiles[target][y].ticks < tiles[target][x].ticks

FillInv == MakesUp /\ Fresher

-----------------------------------------------------------------------------
LEMMA TileTouched ==
  ASSUME NEW t \in Tile, NEW b \in BOOLEAN, NEW n \in Nat
  PROVE  /\ [t EXCEPT !.invalid = b] \in Tile /\ [t EXCEPT !.ticks = n] \in Tile
         /\ [t EXCEPT !.painted = TRUE, !.invalid = b] \in Tile
BY DEF Tile

LEMMA InitInv == Init => IInv
<1> SUFFICES ASSUME Init PROVE IInv
  OBVIOUS
<1>1. CountsTyped /\ ListsTyped /\ TilesTyped /\ FillTyped /\ BackTyped /\ JobsTyped
  <2>1. tiles \in [Renders -> [Slots -> Tile]]
    BY DEF Init, Tile
  <2>2. job \in [Workers -> [tile : Slots \cup {None}, painted : BOOLEAN]]
    BY DEF Init, NoJob
  <2>3. QED
    BY <2>1, <2>2 DEF Init, CountsTyped, ListsTyped, TilesTyped, FillTyped, BackTyped, JobsTyped
<1>2. PaintsAlone /\ Jobs
  BY DEF Init, PaintsAlone, Jobs
<1>3. References /\ Phases
  BY NoneAssumption DEF Init, References, Phases
<1>4. MadeInOrder
  <2>1. ASSUME NEW r \in Renders PROVE MadeIn(r) = 1 .. 0
    BY DEF Init, MadeIn
  <2>2. QED
    BY <2>1, SizeAssumption DEF MadeInOrder
<1>5. Awaited /\ Listed /\ Collected /\ Usable
  BY DEF Init, Awaited, Listed, Collected, Usable, Unpainted
<1>6. QED
  BY <1>1, <1>2, <1>3, <1>4, <1>5 DEF IInv

\* What a step of one thread leaves as it is.
LEMMA FillUnmoved ==
  ASSUME IInv, UNCHANGED <<tiles, dirty, pcF, target, area, todo, tilesAll, wait, fills>>
  PROVE  /\ TilesTyped' /\ FillTyped'
         /\ MadeInOrder' /\ Awaited' /\ Listed' /\ Collected' /\ Usable'
<1>1. TilesTyped' /\ FillTyped'
  BY DEF IInv, TilesTyped, FillTyped
<1>2. MadeInOrder' /\ Awaited' /\ Listed' /\ Collected' /\ Usable'
  BY DEF IInv, MadeInOrder, MadeIn, Awaited, Listed, Unpainted, Collected, Usable, Ready
<1>3. QED
  BY <1>1, <1>2

LEMMA BackUnmoved ==
  ASSUME IInv, UNCHANGED <<pcB, current, stop, job>>
  PROVE  BackTyped' /\ JobsTyped'
BY DEF IInv, BackTyped, JobsTyped

LEMMA JobsUnmoved ==
  ASSUME IInv, UNCHANGED <<tiles, dirty, pcB, current, job>>
  PROVE  PaintsAlone' /\ Jobs'
BY DEF IInv, PaintsAlone, Jobs

\* What is left of a tile when it is invalidated or touched.
Alike ==
  \A r \in Renders, x \in Slots :
    tiles'[r][x].area = tiles[r][x].area /\ tiles'[r][x].painted = tiles[r][x].painted

LEMMA AlikeJobs ==
  ASSUME IInv, Alike, UNCHANGED <<dirty, pcB, current, job>>
  PROVE  PaintsAlone' /\ Jobs'
<1>1. ASSUME NEW w \in Workers, job[w] # NoJob
      PROVE  job[w].tile \in Slots /\ current \in Renders /\ pcB = "pool"
  BY <1>1 DEF IInv, Jobs, BackTyped, Phases
<1>2. Jobs'
  BY <1>1 DEF IInv, Jobs, Alike
<1>3. PaintsAlone'
  BY <1>1 DEF IInv, PaintsAlone, Alike
<1>4. QED
  BY <1>2, <1>3

LEMMA AlikeTiles ==
  ASSUME IInv, Alike, UNCHANGED <<dirty, target>>, tilesAll \subseteq tilesAll'
  PROVE  MadeInOrder' /\ Awaited' /\ Listed'
<1>1. \A r \in Renders : MadeIn(r)' = MadeIn(r)
  BY DEF Alike, MadeIn
<1>2. MadeInOrder'
  BY <1>1 DEF IInv, MadeInOrder
<1>3. \A r \in Renders, x \in Slots : Unpainted(r, x)' <=> Unpainted(r, x)
  BY DEF Alike, Unpainted
<1>4. Awaited'
  BY <1>3 DEF IInv, Awaited
<1>5. Listed'
  BY <1>3 DEF IInv, Listed, ListsTyped
<1>6. QED
  BY <1>2, <1>4, <1>5

LEMMA NewInv ==
  ASSUME IInv, NEW r \in Renders, New(r)
  PROVE  IInv'
<1>1. UNCHANGED <<tiles, ticks, dirty, done, dirtyAll, dirtySem, reschedule, pcF, target, area,
                  todo, tilesAll, wait, fills, pcB, current, stop, job>>
  BY DEF New, sharedVars, fillVars, backVars
<1>2. /\ pcF = "idle" /\ life[r] = "none"
      /\ life' = [life EXCEPT ![r] = "open"] /\ refs' = [refs EXCEPT ![r] = 1]
  BY DEF New
<1>3. CountsTyped' /\ ListsTyped'
  BY <1>1, <1>2 DEF IInv, CountsTyped, ListsTyped
<1>4. References' /\ Phases'
  BY <1>1, <1>2 DEF IInv, CountsTyped, References, Phases
<1>5. QED
  BY <1>1, <1>3, <1>4, FillUnmoved, BackUnmoved, JobsUnmoved DEF IInv

\* A reference is given back by who has it.
LEMMA DropRefs ==
  ASSUME IInv, NEW r \in Renders, refs' = [refs EXCEPT ![r] = @ - 1],
         life[r] = "open" \/ (current = r /\ pcB = "unref")
  PROVE  refs[r] \in {1, 2} /\ refs[r] - 1 \in Nat /\ refs' \in [Renders -> Nat]
<1>1. refs[r] \in {1, 2}
  BY DEF IInv, References
<1>2. refs[r] - 1 \in Nat
  BY <1>1
<1>3. QED
  BY <1>1, <1>2 DEF IInv, CountsTyped

LEMMA CloseInv ==
  ASSUME IInv, NEW r \in Renders, Close(r)
  PROVE  IInv'
<1>1. UNCHANGED <<tiles, ticks, dirty, done, dirtyAll, dirtySem, reschedule, pcF, target, area, todo,
                  tilesAll, wait, fills, pcB, current, stop, job>>
  BY DEF Close, sharedVars, fillVars, backVars
<1>2. PICK end \in {"dying", "closing"} : life' = [life EXCEPT ![r] = end]
  BY DEF Close
<1>3. life[r] = "open" /\ refs' = [refs EXCEPT ![r] = @ - 1] /\ target # r
  BY NoneAssumption DEF Close, IInv, Phases
<1>4. refs[r] - 1 \in Nat /\ refs' \in [Renders -> Nat]
  BY <1>3, DropRefs
<1>5. CountsTyped' /\ ListsTyped'
  BY <1>1, <1>2, <1>4 DEF IInv, CountsTyped, ListsTyped
<1>6. References'
  <2>1. refs[r] - 1 = IF current = r /\ pcB # "free" THEN 1 ELSE 0
    BY <1>3 DEF IInv, References
  <2>2. ASSUME NEW q \in Renders
        PROVE  refs'[q] = (IF life'[q] = "open" THEN 1 ELSE 0)
                          + (IF current = q /\ pcB # "free" THEN 1 ELSE 0)
    <3>1. CASE q = r
      BY <1>2, <1>3, <1>4, <2>1, <3>1 DEF IInv, CountsTyped
    <3>2. CASE q # r
      BY <1>2, <1>3, <1>4, <3>2 DEF IInv, CountsTyped, References
    <3>3. QED
      BY <3>1, <3>2
  <2>3. \A q \in Renders : life'[q] = "none" => current # q /\ q \notin dirtyAll
    BY <1>2 DEF IInv, CountsTyped, References
  <2>4. \A q \in Renders : current = q /\ pcB = "free" => life'[q] # "open"
    BY <1>2 DEF IInv, CountsTyped, References
  <2>5. QED
    BY <1>1, <2>2, <2>3, <2>4 DEF References
<1>7. Phases'
  BY <1>1, <1>2, <1>3 DEF IInv, CountsTyped, FillTyped, Phases
<1>8. QED
  BY <1>1, <1>5, <1>6, <1>7, FillUnmoved, BackUnmoved, JobsUnmoved DEF IInv

\* What is left to do when a display image is closed.
LEMMA CloseEndInv ==
  ASSUME IInv, NEW r \in Renders, Free(r) \/ Jog(r)
  PROVE  IInv'
<1>1. UNCHANGED <<refs, tiles, ticks, dirty, done, dirtySem, pcF, target, area, todo,
                  tilesAll, wait, fills, pcB, current, stop, job>>
  BY DEF Free, Jog, fillVars, backVars
<1>2. /\ life[r] \in {"dying", "closing"} /\ dirtyAll' \subseteq dirtyAll
      /\ reschedule' \in BOOLEAN
  BY DEF Free, Jog, Unlist, IInv, ListsTyped
<1>3. PICK end \in {"closing", "closed"} : life' = [life EXCEPT ![r] = end]
  BY DEF Free, Jog
<1>4. CountsTyped' /\ ListsTyped'
  BY <1>1, <1>2, <1>3 DEF IInv, CountsTyped, ListsTyped
<1>5. \A q \in Renders : /\ life'[q] = "open" <=> life[q] = "open"
                         /\ life'[q] = "none" <=> life[q] = "none"
  BY <1>2, <1>3 DEF IInv, CountsTyped
<1>6. References' /\ Phases'
  BY <1>1, <1>2, <1>5 DEF IInv, FillTyped, References, Phases
<1>7. QED
  BY <1>1, <1>4, <1>6, FillUnmoved, BackUnmoved, JobsUnmoved DEF IInv

LEMMA InvalidateInv ==
  ASSUME IInv, NEW r \in Renders, Invalidate(r)
  PROVE  IInv'
<1>1. UNCHANGED <<life, refs, ticks, dirty, done, dirtyAll, dirtySem, reschedule, pcF, target, area,
                  todo, tilesAll, wait, fills, pcB, current, stop, job>>
  BY DEF Invalidate, sharedVars, fillVars, backVars
<1>2. /\ pcF = "idle"
      /\ tiles' = [tiles EXCEPT ![r] = [x \in Slots |->
                     [@[x] EXCEPT !.invalid = tiles[r][x].area # None]]]
  BY DEF Invalidate
<1>3. TilesTyped'
  <2>1. ASSUME NEW x \in Slots
        PROVE  [tiles[r][x] EXCEPT !.invalid = tiles[r][x].area # None] \in Tile
    <3>1. tiles[r][x] \in Tile /\ (tiles[r][x].area # None) \in BOOLEAN
      BY DEF IInv, TilesTyped
    <3>2. QED
      BY <3>1, SizeAssumption, TileTouched
  <2>2. QED
    BY <1>2, <2>1 DEF IInv, TilesTyped
<1>4. Alike
  BY <1>2 DEF IInv, TilesTyped, Tile, Alike
<1>5. CountsTyped' /\ ListsTyped' /\ FillTyped'
  BY <1>1 DEF IInv, CountsTyped, ListsTyped, FillTyped
<1>6. References' /\ Phases'
  BY <1>1 DEF IInv, References, Phases
<1>7. Collected' /\ Usable'
  BY <1>1, <1>2 DEF IInv, Phases, Collected, Usable
<1>8. QED
  BY <1>1, <1>3, <1>4, <1>5, <1>6, <1>7, BackUnmoved, AlikeJobs, AlikeTiles DEF IInv

LEMMA FillStartInv ==
  ASSUME IInv, NEW r \in Renders, NEW a \in Areas, Fill(r, a)
  PROVE  IInv'
<1>1. UNCHANGED <<life, refs, tiles, ticks, dirty, done, dirtyAll, dirtySem, reschedule, pcB, current,
                  stop, job>>
  BY DEF Fill, renderVars, sharedVars, backVars
<1>2. /\ pcF = "idle" /\ life[r] = "open"
      /\ pcF' = "request" /\ target' = r /\ area' = a /\ todo' = a
      /\ tilesAll' = {} /\ wait' = FALSE /\ fills' = fills + 1
  BY DEF Fill
<1>3. CountsTyped' /\ ListsTyped' /\ TilesTyped'
  BY <1>1 DEF IInv, CountsTyped, ListsTyped, TilesTyped
<1>4. FillTyped'
  <2>1. a \in SUBSET Positions
    BY AreasAssumption
  <2>2. QED
    <3>1. fills' \in Nat
      BY <1>2 DEF IInv, FillTyped
    <3>2. /\ target' \in Renders \cup {None} /\ area' \in SUBSET Positions
          /\ todo' \in SUBSET Positions /\ tilesAll' \in SUBSET Slots
      BY <1>2, <2>1
    <3>3. QED
      BY <1>2, <3>1, <3>2 DEF FillTyped
<1>5. References' /\ Phases'
  BY <1>1, <1>2, NoneAssumption DEF IInv, References, Phases
<1>6. MadeInOrder' /\ Awaited' /\ Listed'
  BY <1>1, <1>2 DEF IInv, Phases, MadeInOrder, MadeIn, Awaited, Listed, Unpainted
<1>7. Collected' /\ Usable'
  BY <1>2 DEF Collected, Usable
<1>8. QED
  BY <1>1, <1>3, <1>4, <1>5, <1>6, <1>7, BackUnmoved, JobsUnmoved DEF IInv

\* The list of renders after render_dirty_put.
LEMMA PutParts ==
  ASSUME IInv, NEW r \in Renders, Put(r)
  PROVE  /\ dirtyAll' \in SUBSET Renders /\ dirtySem' \in Nat /\ reschedule' \in BOOLEAN
         /\ dirtyAll' = dirtyAll \cup {r}
<1>1. CASE r \in dirtyAll
  BY <1>1 DEF Put, sharedVars, IInv, ListsTyped
<1>2. CASE r \notin dirtyAll
  BY <1>2 DEF Put, IInv, ListsTyped
<1>3. QED
  BY <1>1, <1>2

LEMMA RequestValidInv ==
  ASSUME IInv, RequestValid
  PROVE  IInv'
<1>1. PICK p \in todo, x \in Slots :
        /\ tiles[target][x].area = p /\ ~tiles[target][x].invalid
        /\ tiles' = [tiles EXCEPT ![target][x].ticks = ticks[target]]
        /\ wait' = (wait \/ ~tiles[target][x].painted)
        /\ Take(p, x)
        /\ UNCHANGED <<dirty, sharedVars>>
  BY DEF RequestValid, At, Upcoming
<1>2. pcF = "request" /\ target \in Renders /\ p \in Positions /\ p # None
  BY NoneAssumption DEF RequestValid, IInv, FillTyped, Phases
<1>3. /\ UNCHANGED <<life, refs, dirty, done, pcF, target, area, fills, dirtyAll, dirtySem, reschedule,
                     pcB, current, stop, job>>
      /\ todo' = todo \ {p} /\ tilesAll' = tilesAll \cup {x}
      /\ ticks' = [ticks EXCEPT ![target] = @ + 1]
  BY <1>1 DEF Take, sharedVars, backVars
<1>4. TilesTyped'
  <2>1. [tiles[target][x] EXCEPT !.ticks = ticks[target]] \in Tile
    <3>1. tiles[target][x] \in Tile /\ ticks[target] \in Nat
      BY <1>2 DEF IInv, TilesTyped, CountsTyped
    <3>2. QED
      BY <3>1, TileTouched
  <2>2. QED
    BY <1>1, <1>2, <2>1 DEF IInv, TilesTyped
<1>5. /\ \A r \in Renders, y \in Slots : tiles'[r][y].invalid = tiles[r][y].invalid
      /\ Alike
  BY <1>1, <1>2 DEF IInv, TilesTyped, Tile, Alike
<1>6. CountsTyped' /\ ListsTyped'
  BY <1>2, <1>3 DEF IInv, CountsTyped, ListsTyped
<1>7. FillTyped'
  <2>1. wait' \in BOOLEAN
    BY <1>1 DEF IInv, FillTyped
  <2>2. QED
    BY <1>3, <2>1 DEF IInv, FillTyped
<1>8. References' /\ Phases'
  BY <1>2, <1>3 DEF IInv, References, Phases
<1>9. Collected'
  BY <1>1, <1>2, <1>3, <1>5 DEF IInv, FillTyped, Collected, Alike
<1>10. Usable'
  <2>1. SUFFICES ASSUME ~wait', NEW y \in tilesAll' PROVE Ready(y)'
    BY <1>2, <1>3 DEF Usable
  <2>2. y \in Slots /\ Ready(y)
    BY <1>1, <1>2, <1>3, <2>1 DEF IInv, FillTyped, Usable, Ready
  <2>3. QED
    BY <1>2, <1>3, <1>5, <2>2 DEF Ready, Alike
<1>11. QED
  BY <1>3, <1>4, <1>5, <1>6, <1>7, <1>8, <1>9, <1>10, BackUnmoved, AlikeJobs, AlikeTiles DEF IInv

\* A tile is queued that no worker is painting.
LEMMA QueueInv ==
  ASSUME IInv, pcF = "request", NEW p \in todo, NEW x \in Slots, NEW invalid \in BOOLEAN,
         Queue(p, x, invalid),
         \E n \in 0 .. MaxTiles : MadeIn(target) \cup {x} = 1 .. n,
         current = target => \A w \in Workers : job[w] # NoJob /\ ~job[w].painted => job[w].tile # x
  PROVE  IInv'
<1> DEFINE new == [area |-> p, painted |-> FALSE, invalid |-> invalid, ticks |-> ticks[target]]
<1>1. target \in Renders /\ life[target] = "open" /\ p \in Positions /\ p # None
  BY NoneAssumption DEF IInv, FillTyped, Phases
<1>2. /\ UNCHANGED <<life, refs, done, pcF, target, area, fills, pcB, current, stop, job>>
      /\ wait' = TRUE /\ todo' = todo \ {p} /\ tilesAll' = tilesAll \cup {x}
      /\ ticks' = [ticks EXCEPT ![target] = @ + 1]
      /\ dirty' = [dirty EXCEPT ![target] = @ \cup {x}]
      /\ Put(target)
  BY DEF Queue, Take, backVars
<1>3. tiles' = [tiles EXCEPT ![target][x] = new]
  BY DEF Queue
<1>4. new \in Tile /\ new.area = p /\ new.painted = FALSE
  BY <1>1 DEF Tile, IInv, CountsTyped
<1> HIDE DEF new
<1>5. /\ TilesTyped' /\ tiles'[target][x] = new
      /\ \A q \in Renders, y \in Slots : q # target \/ y # x => tiles'[q][y] = tiles[q][y]
  BY <1>1, <1>3, <1>4 DEF IInv, TilesTyped
<1>6. /\ dirtyAll' \in SUBSET Renders /\ dirtySem' \in Nat /\ reschedule' \in BOOLEAN
      /\ dirtyAll' = dirtyAll \cup {target}
  BY <1>1, <1>2, PutParts
<1>7. CountsTyped' /\ ListsTyped' /\ FillTyped'
  BY <1>1, <1>2, <1>6 DEF IInv, CountsTyped, ListsTyped, FillTyped
<1>8. ASSUME NEW w \in Workers, job[w] # NoJob
      PROVE  /\ pcB = "pool" /\ job[w].tile \in Slots /\ current \in Renders
             /\ ~job[w].painted => tiles'[current][job[w].tile] = tiles[current][job[w].tile]
             /\ ~job[w].painted => current # target \/ job[w].tile # x
  BY <1>5, <1>8 DEF IInv, Jobs, BackTyped, Phases
<1>9. Jobs'
  BY <1>2, <1>8 DEF IInv, Jobs
<1>10. PaintsAlone'
  <2>1. ASSUME NEW w \in Workers, job[w] # NoJob, ~job[w].painted
        PROVE  ~tiles'[current][job[w].tile].painted /\ job[w].tile \notin dirty'[current]
    BY <1>1, <1>2, <1>8, <2>1 DEF IInv, PaintsAlone, ListsTyped
  <2>2. QED
    BY <1>2, <2>1 DEF IInv, PaintsAlone
<1>11. References' /\ Phases'
  BY <1>1, <1>2, <1>6 DEF IInv, References, Phases
<1>12. MadeInOrder'
  <2>1. MadeIn(target)' = MadeIn(target) \cup {x}
    BY <1>1, <1>2, <1>4, <1>5 DEF MadeIn
  <2>2. ASSUME NEW q \in Renders, q # target PROVE MadeIn(q)' = MadeIn(q)
    BY <1>5, <2>2 DEF MadeIn
  <2>3. QED
    BY <1>2, <2>1, <2>2 DEF IInv, MadeInOrder
<1>13. \A q \in Renders, y \in Slots :
         Unpainted(q, y)' <=> Unpainted(q, y) \/ (q = target /\ y = x)
  BY <1>1, <1>4, <1>5 DEF Unpainted
<1>14. Awaited' /\ Listed'
  BY <1>1, <1>2, <1>13 DEF IInv, ListsTyped, Awaited, Listed
<1>15. Collected' /\ Usable'
  BY <1>1, <1>2, <1>4, <1>5 DEF IInv, FillTyped, Collected, Usable
<1>16. QED
  BY <1>2, <1>5, <1>7, <1>9, <1>10, <1>11, <1>12, <1>14, <1>15, BackUnmoved DEF IInv

\* There are as many tiles made as the number of the last.
LEMMA LastMade ==
  ASSUME IInv, target \in Renders
  PROVE  \E n \in 0 .. MaxTiles : MadeIn(target) = 1 .. n /\ Made = 1 .. n /\ Cardinality(Made) = n
<1>1. PICK n \in 0 .. MaxTiles : MadeIn(target) = 1 .. n
  BY DEF IInv, MadeInOrder
<1>2. Made = 1 .. n
  BY <1>1 DEF Made, MadeIn
<1>3. Cardinality(1 .. n) = n
  BY FS_Interval, SizeAssumption
<1>4. QED
  BY <1>1, <1>2, <1>3

LEMMA RequestInvalidInv ==
  ASSUME IInv, RequestInvalid
  PROVE  IInv'
<1>1. PICK p \in todo, x \in Slots : tiles[target][x].area = p /\ Queue(p, x, TRUE)
  BY DEF RequestInvalid, At, Upcoming
<1>2. pcF = "request" /\ target \in Renders /\ p # None /\ x \in MadeIn(target)
  BY <1>1, NoneAssumption DEF RequestInvalid, IInv, FillTyped, Phases, MadeIn
<1>3. \E n \in 0 .. MaxTiles : MadeIn(target) \cup {x} = 1 .. n
  BY <1>2 DEF IInv, MadeInOrder
<1>4. x \notin tilesAll
  BY <1>1 DEF IInv, Collected
<1>5. tiles[target][x].painted
  BY <1>2, <1>4 DEF IInv, Awaited, Unpainted, MadeIn
<1>6. current = target => \A w \in Workers : job[w] # NoJob /\ ~job[w].painted => job[w].tile # x
  BY <1>5 DEF IInv, PaintsAlone
<1>7. QED
  BY <1>1, <1>2, <1>3, <1>6, QueueInv

LEMMA RequestNewInv ==
  ASSUME IInv, RequestNew
  PROVE  IInv'
<1>1. PICK p \in todo : Cardinality(Made) < MaxTiles /\ Queue(p, Cardinality(Made) + 1, FALSE)
  BY DEF RequestNew, Upcoming
<1>2. pcF = "request" /\ target \in Renders
  BY DEF RequestNew, IInv, FillTyped, Phases
<1>3. PICK n \in 0 .. MaxTiles : MadeIn(target) = 1 .. n /\ Cardinality(Made) = n
  BY <1>2, LastMade
<1>4. PICK x \in Slots : x = Cardinality(Made) + 1
  BY <1>1, <1>3, SizeAssumption DEF Slots
<1>5. x \notin MadeIn(target) /\ MadeIn(target) \cup {x} = 1 .. x /\ x \in 0 .. MaxTiles
  BY <1>3, <1>4, SizeAssumption DEF Slots
<1>6. current = target => \A w \in Workers : job[w] # NoJob /\ ~job[w].painted => job[w].tile # x
  BY <1>5 DEF IInv, Jobs, MadeIn
<1>7. Queue(p, x, FALSE)
  BY <1>1, <1>4
<1>8. QED
  BY <1>2, <1>5, <1>6, <1>7, QueueInv

LEMMA RequestReuseInv ==
  ASSUME IInv, RequestReuse
  PROVE  IInv'
<1>1. PICK p \in todo : \E x \in IF Painted # {} THEN OldestPainted ELSE dirty[target] : Queue(p, x, FALSE)
  BY DEF RequestReuse, Upcoming
<1>2. PICK x : (x \in Painted \/ x \in dirty[target]) /\ Queue(p, x, FALSE)
  BY <1>1 DEF OldestPainted
<1>3. pcF = "request" /\ target \in Renders
  BY DEF RequestReuse, IInv, FillTyped, Phases
<1>4. x \in Slots /\ x \in MadeIn(target)
  BY <1>2, <1>3 DEF Painted, Made, MadeIn, IInv, ListsTyped, Listed, Unpainted
<1>5. \E n \in 0 .. MaxTiles : MadeIn(target) \cup {x} = 1 .. n
  BY <1>3, <1>4 DEF IInv, MadeInOrder
<1>6. current = target => \A w \in Workers : job[w] # NoJob /\ ~job[w].painted => job[w].tile # x
  BY <1>2 DEF IInv, PaintsAlone, Painted
<1>7. QED
  BY <1>2, <1>3, <1>4, <1>5, <1>6, QueueInv

\* The steps of the fill after its requests.
LEMMA WaitInv ==
  ASSUME IInv, RequestsEnd \/ Down \/ Check
  PROVE  IInv'
<1>1. UNCHANGED <<life, refs, tiles, ticks, dirty, dirtyAll, dirtySem, reschedule, target, area,
                  todo, tilesAll, wait, fills, pcB, current, stop, job>>
  BY DEF RequestsEnd, Down, Check, renderVars, sharedVars, backVars
<1>2. /\ pcF \in {"request", "down", "check"} /\ pcF' \in {"down", "check", "copy"}
      /\ pcF' = "copy" => (pcF = "request" /\ ~wait) \/ \A x \in tilesAll : Ready(x)
  BY DEF RequestsEnd, Down, Check
<1>3. done' \in [Renders -> Nat]
  <2>1. CASE Down
    <3>1. target \in Renders /\ done[target] \in Nat /\ done[target] > 0
      BY <2>1 DEF Down, IInv, CountsTyped, FillTyped, Phases
    <3>2. done[target] - 1 \in Nat
      BY <3>1
    <3>3. QED
      BY <2>1, <3>1, <3>2 DEF Down, IInv, CountsTyped
  <2>2. CASE RequestsEnd \/ Check
    BY <2>2 DEF RequestsEnd, Check, renderVars, IInv, CountsTyped
  <2>3. QED
    BY <2>1, <2>2
<1>4. CountsTyped' /\ ListsTyped' /\ TilesTyped'
  BY <1>1, <1>3 DEF IInv, CountsTyped, ListsTyped, TilesTyped
<1>5. FillTyped'
  BY <1>1, <1>2 DEF IInv, FillTyped
<1>6. References' /\ Phases'
  BY <1>1, <1>2 DEF IInv, References, Phases
<1>7. MadeInOrder' /\ Awaited' /\ Listed' /\ Collected'
  BY <1>1 DEF IInv, MadeInOrder, MadeIn, Awaited, Listed, Unpainted, Collected
<1>8. Usable'
  BY <1>1, <1>2 DEF IInv, Usable, Ready
<1>9. QED
  BY <1>1, <1>4, <1>5, <1>6, <1>7, <1>8, BackUnmoved, JobsUnmoved DEF IInv

LEMMA CopyInv ==
  ASSUME IInv, Copy
  PROVE  IInv'
<1>1. UNCHANGED <<life, refs, tiles, ticks, dirty, done, dirtyAll, dirtySem, reschedule, todo, fills,
                  pcB, current, stop, job>>
  BY DEF Copy, renderVars, sharedVars, backVars
<1>2. /\ pcF = "copy" /\ pcF' = "idle" /\ target' = None /\ area' = {} /\ tilesAll' = {}
      /\ wait' = FALSE
  BY DEF Copy
<1>3. CountsTyped' /\ ListsTyped' /\ TilesTyped'
  BY <1>1 DEF IInv, CountsTyped, ListsTyped, TilesTyped
<1>4. FillTyped'
  BY <1>1, <1>2 DEF IInv, FillTyped
<1>5. References' /\ Phases'
  BY <1>1, <1>2 DEF IInv, References, Phases
<1>6. \A r \in Renders, x \in Slots : ~Unpainted(r, x)
  BY <1>2 DEF IInv, Awaited, Unpainted, Usable, Ready
<1>7. MadeInOrder' /\ Awaited' /\ Listed'
  BY <1>1, <1>6 DEF IInv, MadeInOrder, MadeIn, Awaited, Listed, Unpainted
<1>8. Collected' /\ Usable'
  BY <1>2 DEF Collected, Usable
<1>9. QED
  BY <1>1, <1>3, <1>4, <1>5, <1>7, <1>8, BackUnmoved, JobsUnmoved DEF IInv

LEMMA WakeInv ==
  ASSUME IInv, Wake \/ GetNone \/ GetDying
  PROVE  IInv'
<1>1. UNCHANGED <<life, refs, tiles, ticks, dirty, done, dirtyAll, reschedule, pcF, target, area,
                  todo, tilesAll, wait, fills, current, stop, job>>
  BY DEF Wake, GetNone, GetDying, renderVars, sharedVars, fillVars
<1>2. pcB \in {"down", "get"} /\ pcB' \in {"get", "end", "abort"}
  BY DEF Wake, GetNone, GetDying
<1>3. dirtySem' \in Nat
  <2>1. CASE Wake
    <3>1. dirtySem \in Nat /\ dirtySem > 0 /\ dirtySem' = dirtySem - 1
      BY <2>1 DEF Wake, IInv, ListsTyped
    <3>2. QED
      BY <3>1
  <2>2. CASE GetNone \/ GetDying
    BY <2>2 DEF GetNone, GetDying, sharedVars, IInv, ListsTyped
  <2>3. QED
    BY <2>1, <2>2
<1>4. CountsTyped' /\ ListsTyped' /\ BackTyped' /\ JobsTyped'
  BY <1>1, <1>2, <1>3 DEF IInv, CountsTyped, ListsTyped, BackTyped, JobsTyped
<1>5. References' /\ Phases'
  BY <1>1, <1>2 DEF IInv, References, Phases
<1>6. \A w \in Workers : job[w] = NoJob
  BY <1>2 DEF IInv, Jobs
<1>7. PaintsAlone' /\ Jobs'
  BY <1>1, <1>6 DEF PaintsAlone, Jobs
<1>8. QED
  BY <1>1, <1>4, <1>5, <1>7, FillUnmoved DEF IInv

LEMMA GetInv ==
  ASSUME IInv, Get
  PROVE  IInv'
<1>1. UNCHANGED <<life, tiles, ticks, dirty, done, dirtySem, reschedule, pcF, target, area,
                  todo, tilesAll, wait, fills, stop, job>>
  BY DEF Get, fillVars
<1>2. PICK r \in dirtyAll : /\ current' = r /\ refs' = [refs EXCEPT ![r] = @ + 1]
                            /\ dirtyAll' = dirtyAll \ {r}
  BY DEF Get
<1>3. pcB = "get" /\ pcB' = "start" /\ r \in Renders /\ current = None /\ r # None
  BY NoneAssumption DEF Get, IInv, ListsTyped, Phases
<1>4. CountsTyped' /\ ListsTyped'
  BY <1>1, <1>2, <1>3 DEF IInv, CountsTyped, ListsTyped
<1>5. BackTyped' /\ JobsTyped'
  BY <1>1, <1>2, <1>3 DEF IInv, BackTyped, JobsTyped
<1>6. References'
  <2>1. ASSUME NEW q \in Renders
        PROVE  refs'[q] = (IF life[q] = "open" THEN 1 ELSE 0) + (IF r = q THEN 1 ELSE 0)
    BY <1>2, <1>3, NoneAssumption DEF IInv, CountsTyped, References
  <2>2. \A q \in Renders : life[q] = "none" => r # q /\ q \notin dirtyAll'
    BY <1>2 DEF IInv, References
  <2>3. QED
    BY <1>1, <1>2, <1>3, <2>1, <2>2 DEF References
<1>7. Phases'
  BY <1>1, <1>2, <1>3 DEF IInv, Phases
<1>8. \A w \in Workers : job[w] = NoJob
  BY <1>3 DEF IInv, Jobs
<1>9. PaintsAlone' /\ Jobs'
  BY <1>1, <1>8 DEF PaintsAlone, Jobs
<1>10. QED
  BY <1>1, <1>4, <1>5, <1>6, <1>7, <1>9, FillUnmoved DEF IInv

\* The pool starts, is told to stop, or has stopped.
LEMMA PoolInv ==
  ASSUME IInv, Start \/ PoolEnd \/ AllocateStop
  PROVE  IInv'
<1>1. UNCHANGED <<life, refs, tiles, ticks, dirty, done, dirtyAll, dirtySem, pcF, target, area,
                  todo, tilesAll, wait, fills, current, job>>
  BY DEF Start, PoolEnd, AllocateStop, renderVars, sharedVars, fillVars
<1>2. /\ pcB \in {"start", "pool"} /\ pcB' \in {"pool", "put"} /\ stop' \in BOOLEAN
      /\ reschedule' \in BOOLEAN
      /\ pcB' = "put" => \A w \in Workers : job[w] = NoJob
  BY DEF Start, PoolEnd, AllocateStop, sharedVars, IInv, BackTyped, ListsTyped
<1>3. CountsTyped' /\ ListsTyped' /\ BackTyped' /\ JobsTyped'
  BY <1>1, <1>2 DEF IInv, CountsTyped, ListsTyped, BackTyped, JobsTyped
<1>4. References' /\ Phases'
  BY <1>1, <1>2 DEF IInv, References, Phases
<1>5. PaintsAlone' /\ Jobs'
  BY <1>1, <1>2 DEF IInv, PaintsAlone, Jobs
<1>6. QED
  BY <1>1, <1>3, <1>4, <1>5, FillUnmoved DEF IInv

LEMMA PutBackInv ==
  ASSUME IInv, PutBack
  PROVE  IInv'
<1>1. UNCHANGED <<life, refs, tiles, ticks, dirty, done, pcF, target, area, todo, tilesAll, wait,
                  fills, current, stop, job>>
  BY DEF PutBack, renderVars, fillVars
<1>2. pcB = "put" /\ pcB' = "unref" /\ current \in Renders /\ life[current] # "none"
  BY DEF PutBack, IInv, BackTyped, Phases, References
<1>3. /\ dirtyAll' \in SUBSET (dirtyAll \cup {current}) /\ dirtyAll' \in SUBSET Renders
      /\ dirtySem' \in Nat /\ reschedule' \in BOOLEAN
  <2>1. CASE dirty[current] = {}
    BY <2>1 DEF PutBack, sharedVars, IInv, ListsTyped
  <2>2. CASE dirty[current] # {}
    BY <1>2, <2>2, PutParts DEF PutBack
  <2>3. QED
    BY <2>1, <2>2
<1>4. CountsTyped' /\ ListsTyped'
  BY <1>1, <1>3 DEF IInv, CountsTyped, ListsTyped
<1>5. BackTyped' /\ JobsTyped'
  BY <1>1, <1>2 DEF IInv, BackTyped, JobsTyped
<1>6. References' /\ Phases'
  BY <1>1, <1>2, <1>3 DEF IInv, References, Phases
<1>7. \A w \in Workers : job[w] = NoJob
  BY <1>2 DEF IInv, Jobs
<1>8. PaintsAlone' /\ Jobs'
  BY <1>1, <1>7 DEF PaintsAlone, Jobs
<1>9. QED
  BY <1>1, <1>4, <1>5, <1>6, <1>8, FillUnmoved DEF IInv

LEMMA UnrefInv ==
  ASSUME IInv, Unref
  PROVE  IInv'
<1>1. UNCHANGED <<life, tiles, ticks, dirty, done, dirtyAll, dirtySem, reschedule, pcF, target, area,
                  todo, tilesAll, wait, fills, stop, job>>
  BY DEF Unref, sharedVars, fillVars
<1>2. /\ pcB = "unref" /\ current \in Renders /\ refs' = [refs EXCEPT ![current] = @ - 1]
      /\ \/ pcB' = "free" /\ current' = current
         \/ pcB' = "down" /\ current' = None
  BY DEF Unref, IInv, BackTyped, Phases
<1>3. refs[current] - 1 \in Nat /\ refs' \in [Renders -> Nat]
  BY <1>2, DropRefs
<1>4. CountsTyped' /\ ListsTyped'
  BY <1>1, <1>3 DEF IInv, CountsTyped, ListsTyped
<1>5. BackTyped' /\ JobsTyped'
  BY <1>1, <1>2 DEF IInv, BackTyped, JobsTyped
<1>6. References'
  <2>1. refs[current] - 1 = IF life[current] = "open" THEN 1 ELSE 0
    BY <1>2 DEF IInv, References
  <2>2. \A q \in Renders : ~(current' = q /\ pcB' # "free")
    BY <1>2, NoneAssumption
  <2>3. ASSUME NEW q \in Renders PROVE refs'[q] = IF life[q] = "open" THEN 1 ELSE 0
    <3>1. CASE q = current
      BY <1>2, <1>3, <2>1, <3>1 DEF IInv, CountsTyped
    <3>2. CASE q # current
      BY <1>2, <3>2 DEF IInv, CountsTyped, References
    <3>3. QED
      BY <3>1, <3>2
  <2>4. \A q \in Renders : life[q] = "none" => current' # q /\ q \notin dirtyAll
    BY <1>2, NoneAssumption DEF IInv, References
  <2>5. pcB' = "free" => life[current] # "open"
    BY <1>2 DEF Unref, IInv, References
  <2>6. QED
    BY <1>1, <1>2, <2>2, <2>3, <2>4, <2>5 DEF References
<1>7. Phases'
  BY <1>1, <1>2, NoneAssumption DEF IInv, Phases
<1>8. \A w \in Workers : job[w] = NoJob
  BY <1>2 DEF IInv, Jobs
<1>9. PaintsAlone' /\ Jobs'
  BY <1>1, <1>8 DEF PaintsAlone, Jobs
<1>10. QED
  BY <1>1, <1>4, <1>5, <1>6, <1>7, <1>9, FillUnmoved DEF IInv

LEMMA FreeCurrentInv ==
  ASSUME IInv, FreeCurrent
  PROVE  IInv'
<1>1. UNCHANGED <<life, refs, tiles, ticks, dirty, done, dirtySem, reschedule, pcF, target, area,
                  todo, tilesAll, wait, fills, stop, job>>
  BY DEF FreeCurrent, renderVars, fillVars
<1>2. /\ pcB = "free" /\ pcB' = "down" /\ current' = None /\ dirtyAll' \subseteq dirtyAll
  BY DEF FreeCurrent, Unlist
<1>3. CountsTyped' /\ ListsTyped' /\ BackTyped' /\ JobsTyped'
  BY <1>1, <1>2 DEF IInv, CountsTyped, ListsTyped, BackTyped, JobsTyped
<1>4. References' /\ Phases'
  BY <1>1, <1>2, NoneAssumption DEF IInv, References, Phases
<1>5. \A w \in Workers : job[w] = NoJob
  BY <1>2 DEF IInv, Jobs
<1>6. PaintsAlone' /\ Jobs'
  BY <1>1, <1>5 DEF PaintsAlone, Jobs
<1>7. QED
  BY <1>1, <1>3, <1>4, <1>6, FillUnmoved DEF IInv

LEMMA AllocateInv ==
  ASSUME IInv, NEW w \in Workers, Allocate(w)
  PROVE  IInv'
<1>1. PICK x \in dirty[current] : /\ job' = [job EXCEPT ![w] = [tile |-> x, painted |-> FALSE]]
                                  /\ dirty' = [dirty EXCEPT ![current] = @ \ {x}]
  BY DEF Allocate
<1>2. UNCHANGED <<life, refs, tiles, ticks, done, dirtyAll, dirtySem, reschedule, pcF, target, area,
                  todo, tilesAll, wait, fills, pcB, current, stop>>
  BY DEF Allocate, sharedVars, fillVars
<1>3. pcB = "pool" /\ job[w] = NoJob /\ current \in Renders
  BY DEF Allocate, IInv, BackTyped, Phases
<1>4. x \in Slots /\ Unpainted(current, x)
  BY <1>3 DEF IInv, ListsTyped, Listed
<1>5. CountsTyped' /\ ListsTyped' /\ TilesTyped' /\ FillTyped' /\ BackTyped'
  BY <1>1, <1>2, <1>3 DEF IInv, CountsTyped, ListsTyped, TilesTyped, FillTyped, BackTyped
<1>6. JobsTyped'
  BY <1>1, <1>4 DEF IInv, JobsTyped
<1>7. \A v \in Workers : job'[v] = IF v = w THEN [tile |-> x, painted |-> FALSE] ELSE job[v]
  BY <1>1 DEF IInv, JobsTyped
<1>8. References' /\ Phases'
  BY <1>2 DEF IInv, References, Phases
<1>9. MadeInOrder' /\ Awaited' /\ Collected' /\ Usable'
  BY <1>2 DEF IInv, MadeInOrder, MadeIn, Awaited, Unpainted, Collected, Usable, Ready
<1>10. Listed'
  BY <1>1, <1>2 DEF IInv, ListsTyped, Listed, Unpainted
<1>11. Jobs'
  BY <1>2, <1>3, <1>4, <1>7 DEF IInv, Jobs, Unpainted
<1>12. PaintsAlone'
  <2>1. dirty'[current] = dirty[current] \ {x}
    BY <1>1, <1>3 DEF IInv, ListsTyped
  <2>2. ~tiles[current][x].painted /\ x \notin dirty'[current]
    BY <1>4, <2>1 DEF Unpainted
  <2>3. \A v \in Workers : job[v] # NoJob /\ ~job[v].painted => job[v].tile # x
    BY DEF IInv, PaintsAlone
  <2>4. \A v \in Workers : job[v].tile = x => job[v].painted
    <3>1. NoJob.tile = None /\ x # None
      BY <1>4, NoneAssumption DEF NoJob, Slots
    <3>2. QED
      BY <2>3, <3>1
  <2>5. [tile |-> x, painted |-> FALSE].tile = x
    OBVIOUS
  <2> DEFINE new == [tile |-> x, painted |-> FALSE]
  <2>6. new.tile = x /\ ~new.painted /\ \A v \in Workers : job'[v] = IF v = w THEN new ELSE job[v]
    BY <1>7
  <2> HIDE DEF new
  <2>7. ASSUME NEW u \in Workers, job'[u] # NoJob, ~job'[u].painted
        PROVE  /\ ~tiles[current][job'[u].tile].painted
               /\ job'[u].tile \notin dirty'[current]
               /\ \A v \in Workers \ {u} : job'[v].tile = job'[u].tile => job'[v].painted
    <3>1. CASE u = w
      BY <2>2, <2>4, <2>6, <3>1
    <3>2. CASE u # w
      BY <2>1, <2>3, <2>6, <2>7, <3>2 DEF IInv, PaintsAlone
    <3>3. QED
      BY <3>1, <3>2
  <2>8. QED
    BY <1>2, <2>7 DEF PaintsAlone
<1>13. QED
  BY <1>5, <1>6, <1>8, <1>9, <1>10, <1>11, <1>12 DEF IInv

LEMMA PaintInv ==
  ASSUME IInv, NEW w \in Workers, Paint(w)
  PROVE  IInv'
<1> DEFINE x == job[w].tile
<1>1. /\ UNCHANGED <<life, refs, ticks, dirty, done, dirtyAll, dirtySem, reschedule, pcF, target, area,
                     todo, tilesAll, wait, fills, pcB, current, stop>>
      /\ job[w] # NoJob /\ ~job[w].painted
      /\ job' = [job EXCEPT ![w].painted = TRUE]
  BY DEF Paint, sharedVars, fillVars
<1>2. x \in Slots /\ current \in Renders /\ pcB = "pool"
  BY <1>1 DEF IInv, Jobs, BackTyped, Phases
<1>3. PICK invalid \in {FALSE, tiles[current][x].invalid} :
        tiles' = [tiles EXCEPT ![current][x] = [@ EXCEPT !.painted = TRUE, !.invalid = invalid]]
  BY DEF Paint
<1>4. /\ ~tiles[current][x].painted /\ x \notin dirty[current]
      /\ \A v \in Workers \ {w} : job[v].tile = x => job[v].painted
  BY <1>1 DEF IInv, PaintsAlone
<1> HIDE DEF x
<1> DEFINE new == [tiles[current][x] EXCEPT !.painted = TRUE, !.invalid = invalid]
<1>5. tiles' = [tiles EXCEPT ![current][x] = new]
  BY <1>3
<1>6. new \in Tile
  <2>1. tiles[current][x] \in Tile
    BY <1>2 DEF IInv, TilesTyped
  <2>2. invalid \in BOOLEAN
    BY <1>3, <2>1 DEF Tile
  <2>3. QED
    BY <2>1, <2>2, SizeAssumption, TileTouched
<1>7. /\ new.painted = TRUE /\ new.area = tiles[current][x].area
      /\ ~tiles[current][x].invalid => ~new.invalid
  <2>1. tiles[current][x] \in Tile
    BY <1>2 DEF IInv, TilesTyped
  <2>2. new.painted = TRUE /\ new.area = tiles[current][x].area /\ new.invalid = invalid
    BY <2>1 DEF Tile
  <2> HIDE DEF new
  <2>3. QED
    BY <1>3, <2>2
<1> HIDE DEF new
<1>8. /\ TilesTyped' /\ tiles'[current][x] = new
      /\ \A q \in Renders, y \in Slots : q # current \/ y # x => tiles'[q][y] = tiles[q][y]
  BY <1>2, <1>5, <1>6 DEF IInv, TilesTyped
<1>9. /\ JobsTyped' /\ job'[w].tile = x /\ job'[w].painted
      /\ \A v \in Workers \ {w} : job'[v] = job[v]
  BY <1>1 DEF IInv, JobsTyped, x
<1>10. CountsTyped' /\ ListsTyped' /\ FillTyped' /\ BackTyped' /\ References' /\ Phases'
  BY <1>1 DEF IInv, CountsTyped, ListsTyped, FillTyped, BackTyped, References, Phases
<1>11. MadeInOrder'
  <2>1. \A r \in Renders : MadeIn(r)' = MadeIn(r)
    BY <1>2, <1>7, <1>8 DEF MadeIn
  <2>2. QED
    BY <2>1 DEF IInv, MadeInOrder
<1>12. \A q \in Renders, y \in Slots :
         Unpainted(q, y)' <=> Unpainted(q, y) /\ ~(q = current /\ y = x)
  BY <1>2, <1>7, <1>8 DEF Unpainted
<1>13. Awaited' /\ Listed'
  BY <1>1, <1>4, <1>12 DEF IInv, ListsTyped, Awaited, Listed
<1>14. Collected'
  BY <1>1, <1>2, <1>7, <1>8 DEF IInv, FillTyped, Phases, Collected
<1>15. Usable'
  <2>1. SUFFICES ASSUME pcF = "copy" \/ (pcF = "request" /\ ~wait), NEW y \in tilesAll
                 PROVE  Ready(y)'
    BY <1>1 DEF Usable
  <2>2. y \in Slots /\ target \in Renders /\ Ready(y)
    BY <2>1 DEF IInv, FillTyped, Phases, Usable
  <2>3. QED
    BY <1>1, <1>7, <1>8, <2>2 DEF Ready
<1>16. Jobs'
  <2>1. ASSUME NEW v \in Workers, job'[v] # NoJob
        PROVE  /\ pcB = "pool" /\ job'[v].tile \in Slots
               /\ ~job'[v].painted => tiles'[current][job'[v].tile].area # None
    <3>1. CASE v = w
      BY <1>2, <1>9, <3>1
    <3>2. CASE v # w
      BY <1>2, <1>7, <1>8, <1>9, <2>1, <3>2 DEF IInv, Jobs
    <3>3. QED
      BY <3>1, <3>2
  <2>2. QED
    BY <1>1, <2>1 DEF Jobs
<1>17. PaintsAlone'
  <2>1. ASSUME NEW u \in Workers, job'[u] # NoJob, ~job'[u].painted
        PROVE  /\ ~tiles'[current][job'[u].tile].painted
               /\ job'[u].tile \notin dirty[current]
               /\ \A v \in Workers \ {u} : job'[v].tile = job'[u].tile => job'[v].painted
    <3>1. u # w /\ job'[u] = job[u]
      BY <1>9, <2>1
    <3>2. job[u].tile # x /\ job[u].tile \in Slots
      BY <1>4, <2>1, <3>1 DEF IInv, Jobs
    <3>3. tiles'[current][job[u].tile] = tiles[current][job[u].tile]
      BY <1>2, <1>8, <3>2
    <3>4. QED
      BY <1>9, <2>1, <3>1, <3>2, <3>3 DEF IInv, PaintsAlone
  <2>2. QED
    BY <1>1, <2>1 DEF PaintsAlone
<1>18. QED
  BY <1>8, <1>9, <1>10, <1>11, <1>13, <1>14, <1>15, <1>16, <1>17 DEF IInv

LEMMA AnnounceInv ==
  ASSUME IInv, NEW w \in Workers, Announce(w)
  PROVE  IInv'
<1>1. /\ UNCHANGED <<life, refs, tiles, ticks, dirty, dirtyAll, dirtySem, reschedule, pcF, target,
                     area, todo, tilesAll, wait, fills, pcB, current, stop>>
      /\ done' = [done EXCEPT ![current] = @ + 1] /\ job' = [job EXCEPT ![w] = NoJob]
      /\ job[w].painted
  BY DEF Announce, sharedVars, fillVars
<1>2. job[w] # NoJob /\ current \in Renders
  BY <1>1 DEF NoJob, IInv, Jobs, BackTyped, Phases
<1>3. CountsTyped' /\ ListsTyped' /\ BackTyped'
  BY <1>1, <1>2 DEF IInv, CountsTyped, ListsTyped, BackTyped
<1>4. JobsTyped' /\ \A v \in Workers : job'[v] = IF v = w THEN NoJob ELSE job[v]
  BY <1>1 DEF IInv, JobsTyped, NoJob
<1>5. References' /\ Phases'
  BY <1>1 DEF IInv, References, Phases
<1>6. Jobs'
  BY <1>1, <1>4 DEF IInv, Jobs
<1>7. PaintsAlone'
  <2>1. ASSUME NEW u \in Workers, job'[u] # NoJob, ~job'[u].painted
        PROVE  /\ ~tiles[current][job'[u].tile].painted
               /\ job'[u].tile \notin dirty[current]
               /\ \A v \in Workers \ {u} : job'[v].tile = job'[u].tile => job'[v].painted
    <3>1. u # w /\ job'[u] = job[u] /\ job[u].tile \in Slots
      BY <1>4, <2>1 DEF IInv, Jobs
    <3>2. NoJob.tile # job[u].tile
      BY <3>1, NoneAssumption DEF NoJob, Slots
    <3>3. QED
      BY <1>4, <2>1, <3>1, <3>2 DEF IInv, PaintsAlone
  <2>2. QED
    BY <1>1, <2>1 DEF PaintsAlone
<1>8. QED
  BY <1>1, <1>3, <1>4, <1>5, <1>6, <1>7, FillUnmoved DEF IInv

LEMMA NextInv == IInv /\ [Next]_vars => IInv'
<1> SUFFICES ASSUME IInv, [Next]_vars PROVE IInv'
  OBVIOUS
<1>1. ASSUME NEW r \in Renders, New(r) \/ Close(r) \/ Free(r) \/ Jog(r) \/ Invalidate(r)
      PROVE  IInv'
  BY <1>1, NewInv, CloseInv, CloseEndInv, InvalidateInv
<1>2. ASSUME NEW r \in Renders, NEW a \in Areas, Fill(r, a) PROVE IInv'
  BY <1>2, FillStartInv
<1>3. CASE Processor
  BY <1>3, RequestValidInv, RequestInvalidInv, RequestNewInv, RequestReuseInv, WaitInv, CopyInv
     DEF Processor
<1>4. CASE Background \/ AllocateStop
  BY <1>4, WakeInv, GetInv, PoolInv, PutBackInv, UnrefInv, FreeCurrentInv DEF Background
<1>5. ASSUME NEW w \in Workers, Worker(w) PROVE IInv'
  BY <1>5, AllocateInv, PaintInv, AnnounceInv DEF Worker
<1>6. CASE UNCHANGED vars
  <2>1. UNCHANGED <<life, refs, tiles, ticks, dirty, done, dirtyAll, dirtySem, reschedule, pcF, target,
                    area, todo, tilesAll, wait, fills, pcB, current, stop, job>>
    BY <1>6 DEF vars, renderVars, sharedVars, fillVars, backVars
  <2>2. CountsTyped' /\ ListsTyped' /\ References' /\ Phases'
    BY <2>1 DEF IInv, CountsTyped, ListsTyped, References, Phases
  <2>3. QED
    BY <2>1, <2>2, FillUnmoved, BackUnmoved, JobsUnmoved DEF IInv
<1>7. QED
  BY <1>1, <1>2, <1>3, <1>4, <1>5, <1>6 DEF Next, Rest

LEMMA IInvCorrect == Spec => []IInv
BY InitInv, NextInv, PTL DEF Spec

\* The variables of the screen sink stay in their types: a reference count or a
\* semaphore is never negative, no worker has a tile that does not exist.
THEOREM TypeCorrect == Spec => []TypeOK
<1>1. IInv => TypeOK
  BY DEF IInv, TypeOK, CountsTyped, ListsTyped, TilesTyped, FillTyped, BackTyped, JobsTyped
<1>2. QED
  BY <1>1, IInvCorrect, PTL

\* render_tile_get_painted and render_tile_dirty_reuse never give away a tile that
\* a worker is painting, however large the areas are.
THEOREM PaintsAloneCorrect == Spec => []PaintsAlone
<1>1. IInv => PaintsAlone
  BY DEF IInv
<1>2. QED
  BY <1>1, IInvCorrect, PTL

-----------------------------------------------------------------------------
(* Areas that fit.                                                          *)

\* What the other threads cannot disturb.
LEMMA FillKept ==
  ASSUME FillInv, UNCHANGED <<ticks, pcF, target, area, todo, tilesAll>>,
         tilesAll \subseteq Slots, pcF # "idle" => target \in Renders,
         \A r \in Renders, x \in Slots :
           tiles'[r][x].area = tiles[r][x].area /\ tiles'[r][x].ticks = tiles[r][x].ticks
  PROVE  FillInv'
<1>1. \A r \in Renders : MadeIn(r)' = MadeIn(r)
  BY DEF MadeIn
<1>2. pcF # "idle" =>
        {tiles'[target][x].area : x \in tilesAll} = {tiles[target][x].area : x \in tilesAll}
  OBVIOUS
<1>3. MakesUp'
  BY <1>2 DEF FillInv, MakesUp, Fitting
<1>4. Fresher'
  <2>1. ASSUME NEW r \in Renders, NEW x \in MadeIn(r) PROVE tiles'[r][x].ticks < ticks[r]
    BY DEF FillInv, Fresher, MadeIn
  <2>2. ASSUME Fitting, NEW x \in tilesAll, NEW y \in MadeIn(target) \ tilesAll
        PROVE  tiles'[target][y].ticks < tiles'[target][x].ticks
    BY <2>2 DEF FillInv, Fresher, MadeIn, Fitting
  <2>3. QED
    BY <1>1, <2>1, <2>2 DEF Fresher, Fitting
<1>5. QED
  BY <1>3, <1>4 DEF FillInv

LEMMA FiniteSlots == ASSUME NEW T \in SUBSET Slots PROVE IsFiniteSet(T)
<1>1. IsFiniteSet(Slots)
  BY FS_Interval, SizeAssumption DEF Slots
<1>2. QED
  BY <1>1, FS_Subset

\* A tile that joins those of a fill that fits was not among them.
LEMMA TakeFills ==
  ASSUME IInv, FillInv, pcF = "request", NEW p \in todo, NEW x \in Slots, Take(p, x),
         Fitting => x \notin tilesAll,
         tiles'[target][x].area = p, tiles'[target][x].ticks = ticks[target],
         \A r \in Renders, y \in Slots : r # target \/ y # x =>
           tiles'[r][y].area = tiles[r][y].area /\ tiles'[r][y].ticks = tiles[r][y].ticks
  PROVE  FillInv'
<1>1. target \in Renders /\ tilesAll \subseteq Slots /\ ticks[target] \in Nat /\ p # None
  BY NoneAssumption DEF IInv, FillTyped, CountsTyped, Phases
<1>2. /\ UNCHANGED <<pcF, target, area>>
      /\ todo' = todo \ {p} /\ tilesAll' = tilesAll \cup {x}
      /\ ticks' = [ticks EXCEPT ![target] = @ + 1]
  BY DEF Take
<1>3. MakesUp'
  <2> SUFFICES ASSUME Fitting PROVE MakesUp'
    BY <1>2 DEF MakesUp, Fitting
  <2>1. {tiles'[target][y].area : y \in tilesAll'} = {tiles[target][y].area : y \in tilesAll} \cup {p}
    BY <1>1, <1>2
  <2>2. {tiles'[target][y].area : y \in tilesAll'} \cup todo' = area
    BY <1>2, <2>1 DEF FillInv, MakesUp
  <2>3. IsFiniteSet(todo) /\ Cardinality(tilesAll) + Cardinality(todo) <= MaxTiles
    BY DEF FillInv, MakesUp
  <2>4. IsFiniteSet(tilesAll)
    BY <1>1, FiniteSlots
  <2>5. /\ Cardinality(tilesAll') = Cardinality(tilesAll) + 1 /\ Cardinality(tilesAll) \in Nat
        /\ Cardinality(todo') = Cardinality(todo) - 1 /\ Cardinality(todo) \in Nat
        /\ IsFiniteSet(todo')
    BY <1>2, <2>3, <2>4, FS_AddElement, FS_RemoveElement, FS_CardinalityType
  <2>6. Cardinality(tilesAll') + Cardinality(todo') <= MaxTiles
    BY <2>3, <2>5, SizeAssumption
  <2>7. QED
    BY <1>2, <2>2, <2>5, <2>6 DEF MakesUp
<1>4. Fresher'
  <2>1. \A r \in Renders, y \in Slots : tiles[r][y].ticks \in Nat /\ ticks[r] \in Nat
    BY DEF IInv, TilesTyped, CountsTyped, Tile
  <2>2. ASSUME NEW r \in Renders, NEW y \in MadeIn(r)' PROVE tiles'[r][y].ticks < ticks'[r]
    <3>1. y \in Slots /\ (r # target \/ y # x => y \in MadeIn(r))
      BY DEF MadeIn
    <3>2. tiles'[r][y].ticks <= ticks[r]
      BY <1>1, <2>1, <3>1 DEF FillInv, Fresher
    <3>3. CASE r = target
      BY <1>1, <1>2, <2>1, <3>1, <3>2, <3>3 DEF IInv, CountsTyped
    <3>4. CASE r # target
      BY <1>2, <2>1, <3>1, <3>4 DEF FillInv, Fresher
    <3>5. QED
      BY <3>3, <3>4
  <2>3. ASSUME Fitting, NEW z \in tilesAll', NEW y \in MadeIn(target)' \ tilesAll'
        PROVE  tiles'[target][y].ticks < tiles'[target][z].ticks
    <3>1. y \in MadeIn(target) \ tilesAll /\ y # x /\ y \in Slots
      BY <1>1, <1>2 DEF MadeIn
    <3>2. tiles'[target][y].ticks = tiles[target][y].ticks
      BY <1>1, <3>1
    <3>3. CASE z = x
      BY <1>1, <3>1, <3>2, <3>3 DEF FillInv, Fresher
    <3>4. CASE z # x
      <4>1. z \in tilesAll /\ tiles'[target][z].ticks = tiles[target][z].ticks
        BY <1>1, <1>2, <3>4
      <4>2. QED
        BY <2>3, <3>1, <3>2, <4>1 DEF FillInv, Fresher
    <3>5. QED
      BY <3>3, <3>4
  <2>4. QED
    BY <1>2, <2>2, <2>3 DEF Fresher, Fitting
<1>5. QED
  BY <1>3, <1>4 DEF FillInv

\* A tile that is queued at its new position.
LEMMA QueueFills ==
  ASSUME IInv, FillInv, pcF = "request", NEW p \in todo, NEW x \in Slots,
         NEW invalid \in BOOLEAN, Queue(p, x, invalid), Fitting => x \notin tilesAll
  PROVE  FillInv'
<1> DEFINE new == [area |-> p, painted |-> FALSE, invalid |-> invalid, ticks |-> ticks[target]]
<1>1. target \in Renders
  BY DEF IInv, FillTyped, Phases
<1>2. tiles' = [tiles EXCEPT ![target][x] = new]
  BY DEF Queue
<1>3. new.area = p /\ new.ticks = ticks[target]
  OBVIOUS
<1> HIDE DEF new
<1>4. /\ tiles'[target][x] = new
      /\ \A r \in Renders, y \in Slots : r # target \/ y # x => tiles'[r][y] = tiles[r][y]
  BY <1>1, <1>2 DEF IInv, TilesTyped
<1>5. Take(p, x)
  BY DEF Queue
<1>6. QED
  BY <1>3, <1>4, <1>5, TakeFills

LEMMA RequestValidFills ==
  ASSUME IInv, FillInv, RequestValid
  PROVE  FillInv'
<1>1. PICK p \in todo, x \in Slots :
        /\ tiles[target][x].area = p
        /\ tiles' = [tiles EXCEPT ![target][x].ticks = ticks[target]]
        /\ Take(p, x)
  BY DEF RequestValid, At, Upcoming
<1>2. pcF = "request" /\ target \in Renders /\ x \notin tilesAll
  BY <1>1 DEF RequestValid, IInv, FillTyped, Phases, Collected
<1>3. /\ tiles'[target][x].area = p /\ tiles'[target][x].ticks = ticks[target]
      /\ \A r \in Renders, y \in Slots : r # target \/ y # x => tiles'[r][y] = tiles[r][y]
  BY <1>1, <1>2 DEF IInv, TilesTyped, Tile
<1>4. QED
  BY <1>1, <1>2, <1>3, TakeFills

LEMMA RequestInvalidFills ==
  ASSUME IInv, FillInv, RequestInvalid
  PROVE  FillInv'
<1>1. PICK p \in todo, x \in Slots : tiles[target][x].area = p /\ Queue(p, x, TRUE)
  BY DEF RequestInvalid, At, Upcoming
<1>2. pcF = "request" /\ x \notin tilesAll
  BY <1>1 DEF RequestInvalid, IInv, Collected
<1>3. QED
  BY <1>1, <1>2, QueueFills

LEMMA RequestNewFills ==
  ASSUME IInv, FillInv, RequestNew
  PROVE  FillInv'
<1>1. PICK p \in todo : Cardinality(Made) < MaxTiles /\ Queue(p, Cardinality(Made) + 1, FALSE)
  BY DEF RequestNew, Upcoming
<1>2. pcF = "request" /\ target \in Renders
  BY DEF RequestNew, IInv, FillTyped, Phases
<1>3. PICK n \in 0 .. MaxTiles : MadeIn(target) = 1 .. n /\ Cardinality(Made) = n
  BY <1>2, LastMade
<1>4. PICK x \in Slots : x = Cardinality(Made) + 1
  BY <1>1, <1>3, SizeAssumption DEF Slots
<1>5. x \notin MadeIn(target)
  BY <1>3, <1>4
<1>6. x \notin tilesAll
  BY <1>5 DEF IInv, Collected, MadeIn
<1>7. Queue(p, x, FALSE)
  BY <1>1, <1>4
<1>8. QED
  BY <1>2, <1>6, <1>7, QueueFills

\* The oldest painted tile is not one of an area that fits: some other tile is painted,
\* as the area has fewer positions than there are tiles, and it is older.
LEMMA RequestReuseFills ==
  ASSUME IInv, FillInv, RequestReuse
  PROVE  FillInv'
<1>1. PICK p \in todo :
        /\ Cardinality(Made) = MaxTiles
        /\ \E x \in IF Painted # {} THEN OldestPainted ELSE dirty[target] : Queue(p, x, FALSE)
  BY DEF RequestReuse, Upcoming
<1>2. pcF = "request" /\ target \in Renders /\ tilesAll \subseteq Slots
  BY DEF RequestReuse, IInv, FillTyped, Phases
<1>3. MadeIn(target) = Slots /\ Made = Slots
  BY <1>1, <1>2, LastMade DEF Slots
<1>4. PICK x \in IF Painted # {} THEN OldestPainted ELSE dirty[target] : Queue(p, x, FALSE)
  BY <1>1
<1>5. x \in Slots
  BY <1>2, <1>4 DEF OldestPainted, Painted, Made, IInv, ListsTyped
<1>6. ASSUME Fitting PROVE x \notin tilesAll
  <2>1. PICK y \in Slots : y \notin tilesAll
    <3>1. IsFiniteSet(todo) /\ Cardinality(tilesAll) + Cardinality(todo) <= MaxTiles
      BY <1>6 DEF FillInv, MakesUp
    <3>2. Cardinality(todo) \in Nat /\ Cardinality(todo) # 0
      BY <1>1, <3>1, FS_CardinalityType, FS_EmptySet
    <3>3. Cardinality(Slots) = MaxTiles
      BY FS_Interval, SizeAssumption DEF Slots
    <3>4. IsFiniteSet(tilesAll)
      BY <1>2, FiniteSlots
    <3>5. Cardinality(tilesAll) # MaxTiles
      BY <3>1, <3>2, <3>4, FS_CardinalityType, SizeAssumption
    <3>6. QED
      BY <1>2, <3>3, <3>5
  <2>2. y \in Painted
    BY <1>2, <1>3, <2>1 DEF IInv, Awaited, Unpainted, Painted, MadeIn, Made
  <2>3. tiles[target][x].ticks <= tiles[target][y].ticks
    BY <1>4, <2>2 DEF OldestPainted
  <2>4. tiles[target][x].ticks \in Nat /\ tiles[target][y].ticks \in Nat
    BY <1>2, <1>5, <2>1 DEF IInv, TilesTyped, Tile
  <2>5. x \in tilesAll => tiles[target][y].ticks < tiles[target][x].ticks
    BY <1>2, <1>3, <1>6, <2>1 DEF FillInv, Fresher
  <2>6. QED
    BY <2>3, <2>4, <2>5
<1>7. QED
  BY <1>2, <1>4, <1>5, <1>6, QueueFills

LEMMA OtherFills ==
  ASSUME IInv, FillInv,
         \/ \E r \in Renders : New(r) \/ Close(r) \/ Free(r) \/ Jog(r) \/ Invalidate(r)
         \/ Background \/ AllocateStop \/ (\E w \in Workers : Worker(w)) \/ UNCHANGED vars
  PROVE  FillInv'
<1>1. tilesAll \subseteq Slots /\ (pcF # "idle" => target \in Renders)
  BY SMTT(40) DEF IInv, FillTyped, Phases
<1>2. UNCHANGED <<ticks, pcF, target, area, todo, tilesAll>>
  BY DEF New, Close, Free, Jog, Invalidate, Background, Wake, GetNone, GetDying, Get, Start, PoolEnd,
         PutBack, Unref, FreeCurrent, AllocateStop, Worker, Allocate, Paint, Announce, vars, renderVars, fillVars
<1>3. ASSUME NEW q \in Renders, NEW y \in Slots
      PROVE  tiles'[q][y].area = tiles[q][y].area /\ tiles'[q][y].ticks = tiles[q][y].ticks
  <2>1. ASSUME NEW r \in Renders, Invalidate(r)
        PROVE  tiles'[q][y].area = tiles[q][y].area /\ tiles'[q][y].ticks = tiles[q][y].ticks
    BY <2>1 DEF Invalidate, IInv, TilesTyped, Tile
  <2>2. ASSUME NEW w \in Workers, Paint(w)
        PROVE  tiles'[q][y].area = tiles[q][y].area /\ tiles'[q][y].ticks = tiles[q][y].ticks
    BY <2>2 DEF Paint, IInv, TilesTyped, Tile
  <2>3. CASE tiles' = tiles
    BY <2>3
  <2>4. QED
    BY <2>1, <2>2, <2>3
       DEF New, Close, Free, Jog, Background, Wake, GetNone, GetDying, Get, Start, PoolEnd, PutBack,
           Unref, FreeCurrent, AllocateStop, Worker, Allocate, Announce, vars, renderVars
<1>4. QED
  BY <1>1, <1>2, <1>3, FillKept

LEMMA FillStartFills ==
  ASSUME IInv, FillInv, NEW r \in Renders, NEW a \in Areas, Fill(r, a)
  PROVE  FillInv'
<1>1. /\ UNCHANGED <<tiles, ticks>> /\ pcF' = "request" /\ target' = r /\ area' = a /\ todo' = a
      /\ tilesAll' = {}
  BY DEF Fill, renderVars
<1>2. IsFiniteSet(a) /\ Cardinality(a) \in Nat
  BY AreasAssumption, FS_CardinalityType
<1>3. Cardinality({}) + Cardinality(a) = Cardinality(a)
  BY <1>2, FS_EmptySet
<1>4. MakesUp'
  BY <1>1, <1>2, <1>3 DEF MakesUp, Fitting
<1>5. Fresher'
  BY <1>1 DEF FillInv, Fresher, MadeIn
<1>6. QED
  BY <1>4, <1>5 DEF FillInv

LEMMA WaitFills ==
  ASSUME IInv, FillInv, RequestsEnd \/ Down \/ Check \/ Copy
  PROVE  FillInv'
<1>1. CASE RequestsEnd \/ Down \/ Check
  <2>1. /\ UNCHANGED <<tiles, ticks, target, area, todo, tilesAll>> /\ pcF # "idle" /\ pcF' # "idle"
        /\ pcF = "request" => todo = {}
    BY <1>1 DEF RequestsEnd, Down, Check, renderVars
  <2>2. QED
    BY <2>1 DEF FillInv, MakesUp, Fresher, MadeIn, Fitting
<1>2. CASE Copy
  BY <1>2 DEF Copy, renderVars, FillInv, MakesUp, Fresher, MadeIn, Fitting
<1>3. QED
  BY <1>1, <1>2

\* What image_fill gives to the window is complete for every area that fits into the
\* max_tiles of a render, which ImageArea::update gives for the whole screen: the
\* tiles that are reused, invalidated, painted again or given up to another display
\* image meanwhile never leave a hole or an old tile in it.
THEOREM FillIsWholeCorrect == Spec => []FillIsWhole
<1>1. Init => FillInv
  BY DEF Init, FillInv, MakesUp, Fresher, MadeIn, Fitting
<1>2. IInv /\ FillInv /\ [Next]_vars => FillInv'
  <2>1. ASSUME IInv, FillInv, Processor PROVE FillInv'
    BY <2>1, RequestValidFills, RequestInvalidFills, RequestNewFills, RequestReuseFills, WaitFills
       DEF Processor
  <2>2. ASSUME IInv, FillInv, NEW r \in Renders, NEW a \in Areas, Fill(r, a) PROVE FillInv'
    BY <2>2, FillStartFills
  <2>3. QED
    BY <2>1, <2>2, OtherFills DEF Next, Rest
<1>3. IInv /\ FillInv => FillIsWhole
  <2>1. SUFFICES ASSUME IInv, FillInv, pcF = "copy", Cardinality(area) <= MaxTiles
                 PROVE  Copied = area
    BY DEF FillIsWhole
  <2>2. {tiles[target][x].area : x \in tilesAll} = area
    BY <2>1 DEF FillInv, MakesUp, Fitting
  <2>3. {y \in tilesAll : Ready(y)} = tilesAll
    BY <2>1 DEF IInv, Usable
  <2>4. QED
    BY <2>2, <2>3 DEF Copied
<1>4. QED
  BY <1>1, <1>2, <1>3, IInvCorrect, PTL DEF Spec
-----------------------------------------------------------------------------
(* Areas that do not fit.                                                   *)

\* While the fill makes its requests, what it has queued stays queued: the workers need
\* the lock of the render to take a tile off the dirty list.
Queued ==
  pcF = "request" => \A x \in Slots : Unpainted(target, x) => x \in dirty[target]

LEMMA QueuedStep ==
  ASSUME IInv, Queued, [Next]_vars
  PROVE  Queued'
<1> SUFFICES ASSUME pcF' = "request" PROVE Queued'
  BY DEF Queued
<1>1. ASSUME NEW r \in Renders, NEW a \in Areas, Fill(r, a) PROVE Queued'
  <2>1. UNCHANGED tiles /\ target' = r /\ target = None /\ r # None
    BY <1>1, NoneAssumption DEF Fill, renderVars, IInv, Phases
  <2>2. QED
    BY <2>1 DEF Queued, IInv, Awaited, Unpainted
<1>2. ASSUME NEW p, NEW x \in Slots, NEW invalid, pcF = "request", Queue(p, x, invalid)
      PROVE  Queued'
  <2> DEFINE new == [area |-> p, painted |-> FALSE, invalid |-> invalid, ticks |-> ticks[target]]
  <2>1. /\ tiles' = [tiles EXCEPT ![target][x] = new] /\ target' = target
        /\ dirty' = [dirty EXCEPT ![target] = @ \cup {x}] /\ target \in Renders
    BY <1>2 DEF Queue, Take, IInv, FillTyped, Phases
  <2> HIDE DEF new
  <2>2. /\ x \in dirty'[target] /\ dirty[target] \subseteq dirty'[target]
        /\ \A y \in Slots : y # x => tiles'[target][y] = tiles[target][y]
    BY <2>1 DEF IInv, ListsTyped, TilesTyped
  <2>3. QED
    BY <1>2, <2>1, <2>2 DEF Queued, Unpainted
<1>3. CASE RequestInvalid
  <2>1. PICK p \in todo, x \in Slots : Queue(p, x, TRUE)
    BY <1>3 DEF RequestInvalid, Upcoming, At
  <2>2. QED
    BY <1>2, <1>3, <2>1 DEF RequestInvalid
<1>4. CASE RequestNew
  <2>1. PICK p : Cardinality(Made) < MaxTiles /\ Queue(p, Cardinality(Made) + 1, FALSE)
    BY <1>4 DEF RequestNew
  <2>2. PICK n \in 0 .. MaxTiles : Cardinality(Made) = n
    BY <1>4, LastMade DEF RequestNew, IInv, FillTyped, Phases
  <2>3. PICK x \in Slots : x = Cardinality(Made) + 1
    BY <2>1, <2>2, SizeAssumption DEF Slots
  <2>4. Queue(p, x, FALSE)
    BY <2>1, <2>3
  <2>5. QED
    BY <1>2, <1>4, <2>4 DEF RequestNew
<1>5. CASE RequestReuse
  <2>1. PICK p : \E x \in IF Painted # {} THEN OldestPainted ELSE dirty[target] : Queue(p, x, FALSE)
    BY <1>5 DEF RequestReuse
  <2>2. PICK x : (x \in Painted \/ x \in dirty[target]) /\ Queue(p, x, FALSE)
    BY <2>1 DEF OldestPainted
  <2>3. pcF = "request" /\ target \in Renders
    BY <1>5 DEF RequestReuse, IInv, FillTyped, Phases
  <2>4. x \in Slots
    BY <2>2, <2>3 DEF Painted, Made, IInv, ListsTyped
  <2>5. QED
    BY <1>2, <2>2, <2>3, <2>4
<1>6. CASE RequestValid
  <2>1. PICK x \in Slots : /\ tiles' = [tiles EXCEPT ![target][x].ticks = ticks[target]]
                           /\ UNCHANGED <<dirty, target>> /\ pcF = "request"
    BY <1>6 DEF RequestValid, Take, At
  <2>2. target \in Renders
    BY <2>1 DEF IInv, FillTyped, Phases
  <2>3. \A y \in Slots : /\ tiles'[target][y].area = tiles[target][y].area
                         /\ tiles'[target][y].painted = tiles[target][y].painted
    BY <2>1, <2>2 DEF IInv, TilesTyped, Tile
  <2>4. QED
    BY <2>1, <2>3 DEF Queued, Unpainted
<1>7. ASSUME NEW w \in Workers, Allocate(w) PROVE Queued'
  <2>1. /\ UNCHANGED <<tiles, target, pcF>> /\ target # current /\ target \in Renders
        /\ \E x : dirty' = [dirty EXCEPT ![current] = @ \ {x}]
    BY <1>7 DEF Allocate, LockFree, fillVars, IInv, FillTyped, Phases
  <2>2. dirty'[target] = dirty[target]
    BY <2>1 DEF IInv, ListsTyped
  <2>3. QED
    BY <2>1, <2>2 DEF Queued, Unpainted
<1>8. ASSUME NEW w \in Workers, Paint(w) PROVE Queued'
  <2>1. UNCHANGED <<dirty, target, pcF>> /\ target \in Renders
    BY <1>8 DEF Paint, fillVars, IInv, FillTyped, Phases
  <2>2. PICK x, invalid :
          tiles' = [tiles EXCEPT ![current][x] = [@ EXCEPT !.painted = TRUE, !.invalid = invalid]]
    BY <1>8 DEF Paint
  <2>3. ASSUME NEW y \in Slots, Unpainted(target, y)' PROVE Unpainted(target, y)
    BY <2>1, <2>2, <2>3 DEF IInv, TilesTyped, Tile, Unpainted
  <2>4. QED
    BY <2>1, <2>3 DEF Queued
<1>9. CASE UNCHANGED <<tiles, dirty, pcF, target>>
  BY <1>9 DEF Queued, Unpainted
<1>10. CASE \/ \E r \in Renders : New(r) \/ Close(r) \/ Free(r) \/ Jog(r)
            \/ Background \/ AllocateStop \/ (\E w \in Workers : Announce(w)) \/ UNCHANGED vars
  BY <1>9, <1>10
     DEF New, Close, Free, Jog, Background, Wake, GetNone, GetDying, Get, Start, PoolEnd, PutBack,
         Unref, FreeCurrent, AllocateStop, Announce, vars, renderVars, fillVars
<1>11. ASSUME \/ \E r \in Renders : Invalidate(r)
              \/ RequestsEnd \/ Down \/ Check \/ Copy
       PROVE  FALSE
  BY <1>11 DEF Invalidate, RequestsEnd, Down, Check, Copy, fillVars
<1>12. QED
  BY <1>1, <1>3, <1>4, <1>5, <1>6, <1>7, <1>8, <1>10, <1>11 DEF Next, Rest, Processor, Worker

\* A request is never refused, however many positions the area has: image_fill has all
\* its tiles, or a dirty one that it queued itself and that no worker got at.
THEOREM NeverRefusedCorrect == Spec => []NeverRefused
<1>1. Init => Queued
  BY DEF Init, Queued
<1>2. IInv /\ Queued => NeverRefused
  <2> SUFFICES ASSUME IInv, Queued, pcF = "request", Cardinality(Made) = MaxTiles
               PROVE  Painted # {} \/ dirty[target] # {}
    BY DEF NeverRefused
  <2>1. target \in Renders
    BY DEF IInv, FillTyped, Phases
  <2>2. Made = Slots
    BY <2>1, LastMade DEF Slots
  <2>3. 1 \in Slots
    BY SizeAssumption DEF Slots
  <2>4. QED
    BY <2>2, <2>3 DEF Queued, Unpainted, Painted, Made
<1>3. QED
  BY <1>1, <1>2, QueuedStep, IInvCorrect, PTL DEF Spec
-----------------------------------------------------------------------------
(* The list of renders.                                                     *)

\* A render on the list is referred to, or render_free is about to take it off.
Dying(r) == life[r] = "dying" \/ (pcB = "free" /\ current = r)
Held == \A r \in dirtyAll : refs[r] # 0 \/ Dying(r)

\* A render with dirty tiles is on the list, or the background thread has it and will
\* look at its tiles once more.
Scheduled ==
  \A r \in Renders : dirty[r] # {} =>
    r \in dirtyAll \/ (current = r /\ pcB \in {"start", "pool", "put"})

\* The semaphore counts the list, or more: render_free does not lower it.
Counted ==
  /\ IsFiniteSet(dirtyAll)
  /\ Cardinality(dirtyAll) <= dirtySem + IF pcB \in {"get", "abort"} THEN 1 ELSE 0

ListInv == Held /\ Scheduled /\ Counted

\* A render with dirty tiles is the one that is filled: its display image is open.
LEMMA DirtyOpen ==
  ASSUME IInv, NEW r \in Renders, dirty[r] # {}
  PROVE  r = target /\ life[r] = "open" /\ refs[r] # 0
<1>1. PICK x \in dirty[r] : Unpainted(r, x)
  BY DEF IInv, Listed
<1>2. x \in Slots
  BY DEF IInv, ListsTyped
<1>3. r = target /\ r # None
  BY <1>1, <1>2, NoneAssumption DEF IInv, Awaited
<1>4. life[r] = "open"
  BY <1>3 DEF IInv, Phases
<1>5. QED
  BY <1>3, <1>4 DEF IInv, References

LEMMA FewerCounted ==
  ASSUME ListsTyped, Counted, dirtyAll' \subseteq dirtyAll, UNCHANGED dirtySem,
         pcB' = pcB \/ (pcB \notin {"get", "abort"} /\ pcB' \notin {"get", "abort"}) \/ dirtyAll = {}
                \/ \E r \in dirtyAll : dirtyAll' = dirtyAll \ {r}
  PROVE  Counted'
<1>1. IsFiniteSet(dirtyAll') /\ Cardinality(dirtyAll') <= Cardinality(dirtyAll)
  BY FS_Subset DEF Counted
<1>2. Cardinality(dirtyAll) \in Nat /\ Cardinality(dirtyAll') \in Nat /\ dirtySem \in Nat
  BY <1>1, FS_CardinalityType DEF Counted, ListsTyped
<1>3. CASE pcB' = pcB \/ (pcB \notin {"get", "abort"} /\ pcB' \notin {"get", "abort"})
  BY <1>1, <1>2, <1>3 DEF Counted
<1>4. CASE dirtyAll = {}
  <2>1. Cardinality(dirtyAll') = 0
    BY <1>4, FS_EmptySet
  <2>2. QED
    BY <1>1, <1>2, <2>1 DEF Counted
<1>5. ASSUME NEW r \in dirtyAll, dirtyAll' = dirtyAll \ {r} PROVE Counted'
  <2>1. Cardinality(dirtyAll') = Cardinality(dirtyAll) - 1
    BY <1>5, FS_RemoveElement DEF Counted
  <2>2. QED
    BY <1>1, <1>2, <2>1 DEF Counted
<1>6. QED
  BY <1>3, <1>4, <1>5

\* render_dirty_put keeps the count.
LEMMA PutList ==
  ASSUME IInv, ListInv, NEW r \in Renders, refs[r] # 0, Put(r), UNCHANGED <<life, refs, current>>,
         pcB' = pcB \/ (pcB \notin {"get", "free", "abort"} /\ pcB' \notin {"get", "abort"})
  PROVE  Held' /\ Counted' /\ dirtyAll' = dirtyAll \cup {r}
<1>1. dirtyAll' = dirtyAll \cup {r}
  BY PutParts
<1>2. Held'
  BY <1>1 DEF ListInv, Held, Dying
<1>3. Counted'
  <2>1. CASE r \in dirtyAll
    BY <2>1, FewerCounted DEF Put, sharedVars, IInv, ListInv
  <2>2. CASE r \notin dirtyAll
    <3>1. IsFiniteSet(dirtyAll') /\ Cardinality(dirtyAll') = Cardinality(dirtyAll) + 1
      BY <1>1, <2>2, FS_AddElement DEF ListInv, Counted
    <3>2. dirtySem' = dirtySem + 1 /\ dirtySem \in Nat /\ Cardinality(dirtyAll) \in Nat
      BY <2>2, FS_CardinalityType DEF Put, IInv, ListsTyped, ListInv, Counted
    <3>3. QED
      BY <3>1, <3>2 DEF ListInv, Counted
  <2>3. QED
    BY <2>1, <2>2
<1>4. QED
  BY <1>1, <1>2, <1>3

\* A step that has nothing to do with the list.
LEMMA ListUnmoved ==
  ASSUME IInv, ListInv, UNCHANGED <<life, dirtyAll, dirtySem, refs, current>>,
         \A r \in Renders : dirty'[r] # {} => dirty[r] # {},
         pcB' = pcB \/ (pcB = "start" /\ pcB' = "pool") \/ (pcB = "pool" /\ pcB' = "put")
  PROVE  ListInv'
<1>1. Held'
  BY DEF ListInv, Held, Dying
<1>2. Scheduled'
  BY DEF ListInv, Scheduled
<1>3. Counted'
  BY SMTT(40), FewerCounted DEF ListInv, IInv
<1>4. QED
  BY <1>1, <1>2, <1>3 DEF ListInv

LEMMA NextList == IInv /\ ListInv /\ [Next]_vars => ListInv'
<1> SUFFICES ASSUME IInv, ListInv, [Next]_vars PROVE ListInv'
  OBVIOUS
<1>1. ASSUME NEW r \in Renders, New(r) PROVE ListInv'
  <2>1. /\ UNCHANGED <<dirty, dirtyAll, dirtySem, pcB, current>>
        /\ refs' = [refs EXCEPT ![r] = 1] /\ life[r] = "none" /\ life' = [life EXCEPT ![r] = "open"]
    BY <1>1 DEF New, sharedVars, backVars
  <2>2. r \notin dirtyAll /\ dirtyAll \subseteq Renders
    BY <2>1 DEF IInv, References, ListsTyped
  <2>3. Held'
    BY <2>1, <2>2 DEF IInv, CountsTyped, ListInv, Held, Dying
  <2>4. Scheduled' /\ Counted'
    BY <2>1 DEF ListInv, Scheduled, Counted
  <2>5. QED
    BY <2>3, <2>4 DEF ListInv
<1>2. ASSUME NEW r \in Renders, Close(r) PROVE ListInv'
  <2>1. /\ UNCHANGED <<dirty, dirtyAll, dirtySem, pcB, current>> /\ life[r] = "open"
        /\ refs' = [refs EXCEPT ![r] = @ - 1]
        /\ life' = [life EXCEPT ![r] = IF refs[r] = 1 THEN "dying" ELSE "closing"]
    BY <1>2 DEF Close, sharedVars, fillVars, backVars
  <2>2. refs[r] \in {1, 2}
    BY <2>1, DropRefs
  <2>3. refs'[r] # 0 \/ life'[r] = "dying"
    BY <2>1, <2>2 DEF IInv, CountsTyped
  <2>4. \A q \in Renders : q # r => refs'[q] = refs[q] /\ life'[q] = life[q]
    BY <2>1 DEF IInv, CountsTyped
  <2>5. Held'
    BY <2>1, <2>3, <2>4 DEF IInv, ListsTyped, ListInv, Held, Dying
  <2>6. Scheduled' /\ Counted'
    BY <2>1 DEF ListInv, Scheduled, Counted
  <2>7. QED
    BY <2>5, <2>6 DEF ListInv
<1>3. ASSUME NEW r \in Renders, Free(r) PROVE ListInv'
  <2>1. /\ UNCHANGED <<refs, dirty, dirtySem, pcB, current>> /\ life[r] = "dying"
        /\ dirtyAll' = dirtyAll \ {r} /\ life' = [life EXCEPT ![r] = "closing"]
    BY <1>3 DEF Free, Unlist, fillVars, backVars
  <2>2. dirty[r] = {}
    BY <2>1, DirtyOpen
  <2>3. Held'
    BY <2>1 DEF IInv, ListsTyped, CountsTyped, ListInv, Held, Dying
  <2>4. Scheduled'
    BY <2>1, <2>2 DEF ListInv, Scheduled
  <2>5. Counted'
    BY <2>1, FewerCounted DEF ListInv, IInv
  <2>6. QED
    BY <2>3, <2>4, <2>5 DEF ListInv
<1>4. ASSUME NEW r \in Renders, Jog(r) PROVE ListInv'
  <2>1. /\ UNCHANGED <<refs, dirty, dirtyAll, dirtySem, pcB, current>> /\ life[r] = "closing"
        /\ life' = [life EXCEPT ![r] = "closed"]
    BY <1>4 DEF Jog, fillVars, backVars
  <2>2. Held'
    BY <2>1 DEF IInv, ListsTyped, CountsTyped, ListInv, Held, Dying
  <2>3. Scheduled' /\ Counted'
    BY <2>1 DEF ListInv, Scheduled, Counted
  <2>4. QED
    BY <2>2, <2>3 DEF ListInv
<1>5. ASSUME NEW p, NEW x, NEW invalid, pcF = "request", Queue(p, x, invalid) PROVE ListInv'
  <2>1. /\ UNCHANGED <<life, refs, pcB, current>> /\ Put(target)
        /\ dirty' = [dirty EXCEPT ![target] = @ \cup {x}]
    BY <1>5 DEF Queue, Take, backVars
  <2>2. target \in Renders /\ refs[target] # 0
    BY <1>5 DEF IInv, FillTyped, Phases, References
  <2>3. Held' /\ Counted' /\ dirtyAll' = dirtyAll \cup {target}
    BY <2>1, <2>2, PutList
  <2>4. Scheduled'
    BY <2>1, <2>2, <2>3 DEF IInv, ListsTyped, ListInv, Scheduled
  <2>5. QED
    BY <2>3, <2>4 DEF ListInv
<1>6. CASE RequestInvalid \/ RequestNew \/ RequestReuse
  BY <1>5, <1>6 DEF RequestInvalid, RequestNew, RequestReuse
<1>7. CASE Wake
  <2>1. /\ UNCHANGED <<life, dirty, refs, dirtyAll, current>> /\ dirtySem > 0
        /\ dirtySem' = dirtySem - 1 /\ pcB = "down" /\ pcB' = "get" /\ dirtySem \in Nat
    BY <1>7 DEF Wake, renderVars, IInv, ListsTyped
  <2>2. Held' /\ Scheduled'
    BY <2>1 DEF ListInv, Held, Dying, Scheduled
  <2>3. Counted'
    <3>1. Cardinality(dirtyAll) \in Nat
      BY FS_CardinalityType DEF ListInv, Counted
    <3>2. QED
      BY <2>1, <3>1 DEF ListInv, Counted
  <2>4. QED
    BY <2>2, <2>3 DEF ListInv
<1>8. CASE GetNone
  <2>1. /\ UNCHANGED <<life, dirty, refs, dirtyAll, dirtySem, current>> /\ dirtyAll = {}
        /\ pcB = "get" /\ pcB' = "end"
    BY <1>8 DEF GetNone, renderVars, sharedVars
  <2>2. Held' /\ Scheduled'
    BY <2>1 DEF ListInv, Held, Scheduled
  <2>3. Counted'
    BY <2>1, FewerCounted DEF ListInv, IInv
  <2>4. QED
    BY <2>2, <2>3 DEF ListInv
<1>9. CASE GetDying
  <2>1. /\ UNCHANGED <<life, dirty, refs, dirtyAll, dirtySem, current>>
        /\ pcB = "get" /\ pcB' = "abort"
    BY <1>9 DEF GetDying, renderVars, sharedVars
  <2>2. Held' /\ Scheduled'
    BY <2>1 DEF ListInv, Held, Dying, Scheduled
  <2>3. Counted'
    BY <2>1 DEF ListInv, Counted
  <2>4. QED
    BY <2>2, <2>3 DEF ListInv
<1>10. CASE Get
  <2>1. UNCHANGED <<life, dirty, dirtySem>> /\ pcB = "get" /\ pcB' = "start"
    BY <1>10 DEF Get
  <2>2. PICK r \in dirtyAll : /\ current' = r /\ refs' = [refs EXCEPT ![r] = @ + 1]
                              /\ dirtyAll' = dirtyAll \ {r}
    BY <1>10 DEF Get
  <2>3. dirtyAll \subseteq Renders /\ refs \in [Renders -> Nat] /\ current = None
    BY <2>1 DEF IInv, ListsTyped, CountsTyped, Phases
  <2>4. Held'
    BY <2>1, <2>2, <2>3 DEF ListInv, Held, Dying
  <2>5. Scheduled'
    BY <2>1, <2>2, <2>3, NoneAssumption DEF ListInv, Scheduled
  <2>6. Counted'
    BY <2>1, <2>2, FewerCounted DEF ListInv, IInv
  <2>7. QED
    BY <2>4, <2>5, <2>6 DEF ListInv
<1>11. CASE PutBack
  <2>1. /\ UNCHANGED <<life, refs, dirty, current>> /\ pcB = "put" /\ pcB' = "unref"
        /\ current \in Renders /\ refs[current] # 0
    BY <1>11 DEF PutBack, renderVars, IInv, BackTyped, Phases, References
  <2>2. CASE dirty[current] = {}
    <3>1. UNCHANGED <<dirtyAll, dirtySem>>
      BY <1>11, <2>2 DEF PutBack, sharedVars
    <3>2. Held' /\ Scheduled'
      BY <2>1, <2>2, <3>1 DEF ListInv, Held, Dying, Scheduled
    <3>3. Counted'
      BY <2>1, <3>1, FewerCounted DEF ListInv, IInv
    <3>4. QED
      BY <3>2, <3>3 DEF ListInv
  <2>3. CASE dirty[current] # {}
    <3>1. Held' /\ Counted' /\ dirtyAll' = dirtyAll \cup {current}
      BY <1>11, <2>1, <2>3, PutList DEF PutBack
    <3>2. Scheduled'
      BY <2>1, <3>1 DEF ListInv, Scheduled
    <3>3. QED
      BY <3>1, <3>2 DEF ListInv
  <2>4. QED
    BY <2>2, <2>3
<1>12. CASE Unref
  <2>1. /\ UNCHANGED <<life, dirty, dirtyAll, dirtySem>> /\ pcB = "unref" /\ current \in Renders
        /\ refs' = [refs EXCEPT ![current] = @ - 1]
        /\ IF refs[current] = 1 THEN pcB' = "free" /\ current' = current
                                ELSE pcB' = "down" /\ current' = None
    BY <1>12 DEF Unref, sharedVars, IInv, BackTyped, Phases
  <2>2. refs[current] \in {1, 2}
    BY <2>1, DropRefs
  <2>3. refs'[current] # 0 \/ (pcB' = "free" /\ current' = current)
    BY <2>1, <2>2 DEF IInv, CountsTyped
  <2>4. \A q \in Renders : q # current => refs'[q] = refs[q]
    BY <2>1 DEF IInv, CountsTyped
  <2>5. Held'
    BY <2>1, <2>3, <2>4 DEF IInv, ListsTyped, ListInv, Held, Dying
  <2>6. Scheduled'
    BY <2>1 DEF ListInv, Scheduled
  <2>7. Counted'
    BY <2>1 DEF ListInv, Counted
  <2>8. QED
    BY <2>5, <2>6, <2>7 DEF ListInv
<1>13. CASE FreeCurrent
  <2>1. /\ UNCHANGED <<life, refs, dirty, dirtySem>> /\ pcB = "free" /\ pcB' = "down"
        /\ current \in Renders /\ current' = None /\ dirtyAll' = dirtyAll \ {current}
    BY <1>13 DEF FreeCurrent, Unlist, renderVars, IInv, BackTyped, Phases
  <2>2. dirty[current] = {}
    BY <2>1, DirtyOpen DEF IInv, References
  <2>3. Held'
    BY <2>1 DEF ListInv, Held, Dying
  <2>4. Scheduled'
    BY <2>1, <2>2 DEF ListInv, Scheduled
  <2>5. Counted'
    BY <2>1, FewerCounted DEF ListInv, IInv
  <2>6. QED
    BY <2>3, <2>4, <2>5 DEF ListInv
<1>14. ASSUME NEW w \in Workers, Allocate(w) PROVE ListInv'
  <2>1. UNCHANGED <<life, dirtyAll, dirtySem, refs, current, pcB>>
    BY <1>14 DEF Allocate, sharedVars
  <2>2. \A r \in Renders : dirty'[r] # {} => dirty[r] # {}
    BY SMTT(40), <1>14 DEF Allocate, IInv, ListsTyped
  <2>3. QED
    BY <2>1, <2>2, ListUnmoved
<1>15. CASE UNCHANGED <<life, dirty, dirtyAll, dirtySem, refs, current>>
            /\ (pcB' = pcB \/ (pcB = "start" /\ pcB' = "pool") \/ (pcB = "pool" /\ pcB' = "put"))
  BY <1>15, ListUnmoved
<1>16. CASE \/ \E r \in Renders : Invalidate(r)
            \/ \E r \in Renders, a \in Areas : Fill(r, a)
            \/ RequestValid \/ RequestsEnd \/ Down \/ Check \/ Copy
            \/ Start \/ PoolEnd \/ AllocateStop
            \/ \E w \in Workers : Paint(w) \/ Announce(w)
            \/ UNCHANGED vars
  BY <1>15, <1>16
     DEF Invalidate, Fill, RequestValid, Take, RequestsEnd, Down, Check, Copy, Start, PoolEnd,
         AllocateStop, Paint, Announce, vars, renderVars, sharedVars, backVars
<1>17. QED
  BY <1>1, <1>2, <1>3, <1>4, <1>6, <1>7, <1>8, <1>9, <1>10, <1>11, <1>12, <1>13, <1>14, <1>16
     DEF Next, Rest, Processor, Background, Worker

LEMMA ListInvCorrect == Spec => []ListInv
<1>1. Init => ListInv
  <2>1. IsFiniteSet({}) /\ Cardinality({}) = 0
    BY FS_EmptySet
  <2>2. Init => Held /\ Scheduled
    BY DEF Init, Held, Scheduled
  <2>3. Init => Counted
    BY <2>1 DEF Init, Counted
  <2>4. QED
    BY <2>2, <2>3 DEF ListInv
<1>2. QED
  BY <1>1, NextList, IInvCorrect, PTL DEF Spec

\* Whatever render_free is through with is gone for both threads, and render_dirty_get
\* will not find it, in whichever order the display image is closed, put on the list
\* again, taken off it and given back.
THEOREM FreedIsForgottenCorrect == Spec => []FreedIsForgotten
<1>1. IInv /\ ListInv => FreedIsForgotten
  <2> SUFFICES ASSUME IInv, ListInv, NEW r \in Renders, Freed(r)
               PROVE  target # r /\ current # r /\ r \notin dirtyAll
    BY DEF FreedIsForgotten
  <2>1. life[r] # "open" /\ current # r
    BY DEF Freed, IInv, References
  <2>2. target # r
    BY <2>1, NoneAssumption DEF IInv, Phases
  <2>3. QED
    BY <2>1, <2>2 DEF ListInv, Held, Dying, Freed
<1>2. QED
  BY <1>1, ListInvCorrect, IInvCorrect, PTL
-----------------------------------------------------------------------------
(* A fill that sleeps is fed.                                                *)

\* What the theorem takes of the inputs: none that may fail is invalidated.  A tile that
\* was invalidated and fails is painted, and never valid: the loop of image_fill waits
\* for it for ever.
Apart == Failing \cap Changing = {}

\* Only what changes has invalid tiles, and a painted tile of the fill is valid.
Sound == \A r \in Renders \ Changing, x \in Slots : ~tiles[r][x].invalid
Clear == \A x \in tilesAll : tiles[target][x].painted => ~tiles[target][x].invalid

\* A fill that waits, or will, has a tile that is not painted, or an announcement to
\* come.
Waits == pcF = "down" \/ (pcF = "request" /\ wait)
Told ==
  Waits =>
    \/ \E x \in tilesAll : ~tiles[target][x].painted
    \/ done[target] > 0
    \/ current = target /\ \E w \in Workers : job[w].painted

\* A tile that is not painted is on the dirty list, or a worker has it.
Owned(r, x) ==
  x \in dirty[r] \/ (current = r /\ \E w \in Workers : job[w].tile = x /\ ~job[w].painted)
Carried == \A r \in Renders, x \in Slots : Unpainted(r, x) => Owned(r, x)

FedInv == Sound /\ Clear /\ Told /\ Carried

\* A step of the fill or of a worker that only touches tiles.
LEMMA FedUnmoved ==
  ASSUME IInv, FedInv, Alike, UNCHANGED <<pcF, target, tilesAll, wait, done, dirty, job>>,
         \A r \in Renders, x \in Slots : tiles'[r][x].invalid = tiles[r][x].invalid,
         current' = current \/ pcB # "pool"
  PROVE  FedInv'
<1>1. tilesAll \subseteq Slots /\ (pcF # "idle" => target \in Renders) /\ (pcF = "idle" => tilesAll = {})
  BY DEF IInv, FillTyped, Phases
<1>2. pcB # "pool" => \A w \in Workers : job[w].tile = None /\ ~job[w].painted
  BY DEF IInv, Jobs, NoJob
<1>3. Sound'
  BY DEF FedInv, Sound
<1>4. Clear'
  BY <1>1 DEF FedInv, Clear, Alike
<1>5. Told'
  BY <1>1, <1>2 DEF FedInv, Told, Waits, Alike
<1>6. Carried'
  <2>1. \A r \in Renders, x \in Slots : Unpainted(r, x)' <=> Unpainted(r, x)
    BY DEF Alike, Unpainted
  <2>2. \A x \in Slots : x # None
    BY NoneAssumption DEF Slots
  <2>3. QED
    BY <1>2, <2>1, <2>2 DEF FedInv, Carried, Owned
<1>7. QED
  BY <1>3, <1>4, <1>5, <1>6 DEF FedInv

LEMMA InvalidateFed ==
  ASSUME IInv, FedInv, NEW r \in Renders, Invalidate(r)
  PROVE  FedInv'
<1>1. /\ UNCHANGED <<dirty, done, pcF, target, tilesAll, wait, current, job>>
      /\ r \in Changing /\ pcF = "idle" /\ tilesAll = {}
      /\ tiles' = [tiles EXCEPT ![r] = [x \in Slots |->
                     [@[x] EXCEPT !.invalid = tiles[r][x].area # None]]]
  BY DEF Invalidate, sharedVars, fillVars, backVars, IInv, Phases
<1>2. /\ Alike
      /\ \A q \in Renders, x \in Slots : q # r => tiles'[q][x] = tiles[q][x]
  BY <1>1 DEF IInv, TilesTyped, Tile, Alike
<1>3. Sound' /\ Clear' /\ Told'
  BY <1>1, <1>2 DEF FedInv, Sound, Clear, Told, Waits
<1>4. Carried'
  BY <1>1, <1>2 DEF FedInv, Carried, Owned, Alike, Unpainted
<1>5. QED
  BY <1>3, <1>4 DEF FedInv

LEMMA FillFed ==
  ASSUME IInv, FedInv, NEW r \in Renders, NEW a \in Areas, Fill(r, a)
  PROVE  FedInv'
<1>1. /\ UNCHANGED <<tiles, dirty, done, current, job>>
      /\ pcF' = "request" /\ tilesAll' = {} /\ wait' = FALSE
  BY DEF Fill, renderVars, backVars
<1>2. Sound' /\ Clear' /\ Told' /\ Carried'
  BY <1>1 DEF FedInv, Sound, Clear, Told, Waits, Carried, Owned, Unpainted
<1>3. QED
  BY <1>2 DEF FedInv

LEMMA RequestValidFed ==
  ASSUME IInv, FedInv, RequestValid
  PROVE  FedInv'
<1>1. PICK p \in todo, x \in Slots :
        /\ tiles[target][x].area = p /\ ~tiles[target][x].invalid
        /\ tiles' = [tiles EXCEPT ![target][x].ticks = ticks[target]]
        /\ wait' = (wait \/ ~tiles[target][x].painted)
        /\ Take(p, x)
        /\ UNCHANGED <<dirty, sharedVars>>
  BY DEF RequestValid, At, Upcoming
<1>2. pcF = "request" /\ target \in Renders /\ tilesAll \subseteq Slots
  BY DEF RequestValid, IInv, FillTyped, Phases
<1>3. /\ UNCHANGED <<dirty, done, pcF, target, current, job>>
      /\ tilesAll' = tilesAll \cup {x}
  BY <1>1 DEF Take, backVars
<1>4. /\ \A r \in Renders, y \in Slots : tiles'[r][y].invalid = tiles[r][y].invalid
      /\ Alike
  BY <1>1, <1>2 DEF IInv, TilesTyped, Tile, Alike
<1>5. Sound'
  BY <1>4 DEF FedInv, Sound
<1>6. Clear'
  BY <1>1, <1>2, <1>3, <1>4 DEF FedInv, Clear, Alike
<1>7. Told'
  <2>1. \A y \in tilesAll' : tiles'[target][y].painted = tiles[target][y].painted
    BY <1>2, <1>3, <1>4 DEF Alike
  <2>2. CASE ~tiles[target][x].painted
    BY <1>3, <2>1, <2>2 DEF Told
  <2>3. CASE wait
    <3>1. \/ \E y \in tilesAll : ~tiles[target][y].painted
          \/ done[target] > 0
          \/ current = target /\ \E w \in Workers : job[w].painted
      BY <1>2, <2>3 DEF FedInv, Told, Waits
    <3>2. QED
      BY <1>3, <2>1, <3>1 DEF Told
  <2>4. CASE tiles[target][x].painted /\ ~wait
    <3>1. ~wait'
      BY <1>1, <2>4
    <3>2. QED
      BY <1>2, <1>3, <3>1 DEF Told, Waits
  <2>5. QED
    BY <2>2, <2>3, <2>4
<1>8. Carried'
  BY <1>3, <1>4 DEF FedInv, Carried, Owned, Alike, Unpainted
<1>9. QED
  BY <1>5, <1>6, <1>7, <1>8 DEF FedInv

\* A tile that is queued is not painted and is on the dirty list.
LEMMA QueueFed ==
  ASSUME IInv, FedInv, pcF = "request", NEW p, NEW x \in Slots, NEW invalid \in BOOLEAN,
         Queue(p, x, invalid), invalid => tiles[target][x].invalid
  PROVE  FedInv'
<1> DEFINE new == [area |-> p, painted |-> FALSE, invalid |-> invalid, ticks |-> ticks[target]]
<1>1. target \in Renders /\ tilesAll \subseteq Slots
  BY DEF IInv, FillTyped, Phases
<1>2. /\ UNCHANGED <<done, pcF, target, current, job>>
      /\ wait' = TRUE /\ tilesAll' = tilesAll \cup {x}
      /\ dirty' = [dirty EXCEPT ![target] = @ \cup {x}]
      /\ tiles' = [tiles EXCEPT ![target][x] = new]
  BY DEF Queue, Take, backVars
<1>3. new.painted = FALSE /\ new.invalid = invalid
  OBVIOUS
<1> HIDE DEF new
<1>4. /\ tiles'[target][x] = new
      /\ \A q \in Renders, y \in Slots : q # target \/ y # x => tiles'[q][y] = tiles[q][y]
  BY <1>1, <1>2 DEF IInv, TilesTyped
<1>5. Sound'
  BY <1>1, <1>3, <1>4 DEF FedInv, Sound
<1>6. Clear'
  BY <1>1, <1>2, <1>3, <1>4 DEF FedInv, Clear
<1>7. Told'
  BY <1>2, <1>3, <1>4 DEF Told
<1>8. Carried'
  <2>1. ASSUME NEW r \in Renders, NEW y \in Slots, Unpainted(r, y)' PROVE Owned(r, y)'
    <3>1. CASE r = target /\ y = x
      BY <1>1, <1>2, <3>1 DEF IInv, ListsTyped, Owned
    <3>2. CASE ~(r = target /\ y = x)
      <4>1. Unpainted(r, y)
        BY <1>4, <2>1, <3>2 DEF Unpainted
      <4>2. Owned(r, y)
        BY <4>1 DEF FedInv, Carried
      <4>3. QED
        BY <1>1, <1>2, <4>2 DEF IInv, ListsTyped, Owned
    <3>3. QED
      BY <3>1, <3>2
  <2>2. QED
    BY <2>1 DEF Carried
<1>9. QED
  BY <1>5, <1>6, <1>7, <1>8 DEF FedInv

LEMMA RequestsFed ==
  ASSUME IInv, FedInv, RequestInvalid \/ RequestNew \/ RequestReuse
  PROVE  FedInv'
<1>1. CASE RequestInvalid
  <2>1. PICK p \in todo, x \in Slots : tiles[target][x].invalid /\ Queue(p, x, TRUE)
    BY <1>1 DEF RequestInvalid, At, Upcoming
  <2>2. QED
    BY <1>1, <2>1, QueueFed DEF RequestInvalid
<1>2. CASE RequestNew
  <2>1. PICK p \in todo : Cardinality(Made) < MaxTiles /\ Queue(p, Cardinality(Made) + 1, FALSE)
    BY <1>2 DEF RequestNew, Upcoming
  <2>2. target \in Renders
    BY <1>2 DEF RequestNew, IInv, FillTyped, Phases
  <2>3. PICK n \in 0 .. MaxTiles : Cardinality(Made) = n
    BY <2>2, LastMade
  <2>4. PICK x \in Slots : x = Cardinality(Made) + 1
    BY <2>1, <2>3, SizeAssumption DEF Slots
  <2>5. Queue(p, x, FALSE)
    BY <2>1, <2>4
  <2>6. QED
    BY <1>2, <2>5, QueueFed DEF RequestNew
<1>3. CASE RequestReuse
  <2>1. PICK p \in todo :
          \E x \in IF Painted # {} THEN OldestPainted ELSE dirty[target] : Queue(p, x, FALSE)
    BY <1>3 DEF RequestReuse, Upcoming
  <2>2. PICK x : (x \in Painted \/ x \in dirty[target]) /\ Queue(p, x, FALSE)
    BY <2>1 DEF OldestPainted
  <2>3. target \in Renders
    BY <1>3 DEF RequestReuse, IInv, FillTyped, Phases
  <2>4. x \in Slots
    BY <2>2, <2>3 DEF Painted, Made, IInv, ListsTyped
  <2>5. QED
    BY <1>3, <2>2, <2>4, QueueFed DEF RequestReuse
<1>4. QED
  BY <1>1, <1>2, <1>3

\* A tile that is not ready when the fill looks is not painted, or it would be valid.
LEMMA WaitFed ==
  ASSUME IInv, FedInv, RequestsEnd \/ Down \/ Check \/ Copy
  PROVE  FedInv'
<1>1. UNCHANGED <<tiles, dirty, current, job>> /\ pcF # "idle" /\ target \in Renders
  BY DEF RequestsEnd, Down, Check, Copy, renderVars, backVars, IInv, FillTyped, Phases
<1>2. Sound' /\ Carried'
  BY <1>1 DEF FedInv, Sound, Carried, Owned, Unpainted
<1>3. Clear'
  BY <1>1 DEF FedInv, Clear, RequestsEnd, Down, Check, Copy
<1>4. Told'
  <2>1. CASE RequestsEnd
    BY <2>1 DEF RequestsEnd, renderVars, backVars, FedInv, Told, Waits
  <2>2. CASE Down \/ Copy
    BY <2>2 DEF Down, Copy, Told, Waits
  <2>3. CASE Check
    BY <2>3 DEF Check, renderVars, backVars, FedInv, Clear, Ready, Told, Waits
  <2>4. QED
    BY <2>1, <2>2, <2>3
<1>5. QED
  BY <1>2, <1>3, <1>4 DEF FedInv

LEMMA AllocateFed ==
  ASSUME IInv, FedInv, NEW w \in Workers, Allocate(w)
  PROVE  FedInv'
<1>1. PICK x \in dirty[current] : /\ job' = [job EXCEPT ![w] = [tile |-> x, painted |-> FALSE]]
                                  /\ dirty' = [dirty EXCEPT ![current] = @ \ {x}]
  BY DEF Allocate
<1>2. /\ UNCHANGED <<tiles, done, pcF, target, tilesAll, wait, current>>
      /\ job[w] = NoJob /\ current \in Renders
  BY DEF Allocate, fillVars, IInv, BackTyped, Phases
<1>3. /\ job'[w].tile = x /\ ~job'[w].painted /\ job[w].tile = None /\ ~job[w].painted
      /\ \A v \in Workers : v # w => job'[v] = job[v]
  BY <1>1, <1>2 DEF IInv, JobsTyped, NoJob
<1>4. Sound' /\ Clear' /\ Told'
  BY <1>2, <1>3 DEF FedInv, Sound, Clear, Told, Waits
<1>5. Carried'
  <2>1. ASSUME NEW r \in Renders, NEW y \in Slots, Unpainted(r, y)' PROVE Owned(r, y)'
    <3>1. Owned(r, y) /\ y # None
      BY <1>2, <2>1, NoneAssumption DEF FedInv, Carried, Unpainted, Slots
    <3>2. CASE r = current /\ y = x
      BY <1>2, <1>3, <3>2 DEF Owned
    <3>3. CASE y \in dirty[r] /\ ~(r = current /\ y = x)
      BY <1>1, <1>2, <3>3 DEF Owned, IInv, ListsTyped
    <3>4. CASE y \notin dirty[r]
      BY <1>2, <1>3, <3>1, <3>4 DEF Owned
    <3>5. QED
      BY <3>2, <3>3, <3>4
  <2>2. QED
    BY <2>1 DEF Carried
<1>6. QED
  BY <1>4, <1>5 DEF FedInv

\* A tile that is painted is announced later.
LEMMA PaintFed ==
  ASSUME Apart, IInv, FedInv, NEW w \in Workers, Paint(w)
  PROVE  FedInv'
<1> DEFINE x == job[w].tile
<1>1. /\ UNCHANGED <<dirty, done, pcF, target, tilesAll, wait, current>>
      /\ job[w] # NoJob /\ ~job[w].painted
      /\ job' = [job EXCEPT ![w].painted = TRUE]
  BY DEF Paint, fillVars
<1>2. x \in Slots /\ current \in Renders
  BY <1>1 DEF IInv, Jobs, BackTyped, Phases
<1>3. PICK invalid \in {FALSE} \cup IF current \in Failing THEN {tiles[current][x].invalid} ELSE {} :
        tiles' = [tiles EXCEPT ![current][x] = [@ EXCEPT !.painted = TRUE, !.invalid = invalid]]
  BY DEF Paint
<1>4. ~invalid
  <2>1. CASE current \in Failing
    BY <1>2, <1>3, <2>1 DEF Apart, FedInv, Sound
  <2>2. CASE current \notin Failing
    BY <1>3, <2>2
  <2>3. QED
    BY <2>1, <2>2
<1>5. job'[w].painted /\ job'[w].tile = x /\ \A v \in Workers : v # w => job'[v] = job[v]
  BY <1>1 DEF IInv, JobsTyped, x
<1> HIDE DEF x
<1>6. /\ ~tiles'[current][x].invalid /\ tiles'[current][x].painted
      /\ \A q \in Renders, y \in Slots : q # current \/ y # x => tiles'[q][y] = tiles[q][y]
  BY <1>2, <1>3, <1>4 DEF IInv, TilesTyped, Tile
<1>7. tilesAll \subseteq Slots /\ (pcF # "idle" => target \in Renders) /\ (pcF = "idle" => tilesAll = {})
  BY DEF IInv, FillTyped, Phases
<1>8. Sound'
  BY <1>6 DEF FedInv, Sound
<1>9. Clear'
  BY <1>1, <1>6, <1>7 DEF FedInv, Clear
<1>10. Told'
  <2>1. SUFFICES ASSUME Waits PROVE Told'
    BY <1>1 DEF Told, Waits
  <2>2. target \in Renders
    BY <1>7, <2>1 DEF Waits
  <2>3. CASE current = target
    BY <1>1, <1>5, <2>3 DEF Told
  <2>4. CASE current # target
    BY <1>1, <1>6, <1>7, <2>1, <2>2, <2>4 DEF FedInv, Told
  <2>5. QED
    BY <2>3, <2>4
<1>11. Carried'
  <2>1. ASSUME NEW r \in Renders, NEW y \in Slots, Unpainted(r, y)' PROVE Owned(r, y)'
    <3>1. ~(r = current /\ y = x)
      BY <1>6, <2>1 DEF Unpainted
    <3>2. Unpainted(r, y)
      BY <1>6, <2>1, <3>1 DEF Unpainted
    <3>3. Owned(r, y)
      BY <3>2 DEF FedInv, Carried
    <3>4. QED
      BY <1>1, <1>5, <3>1, <3>3 DEF Owned, x
  <2>2. QED
    BY <2>1 DEF Carried
<1>12. QED
  BY <1>8, <1>9, <1>10, <1>11 DEF FedInv

LEMMA AnnounceFed ==
  ASSUME IInv, FedInv, NEW w \in Workers, Announce(w)
  PROVE  FedInv'
<1>1. /\ UNCHANGED <<tiles, dirty, pcF, target, tilesAll, wait, current>>
      /\ done' = [done EXCEPT ![current] = @ + 1] /\ job' = [job EXCEPT ![w] = NoJob]
      /\ job[w].painted
  BY DEF Announce, fillVars
<1>2. current \in Renders /\ done \in [Renders -> Nat]
  BY <1>1 DEF NoJob, IInv, Jobs, BackTyped, Phases, CountsTyped
<1>3. \A v \in Workers : v # w => job'[v] = job[v]
  BY <1>1 DEF IInv, JobsTyped
<1>4. Sound' /\ Clear'
  BY <1>1 DEF FedInv, Sound, Clear
<1>5. Told'
  <2>1. SUFFICES ASSUME Waits PROVE Told'
    BY <1>1 DEF Told, Waits
  <2>2. CASE current = target
    <3>1. done'[target] > 0
      BY <1>1, <1>2, <2>2
    <3>2. QED
      BY <1>1, <3>1 DEF Told
  <2>3. CASE current # target
    <3>1. done'[target] = done[target]
      BY <1>1, <1>2, <2>1, <2>3 DEF IInv, FillTyped, Phases, Waits
    <3>2. QED
      BY <1>1, <2>1, <2>3, <3>1 DEF FedInv, Told
  <2>4. QED
    BY <2>2, <2>3
<1>6. Carried'
  BY <1>1, <1>3 DEF FedInv, Carried, Owned, Unpainted
<1>7. QED
  BY <1>4, <1>5, <1>6 DEF FedInv

LEMMA NextFed ==
  ASSUME Apart, IInv, FedInv, [Next]_vars
  PROVE  FedInv'
<1>1. ASSUME NEW r \in Renders, Invalidate(r) PROVE FedInv'
  BY <1>1, InvalidateFed
<1>2. ASSUME NEW r \in Renders, NEW a \in Areas, Fill(r, a) PROVE FedInv'
  BY <1>2, FillFed
<1>3. CASE Processor
  BY <1>3, RequestValidFed, RequestsFed, WaitFed DEF Processor
<1>4. ASSUME NEW w \in Workers, Worker(w) PROVE FedInv'
  BY <1>4, AllocateFed, PaintFed, AnnounceFed DEF Worker
<1>5. CASE \/ \E r \in Renders : New(r) \/ Close(r) \/ Free(r) \/ Jog(r)
           \/ Background \/ AllocateStop \/ UNCHANGED vars
  <2>1. UNCHANGED <<tiles, pcF, target, tilesAll, wait, done, dirty, job>>
    BY <1>5 DEF New, Close, Free, Jog, Background, Wake, GetNone, GetDying, Get, Start, PoolEnd,
                PutBack, Unref, FreeCurrent, AllocateStop, vars, renderVars, fillVars, backVars
  <2>2. current' = current \/ pcB # "pool"
    BY <1>5 DEF New, Close, Free, Jog, Background, Wake, GetNone, GetDying, Get, Start, PoolEnd,
                PutBack, Unref, FreeCurrent, AllocateStop, vars, backVars
  <2>3. Alike /\ \A r \in Renders, x \in Slots : tiles'[r][x].invalid = tiles[r][x].invalid
    BY <2>1 DEF Alike
  <2>4. QED
    BY <2>1, <2>2, <2>3, FedUnmoved
<1>6. QED
  BY <1>1, <1>2, <1>3, <1>4, <1>5 DEF Next, Rest

\* image_fill never sleeps for good: as long as it waits on tile_done_sem, a worker is
\* on one of its tiles, or the background thread has its render or has been told of it,
\* whatever is closed, stopped or rescheduled meanwhile.
THEOREM FillIsFedCorrect ==
  ASSUME Apart
  PROVE  Spec => []FillIsFed
<1>1. Init => FedInv
  <2>1. Init => Sound /\ Clear /\ Told
    BY DEF Init, Sound, Clear, Told, Waits
  <2>2. Init => Carried
    BY DEF Init, Carried, Unpainted
  <2>3. QED
    BY <2>1, <2>2 DEF FedInv
<1>2. IInv /\ FedInv /\ [Next]_vars => FedInv'
  BY NextFed
<1>3. IInv /\ ListInv /\ FedInv => FillIsFed
  <2> SUFFICES ASSUME IInv, ListInv, FedInv, pcF = "down", done[target] = 0
               PROVE  Fed(target)
    BY DEF FillIsFed
  <2>1. target \in Renders /\ tilesAll \subseteq Slots
    BY DEF IInv, FillTyped, Phases
  <2>2. CASE current = target /\ \E w \in Workers : job[w].painted
    BY <2>2 DEF Fed, NoJob
  <2>3. ASSUME NEW x \in tilesAll, ~tiles[target][x].painted PROVE Fed(target)
    <3>1. Unpainted(target, x) /\ x \in Slots /\ x # None
      BY <2>1, <2>3, NoneAssumption DEF IInv, Collected, Unpainted, Slots
    <3>2. Owned(target, x)
      BY <2>1, <3>1 DEF FedInv, Carried
    <3>3. CASE current = target /\ \E w \in Workers : job[w].tile = x
      BY <3>1, <3>3 DEF Fed, NoJob
    <3>4. CASE x \in dirty[target]
      <4>1. target \in dirtyAll \/ (current = target /\ pcB \in {"start", "pool", "put"})
        BY <2>1, <3>4 DEF ListInv, Scheduled
      <4>2. target \in dirtyAll /\ pcB = "down" => dirtySem > 0
        <5>1. SUFFICES ASSUME target \in dirtyAll, pcB = "down" PROVE dirtySem > 0
          OBVIOUS
        <5>2. Cardinality(dirtyAll) \in Nat /\ Cardinality(dirtyAll) # 0
          BY <5>1, FS_CardinalityType, FS_EmptySet DEF ListInv, Counted
        <5>3. QED
          BY <5>1, <5>2 DEF ListInv, Counted, IInv, ListsTyped
      <4>3. QED
        BY <3>4, <4>1, <4>2 DEF Fed
    <3>5. QED
      BY <3>2, <3>3, <3>4 DEF Owned
  <2>4. QED
    BY <2>2, <2>3 DEF FedInv, Told, Waits
<1>4. QED
  BY <1>1, <1>2, <1>3, ListInvCorrect, IInvCorrect, PTL DEF Spec
=============================================================================
