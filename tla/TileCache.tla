----------------------------- MODULE TileCache ------------------------------
(***************************************************************************)
(* The tile caches of a pipeline (src/vips/tilecache_pf.c) and the pool of *)
(* tiles they share.  Threads that compute pixels call phf_tile_cache_gen  *)
(* for an area of a cache; to compute a tile, a cache asks the one         *)
(* upstream of it, so that a thread may be in one call for each cache of a *)
(* chain.  A call f is the pair of its thread and its cache.               *)
(*                                                                         *)
(* The lock of the pool is held by the call whose pc is in PoolHeld, that  *)
(* of a cache by the call at "look".  Caches are threaded, as every caller *)
(* of phf_tilecache makes them: no lock is held while a tile is computed.  *)
(* A cache has one upstream: blends, which read several inputs for a tile, *)
(* are left out.                                                           *)
(* Times of last use are not modelled: any tile that may be recycled can   *)
(* be the oldest.  Caches are persistent, as a pipeline makes them: they   *)
(* do not minimise themselves.                                             *)
(***************************************************************************)
EXTENDS Naturals, FiniteSets

CONSTANTS Threads, Caches, Positions,
          PoolSize,    \* PHF_MAX_NUMBER_OF_TILES
          Upstream,    \* Upstream[c]: the next cache towards the source, or None
          Reads,       \* Reads[c][p]: what tile p of c needs from upstream
          Areas,       \* the areas that threads ask of a cache
          Failing,     \* the caches whose own computation may fail
          None, Black,
          MaxAsks      \* bound: areas asked for by each thread

ASSUME NullAssumption == None \notin Threads \cup Caches /\ None \notin 1 .. PoolSize
ASSUME ChainAssumption ==
  /\ Upstream \in [Caches -> Caches \cup {None}]
  /\ Reads \in [Caches -> [Positions -> SUBSET Positions]]
  /\ \A C \in SUBSET Caches : C # {} => \E c \in C : Upstream[c] \notin C
ASSUME AreasAssumption == Areas \subseteq SUBSET Positions
ASSUME FailingAssumption == Failing \subseteq Caches
ASSUME FiniteAssumption == IsFiniteSet(Threads) /\ IsFiniteSet(Caches)
ASSUME BoundAssumption == PoolSize \in Nat /\ MaxAsks \in Nat
ASSUME BlackAssumption == Black \notin Caches \X Positions

Tiles == 1 .. PoolSize
Calls == Threads \X Caches
States == {"FREE", "PEND", "CALC", "DATA"}

VARIABLES
  \* the pool
  owner,     \* owner[x]: the cache whose hash table has the tile, None for none
  pos, state, refs,
  data,      \* data[x]: what the pixels of the tile show
  \* the calls of phf_tile_cache_gen
  pc,
  need,      \* positions that phf_tile_cache_ref has not referenced yet
  place,     \* the position it is at
  work,      \* the list of work tiles
  hand,      \* the tile found, recycled or computed
  failed,    \* the tile in hand could not be computed
  stop,      \* *stop
  \* the program
  asks,      \* asks[t]: areas asked for by thread t
  aborted    \* g_assert has failed

tileVars == <<owner, pos, state, refs, data>>
callVars == <<pc, need, place, work, hand, failed, stop>>
vars == <<tileVars, callVars, asks, aborted>>

Init ==
  /\ owner = [x \in Tiles |-> None] /\ pos = [x \in Tiles |-> None]
  /\ state = [x \in Tiles |-> "FREE"] /\ refs = [x \in Tiles |-> 0]
  /\ data = [x \in Tiles |-> None]
  /\ pc = [f \in Calls |-> "idle"] /\ need = [f \in Calls |-> {}]
  /\ place = [f \in Calls |-> None] /\ work = [f \in Calls |-> {}]
  /\ hand = [f \in Calls |-> None] /\ failed = [f \in Calls |-> FALSE]
  /\ stop = [f \in Calls |-> FALSE]
  /\ asks = [t \in Threads |-> 0] /\ aborted = FALSE

PoolHeld == {"find", "steal", "ref"}
PoolFree == \A f \in Calls : pc[f] \notin PoolHeld
LockFree(c) == \A t \in Threads : pc[<<t, c>>] # "look"

-----------------------------------------------------------------------------
(* phf_tile_cache_ref: reference all the tiles the call will need *)

\* The call starts with an area.
Begin(f, area, pcs) ==
  /\ pc' = [pcs EXCEPT ![f] = "pool"]
  /\ need' = [need EXCEPT ![f] = area]
  /\ stop' = [stop EXCEPT ![f] = FALSE]

\* A thread that is in no call asks for an area of a cache.
Ask(t, c, area) ==
  /\ \A d \in Caches : pc[<<t, d>>] = "idle"
  /\ asks[t] < MaxAsks
  /\ asks' = [asks EXCEPT ![t] = @ + 1]
  /\ Begin(<<t, c>>, area, pc)
  /\ UNCHANGED <<tileVars, place, work, hand, failed, aborted>>

\* For an area without tiles, the lock is given back at once.
LockPool(f) ==
  /\ pc[f] = "pool" /\ PoolFree
  /\ pc' = [pc EXCEPT ![f] = IF need[f] = {} THEN "lock" ELSE "find"]
  /\ UNCHANGED <<tileVars, need, place, work, hand, failed, stop, asks, aborted>>

\* phf_tile_search
Lookup(c, p) == {x \in Tiles : owner[x] = c /\ pos[x] = p}

Choose(f, p, x, next) ==
  /\ place' = [place EXCEPT ![f] = p]
  /\ hand' = [hand EXCEPT ![f] = x]
  /\ pc' = [pc EXCEPT ![f] = next]
  /\ UNCHANGED <<need, work, failed, stop, asks, aborted>>

\* phf_tile_assign, for the tile taken from the pool.
Assign(f, p, x) ==
  /\ owner' = [owner EXCEPT ![x] = f[2]]
  /\ pos' = [pos EXCEPT ![x] = p]
  /\ state' = [state EXCEPT ![x] = "PEND"]
  /\ refs' = [refs EXCEPT ![x] = 0]
  /\ data' = [data EXCEPT ![x] = None]

\* phf_tile_find: the tile is in the cache, ...
FindTile(f) ==
  /\ pc[f] = "find"
  /\ \E p \in need[f] : \E x \in Lookup(f[2], p) : Choose(f, p, x, "ref")
  /\ UNCHANGED tileVars

FreeTiles == {x \in Tiles : state[x] = "FREE"}

\* ... or the first free one is taken, ...
TakeFree(f) ==
  /\ pc[f] = "find"
  /\ \E p \in need[f], x \in FreeTiles :
       /\ Lookup(f[2], p) = {}
       /\ \A y \in FreeTiles : x <= y
       /\ Assign(f, p, x)
       /\ Choose(f, p, x, "ref")

Recyclable(x) == state[x] = "DATA" /\ refs[x] = 0

\* Slip in Recycle: tiles in use are recycled too.
RecycleUsed(f) ==
  /\ pc[f] = "find" /\ FreeTiles = {}
  /\ \E p \in need[f], x \in Tiles :
       Lookup(f[2], p) = {} /\ state[x] = "DATA" /\ Choose(f, p, x, "steal")
  /\ UNCHANGED tileVars

\* ... or one that holds data nobody uses is chosen, of any cache, ...
Recycle(f) ==
  /\ pc[f] = "find" /\ FreeTiles = {}
  /\ \E p \in need[f], x \in Tiles :
       Lookup(f[2], p) = {} /\ Recyclable(x) /\ Choose(f, p, x, "steal")
  /\ UNCHANGED tileVars

\* ... and removed from that cache under its lock: phf_tile_dispose.
Steal(f) ==
  /\ pc[f] = "steal"
  /\ owner[hand[f]] # None => LockFree(owner[hand[f]])
  /\ Assign(f, place[f], hand[f])
  /\ pc' = [pc EXCEPT ![f] = "ref"]
  /\ UNCHANGED <<need, place, work, hand, failed, stop, asks, aborted>>

\* No tile is left: g_assert( tile ) ends the program.
Exhausted(f) ==
  /\ pc[f] = "find" /\ FreeTiles = {}
  /\ \E p \in need[f] : Lookup(f[2], p) = {}
  /\ \A x \in Tiles : ~Recyclable(x)
  /\ aborted' = TRUE
  /\ UNCHANGED <<tileVars, callVars, asks>>

\* phf_tile_ref; after the last tile the lock of the pool is given back.
Ref(f) ==
  /\ pc[f] = "ref"
  /\ refs' = [refs EXCEPT ![hand[f]] = @ + 1]
  /\ work' = [work EXCEPT ![f] = @ \cup {hand[f]}]
  /\ need' = [need EXCEPT ![f] = @ \ {place[f]}]
  /\ place' = [place EXCEPT ![f] = None]
  /\ hand' = [hand EXCEPT ![f] = None]
  /\ pc' = [pc EXCEPT ![f] = IF need[f] = {place[f]} THEN "lock" ELSE "find"]
  /\ UNCHANGED <<owner, pos, state, data, failed, stop, asks, aborted>>

-----------------------------------------------------------------------------
(* The rest of phf_tile_cache_gen *)

LockCache(f) ==
  /\ pc[f] = "lock" /\ LockFree(f[2])
  /\ pc' = [pc EXCEPT ![f] = "look"]
  /\ UNCHANGED <<tileVars, need, place, work, hand, failed, stop, asks, aborted>>

Ready(f) == {x \in work[f] : state[x] = "DATA"}
Pending(f) == {x \in work[f] : state[x] = "PEND"}

\* Slip in Paste: the tile keeps its reference.
PasteKeeps(f) ==
  /\ pc[f] = "look"
  /\ \E x \in Ready(f) : work' = [work EXCEPT ![f] = @ \ {x}]
  /\ UNCHANGED <<tileVars, pc, need, place, hand, failed, stop, asks, aborted>>

\* A tile that holds data is pasted and given back.
Paste(f) ==
  /\ pc[f] = "look"
  /\ \E x \in Ready(f) :
       /\ work' = [work EXCEPT ![f] = @ \ {x}]
       /\ refs' = [refs EXCEPT ![x] = @ - 1]
  /\ UNCHANGED <<owner, pos, state, data, pc, need, place, hand, failed, stop, asks, aborted>>

\* Slip in Calc: the tile stays PEND while it is computed.
CalcPending(f) ==
  /\ pc[f] = "look" /\ Ready(f) = {}
  /\ \E x \in Pending(f) : hand' = [hand EXCEPT ![f] = x]
  /\ pc' = [pc EXCEPT ![f] = "calc"]
  /\ UNCHANGED <<tileVars, need, place, work, failed, stop, asks, aborted>>

\* One tile that nobody computes yet is computed, without the lock.
Calc(f) ==
  /\ pc[f] = "look" /\ Ready(f) = {}
  /\ \E x \in Pending(f) :
       /\ state' = [state EXCEPT ![x] = "CALC"]
       /\ hand' = [hand EXCEPT ![f] = x]
  /\ pc' = [pc EXCEPT ![f] = "calc"]
  /\ UNCHANGED <<owner, pos, refs, data, need, place, work, failed, stop, asks, aborted>>

\* All that is left is computed by other threads: g_cond_wait.
WaitTile(f) ==
  /\ pc[f] = "look" /\ work[f] # {} /\ Ready(f) = {} /\ Pending(f) = {}
  /\ pc' = [pc EXCEPT ![f] = "wait"]
  /\ UNCHANGED <<tileVars, need, place, work, hand, failed, stop, asks, aborted>>

Leave(f) ==
  /\ pc[f] = "look" /\ work[f] = {}
  /\ pc' = [pc EXCEPT ![f] = "idle"]
  /\ UNCHANGED <<tileVars, need, place, work, hand, failed, stop, asks, aborted>>

\* vips_region_prepare_to: the pixels are computed here, ...
Compute(f) ==
  /\ pc[f] = "calc" /\ Upstream[f[2]] = None
  /\ \E ok \in IF f[2] \in Failing THEN BOOLEAN ELSE {TRUE} :
       failed' = [failed EXCEPT ![f] = ~ok]
  /\ pc' = [pc EXCEPT ![f] = "relock"]
  /\ UNCHANGED <<tileVars, need, place, work, hand, stop, asks, aborted>>

\* ... or made from an area of the cache upstream, by a call of its own.
Call(f) ==
  /\ pc[f] = "calc" /\ Upstream[f[2]] # None
  /\ pc[<<f[1], Upstream[f[2]]>>] = "idle"
  /\ Begin(<<f[1], Upstream[f[2]]>>, Reads[f[2]][pos[hand[f]]], [pc EXCEPT ![f] = "call"])
  /\ UNCHANGED <<tileVars, place, work, hand, failed, asks, aborted>>

Return(f) ==
  /\ pc[f] = "call" /\ pc[<<f[1], Upstream[f[2]]>>] = "idle"
  /\ failed' = [failed EXCEPT ![f] = stop[<<f[1], Upstream[f[2]]>>]]
  /\ pc' = [pc EXCEPT ![f] = "relock"]
  /\ UNCHANGED <<tileVars, need, place, work, hand, stop, asks, aborted>>

\* Slip in Woken: nobody is told.
WokenNone(f) == [pc EXCEPT ![f] = "look"]

\* g_cond_broadcast: those who wait at the cache compete for its lock again.
Woken(f) == [g \in Calls |-> IF g = f THEN "look"
                             ELSE IF g[2] = f[2] /\ pc[g] = "wait" THEN "lock" ELSE pc[g]]

Store(f) ==
  /\ state' = [state EXCEPT ![hand[f]] = "DATA"]
  /\ data' = [data EXCEPT ![hand[f]] = IF failed[f] THEN Black ELSE <<f[2], pos[hand[f]]>>]
  /\ stop' = [stop EXCEPT ![f] = @ \/ failed[f]]
  /\ hand' = [hand EXCEPT ![f] = None]

\* Slip in Finish: a tile with an error is left to be computed again.
FinishRetries(f) ==
  /\ pc[f] = "relock" /\ LockFree(f[2])
  /\ IF failed[f]
     THEN /\ state' = [state EXCEPT ![hand[f]] = "PEND"]
          /\ hand' = [hand EXCEPT ![f] = None]
          /\ stop' = [stop EXCEPT ![f] = TRUE]
          /\ UNCHANGED data
     ELSE Store(f)
  /\ pc' = Woken(f)
  /\ UNCHANGED <<owner, pos, refs, need, place, work, failed, asks, aborted>>

\* Slip in Finish: after an error the call returns at once.
FinishEarly(f) ==
  /\ pc[f] = "relock" /\ LockFree(f[2])
  /\ Store(f)
  /\ pc' = [Woken(f) EXCEPT ![f] = IF failed[f] THEN "idle" ELSE "look"]
  /\ UNCHANGED <<owner, pos, refs, need, place, work, failed, asks, aborted>>

\* The tile is there, black after an error: with the lock of the cache again,
\* the call tells the others and looks at its list once more.
Finish(f) ==
  /\ pc[f] = "relock" /\ LockFree(f[2])
  /\ Store(f)
  /\ pc' = Woken(f)
  /\ UNCHANGED <<owner, pos, refs, need, place, work, failed, asks, aborted>>

-----------------------------------------------------------------------------
Step(f) ==
  \/ LockPool(f) \/ FindTile(f) \/ TakeFree(f) \/ Recycle(f) \/ Steal(f) \/ Exhausted(f)
  \/ Ref(f)
  \/ LockCache(f) \/ Paste(f) \/ Calc(f) \/ WaitTile(f) \/ Leave(f)
  \/ Compute(f) \/ Call(f) \/ Return(f) \/ Finish(f)

Work ==
  \/ \E t \in Threads, c \in Caches, area \in Areas : Ask(t, c, area)
  \/ \E f \in Calls : Step(f)

\* No thread has anything to compute, or the program has ended.
Rest ==
  /\ aborted \/ \A f \in Calls : pc[f] = "idle"
  /\ UNCHANGED vars

Next == (~aborted /\ Work) \/ Rest

\* A thread that computes is scheduled again and again.
Fairness == \A f \in Calls : WF_vars(~aborted /\ Step(f))

Spec == Init /\ [][Next]_vars /\ Fairness

-----------------------------------------------------------------------------
\* Type invariant.
TypeOK ==
  /\ owner \in [Tiles -> Caches \cup {None}]
  /\ pos \in [Tiles -> Positions \cup {None}]
  /\ state \in [Tiles -> States] /\ refs \in [Tiles -> Nat]
  /\ data \in [Tiles -> (Caches \X Positions) \cup {Black, None}]
  /\ pc \in [Calls -> PoolHeld \cup {"idle", "pool", "lock", "look", "wait", "calc", "call", "relock"}]
  /\ need \in [Calls -> SUBSET Positions]
  /\ place \in [Calls -> Positions \cup {None}]
  /\ work \in [Calls -> SUBSET Tiles]
  /\ hand \in [Calls -> Tiles \cup {None}]
  /\ failed \in [Calls -> BOOLEAN] /\ stop \in [Calls -> BOOLEAN]
  /\ asks \in [Threads -> Nat] /\ aborted \in BOOLEAN

\* A tile on the list of a call belongs to its cache and is not free, and the
\* pixels it holds, if it holds any, are those of its place (or black, after an
\* error).  No two tiles of a cache have the same place.
OwnTiles ==
  /\ \A f \in Calls : \A x \in work[f] : owner[x] = f[2] /\ state[x] # "FREE"
  /\ \A x \in Tiles : state[x] = "DATA" => data[x] \in {Black, <<owner[x], pos[x]>>}
  /\ \A x, y \in Tiles : owner[x] # None /\ owner[x] = owner[y] /\ pos[x] = pos[y] => x = y

\* ref_count is the number of calls that have the tile on their list.
RefsExact == \A x \in Tiles : refs[x] = Cardinality({f \in Calls : x \in work[f]})

Computing(f, x) == pc[f] \in {"calc", "call", "relock"} /\ hand[f] = x

\* A tile in state CALC is computed by one call, which has it on its list, and
\* the others are not: what a call waits for is always on its way.
OneComputes ==
  /\ \A x \in Tiles : state[x] = "CALC" => \E f \in Calls : Computing(f, x) /\ x \in work[f]
  /\ \A f \in Calls, x \in Tiles : Computing(f, x) =>
       state[x] = "CALC" /\ \A g \in Calls \ {f} : ~Computing(g, x)

\* The pool is exhausted only when calls under way hold every tile of it: no tile
\* is ever lost to the pool.
AbortsWhenFull == aborted => \A x \in Tiles : \E f \in Calls : x \in work[f]

\* What a call may have to wait for: the lock of the pool, that of a cache, a tile
\* that another call computes, or the call it has made upstream.  With nothing to
\* look for it would hold the pool for good.
Blocked(f) ==
  \/ pc[f] = "pool" /\ ~PoolFree
  \/ pc[f] = "find" /\ need[f] = {}
  \/ pc[f] = "steal" /\ owner[hand[f]] # None /\ ~LockFree(owner[hand[f]])
  \/ pc[f] \in {"lock", "relock"} /\ ~LockFree(f[2])
  \/ pc[f] = "wait"
  \/ /\ pc[f] \in {"calc", "call"} /\ Upstream[f[2]] # None
     /\ pc[<<f[1], Upstream[f[2]]>>] # "idle"

\* Calls never wait for one another in a circle, however their caches are chained and
\* whatever they take from the pool: as long as one is under way, one can go on.
SomeCallMoves ==
  (\E f \in Calls : pc[f] # "idle") => \E f \in Calls : pc[f] # "idle" /\ ~Blocked(f)

\* Every call ends, errors included, unless the pool is too small.
CallsEnd == \A f \in Calls : pc[f] # "idle" ~> (pc[f] = "idle" \/ aborted)

\* The caches keep the promise of TileReader: a call gets each position of its
\* area once, whatever the pool does with the tiles in between, and ends when it
\* has them all.
Reader == INSTANCE TileReader WITH
  reading <- {f \in Calls : pc[f] # "idle"},
  pending <- [f \in Calls |-> need[f] \cup {pos[x] : x \in work[f]}]
ReadsDelivered == Reader!Spec
=============================================================================
