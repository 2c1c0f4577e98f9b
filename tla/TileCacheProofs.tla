-------------------------- MODULE TileCacheProofs ---------------------------
(***************************************************************************)
(* The invariants of TileCache, and that it keeps the promise of           *)
(* TileReader, for any threads, chain of caches and size of the pool.      *)
(***************************************************************************)
EXTENDS TileCache, FiniteSetTheorems, TLAPS

(***************************************************************************)
(* The inductive invariant.                                                *)
(***************************************************************************)

\* The lock of the pool has one holder.
PoolMutex == \A f, g \in Calls : pc[f] \in PoolHeld /\ pc[g] \in PoolHeld => f = g

\* A tile is free when it is in no cache.
InCache ==
  \A x \in Tiles :
    IF state[x] = "FREE" THEN owner[x] = None
    ELSE owner[x] \in Caches /\ pos[x] \in Positions

\* A tile to be computed is on the list of a call, or about to be.
Awaited ==
  \A x \in Tiles : state[x] = "PEND" =>
    \E f \in Calls : x \in work[f] \/ (pc[f] = "ref" /\ hand[f] = x)

\* What a call has in hand, and which lists are empty, at each point.
InHand(f) ==
  /\ pc[f] \in {"idle", "pool", "find", "lock", "look", "wait"} => hand[f] = None
  /\ pc[f] \in {"idle", "pool"} => work[f] = {}
  /\ pc[f] \notin PoolHeld \cup {"pool"} => need[f] = {}
  /\ pc[f] \in {"steal", "ref"} => hand[f] \in Tiles /\ place[f] \in need[f]
  /\ pc[f] = "steal" => Recyclable(hand[f]) /\ Lookup(f[2], place[f]) = {}
  /\ pc[f] = "ref" => owner[hand[f]] = f[2] /\ pos[hand[f]] = place[f]
  /\ pc[f] \in {"calc", "call", "relock"} => hand[f] \in work[f] /\ state[hand[f]] = "CALC"
  /\ pc[f] = "call" => Upstream[f[2]] # None

\* What a call still needs is not on its list yet.
NeedsMore(f) == \A x \in work[f] : pos[x] \notin need[f]

CallInv == \A f \in Calls : InHand(f) /\ NeedsMore(f)

IInv ==
  /\ TypeOK /\ OwnTiles /\ RefsExact /\ OneComputes /\ AbortsWhenFull
  /\ PoolMutex /\ InCache /\ Awaited /\ CallInv

-----------------------------------------------------------------------------
LEMMA CallParts ==
  ASSUME NEW f \in Calls
  PROVE  f[1] \in Threads /\ f[2] \in Caches
BY DEF Calls

LEMMA InitInv == Init => IInv
<1> SUFFICES ASSUME Init PROVE IInv
  OBVIOUS
<1>1. TypeOK
  BY DEF Init, TypeOK, States
<1>2. OwnTiles
  BY NullAssumption DEF Init, OwnTiles, Calls
<1>3. RefsExact
  <2>1. ASSUME NEW x \in Tiles PROVE refs[x] = Cardinality({f \in Calls : x \in work[f]})
    <3>1. {f \in Calls : x \in work[f]} = {} /\ refs[x] = 0
      BY DEF Init
    <3>2. QED
      BY <3>1, FS_EmptySet
  <2>2. QED
    BY <2>1 DEF RefsExact
<1>4. OneComputes /\ AbortsWhenFull /\ PoolMutex /\ InCache /\ Awaited
  BY DEF Init, OneComputes, Computing, AbortsWhenFull, PoolMutex, PoolHeld, InCache, Awaited
<1>5. CallInv
  BY DEF Init, CallInv, InHand, NeedsMore
<1>6. QED
  BY <1>1, <1>2, <1>3, <1>4, <1>5 DEF IInv

\* What a step that touches neither tiles nor lists cannot disturb.
LEMMA TilesUnmoved ==
  ASSUME IInv, UNCHANGED <<tileVars, work, aborted>>
  PROVE  OwnTiles' /\ RefsExact' /\ AbortsWhenFull' /\ InCache'
BY DEF IInv, OwnTiles, RefsExact, AbortsWhenFull, InCache, tileVars

LEMMA AskInv ==
  ASSUME IInv, NEW t \in Threads, NEW c \in Caches, NEW a \in Areas, Ask(t, c, a)
  PROVE  IInv'
<1> DEFINE f == <<t, c>>
<1>1. f \in Calls /\ pc[f] = "idle"
  BY DEF Calls, Ask
<1>2. /\ pc' = [pc EXCEPT ![f] = "pool"] /\ need' = [need EXCEPT ![f] = a]
      /\ stop' = [stop EXCEPT ![f] = FALSE] /\ asks' = [asks EXCEPT ![t] = @ + 1]
      /\ UNCHANGED <<tileVars, place, work, hand, failed, aborted>>
  BY DEF Ask, Begin
<1> HIDE DEF f
<1>3. TypeOK'
  BY <1>1, <1>2, AreasAssumption DEF TypeOK, tileVars, IInv
<1>4. OneComputes' /\ PoolMutex' /\ Awaited'
  BY SMTT(40), <1>1, <1>2 DEF IInv, TypeOK, OneComputes, Computing, PoolMutex, PoolHeld, Awaited, tileVars
<1>5. CallInv'
  BY <1>1, <1>2 DEF IInv, TypeOK, CallInv, InHand, NeedsMore, PoolHeld, tileVars, Recyclable, Lookup
<1>6. QED
  BY <1>2, <1>3, <1>4, <1>5, TilesUnmoved DEF IInv

\* The steps that change neither tiles nor lists: finding a tile, locking,
\* waiting, computing.
Control(f) ==
  \/ LockPool(f) \/ FindTile(f) \/ Recycle(f) \/ LockCache(f) \/ WaitTile(f) \/ Leave(f)
  \/ Compute(f) \/ Return(f)

LEMMA ControlInv ==
  ASSUME IInv, NEW f \in Calls, Control(f)
  PROVE  IInv'
<1> DEFINE Goal == TypeOK' /\ OneComputes' /\ PoolMutex' /\ Awaited' /\ CallInv'
<1> USE DEF IInv, TypeOK, OneComputes, Computing, PoolMutex, PoolHeld, PoolFree, Awaited,
            CallInv, InHand, NeedsMore, Recyclable, Lookup, tileVars
<1>1. UNCHANGED <<tileVars, work, aborted, asks>>
  BY DEF Control, LockPool, FindTile, Choose, Recycle, LockCache, WaitTile, Leave, Compute,
         Return
<1>2. failed' \in [Calls -> BOOLEAN]
  <2>1. failed' = failed \/ \E b \in BOOLEAN : failed' = [failed EXCEPT ![f] = b]
    <3>1. CASE Compute(f)
      <4>1. PICK ok \in BOOLEAN : failed' = [failed EXCEPT ![f] = ~ok]
        BY <3>1 DEF Compute
      <4>2. QED
        BY <4>1
    <3>2. CASE Return(f)
      <4> DEFINE g == <<f[1], Upstream[f[2]]>>
      <4>1. g \in Calls
        BY <3>2, CallParts, ChainAssumption DEF Return, Calls
      <4>2. stop[g] \in BOOLEAN
        BY <4>1
      <4>3. QED
        BY <3>2, <4>2 DEF Return
    <3>3. QED
      BY <3>1, <3>2 DEF Control, LockPool, FindTile, Choose, Recycle, LockCache, WaitTile, Leave
  <2>2. QED
    BY <2>1
<1>3. ASSUME LockPool(f) PROVE Goal
  BY <1>2, <1>3 DEF LockPool
<1>4. ASSUME FindTile(f) PROVE Goal
  BY SMTT(40), <1>2, <1>4 DEF FindTile, Choose
<1>5. ASSUME Recycle(f) PROVE Goal
  BY SMTT(40), <1>2, <1>5 DEF Recycle, Choose
<1>6. ASSUME LockCache(f) PROVE Goal
  BY SMTT(40), <1>2, <1>6 DEF LockCache
<1>7. ASSUME WaitTile(f) PROVE Goal
  BY <1>2, <1>7 DEF WaitTile
<1>8. ASSUME Leave(f) PROVE Goal
  BY <1>2, <1>8 DEF Leave
<1>9. ASSUME Compute(f) PROVE Goal
  BY <1>2, <1>9 DEF Compute
<1>10. ASSUME Return(f) PROVE Goal
  BY <1>2, <1>10 DEF Return
<1>20. QED
  BY <1>1, <1>3, <1>4, <1>5, <1>6, <1>7, <1>8, <1>9, <1>10, TilesUnmoved DEF Control

\* A call of the cache upstream begins as one that a thread asks for does.
LEMMA CallsUpstream ==
  ASSUME IInv, NEW f \in Calls, Call(f)
  PROVE  IInv'
<1> DEFINE g == <<f[1], Upstream[f[2]]>>
           a == Reads[f[2]][pos[hand[f]]]
<1>1. g \in Calls /\ a \in SUBSET Positions /\ f # g
  <2>1. g \in Calls
    BY CallParts, ChainAssumption DEF Call, Calls
  <2>2. hand[f] \in work[f] /\ hand[f] \in Tiles
    BY DEF IInv, TypeOK, CallInv, InHand, Call
  <2>3. pos[hand[f]] \in Positions
    BY <2>2 DEF IInv, OwnTiles, InCache
  <2>4. a \in SUBSET Positions
    BY <2>3, CallParts, ChainAssumption
  <2>5. f # g
    BY DEF Call
  <2>6. QED
    BY <2>1, <2>4, <2>5
<1>2. /\ pc[f] = "calc" /\ pc[g] = "idle" /\ Upstream[f[2]] # None
      /\ pc' = [[pc EXCEPT ![f] = "call"] EXCEPT ![g] = "pool"]
      /\ need' = [need EXCEPT ![g] = a] /\ stop' = [stop EXCEPT ![g] = FALSE]
      /\ UNCHANGED <<tileVars, place, work, hand, failed, asks, aborted>>
  BY DEF Call, Begin
<1> HIDE DEF g, a
<1>3. TypeOK'
  <2>1. stop' \in [Calls -> BOOLEAN]
    BY <1>1, <1>2 DEF IInv, TypeOK
  <2>2. QED
    BY <1>1, <1>2, <2>1 DEF IInv, TypeOK, tileVars
<1>4. OneComputes' /\ PoolMutex' /\ Awaited'
  <2>1. \A h \in Calls : /\ pc'[h] \in PoolHeld <=> pc[h] \in PoolHeld
                         /\ pc'[h] = "ref" <=> pc[h] = "ref"
                         /\ pc'[h] \in {"calc", "call", "relock"} <=> pc[h] \in {"calc", "call", "relock"}
    BY <1>1, <1>2 DEF IInv, TypeOK, PoolHeld
  <2>2. PoolMutex' /\ Awaited'
    <3>1. PoolMutex'
      BY <2>1 DEF IInv, PoolMutex
    <3>2. state' = state /\ work' = work /\ hand' = hand
      BY <1>2 DEF tileVars
    <3>3. Awaited'
      BY <2>1, <3>2 DEF IInv, Awaited
    <3>4. QED
      BY <3>1, <3>3
  <2>3. \A h \in Calls, x \in Tiles : Computing(h, x)' <=> Computing(h, x)
    BY <1>2, <2>1 DEF Computing
  <2>4. OneComputes'
    BY <1>2, <2>3 DEF IInv, OneComputes, tileVars
  <2>5. QED
    BY <2>2, <2>4
<1>5. CallInv'
  BY <1>1, <1>2 DEF IInv, TypeOK, CallInv, InHand, NeedsMore, PoolHeld, tileVars, Recyclable, Lookup
<1>6. QED
  BY <1>2, <1>3, <1>4, <1>5, TilesUnmoved DEF IInv

\* A tile with reference count 0 is on no list.
LEMMA UnusedTile ==
  ASSUME IInv, NEW x \in Tiles
  PROVE  refs[x] = 0 <=> \A f \in Calls : x \notin work[f]
<1>1. IsFiniteSet(Calls)
  BY FiniteAssumption, FS_Product DEF Calls
<1>2. IsFiniteSet({f \in Calls : x \in work[f]})
  BY <1>1, FS_Subset
<1>3. refs[x] = 0 <=> {f \in Calls : x \in work[f]} = {}
  BY <1>2, FS_EmptySet DEF IInv, RefsExact
<1>4. QED
  BY <1>3

\* The pool runs dry only when every tile is on a list.
LEMMA ExhaustedInv ==
  ASSUME IInv, NEW f \in Calls, Exhausted(f)
  PROVE  IInv'
<1>1. UNCHANGED <<tileVars, callVars, asks>> /\ pc[f] = "find"
  BY DEF Exhausted
<1>2. ASSUME NEW x \in Tiles PROVE \E g \in Calls : x \in work[g]
  <2>1. CASE state[x] = "DATA"
    BY <2>1, UnusedTile DEF Exhausted, Recyclable
  <2>2. CASE state[x] = "CALC"
    BY <2>2 DEF IInv, OneComputes
  <2>3. CASE state[x] = "PEND"
    BY <1>1, <2>3 DEF IInv, Awaited, PoolMutex, PoolHeld
  <2>4. state[x] # "FREE"
    BY DEF Exhausted, FreeTiles
  <2>5. QED
    BY <2>1, <2>2, <2>3, <2>4 DEF IInv, TypeOK, States
<1>3. AbortsWhenFull'
  BY <1>1, <1>2 DEF AbortsWhenFull, callVars
<1>4. aborted' \in BOOLEAN
  BY DEF Exhausted
<1>5. TypeOK'
  BY <1>1, <1>4 DEF IInv, TypeOK, tileVars, callVars
<1>6. OwnTiles' /\ RefsExact' /\ OneComputes' /\ PoolMutex' /\ InCache' /\ Awaited' /\ CallInv'
  BY <1>1 DEF IInv, OwnTiles, RefsExact, OneComputes, Computing, PoolMutex, InCache, Awaited, CallInv,
              InHand, NeedsMore, Recyclable, Lookup, tileVars, callVars
<1>7. QED
  BY <1>3, <1>5, <1>6 DEF IInv

\* A tile that nobody uses becomes the one of place p: phf_tile_assign.
LEMMA AssignInv ==
  ASSUME IInv, NEW f \in Calls, NEW p \in need[f], NEW x \in Tiles,
         pc[f] \in {"find", "steal"}, Lookup(f[2], p) = {},
         \A g \in Calls : x \notin work[g],
         state[x] \in {"FREE", "DATA"},
         Assign(f, p, x),
         pc' = [pc EXCEPT ![f] = "ref"],
         place' = [place EXCEPT ![f] = p],
         hand' = [hand EXCEPT ![f] = x],
         UNCHANGED <<need, work, failed, stop, asks, aborted>>
  PROVE  IInv'
<1>1. f[2] \in Caches /\ p \in Positions
  BY CallParts DEF IInv, TypeOK
<1>2. TypeOK'
  BY <1>1 DEF IInv, TypeOK, Assign, States, PoolHeld
<1>3. \A y \in Tiles \ {x} : /\ owner'[y] = owner[y] /\ pos'[y] = pos[y] /\ state'[y] = state[y]
                             /\ refs'[y] = refs[y] /\ data'[y] = data[y]
  BY DEF IInv, TypeOK, Assign
<1>4. owner'[x] = f[2] /\ pos'[x] = p /\ state'[x] = "PEND" /\ refs'[x] = 0 /\ data'[x] = None
  BY DEF IInv, TypeOK, Assign
<1>5. OwnTiles'
  <2>1. \A g \in Calls : \A y \in work'[g] : owner'[y] = g[2] /\ state'[y] # "FREE"
    BY <1>3 DEF IInv, OwnTiles, TypeOK
  <2>2. \A y \in Tiles : state'[y] = "DATA" => data'[y] \in {Black, <<owner'[y], pos'[y]>>}
    BY <1>3, <1>4 DEF IInv, OwnTiles
  <2>3. \A y, z \in Tiles : owner'[y] # None /\ owner'[y] = owner'[z] /\ pos'[y] = pos'[z] => y = z
    BY <1>3, <1>4 DEF IInv, OwnTiles, Lookup
  <2>4. QED
    BY <2>1, <2>2, <2>3 DEF OwnTiles
<1>6. RefsExact'
  <2>1. ASSUME NEW y \in Tiles PROVE refs'[y] = Cardinality({g \in Calls : y \in work'[g]})
    <3>1. CASE y = x
      <4>1. {g \in Calls : y \in work'[g]} = {}
        BY <3>1
      <4>2. QED
        BY <1>4, <3>1, <4>1, FS_EmptySet
    <3>2. CASE y # x
      BY ZenonT(60), <1>3, <3>2 DEF IInv, RefsExact
    <3>3. QED
      BY <3>1, <3>2
  <2>2. QED
    BY <2>1 DEF RefsExact
<1>7. OneComputes'
  BY <1>3, <1>4 DEF IInv, TypeOK, OneComputes, Computing
<1>8. InCache' /\ AbortsWhenFull'
  BY <1>1, <1>3, <1>4 DEF IInv, InCache, AbortsWhenFull
<1>9. PoolMutex'
  BY DEF IInv, TypeOK, PoolMutex, PoolHeld
<1>10. Awaited'
  <2>1. pc'[f] = "ref" /\ hand'[f] = x
    BY DEF IInv, TypeOK
  <2>2. ASSUME NEW y \in Tiles \ {x}, state'[y] = "PEND"
        PROVE  \E g \in Calls : y \in work'[g] \/ (pc'[g] = "ref" /\ hand'[g] = y)
    <3>1. PICK g \in Calls : y \in work[g] \/ (pc[g] = "ref" /\ hand[g] = y)
      BY <1>3, <2>2 DEF IInv, Awaited
    <3>2. QED
      BY <3>1 DEF IInv, TypeOK
  <2>3. QED
    BY <2>1, <2>2 DEF Awaited
<1>11. CallInv'
  <2>1. ASSUME NEW g \in Calls PROVE NeedsMore(g)'
    BY <1>3 DEF IInv, TypeOK, CallInv, NeedsMore
  <2>2. InHand(f)'
    BY <1>4 DEF IInv, TypeOK, CallInv, InHand, PoolHeld
  <2>3. ASSUME NEW g \in Calls, g # f PROVE InHand(g)'
    <3>1. /\ pc'[g] = pc[g] /\ hand'[g] = hand[g] /\ place'[g] = place[g] /\ need'[g] = need[g]
          /\ work'[g] = work[g] /\ pc[g] \notin PoolHeld
      BY <2>3 DEF IInv, TypeOK, PoolMutex, PoolHeld
    <3>2. pc[g] \in {"calc", "call", "relock"} => state'[hand[g]] = "CALC"
      BY <1>3, <2>3 DEF IInv, TypeOK, CallInv, InHand
    <3>3. QED
      BY <2>3, <3>1, <3>2 DEF IInv, CallInv, InHand, PoolHeld
  <2>4. QED
    BY <2>1, <2>2, <2>3 DEF CallInv
<1>12. QED
  BY <1>2, <1>5, <1>6, <1>7, <1>8, <1>9, <1>10, <1>11 DEF IInv

LEMMA TakeFreeInv ==
  ASSUME IInv, NEW f \in Calls, TakeFree(f)
  PROVE  IInv'
<1>1. PICK p \in need[f], x \in FreeTiles :
        Lookup(f[2], p) = {} /\ Assign(f, p, x) /\ Choose(f, p, x, "ref")
  BY DEF TakeFree
<1>2. x \in Tiles /\ state[x] = "FREE" /\ \A g \in Calls : x \notin work[g]
  BY <1>1 DEF FreeTiles, IInv, OwnTiles
<1>3. QED
  BY <1>1, <1>2, AssignInv DEF TakeFree, Choose

LEMMA StealInv ==
  ASSUME IInv, NEW f \in Calls, Steal(f)
  PROVE  IInv'
<1> DEFINE p == place[f]
           x == hand[f]
<1>1. /\ p \in need[f] /\ x \in Tiles /\ state[x] = "DATA" /\ refs[x] = 0
      /\ Lookup(f[2], p) = {} /\ pc[f] = "steal"
  BY DEF Steal, IInv, CallInv, InHand, Recyclable
<1>2. \A g \in Calls : x \notin work[g]
  BY <1>1, UnusedTile
<1>3. place' = [place EXCEPT ![f] = p] /\ hand' = [hand EXCEPT ![f] = x]
  BY DEF Steal, IInv, TypeOK
<1>4. QED
  BY <1>1, <1>2, <1>3, AssignInv DEF Steal

\* The lists that have a tile, when one list gains it or loses it.
LEMMA OneMoreList ==
  ASSUME NEW x, NEW f \in Calls, x \in work'[f], x \notin work[f],
         \A g \in Calls \ {f} : x \in work'[g] <=> x \in work[g]
  PROVE  Cardinality({g \in Calls : x \in work'[g]})
           = Cardinality({g \in Calls : x \in work[g]}) + 1
<1>1. IsFiniteSet({g \in Calls : x \in work[g]})
  BY FiniteAssumption, FS_Product, FS_Subset DEF Calls
<1>2. {g \in Calls : x \in work'[g]} = {g \in Calls : x \in work[g]} \cup {f}
  OBVIOUS
<1>3. QED
  BY <1>1, <1>2, FS_AddElement

LEMMA OneListLess ==
  ASSUME NEW x, NEW f \in Calls, x \in work[f], x \notin work'[f],
         \A g \in Calls \ {f} : x \in work'[g] <=> x \in work[g]
  PROVE  /\ Cardinality({g \in Calls : x \in work[g]}) \in Nat \ {0}
         /\ Cardinality({g \in Calls : x \in work'[g]})
              = Cardinality({g \in Calls : x \in work[g]}) - 1
<1>1. IsFiniteSet({g \in Calls : x \in work[g]})
  BY FiniteAssumption, FS_Product, FS_Subset DEF Calls
<1>2. {g \in Calls : x \in work'[g]} = {g \in Calls : x \in work[g]} \ {f}
  OBVIOUS
<1>3. Cardinality({g \in Calls : x \in work[g]}) # 0
  BY <1>1, FS_EmptySet
<1>4. QED
  BY <1>1, <1>2, <1>3, FS_RemoveElement, FS_CardinalityType

LEMMA RefInv ==
  ASSUME IInv, NEW f \in Calls, Ref(f)
  PROVE  IInv'
<1> DEFINE x == hand[f]
           p == place[f]
<1>1. /\ x \in Tiles /\ p \in need[f] /\ owner[x] = f[2] /\ pos[x] = p /\ pc[f] = "ref"
      /\ f[2] \in Caches
  BY CallParts DEF Ref, IInv, CallInv, InHand
<1>2. state[x] # "FREE" /\ x \notin work[f]
  BY <1>1, NullAssumption DEF IInv, InCache, CallInv, NeedsMore
<1>3. /\ refs' = [refs EXCEPT ![x] = @ + 1] /\ work' = [work EXCEPT ![f] = @ \cup {x}]
      /\ need' = [need EXCEPT ![f] = @ \ {p}] /\ place' = [place EXCEPT ![f] = None]
      /\ hand' = [hand EXCEPT ![f] = None]
      /\ pc' = [pc EXCEPT ![f] = IF need[f] = {p} THEN "lock" ELSE "find"]
      /\ UNCHANGED <<owner, pos, state, data, failed, stop, asks, aborted>>
  BY DEF Ref
<1> HIDE DEF x, p
<1>4. TypeOK'
  BY <1>1, <1>3 DEF IInv, TypeOK, PoolHeld
<1>5. OwnTiles'
  BY <1>1, <1>2, <1>3 DEF IInv, TypeOK, OwnTiles
<1>6. RefsExact'
  <2>1. ASSUME NEW y \in Tiles PROVE refs'[y] = Cardinality({g \in Calls : y \in work'[g]})
    <3>1. CASE y = x
      <4>1. x \in work'[f] /\ \A g \in Calls \ {f} : x \in work'[g] <=> x \in work[g]
        BY <1>1, <1>3 DEF IInv, TypeOK
      <4>2. Cardinality({g \in Calls : x \in work'[g]})
              = Cardinality({g \in Calls : x \in work[g]}) + 1
        BY <1>2, <4>1, OneMoreList
      <4>3. refs'[x] = refs[x] + 1
        BY <1>1, <1>3 DEF IInv, TypeOK
      <4>4. refs[x] = Cardinality({g \in Calls : x \in work[g]})
        BY <1>1 DEF IInv, RefsExact
      <4>5. QED
        BY <3>1, <4>2, <4>3, <4>4
    <3>2. CASE y # x
      <4>1. {g \in Calls : y \in work'[g]} = {g \in Calls : y \in work[g]}
        BY <1>3, <3>2 DEF IInv, TypeOK
      <4>2. QED
        BY <1>3, <3>2, <4>1 DEF IInv, TypeOK, RefsExact
    <3>3. QED
      BY <3>1, <3>2
  <2>2. QED
    BY <2>1 DEF RefsExact
<1>7. OneComputes'
  BY <1>1, <1>3 DEF IInv, TypeOK, OneComputes, Computing
<1>8. AbortsWhenFull' /\ InCache'
  BY <1>3 DEF IInv, TypeOK, AbortsWhenFull, InCache
<1>9. PoolMutex' /\ Awaited'
  BY <1>1, <1>3 DEF IInv, TypeOK, PoolMutex, PoolHeld, Awaited, x
<1>10. CallInv'
  <2>1. ASSUME NEW g \in Calls PROVE NeedsMore(g)'
    BY <1>1, <1>3 DEF IInv, TypeOK, CallInv, NeedsMore
  <2>2. InHand(f)'
    BY <1>1, <1>3 DEF IInv, TypeOK, CallInv, InHand, PoolHeld
  <2>3. ASSUME NEW g \in Calls, g # f PROVE InHand(g)'
    <3>1. /\ pc'[g] = pc[g] /\ hand'[g] = hand[g] /\ place'[g] = place[g] /\ need'[g] = need[g]
          /\ work'[g] = work[g] /\ pc[g] \notin PoolHeld
      BY <1>1, <1>3, <2>3 DEF IInv, TypeOK, PoolMutex, PoolHeld
    <3>2. QED
      BY <1>3, <2>3, <3>1 DEF IInv, CallInv, InHand, PoolHeld
  <2>4. QED
    BY <2>1, <2>2, <2>3 DEF CallInv
<1>11. QED
  BY <1>4, <1>5, <1>6, <1>7, <1>8, <1>9, <1>10 DEF IInv

LEMMA PasteInv ==
  ASSUME IInv, ~aborted, NEW f \in Calls, Paste(f)
  PROVE  IInv'
<1>1. PICK x \in Ready(f) :
        work' = [work EXCEPT ![f] = @ \ {x}] /\ refs' = [refs EXCEPT ![x] = @ - 1]
  BY DEF Paste
<1>2. x \in work[f] /\ x \in Tiles /\ state[x] = "DATA" /\ pc[f] = "look"
  BY DEF Paste, Ready, IInv, TypeOK
<1>3. UNCHANGED <<owner, pos, state, data, pc, need, place, hand, failed, stop, asks, aborted>>
  BY DEF Paste
<1>4. /\ refs[x] \in Nat \ {0}
      /\ \A y \in Tiles : refs'[y] = Cardinality({g \in Calls : y \in work'[g]})
  <2>1. x \notin work'[f] /\ \A g \in Calls \ {f} : x \in work'[g] <=> x \in work[g]
    BY <1>1, <1>2 DEF IInv, TypeOK
  <2>2. refs[x] \in Nat \ {0} /\ refs'[x] = Cardinality({g \in Calls : x \in work'[g]})
    <3>1. /\ Cardinality({g \in Calls : x \in work[g]}) \in Nat \ {0}
          /\ Cardinality({g \in Calls : x \in work'[g]})
               = Cardinality({g \in Calls : x \in work[g]}) - 1
      BY <1>2, <2>1, OneListLess
    <3>2. refs[x] = Cardinality({g \in Calls : x \in work[g]})
      BY <1>2 DEF IInv, RefsExact
    <3>3. refs'[x] = refs[x] - 1
      BY <1>1, <1>2 DEF IInv, TypeOK
    <3>4. QED
      BY <3>1, <3>2, <3>3
  <2>3. ASSUME NEW y \in Tiles \ {x}
        PROVE  refs'[y] = Cardinality({g \in Calls : y \in work'[g]})
    <3>1. {g \in Calls : y \in work'[g]} = {g \in Calls : y \in work[g]}
      BY <1>1, <2>3 DEF IInv, TypeOK
    <3>2. QED
      BY <1>1, <2>3, <3>1 DEF IInv, TypeOK, RefsExact
  <2>4. QED
    BY <2>2, <2>3
<1>5. TypeOK'
  <2>1. refs' \in [Tiles -> Nat]
    <3>1. refs[x] - 1 \in Nat
      BY <1>4
    <3>2. QED
      BY <1>1, <3>1 DEF IInv, TypeOK
  <2>2. QED
    BY <1>1, <1>2, <1>3, <2>1 DEF IInv, TypeOK
<1>6. OwnTiles' /\ RefsExact' /\ InCache' /\ PoolMutex'
  BY <1>1, <1>3, <1>4 DEF IInv, TypeOK, OwnTiles, RefsExact, InCache, PoolMutex
<1>7. OneComputes'
  BY <1>1, <1>2, <1>3 DEF IInv, TypeOK, OneComputes, Computing
<1>8. Awaited'
  BY <1>1, <1>2, <1>3 DEF IInv, TypeOK, Awaited
<1>9. CallInv'
  <2>1. ASSUME NEW g \in Calls, pc[g] = "steal" PROVE hand[g] # x
    BY <1>4, <2>1 DEF IInv, CallInv, InHand, Recyclable
  <2>2. ASSUME NEW g \in Calls PROVE NeedsMore(g)'
    BY <1>1, <1>3 DEF IInv, TypeOK, CallInv, NeedsMore
  <2>3. ASSUME NEW g \in Calls, pc[g] \in {"calc", "call", "relock"} PROVE hand[g] \in work'[g]
    BY <1>1, <1>2, <2>3 DEF IInv, TypeOK, CallInv, InHand
  <2>4. ASSUME NEW g \in Calls, pc[g] \in {"idle", "pool"} PROVE work'[g] = {}
    BY <1>1, <1>2, <2>4 DEF IInv, TypeOK, CallInv, InHand
  <2>5. ASSUME NEW g \in Calls PROVE InHand(g)'
    BY <1>1, <1>2, <1>3, <2>1, <2>3, <2>4 DEF IInv, TypeOK, CallInv, InHand, Recyclable, Lookup
  <2>6. QED
    BY <2>2, <2>5 DEF CallInv
<1>10. QED
  BY <1>3, <1>5, <1>6, <1>7, <1>8, <1>9 DEF IInv, AbortsWhenFull

LEMMA CalcInv ==
  ASSUME IInv, NEW f \in Calls, Calc(f)
  PROVE  IInv'
<1>1. PICK x \in Pending(f) :
        state' = [state EXCEPT ![x] = "CALC"] /\ hand' = [hand EXCEPT ![f] = x]
  BY DEF Calc
<1>2. x \in work[f] /\ x \in Tiles /\ state[x] = "PEND" /\ pc[f] = "look"
  BY DEF Calc, Pending, IInv, TypeOK
<1>3. /\ pc' = [pc EXCEPT ![f] = "calc"]
      /\ UNCHANGED <<owner, pos, refs, data, need, place, work, failed, stop, asks, aborted>>
  BY DEF Calc
<1>4. TypeOK'
  BY <1>1, <1>2, <1>3 DEF IInv, TypeOK, States
<1>5. OwnTiles' /\ RefsExact' /\ InCache' /\ AbortsWhenFull'
  BY <1>1, <1>2, <1>3 DEF IInv, TypeOK, OwnTiles, RefsExact, InCache, AbortsWhenFull
<1>6. PoolMutex' /\ Awaited'
  BY <1>1, <1>2, <1>3 DEF IInv, TypeOK, PoolMutex, PoolHeld, Awaited
<1>7. OneComputes'
  <2>1. \A g \in Calls, y \in Tiles :
          Computing(g, y)' <=> (Computing(g, y) /\ g # f) \/ (g = f /\ y = x)
    BY <1>1, <1>2, <1>3 DEF IInv, TypeOK, Computing
  <2>2. \A g \in Calls : ~Computing(g, x)
    BY <1>2 DEF IInv, OneComputes
  <2>3. \A y \in Tiles \ {x} : state'[y] = state[y]
    BY <1>1 DEF IInv, TypeOK
  <2>4. state'[x] = "CALC"
    BY <1>1, <1>2 DEF IInv, TypeOK
  <2>5. \A y \in Tiles : ~Computing(f, y)
    BY <1>2 DEF Computing
  <2>6. ASSUME NEW y \in Tiles, state'[y] = "CALC"
        PROVE  \E g \in Calls : Computing(g, y)' /\ y \in work'[g]
    <3>1. CASE y = x
      BY <1>2, <1>3, <2>1, <3>1
    <3>2. CASE y # x
      <4>1. PICK g \in Calls : Computing(g, y) /\ y \in work[g]
        BY <2>3, <2>6, <3>2 DEF IInv, OneComputes
      <4>2. g # f
        BY <2>5, <4>1
      <4>3. QED
        BY <1>3, <2>1, <4>1, <4>2
    <3>3. QED
      BY <3>1, <3>2
  <2>7. ASSUME NEW g \in Calls, NEW y \in Tiles, Computing(g, y)'
        PROVE  state'[y] = "CALC" /\ \A h \in Calls \ {g} : ~Computing(h, y)'
    BY <2>1, <2>2, <2>3, <2>4, <2>7 DEF IInv, OneComputes
  <2>8. QED
    BY <2>6, <2>7 DEF OneComputes
<1>8. CallInv'
  <2>1. ASSUME NEW g \in Calls PROVE NeedsMore(g)'
    BY <1>3 DEF IInv, CallInv, NeedsMore
  <2>2. ASSUME NEW g \in Calls PROVE InHand(g)'
    BY <1>1, <1>2, <1>3 DEF IInv, TypeOK, CallInv, InHand, PoolHeld, Recyclable, Lookup
  <2>3. QED
    BY <2>1, <2>2 DEF CallInv
<1>9. QED
  BY <1>4, <1>5, <1>6, <1>7, <1>8 DEF IInv

LEMMA FinishInv ==
  ASSUME IInv, NEW f \in Calls, Finish(f)
  PROVE  IInv'
<1> DEFINE x == hand[f]
           d == IF failed[f] THEN Black ELSE <<f[2], pos[x]>>
<1>1. /\ x \in work[f] /\ x \in Tiles /\ state[x] = "CALC" /\ pc[f] = "relock"
      /\ owner[x] = f[2] /\ pos[x] \in Positions /\ f[2] \in Caches
  <2>1. x \in work[f] /\ x \in Tiles /\ state[x] = "CALC" /\ pc[f] = "relock"
    BY DEF Finish, IInv, TypeOK, CallInv, InHand
  <2>2. QED
    BY <2>1, CallParts DEF IInv, OwnTiles, InCache
<1>2. /\ state' = [state EXCEPT ![x] = "DATA"] /\ data' = [data EXCEPT ![x] = d]
      /\ stop' = [stop EXCEPT ![f] = @ \/ failed[f]] /\ hand' = [hand EXCEPT ![f] = None]
      /\ pc' = Woken(f)
      /\ UNCHANGED <<owner, pos, refs, need, place, work, failed, asks, aborted>>
  BY DEF Finish, Store
<1>3. d \in {Black, <<owner[x], pos[x]>>} /\ d \in (Caches \X Positions) \cup {Black, None}
  BY <1>1
<1> HIDE DEF x, d
<1>4. \A g \in Calls :
        pc'[g] = IF g = f THEN "look"
                 ELSE IF g[2] = f[2] /\ pc[g] = "wait" THEN "lock" ELSE pc[g]
  BY <1>2 DEF Woken
<1>5. TypeOK'
  <2>1. stop' \in [Calls -> BOOLEAN]
    BY <1>2 DEF IInv, TypeOK
  <2>2. pc' \in [Calls -> PoolHeld \cup {"idle", "pool", "lock", "look", "wait", "calc", "call",
                                         "relock"}]
    BY <1>2 DEF IInv, TypeOK, Woken
  <2>3. QED
    BY <1>1, <1>2, <1>3, <2>1, <2>2 DEF IInv, TypeOK, States
<1>6. OwnTiles'
  BY <1>1, <1>2, <1>3 DEF IInv, TypeOK, OwnTiles
<1>7. RefsExact' /\ InCache' /\ AbortsWhenFull'
  BY <1>1, <1>2 DEF IInv, TypeOK, RefsExact, InCache, AbortsWhenFull
<1>8. PoolMutex' /\ Awaited'
  BY SMTT(40), <1>1, <1>2, <1>4 DEF IInv, TypeOK, PoolMutex, PoolHeld, Awaited
<1>9. OneComputes'
  <2>1. \A g \in Calls, y \in Tiles : Computing(g, y)' <=> Computing(g, y) /\ g # f
    BY <1>1, <1>2, <1>4 DEF IInv, TypeOK, Computing
  <2>2. \A g \in Calls \ {f} : ~Computing(g, x)
    BY <1>1 DEF IInv, OneComputes, Computing, x
  <2>3. /\ \A y \in Tiles \ {x} : state'[y] = state[y] /\ ~Computing(f, y)
        /\ state'[x] = "DATA"
    BY <1>1, <1>2 DEF IInv, TypeOK, Computing, x
  <2>4. ASSUME NEW y \in Tiles, state'[y] = "CALC"
        PROVE  \E g \in Calls : Computing(g, y)' /\ y \in work'[g]
    <3>1. y # x /\ state[y] = "CALC"
      BY <2>3, <2>4
    <3>2. PICK g \in Calls : Computing(g, y) /\ y \in work[g]
      BY <3>1 DEF IInv, OneComputes
    <3>3. g # f
      BY <2>3, <3>1, <3>2
    <3>4. QED
      BY <1>2, <2>1, <3>2, <3>3
  <2>5. ASSUME NEW g \in Calls, NEW y \in Tiles, Computing(g, y)'
        PROVE  state'[y] = "CALC" /\ \A h \in Calls \ {g} : ~Computing(h, y)'
    BY <2>1, <2>2, <2>3, <2>5 DEF IInv, OneComputes
  <2>6. QED
    BY <2>4, <2>5 DEF OneComputes
<1>10. CallInv'
  <2>1. ASSUME NEW g \in Calls PROVE NeedsMore(g)'
    BY <1>2 DEF IInv, CallInv, NeedsMore
  <2>2. InHand(f)'
    BY <1>1, <1>2, <1>4 DEF IInv, TypeOK, CallInv, InHand, PoolHeld
  <2>3. ASSUME NEW g \in Calls, g # f PROVE InHand(g)'
    <3>1. /\ hand'[g] = hand[g] /\ place'[g] = place[g] /\ need'[g] = need[g] /\ work'[g] = work[g]
          /\ pc'[g] = pc[g] \/ (pc[g] = "wait" /\ pc'[g] = "lock")
      BY <1>2, <1>4, <2>3 DEF IInv, TypeOK
    <3>2. pc[g] = "steal" => state'[hand[g]] = state[hand[g]]
      BY <1>1, <1>2 DEF IInv, TypeOK, CallInv, InHand, Recyclable
    <3>3. pc[g] \in {"calc", "call", "relock"} => state'[hand[g]] = state[hand[g]]
      <4>1. pc[g] \in {"calc", "call", "relock"} => hand[g] # x
        BY <1>1, <2>3 DEF IInv, OneComputes, Computing, x
      <4>2. QED
        BY <1>2, <4>1 DEF IInv, TypeOK, CallInv, InHand
    <3>4. QED
      BY <1>2, <3>1, <3>2, <3>3 DEF IInv, CallInv, InHand, PoolHeld, Recyclable, Lookup
  <2>4. QED
    BY <2>1, <2>2, <2>3 DEF CallInv
<1>11. QED
  BY <1>5, <1>6, <1>7, <1>8, <1>9, <1>10 DEF IInv

-----------------------------------------------------------------------------
LEMMA NextInv == IInv /\ [Next]_vars => IInv'
<1> SUFFICES ASSUME IInv, [Next]_vars PROVE IInv'
  OBVIOUS
<1>1. ASSUME NEW f \in Calls, ~aborted, Step(f) PROVE IInv'
  BY <1>1, ControlInv, CallsUpstream, ExhaustedInv, TakeFreeInv, StealInv, RefInv, PasteInv,
     CalcInv, FinishInv DEF Step, Control
<1>2. CASE UNCHANGED vars
  <2>1. UNCHANGED tileVars /\ UNCHANGED callVars /\ UNCHANGED <<asks, aborted>>
    BY <1>2 DEF vars
  <2>2. TypeOK' /\ PoolMutex' /\ Awaited'
    BY <2>1 DEF IInv, TypeOK, PoolMutex, Awaited, tileVars, callVars
  <2>3. OneComputes' /\ CallInv'
    BY <2>1 DEF IInv, OneComputes, Computing, CallInv, InHand, NeedsMore, Recyclable, Lookup, tileVars,
                callVars
  <2>4. QED
    BY <2>1, <2>2, <2>3, TilesUnmoved DEF callVars, IInv
<1>3. QED
  BY <1>1, <1>2, AskInv DEF Next, Work, Rest

LEMMA IInvCorrect == Spec => []IInv
BY InitInv, NextInv, PTL DEF Spec

\* The variables of the pool and of the calls have their types.
THEOREM TypeCorrect == Spec => []TypeOK
BY IInvCorrect, PTL DEF IInv

\* A tile on the list of a call is of its cache, and shows what it should: the
\* pool may recycle tiles of any cache under the calls of that cache.
THEOREM OwnTilesCorrect == Spec => []OwnTiles
BY IInvCorrect, PTL DEF IInv

\* The reference counts are exact.
THEOREM RefsExactCorrect == Spec => []RefsExact
BY IInvCorrect, PTL DEF IInv

\* A tile is computed by one call at a time, and what is in state CALC is.
THEOREM OneComputesCorrect == Spec => []OneComputes
BY IInvCorrect, PTL DEF IInv

\* The assertion that a tile is left fails only when all tiles are in use.
THEOREM AbortsWhenFullCorrect == Spec => []AbortsWhenFull
BY IInvCorrect, PTL DEF IInv

-----------------------------------------------------------------------------
(***************************************************************************)
(* TileCache implements TileReader.                                        *)
(***************************************************************************)
Reading == {f \in Calls : pc[f] # "idle"}
Undelivered(f) == need[f] \cup {pos[x] : x \in work[f]}

\* The calls see nothing of a step that keeps what is needed and what is listed.
LEMMA Unseen ==
  ASSUME \A f \in Calls : pc'[f] # "idle" <=> pc[f] # "idle",
         \A f \in Calls : Undelivered(f)' = Undelivered(f)
  PROVE  UNCHANGED <<Reading, [f \in Calls |-> Undelivered(f)]>>
BY DEF Reading

LEMMA ReaderInit == Init => Reader!Init
BY DEF Init, Reader!Init

LEMMA AskRefines ==
  ASSUME IInv, NEW f \in Calls, NEW a \in SUBSET Positions, pc[f] = "idle",
         \A g \in Calls \ {f} : pc'[g] # "idle" <=> pc[g] # "idle",
         pc'[f] = "pool", need' = [need EXCEPT ![f] = a], UNCHANGED <<pos, work>>
  PROVE  Reader!Ask(f, a)
<1>1. work[f] = {}
  BY DEF IInv, CallInv, InHand
<1>2. {g \in Calls : pc'[g] # "idle"} = {g \in Calls : pc[g] # "idle"} \cup {f}
  OBVIOUS
<1>3. ASSUME NEW g \in Calls
      PROVE  need'[g] \cup {pos'[x] : x \in work'[g]}
               = IF g = f THEN a ELSE need[g] \cup {pos[x] : x \in work[g]}
  BY <1>1 DEF IInv, TypeOK
<1>4. QED
  BY <1>2, <1>3 DEF Reader!Ask

LEMMA CallRefines ==
  ASSUME IInv, NEW f \in Calls, Call(f)
  PROVE  \E g \in Calls, a \in SUBSET Positions : Reader!Ask(g, a)
<1> DEFINE g == <<f[1], Upstream[f[2]]>>
           a == Reads[f[2]][pos[hand[f]]]
<1>1. g \in Calls /\ f # g
  BY CallParts, ChainAssumption DEF Call, Calls
<1>2. a \in SUBSET Positions
  <2>1. hand[f] \in work[f] /\ hand[f] \in Tiles
    BY DEF IInv, TypeOK, CallInv, InHand, Call
  <2>2. pos[hand[f]] \in Positions
    BY <2>1 DEF IInv, OwnTiles, InCache
  <2>3. QED
    BY <2>2, CallParts, ChainAssumption
<1>3. /\ pc[f] = "calc" /\ pc[g] = "idle"
      /\ pc' = [[pc EXCEPT ![f] = "call"] EXCEPT ![g] = "pool"]
      /\ need' = [need EXCEPT ![g] = a] /\ UNCHANGED <<pos, work>>
  BY DEF Call, Begin, tileVars
<1> HIDE DEF g, a
<1>4. pc'[g] = "pool" /\ \A h \in Calls \ {g} : pc'[h] # "idle" <=> pc[h] # "idle"
  BY <1>1, <1>3 DEF IInv, TypeOK
<1>5. QED
  BY <1>1, <1>2, <1>3, <1>4, AskRefines

\* Referencing a tile moves its place from what is needed to the list.
LEMMA RefUnseen ==
  ASSUME IInv, NEW f \in Calls, Ref(f)
  PROVE  UNCHANGED <<Reading, [g \in Calls |-> Undelivered(g)]>>
<1>1. /\ hand[f] \in Tiles /\ place[f] \in need[f] /\ pos[hand[f]] = place[f] /\ pc[f] = "ref"
  BY DEF Ref, IInv, CallInv, InHand
<1>2. \A g \in Calls : pc'[g] # "idle" <=> pc[g] # "idle"
  BY <1>1 DEF Ref, IInv, TypeOK
<1>3. ASSUME NEW g \in Calls PROVE Undelivered(g)' = Undelivered(g)
  <2>1. CASE g = f
    <3>1. need'[f] = need[f] \ {place[f]} /\ work'[f] = work[f] \cup {hand[f]} /\ pos' = pos
      BY DEF Ref, IInv, TypeOK
    <3>2. QED
      BY <1>1, <2>1, <3>1 DEF Undelivered
  <2>2. CASE g # f
    BY <2>2 DEF Ref, IInv, TypeOK, Undelivered
  <2>3. QED
    BY <2>1, <2>2
<1>4. QED
  BY <1>2, <1>3, Unseen

\* A tile that is recycled is on no list.
LEMMA AssignUnseen ==
  ASSUME IInv, NEW f \in Calls, TakeFree(f) \/ Steal(f)
  PROVE  UNCHANGED <<Reading, [g \in Calls |-> Undelivered(g)]>>
<1>1. \E x \in Tiles : \E p : pos' = [pos EXCEPT ![x] = p] /\ \A g \in Calls : x \notin work[g]
  <2>1. CASE TakeFree(f)
    <3>1. PICK p \in need[f], x \in FreeTiles : Assign(f, p, x)
      BY <2>1 DEF TakeFree
    <3>2. x \in Tiles /\ state[x] = "FREE" /\ \A g \in Calls : x \notin work[g]
      BY <3>1 DEF FreeTiles, IInv, OwnTiles
    <3>3. QED
      BY <3>1, <3>2 DEF Assign
  <2>2. CASE Steal(f)
    <3>1. hand[f] \in Tiles /\ refs[hand[f]] = 0
      BY <2>2 DEF Steal, IInv, CallInv, InHand, Recyclable
    <3>2. \A g \in Calls : hand[f] \notin work[g]
      BY <3>1, UnusedTile
    <3>3. QED
      BY <2>2, <3>1, <3>2 DEF Steal, Assign
  <2>3. QED
    BY <2>1, <2>2
<1>2. /\ pc[f] \in {"find", "steal"} /\ pc' = [pc EXCEPT ![f] = "ref"]
      /\ UNCHANGED <<need, work>>
  BY DEF TakeFree, Steal, Choose
<1>3. \A g \in Calls : pc'[g] # "idle" <=> pc[g] # "idle"
  BY <1>2 DEF IInv, TypeOK
<1>4. ASSUME NEW g \in Calls PROVE Undelivered(g)' = Undelivered(g)
  <2>1. \A y \in work[g] : pos'[y] = pos[y]
    BY <1>1 DEF IInv, TypeOK
  <2>2. QED
    BY <1>2, <2>1 DEF Undelivered
<1>5. QED
  BY <1>3, <1>4, Unseen

\* A tile that is pasted delivers its place, and no other.
LEMMA PasteRefines ==
  ASSUME IInv, NEW f \in Calls, Paste(f)
  PROVE  \E p \in Positions : Reader!Deliver(f, p)
<1>1. PICK x \in Ready(f) : work' = [work EXCEPT ![f] = @ \ {x}]
  BY DEF Paste
<1>2. x \in work[f] /\ x \in Tiles /\ pc[f] = "look" /\ UNCHANGED <<pc, need, pos>>
  BY DEF Paste, Ready, IInv, TypeOK
<1>3. need[f] = {}
  BY <1>2 DEF IInv, CallInv, InHand, PoolHeld
<1>4. pos[x] \in Positions /\ \A y \in work[f] \ {x} : pos[y] # pos[x]
  BY <1>2, CallParts, NullAssumption DEF IInv, TypeOK, OwnTiles, InCache
<1>5. ASSUME NEW g \in Calls
      PROVE  Undelivered(g)' = IF g = f THEN Undelivered(f) \ {pos[x]} ELSE Undelivered(g)
  <2>1. CASE g = f
    <3>1. work'[f] = work[f] \ {x} /\ need'[f] = {}
      BY <1>1, <1>2, <1>3 DEF IInv, TypeOK
    <3>2. QED
      BY <1>2, <1>3, <1>4, <2>1, <3>1 DEF Undelivered
  <2>2. CASE g # f
    BY <1>1, <1>2, <2>2 DEF IInv, TypeOK, Undelivered
  <2>3. QED
    BY <2>1, <2>2
<1>6. pos[x] \in Undelivered(f)
  BY <1>2 DEF Undelivered
<1>7. PICK p \in Positions : p = pos[x]
  BY <1>4
<1>8. Reader!Deliver(f, p)
  BY <1>2, <1>5, <1>6, <1>7 DEF Reader!Deliver, Undelivered
<1>9. QED
  BY <1>8

LEMMA LeaveRefines ==
  ASSUME IInv, NEW f \in Calls, Leave(f)
  PROVE  Reader!End(f)
<1>1. need[f] = {} /\ work[f] = {} /\ pc[f] = "look"
  BY DEF Leave, IInv, CallInv, InHand, PoolHeld
<1>2. UNCHANGED <<need, work, pos>>
  BY DEF Leave, tileVars
<1>3. {g \in Calls : pc'[g] # "idle"} = {g \in Calls : pc[g] # "idle"} \ {f}
  BY DEF Leave, IInv, TypeOK
<1>4. QED
  BY <1>1, <1>2, <1>3 DEF Reader!End

\* The other steps are of no interest to the calls.
LEMMA ControlUnseen ==
  ASSUME IInv, NEW f \in Calls,
         \/ LockPool(f) \/ FindTile(f) \/ Recycle(f) \/ LockCache(f) \/ WaitTile(f) \/ Compute(f)
         \/ Return(f) \/ Exhausted(f) \/ Calc(f) \/ Finish(f)
  PROVE  UNCHANGED <<Reading, [g \in Calls |-> Undelivered(g)]>>
<1>1. UNCHANGED <<need, work, pos>>
  BY DEF LockPool, FindTile, Choose, Recycle, LockCache, WaitTile, Compute, Return, Exhausted, Calc,
         Finish, tileVars, callVars
<1>2. \A g \in Calls : pc'[g] # "idle" <=> pc[g] # "idle"
  <2>1. /\ pc[f] # "idle"
        /\ \/ pc' = pc \/ pc' = Woken(f)
           \/ \E l : l # "idle" /\ pc' = [pc EXCEPT ![f] = l]
    BY DEF LockPool, FindTile, Choose, Recycle, LockCache, WaitTile, Compute, Return, Exhausted,
           Calc, Finish, callVars
  <2>2. QED
    BY <2>1 DEF Woken, IInv, TypeOK
<1>3. QED
  BY <1>1, <1>2, Unseen DEF Undelivered

LEMMA NextRefines ==
  IInv /\ [Next]_vars => [Reader!Next]_<<Reading, [f \in Calls |-> Undelivered(f)]>>
<1> SUFFICES ASSUME IInv, [Next]_vars
             PROVE  [Reader!Next]_<<Reading, [f \in Calls |-> Undelivered(f)]>>
  OBVIOUS
<1>1. ASSUME NEW f \in Calls, Step(f)
      PROVE  [Reader!Next]_<<Reading, [g \in Calls |-> Undelivered(g)]>>
  BY <1>1, CallRefines, RefUnseen, AssignUnseen, PasteRefines, LeaveRefines, ControlUnseen
     DEF Step, Reader!Next
<1>2. ASSUME NEW t \in Threads, NEW c \in Caches, NEW a \in Areas, Ask(t, c, a)
      PROVE  Reader!Next
  <2> DEFINE f == <<t, c>>
  <2>1. f \in Calls /\ pc[f] = "idle" /\ a \in SUBSET Positions
    BY <1>2, AreasAssumption DEF Calls, Ask
  <2>2. /\ pc' = [pc EXCEPT ![f] = "pool"] /\ need' = [need EXCEPT ![f] = a]
        /\ UNCHANGED <<pos, work>>
    BY <1>2 DEF Ask, Begin, tileVars
  <2> HIDE DEF f
  <2>3. pc'[f] = "pool" /\ \A g \in Calls \ {f} : pc'[g] # "idle" <=> pc[g] # "idle"
    BY <2>1, <2>2 DEF IInv, TypeOK
  <2>4. QED
    BY <2>1, <2>2, <2>3, AskRefines DEF Reader!Next
<1>3. CASE UNCHANGED vars
  BY <1>3 DEF vars, tileVars, callVars, Reading, Undelivered
<1>4. QED
  BY <1>1, <1>2, <1>3 DEF Next, Work, Rest

\* The caches keep the promise of TileReader: each position of an area is
\* delivered once, and a call ends when it has them all.
THEOREM ReadsDeliveredCorrect == Spec => ReadsDelivered
<1>1. Init => Reader!Init
  BY ReaderInit
<1>2. IInv /\ [Next]_vars
        => [Reader!Next]_<<{f \in Calls : pc[f] # "idle"},
                           [f \in Calls |-> need[f] \cup {pos[x] : x \in work[f]}]>>
  BY NextRefines DEF Reading, Undelivered
<1>3. QED
  BY <1>1, <1>2, IInvCorrect, PTL DEF Spec, ReadsDelivered, Reader!Spec

-----------------------------------------------------------------------------
(***************************************************************************)
(* Calls never wait for one another in a circle.                           *)
(***************************************************************************)

\* A call that has the pool still needs a tile, and one that waits does it for a
\* tile that is computed: who finishes the tile wakes it.
Waits(f) ==
  /\ pc[f] = "find" => need[f] # {}
  /\ pc[f] = "wait" => \E x \in work[f] : state[x] = "CALC"

WaitsInv == \A f \in Calls : Waits(f)

LEMMA InitWaits == Init => WaitsInv
BY DEF Init, WaitsInv, Waits

\* A call whose own variables are left alone, and whose tiles in state CALC stay so,
\* waits as before.
LEMMA WaitsKept ==
  ASSUME IInv, NEW g \in Calls, Waits(g), pc'[g] = pc[g],
         need'[g] = need[g], work'[g] = work[g],
         pc[g] = "wait" => \A x \in work[g] : state[x] = "CALC" => state'[x] = "CALC"
  PROVE  Waits(g)'
BY DEF Waits

\* What a step does to the call that makes it, to the others, and to tiles that are
\* computed.
LEMMA StepWaits ==
  ASSUME IInv, WaitsInv, NEW f \in Calls, Step(f)
  PROVE  WaitsInv'
<1> DEFINE CalcStays == \A x \in Tiles : state[x] = "CALC" => state'[x] = "CALC"
           OthersStay == \A g \in Calls \ {f} : need'[g] = need[g] /\ work'[g] = work[g]
<1>1. ASSUME OthersStay, CalcStays, \A g \in Calls \ {f} : pc'[g] = pc[g], Waits(f)'
      PROVE  WaitsInv'
  <2>1. ASSUME NEW g \in Calls \ {f} PROVE Waits(g)'
    BY <1>1, WaitsKept DEF WaitsInv, IInv, TypeOK
  <2>2. QED
    BY <1>1, <2>1 DEF WaitsInv
<1>2. CASE LockPool(f)
  <2>1. OthersStay /\ CalcStays /\ \A g \in Calls \ {f} : pc'[g] = pc[g]
    BY <1>2 DEF LockPool, tileVars, IInv, TypeOK
  <2>2. Waits(f)'
    BY <1>2 DEF LockPool, IInv, TypeOK, Waits
  <2>3. QED
    BY <1>1, <2>1, <2>2
<1>3. CASE FindTile(f) \/ Recycle(f)
  <2>1. OthersStay /\ CalcStays /\ \A g \in Calls \ {f} : pc'[g] = pc[g]
    BY <1>3 DEF FindTile, Recycle, Choose, tileVars, IInv, TypeOK
  <2>2. pc'[f] \in {"ref", "steal"}
    BY <1>3 DEF FindTile, Recycle, Choose, IInv, TypeOK
  <2>3. QED
    BY <1>1, <2>1, <2>2 DEF Waits
<1>4. CASE TakeFree(f)
  <2>1. PICK p \in need[f], x \in FreeTiles : Assign(f, p, x) /\ Choose(f, p, x, "ref")
    BY <1>4 DEF TakeFree
  <2>2. OthersStay /\ CalcStays /\ \A g \in Calls \ {f} : pc'[g] = pc[g]
    BY <2>1 DEF FreeTiles, Assign, Choose, IInv, TypeOK
  <2>3. pc'[f] = "ref"
    BY <2>1 DEF Choose, IInv, TypeOK
  <2>4. QED
    BY <1>1, <2>2, <2>3 DEF Waits
<1>5. CASE Steal(f)
  <2>1. hand[f] \in Tiles /\ state[hand[f]] = "DATA"
    BY <1>5 DEF Steal, IInv, CallInv, InHand, Recyclable
  <2>2. OthersStay /\ CalcStays /\ \A g \in Calls \ {f} : pc'[g] = pc[g]
    BY <1>5, <2>1 DEF Steal, Assign, IInv, TypeOK
  <2>3. pc'[f] = "ref"
    BY <1>5 DEF Steal, IInv, TypeOK
  <2>4. QED
    BY <1>1, <2>2, <2>3 DEF Waits
<1>6. CASE Exhausted(f)
  <2>1. UNCHANGED <<pc, need, work, state>>
    BY <1>6 DEF Exhausted, tileVars, callVars
  <2>2. QED
    BY <2>1 DEF WaitsInv, Waits
<1>7. CASE Ref(f)
  <2>1. OthersStay /\ CalcStays /\ \A g \in Calls \ {f} : pc'[g] = pc[g]
    BY <1>7 DEF Ref, IInv, TypeOK
  <2>2. place[f] \in need[f] /\ need'[f] = need[f] \ {place[f]}
        /\ pc'[f] = IF need[f] = {place[f]} THEN "lock" ELSE "find"
    BY <1>7 DEF Ref, IInv, TypeOK, CallInv, InHand
  <2>3. QED
    BY <1>1, <2>1, <2>2 DEF Waits
<1>8. CASE LockCache(f) \/ Leave(f) \/ Compute(f) \/ Return(f)
  <2>1. OthersStay /\ CalcStays /\ \A g \in Calls \ {f} : pc'[g] = pc[g]
    BY <1>8 DEF LockCache, Leave, Compute, Return, tileVars, IInv, TypeOK
  <2>2. pc'[f] \in {"look", "idle", "relock"}
    BY <1>8 DEF LockCache, Leave, Compute, Return, IInv, TypeOK
  <2>3. QED
    BY <1>1, <2>1, <2>2 DEF Waits
<1>9. CASE Paste(f)
  <2>1. OthersStay /\ CalcStays /\ pc' = pc /\ pc[f] = "look"
    BY <1>9 DEF Paste, IInv, TypeOK
  <2>2. QED
    BY <1>1, <2>1 DEF Waits
<1>10. CASE Calc(f)
  <2>1. OthersStay /\ CalcStays /\ \A g \in Calls \ {f} : pc'[g] = pc[g]
    BY <1>10 DEF Calc, Pending, IInv, TypeOK
  <2>2. pc'[f] = "calc"
    BY <1>10 DEF Calc, IInv, TypeOK
  <2>3. QED
    BY <1>1, <2>1, <2>2 DEF Waits
<1>11. CASE WaitTile(f)
  <2>1. OthersStay /\ CalcStays /\ \A g \in Calls \ {f} : pc'[g] = pc[g]
    BY <1>11 DEF WaitTile, tileVars, IInv, TypeOK
  <2>2. \E x \in work[f] : state[x] = "CALC"
    BY <1>11 DEF WaitTile, Ready, Pending, IInv, TypeOK, OwnTiles, States
  <2>3. pc'[f] = "wait" /\ state' = state /\ work' = work
    BY <1>11 DEF WaitTile, tileVars, IInv, TypeOK
  <2>4. QED
    BY <1>1, <2>1, <2>2, <2>3 DEF Waits
<1>12. CASE Call(f)
  <2> DEFINE g == <<f[1], Upstream[f[2]]>>
  <2>1. g \in Calls /\ pc[f] = "calc" /\ pc[g] = "idle"
    BY <1>12, CallParts, ChainAssumption DEF Call, Calls
  <2>2. pc' = [[pc EXCEPT ![f] = "call"] EXCEPT ![g] = "pool"]
    BY <1>12 DEF Call, Begin
  <2>3. UNCHANGED <<state, work>> /\ \A h \in Calls \ {g} : need'[h] = need[h]
    BY <1>12, <2>1 DEF Call, Begin, tileVars, IInv, TypeOK
  <2> HIDE DEF g
  <2>4. /\ pc'[f] = "call" /\ pc'[g] = "pool"
        /\ \A h \in Calls \ {f, g} : pc'[h] = pc[h]
    BY <2>1, <2>2 DEF IInv, TypeOK
  <2>5. ASSUME NEW h \in Calls PROVE Waits(h)'
    BY <2>3, <2>4 DEF WaitsInv, Waits
  <2>6. QED
    BY <2>5 DEF WaitsInv
<1>13. CASE Finish(f)
  <2>1. /\ state' = [state EXCEPT ![hand[f]] = "DATA"] /\ pc' = Woken(f)
        /\ UNCHANGED <<need, work>> /\ pc[f] = "relock"
    BY <1>13 DEF Finish, Store
  <2>2. hand[f] \in Tiles /\ owner[hand[f]] = f[2]
    BY <2>1 DEF IInv, TypeOK, CallInv, InHand, OwnTiles
  <2>3. ASSUME NEW g \in Calls PROVE Waits(g)'
    <3>1. pc'[g] = IF g = f THEN "look"
                   ELSE IF g[2] = f[2] /\ pc[g] = "wait" THEN "lock" ELSE pc[g]
      BY <2>1 DEF Woken
    <3>2. CASE g = f \/ (g[2] = f[2] /\ pc[g] = "wait")
      BY <3>1, <3>2 DEF Waits
    <3>3. CASE g # f /\ ~(g[2] = f[2] /\ pc[g] = "wait")
      <4>1. pc'[g] = pc[g]
        BY <3>1, <3>3
      <4>2. pc[g] = "wait" => hand[f] \notin work[g]
        BY <2>2, <3>3 DEF IInv, OwnTiles
      <4>3. pc[g] = "wait" => \A x \in work[g] : state[x] = "CALC" => state'[x] = "CALC"
        BY <2>1, <4>2 DEF IInv, TypeOK
      <4>4. QED
        BY <2>1, <4>1, <4>3, WaitsKept DEF WaitsInv
    <3>4. QED
      BY <3>2, <3>3
  <2>4. QED
    BY <2>3 DEF WaitsInv
<1>14. QED
  BY <1>2, <1>3, <1>4, <1>5, <1>6, <1>7, <1>8, <1>9, <1>10, <1>11, <1>12, <1>13 DEF Step

LEMMA NextWaits == IInv /\ WaitsInv /\ [Next]_vars => WaitsInv'
<1> SUFFICES ASSUME IInv, WaitsInv, [Next]_vars PROVE WaitsInv'
  OBVIOUS
<1>1. ASSUME NEW t \in Threads, NEW c \in Caches, NEW a \in Areas, Ask(t, c, a) PROVE WaitsInv'
  <2> DEFINE f == <<t, c>>
  <2>1. /\ pc' = [pc EXCEPT ![f] = "pool"] /\ need' = [need EXCEPT ![f] = a]
        /\ UNCHANGED <<work, state>>
    BY <1>1 DEF Ask, Begin, tileVars
  <2> HIDE DEF f
  <2>2. ASSUME NEW g \in Calls PROVE Waits(g)'
    BY <2>1 DEF WaitsInv, Waits, IInv, TypeOK
  <2>3. QED
    BY <2>2 DEF WaitsInv
<1>2. CASE UNCHANGED vars
  BY <1>2 DEF vars, tileVars, callVars, WaitsInv, Waits
<1>3. QED
  BY <1>1, <1>2, StepWaits DEF Next, Work, Rest

\* Where all calls are blocked, the one whose cache is nearest to the source of those
\* under way waits for a tile that no call computes.
LEMMA NoCircle == IInv /\ WaitsInv => SomeCallMoves
<1> SUFFICES ASSUME IInv, WaitsInv, NEW f0 \in Calls, pc[f0] # "idle",
                    \A f \in Calls : pc[f] # "idle" => Blocked(f)
             PROVE  FALSE
  BY DEF SomeCallMoves
<1>1. \A f \in Calls : pc[f] # "look"
  BY DEF Blocked
<1>2. \A c \in Caches : LockFree(c)
  BY <1>1 DEF LockFree, Calls
<1>3. \A f \in Calls : pc[f] \notin {"lock", "relock"}
  BY <1>2, CallParts DEF Blocked
<1>4. ASSUME NEW f \in Calls PROVE pc[f] \notin PoolHeld
  <2>1. pc[f] # "find"
    BY DEF Blocked, WaitsInv, Waits
  <2>2. ASSUME pc[f] = "steal" PROVE FALSE
    <3>1. hand[f] \in Tiles /\ state[hand[f]] = "DATA"
      BY <2>2 DEF IInv, CallInv, InHand, Recyclable
    <3>2. LockFree(owner[hand[f]])
      BY <1>2, <3>1 DEF IInv, InCache
    <3>3. QED
      BY <2>2, <3>2 DEF Blocked
  <2>3. pc[f] # "ref"
    BY DEF Blocked
  <2>4. QED
    BY <2>1, <2>2, <2>3 DEF PoolHeld
<1>5. \A f \in Calls : pc[f] # "pool"
  BY <1>4 DEF Blocked, PoolFree
<1>6. ASSUME NEW f \in Calls
      PROVE  pc[f] \in {"idle", "wait", "calc", "call"}
  BY <1>1, <1>3, <1>4, <1>5 DEF IInv, TypeOK, PoolHeld
<1> DEFINE Under == {c \in Caches : \E t \in Threads : pc[<<t, c>>] # "idle"}
<1>7. \A f \in Calls : pc[f] # "idle" => f[2] \in Under
  BY DEF Calls
<1>8. PICK c \in Under : Upstream[c] \notin Under
  <2>1. Under # {} /\ Under \in SUBSET Caches
    BY <1>7
  <2>2. QED
    BY <2>1, ChainAssumption
<1>9. ASSUME NEW f \in Calls, f[2] = c PROVE pc[f] \notin {"calc", "call"}
  <2> SUFFICES ASSUME pc[f] \in {"calc", "call"} PROVE FALSE
    OBVIOUS
  <2>1. Upstream[c] # None /\ pc[<<f[1], Upstream[c]>>] # "idle"
    BY <1>9 DEF Blocked
  <2>2. Upstream[c] \in Caches /\ f[1] \in Threads
    BY <2>1, CallParts, ChainAssumption
  <2>3. Upstream[c] \in Under
    BY <2>1, <2>2
  <2>4. QED
    BY <1>8, <2>3
<1>10. PICK t \in Threads : pc[<<t, c>>] # "idle"
  OBVIOUS
<1> DEFINE f == <<t, c>>
<1>11. f \in Calls /\ f[2] = c
  BY DEF Calls
<1>12. pc[f] = "wait"
  BY <1>6, <1>9, <1>10, <1>11
<1> HIDE DEF f, Under
<1>13. PICK x \in work[f] : state[x] = "CALC"
  BY <1>11, <1>12 DEF WaitsInv, Waits
<1>14. x \in Tiles /\ owner[x] = c
  BY <1>11, <1>13 DEF IInv, TypeOK, OwnTiles
<1>15. PICK g \in Calls : Computing(g, x) /\ x \in work[g]
  BY <1>13, <1>14 DEF IInv, OneComputes
<1>16. g[2] = c /\ pc[g] \in {"calc", "call", "relock"}
  BY <1>14, <1>15 DEF IInv, OwnTiles, Computing
<1>17. QED
  BY <1>3, <1>9, <1>15, <1>16

\* However the caches are chained and small the pool, as long as a call is under way one
\* can go on: no deadlock among the lock of the pool, those of the caches, the tiles
\* computed by others and the calls made upstream.
THEOREM SomeCallMovesCorrect == Spec => []SomeCallMoves
BY IInvCorrect, InitWaits, NextWaits, NoCircle, PTL DEF Spec
=============================================================================
