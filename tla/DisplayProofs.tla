---------------------------- MODULE DisplayProofs ----------------------------
(***************************************************************************)
(* The invariants of Display and what none of its steps may do to the      *)
(* screen, for any sizes of the images and any views.                      *)
(***************************************************************************)
EXTENDS Display, FiniteSetTheorems, FunctionTheorems, SequenceTheorems, TLAPS

(***************************************************************************)
(* The inductive invariant.                                                *)
(***************************************************************************)

\* The parts of TypeOK: most steps leave all but one alone.
AreaTyped ==
  /\ image \in Pixels /\ active \in {0, 1}
  /\ buf \in [{0, 1} -> [rect : SUBSET Positions, dirty : BOOLEAN, pix : [Positions -> Pixels]]]
QueueTyped == queue \in Seq(Requests)
ProcTyped == pcP \in {"idle", "replace", "mark"} /\ lapse \in BOOLEAN
DrawTyped ==
  /\ gpc \in {"idle", "paint", "start", "area", "end"}
  /\ total \in SUBSET Positions /\ seen \in Pixels
GtkTyped ==
  /\ view \in Views /\ screen \in [Positions -> Pixels] /\ damage \in SUBSET Positions
  /\ setSize \in BOOLEAN /\ queueDraw \in BOOLEAN
InputsTyped == scrolls \in Nat /\ updates \in Nat
Types == AreaTyped /\ QueueTyped /\ ProcTyped /\ DrawTyped /\ GtkTyped /\ InputsTyped

\* Each rebuild was asked for.
Asked == {i \in 1 .. Len(queue) : queue[i].kind = "update"}
Pending == Cardinality(Asked) + IF pcP = "replace" THEN 1 ELSE 0
UpdatesCounted == image + Pending <= updates /\ updates <= Len(Sizes)

\* The GUI thread holds the lock while it paints.
Locked == lock = (gpc = "paint")

\* A drawing is a start, a part that is painted unless there is none, and an end.
\* Covers: the part painted is all that the image seen could show.
Drawing == gpc \in {"area", "end"}
Covers(part, area, s) == s # 0 => area \cap Extent(s) \subseteq part

EndFollows(part, i, area) ==
  IF i < Len(queue)
  THEN queue[i + 1].kind = "end" /\ queue[i + 1].area = area /\ Covers(part, area, queue[i + 1].seen)
  ELSE gpc = "end" /\ total = area /\ Covers(part, area, seen)

PartFollows(i, area) ==
  IF i < Len(queue)
  THEN \/ \E part \in SUBSET Positions :
            queue[i + 1].kind = "redraw" /\ queue[i + 1].area = part /\ EndFollows(part, i + 1, area)
       \/ EndFollows({}, i, area)
  ELSE \/ gpc = "area" /\ total = area
       \/ EndFollows({}, i, area)

Drawn ==
  \A i \in 1 .. Len(queue) :
    /\ \A area \in SUBSET Positions :
         queue[i].kind = "start" /\ queue[i].area = area => PartFollows(i, area)
    /\ queue[i].kind \in {"update", "end"} =>
         IF i < Len(queue) THEN queue[i + 1].kind \in {"update", "start"} ELSE ~Drawing

\* The inactive buffer shows the newest image where a drawing that saw s covers it.
Good(s) ==
  s # 0 /\ WidthOf(s) >= WidthOf(image) =>
    \A p \in buf[Inactive].rect \cap Extent(image) : buf[Inactive].pix[p] = image

\* A drawing the processor has started and not ended.
Opened == IF Len(queue) = 0 THEN Drawing ELSE queue[1].kind \in {"redraw", "end"}
OpenedWell ==
  Opened =>
    /\ pcP = "idle"
    /\ IF Len(queue) = 0 THEN total = buf[Inactive].rect /\ (gpc = "end" => Good(seen))
       ELSE IF queue[1].kind = "end" THEN queue[1].area = buf[Inactive].rect /\ Good(queue[1].seen)
       ELSE \E part, area \in SUBSET Positions :
              queue[1].area = part /\ buf[Inactive].rect = area /\ EndFollows(part, 1, area)

\* No pixel is newer than the image, and what is to be shown is not older than what
\* is shown.
Newer(new, old) == new = 0 \/ new >= old
NotNewer ==
  \A p \in Positions : screen[p] <= image /\ \A b \in {0, 1} : buf[b].pix[p] <= image
ActiveNewer == \A p \in Active.rect : Newer(Active.pix[p], screen[p])
OpenedNewer ==
  Opened => \A p \in buf[Inactive].rect :
    /\ Newer(buf[Inactive].pix[p], screen[p])
    /\ p \in Active.rect => Newer(buf[Inactive].pix[p], Active.pix[p])

IInv ==
  /\ Types /\ UpdatesCounted /\ Locked /\ Drawn /\ OpenedWell /\ CleanIsNew
  /\ NotNewer /\ ActiveNewer /\ OpenedNewer

-----------------------------------------------------------------------------
(* The queue *)

Buffers == [rect : SUBSET Positions, dirty : BOOLEAN, pix : [Positions -> Pixels]]

LEMMA Constant ==
  /\ Len(Sizes) \in Nat /\ \A i \in Images : Sizes[i] \in Positions
  /\ \A i \in Pixels : WidthOf(i) \in Nat /\ Extent(i) \subseteq Positions
<1>1. Len(Sizes) \in Nat /\ \A i \in Images : Sizes[i] \in Positions
  BY SizesAssumption DEF Images
<1>2. ASSUME NEW i \in Pixels PROVE WidthOf(i) \in Nat /\ Extent(i) \subseteq Positions
  <2>1. CASE i = 0
    BY <2>1 DEF WidthOf, Extent
  <2>2. CASE i # 0
    <3>1. WidthOf(i) \in 1 .. Width
      BY <1>1, <2>2 DEF WidthOf, Pixels, Images, Positions
    <3>2. QED
      BY <3>1, SizesAssumption DEF Extent, Positions
  <2>3. QED
    BY <2>1, <2>2
<1>3. QED
  BY <1>1, <1>2

LEMMA AppendParts ==
  ASSUME queue \in Seq(Requests), NEW e \in Requests, queue' = Append(queue, e)
  PROVE  /\ queue' \in Seq(Requests) /\ queue' # <<>>
         /\ Len(queue) \in Nat /\ Len(queue') = Len(queue) + 1 /\ queue'[Len(queue) + 1] = e
         /\ \A i \in 1 .. Len(queue) : queue'[i] = queue[i]
         /\ Head(queue') = IF queue = <<>> THEN e ELSE Head(queue)
OBVIOUS

LEMMA TailParts ==
  ASSUME queue \in Seq(Requests), queue # <<>>, queue' = Tail(queue)
  PROVE  /\ queue' \in Seq(Requests)
         /\ Len(queue') \in Nat /\ Len(queue) = Len(queue') + 1
         /\ Head(queue) = queue[1] /\ queue[1] \in Requests
         /\ \A i \in 1 .. Len(queue') : queue'[i] = queue[i + 1]
         /\ queue' # <<>> => Head(queue') = queue[2] /\ Len(queue) > 1
         /\ queue' = <<>> => Len(queue) = 1
<1>1. /\ queue' \in Seq(Requests) /\ Len(queue') = Len(queue) - 1
      /\ \A i \in 1 .. Len(queue') : queue'[i] = queue[i + 1]
  BY HeadTailProperties
<1>2. Len(queue) \in Nat /\ Len(queue) > 0 /\ Len(queue') \in Nat
  BY EmptySeq, LenProperties, <1>1
<1>3. Head(queue) = queue[1] /\ queue[1] \in Requests
  BY <1>2
<1>4. queue' = <<>> => Len(queue) = 1
  <2>1. SUFFICES ASSUME queue' = <<>> PROVE Len(queue) = 1
    OBVIOUS
  <2>2. Len(queue') = 0
    <3>1. Len(<<>>) = 0
      OBVIOUS
    <3>2. QED
      BY <2>1, <3>1, Zenon
  <2>3. QED
    BY <1>1, <1>2, <2>2
<1>5. queue' # <<>> => Len(queue') > 0 /\ Head(queue') = queue'[1]
  BY <1>1, <1>2, EmptySeq
<1>6. QED
  BY <1>1, <1>2, <1>3, <1>4, <1>5

LEMMA AskedFinite ==
  ASSUME queue \in Seq(Requests)
  PROVE  IsFiniteSet(Asked) /\ Cardinality(Asked) \in Nat
<1>1. IsFiniteSet(1 .. Len(queue)) /\ Asked \in SUBSET (1 .. Len(queue))
  BY FS_Interval DEF Asked
<1>2. QED
  BY <1>1, FS_Subset, FS_CardinalityType

\* A request to update more, ...
LEMMA AskedAppend ==
  ASSUME queue \in Seq(Requests), NEW e \in Requests, queue' = Append(queue, e)
  PROVE  /\ e.kind # "update" => Asked' = Asked
         /\ e.kind = "update" => Cardinality(Asked') = Cardinality(Asked) + 1
<1>1. e.kind # "update" => Asked' = Asked
  BY AppendParts DEF Asked
<1>2. e.kind = "update" => Asked' = Asked \cup {Len(queue) + 1} /\ Len(queue) + 1 \notin Asked
  BY AppendParts DEF Asked
<1>3. QED
  BY <1>1, <1>2, AskedFinite, FS_AddElement

\* ... or a request less.
LEMMA AskedTail ==
  ASSUME queue \in Seq(Requests), queue # <<>>, queue' = Tail(queue)
  PROVE  Cardinality(Asked') <= Cardinality(Asked) - IF Head(queue).kind = "update" THEN 1 ELSE 0
<1> DEFINE rest == Asked \ {1}
           back == [i \in rest |-> i - 1]
<1>1. IsFiniteSet(rest) /\ Cardinality(rest) = Cardinality(Asked) - IF 1 \in Asked THEN 1 ELSE 0
  <2>1. IsFiniteSet(Asked)
    BY AskedFinite
  <2>2. /\ IsFiniteSet(Asked \ {1})
        /\ Cardinality(Asked \ {1}) = IF 1 \in Asked THEN Cardinality(Asked) - 1 ELSE Cardinality(Asked)
    BY <2>1, FS_RemoveElement
  <2>3. QED
    BY <2>2, AskedFinite
<1>2. 1 \in Asked <=> Head(queue).kind = "update"
  BY TailParts DEF Asked
<1>3. \A i \in Asked' : i + 1 \in rest
  BY TailParts DEF Asked
<1>4. \A i \in rest : i - 1 \in Asked'
  BY TailParts DEF Asked
<1>5. back \in Surjection(rest, Asked')
  <2>1. back \in [rest -> Asked']
    BY <1>4
  <2>2. ASSUME NEW i \in Asked' PROVE \E j \in rest : back[j] = i
    <3>1. i + 1 \in rest /\ i \in Nat
      BY <1>3, TailParts DEF Asked
    <3>2. back[i + 1] = i
      BY <3>1
    <3>3. QED
      BY <3>1, <3>2
  <2>3. QED
    BY <2>1, <2>2 DEF Surjection
<1>6. Cardinality(Asked') <= Cardinality(rest)
  BY <1>1, <1>5, FS_Surjection
<1>7. QED
  BY <1>1, <1>2, <1>6

-----------------------------------------------------------------------------
(* Drawings *)

\* A step that sends and serves no request of a drawing.
LEMMA DrawingsKept ==
  ASSUME IInv, UNCHANGED <<image, buf, active, queue, pcP>>,
         UNCHANGED <<gpc, total, seen>> \/ (~Drawing /\ ~Drawing')
  PROVE  Drawn' /\ OpenedWell' /\ (Opened' <=> Opened)
<1>1. UNCHANGED <<gpc, total, seen>> \/ (gpc \notin {"area", "end"} /\ gpc' \notin {"area", "end"})
  BY DEF Drawing
<1>2. Drawn'
  <2>1. ASSUME NEW part, NEW i, NEW area, EndFollows(part, i, area) PROVE EndFollows(part, i, area)'
    BY <1>1, <2>1 DEF EndFollows, Covers, Extent, WidthOf
  <2>2. ASSUME NEW i, NEW area, PartFollows(i, area) PROVE PartFollows(i, area)'
    BY <1>1, <2>1, <2>2 DEF PartFollows
  <2>3. QED
    BY <1>1, <2>2 DEF IInv, Drawn, Drawing
<1>3. OpenedWell' /\ (Opened' <=> Opened)
  BY <1>1 DEF IInv, OpenedWell, Opened, EndFollows, Covers, Drawing, Good, Inactive, WidthOf, Extent
<1>4. QED
  BY <1>2, <1>3

\* What is behind the request that is served.
LEMMA Served ==
  ASSUME IInv, queue # <<>>, queue' = Tail(queue), UNCHANGED <<gpc, total, seen>>
  PROVE  /\ QueueTyped' /\ Drawn' /\ Head(queue) \in Requests /\ Head(queue) = queue[1]
         /\ Len(queue) > 0
         /\ Head(queue).kind \in {"update", "end"} => ~Opened'
         /\ \A area \in SUBSET Positions :
              Head(queue).kind = "start" /\ Head(queue).area = area => PartFollows(0, area)'
         /\ \A part, area : EndFollows(part, 1, area) => EndFollows(part, 0, area)'
<1>1. queue \in Seq(Requests)
  BY DEF IInv, Types, QueueTyped
<1>2. /\ Len(queue') \in Nat /\ Len(queue) = Len(queue') + 1
      /\ queue' \in Seq(Requests) /\ Head(queue) = queue[1] /\ queue[1] \in Requests
      /\ \A i \in 1 .. Len(queue') : queue'[i] = queue[i + 1]
  BY <1>1, TailParts
<1>3. Drawn'
  <2>1. ASSUME NEW i \in 1 .. Len(queue')
        PROVE  /\ i + 1 \in 1 .. Len(queue) /\ queue'[i] = queue[i + 1]
               /\ i < Len(queue') <=> i + 1 < Len(queue)
               /\ i < Len(queue') => queue'[i + 1] = queue[i + 1 + 1]
               /\ i + 1 < Len(queue') <=> i + 1 + 1 < Len(queue)
               /\ i + 1 < Len(queue') => queue'[i + 1 + 1] = queue[i + 1 + 1 + 1]
    BY <1>2
  <2>2. ASSUME NEW i \in 1 .. Len(queue'), NEW part, NEW area, EndFollows(part, i + 1, area)
        PROVE  EndFollows(part, i, area)'
    BY <2>1, <2>2 DEF EndFollows, Covers, Extent, WidthOf
  <2>3. ASSUME NEW i \in 1 .. Len(queue'), NEW area \in SUBSET Positions,
               queue'[i].kind = "start", queue'[i].area = area
        PROVE  PartFollows(i, area)'
    <3>1. PartFollows(i + 1, area)
      BY <2>1, <2>3 DEF IInv, Drawn
    <3>2. CASE i < Len(queue')
      <4>1. CASE EndFollows({}, i + 1, area)
        BY <2>2, <3>2, <4>1 DEF PartFollows
      <4>2. ASSUME NEW part \in SUBSET Positions, queue[i + 1 + 1].kind = "redraw",
                   queue[i + 1 + 1].area = part, EndFollows(part, i + 1 + 1, area)
            PROVE  PartFollows(i, area)'
        <5>1. i + 1 \in 1 .. Len(queue')
          BY <1>2, <3>2
        <5>2. EndFollows(part, i + 1, area)'
          BY <2>2, <4>2, <5>1
        <5>3. QED
          BY <2>1, <3>2, <4>2, <5>2 DEF PartFollows
      <4>3. QED
        BY <2>1, <3>1, <3>2, <4>1, <4>2 DEF PartFollows
    <3>3. CASE ~(i < Len(queue'))
      <4>1. CASE EndFollows({}, i + 1, area)
        BY <2>2, <3>3, <4>1 DEF PartFollows
      <4>2. CASE gpc = "area" /\ total = area
        BY <3>3, <4>2 DEF PartFollows
      <4>3. QED
        BY <2>1, <3>1, <3>3, <4>1, <4>2 DEF PartFollows
    <3>4. QED
      BY <3>2, <3>3
  <2>4. ASSUME NEW i \in 1 .. Len(queue'), queue'[i].kind \in {"update", "end"}
        PROVE  IF i < Len(queue') THEN queue'[i + 1].kind \in {"update", "start"} ELSE ~Drawing'
    BY <2>1, <2>4 DEF IInv, Drawn, Drawing
  <2>5. QED
    BY <2>3, <2>4 DEF Drawn
<1>4. Head(queue).kind \in {"update", "end"} => ~Opened'
  <2>1. SUFFICES ASSUME queue[1].kind \in {"update", "end"} PROVE ~Opened'
    BY <1>2
  <2>2. IF 1 < Len(queue) THEN queue[2].kind \in {"update", "start"} ELSE ~Drawing
    BY <1>2, <2>1 DEF IInv, Drawn
  <2>3. CASE 1 < Len(queue)
    BY <1>2, <2>2, <2>3 DEF Opened
  <2>4. CASE ~(1 < Len(queue))
    BY <1>2, <2>2, <2>4 DEF Opened, Drawing
  <2>5. QED
    BY <2>3, <2>4
<1>5. \A part, area : EndFollows(part, 1, area) => EndFollows(part, 0, area)'
  BY <1>2 DEF EndFollows, Covers, Extent, WidthOf
<1>6. ASSUME NEW area \in SUBSET Positions, Head(queue).kind = "start", Head(queue).area = area
      PROVE  PartFollows(0, area)'
  <2>1. PartFollows(1, area)
    BY <1>2, <1>6 DEF IInv, Drawn
  <2>2. CASE EndFollows({}, 1, area)
    BY <1>5, <2>2 DEF PartFollows
  <2>3. CASE Len(queue) = 1 /\ gpc = "area" /\ total = area
    BY <1>2, <2>3 DEF PartFollows
  <2>4. ASSUME 1 < Len(queue), NEW part \in SUBSET Positions, queue[2].kind = "redraw",
               queue[2].area = part, EndFollows(part, 2, area)
        PROVE  PartFollows(0, area)'
    <3>1. EndFollows(part, 1, area)'
      BY <1>2, <2>4 DEF EndFollows, Covers, Extent, WidthOf
    <3>2. QED
      BY <1>2, <2>4, <3>1 DEF PartFollows
  <2>5. QED
    BY <1>2, <2>1, <2>2, <2>3, <2>4 DEF PartFollows
<1>7. QED
  BY <1>2, <1>3, <1>4, <1>5, <1>6 DEF QueueTyped

\* A part that covers what the image seen could show covers what a smaller one shows.
LEMMA CoversAll ==
  ASSUME image \in Pixels, NEW s \in Pixels, NEW part, NEW area, Covers(part, area, s),
         s # 0, WidthOf(s) >= WidthOf(image)
  PROVE  area \cap Extent(image) \subseteq part
<1>1. Extent(image) \subseteq Extent(s)
  <2>1. WidthOf(s) \in Nat /\ WidthOf(image) \in Nat
    BY Constant
  <2>2. QED
    BY <2>1 DEF Extent
<1>2. QED
  BY <1>1 DEF Covers

-----------------------------------------------------------------------------
(* The steps of the user and of the GUI thread *)

LEMMA InitInv == Init => IInv
<1> SUFFICES ASSUME Init PROVE IInv
  OBVIOUS
<1>1. 0 \in Pixels
  BY Constant DEF Pixels
<1>2. AreaTyped
  BY <1>1 DEF Init, AreaTyped, Blank
<1>3. QueueTyped /\ Len(queue) = 0
  BY DEF Init, QueueTyped
<1>4. ProcTyped /\ DrawTyped /\ GtkTyped /\ InputsTyped
  BY <1>1 DEF Init, ProcTyped, DrawTyped, GtkTyped, InputsTyped, Blank
<1>5. UpdatesCounted
  <2>1. Asked = {}
    BY <1>3 DEF Asked
  <2>2. QED
    BY <2>1, FS_EmptySet, Constant DEF Init, UpdatesCounted, Pending
<1>6. Locked /\ Drawn /\ OpenedWell /\ CleanIsNew
  <2>1. Locked /\ CleanIsNew
    BY DEF Init, Locked, CleanIsNew, Active
  <2>2. Drawn /\ ~Opened
    BY <1>3 DEF Init, Drawn, Opened, Drawing
  <2>3. QED
    BY <2>1, <2>2 DEF OpenedWell
<1>7. NotNewer /\ ActiveNewer /\ OpenedNewer
  BY <1>3 DEF Init, NotNewer, ActiveNewer, OpenedNewer, Opened, Drawing, Blank, Newer, Active
<1>8. QED
  BY <1>2, <1>3, <1>4, <1>5, <1>6, <1>7 DEF IInv, Types

\* The pixels are numbers.
LEMMA PixelParts ==
  ASSUME IInv, NEW p \in Positions
  PROVE  /\ image \in Nat /\ screen[p] \in Nat /\ screen[p] \in Pixels
         /\ active \in {0, 1} /\ Inactive \in {0, 1} /\ Inactive # active
         /\ \A b \in {0, 1} : buf[b].pix[p] \in Nat /\ buf[b].pix[p] \in Pixels
BY Constant DEF IInv, Types, AreaTyped, GtkTyped, Pixels, Inactive

\* A step that leaves the buffers alone, and paints the active one or nothing.
LEMMA ScreenInv ==
  ASSUME IInv, UNCHANGED <<image, buf, active, queue, pcP, lapse, updates>>,
         UNCHANGED <<gpc, total, seen>> \/ (~Drawing /\ ~Drawing'),
         DrawTyped', GtkTyped', InputsTyped', Locked',
         \A p \in Positions :
           screen'[p] \in {0, screen[p]} \/ (p \in Active.rect /\ screen'[p] = Active.pix[p])
  PROVE  IInv'
<1>1. Drawn' /\ OpenedWell' /\ (Opened' <=> Opened)
  BY DrawingsKept
<1>2. Types' /\ UpdatesCounted'
  BY DEF IInv, Types, AreaTyped, QueueTyped, ProcTyped, UpdatesCounted, Pending, Asked
<1>3. CleanIsNew'
  BY DEF IInv, CleanIsNew, Active, Extent, WidthOf
<1>4. NotNewer'
  BY PixelParts DEF IInv, NotNewer, Active
<1>5. ActiveNewer'
  <2>1. Active.rect \subseteq Positions
    BY DEF IInv, Types, AreaTyped, Active
  <2>2. \A p \in Active.rect : Newer(Active.pix[p], screen'[p])
    BY <2>1, PixelParts DEF IInv, ActiveNewer, Newer, Active
  <2>3. QED
    BY <2>2 DEF ActiveNewer, Active, Newer
<1>6. OpenedNewer'
  <2>1. buf[Inactive].rect \subseteq Positions
    BY DEF IInv, Types, AreaTyped, Inactive
  <2>2. ASSUME Opened, NEW p \in buf[Inactive].rect
        PROVE  /\ Newer(buf[Inactive].pix[p], screen'[p])
               /\ p \in Active.rect => Newer(buf[Inactive].pix[p], Active.pix[p])
    BY <2>1, <2>2, PixelParts DEF IInv, OpenedNewer, Newer, Active
  <2>3. QED
    BY <1>1, <2>2 DEF OpenedNewer, Active, Newer, Inactive
<1>7. QED
  BY <1>1, <1>2, <1>3, <1>4, <1>5, <1>6 DEF IInv

LEMMA ScrollInv ==
  ASSUME IInv, NEW v \in Views, Scroll(v) \/ (SetSizeCb /\ Show(v, v))
  PROVE  IInv'
<1>1. /\ UNCHANGED <<image, buf, active, lock, queue, pcP, lapse, gpc, total, seen, updates, queueDraw>>
      /\ setSize' \in {setSize, FALSE} /\ scrolls' \in {scrolls, scrolls + 1}
  BY DEF Scroll, SetSizeCb, areaVars, procVars, drawVars, signals, inputs
<1>2. (v \ view) \in SUBSET Positions /\ v \in SUBSET Positions
  BY ViewsAssumption
<1>3. /\ view' = v /\ damage' \in SUBSET Positions
      /\ screen' = [p \in Positions |-> IF p \in v \cap view THEN screen[p] ELSE 0]
  BY <1>2 DEF Scroll, SetSizeCb, Show, IInv, Types, GtkTyped
<1>4. screen' \in [Positions -> Pixels]
  BY <1>3, PixelParts, Constant DEF Pixels
<1>5. DrawTyped' /\ GtkTyped' /\ InputsTyped' /\ Locked'
  <2>1. DrawTyped' /\ Locked'
    BY <1>1 DEF IInv, Types, DrawTyped, Locked
  <2>2. GtkTyped'
    BY <1>1, <1>3, <1>4 DEF IInv, Types, GtkTyped
  <2>3. InputsTyped'
    BY <1>1 DEF IInv, Types, InputsTyped
  <2>4. QED
    BY <2>1, <2>2, <2>3
<1>6. \A p \in Positions : screen'[p] \in {0, screen[p]}
  BY <1>3
<1>7. QED
  BY <1>1, <1>5, <1>6, ScreenInv

LEMMA DrawInv ==
  ASSUME IInv, QueueDraw \/ OnDrawNothing \/ OnDraw
  PROVE  IInv'
<1>1. /\ UNCHANGED <<image, buf, active, queue, pcP, lapse, total, seen, view, screen, setSize,
                     scrolls, updates>>
      /\ gpc = "idle" /\ gpc' \in {"idle", "paint"} /\ lock' = (IF gpc' = "paint" THEN TRUE ELSE lock)
  BY DEF QueueDraw, OnDrawNothing, OnDraw, areaVars, procVars, drawVars, gtkVars, signals, inputs
<1>2. damage' \in SUBSET Positions /\ queueDraw' \in BOOLEAN
  BY ViewsAssumption DEF QueueDraw, OnDrawNothing, OnDraw, gtkVars, signals, IInv, Types, GtkTyped
<1>3. DrawTyped' /\ GtkTyped' /\ InputsTyped'
  BY <1>1, <1>2 DEF IInv, Types, DrawTyped, GtkTyped, InputsTyped
<1>4. Locked'
  BY <1>1 DEF IInv, Locked
<1>5. ~Drawing /\ ~Drawing'
  BY <1>1 DEF Drawing
<1>6. QED
  BY <1>1, <1>3, <1>4, <1>5, ScreenInv

LEMMA PaintInv ==
  ASSUME IInv, Paint
  PROVE  IInv'
<1>1. /\ UNCHANGED <<image, buf, active, queue, pcP, lapse, seen, view, setSize, queueDraw, scrolls,
                     updates>>
      /\ gpc = "paint" /\ gpc' \in {"start", "idle"} /\ lock' = FALSE /\ damage' = {}
      /\ screen' = [p \in Positions |->
           IF p \notin damage THEN screen[p] ELSE IF p \in Active.rect THEN Active.pix[p] ELSE 0]
  BY DEF Paint, procVars, signals, inputs
<1>2. total' \in SUBSET Positions
  BY DEF Paint, Hull
<1>3. screen' \in [Positions -> Pixels]
  BY <1>1, PixelParts, Constant DEF Pixels, Active
<1>4. DrawTyped' /\ GtkTyped' /\ InputsTyped'
  BY <1>1, <1>2, <1>3 DEF IInv, Types, DrawTyped, GtkTyped, InputsTyped
<1>5. Locked' /\ ~Drawing /\ ~Drawing'
  BY <1>1 DEF Locked, Drawing
<1>6. \A p \in Positions :
        screen'[p] \in {0, screen[p]} \/ (p \in Active.rect /\ screen'[p] = Active.pix[p])
  BY <1>1
<1>7. QED
  BY <1>1, <1>4, <1>5, <1>6, ScreenInv

\* What a request that is sent leaves alone.
LEMMA SubmitParts ==
  ASSUME IInv, NEW e \in Requests, queue' = Append(queue, e),
         UNCHANGED <<image, buf, active, pcP, lapse, screen>>, updates' >= updates,
         updates' \in Nat, updates' <= Len(Sizes), e.kind = "update" => updates' = updates + 1
  PROVE  AreaTyped' /\ QueueTyped' /\ ProcTyped' /\ UpdatesCounted' /\ CleanIsNew'
         /\ NotNewer' /\ ActiveNewer'
<1>1. queue \in Seq(Requests)
  BY DEF IInv, Types, QueueTyped
<1>2. AreaTyped' /\ QueueTyped' /\ ProcTyped'
  BY <1>1, AppendParts DEF IInv, Types, AreaTyped, QueueTyped, ProcTyped
<1>3. UpdatesCounted'
  <2>1. /\ e.kind # "update" => Asked' = Asked
        /\ e.kind = "update" => Cardinality(Asked') = Cardinality(Asked) + 1
        /\ Cardinality(Asked) \in Nat
    BY <1>1, AskedAppend, AskedFinite
  <2>2. /\ image \in Nat /\ updates \in Nat /\ Len(Sizes) \in Nat
        /\ image + (Cardinality(Asked) + IF pcP = "replace" THEN 1 ELSE 0) <= updates
    BY Constant DEF IInv, Types, AreaTyped, InputsTyped, Pixels, UpdatesCounted, Pending
  <2>3. image + (Cardinality(Asked') + IF pcP = "replace" THEN 1 ELSE 0) <= updates'
    BY <2>1, <2>2
  <2>4. QED
    BY <2>3 DEF UpdatesCounted, Pending
<1>4. CleanIsNew' /\ NotNewer' /\ ActiveNewer'
  BY DEF IInv, CleanIsNew, NotNewer, ActiveNewer, Active, Newer, Extent, WidthOf
<1>5. QED
  BY <1>2, <1>3, <1>4

\* What the processor has opened is not disturbed by what is sent.
LEMMA SubmitOpened ==
  ASSUME IInv, NEW e \in Requests, queue' = Append(queue, e),
         UNCHANGED <<image, buf, active, screen>>, Opened' => Opened
  PROVE  OpenedNewer'
BY DEF IInv, OpenedNewer, Newer, Active, Inactive

\* A request that is sent outside a drawing, or that opens one.
LEMMA AppendDrawn ==
  ASSUME IInv, NEW e \in Requests, queue' = Append(queue, e),
         UNCHANGED <<image, buf, active, pcP, screen>>, ~Drawing,
         \/ e.kind = "update" /\ ~Drawing'
         \/ e.kind = "start" /\ gpc' = "area" /\ total' = e.area
  PROVE  Drawn' /\ OpenedWell' /\ OpenedNewer'
<1>1. /\ Len(queue) \in Nat /\ Len(queue') = Len(queue) + 1 /\ queue'[Len(queue) + 1] = e
      /\ \A i \in 1 .. Len(queue) : queue'[i] = queue[i]
  BY AppendParts DEF IInv, Types, QueueTyped
<1>2. ASSUME NEW part, NEW i \in 1 .. Len(queue), NEW area, EndFollows(part, i, area)
      PROVE  EndFollows(part, i, area)' /\ i < Len(queue)
  <2>1. i < Len(queue)
    BY <1>2 DEF EndFollows, Drawing
  <2>2. i + 1 \in 1 .. Len(queue)
    BY <1>1, <2>1
  <2>3. QED
    BY <1>1, <1>2, <2>1, <2>2 DEF EndFollows, Covers, Extent, WidthOf
<1>3. ASSUME NEW i \in 1 .. Len(queue), NEW area \in SUBSET Positions, PartFollows(i, area)
      PROVE  PartFollows(i, area)'
  <2>1. CASE EndFollows({}, i, area)
    BY <1>1, <1>2, <2>1 DEF PartFollows
  <2>2. ASSUME i < Len(queue), NEW part \in SUBSET Positions, queue[i + 1].kind = "redraw",
               queue[i + 1].area = part, EndFollows(part, i + 1, area)
        PROVE  PartFollows(i, area)'
    <3>1. i + 1 \in 1 .. Len(queue)
      BY <1>1, <2>2
    <3>2. EndFollows(part, i + 1, area)'
      BY <1>2, <2>2, <3>1
    <3>3. QED
      BY <1>1, <2>2, <3>1, <3>2 DEF PartFollows
  <2>3. QED
    BY <1>3, <2>1, <2>2 DEF PartFollows, Drawing
<1>4. Drawn'
  <2>1. ASSUME NEW i \in 1 .. Len(queue'), NEW area \in SUBSET Positions,
               queue'[i].kind = "start", queue'[i].area = area
        PROVE  PartFollows(i, area)'
    <3>1. CASE i \in 1 .. Len(queue)
      BY <1>1, <1>3, <2>1, <3>1 DEF IInv, Drawn
    <3>2. CASE i = Len(queue')
      BY <1>1, <2>1, <3>2 DEF PartFollows
    <3>3. QED
      BY <1>1, <3>1, <3>2
  <2>2. ASSUME NEW i \in 1 .. Len(queue'), queue'[i].kind \in {"update", "end"}
        PROVE  IF i < Len(queue') THEN queue'[i + 1].kind \in {"update", "start"} ELSE ~Drawing'
    <3>1. CASE i = Len(queue')
      BY <1>1, <2>2, <3>1
    <3>2. CASE i = Len(queue)
      BY <1>1, <3>2
    <3>3. CASE i < Len(queue)
      <4>1. i + 1 \in 1 .. Len(queue) /\ i \in 1 .. Len(queue)
        BY <1>1, <3>3
      <4>2. QED
        BY <1>1, <2>2, <3>3, <4>1 DEF IInv, Drawn
    <3>4. QED
      BY <1>1, <3>1, <3>2, <3>3
  <2>3. QED
    BY <2>1, <2>2 DEF Drawn
<1>5. Opened' => Opened /\ Len(queue) > 0
  BY <1>1 DEF Opened
<1>6. OpenedWell'
  <2>1. SUFFICES ASSUME Opened' PROVE OpenedWell'
    BY DEF OpenedWell
  <2>2. /\ Opened /\ 1 \in 1 .. Len(queue) /\ queue'[1] = queue[1] /\ Len(queue') > 0
    BY <1>1, <1>5, <2>1
  <2>3. CASE queue[1].kind = "end"
    BY <2>2, <2>3 DEF IInv, OpenedWell, Good, Inactive, WidthOf, Extent
  <2>4. CASE queue[1].kind # "end"
    <3>1. PICK part \in SUBSET Positions, area \in SUBSET Positions :
            queue[1].area = part /\ buf[Inactive].rect = area /\ EndFollows(part, 1, area)
      BY <2>2, <2>4 DEF IInv, OpenedWell
    <3>2. EndFollows(part, 1, area)'
      BY <1>2, <2>2, <3>1
    <3>3. QED
      BY <2>2, <2>4, <3>1, <3>2 DEF IInv, OpenedWell, Inactive
  <2>5. QED
    BY <2>3, <2>4
<1>7. OpenedNewer'
  BY <1>5, SubmitOpened
<1>8. QED
  BY <1>4, <1>6, <1>7

LEMMA AskUpdateInv ==
  ASSUME IInv, AskUpdate
  PROVE  IInv'
<1> DEFINE e == [kind |-> "update", area |-> {}, seen |-> 0]
<1>1. /\ UNCHANGED <<image, buf, active, lock, pcP, lapse, gpc, total, seen, view, screen, damage,
                     setSize, queueDraw, scrolls>>
      /\ gpc = "idle" /\ updates < Len(Sizes) /\ updates' = updates + 1
  BY DEF AskUpdate, areaVars, procVars, drawVars, gtkVars, signals
<1>2. queue' = Append(queue, e)
  BY DEF AskUpdate, Submit
<1>3. e \in Requests /\ e.kind = "update"
  BY Constant DEF Requests, Kinds, Pixels
<1> HIDE DEF e
<1>4. updates \in Nat /\ updates' \in Nat /\ updates' <= Len(Sizes)
  BY <1>1, Constant DEF IInv, Types, InputsTyped
<1>5. AreaTyped' /\ QueueTyped' /\ ProcTyped' /\ UpdatesCounted' /\ CleanIsNew'
      /\ NotNewer' /\ ActiveNewer'
  BY <1>1, <1>2, <1>3, <1>4, SubmitParts
<1>6. DrawTyped' /\ GtkTyped' /\ InputsTyped' /\ Locked'
  BY <1>1, <1>4 DEF IInv, Types, DrawTyped, GtkTyped, InputsTyped, Locked
<1>7. ~Drawing /\ ~Drawing'
  BY <1>1 DEF Drawing
<1>8. Drawn' /\ OpenedWell' /\ OpenedNewer'
  BY <1>1, <1>2, <1>3, <1>7, AppendDrawn
<1>9. QED
  BY <1>5, <1>6, <1>8 DEF IInv, Types

LEMMA SubmitStartInv ==
  ASSUME IInv, SubmitStart
  PROVE  IInv'
<1> DEFINE e == [kind |-> "start", area |-> total, seen |-> 0]
<1>1. /\ UNCHANGED <<image, buf, active, lock, pcP, lapse, total, seen, view, screen, damage,
                     setSize, queueDraw, scrolls, updates>>
      /\ gpc = "start" /\ gpc' = "area"
  BY DEF SubmitStart, areaVars, procVars, gtkVars, signals, inputs
<1>2. queue' = Append(queue, e)
  BY DEF SubmitStart, Submit
<1>3. e \in Requests /\ e.kind = "start" /\ e.area = total
  BY Constant DEF Requests, Kinds, Pixels, IInv, Types, DrawTyped
<1> HIDE DEF e
<1>4. updates \in Nat /\ updates <= Len(Sizes)
  BY DEF IInv, Types, InputsTyped, UpdatesCounted
<1>5. AreaTyped' /\ QueueTyped' /\ ProcTyped' /\ UpdatesCounted' /\ CleanIsNew'
      /\ NotNewer' /\ ActiveNewer'
  BY <1>1, <1>2, <1>3, <1>4, SubmitParts
<1>6. DrawTyped' /\ GtkTyped' /\ InputsTyped' /\ Locked'
  BY <1>1 DEF IInv, Types, DrawTyped, GtkTyped, InputsTyped, Locked
<1>7. ~Drawing
  BY <1>1 DEF Drawing
<1>8. Drawn' /\ OpenedWell' /\ OpenedNewer'
  BY <1>1, <1>2, <1>3, <1>7, AppendDrawn
<1>9. QED
  BY <1>5, <1>6, <1>8 DEF IInv, Types

\* What has been sent of a drawing goes on with its part, or without one.
LEMMA AreaDrawn ==
  ASSUME IInv, gpc = "area", gpc' = "end", seen' \in Pixels,
         UNCHANGED <<image, buf, active, pcP, screen, total>>,
         NEW clip \in SUBSET Positions, Covers(clip, total, seen)',
         NEW e \in Requests, e.kind = "redraw", e.area = clip,
         IF clip = {} THEN queue' = queue ELSE queue' = Append(queue, e)
  PROVE  Drawn' /\ OpenedWell' /\ OpenedNewer'
<1>1. /\ Len(queue) \in Nat /\ \A i \in 1 .. Len(queue) : queue'[i] = queue[i]
      /\ clip = {} => Len(queue') = Len(queue)
      /\ clip # {} => Len(queue') = Len(queue) + 1 /\ queue'[Len(queue) + 1] = e
  BY AppendParts DEF IInv, Types, QueueTyped
<1>2. ASSUME NEW part, NEW i \in 1 .. Len(queue), NEW area, EndFollows(part, i, area)
      PROVE  EndFollows(part, i, area)' /\ i < Len(queue)
  <2>1. i < Len(queue)
    BY <1>2 DEF EndFollows
  <2>2. i + 1 \in 1 .. Len(queue)
    BY <1>1, <2>1
  <2>3. QED
    BY <1>1, <1>2, <2>1, <2>2 DEF EndFollows, Covers, Extent, WidthOf
<1>3. ASSUME NEW i \in Nat, i = Len(queue), NEW area, total = area PROVE PartFollows(i, area)'
  <2>1. CASE clip = {}
    <3>1. EndFollows({}, i, area)'
      BY <1>1, <1>3, <2>1 DEF EndFollows, Covers
    <3>2. QED
      BY <3>1 DEF PartFollows
  <2>2. CASE clip # {}
    <3>1. EndFollows(clip, i + 1, area)'
      BY <1>1, <1>3, <2>2 DEF EndFollows, Covers
    <3>2. QED
      BY <1>1, <1>3, <2>2, <3>1 DEF PartFollows
  <2>3. QED
    BY <2>1, <2>2
<1>4. ASSUME NEW i \in 1 .. Len(queue), NEW area \in SUBSET Positions, PartFollows(i, area)
      PROVE  PartFollows(i, area)'
  <2>1. CASE i < Len(queue)
    <3>1. i + 1 \in 1 .. Len(queue) /\ i < Len(queue')
      BY <1>1, <2>1
    <3>2. CASE EndFollows({}, i, area)
      BY <1>2, <3>1, <3>2 DEF PartFollows
    <3>3. ASSUME NEW part \in SUBSET Positions, queue[i + 1].kind = "redraw",
                 queue[i + 1].area = part, EndFollows(part, i + 1, area)
          PROVE  PartFollows(i, area)'
      <4>1. EndFollows(part, i + 1, area)'
        BY <1>2, <3>1, <3>3
      <4>2. QED
        BY <1>1, <3>1, <3>3, <4>1 DEF PartFollows
    <3>4. QED
      BY <1>4, <2>1, <3>2, <3>3 DEF PartFollows
  <2>2. CASE ~(i < Len(queue))
    <3>1. i = Len(queue) /\ total = area
      BY <1>1, <1>4, <2>2 DEF PartFollows, EndFollows
    <3>2. QED
      BY <1>3, <3>1
  <2>3. QED
    BY <2>1, <2>2
<1>5. Drawn'
  <2>1. ASSUME NEW i \in 1 .. Len(queue'), NEW area \in SUBSET Positions,
               queue'[i].kind = "start", queue'[i].area = area
        PROVE  PartFollows(i, area)'
    <3>1. i \in 1 .. Len(queue)
      BY <1>1, <2>1
    <3>2. QED
      BY <1>1, <1>4, <2>1, <3>1 DEF IInv, Drawn
  <2>2. ASSUME NEW i \in 1 .. Len(queue'), queue'[i].kind \in {"update", "end"}
        PROVE  i < Len(queue') /\ queue'[i + 1].kind \in {"update", "start"}
    <3>1. i \in 1 .. Len(queue) /\ queue[i].kind \in {"update", "end"}
      BY <1>1, <2>2
    <3>2. i < Len(queue) /\ queue[i + 1].kind \in {"update", "start"}
      BY <3>1 DEF IInv, Drawn, Drawing
    <3>3. i + 1 \in 1 .. Len(queue)
      BY <1>1, <3>1, <3>2
    <3>4. QED
      BY <1>1, <3>2, <3>3
  <2>3. QED
    BY <2>1, <2>2 DEF Drawn
<1>6. Opened' => Opened
  BY <1>1 DEF Opened, Drawing
<1>7. OpenedWell'
  <2>1. SUFFICES ASSUME Opened' PROVE OpenedWell'
    BY DEF OpenedWell
  <2>2. Opened /\ pcP = "idle" /\ image \in Pixels /\ buf[Inactive].rect \in SUBSET Positions
    BY <1>6, <2>1 DEF IInv, OpenedWell, Types, AreaTyped, Inactive
  <2>3. CASE Len(queue) = 0
    <3>1. total = buf[Inactive].rect
      BY <2>2, <2>3 DEF IInv, OpenedWell
    <3>2. CASE clip = {}
      <4>1. Covers({}, buf[Inactive].rect, seen)'
        BY <3>1, <3>2 DEF Inactive
      <4>2. Good(seen)'
        <5>1. ASSUME seen' # 0, WidthOf(seen') >= WidthOf(image)
              PROVE  buf[Inactive].rect \cap Extent(image) = {}
          <6>1. Covers({}, buf[Inactive].rect, seen')
            BY <4>1 DEF Covers, Inactive, Extent, WidthOf
          <6>2. QED
            BY <2>2, <5>1, <6>1, CoversAll
        <5>2. QED
          BY <5>1 DEF Good, Inactive, WidthOf, Extent
      <4>3. QED
        BY <1>1, <2>2, <2>3, <3>1, <3>2, <4>2 DEF OpenedWell, Inactive
    <3>3. CASE clip # {}
      <4>1. Len(queue') = 1 /\ queue'[1] = e
        BY <1>1, <2>3, <3>3
      <4>2. \A area : area = buf[Inactive].rect => EndFollows(clip, 1, area)'
        BY <3>1, <4>1 DEF EndFollows, Covers
      <4>3. QED
        BY <2>2, <3>1, <4>1, <4>2 DEF OpenedWell, Inactive
    <3>4. QED
      BY <3>2, <3>3
  <2>4. CASE Len(queue) # 0
    <3>1. 1 \in 1 .. Len(queue) /\ queue'[1] = queue[1] /\ Len(queue') # 0
      BY <1>1, <2>4
    <3>2. CASE queue[1].kind = "end"
      BY <2>2, <3>1, <3>2 DEF IInv, OpenedWell, Good, Inactive, WidthOf, Extent
    <3>3. CASE queue[1].kind # "end"
      <4>1. PICK part \in SUBSET Positions, area \in SUBSET Positions :
              queue[1].area = part /\ buf[Inactive].rect = area /\ EndFollows(part, 1, area)
        BY <2>2, <2>4, <3>3 DEF IInv, OpenedWell
      <4>2. EndFollows(part, 1, area)'
        BY <1>2, <3>1, <4>1
      <4>3. QED
        BY <2>2, <3>1, <3>3, <4>1, <4>2 DEF OpenedWell, Inactive
    <3>4. QED
      BY <3>2, <3>3
  <2>5. QED
    BY <2>3, <2>4
<1>8. OpenedNewer'
  BY <1>6 DEF IInv, OpenedNewer, Newer, Active, Inactive
<1>9. QED
  BY <1>5, <1>7, <1>8

LEMMA SubmitAreaInv ==
  ASSUME IInv, SubmitArea
  PROVE  IInv'
<1>1. /\ UNCHANGED <<image, buf, active, lock, pcP, lapse, total, view, screen, damage,
                     setSize, queueDraw, scrolls, updates>>
      /\ gpc = "area" /\ gpc' = "end" /\ seen' = IF pcP = "replace" THEN 0 ELSE image
  BY DEF SubmitArea, areaVars, procVars, gtkVars, signals, inputs
<1>2. PICK width \in IF pcP = "replace" THEN 0 .. Width ELSE {WidthOf(image)} :
        IF total \cap 1 .. width = {} THEN UNCHANGED queue
        ELSE Submit("redraw", total \cap 1 .. width, 0)
  BY DEF SubmitArea
<1>3. PICK clip \in SUBSET Positions : clip = total \cap 1 .. width
  BY DEF IInv, Types, DrawTyped
<1>4. PICK e \in Requests : e = [kind |-> "redraw", area |-> clip, seen |-> 0]
  <2>1. 0 \in Pixels /\ "redraw" \in Kinds
    BY Constant DEF Pixels, Kinds
  <2>2. [kind |-> "redraw", area |-> clip, seen |-> 0] \in Requests
    BY <2>1 DEF Requests
  <2>3. QED
    BY <2>2
<1>5. e.kind = "redraw" /\ e.area = clip
  BY <1>4
<1>6. IF clip = {} THEN queue' = queue ELSE queue' = Append(queue, e)
  BY <1>2, <1>3, <1>4 DEF Submit
<1>7. seen' \in Pixels
  BY <1>1, Constant DEF IInv, Types, AreaTyped, Pixels
<1>8. Covers(clip, total, seen)'
  BY <1>1, <1>2, <1>3 DEF Covers, Extent, WidthOf
<1>9. updates \in Nat /\ updates <= Len(Sizes)
  BY DEF IInv, Types, InputsTyped, UpdatesCounted
<1>10. AreaTyped' /\ QueueTyped' /\ ProcTyped' /\ UpdatesCounted' /\ CleanIsNew'
      /\ NotNewer' /\ ActiveNewer'
  <2>1. CASE clip # {}
    BY <1>1, <1>5, <1>6, <1>9, <2>1, SubmitParts
  <2>2. CASE clip = {}
    BY <1>1, <1>6, <2>2
       DEF IInv, Types, AreaTyped, QueueTyped, ProcTyped, UpdatesCounted, Pending, Asked, CleanIsNew,
           NotNewer, ActiveNewer, Active, Newer, Extent, WidthOf
  <2>3. QED
    BY <2>1, <2>2
<1>11. DrawTyped' /\ GtkTyped' /\ InputsTyped' /\ Locked'
  BY <1>1, <1>7 DEF IInv, Types, DrawTyped, GtkTyped, InputsTyped, Locked
<1>12. Drawn' /\ OpenedWell' /\ OpenedNewer'
  BY <1>1, <1>5, <1>6, <1>7, <1>8, AreaDrawn
<1>13. QED
  BY <1>10, <1>11, <1>12 DEF IInv, Types

\* The end of a drawing is sent.
LEMMA SubmitEndInv ==
  ASSUME IInv, SubmitEnd
  PROVE  IInv'
<1>1. /\ UNCHANGED <<image, buf, active, lock, pcP, lapse, view, screen, damage,
                     setSize, queueDraw, scrolls, updates>>
      /\ gpc = "end" /\ gpc' = "idle" /\ total' = {} /\ seen' = 0
  BY DEF SubmitEnd, areaVars, procVars, gtkVars, signals, inputs
<1>2. PICK e \in Requests : e = [kind |-> "end", area |-> total, seen |-> seen]
  BY DEF Requests, Kinds, IInv, Types, DrawTyped
<1>3. e.kind = "end" /\ e.area = total /\ e.seen = seen /\ queue' = Append(queue, e)
  BY <1>1, <1>2 DEF SubmitEnd, Submit
<1>4. updates \in Nat /\ updates <= Len(Sizes)
  BY DEF IInv, Types, InputsTyped, UpdatesCounted
<1>5. AreaTyped' /\ QueueTyped' /\ ProcTyped' /\ UpdatesCounted' /\ CleanIsNew'
      /\ NotNewer' /\ ActiveNewer'
  BY <1>1, <1>3, <1>4, SubmitParts
<1>6. DrawTyped' /\ GtkTyped' /\ InputsTyped' /\ Locked'
  BY <1>1, Constant DEF IInv, Types, DrawTyped, GtkTyped, InputsTyped, Locked, Pixels
<1>7. /\ Len(queue) \in Nat /\ Len(queue') = Len(queue) + 1 /\ queue'[Len(queue) + 1] = e
      /\ \A i \in 1 .. Len(queue) : queue'[i] = queue[i]
  BY <1>3, AppendParts DEF IInv, Types, QueueTyped
<1>8. ASSUME NEW part, NEW i \in 1 .. Len(queue), NEW area, EndFollows(part, i, area)
      PROVE  EndFollows(part, i, area)'
  <2>1. CASE i < Len(queue)
    <3>1. i + 1 \in 1 .. Len(queue)
      BY <1>7, <2>1
    <3>2. QED
      BY <1>7, <1>8, <2>1, <3>1 DEF EndFollows, Covers, Extent, WidthOf
  <2>2. CASE i = Len(queue)
    BY <1>3, <1>7, <1>8, <2>2 DEF EndFollows, Covers, Extent, WidthOf
  <2>3. QED
    BY <1>7, <2>1, <2>2
<1>9. ASSUME NEW i \in 1 .. Len(queue), NEW area \in SUBSET Positions, PartFollows(i, area)
      PROVE  PartFollows(i, area)'
  <2>1. CASE EndFollows({}, i, area)
    BY <1>7, <1>8, <2>1 DEF PartFollows
  <2>2. ASSUME i < Len(queue), NEW part \in SUBSET Positions, queue[i + 1].kind = "redraw",
               queue[i + 1].area = part, EndFollows(part, i + 1, area)
        PROVE  PartFollows(i, area)'
    <3>1. i + 1 \in 1 .. Len(queue)
      BY <1>7, <2>2
    <3>2. EndFollows(part, i + 1, area)'
      BY <1>8, <2>2, <3>1
    <3>3. QED
      BY <1>7, <2>2, <3>1, <3>2 DEF PartFollows
  <2>3. QED
    BY <1>1, <1>9, <2>1, <2>2 DEF PartFollows
<1>10. Drawn'
  <2>1. ASSUME NEW i \in 1 .. Len(queue'), NEW area \in SUBSET Positions,
               queue'[i].kind = "start", queue'[i].area = area
        PROVE  PartFollows(i, area)'
    <3>1. i \in 1 .. Len(queue)
      BY <1>3, <1>7, <2>1
    <3>2. QED
      BY <1>7, <1>9, <2>1, <3>1 DEF IInv, Drawn
  <2>2. ASSUME NEW i \in 1 .. Len(queue'), queue'[i].kind \in {"update", "end"}
        PROVE  IF i < Len(queue') THEN queue'[i + 1].kind \in {"update", "start"} ELSE ~Drawing'
    <3>1. CASE i = Len(queue')
      BY <1>1, <3>1 DEF Drawing
    <3>2. CASE i \in 1 .. Len(queue)
      <4>1. i < Len(queue) /\ queue[i + 1].kind \in {"update", "start"}
        BY <1>1, <1>7, <2>2, <3>2 DEF IInv, Drawn, Drawing
      <4>2. i + 1 \in 1 .. Len(queue)
        BY <1>7, <3>2, <4>1
      <4>3. QED
        BY <1>7, <4>1, <4>2
    <3>3. QED
      BY <1>7, <3>1, <3>2
  <2>3. QED
    BY <2>1, <2>2 DEF Drawn
<1>11. Opened' => Opened
  BY <1>1, <1>7 DEF Opened, Drawing
<1>12. OpenedWell'
  <2>1. SUFFICES ASSUME Opened' PROVE OpenedWell'
    BY DEF OpenedWell
  <2>2. Opened /\ pcP = "idle" /\ Len(queue') # 0
    BY <1>7, <1>11, <2>1 DEF IInv, OpenedWell
  <2>3. CASE Len(queue) = 0
    <3>1. queue'[1] = e /\ total = buf[Inactive].rect /\ Good(seen)
      BY <1>1, <1>7, <2>2, <2>3 DEF IInv, OpenedWell
    <3>2. QED
      BY <1>1, <1>3, <2>2, <3>1 DEF OpenedWell, Good, Inactive, WidthOf, Extent
  <2>4. CASE Len(queue) # 0
    <3>1. 1 \in 1 .. Len(queue) /\ queue'[1] = queue[1]
      BY <1>7, <2>4
    <3>2. CASE queue[1].kind = "end"
      BY <1>1, <2>2, <2>4, <3>1, <3>2 DEF IInv, OpenedWell, Good, Inactive, WidthOf, Extent
    <3>3. CASE queue[1].kind # "end"
      <4>1. PICK part \in SUBSET Positions, area \in SUBSET Positions :
              queue[1].area = part /\ buf[Inactive].rect = area /\ EndFollows(part, 1, area)
        BY <2>2, <2>4, <3>3 DEF IInv, OpenedWell
      <4>2. EndFollows(part, 1, area)'
        BY <1>8, <3>1, <4>1
      <4>3. QED
        BY <1>1, <2>2, <3>1, <3>3, <4>1, <4>2 DEF OpenedWell, Inactive
    <3>4. QED
      BY <3>2, <3>3
  <2>5. QED
    BY <2>3, <2>4
<1>13. OpenedNewer'
  BY <1>1, <1>3, <1>11, SubmitOpened
<1>14. QED
  BY <1>5, <1>6, <1>10, <1>12, <1>13 DEF IInv, Types

-----------------------------------------------------------------------------
(* The steps of the processor *)

\* A request is served, and no image is replaced yet.
LEMMA ServeParts ==
  ASSUME IInv, NEW kind, Serve(kind), UNCHANGED <<image, updates>>,
         pcP' = pcP \/ (kind = "update" /\ pcP' = "replace")
  PROVE  UpdatesCounted'
<1>1. queue \in Seq(Requests) /\ queue # <<>> /\ queue' = Tail(queue) /\ pcP = "idle"
      /\ Head(queue).kind = kind
  BY DEF IInv, Types, QueueTyped, Serve
<1>2. /\ Cardinality(Asked) \in Nat
      /\ Cardinality(Asked') <= Cardinality(Asked) - IF kind = "update" THEN 1 ELSE 0
  BY <1>1, AskedFinite, AskedTail
<1>3. Cardinality(Asked') \in Nat
  <2>1. queue' \in Seq(Requests)
    BY <1>1, TailParts
  <2>2. IsFiniteSet(1 .. Len(queue')) /\ Asked' \in SUBSET (1 .. Len(queue'))
    BY <2>1, FS_Interval DEF Asked
  <2>3. QED
    BY <2>2, FS_Subset, FS_CardinalityType
<1>4. image \in Nat /\ updates \in Nat
  BY Constant DEF IInv, Types, AreaTyped, InputsTyped, Pixels
<1>5. image + Cardinality(Asked) <= updates /\ updates <= Len(Sizes)
  BY <1>1, <1>2, <1>4 DEF IInv, UpdatesCounted, Pending
<1>6. image + (Cardinality(Asked') + IF pcP' = "replace" THEN 1 ELSE 0) <= updates
  BY SMTT(40), <1>1, <1>2, <1>3, <1>4, <1>5
<1>7. QED
  BY <1>5, <1>6 DEF UpdatesCounted, Pending

\* What a step of the processor leaves to the GUI thread.
LEMMA GuiKept ==
  ASSUME IInv, UNCHANGED <<lock, gpc, total, seen, view, screen, damage, scrolls, updates>>,
         setSize' \in BOOLEAN, queueDraw' \in BOOLEAN
  PROVE  DrawTyped' /\ GtkTyped' /\ InputsTyped' /\ Locked'
BY DEF IInv, Types, DrawTyped, GtkTyped, InputsTyped, Locked

\* The active buffer is left alone, and the inactive one gets a rectangle and pixels.
LEMMA InactivePainted ==
  ASSUME IInv, UNCHANGED <<image, active, pcP, lapse, screen>>,
         NEW area \in SUBSET Positions, NEW pix \in [Positions -> Pixels],
         buf' = [buf EXCEPT ![Inactive].rect = area, ![Inactive].pix = pix],
         \A p \in Positions : pix[p] <= image
  PROVE  /\ AreaTyped' /\ CleanIsNew' /\ NotNewer' /\ ActiveNewer'
         /\ Inactive' = Inactive /\ buf'[Inactive].rect = area /\ buf'[Inactive].pix = pix
         /\ Active' = Active
<1>1. /\ image \in Pixels /\ active \in {0, 1} /\ Inactive \in {0, 1} /\ Inactive # active
      /\ buf \in [{0, 1} -> Buffers]
  BY DEF IInv, Types, AreaTyped, Buffers, Inactive
<1>2. /\ buf' \in [{0, 1} -> Buffers] /\ buf'[active] = buf[active]
      /\ buf'[Inactive].rect = area /\ buf'[Inactive].pix = pix
  BY <1>1 DEF Buffers
<1>3. Inactive' = Inactive /\ Active' = Active
  BY <1>2 DEF Inactive, Active
<1>4. AreaTyped'
  BY <1>1, <1>2 DEF AreaTyped, Buffers
<1>5. CleanIsNew' /\ ActiveNewer'
  BY <1>3 DEF IInv, CleanIsNew, ActiveNewer, Newer, Extent, WidthOf
<1>6. NotNewer'
  <2>1. {0, 1} = {active, Inactive}
    BY <1>1
  <2>2. QED
    BY <1>1, <1>2, <2>1 DEF IInv, NotNewer
<1>7. QED
  BY <1>2, <1>3, <1>4, <1>5, <1>6

LEMMA ProcessStartInv ==
  ASSUME IInv, ProcessStart
  PROVE  IInv'
<1>1. /\ UNCHANGED <<image, active, lock, pcP, lapse, gpc, total, seen, view, screen, damage,
                     setSize, queueDraw, scrolls, updates>>
      /\ pcP = "idle" /\ queue # <<>> /\ queue' = Tail(queue) /\ Head(queue).kind = "start"
  BY DEF ProcessStart, Serve, procVars, drawVars, gtkVars, signals, inputs
<1>2. UpdatesCounted'
  BY <1>1, ServeParts DEF ProcessStart
<1>3. /\ QueueTyped' /\ Drawn' /\ Head(queue) \in Requests
      /\ \A area \in SUBSET Positions : Head(queue).area = area => PartFollows(0, area)'
  BY <1>1, Served
<1>4. PICK area \in SUBSET Positions : area = request.area
  BY <1>3 DEF Requests, request
<1>5. PICK pix \in [Positions -> Pixels] :
        pix = [p \in Positions |-> IF p \in area \cap Active.rect THEN Active.pix[p] ELSE 0]
  <2>1. [p \in Positions |-> IF p \in area \cap Active.rect THEN Active.pix[p] ELSE 0]
          \in [Positions -> Pixels]
    BY PixelParts, Constant DEF Active, Pixels
  <2>2. QED
    BY <2>1
<1>6. buf' = [buf EXCEPT ![Inactive].rect = area, ![Inactive].pix = pix]
  BY <1>4, <1>5 DEF ProcessStart
<1>7. \A p \in Positions : pix[p] <= image
  BY <1>5, PixelParts DEF IInv, NotNewer, Active
<1>8. /\ AreaTyped' /\ CleanIsNew' /\ NotNewer' /\ ActiveNewer'
      /\ Inactive' = Inactive /\ buf'[Inactive].rect = area /\ buf'[Inactive].pix = pix
      /\ Active' = Active
  BY <1>1, <1>6, <1>7, InactivePainted
<1>9. DrawTyped' /\ GtkTyped' /\ InputsTyped' /\ Locked' /\ ProcTyped'
  <2>1. DrawTyped' /\ GtkTyped' /\ InputsTyped' /\ Locked'
    BY <1>1, GuiKept DEF IInv, Types, GtkTyped
  <2>2. QED
    BY <1>1, <2>1 DEF IInv, Types, ProcTyped
<1>10. OpenedWell'
  <2>1. ASSUME NEW s \in Pixels, Covers({}, area, s)' PROVE Good(s)'
    <3>1. s # 0 /\ WidthOf(s) >= WidthOf(image) => area \cap Extent(image) = {}
      <4>1. Covers({}, area, s)
        BY <2>1 DEF Covers, Extent, WidthOf
      <4>2. image \in Pixels
        BY DEF IInv, Types, AreaTyped
      <4>3. QED
        BY <4>1, <4>2, CoversAll
    <3>2. QED
      BY <1>1, <1>8, <3>1 DEF Good, Inactive, WidthOf, Extent
  <2>2. PartFollows(0, area)'
    BY <1>3, <1>4 DEF request
  <2>3. Len(queue') \in Nat
    BY <1>1, TailParts DEF IInv, Types, QueueTyped
  <2>4. CASE Len(queue') = 0
    <3>1. total' = area
      BY <2>2, <2>4 DEF PartFollows, EndFollows
    <3>2. ASSUME gpc' = "end" PROVE Good(seen)'
      <4>1. Covers({}, area, seen)'
        BY <2>2, <2>4, <3>2 DEF PartFollows, EndFollows
      <4>2. PICK s \in Pixels : s = seen'
        BY <1>9 DEF DrawTyped
      <4>3. Covers({}, area, s)'
        BY <4>1, <4>2 DEF Covers, Extent, WidthOf
      <4>4. QED
        BY <2>1, <4>2, <4>3 DEF Good, WidthOf
    <3>3. QED
      BY <1>1, <1>8, <2>4, <3>1, <3>2 DEF OpenedWell, Inactive
  <2>5. CASE Len(queue') # 0
    <3>1. CASE EndFollows({}, 0, area)'
      <4>1. queue'[1].kind = "end" /\ queue'[1].area = area /\ Covers({}, area, queue[1].seen)'
        BY <2>3, <2>5, <3>1 DEF EndFollows
      <4>2. PICK s \in Pixels : s = queue'[1].seen
        <5>1. queue'[1] \in Requests
          BY <1>3, <2>3, <2>5 DEF QueueTyped
        <5>2. QED
          BY <5>1 DEF Requests
      <4>3. Covers({}, area, s)'
        BY <4>1, <4>2 DEF Covers, Extent, WidthOf
      <4>4. Good(queue[1].seen)'
        BY <2>1, <4>2, <4>3 DEF Good, WidthOf
      <4>5. QED
        BY <1>1, <1>8, <2>5, <4>1, <4>4 DEF OpenedWell, Inactive
    <3>2. ASSUME NEW part \in SUBSET Positions, queue'[1].kind = "redraw", queue'[1].area = part,
                 EndFollows(part, 1, area)'
          PROVE  OpenedWell'
      BY <1>1, <1>8, <2>5, <3>2 DEF OpenedWell, Inactive
    <3>3. QED
      BY <2>2, <2>3, <2>5, <3>1, <3>2 DEF PartFollows
  <2>6. QED
    BY <2>4, <2>5
<1>11. OpenedNewer'
  <2>1. \A p \in area : p \in Positions /\ pix[p] = IF p \in Active.rect THEN Active.pix[p] ELSE 0
    BY <1>5
  <2>2. \A p \in area : /\ Newer(pix[p], screen[p])
                        /\ p \in Active.rect => Newer(pix[p], Active.pix[p])
    BY <2>1, PixelParts DEF IInv, ActiveNewer, Newer, Active
  <2>3. QED
    BY <1>1, <1>8, <2>2 DEF OpenedNewer, Newer
<1>12. QED
  BY <1>2, <1>3, <1>8, <1>9, <1>10, <1>11 DEF IInv, Types

LEMMA ProcessAreaInv ==
  ASSUME IInv, ProcessArea
  PROVE  IInv'
<1>1. /\ UNCHANGED <<image, active, lock, pcP, lapse, gpc, total, seen, view, screen, damage,
                     setSize, queueDraw, scrolls, updates>>
      /\ pcP = "idle" /\ queue # <<>> /\ queue' = Tail(queue) /\ Head(queue).kind = "redraw"
  BY DEF ProcessArea, Serve, procVars, drawVars, gtkVars, signals, inputs
<1>2. UpdatesCounted'
  BY <1>1, ServeParts DEF ProcessArea
<1>3. /\ QueueTyped' /\ Drawn' /\ Head(queue) \in Requests /\ Head(queue) = queue[1]
      /\ Len(queue) > 0
      /\ \A part, area : EndFollows(part, 1, area) => EndFollows(part, 0, area)'
  BY <1>1, Served
<1>4. Opened /\ image \in Pixels /\ image \in Nat
  BY <1>1, <1>3, Constant DEF Opened, IInv, Types, AreaTyped, Pixels
<1>5. PICK part \in SUBSET Positions, area \in SUBSET Positions :
        request.area = part /\ buf[Inactive].rect = area /\ EndFollows(part, 1, area)
  BY <1>1, <1>3, <1>4 DEF IInv, OpenedWell, request
<1>6. PICK pix \in [Positions -> Pixels] :
        pix = [p \in Positions |->
          IF p \in part \cap Extent(image) \cap area THEN image ELSE buf[Inactive].pix[p]]
  <2>1. [p \in Positions |->
          IF p \in part \cap Extent(image) \cap area THEN image ELSE buf[Inactive].pix[p]]
          \in [Positions -> Pixels]
    BY <1>4, PixelParts
  <2>2. QED
    BY <2>1
<1>7. buf' = [buf EXCEPT ![Inactive].rect = area, ![Inactive].pix = pix]
  <2>1. buf' = [buf EXCEPT ![Inactive].pix = pix]
    BY <1>5, <1>6 DEF ProcessArea
  <2>2. buf \in [{0, 1} -> Buffers] /\ Inactive \in {0, 1}
    BY DEF IInv, Types, AreaTyped, Buffers, Inactive
  <2>3. QED
    BY <1>5, <2>1, <2>2 DEF Buffers
<1>8. \A p \in Positions : pix[p] <= image
  BY <1>4, <1>6, PixelParts DEF IInv, NotNewer
<1>9. /\ AreaTyped' /\ CleanIsNew' /\ NotNewer' /\ ActiveNewer'
      /\ Inactive' = Inactive /\ buf'[Inactive].rect = area /\ buf'[Inactive].pix = pix
      /\ Active' = Active
  BY <1>1, <1>7, <1>8, InactivePainted
<1>10. DrawTyped' /\ GtkTyped' /\ InputsTyped' /\ Locked' /\ ProcTyped'
  <2>1. DrawTyped' /\ GtkTyped' /\ InputsTyped' /\ Locked'
    BY <1>1, GuiKept DEF IInv, Types, GtkTyped
  <2>2. QED
    BY <1>1, <2>1 DEF IInv, Types, ProcTyped
<1>11. OpenedWell'
  <2>1. ASSUME NEW s \in Pixels, Covers(part, area, s)' PROVE Good(s)'
    <3>1. s # 0 /\ WidthOf(s) >= WidthOf(image) => area \cap Extent(image) \subseteq part
      BY <1>4, <2>1, CoversAll DEF Covers, Extent, WidthOf
    <3>2. \A p \in part \cap area \cap Extent(image) : pix[p] = image
      BY <1>6
    <3>3. s # 0 /\ WidthOf(s) >= WidthOf(image) => \A p \in area \cap Extent(image) : pix[p] = image
      BY <3>1, <3>2
    <3>4. QED
      BY <1>1, <1>9, <3>3 DEF Good, Inactive, WidthOf, Extent
  <2>2. EndFollows(part, 0, area)'
    BY <1>3, <1>5
  <2>3. Len(queue') \in Nat
    BY <1>1, TailParts DEF IInv, Types, QueueTyped
  <2>4. CASE Len(queue') = 0
    <3>1. total' = area /\ Covers(part, area, seen)'
      BY <2>2, <2>4 DEF EndFollows
    <3>2. PICK s \in Pixels : s = seen'
      BY <1>10 DEF DrawTyped
    <3>3. Covers(part, area, s)'
      BY <3>1, <3>2 DEF Covers, Extent, WidthOf
    <3>4. Good(seen)'
      BY <2>1, <3>2, <3>3 DEF Good, WidthOf
    <3>5. QED
      BY <1>1, <1>9, <2>4, <3>1, <3>4 DEF OpenedWell, Inactive
  <2>5. CASE Len(queue') # 0
    <3>1. queue'[1].kind = "end" /\ queue'[1].area = area /\ Covers(part, area, queue[1].seen)'
      BY <2>2, <2>3, <2>5 DEF EndFollows
    <3>2. PICK s \in Pixels : s = queue'[1].seen
      <4>1. queue'[1] \in Requests
        BY <1>3, <2>3, <2>5 DEF QueueTyped
      <4>2. QED
        BY <4>1 DEF Requests
    <3>3. Covers(part, area, s)'
      BY <3>1, <3>2 DEF Covers, Extent, WidthOf
    <3>4. Good(queue[1].seen)'
      BY <2>1, <3>2, <3>3 DEF Good, WidthOf
    <3>5. QED
      BY <1>1, <1>9, <2>5, <3>1, <3>4 DEF OpenedWell, Inactive
  <2>6. QED
    BY <2>4, <2>5
<1>12. OpenedNewer'
  <2>1. ASSUME NEW p \in area
        PROVE  /\ Newer(pix[p], screen[p])
               /\ p \in Active.rect => Newer(pix[p], Active.pix[p])
    <3>1. p \in Positions /\ pix[p] \in {image, buf[Inactive].pix[p]}
      BY <1>6, <2>1
    <3>2. CASE pix[p] = image
      BY <3>1, <3>2, PixelParts DEF IInv, NotNewer, Newer, Active
    <3>3. CASE pix[p] = buf[Inactive].pix[p]
      BY <1>4, <1>5, <2>1, <3>3 DEF IInv, OpenedNewer
    <3>4. QED
      BY <3>1, <3>2, <3>3
  <2>2. QED
    BY <1>1, <1>9, <2>1 DEF OpenedNewer, Newer
<1>13. QED
  BY <1>2, <1>3, <1>9, <1>10, <1>11, <1>12 DEF IInv, Types

\* The buffers change places.
LEMMA ProcessEndInv ==
  ASSUME IInv, ProcessEnd
  PROVE  IInv'
<1>1. /\ UNCHANGED <<image, lock, pcP, gpc, total, seen, view, screen, damage, setSize, scrolls,
                     updates>>
      /\ pcP = "idle" /\ queue # <<>> /\ queue' = Tail(queue) /\ Head(queue).kind = "end"
      /\ active' = Inactive /\ queueDraw' = TRUE
      /\ buf' = [buf EXCEPT ![Inactive].dirty = FALSE, ![active].dirty = TRUE]
      /\ lapse' = (request.seen = 0 \/ WidthOf(request.seen) < WidthOf(image))
  BY DEF ProcessEnd, Swap, Serve, drawVars, gtkVars, inputs
<1>2. UpdatesCounted'
  BY <1>1, ServeParts DEF ProcessEnd
<1>3. /\ QueueTyped' /\ Drawn' /\ Head(queue) \in Requests /\ Head(queue) = queue[1]
      /\ Len(queue) > 0 /\ ~Opened'
  BY <1>1, Served
<1>4. /\ image \in Pixels /\ active \in {0, 1} /\ Inactive \in {0, 1} /\ Inactive # active
      /\ buf \in [{0, 1} -> Buffers]
  BY DEF IInv, Types, AreaTyped, Buffers, Inactive
<1>5. /\ buf' \in [{0, 1} -> Buffers]
      /\ \A b \in {0, 1} : buf'[b].rect = buf[b].rect /\ buf'[b].pix = buf[b].pix
  BY ZenonT(60), <1>1, <1>4 DEF Buffers
<1>6. Opened /\ Good(queue[1].seen)
  BY <1>1, <1>3 DEF Opened, IInv, OpenedWell
<1>7. Active'.rect = buf[Inactive].rect /\ Active'.pix = buf[Inactive].pix
  BY <1>1, <1>4, <1>5 DEF Active
<1>8. AreaTyped' /\ ProcTyped'
  BY <1>1, <1>4, <1>5 DEF AreaTyped, Buffers, ProcTyped, IInv, Types
<1>9. DrawTyped' /\ GtkTyped' /\ InputsTyped' /\ Locked'
  BY <1>1, GuiKept DEF IInv, Types, GtkTyped
<1>10. OpenedWell' /\ OpenedNewer'
  BY <1>3 DEF OpenedWell, OpenedNewer
<1>11. CleanIsNew'
  <2>1. SUFFICES ASSUME ~lapse'
                 PROVE  \A p \in Active'.rect \cap Extent(image)' : Active'.pix[p] = image'
    BY DEF CleanIsNew
  <2>2. request.seen \in Pixels /\ request.seen = queue[1].seen
    BY <1>3 DEF Requests, request
  <2>3. request.seen # 0 /\ WidthOf(request.seen) >= WidthOf(image)
    <3>1. WidthOf(request.seen) \in Nat /\ WidthOf(image) \in Nat
      BY <1>4, <2>2, Constant
    <3>2. request.seen # 0 /\ ~(WidthOf(request.seen) < WidthOf(image))
      BY <1>1, <2>1
    <3>3. QED
      BY <3>1, <3>2
  <2>4. \A p \in buf[Inactive].rect \cap Extent(image) : buf[Inactive].pix[p] = image
    BY <1>6, <2>2, <2>3 DEF Good
  <2>5. QED
    BY <1>1, <1>7, <2>4 DEF Extent, WidthOf
<1>12. NotNewer'
  BY <1>1, <1>5 DEF IInv, NotNewer
<1>13. ActiveNewer'
  BY <1>1, <1>6, <1>7 DEF IInv, OpenedNewer, ActiveNewer, Newer
<1>14. QED
  BY <1>2, <1>3, <1>8, <1>9, <1>10, <1>11, <1>12, <1>13 DEF IInv, Types

\* A rebuild that has nothing to replace, or begins.
LEMMA UpdateInv ==
  ASSUME IInv, UpdateNothing \/ Release
  PROVE  IInv'
<1>1. /\ UNCHANGED <<image, buf, active, lock, lapse, gpc, total, seen, view, screen, damage,
                     setSize, queueDraw, scrolls, updates>>
      /\ Serve("update") /\ pcP' \in {pcP, "replace"}
  BY DEF UpdateNothing, Release, areaVars, procVars, drawVars, gtkVars, signals, inputs
<1>2. pcP = "idle" /\ queue # <<>> /\ queue' = Tail(queue) /\ Head(queue).kind = "update"
  BY <1>1 DEF Serve
<1>3. UpdatesCounted'
  BY <1>1, ServeParts
<1>4. QueueTyped' /\ Drawn' /\ ~Opened'
  BY <1>1, <1>2, Served
<1>5. DrawTyped' /\ GtkTyped' /\ InputsTyped' /\ Locked'
  BY <1>1, GuiKept DEF IInv, Types, GtkTyped
<1>6. AreaTyped' /\ ProcTyped'
  BY <1>1, <1>2 DEF IInv, Types, AreaTyped, ProcTyped
<1>7. OpenedWell' /\ OpenedNewer'
  BY <1>4 DEF OpenedWell, OpenedNewer
<1>8. CleanIsNew' /\ NotNewer' /\ ActiveNewer'
  BY <1>1, <1>2 DEF IInv, CleanIsNew, NotNewer, ActiveNewer, Newer, Active, Extent, WidthOf
<1>9. QED
  BY <1>3, <1>4, <1>5, <1>6, <1>7, <1>8 DEF IInv, Types

\* The rest of a rebuild: no drawing is open.
LEMMA ReplaceInv ==
  ASSUME IInv, Renew \/ Mark
  PROVE  IInv'
<1>1. /\ UNCHANGED <<active, lock, queue, lapse, gpc, total, seen, view, screen, damage,
                     queueDraw, scrolls, updates>>
      /\ setSize' \in {setSize, TRUE}
      /\ \/ pcP = "replace" /\ pcP' = "mark" /\ image' = image + 1 /\ buf' = buf
         \/ /\ pcP = "mark" /\ pcP' = "idle" /\ image' = image
            /\ buf' = [buf EXCEPT ![0].dirty = TRUE, ![1].dirty = TRUE]
  BY DEF Renew, Mark, drawVars, gtkVars, signals, inputs
<1>2. /\ image \in Nat /\ active \in {0, 1} /\ buf \in [{0, 1} -> Buffers]
      /\ updates \in Nat /\ Len(Sizes) \in Nat /\ Cardinality(Asked) \in Nat
  BY AskedFinite, Constant DEF IInv, Types, AreaTyped, Buffers, InputsTyped, QueueTyped, Pixels
<1>3. image + (Cardinality(Asked) + IF pcP = "replace" THEN 1 ELSE 0) <= updates
      /\ updates <= Len(Sizes)
  BY DEF IInv, UpdatesCounted, Pending
<1>4. UpdatesCounted'
  <2>1. Asked' = Asked
    BY <1>1 DEF Asked
  <2>2. image' + (Cardinality(Asked) + IF pcP' = "replace" THEN 1 ELSE 0) <= updates
    BY <1>1, <1>2, <1>3
  <2>3. QED
    BY <1>1, <1>3, <2>1, <2>2 DEF UpdatesCounted, Pending
<1>5. image' \in Pixels /\ image' \in Nat /\ image <= image'
  BY <1>1, <1>2, <1>3 DEF Pixels, IInv, Types, AreaTyped
<1>6. /\ buf' \in [{0, 1} -> Buffers]
      /\ \A b \in {0, 1} : buf'[b].rect = buf[b].rect /\ buf'[b].pix = buf[b].pix
  <2>1. CASE buf' = buf
    BY <1>2, <2>1
  <2>2. CASE buf' = [buf EXCEPT ![0].dirty = TRUE, ![1].dirty = TRUE]
    BY <1>2, <2>2 DEF Buffers
  <2>3. QED
    BY <1>1, <2>1, <2>2
<1>7. AreaTyped' /\ QueueTyped' /\ ProcTyped'
  BY <1>1, <1>2, <1>5, <1>6 DEF IInv, Types, AreaTyped, QueueTyped, ProcTyped, Buffers
<1>8. DrawTyped' /\ GtkTyped' /\ InputsTyped' /\ Locked'
  BY <1>1, GuiKept DEF IInv, Types, GtkTyped
<1>9. Drawn'
  BY <1>1 DEF IInv, Drawn, PartFollows, EndFollows, Covers, Drawing, Extent, WidthOf
<1>10. ~Opened'
  BY <1>1 DEF IInv, OpenedWell, Opened, Drawing
<1>11. OpenedWell' /\ OpenedNewer'
  BY <1>10 DEF OpenedWell, OpenedNewer
<1>12. CleanIsNew'
  <2>1. pcP' # "mark" => Active'.dirty
    BY <1>1, <1>2 DEF Active, Buffers
  <2>2. QED
    BY <2>1 DEF CleanIsNew
<1>13. NotNewer'
  <2>1. ASSUME NEW p \in Positions
        PROVE  screen[p] <= image' /\ \A b \in {0, 1} : buf[b].pix[p] <= image'
    BY <1>2, <1>5, PixelParts DEF IInv, NotNewer
  <2>2. QED
    BY <1>1, <1>6, <2>1 DEF NotNewer
<1>14. ActiveNewer'
  BY <1>1, <1>2, <1>6 DEF IInv, ActiveNewer, Newer, Active
<1>15. QED
  BY <1>4, <1>7, <1>8, <1>9, <1>11, <1>12, <1>13, <1>14 DEF IInv, Types

-----------------------------------------------------------------------------
(* The theorems *)

LEMMA NextInv == IInv /\ [Next]_vars => IInv'
<1> SUFFICES ASSUME IInv, [Next]_vars PROVE IInv'
  OBVIOUS
<1>1. ASSUME NEW v \in Views, Scroll(v) PROVE IInv'
  BY <1>1, ScrollInv
<1>2. CASE AskUpdate
  BY <1>2, AskUpdateInv
<1>3. CASE SetSizeCb
  <2>1. PICK v \in Views : Show(v, v)
    BY <1>3 DEF SetSizeCb
  <2>2. QED
    BY <1>3, <2>1, ScrollInv
<1>4. CASE QueueDraw \/ OnDrawNothing \/ OnDraw
  BY <1>4, DrawInv
<1>5. CASE Paint
  BY <1>5, PaintInv
<1>6. CASE SubmitStart
  BY <1>6, SubmitStartInv
<1>7. CASE SubmitArea
  BY <1>7, SubmitAreaInv
<1>8. CASE SubmitEnd
  BY <1>8, SubmitEndInv
<1>9. CASE ProcessStart
  BY <1>9, ProcessStartInv
<1>10. CASE ProcessArea
  BY <1>10, ProcessAreaInv
<1>11. CASE ProcessEnd
  BY <1>11, ProcessEndInv
<1>12. CASE UpdateNothing \/ Release
  BY <1>12, UpdateInv
<1>13. CASE Renew \/ Mark
  BY <1>13, ReplaceInv
<1>14. CASE UNCHANGED vars
  <2>1. UNCHANGED <<image, buf, active, lock, queue, pcP, lapse, gpc, total, seen, view, screen,
                    damage, setSize, queueDraw, scrolls, updates>>
    BY <1>14 DEF vars, areaVars, procVars, drawVars, gtkVars, signals, inputs
  <2>2. DrawTyped' /\ GtkTyped' /\ InputsTyped' /\ Locked'
    BY <2>1, GuiKept DEF IInv, Types, GtkTyped
  <2>3. QED
    BY <2>1, <2>2, ScreenInv
<1>15. QED
  BY <1>1, <1>2, <1>3, <1>4, <1>5, <1>6, <1>7, <1>8, <1>9, <1>10, <1>11, <1>12, <1>13, <1>14
     DEF Next, Gui, Processor, Rest

LEMMA IInvCorrect == Spec => []IInv
<1>1. Init => IInv
  BY InitInv
<1>2. IInv /\ [Next]_vars => IInv'
  BY NextInv
<1>3. QED
  BY <1>1, <1>2, PTL DEF Spec

\* The area, the processor and the GUI thread stay in the states the code has: no
\* rebuild is lost or made twice, so the images never run out of their sizes.
THEOREM TypeCorrect == Spec => []TypeOK
<1>1. IInv => TypeOK
  <2>1. IInv => lock \in BOOLEAN
    BY DEF IInv, Locked
  <2>2. QED
    BY <2>1, Zenon
       DEF IInv, Types, AreaTyped, QueueTyped, ProcTyped, DrawTyped, GtkTyped, InputsTyped, TypeOK
<1>2. QED
  BY <1>1, IInvCorrect, PTL

\* A clean active buffer shows the newest image all over its rectangle, whatever the
\* order of draws, scrolls and rebuilds, but for a drawing that was cut to a smaller
\* image (process_start, process_area and process_end of ImageArea).
THEOREM CleanIsNewCorrect == Spec => []CleanIsNew
<1>1. IInv => CleanIsNew
  BY DEF IInv
<1>2. QED
  BY <1>1, IInvCorrect, PTL

\* The processor never changes what the GUI thread is painting: it writes the inactive
\* buffer only, and swaps under the lock.
THEOREM FrameHoldsCorrect == Spec => FrameHolds
<1>1. ASSUME IInv, [Next]_vars, gpc = "paint"
      PROVE  buf'[active'].rect = Active.rect /\ buf'[active'].pix = Active.pix
  <2>1. /\ lock /\ active \in {0, 1} /\ Inactive \in {0, 1} /\ Inactive # active
        /\ buf \in [{0, 1} -> Buffers]
    <3>1. lock
      BY <1>1 DEF IInv, Locked
    <3>2. QED
      BY <1>1, <3>1 DEF IInv, Types, AreaTyped, Buffers, Inactive
  <2>2. CASE UNCHANGED <<buf, active>>
    BY <2>2 DEF Active
  <2>3. CASE ProcessStart \/ ProcessArea
    BY <2>1, <2>3 DEF ProcessStart, ProcessArea, Active
  <2>4. CASE ProcessEnd \/ Mark
    BY <2>1, <2>4 DEF ProcessEnd, Mark
  <2>5. QED
    <3>1. UNCHANGED <<buf, active>> \/ ProcessStart \/ ProcessArea \/ ProcessEnd \/ Mark
      BY <1>1 DEF Next, Gui, Processor, Rest, Scroll, AskUpdate, SetSizeCb, QueueDraw, OnDrawNothing,
                  OnDraw, Paint, SubmitStart, SubmitArea, SubmitEnd, UpdateNothing, Release, Renew,
                  vars, areaVars
    <3>2. QED
      BY <2>2, <2>3, <2>4, <3>1
<1>2. QED
  BY <1>1, IInvCorrect, PTL DEF Spec, FrameHolds

\* A position in view never goes back to an older image: the inactive buffer begins
\* with what the active one has (process_start) and only gets what is newer.
THEOREM NeverBackCorrect == Spec => NeverBack
<1>1. ASSUME IInv, [Next]_vars
      PROVE  \A p \in view \cap view' : screen[p] # 0 /\ screen'[p] # 0 => screen'[p] >= screen[p]
  <2> SUFFICES ASSUME NEW p \in view \cap view', screen[p] # 0, screen'[p] # 0
               PROVE  screen'[p] >= screen[p]
    OBVIOUS
  <2>1. p \in Positions
    BY <1>1, ViewsAssumption DEF IInv, Types, GtkTyped
  <2>2. screen[p] \in Nat
    BY <1>1, <2>1, PixelParts
  <2>3. ASSUME NEW v, NEW u, Show(v, u) PROVE screen'[p] = screen[p]
    BY <1>1, <2>1, <2>3 DEF Show
  <2>4. CASE Paint
    <3>1. screen'[p] = screen[p] \/ (p \in Active.rect /\ screen'[p] = Active.pix[p])
      BY <1>1, <2>1, <2>4 DEF Paint
    <3>2. QED
      BY <1>1, <2>2, <3>1 DEF IInv, ActiveNewer, Newer
  <2>5. CASE UNCHANGED screen
    BY <2>2, <2>5
  <2>6. (\E v, u : Show(v, u)) \/ Paint \/ UNCHANGED screen
    BY <1>1 DEF Next, Gui, Processor, Rest, Scroll, AskUpdate, SetSizeCb, QueueDraw, OnDrawNothing,
                OnDraw, SubmitStart, SubmitArea, SubmitEnd, ProcessStart, ProcessArea, ProcessEnd,
                Swap, UpdateNothing, Release, Renew, Mark, vars, gtkVars
  <2>7. QED
    BY <2>2, <2>3, <2>4, <2>5, <2>6
<1>2. QED
  BY <1>1, IInvCorrect, PTL DEF Spec, NeverBack
-----------------------------------------------------------------------------
(* No redraw is lost: what is not on the screen is to be drawn, or a signal, a     *)
(* drawing or a rebuild is on its way that has the window drawn.                   *)

EndComing ==
  gpc \in {"start", "area", "end"} \/ \E i \in 1 .. Len(queue) : queue[i].kind = "end"
Coming == pcP # "idle" \/ setSize \/ queueDraw \/ EndComing
Fresh ==
  Coming \/ lapse \/ \A p \in view \cap Extent(image) : screen[p] = image \/ p \in damage

\* Only the end of a drawing takes an end from the queue.
LEMMA EndStays ==
  ASSUME IInv, EndComing, UNCHANGED gpc,
         \/ queue' = queue
         \/ \E e \in Requests : queue' = Append(queue, e)
         \/ queue # <<>> /\ queue' = Tail(queue) /\ Head(queue).kind # "end"
  PROVE  EndComing'
<1> SUFFICES ASSUME NEW i \in 1 .. Len(queue), queue[i].kind = "end"
             PROVE  \E j \in 1 .. Len(queue') : queue'[j].kind = "end"
  BY DEF EndComing
<1>1. queue \in Seq(Requests)
  BY DEF IInv, Types, QueueTyped
<1>2. CASE queue' = queue
  BY <1>2
<1>3. ASSUME NEW e \in Requests, queue' = Append(queue, e)
      PROVE  \E j \in 1 .. Len(queue') : queue'[j].kind = "end"
  <2>1. i \in 1 .. Len(queue') /\ queue'[i] = queue[i]
    BY <1>1, <1>3, AppendParts
  <2>2. QED
    BY <2>1
<1>4. CASE queue # <<>> /\ queue' = Tail(queue) /\ Head(queue).kind # "end"
  <2>1. /\ Len(queue') \in Nat /\ Len(queue) = Len(queue') + 1 /\ Head(queue) = queue[1]
        /\ \A k \in 1 .. Len(queue') : queue'[k] = queue[k + 1]
    BY ZenonT(60), <1>1, <1>4, TailParts
  <2>2. i # 1
    BY <1>4, <2>1
  <2>3. i - 1 \in 1 .. Len(queue') /\ queue'[i - 1] = queue[i]
    BY <2>1, <2>2
  <2>4. QED
    BY SMTT(40), <2>3
<1>5. QED
  BY <1>2, <1>3, <1>4

\* A step that leaves the screen alone and loses nothing that is on its way.
LEMMA FreshKept ==
  ASSUME Fresh, Coming => Coming', UNCHANGED <<image, lapse, view, screen, damage>>
  PROVE  Fresh'
BY DEF Fresh, Extent, WidthOf

LEMMA NextFresh == IInv /\ Fresh /\ [Next]_vars => Fresh'
<1> SUFFICES ASSUME IInv, Fresh, [Next]_vars PROVE Fresh'
  OBVIOUS
<1>1. ASSUME NEW v, NEW u, Show(v, u), v \ view \subseteq u, UNCHANGED <<image, lapse>>,
             Coming' \/ ~Coming \/ v \subseteq u
      PROVE  Fresh'
  <2> SUFFICES ASSUME ~Coming', ~lapse, NEW p \in v \cap Extent(image)
               PROVE  screen'[p] = image \/ p \in damage'
    BY <1>1 DEF Fresh, Show, Extent, WidthOf
  <2>1. p \in Positions
    BY Constant DEF IInv, Types, AreaTyped
  <2>2. CASE p \in u
    BY <1>1, <2>2 DEF Show
  <2>3. CASE p \notin u
    <3>1. p \in view /\ ~Coming
      BY <1>1, <2>3
    <3>2. screen[p] = image \/ p \in damage
      BY <3>1 DEF Fresh
    <3>3. QED
      BY <1>1, <2>1, <3>1, <3>2 DEF Show
  <2>4. QED
    BY <2>2, <2>3
<1>2. ASSUME NEW v \in Views, Scroll(v) PROVE Fresh'
  <2>1. /\ Show(v, v \ view)
        /\ UNCHANGED <<image, lapse, queue, pcP, gpc, setSize, queueDraw>>
    BY <1>2 DEF Scroll, areaVars, procVars, drawVars, signals
  <2>2. Coming => Coming'
    BY <2>1 DEF Coming, EndComing
  <2>3. QED
    BY <1>1, <2>1, <2>2
<1>3. CASE AskUpdate
  <2>1. /\ UNCHANGED <<image, lapse, pcP, gpc, view, screen, damage, setSize, queueDraw>>
        /\ queue' = Append(queue, [kind |-> "update", area |-> {}, seen |-> 0])
    BY <1>3 DEF AskUpdate, Submit, areaVars, procVars, drawVars, gtkVars, signals
  <2>2. [kind |-> "update", area |-> {}, seen |-> 0] \in Requests
    BY Constant DEF Requests, Kinds, Pixels
  <2>3. EndComing => EndComing'
    BY <2>1, <2>2, EndStays
  <2>4. QED
    BY <2>1, <2>3, FreshKept DEF Coming
<1>4. CASE SetSizeCb
  <2>1. PICK v \in Views : Show(v, v)
    BY <1>4 DEF SetSizeCb
  <2>2. QED
    BY <1>1, <1>4, <2>1 DEF SetSizeCb, areaVars, procVars
<1>5. CASE QueueDraw
  BY <1>5 DEF QueueDraw, Fresh
<1>6. CASE OnDrawNothing
  <2>1. Extent(image') = {}
    BY <1>6 DEF OnDrawNothing, areaVars, Extent, WidthOf
  <2>2. QED
    BY <2>1 DEF Fresh
<1>7. CASE OnDraw
  BY <1>7, FreshKept DEF OnDraw, procVars, gtkVars, signals, Coming, EndComing
<1>8. CASE Paint
  <2>1. /\ gpc = "paint"
        /\ UNCHANGED <<image, buf, active, queue, pcP, lapse, view, setSize, queueDraw>>
        /\ gpc' = IF RepaintNeeded THEN "start" ELSE "idle"
        /\ screen' = [p \in Positions |->
             IF p \notin damage THEN screen[p]
             ELSE IF p \in Active.rect THEN Active.pix[p] ELSE 0]
    BY <1>8 DEF Paint, procVars, signals
  <2>2. SUFFICES ASSUME ~Coming', ~lapse, NEW p \in view \cap Extent(image)
                 PROVE  screen'[p] = image
    BY <2>1 DEF Fresh, Extent, WidthOf
  <2>3. ~Coming /\ pcP = "idle" /\ ~RepaintNeeded
    BY <2>1, <2>2 DEF Coming, EndComing
  <2>4. p \in Positions /\ Extent(image) \subseteq Positions
    BY Constant DEF IInv, Types, AreaTyped
  <2>5. CASE p \notin damage
    BY <2>1, <2>2, <2>3, <2>4, <2>5 DEF Fresh
  <2>6. CASE p \in damage
    <3>1. p \in Hull(damage)
      BY <2>4, <2>6, SizesAssumption DEF Hull, Positions
    <3>2. p \in Active.rect /\ ~Active.dirty
      BY <2>3, <3>1 DEF RepaintNeeded
    <3>3. Active.pix[p] = image
      BY <2>2, <2>3, <3>2 DEF IInv, CleanIsNew
    <3>4. QED
      BY <2>1, <2>4, <2>6, <3>2, <3>3
  <2>7. QED
    BY <2>5, <2>6
<1>9. CASE SubmitStart \/ SubmitArea
  <2>1. gpc' \in {"area", "end"}
    BY <1>9 DEF SubmitStart, SubmitArea
  <2>2. QED
    BY <2>1 DEF Fresh, Coming, EndComing
<1>10. CASE SubmitEnd
  <2>1. queue' = Append(queue, [kind |-> "end", area |-> total, seen |-> seen])
    BY <1>10 DEF SubmitEnd, Submit
  <2>2. [kind |-> "end", area |-> total, seen |-> seen] \in Requests
    BY DEF Requests, Kinds, IInv, Types, DrawTyped
  <2>3. /\ Len(queue) + 1 \in 1 .. Len(queue')
        /\ queue'[Len(queue) + 1] = [kind |-> "end", area |-> total, seen |-> seen]
    BY <2>1, <2>2, AppendParts DEF IInv, Types, QueueTyped
  <2>4. QED
    BY <2>3 DEF Fresh, Coming, EndComing
<1>11. CASE ProcessStart \/ ProcessArea \/ UpdateNothing
  <2>1. /\ UNCHANGED <<image, lapse, pcP, gpc, view, screen, damage, setSize, queueDraw>>
        /\ queue # <<>> /\ queue' = Tail(queue) /\ Head(queue).kind # "end"
    BY <1>11 DEF ProcessStart, ProcessArea, UpdateNothing, Serve, areaVars, procVars, drawVars,
                 gtkVars, signals
  <2>2. EndComing => EndComing'
    BY <2>1, EndStays
  <2>3. QED
    BY <2>1, <2>2, FreshKept DEF Coming
<1>12. CASE ProcessEnd
  BY <1>12 DEF ProcessEnd, Swap, Fresh, Coming
<1>13. CASE Release \/ Renew
  <2>1. pcP' \in {"replace", "mark"}
    BY <1>13 DEF Release, Renew
  <2>2. QED
    BY <2>1 DEF Fresh, Coming
<1>14. CASE Mark
  BY <1>14 DEF Mark, Fresh, Coming
<1>15. CASE UNCHANGED vars
  BY <1>15, FreshKept
     DEF vars, areaVars, procVars, drawVars, gtkVars, signals, Coming, EndComing
<1>16. QED
  BY <1>2, <1>3, <1>4, <1>5, <1>6, <1>7, <1>8, <1>9, <1>10, <1>11, <1>12, <1>13, <1>14, <1>15
     DEF Next, Gui, Processor, Rest

\* No order of draws, scrolls and rebuilds loses the last redraw: when nobody has
\* anything left to do, the window shows the newest image (ImageArea::update marks the
\* buffers before it announces the size, process_end swaps before it has them drawn).
THEOREM AtRestIsNewCorrect == Spec => []AtRestIsNew
<1>1. Init => Fresh
  BY DEF Init, Fresh, Extent, WidthOf
<1>2. IInv /\ Fresh => AtRestIsNew
  <2> SUFFICES ASSUME Fresh, gpc = "idle", damage = {}, ~setSize, ~queueDraw, pcP = "idle",
                      queue = <<>>, ~lapse
               PROVE  \A p \in view \cap Extent(image) : screen[p] = image
    BY DEF AtRestIsNew
  <2>1. ~Coming
    BY DEF Coming, EndComing
  <2>2. QED
    BY <2>1 DEF Fresh
<1>3. QED
  BY <1>1, <1>2, NextFresh, IInvCorrect, PTL DEF Spec
=============================================================================
