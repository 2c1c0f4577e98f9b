----------------------------- MODULE QueueProofs ----------------------------
(***************************************************************************)
(* What becomes of the requests of ImageProcessor, for any images,         *)
(* pipelines and operations: what the walk of optimize_requests may lose,  *)
(* and what remove_image_from_queue leaves in the queue (QueueForgets).    *)
(***************************************************************************)
EXTENDS ImageProcessorProofs

-----------------------------------------------------------------------------
(* The numbers in a sequence *)

LEMMA SetOfEmpty == ToSet(<<>>) = {}
BY DEF ToSet

LEMMA SetOfOne ==
  ASSUME NEW k
  PROVE  ToSet(<<k>>) = {k}
BY DEF ToSet

LEMMA SetOfAppend ==
  ASSUME NEW s \in Seq(Nat), NEW k \in Nat
  PROVE  ToSet(Append(s, k)) = ToSet(s) \cup {k}
<1>1. /\ DOMAIN s = 1 .. Len(s) /\ Len(s) \in Nat
      /\ DOMAIN Append(s, k) = 1 .. Len(s) + 1 /\ Append(s, k)[Len(s) + 1] = k
      /\ \A n \in 1 .. Len(s) : Append(s, k)[n] = s[n]
  BY AppendProperties
<1> DEFINE a == Append(s, k)
<1> HIDE DEF a
<1>2. ToSet(a) \subseteq ToSet(s) \cup {k}
  BY <1>1 DEF ToSet, a
<1>3. ToSet(s) \subseteq ToSet(a)
  BY <1>1 DEF ToSet, a
<1>4. k \in ToSet(a)
  BY <1>1 DEF ToSet, a
<1>5. QED
  BY <1>2, <1>3, <1>4 DEF a

LEMMA SetOfTail ==
  ASSUME NEW s \in Seq(Nat), s # <<>>
  PROVE  /\ ToSet(s) = {Head(s)} \cup ToSet(Tail(s))
         /\ Head(s) \in Nat /\ Tail(s) \in Seq(Nat)
<1>1. /\ Len(s) \in Nat \ {0} /\ Head(s) = s[1] /\ Head(s) \in Nat
      /\ Tail(s) \in Seq(Nat) /\ Len(Tail(s)) = Len(s) - 1
      /\ \A n \in 1 .. (Len(s) - 1) : Tail(s)[n] = s[n + 1]
  BY HeadTail
<1>2. DOMAIN s = 1 .. Len(s) /\ DOMAIN Tail(s) = 1 .. Len(s) - 1
  BY <1>1
<1> DEFINE t == Tail(s)
<1> HIDE DEF t
<1>3. \A n \in 1 .. Len(s) : n = 1 \/ (n - 1 \in 1 .. Len(s) - 1 /\ t[n - 1] = s[n])
  BY <1>1 DEF t
<1>4. ToSet(s) \subseteq {s[1]} \cup ToSet(t)
  <2>1. ASSUME NEW n \in 1 .. Len(s), n # 1 PROVE s[n] \in ToSet(t)
    BY <1>1, <1>2, <1>3, <2>1 DEF ToSet, t
  <2>2. QED
    BY <1>2, <2>1 DEF ToSet
<1>5. ToSet(t) \subseteq ToSet(s)
  <2>1. ASSUME NEW n \in 1 .. Len(s) - 1 PROVE t[n] = s[n + 1] /\ n + 1 \in 1 .. Len(s)
    BY <1>1 DEF t
  <2>2. QED
    BY <1>2, <2>1 DEF ToSet, t
<1>6. s[1] \in ToSet(s)
  BY <1>1, <1>2 DEF ToSet
<1>7. QED
  BY <1>1, <1>4, <1>5, <1>6 DEF t

LEMMA SetOfFront ==
  ASSUME NEW s \in Seq(Nat), s # <<>>
  PROVE  /\ ToSet(s) = ToSet(Front(s)) \cup {Last(s)}
         /\ Last(s) \in Nat /\ Front(s) \in Seq(Nat)
<1>1. /\ Len(s) \in Nat \ {0} /\ Last(s) = s[Len(s)] /\ Last(s) \in Nat
      /\ Front(s) \in Seq(Nat) /\ Len(Front(s)) = Len(s) - 1
      /\ \A n \in 1 .. (Len(s) - 1) : Front(s)[n] = s[n]
  BY FrontLast
<1>2. DOMAIN s = 1 .. Len(s) /\ DOMAIN Front(s) = 1 .. Len(s) - 1
  BY <1>1
<1> DEFINE t == Front(s)
<1> HIDE DEF t
<1>3. ToSet(s) \subseteq ToSet(t) \cup {s[Len(s)]}
  <2>1. ASSUME NEW n \in 1 .. Len(s), n # Len(s) PROVE s[n] \in ToSet(t)
    <3>1. n \in 1 .. Len(s) - 1
      BY <1>1, <2>1
    <3>2. t[n] = s[n]
      BY <1>1, <3>1 DEF t
    <3>3. QED
      BY <1>2, <3>1, <3>2 DEF ToSet, t
  <2>2. QED
    BY <1>2, <2>1, Zenon DEF ToSet
<1>4. ToSet(t) \subseteq ToSet(s)
  BY SMTT(40), <1>1, <1>2 DEF ToSet, t
<1>5. s[Len(s)] \in ToSet(s)
  BY SMTT(40), <1>1, <1>2 DEF ToSet
<1>6. QED
  BY <1>1, <1>3, <1>4, <1>5 DEF t

LEMMA SetOfCons ==
  ASSUME NEW s \in Seq(Nat), NEW k \in Nat
  PROVE  ToSet(<<k>> \o s) = {k} \cup ToSet(s)
<1> DEFINE t == <<k>> \o s
<1>1. /\ Len(s) \in Nat /\ t \in Seq(Nat) /\ Len(t) = Len(s) + 1 /\ t[1] = k
      /\ \A n \in 1 .. Len(s) : t[n + 1] = s[n]
  BY ConcatProperties
<1>2. DOMAIN s = 1 .. Len(s) /\ DOMAIN t = 1 .. Len(s) + 1
  BY <1>1
<1> HIDE DEF t
<1>3. ToSet(t) \subseteq {k} \cup ToSet(s)
  <2>1. ASSUME NEW n \in 1 .. Len(s) + 1, n # 1 PROVE t[n] \in ToSet(s)
    <3>1. PICK m \in 1 .. Len(s) : n = m + 1
      <4>1. n - 1 \in 1 .. Len(s) /\ n = (n - 1) + 1
        BY <1>1, <2>1
      <4>2. QED
        BY <4>1
    <3>2. t[n] = s[m]
      BY <1>1, <3>1
    <3>3. QED
      BY <1>2, <3>2 DEF ToSet
  <2>2. QED
    BY SMTT(40), <1>1, <1>2, <2>1 DEF ToSet
<1>4. ToSet(s) \subseteq ToSet(t)
  <2>1. ASSUME NEW n \in 1 .. Len(s) PROVE s[n] = t[n + 1] /\ n + 1 \in 1 .. Len(s) + 1
    BY <1>1
  <2>2. QED
    BY <1>2, <2>1 DEF ToSet
<1>5. k \in ToSet(t)
  BY <1>1, <1>2 DEF ToSet
<1>6. QED
  BY <1>3, <1>4, <1>5 DEF t

-----------------------------------------------------------------------------
(* The stages of the processor *)

\* What the processor has in hand at each stage of its loop, whatever the GUI thread
\* does.
Stages ==
  /\ pc \in {"pop", "length", "more"} => batch = <<>>
  /\ pc \notin {"length", "more", "scan"} => temp = <<>>
  /\ pc \in {"unlock", "signal"} => cur \in ToSet(handled)
  /\ pc \notin {"lock", "work", "unlock", "signal"} => cur = 0

LEMMA StagesInit == Init => Stages
BY DEF Init, Stages

LEMMA StagesStep == TypeOK /\ Stages /\ [Next]_vars => Stages'
<1> SUFFICES ASSUME TypeOK, Stages, [Next]_vars PROVE Stages'
  OBVIOUS
<1>1. CASE UNCHANGED proc
  BY <1>1 DEF Stages, proc
<1>2. CASE PopFirst \/ QueueLength \/ PopMore
  BY <1>2 DEF PopFirst, QueueLength, PopMore, Stages
<1>3. CASE Scan
  <2>1. temp \in Seq(Nat) /\ temp # <<>>
    BY <1>3 DEF Scan, TypeOK
  <2>2. Len(temp) = 1 => Front(temp) = <<>>
    BY <2>1, FrontLast, EmptySeq
  <2>3. QED
    BY <1>3, <2>2 DEF Scan, Stages
<1>4. CASE Dequeue \/ LockImage \/ EndBatch
  BY <1>4 DEF Dequeue, LockImage, EndBatch, Stages
<1>5. CASE HandleLocked \/ HandleUnlocked
  <2>1. handled \in Seq(Nat) /\ cur \in Nat /\ handled' = Append(handled, cur)
    BY <1>5 DEF HandleLocked, HandleUnlocked, Handled, TypeOK
  <2>2. cur \in ToSet(handled')
    BY <2>1, SetOfAppend
  <2>3. QED
    BY <1>5, <2>2 DEF HandleLocked, HandleUnlocked, Stages
<1>6. CASE UnlockImage \/ SignalExport
  BY <1>6 DEF UnlockImage, SignalExport, Stages
<1>7. QED
  <2>1. Gui \/ Operation \/ Rest \/ UNCHANGED vars => UNCHANGED proc
    BY ZenonT(60) DEF Gui, Clear, Push, Reset, Wait, Lock, Unlock, Sample, Settle, DrainLength, DrainPop,
           DrainPush, DrainEnd, Destroy, Join, Operation, Open, LockedUpdate, MoveLayer, RemoveLayer,
           Export, Close, Update, SyncUpdate, Zoom, SpotWB, Redraw, Quit, Begin, Rest, vars
  <2>2. QED
    BY SMTT(40), <1>1, <1>2, <1>3, <1>4, <1>5, <1>6, <2>1 DEF Next, Processor

-----------------------------------------------------------------------------
(* What a step keeps *)

places == <<queue, temp, batch, cur, hand, handled>>

LEMMA KeptUnchanged ==
  ASSUME UNCHANGED places
  PROVE  Kept' = Kept
BY DEF places, Kept, InFlight

\* A step other than one that drops a request or deletes it keeps all requests.
LEMMA KeptGrows ==
  ASSUME TypeOK, Stages, [Next]_vars, ~Scan, ~DrainPop
  PROVE  \A k \in Kept : k # 0 => k \in Kept'
<1>1. /\ queue \in Seq(Nat) /\ temp \in Seq(Nat) /\ batch \in Seq(Nat) /\ handled \in Seq(Nat)
      /\ cur \in Nat /\ hand \in Nat
  BY DEF TypeOK
<1>2. CASE UNCHANGED places
  BY <1>2, KeptUnchanged
<1>3. CASE PopFirst \/ PopMore
  <2>1. /\ queue # <<>> /\ queue' = Tail(queue) /\ UNCHANGED <<batch, cur, hand, handled>>
        /\ temp' = Append(temp, Head(queue)) \/ (temp = <<>> /\ temp' = <<Head(queue)>>)
    BY <1>3 DEF PopFirst, PopMore, Stages, gui
  <2>2. ToSet(queue) = {Head(queue)} \cup ToSet(queue') /\ Head(queue) \in Nat
    BY <1>1, <2>1, SetOfTail
  <2>3. ToSet(temp') = ToSet(temp) \cup {Head(queue)}
    BY <1>1, <2>1, <2>2, SetOfAppend, SetOfOne, SetOfEmpty
  <2>4. QED
    BY <2>1, <2>2, <2>3 DEF Kept, InFlight
<1>4. CASE Dequeue
  <2>1. /\ batch # <<>> /\ cur = 0 /\ cur' = Head(batch) /\ batch' = Tail(batch)
        /\ UNCHANGED <<queue, temp, hand, handled>>
    BY <1>4 DEF Dequeue, Stages, shared, gui
  <2>2. ToSet(batch) = {Head(batch)} \cup ToSet(batch')
    BY <1>1, <2>1, SetOfTail
  <2>3. QED
    BY <2>1, <2>2 DEF Kept, InFlight
<1>5. CASE HandleLocked \/ HandleUnlocked
  <2>1. /\ handled' = Append(handled, cur) /\ UNCHANGED <<queue, temp, batch, hand>>
    BY <1>5 DEF HandleLocked, HandleUnlocked, Handled, shared, gui
  <2>2. ToSet(handled') = ToSet(handled) \cup {cur}
    BY <1>1, <2>1, SetOfAppend
  <2>3. QED
    BY <2>1, <2>2 DEF Kept, InFlight
<1>6. CASE UnlockImage \/ SignalExport
  <2>1. cur \in ToSet(handled) /\ UNCHANGED <<queue, temp, batch, hand, handled>>
    BY <1>6 DEF UnlockImage, SignalExport, Stages, gui
  <2>2. QED
    BY <2>1 DEF Kept, InFlight
<1>7. CASE Push
  <2>1. queue' = Append(queue, Len(reqs) + 1) /\ UNCHANGED <<temp, batch, cur, hand, handled>>
    BY <1>7 DEF Push, proc
  <2>2. Len(reqs) + 1 \in Nat
    BY LenProperties DEF TypeOK
  <2>3. ToSet(queue') = ToSet(queue) \cup {Len(reqs) + 1}
    BY <1>1, <2>1, <2>2, SetOfAppend
  <2>4. QED
    BY <2>1, <2>3 DEF Kept, InFlight
<1>8. CASE DrainPush
  <2>1. queue' = Append(queue, hand) /\ UNCHANGED <<temp, batch, cur, handled>>
    BY <1>8 DEF DrainPush, proc
  <2>2. ToSet(queue') = ToSet(queue) \cup {hand}
    BY <1>1, <2>1, SetOfAppend
  <2>3. QED
    BY <2>1, <2>2 DEF Kept, InFlight
<1>9. QED
  <2>1. QueueLength \/ LockImage \/ EndBatch => UNCHANGED places
    BY DEF QueueLength, LockImage, EndBatch, shared, gui, places
  <2>2. Clear \/ Reset \/ Wait \/ Lock \/ Unlock \/ Sample \/ Settle \/ DrainLength \/ DrainEnd
          \/ Destroy \/ Join => UNCHANGED places
    BY DEF Clear, Reset, Wait, Lock, Unlock, Sample, Settle, DrainLength, DrainEnd, Destroy, Join,
           shared, proc, places
  <2>3. Operation \/ Rest \/ UNCHANGED vars => UNCHANGED places
    BY ZenonT(60) DEF Operation, Open, LockedUpdate, MoveLayer, RemoveLayer, Export, Close, Update, SyncUpdate,
           Zoom, SpotWB, Redraw, Quit, Begin, Rest, vars, shared, proc, gui, places
  <2>4. QED
    BY <1>2, <1>3, <1>4, <1>5, <1>6, <1>7, <1>8, <2>1, <2>2, <2>3 DEF Next, Gui, Processor

\* Only Push touches the requests.
LEMMA ReqsSame ==
  ASSUME [Next]_vars, ~Push
  PROVE  reqs' = reqs
<1>1. Processor => reqs' = reqs
  BY DEF Processor, PopFirst, QueueLength, PopMore, Scan, Dequeue, LockImage, HandleLocked, UnlockImage,
         SignalExport, HandleUnlocked, EndBatch, shared
<1>2. Gui => reqs' = reqs
  BY DEF Gui, Clear, Reset, Wait, Lock, Unlock, Sample, Settle, DrainLength, DrainPop, DrainPush,
         DrainEnd, Destroy, Join, shared
<1>3. Operation \/ Rest \/ UNCHANGED vars => reqs' = reqs
  BY ZenonT(60) DEF Operation, Open, LockedUpdate, MoveLayer, RemoveLayer, Export, Close, Update, SyncUpdate,
         Zoom, SpotWB, Redraw, Quit, Begin, Rest, vars, shared
<1>4. QED
  BY <1>1, <1>2, <1>3 DEF Next

\* A request that is submitted is kept, and the ones before it stay as they are.
LEMMA Submits ==
  ASSUME TypeOK, Push
  PROVE  /\ Len(reqs) \in Nat /\ Len(reqs') = Len(reqs) + 1 /\ Len(reqs) + 1 \in Kept'
         /\ \A k \in 1 .. Len(reqs) : reqs'[k] = reqs[k]
<1>1. /\ reqs \in Seq(Request) /\ Len(reqs) \in Nat /\ reqs' = Append(reqs, Head(todo).req)
      /\ queue \in Seq(Nat) /\ queue' = Append(queue, Len(reqs) + 1)
  BY LenProperties DEF TypeOK, Push
<1>2. ToSet(queue') = ToSet(queue) \cup {Len(reqs) + 1}
  BY <1>1, SetOfAppend
<1>3. QED
  BY <1>1, <1>2 DEF Kept, InFlight

\* So a request is gone after such a step only if it was before.
LEMMA GoneKept ==
  ASSUME TypeOK, Stages, [Next]_vars, ~Scan, ~DrainPop
  PROVE  /\ Gone' \subseteq Gone
         /\ \A k \in 1 .. Len(reqs) : reqs'[k] = reqs[k]
<1>1. CASE Push
  BY <1>1, KeptGrows, Submits DEF Gone
<1>2. CASE ~Push
  <2>1. reqs' = reqs
    BY <1>2, ReqsSame
  <2>2. QED
    BY <2>1, KeptGrows DEF Gone
<1>3. QED
  BY <1>1, <1>2

\* Nothing comes in flight but a request that was, or the one just submitted.
LEMMA FlightFrom ==
  ASSUME TypeOK, [Next]_vars
  PROVE  /\ ~Push => InFlight' \subseteq InFlight
         /\ Push => InFlight' \subseteq InFlight \cup {Len(reqs) + 1}
<1>1. /\ queue \in Seq(Nat) /\ temp \in Seq(Nat) /\ batch \in Seq(Nat)
      /\ cur \in Nat /\ hand \in Nat
  BY DEF TypeOK
<1>2. CASE UNCHANGED places
  BY <1>2 DEF places, InFlight
<1>3. CASE PopFirst \/ PopMore
  <2>1. /\ queue # <<>> /\ queue' = Tail(queue) /\ UNCHANGED <<batch, cur, hand>>
        /\ temp' = Append(temp, Head(queue)) \/ temp' = <<Head(queue)>>
    BY <1>3 DEF PopFirst, PopMore, gui
  <2>2. ToSet(queue) = {Head(queue)} \cup ToSet(queue') /\ Head(queue) \in Nat
    BY <1>1, <2>1, SetOfTail
  <2>3. ToSet(temp') \subseteq ToSet(temp) \cup {Head(queue)}
    BY <1>1, <2>1, <2>2, SetOfAppend, SetOfOne
  <2>4. QED
    BY <2>1, <2>2, <2>3 DEF InFlight
<1>4. CASE Scan
  <2>0. PICK d : d = Last(temp)
    OBVIOUS
  <2>1. /\ temp # <<>> /\ temp' = Front(temp) /\ UNCHANGED <<queue, cur, hand>>
        /\ batch' = batch \/ batch' = <<d>> \o batch
    BY <1>4, <2>0 DEF Scan, PushFront, TypeOK, shared, gui
  <2>2. ToSet(temp) = ToSet(temp') \cup {d} /\ d \in Nat
    BY <1>1, <2>0, <2>1, SetOfFront
  <2>a. batch' = <<d>> \o batch => ToSet(batch') = {d} \cup ToSet(batch)
    BY <1>1, <2>2, SetOfCons
  <2>3. ToSet(batch') \subseteq ToSet(batch) \cup {d}
    BY <2>1, <2>a
  <2>4. QED
    BY <2>1, <2>2, <2>3 DEF InFlight
<1>5. CASE Dequeue
  <2>1. /\ batch # <<>> /\ cur' = Head(batch) /\ batch' = Tail(batch)
        /\ UNCHANGED <<queue, temp, hand>>
    BY <1>5 DEF Dequeue, shared, gui
  <2>2. ToSet(batch) = {Head(batch)} \cup ToSet(batch')
    BY <1>1, <2>1, SetOfTail
  <2>3. QED
    BY <2>1, <2>2 DEF InFlight
<1>6. CASE HandleLocked \/ HandleUnlocked \/ UnlockImage \/ SignalExport
  <2>1. UNCHANGED <<queue, temp, batch, hand>> /\ cur' \in {cur, 0}
    BY <1>6 DEF HandleLocked, HandleUnlocked, UnlockImage, SignalExport, shared, gui
  <2>2. QED
    BY <2>1 DEF InFlight
<1>7. CASE Push
  <2>1. queue' = Append(queue, Len(reqs) + 1) /\ UNCHANGED <<temp, batch, cur, hand>>
    BY <1>7 DEF Push, proc
  <2>2. Len(reqs) + 1 \in Nat
    BY LenProperties DEF TypeOK
  <2>3. ToSet(queue') = ToSet(queue) \cup {Len(reqs) + 1}
    BY <1>1, <2>1, <2>2, SetOfAppend
  <2>4. QED
    BY <1>7, <2>1, <2>3 DEF InFlight
<1>8. CASE DrainPop
  <2>1. /\ queue # <<>> /\ queue' = Tail(queue) /\ hand' \in {0, Head(queue)}
        /\ UNCHANGED <<temp, batch, cur>>
    BY <1>8 DEF DrainPop, proc
  <2>2. ToSet(queue) = {Head(queue)} \cup ToSet(queue')
    BY <1>1, <2>1, SetOfTail
  <2>3. QED
    BY <2>1, <2>2 DEF InFlight
<1>9. CASE DrainPush
  <2>1. hand # 0 /\ queue' = Append(queue, hand) /\ hand' = 0 /\ UNCHANGED <<temp, batch, cur>>
    BY <1>9 DEF DrainPush, proc
  <2>2. ToSet(queue') = ToSet(queue) \cup {hand}
    BY <1>1, <2>1, SetOfAppend
  <2>3. QED
    BY <2>1, <2>2 DEF InFlight
<1>10. QED
  <2>1. QueueLength \/ LockImage \/ EndBatch => UNCHANGED places
    BY DEF QueueLength, LockImage, EndBatch, shared, gui, places
  <2>2. Clear \/ Reset \/ Wait \/ Lock \/ Unlock \/ Sample \/ Settle \/ DrainLength \/ DrainEnd
          \/ Destroy \/ Join => UNCHANGED places
    BY DEF Clear, Reset, Wait, Lock, Unlock, Sample, Settle, DrainLength, DrainEnd, Destroy, Join,
           shared, proc, places
  <2>3. Operation \/ Rest \/ UNCHANGED vars => UNCHANGED places
    BY ZenonT(60) DEF Operation, Open, LockedUpdate, MoveLayer, RemoveLayer, Export, Close, Update, SyncUpdate,
           Zoom, SpotWB, Redraw, Quit, Begin, Rest, vars, shared, proc, gui, places
  <2>4. QED
    BY <1>2, <1>3, <1>4, <1>5, <1>6, <1>7, <1>8, <1>9, <2>1, <2>2, <2>3 DEF Next, Gui, Processor

\* Every number a thread holds is that of a request submitted.
Numbered ==
  /\ Kept \subseteq 1 .. Len(reqs)
  /\ pc \in {"lock", "work"} => cur \in 1 .. Len(reqs)

LEMMA NumberedInit == Init => Numbered
BY SetOfEmpty DEF Init, Numbered, Kept, InFlight

LEMMA NumberedStep == TypeOK /\ Numbered /\ [Next]_vars => Numbered'
<1> SUFFICES ASSUME TypeOK, Numbered, [Next]_vars PROVE Numbered'
  OBVIOUS
<1>1. Len(reqs) \in Nat
  BY LenProperties DEF TypeOK
<1>2. InFlight' \subseteq 1 .. Len(reqs')
  <2>1. CASE Push
    <3>1. Len(reqs') = Len(reqs) + 1
      BY <2>1, Submits
    <3>2. InFlight' \subseteq InFlight \cup {Len(reqs) + 1} /\ InFlight \subseteq 1 .. Len(reqs)
      BY <2>1, FlightFrom DEF Numbered, Kept
    <3>3. QED
      BY <1>1, <3>1, <3>2
  <2>2. CASE ~Push
    <3>1. Len(reqs') = Len(reqs)
      BY <2>2, ReqsSame
    <3>2. InFlight' \subseteq InFlight /\ InFlight \subseteq 1 .. Len(reqs)
      BY <2>2, FlightFrom DEF Numbered, Kept
    <3>3. QED
      BY <3>1, <3>2
  <2>3. QED
    BY <2>1, <2>2
<1>3. Len(reqs) <= Len(reqs') /\ Len(reqs') \in Nat
  BY <1>1, Submits, ReqsSame
<1>4. ToSet(handled') \subseteq 1 .. Len(reqs')
  <2>1. handled' = handled \/ (handled' = Append(handled, cur) /\ pc = "work")
    <3>1. Processor => handled' = handled \/ (handled' = Append(handled, cur) /\ pc = "work")
      BY DEF Processor, PopFirst, QueueLength, PopMore, Scan, Dequeue, LockImage, HandleLocked,
             UnlockImage, SignalExport, HandleUnlocked, EndBatch, Handled
    <3>2. Gui => handled' = handled
      BY DEF Gui, Clear, Push, Reset, Wait, Lock, Unlock, Sample, Settle, DrainLength, DrainPop,
             DrainPush, DrainEnd, Destroy, Join, proc
    <3>3. Operation \/ Rest \/ UNCHANGED vars => handled' = handled
      BY ZenonT(60) DEF Operation, Open, LockedUpdate, MoveLayer, RemoveLayer, Export, Close, Update,
             SyncUpdate, Zoom, SpotWB, Redraw, Quit, Begin, Rest, vars, proc
    <3>4. QED
      BY <3>1, <3>2, <3>3 DEF Next
  <2>2. ToSet(handled) \subseteq 1 .. Len(reqs)
    BY DEF Numbered, Kept
  <2>3. CASE handled' = Append(handled, cur) /\ pc = "work"
    <3>1. cur \in 1 .. Len(reqs) /\ cur \in Nat /\ handled \in Seq(Nat)
      BY <2>3 DEF Numbered, TypeOK
    <3>2. ToSet(handled') = ToSet(handled) \cup {cur}
      BY <2>3, <3>1, SetOfAppend
    <3>3. QED
      BY <1>1, <1>3, <2>2, <3>1, <3>2
  <2>4. QED
    BY <1>1, <1>3, <2>1, <2>2, <2>3
<1>5. pc' \in {"lock", "work"} => cur' \in 1 .. Len(reqs')
  <2>1. CASE Dequeue
    <3>1. batch \in Seq(Nat) /\ batch # <<>> /\ cur' = Head(batch)
      BY <2>1 DEF Dequeue, TypeOK
    <3>2. cur' \in ToSet(batch)
      BY <3>1, SetOfTail
    <3>3. cur' \in 1 .. Len(reqs)
      BY <3>2 DEF Numbered, Kept, InFlight
    <3>4. QED
      BY <1>1, <1>3, <3>3
  <2>2. CASE ~Dequeue
    <3>1. pc' \in {"lock", "work"} => pc \in {"lock", "work"} /\ cur' = cur
      <4>1. Processor => (pc' \in {"lock", "work"} => pc \in {"lock", "work"} /\ cur' = cur)
        BY <2>2 DEF Processor, PopFirst, QueueLength, PopMore, Scan, LockImage, HandleLocked,
               UnlockImage, SignalExport, HandleUnlocked, EndBatch
      <4>2. Gui => pc' = pc /\ cur' = cur
        BY DEF Gui, Clear, Push, Reset, Wait, Lock, Unlock, Sample, Settle, DrainLength, DrainPop,
               DrainPush, DrainEnd, Destroy, Join, proc
      <4>3. Operation \/ Rest \/ UNCHANGED vars => pc' = pc /\ cur' = cur
        BY ZenonT(60) DEF Operation, Open, LockedUpdate, MoveLayer, RemoveLayer, Export, Close, Update,
               SyncUpdate, Zoom, SpotWB, Redraw, Quit, Begin, Rest, vars, proc
      <4>4. QED
        BY <4>1, <4>2, <4>3 DEF Next
    <3>2. QED
      BY <1>1, <1>3, <3>1 DEF Numbered
  <2>3. QED
    BY <2>1, <2>2
<1>6. QED
  BY <1>2, <1>4, <1>5 DEF Numbered, Kept

-----------------------------------------------------------------------------
(* optimize_requests *)

\* rebuild_found tells the truth about the batch.
Found ==
  /\ pc = "scan" /\ rebuild_found => \E j \in ToSet(batch) : reqs[j].kind = "REBUILD"
  /\ pc = "more" => ~rebuild_found

\* A turn of the walk loses at most the request it has reached, a rebuild, and only when
\* the batch holds another.
LEMMA ScanLoses ==
  ASSUME TypeOK, Numbered, Found, Scan, NEW d, d = Last(temp)
  PROVE  /\ d \in 1 .. Len(reqs) /\ d \in ToSet(temp)
         /\ ToSet(batch) \subseteq Kept'
         /\ \A k \in Kept : k \in Kept' \/ k = d
         /\ \/ d \in Kept'
            \/ /\ reqs[d].kind = "REBUILD"
               /\ \E j \in ToSet(batch) : reqs[j].kind = "REBUILD"
<1>1. /\ temp \in Seq(Nat) /\ temp # <<>> /\ batch \in Seq(Nat) /\ pc = "scan"
      /\ temp' = Front(temp) /\ UNCHANGED <<queue, cur, hand, handled>>
      /\ \/ batch' = <<d>> \o batch
         \/ batch' = batch /\ rebuild_found /\ reqs[d].kind = "REBUILD"
  BY DEF TypeOK, Scan, PushFront, Redundant, shared, gui
<1>2. ToSet(temp) = ToSet(temp') \cup {d} /\ d \in Nat
  BY <1>1, SetOfFront
<1>3. d \in 1 .. Len(reqs) /\ d \in ToSet(temp)
  BY <1>2 DEF Numbered, Kept, InFlight
<1>4. batch' = <<d>> \o batch => ToSet(batch') = {d} \cup ToSet(batch)
  BY <1>1, <1>2, SetOfCons
<1>5. ToSet(batch) \subseteq ToSet(batch')
  BY <1>1, <1>4
<1>6. \A k \in Kept : k \in Kept' \/ k = d
  BY <1>1, <1>2, <1>5 DEF Kept, InFlight
<1>7. ToSet(batch) \subseteq Kept'
  BY <1>5 DEF Kept, InFlight
<1>8. CASE batch' = <<d>> \o batch
  <2>1. d \in Kept'
    BY <1>4, <1>8 DEF Kept, InFlight
  <2>2. QED
    BY <1>3, <1>6, <1>7, <2>1
<1>9. CASE rebuild_found /\ reqs[d].kind = "REBUILD"
  BY <1>1, <1>3, <1>6, <1>7, <1>9 DEF Found
<1>10. QED
  BY <1>1, <1>8, <1>9

\* The walk keeps rebuild_found true to the batch, and the other steps do not meet it.
LEMMA FoundStep ==
  ASSUME TypeOK, Stages, Numbered, Found, [Next]_vars
  PROVE  Found'
<1>1. CASE Scan
  <2>1. PICK d : d = Last(temp)
    OBVIOUS
  <2>2. /\ temp \in Seq(Nat) /\ temp # <<>> /\ batch \in Seq(Nat)
        /\ rebuild_found' = (rebuild_found \/ reqs[d].kind = "REBUILD") /\ pc' # "more"
        /\ batch' = batch \/ batch' = <<d>> \o batch
        /\ ~rebuild_found /\ reqs[d].kind = "REBUILD" => batch' = <<d>> \o batch
        /\ pc = "scan"
    BY <1>1, <2>1 DEF Scan, PushFront, TypeOK
  <2>3. ToSet(temp) = ToSet(Front(temp)) \cup {d} /\ d \in Nat
    BY <2>1, <2>2, SetOfFront
  <2>4. d \in 1 .. Len(reqs) /\ ToSet(batch) \subseteq 1 .. Len(reqs)
    BY <2>3 DEF Numbered, Kept, InFlight
  <2>5. ToSet(batch) \subseteq ToSet(batch')
        /\ (batch' = <<d>> \o batch => d \in ToSet(batch'))
    BY ZenonT(60), <2>2, <2>3, SetOfCons
  <2>6. reqs' = reqs
    BY <1>1 DEF Scan, shared
  <2>7. CASE rebuild_found
    <3>1. PICK j \in ToSet(batch) : reqs[j].kind = "REBUILD"
      BY <2>2, <2>7 DEF Found
    <3>2. QED
      BY <2>2, <2>4, <2>5, <2>6, <3>1 DEF Found
  <2>8. CASE ~rebuild_found
    BY <2>2, <2>4, <2>5, <2>6, <2>8 DEF Found
  <2>9. QED
    BY <2>7, <2>8
<1>2. CASE ~Scan
  <2>1. \/ pc' \notin {"scan", "more"}
        \/ rebuild_found' = FALSE
        \/ pc = "more" /\ rebuild_found' = rebuild_found
        \/ UNCHANGED <<pc, rebuild_found, batch>>
    <3>1. Processor => \/ pc' \notin {"scan", "more"}
                       \/ rebuild_found' = FALSE
                       \/ pc = "more" /\ rebuild_found' = rebuild_found
      BY <1>2 DEF Processor, PopFirst, QueueLength, PopMore, Dequeue, LockImage, HandleLocked,
             UnlockImage, SignalExport, HandleUnlocked, EndBatch, shared, gui
    <3>2. Gui => UNCHANGED <<pc, rebuild_found, batch>>
      BY DEF Gui, Clear, Push, Reset, Wait, Lock, Unlock, Sample, Settle, DrainLength, DrainPop,
             DrainPush, DrainEnd, Destroy, Join, proc
    <3>3. Operation \/ Rest \/ UNCHANGED vars => UNCHANGED <<pc, rebuild_found, batch>>
      BY ZenonT(60) DEF Operation, Open, LockedUpdate, MoveLayer, RemoveLayer, Export, Close, Update,
             SyncUpdate, Zoom, SpotWB, Redraw, Quit, Begin, Rest, vars, proc
    <3>4. QED
      BY <3>1, <3>2, <3>3 DEF Next
  <2>2. CASE UNCHANGED <<pc, rebuild_found, batch>>
    <3>1. \A k \in 1 .. Len(reqs) : reqs'[k] = reqs[k]
      BY <1>2, Submits, ReqsSame
    <3>2. ToSet(batch) \subseteq 1 .. Len(reqs)
      BY DEF Numbered, Kept, InFlight
    <3>3. \A j \in ToSet(batch) : reqs'[j].kind = reqs[j].kind
      BY <3>1, <3>2
    <3>4. QED
      BY <2>2, <3>3 DEF Found
  <2>3. CASE pc = "more" /\ rebuild_found' = rebuild_found
    BY <2>3 DEF Found
  <2>4. QED
    BY <2>1, <2>2, <2>3 DEF Found
<1>3. QED
  BY <1>1, <1>2

\* A step that sends nothing keeps the requests in flight, and what they are.
LEMMA FlightKept ==
  ASSUME TypeOK, [Next]_vars, ~Push
  PROVE  InFlight' \subseteq InFlight /\ reqs' = reqs
BY FlightFrom, ReqsSame

-----------------------------------------------------------------------------
(* remove_image_from_queue *)

\* Instruction n + 1 becomes instruction n.
LEMMA TodoTail ==
  ASSUME TypeOK, todo # <<>>, todo' = Tail(todo)
  PROVE  /\ Len(todo) \in Nat \ {0} /\ Len(todo') = Len(todo) - 1 /\ Head(todo) = todo[1]
         /\ \A n \in 1 .. Len(todo') :
              n + 1 \in 1 .. Len(todo) /\ todo'[n] = todo[n + 1]
<1>1. PICK t : t = Tail(todo)
  OBVIOUS
<1>2. /\ Len(todo) \in Nat \ {0} /\ Head(todo) = todo[1] /\ Len(t) = Len(todo) - 1
      /\ \A n \in 1 .. (Len(todo) - 1) : t[n] = todo[n + 1]
  BY <1>1, HeadTail DEF TypeOK
<1>3. \A n \in 1 .. Len(t) : n + 1 \in 1 .. Len(todo) /\ t[n] = todo[n + 1]
  BY <1>2
<1>4. todo' = t
  BY <1>1
<1>5. QED
  BY <1>2, <1>3, <1>4

\* Request k names an open image, or its image is not set.
Names(k) == reqs[k].kind \in Unset \/ reqs[k].image \in alive

\* The instructions of Close follow each other, and it ends with the last.
CloseOrder ==
  \A n \in 1 .. Len(todo) :
    /\ todo[n].do = "drain" => n = 1 \/ todo[n - 1].do = "length"
    /\ todo[n].do = "destroy" =>
         /\ n = Len(todo)
         /\ n = 1 \/ (todo[n - 1].do = "drain" /\ todo[n - 1].image = todo[n].image)

\* A program submits no request of an image that is closed.
OpenPushes ==
  \A n \in 1 .. Len(todo) :
    todo[n].do = "push" => todo[n].req.kind \in Unset \/ todo[n].req.image \in alive

\* The loop over the queue has seen what stands behind the first gleft requests, and of
\* those it pushed back none is of the image being closed.
Drained ==
  /\ hand # 0 => /\ todo # <<>> /\ Head(todo).do = "drain"
                 /\ reqs[hand].image # Head(todo).image
  /\ todo # <<>> /\ Head(todo).do = "drain" =>
       \A n \in 1 .. Len(queue) : n > gleft => reqs[queue[n]].image # Head(todo).image
  /\ todo # <<>> /\ Head(todo).do = "destroy" =>
       \A n \in 1 .. Len(queue) : reqs[queue[n]].image # Head(todo).image

ForgetInv ==
  /\ TypeOK /\ Numbered /\ CloseOrder /\ OpenPushes /\ Drained
  /\ \A n \in 1 .. Len(queue) : Names(queue[n])
  /\ hand # 0 => Names(hand)

LEMMA ForgetInit == Init => ForgetInv
<1> SUFFICES ASSUME Init PROVE ForgetInv
  OBVIOUS
<1>1. TypeOK /\ Numbered
  BY InitType, NumberedInit
<1>2. todo = <<>> /\ Len(todo) = 0 /\ Len(queue) = 0 /\ hand = 0
  BY DEF Init
<1>3. QED
  BY <1>1, <1>2 DEF ForgetInv, CloseOrder, OpenPushes, Drained

\* The rest of a program has its order, and what comes next tells what came before.
LEMMA RestOfProgram ==
  ASSUME TypeOK, CloseOrder, OpenPushes, todo # <<>>, todo' = Tail(todo), alive' = alive
  PROVE  /\ CloseOrder' /\ OpenPushes'
         /\ todo' # <<>> /\ Head(todo').do = "drain" => Head(todo).do = "length"
         /\ todo' # <<>> /\ Head(todo').do = "destroy" =>
              Head(todo).do = "drain" /\ Head(todo).image = Head(todo').image
<1>1. PICK t : t = todo'
  OBVIOUS
<1>2. /\ Len(todo) \in Nat \ {0} /\ Len(t) = Len(todo) - 1 /\ Head(todo) = todo[1]
      /\ \A n \in 1 .. Len(t) : n + 1 \in 1 .. Len(todo) /\ t[n] = todo[n + 1]
  BY <1>1, TodoTail
<1>3. ASSUME NEW n \in 1 .. Len(t)
      PROVE  /\ t[n].do = "drain" => todo[n].do = "length"
             /\ t[n].do = "destroy" =>
                  n = Len(t) /\ todo[n].do = "drain" /\ todo[n].image = t[n].image
             /\ n > 1 => todo[n] = t[n - 1]
             /\ t[n].do = "push" => t[n].req.kind \in Unset \/ t[n].req.image \in alive
  <2>1. n + 1 \in 1 .. Len(todo) /\ t[n] = todo[n + 1] /\ n + 1 # 1 /\ (n + 1) - 1 = n
    BY <1>2
  <2>2. n + 1 = Len(todo) => n = Len(t)
    BY <1>2
  <2>3. n > 1 => todo[n] = t[n - 1]
    <3>1. n > 1 => n - 1 \in 1 .. Len(t) /\ (n - 1) + 1 = n
      BY <1>2
    <3>2. QED
      BY <1>2, <3>1
  <2>4. t[n].do = "push" => t[n].req.kind \in Unset \/ t[n].req.image \in alive
    BY <2>1 DEF OpenPushes
  <2>5. QED
    BY <2>1, <2>2, <2>3, <2>4 DEF CloseOrder
<1>4. CloseOrder'
  <2>1. ASSUME NEW n \in 1 .. Len(t), n # 1
        PROVE  /\ t[n].do = "drain" => t[n - 1].do = "length"
               /\ t[n].do = "destroy" => t[n - 1].do = "drain" /\ t[n - 1].image = t[n].image
    <3>1. n > 1
      BY <1>2, <2>1
    <3>2. QED
      BY <1>3, <3>1
  <2>2. QED
    BY <1>1, <1>3, <2>1 DEF CloseOrder
<1>5. OpenPushes'
  BY <1>1, <1>3 DEF OpenPushes
<1>6. t # <<>> => 1 \in 1 .. Len(t) /\ Head(t) = t[1]
  <2>1. t \in Seq(Instr)
    BY <1>1, HeadTail DEF TypeOK
  <2>2. QED
    BY <2>1, HeadTail
<1>7. ASSUME t # <<>>
      PROVE  /\ Head(t).do = "drain" => Head(todo).do = "length"
             /\ Head(t).do = "destroy" =>
                  Head(todo).do = "drain" /\ Head(todo).image = Head(t).image
  <2>1. 1 \in 1 .. Len(t) /\ Head(t) = t[1] /\ Head(todo) = todo[1]
    BY <1>2, <1>6, <1>7
  <2>2. QED
    BY <1>3, <2>1
<1>8. QED
  BY <1>1, <1>4, <1>5, <1>7

\* A queue that loses its first request is a part of what it was.
LEMMA QueueTail ==
  ASSUME TypeOK, queue # <<>>, queue' = Tail(queue)
  PROVE  /\ Len(queue') = Len(queue) - 1 /\ Len(queue) \in Nat \ {0}
         /\ Head(queue) = queue[1] /\ Head(queue) \in Nat
         /\ \A n \in 1 .. Len(queue') : n + 1 \in 1 .. Len(queue) /\ queue'[n] = queue[n + 1]
<1>1. PICK q : q = queue'
  OBVIOUS
<1>2. /\ Len(queue) \in Nat \ {0} /\ Len(q) = Len(queue) - 1
      /\ Head(queue) = queue[1] /\ Head(queue) \in Nat
      /\ \A n \in 1 .. (Len(queue) - 1) : q[n] = queue[n + 1]
  BY <1>1, HeadTail DEF TypeOK
<1>3. \A n \in 1 .. Len(q) : n + 1 \in 1 .. Len(queue) /\ q[n] = queue[n + 1]
  BY <1>2
<1>4. QED
  BY <1>1, <1>2, <1>3

\* The processor takes requests from the front of the queue at most, even while the GUI
\* thread goes round it.
LEMMA ForgetProcessor ==
  ASSUME ForgetInv, [Next]_vars, Processor \/ Rest \/ UNCHANGED vars
  PROVE  ForgetInv'
<1>1. /\ UNCHANGED <<todo, gleft, hand, reqs, alive>>
      /\ queue' = queue \/ (queue # <<>> /\ queue' = Tail(queue))
  <2>1. Processor => /\ UNCHANGED <<todo, gleft, hand, reqs, alive>>
                     /\ queue' = queue \/ (queue # <<>> /\ queue' = Tail(queue))
    BY DEF Processor, PopFirst, QueueLength, PopMore, Scan, Dequeue, LockImage, HandleLocked,
           UnlockImage, SignalExport, HandleUnlocked, EndBatch, shared, gui
  <2>2. Rest \/ UNCHANGED vars => UNCHANGED <<todo, gleft, hand, reqs, alive, queue>>
    BY DEF Rest, vars, shared, gui
  <2>3. QED
    BY <2>1, <2>2
<1>2. TypeOK /\ TypeOK' /\ Numbered' /\ CloseOrder' /\ OpenPushes'
  BY <1>1, TypeStep, NumberedStep DEF ForgetInv, CloseOrder, OpenPushes
<1>3. hand # 0 => Names(hand)'
  BY <1>1 DEF ForgetInv, Names
<1>4. gleft \in Nat
  BY DEF ForgetInv, TypeOK
<1>5. \A n \in 1 .. Len(queue') : \E m \in 1 .. Len(queue) : m >= n /\ queue'[n] = queue[m]
  <2>1. CASE queue' = queue
    BY <2>1
  <2>2. CASE queue # <<>> /\ queue' = Tail(queue)
    BY <1>2, <2>2, QueueTail
  <2>3. QED
    BY <1>1, <2>1, <2>2
<1>6. (\A n \in 1 .. Len(queue) : Names(queue[n]))'
  BY <1>1, <1>5 DEF ForgetInv, Names
<1>7. Drained'
  <2>1. ASSUME todo # <<>>, Head(todo).do = "drain", NEW n \in 1 .. Len(queue'), n > gleft
        PROVE  reqs[queue'[n]].image # Head(todo).image
    <3>1. PICK m \in 1 .. Len(queue) : m >= n /\ queue'[n] = queue[m]
      BY <1>5
    <3>2. Len(queue) \in Nat /\ Len(queue') \in Nat
      BY <1>2, LenProperties DEF TypeOK
    <3>3. m > gleft
      BY <1>4, <2>1, <3>1, <3>2
    <3>4. QED
      BY <2>1, <3>1, <3>3 DEF ForgetInv, Drained
  <2>2. ASSUME todo # <<>>, Head(todo).do = "destroy", NEW n \in 1 .. Len(queue')
        PROVE  reqs[queue'[n]].image # Head(todo).image
    BY <1>5, <2>2 DEF ForgetInv, Drained
  <2>3. hand # 0 => /\ todo # <<>> /\ Head(todo).do = "drain"
                    /\ reqs[hand].image # Head(todo).image
    BY DEF ForgetInv, Drained
  <2>4. QED
    BY <1>1, <2>1, <2>2, <2>3 DEF Drained
<1>8. QED
  BY <1>1, <1>2, <1>3, <1>6, <1>7 DEF ForgetInv

\* What is left in hand belongs to the loop over the queue.
LEMMA HandEmpty ==
  ASSUME ForgetInv, todo = <<>> \/ Head(todo).do # "drain"
  PROVE  hand = 0
BY DEF ForgetInv, Drained

\* An instruction that is not one of the loop leaves the queue alone, or submits to it a
\* request of an open image.
LEMMA ForgetPlain ==
  ASSUME ForgetInv, TypeOK', Numbered', todo # <<>>, todo' = Tail(todo), alive' = alive,
         hand' = hand, Head(todo).do \notin {"length", "drain"},
         UNCHANGED <<reqs, queue>> \/ Push
  PROVE  ForgetInv'
<1>1. /\ CloseOrder' /\ OpenPushes'
      /\ todo' # <<>> => Head(todo').do \notin {"drain", "destroy"}
  BY RestOfProgram DEF ForgetInv
<1>2. hand = 0 /\ Drained'
  BY <1>1, HandEmpty DEF Drained
<1>3. (\A n \in 1 .. Len(queue) : Names(queue[n]))'
  <2>1. CASE UNCHANGED <<reqs, queue>>
    BY <2>1 DEF ForgetInv, Names
  <2>2. CASE Push
    <3>1. PICK e, r : e = Len(reqs) + 1 /\ r = Head(todo).req
      OBVIOUS
    <3>2. /\ reqs \in Seq(Request) /\ reqs' = Append(reqs, r) /\ Len(reqs) \in Nat
          /\ queue \in Seq(Nat) /\ queue' = Append(queue, e) /\ Len(queue) \in Nat
          /\ Head(todo).do = "push"
      BY <2>2, <3>1, LenProperties DEF Push, Do, ForgetInv, TypeOK
    <3>3. r \in Request /\ (r.kind \in Unset \/ r.image \in alive)
      <4>1. todo \in Seq(Instr) /\ Head(todo) = todo[1] /\ 1 \in 1 .. Len(todo) /\ Head(todo) \in Instr
        BY HeadTail DEF ForgetInv, TypeOK
      <4>2. r \in Request
        BY <3>1, <3>2, <4>1 DEF Instr
      <4>3. r.kind \in Unset \/ r.image \in alive
        BY <3>1, <3>2, <4>1 DEF ForgetInv, OpenPushes
      <4>4. QED
        BY <4>2, <4>3
    <3>4. reqs'[e] = r /\ \A k \in 1 .. Len(reqs) : reqs'[k] = reqs[k]
      BY <3>1, <3>2, <3>3, AppendProperties
    <3>5. /\ Len(queue') = Len(queue) + 1 /\ queue'[Len(queue) + 1] = e
          /\ \A n \in 1 .. Len(queue) : queue'[n] = queue[n]
      BY <3>1, <3>2, AppendProperties
    <3>6. ASSUME NEW n \in 1 .. Len(queue)
          PROVE  reqs'[queue'[n]].kind \in Unset \/ reqs'[queue'[n]].image \in alive
      <4>1. queue[n] \in 1 .. Len(reqs)
        BY <3>2 DEF ForgetInv, Numbered, Kept, InFlight, ToSet
      <4>2. QED
        BY <3>4, <3>5, <4>1 DEF ForgetInv, Names
    <3>7. reqs'[queue'[Len(queue) + 1]].kind \in Unset \/ reqs'[queue'[Len(queue) + 1]].image \in alive
      BY <3>3, <3>4, <3>5
    <3>8. ASSUME NEW n \in 1 .. Len(queue')
          PROVE  reqs'[queue'[n]].kind \in Unset \/ reqs'[queue'[n]].image \in alive
      <4>1. n \in 1 .. Len(queue) \/ n = Len(queue) + 1
        BY <3>2, <3>5
      <4>2. QED
        BY <3>6, <3>7, <4>1
    <3>9. QED
      BY <3>8 DEF Names
  <2>3. QED
    BY <2>1, <2>2
<1>4. QED
  BY <1>1, <1>2, <1>3 DEF ForgetInv

\* The loop begins with the whole queue before it.
LEMMA ForgetLength ==
  ASSUME ForgetInv, TypeOK', Numbered', DrainLength
  PROVE  ForgetInv'
<1>1. /\ todo # <<>> /\ Head(todo).do = "length" /\ todo' = Tail(todo) /\ gleft' = Len(queue)
      /\ UNCHANGED <<reqs, queue, alive, hand>>
  BY DEF DrainLength, Do, Done, shared
<1>2. /\ CloseOrder' /\ OpenPushes'
      /\ todo' # <<>> => Head(todo').do # "destroy"
  BY <1>1, RestOfProgram DEF ForgetInv
<1>3. hand = 0
  BY <1>1, HandEmpty
<1>4. Len(queue) \in Nat
  BY LenProperties DEF ForgetInv, TypeOK
<1>5. Drained'
  BY <1>1, <1>2, <1>3, <1>4 DEF Drained
<1>6. (\A n \in 1 .. Len(queue) : Names(queue[n]))'
  BY <1>1 DEF ForgetInv, Names
<1>7. QED
  BY <1>1, <1>2, <1>3, <1>5, <1>6 DEF ForgetInv

\* A turn of the loop moves the requests behind it one place forward, and puts one that
\* is not of the image at the end.
LEMMA ForgetDrain ==
  ASSUME ForgetInv, TypeOK', Numbered', DrainPop \/ DrainPush
  PROVE  ForgetInv'
<1>1. /\ todo # <<>> /\ Head(todo).do = "drain" /\ UNCHANGED <<todo, reqs, alive>>
      /\ gleft \in Nat
  BY DEF DrainPop, DrainPush, Do, ForgetInv, Drained, TypeOK
<1>2. PICK i : i = Head(todo).image
  OBVIOUS
<1>3. CloseOrder' /\ OpenPushes'
  BY <1>1 DEF ForgetInv, CloseOrder, OpenPushes
<1>4. /\ \A n \in 1 .. Len(queue) : Names(queue[n])
      /\ \A n \in 1 .. Len(queue) : n > gleft => reqs[queue[n]].image # i
      /\ hand # 0 => Names(hand) /\ reqs[hand].image # i
  BY <1>1, <1>2 DEF ForgetInv, Drained
<1>5. ASSUME /\ \A n \in 1 .. Len(queue') : /\ reqs[queue'[n]].kind \in Unset \/ reqs[queue'[n]].image \in alive
                                            /\ n > gleft' => reqs[queue'[n]].image # i,
             hand' # 0 => /\ reqs[hand'].kind \in Unset \/ reqs[hand'].image \in alive
                          /\ reqs[hand'].image # i
      PROVE  ForgetInv'
  <2>1. Drained'
    BY <1>1, <1>2, <1>5 DEF Drained
  <2>2. (\A n \in 1 .. Len(queue) : Names(queue[n]))' /\ (hand' # 0 => Names(hand)')
    BY <1>1, <1>5 DEF Names
  <2>3. QED
    BY <1>3, <2>1, <2>2 DEF ForgetInv
<1>6. CASE DrainPop
  <2>1. PICK h : h = Head(queue)
    OBVIOUS
  <2>2. /\ queue # <<>> /\ queue' = Tail(queue) /\ gleft' = gleft - 1
        /\ hand' = IF reqs[h].image = i THEN 0 ELSE h
    BY <1>2, <1>6, <2>1 DEF DrainPop
  <2>3. /\ Len(queue) \in Nat \ {0} /\ h = queue[1]
        /\ \A n \in 1 .. Len(queue') : n + 1 \in 1 .. Len(queue) /\ queue'[n] = queue[n + 1]
    BY <2>1, <2>2, QueueTail DEF ForgetInv
  <2>4. ASSUME NEW n \in 1 .. Len(queue')
        PROVE  /\ reqs[queue'[n]].kind \in Unset \/ reqs[queue'[n]].image \in alive
               /\ n > gleft' => reqs[queue'[n]].image # i
    <3>1. n + 1 \in 1 .. Len(queue) /\ queue'[n] = queue[n + 1] /\ (n > gleft' => n + 1 > gleft)
      BY <1>1, <2>2, <2>3
    <3>2. QED
      BY <1>4, <3>1 DEF Names
  <2>5. hand' # 0 => /\ reqs[hand'].kind \in Unset \/ reqs[hand'].image \in alive
                     /\ reqs[hand'].image # i
    <3>1. 1 \in 1 .. Len(queue)
      BY <2>3
    <3>2. QED
      BY <1>4, <2>2, <2>3, <3>1 DEF Names
  <2>6. QED
    BY <1>5, <2>4, <2>5
<1>7. CASE DrainPush
  <2>1. /\ hand # 0 /\ queue' = Append(queue, hand) /\ hand' = 0 /\ gleft' = gleft
        /\ queue \in Seq(Nat) /\ hand \in Nat /\ Len(queue) \in Nat
    BY <1>7, LenProperties DEF DrainPush, ForgetInv, TypeOK
  <2>2. /\ Len(queue') = Len(queue) + 1 /\ queue'[Len(queue) + 1] = hand
        /\ \A n \in 1 .. Len(queue) : queue'[n] = queue[n]
    BY <2>1, AppendProperties
  <2>3. ASSUME NEW n \in 1 .. Len(queue')
        PROVE  /\ reqs[queue'[n]].kind \in Unset \/ reqs[queue'[n]].image \in alive
               /\ n > gleft' => reqs[queue'[n]].image # i
    <3>1. n \in 1 .. Len(queue) \/ (n = Len(queue) + 1 /\ queue'[n] = hand)
      BY <2>1, <2>2
    <3>2. QED
      BY <1>4, <2>1, <2>2, <3>1 DEF Names
  <2>4. QED
    BY <1>5, <2>1, <2>3
<1>8. QED
  BY <1>6, <1>7

\* Once the loop has gone round, no request in the queue is of the image, and it can go.
LEMMA ForgetEnd ==
  ASSUME ForgetInv, TypeOK', Numbered', DrainEnd \/ Destroy
  PROVE  ForgetInv'
<1>1. CASE DrainEnd
  <2>1. /\ todo # <<>> /\ Head(todo).do = "drain" /\ todo' = Tail(todo) /\ gleft = 0 /\ hand = 0
        /\ UNCHANGED <<reqs, queue, alive, hand>>
    BY <1>1 DEF DrainEnd, Do, Done, shared
  <2>2. /\ CloseOrder' /\ OpenPushes'
        /\ todo' # <<>> => Head(todo').do # "drain"
        /\ todo' # <<>> /\ Head(todo').do = "destroy" => Head(todo).image = Head(todo').image
    BY <2>1, RestOfProgram DEF ForgetInv
  <2>3. \A n \in 1 .. Len(queue) : reqs[queue[n]].image # Head(todo).image
    BY <2>1 DEF ForgetInv, Drained
  <2>4. Drained'
    BY <2>1, <2>2, <2>3 DEF Drained
  <2>5. (\A n \in 1 .. Len(queue) : Names(queue[n]))'
    BY <2>1 DEF ForgetInv, Names
  <2>6. QED
    BY <2>1, <2>2, <2>4, <2>5 DEF ForgetInv
<1>2. CASE Destroy
  <2>1. PICK i : i = Head(todo).image
    OBVIOUS
  <2>2. /\ todo # <<>> /\ Head(todo).do = "destroy" /\ todo' = Tail(todo)
        /\ alive' = alive \ {i} /\ UNCHANGED <<reqs, queue, hand>>
    BY <1>2, <2>1 DEF Destroy, Do, Done
  <2>3. hand = 0
    BY <2>2, HandEmpty
  <2>4. /\ Len(todo) \in Nat \ {0} /\ Head(todo) = todo[1] /\ Len(todo') = Len(todo) - 1
        /\ todo' \in Seq(Instr)
    BY <2>2, TodoTail, HeadTail DEF ForgetInv, TypeOK
  <2>5. Len(todo) = 1
    <3>1. 1 \in 1 .. Len(todo) /\ todo[1].do = "destroy"
      BY <2>2, <2>4
    <3>2. QED
      BY <3>1 DEF ForgetInv, CloseOrder
  <2>6. Len(todo') = 0 /\ todo' = <<>>
    <3>1. Len(todo') = 0
      BY <2>4, <2>5
    <3>2. QED
      BY <2>4, <3>1, EmptySeq
  <2>7. CloseOrder' /\ OpenPushes' /\ Drained'
    <3>1. \A n \in 1 .. Len(todo') : FALSE
      BY <2>6
    <3>2. CloseOrder' /\ OpenPushes'
      BY <3>1 DEF CloseOrder, OpenPushes
    <3>3. hand' = 0 /\ todo' = <<>>
      BY <2>2, <2>3, <2>6
    <3>4. Drained'
      BY <3>3 DEF Drained
    <3>5. QED
      BY <3>2, <3>4
  <2>8. \A n \in 1 .. Len(queue) : reqs[queue[n]].image # i
    BY <2>1, <2>2 DEF ForgetInv, Drained
  <2>9. (\A n \in 1 .. Len(queue) : Names(queue[n]))'
    BY <2>2, <2>8 DEF ForgetInv, Names
  <2>10. QED
    BY <2>2, <2>3, <2>7, <2>9 DEF ForgetInv
<1>3. QED
  BY <1>1, <1>2

\* Two instructions, one and one are four.
LEMMA CloseForm ==
  ASSUME NEW a \in Instr, NEW b \in Instr, NEW c \in Instr, NEW d \in Instr
  PROVE  LET s == <<a, b>> \o <<c>> \o <<d>>
         IN Len(s) = 4 /\ s[1] = a /\ s[2] = b /\ s[3] = c /\ s[4] = d
<1> DEFINE u == <<a, b>> \o <<c>>
<1>1. u \in Seq(Instr) /\ Len(u) = 3 /\ u[1] = a /\ u[2] = b /\ u[3] = c
  OBVIOUS
<1> HIDE DEF u
<1> DEFINE v == <<d>>
           s == u \o v
<1>2. v \in Seq(Instr) /\ Len(v) = 1 /\ v[1] = d
  OBVIOUS
<1> HIDE DEF v
<1>3. /\ Len(s) = 3 + 1
      /\ \A n \in 1 .. 3 + 1 : s[n] = IF n <= 3 THEN u[n] ELSE v[n - 3]
  <2>1. /\ Len(s) = Len(u) + Len(v)
        /\ \A n \in 1 .. Len(u) + Len(v) : s[n] = IF n <= Len(u) THEN u[n] ELSE v[n - Len(u)]
    BY <1>1, <1>2, ConcatProperties
  <2> HIDE DEF s
  <2>2. QED
    BY <1>1, <1>2, <2>1
<1> HIDE DEF s
<1>4. Len(s) = 4 /\ s[1] = a /\ s[2] = b /\ s[3] = c /\ s[4] = d
  BY <1>1, <1>2, <1>3
<1>5. QED
  BY <1>4 DEF s, u, v

\* Between two operations the loop is over, and the next one names open images only.
LEMMA ForgetOperation ==
  ASSUME ForgetInv, TypeOK', Numbered', Operation
  PROVE  ForgetInv'
<1>1. todo = <<>>
  BY ZenonT(60) DEF Operation, Open, LockedUpdate, MoveLayer, RemoveLayer, Export, Close, Update,
         SyncUpdate, Zoom, SpotWB, Redraw, Quit, Begin
<1>2. TypeOK /\ hand = 0
  BY <1>1, HandEmpty DEF ForgetInv
<1>3. UNCHANGED <<reqs, queue, hand>> /\ alive \subseteq alive'
  <2>1. UNCHANGED <<reqs, queue, hand>>
    BY ZenonT(60) DEF Operation, Open, LockedUpdate, MoveLayer, RemoveLayer, Export, Close, Update,
           SyncUpdate, Zoom, SpotWB, Redraw, Quit, Begin, shared
  <2>2. alive' = alive \/ \E i \in Images : alive' = alive \cup {i}
    BY ZenonT(60) DEF Operation, Open, LockedUpdate, MoveLayer, RemoveLayer, Export, Close, Update,
           SyncUpdate, Zoom, SpotWB, Redraw, Quit, Begin, shared
  <2>3. QED
    BY <2>1, <2>2
<1>4. (\A n \in 1 .. Len(queue) : Names(queue[n]))'
  BY <1>3 DEF ForgetInv, Names
<1>5. CASE Begins(NamedInstr(alive'))
  <2>1. PICK t : t = todo'
    OBVIOUS
  <2>2. \A n \in 1 .. Len(t) : t[n] \in NamedInstr(alive')
    BY <1>5, <2>1, ElementOfSeq DEF Begins
  <2>3. CloseOrder' /\ OpenPushes'
    BY <2>1, <2>2 DEF CloseOrder, OpenPushes, NamedInstr, PlainInstr
  <2>4. t # <<>> => Head(t) \in NamedInstr(alive')
    <3>1. t \in Seq(Instr) /\ Len(t) \in Nat
      BY <2>1, LenProperties DEF TypeOK
    <3>2. t # <<>> => Head(t) = t[1] /\ 1 \in 1 .. Len(t)
      BY <3>1, HeadTail
    <3>3. QED
      BY <2>2, <3>2
  <2>5. Drained'
    BY <1>2, <1>3, <2>1, <2>4 DEF Drained, NamedInstr, PlainInstr
  <2>6. QED
    BY <1>2, <1>3, <1>4, <2>3, <2>5 DEF ForgetInv
<1>6. CASE \E i \in Images : Close(i)
  <2>1. PICK i \in Images : Close(i)
    BY <1>6
  <2>2. PICK t, a, b, c, d : /\ t = todo'
                             /\ a = [do |-> "settle"] /\ b = [do |-> "length"]
                             /\ c = [do |-> "drain", image |-> i]
                             /\ d = [do |-> "destroy", image |-> i]
    OBVIOUS
  <2>3. a \in Instr /\ b \in Instr /\ c \in Instr /\ d \in Instr
    BY <2>2 DEF Instr
  <2>4. t = <<a, b>> \o <<c>> \o <<d>>
    BY <2>1, <2>2 DEF Close, Begin, On
  <2>5. Len(t) = 4 /\ t[1] = a /\ t[2] = b /\ t[3] = c /\ t[4] = d
    <3>1. LET s == <<a, b>> \o <<c>> \o <<d>>
          IN Len(s) = 4 /\ s[1] = a /\ s[2] = b /\ s[3] = c /\ s[4] = d
      BY <2>3, CloseForm
    <3>2. QED
      BY <2>4, <3>1, Zenon
  <2>6. /\ Len(t) = 4 /\ t[1].do = "settle" /\ t[2].do = "length"
        /\ t[3].do = "drain" /\ t[3].image = i /\ t[4].do = "destroy" /\ t[4].image = i
    BY <2>2, <2>5
  <2>7. CloseOrder' /\ OpenPushes'
    BY <2>2, <2>6 DEF CloseOrder, OpenPushes
  <2>8. Head(t) = t[1]
    <3>1. t \in Seq(Instr)
      BY <2>2 DEF TypeOK
    <3>2. t # <<>>
      BY <2>6
    <3>3. QED
      BY <3>1, <3>2, HeadTail
  <2>9. Drained'
    BY <1>2, <1>3, <2>2, <2>6, <2>8 DEF Drained
  <2>10. QED
    BY <1>2, <1>3, <1>4, <2>7, <2>9 DEF ForgetInv
<1>7. QED
  BY <1>2, <1>5, <1>6, OperationBegins

LEMMA ForgetStep == ForgetInv /\ [Next]_vars => ForgetInv'
<1> SUFFICES ASSUME ForgetInv, [Next]_vars PROVE ForgetInv'
  OBVIOUS
<1>1. TypeOK' /\ Numbered'
  BY TypeStep, NumberedStep DEF ForgetInv
<1>2. CASE Clear \/ Push \/ Reset \/ Wait \/ Lock \/ Unlock \/ Sample \/ Settle \/ Join
  <2>1. /\ todo # <<>> /\ todo' = Tail(todo) /\ alive' = alive /\ hand' = hand
        /\ Head(todo).do \notin {"length", "drain"}
        /\ UNCHANGED <<reqs, queue>> \/ Push
    BY <1>2 DEF Clear, Push, Reset, Wait, Lock, Unlock, Sample, Settle, Join, Do, Done, shared
  <2>2. QED
    BY <1>1, <2>1, ForgetPlain
<1>3. QED
  BY <1>1, <1>2, ForgetProcessor, ForgetLength, ForgetDrain, ForgetEnd, ForgetOperation
     DEF Next, Gui

\* Once an image is closed no queued request names it, whatever the processor pops while
\* remove_image_from_queue goes round the queue, and in whatever order it puts the
\* requests of other images back.
THEOREM QueueForgetsCorrect == Spec => []QueueForgets
<1>1. ForgetInv => QueueForgets
  <2> SUFFICES ASSUME ForgetInv, NEW k \in ToSet(queue)
               PROVE  reqs[k].kind \in Unset \/ reqs[k].image \in alive
    BY DEF QueueForgets
  <2>1. PICK n \in 1 .. Len(queue) : k = queue[n]
    BY DEF ForgetInv, TypeOK, ToSet
  <2>2. QED
    BY <2>1 DEF ForgetInv, Names
<1>2. QED
  BY ForgetInit, ForgetStep, <1>1, PTL DEF Spec
=============================================================================
