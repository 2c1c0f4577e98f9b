------------------------ MODULE ImageProcessorProofs ------------------------
(***************************************************************************)
(* Theorems about ImageProcessor, for any number of images, pipelines and  *)
(* requests.                                                               *)
(***************************************************************************)
EXTENDS ImageProcessor, SequenceTheorems, TLAPS

-----------------------------------------------------------------------------
(* Programs of the GUI thread *)

\* The instructions of every operation but Close, the one that drains the queue.
PlainInstr == {x \in Instr : x.do \notin {"drain", "destroy"}}

\* Those that submit no request of an image outside A, unless its image is not set.
NamedInstr(A) ==
  {x \in PlainInstr : x.do = "push" => x.req.kind \in Unset \/ x.req.image \in A}

\* Submit makes two instructions.
LEMMA SubmitType ==
  ASSUME NEW kind \in Kinds, NEW image \in Images \cup {NoImage},
         NEW owner \in Images \cup {NoImage}, NEW pipe \in Pipelines \cup {NoPipe},
         NEW A, kind \in Unset \/ image \in A
  PROVE  Submit(kind, image, owner, pipe) \in Seq(NamedInstr(A))
<1> DEFINE r == [kind |-> kind, image |-> image, owner |-> owner, pipe |-> pipe]
<1>1. r \in Request
  BY DEF Request
<1>2. [do |-> "clear"] \in NamedInstr(A)
  BY DEF NamedInstr, PlainInstr, Instr
<1>3. [do |-> "push", req |-> r] \in NamedInstr(A)
  BY <1>1 DEF NamedInstr, PlainInstr, Instr
<1> HIDE DEF r
<1>4. QED
  BY <1>2, <1>3 DEF Submit, r

\* One instruction on an image is a plain program.
LEMMA OnType ==
  ASSUME NEW i \in Images, NEW A,
         NEW name \in {"lock", "unlock", "sample"}
  PROVE  On(name, i) \in Seq(NamedInstr(A))
BY DEF On, NamedInstr, PlainInstr, Instr

\* So is one instruction on a condition of an image.
LEMMA OnCondType ==
  ASSUME NEW i \in Images, NEW A, NEW c \in Conds, NEW name \in {"reset", "wait"}
  PROVE  OnCond(name, c, i) \in Seq(NamedInstr(A))
BY DEF OnCond, NamedInstr, PlainInstr, Instr

\* Image::update is a plain program, whatever the pipeline.
LEMMA UpdateProgramType ==
  ASSUME NEW A, NEW i \in Images \cap A, NEW p \in Pipelines \cup {NoPipe}
  PROVE  UpdateProgram(i, p) \in Seq(NamedInstr(A))
BY SubmitType DEF UpdateProgram, Kinds

\* So is its synchronous form.
LEMMA SyncUpdateProgramType ==
  ASSUME NEW A, NEW i \in Images \cap A, NEW p \in Pipelines \cup {NoPipe}
  PROVE  SyncUpdateProgram(i, p) \in Seq(NamedInstr(A))
<1>1. /\ OnCond("reset", "rebuild", i) \in Seq(NamedInstr(A))
      /\ OnCond("wait", "rebuild", i) \in Seq(NamedInstr(A))
  BY OnCondType DEF Conds
<1>2. UpdateProgram(i, p) \in Seq(NamedInstr(A))
  BY UpdateProgramType
<1>3. QED
  BY <1>1, <1>2, ConcatProperties DEF SyncUpdateProgram

-----------------------------------------------------------------------------
(* Sequences *)

\* What Front and Last are on a sequence that is not empty.
LEMMA FrontLast ==
  ASSUME NEW S, NEW s \in Seq(S), s # <<>>
  PROVE  /\ Len(s) \in Nat \ {0}
         /\ Last(s) = s[Len(s)] /\ Last(s) \in S
         /\ Front(s) \in Seq(S) /\ Len(Front(s)) = Len(s) - 1
         /\ \A n \in 1..(Len(s) - 1) : Front(s)[n] = s[n]
<1>1. Len(s) \in Nat \ {0}
  BY EmptySeq
<1>2. /\ Front(s) = [n \in 1..(Len(s) - 1) |-> s[n]]
      /\ Last(s) = s[Len(s)]
  BY <1>1 DEF Front, Last
<1>3. QED
  BY <1>1, <1>2

\* What Tail does to a sequence that is not empty.
LEMMA HeadTail ==
  ASSUME NEW S, NEW s \in Seq(S), s # <<>>
  PROVE  /\ Len(s) \in Nat \ {0}
         /\ Head(s) = s[1] /\ Head(s) \in S
         /\ Tail(s) \in Seq(S) /\ Len(Tail(s)) = Len(s) - 1
         /\ \A n \in 1..(Len(s) - 1) : Tail(s)[n] = s[n + 1]
<1>1. Len(s) \in Nat \ {0}
  BY EmptySeq
<1>2. QED
  BY <1>1, HeadTailProperties

-----------------------------------------------------------------------------
(* Type correctness *)

\* The initial state has the right types.
LEMMA InitType == Init => TypeOK
<1> SUFFICES ASSUME Init PROVE TypeOK
  OBVIOUS
<1>1. completed \in BOOLEAN /\ rebuild_found \in BOOLEAN /\ running \in BOOLEAN
      /\ quit \in BOOLEAN
  BY DEF Init
<1>2. signaled \in [Conds -> [Images -> BOOLEAN]]
  BY Zenon DEF Init
<1>3. QED
  BY <1>1, <1>2 DEF Init, TypeOK

\* PopFirst and PopMore keep the types: they take the head of the queue.
LEMMA PopType ==
  ASSUME TypeOK, PopFirst \/ PopMore
  PROVE  TypeOK'
<1>1. queue # <<>> /\ Head(queue) \in Nat /\ Tail(queue) \in Seq(Nat)
  BY HeadTail DEF TypeOK, PopFirst, PopMore
<1>2. CASE PopFirst
  <2>1. temp' \in Seq(Nat) /\ temp' # <<>> /\ pc' = "length" /\ queue' \in Seq(Nat)
    BY <1>1, <1>2 DEF PopFirst
  <2>2. QED
    BY <1>2, <2>1 DEF PopFirst, TypeOK, gui
<1>3. CASE PopMore
  <2>1. temp \in Seq(Nat) /\ temp' = Append(temp, Head(queue)) /\ queue' = Tail(queue)
    BY <1>3 DEF PopMore, TypeOK
  <2>a. temp' \in Seq(Nat) /\ temp' # <<>> /\ queue' \in Seq(Nat)
    BY <1>1, <2>1, AppendProperties
  <2>2. left' \in Nat /\ (pc' = "more" => left' > 0) /\ pc' \in {"scan", "more"}
    BY <1>3 DEF PopMore, TypeOK
  <2>3. QED
    BY <1>3, <2>a, <2>2 DEF PopMore, TypeOK, gui
<1>4. QED
  BY <1>2, <1>3

\* Scan keeps the types.
LEMMA ScanType == TypeOK /\ Scan => TypeOK'
<1> SUFFICES ASSUME TypeOK, Scan PROVE TypeOK'
  OBVIOUS
<1> DEFINE k == Last(temp)
<1>1. temp \in Seq(Nat) /\ temp # <<>> /\ batch \in Seq(Nat)
  BY DEF Scan, TypeOK
<1>2. /\ k \in Nat /\ Len(temp) \in Nat \ {0}
      /\ Front(temp) \in Seq(Nat) /\ Len(Front(temp)) = Len(temp) - 1
  BY <1>1, FrontLast
<1>3. temp' \in Seq(Nat) /\ pc' \in {"next", "scan"} /\ (pc' = "scan" => temp' # <<>>)
  <2>1. temp' = Front(temp) /\ pc' = IF Len(temp) = 1 THEN "next" ELSE "scan"
    BY DEF Scan
  <2>2. CASE Len(temp) = 1
    BY <1>2, <2>1, <2>2
  <2>3. CASE Len(temp) # 1
    <3>1. Len(temp') # 0
      BY <1>2, <2>1, <2>3
    <3>2. QED
      BY <1>2, <2>1, <2>3, <3>1
  <2>4. QED
    BY <2>2, <2>3
<1>4. batch' \in Seq(Nat)
  <2>1. batch' = batch \/ batch' = << k >> \o batch
    BY DEF Scan, PushFront
  <2>2. << k >> \in Seq(Nat)
    BY <1>2
  <2>3. QED
    BY <1>1, <2>1, <2>2, ConcatProperties
<1>5. rebuild_found' \in BOOLEAN
  BY Zenon DEF Scan, TypeOK
<1>6. QED
  BY <1>3, <1>4, <1>5 DEF Scan, TypeOK, shared, gui

\* Setting or clearing a flag keeps the type of "signaled".
LEMMA SignaledType ==
  ASSUME NEW s \in [Conds -> [Images -> BOOLEAN]], NEW c, NEW i, NEW b \in BOOLEAN
  PROVE  [s EXCEPT ![c][i] = b] \in [Conds -> [Images -> BOOLEAN]]
OBVIOUS

\* The other steps of the processor keep the types.
LEMMA ProcessorType == TypeOK /\ Processor => TypeOK'
<1> SUFFICES ASSUME TypeOK, Processor PROVE TypeOK'
  OBVIOUS
<1>1. CASE PopFirst \/ PopMore
  BY <1>1, PopType
<1>2. CASE QueueLength
  <2>1. left' \in Nat /\ (pc' = "more" => left' > 0) /\ pc' \in {"scan", "more"}
    <3>1. left' = Len(queue) /\ Len(queue) \in Nat /\ (queue # <<>> => Len(queue) > 0)
      BY <1>2, EmptySeq, LenProperties DEF QueueLength, TypeOK
    <3>2. QED
      BY <1>2, <3>1 DEF QueueLength
  <2>2. QED
    BY <1>2, <2>1 DEF QueueLength, TypeOK, gui, shared
<1>3. CASE Scan
  BY <1>3, ScanType
<1>4. CASE Dequeue
  <2>1. cur' \in Nat /\ batch' \in Seq(Nat) /\ pc' \in {"lock", "work"}
    BY <1>4, HeadTail DEF Dequeue, TypeOK
  <2>2. QED
    BY <1>4, <2>1 DEF Dequeue, TypeOK, gui, shared
<1>5. CASE LockImage
  BY <1>5 DEF LockImage, TypeOK, gui
<1>6. CASE HandleLocked
  <2>1. handled' \in Seq(Nat)
    BY <1>6, AppendProperties DEF HandleLocked, Handled, TypeOK
  <2>2. signaled' \in [Conds -> [Images -> BOOLEAN]]
    <3>1. \/ signaled' = signaled
          \/ signaled' = [signaled EXCEPT !["rebuild"][reqs[cur].image] = TRUE]
          \/ signaled' = [signaled EXCEPT !["remove"][reqs[cur].image] = TRUE]
      BY <1>6, Zenon DEF HandleLocked, Signal
    <3>2. signaled \in [Conds -> [Images -> BOOLEAN]] /\ TRUE \in BOOLEAN
      BY DEF TypeOK
    <3>3. \A c, i : [signaled EXCEPT ![c][i] = TRUE] \in [Conds -> [Images -> BOOLEAN]]
      BY <3>2, SignaledType
    <3>4. [signaled EXCEPT !["rebuild"][reqs[cur].image] = TRUE]
            \in [Conds -> [Images -> BOOLEAN]]
      BY <3>3
    <3>5. [signaled EXCEPT !["remove"][reqs[cur].image] = TRUE]
            \in [Conds -> [Images -> BOOLEAN]]
      BY <3>3
    <3>6. QED
      BY <3>1, <3>2, <3>4, <3>5
  <2>3. QED
    BY <1>6, <2>1, <2>2 DEF HandleLocked, TypeOK, gui
<1>7. CASE UnlockImage
  <2>1. mutex' \in [Images -> {"free", "gui", "processor"}]
    BY <1>7 DEF UnlockImage, TypeOK
  <2>2. pc' \in {"signal", "next"} /\ cur' \in Nat
    BY <1>7 DEF UnlockImage, TypeOK
  <2>3. QED
    BY <1>7, <2>1, <2>2 DEF UnlockImage, TypeOK, gui
<1>8. CASE SignalExport
  BY <1>8 DEF SignalExport, Signal, TypeOK, gui
<1>9. CASE HandleUnlocked
  <2>1. handled' \in Seq(Nat)
    BY <1>9, AppendProperties DEF HandleUnlocked, Handled, TypeOK
  <2>2. running' \in BOOLEAN
    BY <1>9, Zenon DEF HandleUnlocked, TypeOK
  <2>3. QED
    BY <1>9, <2>1, <2>2 DEF HandleUnlocked, TypeOK, gui, shared
<1>10. CASE EndBatch
  BY <1>10 DEF EndBatch, TypeOK, gui
<1>11. QED
  BY <1>1, <1>2, <1>3, <1>4, <1>5, <1>6, <1>7, <1>8, <1>9, <1>10 DEF Processor
\* An instruction of the GUI thread keeps the types.
LEMMA GuiType == TypeOK /\ Gui => TypeOK'
<1> SUFFICES ASSUME TypeOK, Gui PROVE TypeOK'
  OBVIOUS
<1>1. ASSUME NEW name, Do(name), Done PROVE todo' \in Seq(Instr) /\ Head(todo) \in Instr
  BY <1>1, HeadTail DEF Do, Done, TypeOK
<1>2. CASE Clear
  BY <1>1, <1>2 DEF Clear, TypeOK, proc
<1>3. CASE Push
  <2>1. Head(todo).req \in Request
    BY <1>1, <1>3 DEF Push, Do, Instr
  <2>2. reqs' \in Seq(Request)
    BY <1>3, <2>1, AppendProperties DEF Push, TypeOK
  <2>3. queue' \in Seq(Nat)
    BY <1>3, AppendProperties, LenProperties DEF Push, TypeOK
  <2>4. QED
    BY <1>1, <1>3, <2>2, <2>3 DEF Push, TypeOK, proc
<1>4. CASE Reset \/ Wait
  <2>1. signaled' = [signaled EXCEPT ![Head(todo).cond][Head(todo).image] = FALSE]
    BY <1>4 DEF Reset, Wait
  <2>2. signaled' \in [Conds -> [Images -> BOOLEAN]]
    BY <2>1, SignaledType DEF TypeOK
  <2>3. QED
    BY ZenonT(60), <1>1, <1>4, <2>2 DEF Reset, Wait, TypeOK, proc
<1>5. CASE Lock \/ Unlock
  <2>1. mutex' \in [Images -> {"free", "gui", "processor"}]
    BY <1>5 DEF Lock, Unlock, TypeOK
  <2>2. QED
    BY ZenonT(60), <1>1, <1>5, <2>1 DEF Lock, Unlock, TypeOK, proc
<1>6. CASE Sample \/ Settle \/ DrainEnd \/ Join
  BY ZenonT(60), <1>1, <1>6 DEF Sample, Settle, DrainEnd, Join, TypeOK, proc, shared
<1>7. CASE DrainLength
  BY <1>1, <1>7, LenProperties DEF DrainLength, TypeOK, proc, shared
<1>8. CASE DrainPop
  <2>1. queue' \in Seq(Nat) /\ Head(queue) \in Nat
    BY <1>8, HeadTail DEF DrainPop, TypeOK
  <2>2. gleft' \in Nat /\ hand' \in Nat
    BY <1>8, <2>1 DEF DrainPop, TypeOK
  <2>3. QED
    BY SMTT(40), <1>8, <2>1, <2>2 DEF DrainPop, TypeOK, proc
<1>9. CASE DrainPush
  <2>1. queue' \in Seq(Nat)
    BY <1>9, AppendProperties DEF DrainPush, TypeOK
  <2>2. QED
    BY <1>9, <2>1 DEF DrainPush, TypeOK, proc
<1>10. CASE Destroy
  BY <1>1, <1>10 DEF Destroy, TypeOK, proc
<1>11. QED
  BY <1>2, <1>3, <1>4, <1>5, <1>6, <1>7, <1>8, <1>9, <1>10 DEF Gui

\* What the start of an operation does, with a program over S.
Begins(S) ==
  /\ todo' \in Seq(S)
  /\ fresh' \subseteq Images /\ alive' \subseteq Images /\ quit' \in BOOLEAN
  /\ UNCHANGED <<reqs, queue, completed, signaled, mutex, proc, gleft, hand>>

\* Every operation but Close begins with a program of plain instructions, which name
\* images that are open.
LEMMA OperationBegins ==
  TypeOK /\ Operation => Begins(NamedInstr(alive')) \/ \E i \in Images : Close(i)
<1> SUFFICES ASSUME TypeOK, Operation, ~\E i \in Images : Close(i)
             PROVE  Begins(NamedInstr(alive'))
  OBVIOUS
<1> DEFINE N == NamedInstr(alive')
<1>1. ASSUME NEW name, NEW i \in Images, NEW n, NEW program, Begin(name, i, n, program)
      PROVE  /\ i \in Images \cap alive'
             /\ program \in Seq(N) => Begins(N)
  <2>1. i \in alive /\ alive' = alive
    BY <1>1 DEF Begin, shared
  <2>2. Begins(N) <=> program \in Seq(N)
    BY <1>1 DEF Begin, Begins, TypeOK, shared
  <2>3. QED
    BY <2>1, <2>2
<1> DEFINE O == Images \cap alive'
<1>u. ASSUME NEW i \in O, NEW p \in Pipelines \cup {NoPipe}
      PROVE  UpdateProgram(i, p) \in Seq(N) /\ SyncUpdateProgram(i, p) \in Seq(N)
  BY UpdateProgramType, SyncUpdateProgramType
<1>s. ASSUME NEW i \in O, NEW kind \in Kinds, NEW p \in Pipelines \cup {NoPipe}
      PROVE  Submit(kind, i, i, p) \in Seq(N)
  BY SubmitType
<1>o. ASSUME NEW i \in O
      PROVE  /\ \A name \in {"lock", "unlock", "sample"} : On(name, i) \in Seq(N)
             /\ \A name \in {"reset", "wait"}, c \in Conds : OnCond(name, c, i) \in Seq(N)
  BY OnType, OnCondType
<1> HIDE DEF N
<1>2. ASSUME NEW i \in Images, Open(i) PROVE Begins(N)
  <2>1. i \in O /\ alive' \subseteq Images /\ fresh' \subseteq Images
    BY <1>2 DEF Open, TypeOK
  <2>2. UpdateProgram(i, NoPipe) \in Seq(N)
    BY <1>u, <2>1
  <2>3. QED
    BY <1>2, <2>1, <2>2 DEF Open, Begins, TypeOK
<1>3. ASSUME NEW i \in Images, NEW p \in Pipelines \cup {NoPipe}, Update(i, p) \/ SyncUpdate(i, p)
      PROVE  Begins(N)
  BY <1>1, <1>u, <1>3 DEF Update, SyncUpdate, N
<1>4. ASSUME NEW i \in Images, NEW p \in Pipelines, SpotWB(i, p) PROVE Begins(N)
  <2>1. i \in O
    BY <1>1, <1>4 DEF SpotWB, N
  <2>2. SyncUpdateProgram(i, p) \o On("sample", i) \in Seq(N)
    BY <1>u, <1>o, <2>1, ConcatProperties
  <2>3. QED
    BY <1>1, <1>4, <2>2 DEF SpotWB, N
<1>5. ASSUME NEW i \in Images, LockedUpdate(i) PROVE Begins(N)
  <2>1. i \in O
    BY <1>1, <1>5 DEF LockedUpdate, N
  <2>2. On("lock", i) \o UpdateProgram(i, NoPipe) \in Seq(N)
    BY <1>u, <1>o, <2>1, ConcatProperties
  <2>3. On("lock", i) \o UpdateProgram(i, NoPipe) \o On("unlock", i) \in Seq(N)
    BY <1>o, <2>1, <2>2, ConcatProperties
  <2>4. QED
    BY <1>1, <1>5, <2>3 DEF LockedUpdate, N
<1>6. ASSUME NEW i \in Images, NEW p \in Pipelines, Zoom(i, p) PROVE Begins(N)
  <2>1. i \in O
    BY <1>1, <1>6 DEF Zoom, N
  <2>2. Submit("SET_LEVEL", i, i, p) \in Seq(N)
    BY <1>s, <2>1 DEF Kinds
  <2>3. Submit("SET_LEVEL", i, i, p) \o UpdateProgram(i, NoPipe) \in Seq(N)
    BY <1>u, <2>1, <2>2, ConcatProperties
  <2>4. QED
    BY <1>1, <1>6, <2>3 DEF Zoom, N
<1>7. ASSUME NEW i \in Images, NEW junk \in Garbage, Redraw(i, junk) PROVE Begins(N)
  <2>1. i \in O
    BY <1>1, <1>7 DEF Redraw, N
  <2>2. /\ Submit("REDRAW_START", junk, i, NoPipe) \in Seq(N)
        /\ Submit("REDRAW_END", junk, i, NoPipe) \in Seq(N)
    BY <2>1, SubmitType, GarbageAssumption DEF Kinds, Unset, N
  <2>3. Submit("REDRAW", i, i, NoPipe) \in Seq(N)
    BY <1>s, <2>1 DEF Kinds
  <2>4. Submit("REDRAW_START", junk, i, NoPipe) \o Submit("REDRAW", i, i, NoPipe) \in Seq(N)
    BY <2>2, <2>3, ConcatProperties
  <2>5. Submit("REDRAW_START", junk, i, NoPipe) \o Submit("REDRAW", i, i, NoPipe)
          \o Submit("REDRAW_END", junk, i, NoPipe) \in Seq(N)
    BY <2>2, <2>4, ConcatProperties
  <2>6. QED
    BY <1>1, <1>7, <2>5 DEF Redraw, N
<1>9. ASSUME NEW i \in Images, MoveLayer(i) PROVE Begins(N)
  <2>1. i \in O
    BY <1>1, <1>9 DEF MoveLayer, N
  <2>2. Submit("MOVE_LAYER", i, i, NoPipe) \in Seq(N)
    BY <1>s, <2>1 DEF Kinds
  <2>3. Submit("MOVE_LAYER", i, i, NoPipe) \o UpdateProgram(i, NoPipe) \in Seq(N)
    BY <1>u, <2>1, <2>2, ConcatProperties
  <2>4. QED
    BY <1>1, <1>9, <2>3 DEF MoveLayer, N
<1>10. ASSUME NEW i \in Images, RemoveLayer(i) PROVE Begins(N)
  <2>0. i \in O
    BY <1>1, <1>10 DEF RemoveLayer, N
  <2>1. /\ OnCond("reset", "remove", i) \in Seq(N)
        /\ Submit("REMOVE_LAYER", i, i, NoPipe) \in Seq(N)
        /\ OnCond("wait", "remove", i) \in Seq(N)
        /\ SyncUpdateProgram(i, NoPipe) \in Seq(N)
    BY <1>u, <1>s, <1>o, <2>0 DEF Kinds, Conds
  <2>2. OnCond("reset", "remove", i) \o Submit("REMOVE_LAYER", i, i, NoPipe) \in Seq(N)
    BY <2>1, ConcatProperties
  <2>3. OnCond("reset", "remove", i) \o Submit("REMOVE_LAYER", i, i, NoPipe)
          \o OnCond("wait", "remove", i) \in Seq(N)
    BY <2>1, <2>2, ConcatProperties
  <2>4. OnCond("reset", "remove", i) \o Submit("REMOVE_LAYER", i, i, NoPipe)
          \o OnCond("wait", "remove", i) \o SyncUpdateProgram(i, NoPipe) \in Seq(N)
    BY <2>1, <2>3, ConcatProperties
  <2>5. QED
    BY <1>1, <1>10, <2>4 DEF RemoveLayer, N
<1>11. ASSUME NEW i \in Images, Export(i) PROVE Begins(N)
  <2>0. i \in O
    BY <1>1, <1>11 DEF Export, N
  <2>1. Submit("EXPORT", i, i, NoPipe) \in Seq(N) /\ OnCond("wait", "export", i) \in Seq(N)
    BY <1>s, <1>o, <2>0 DEF Kinds, Conds
  <2>2. Submit("EXPORT", i, i, NoPipe) \o OnCond("wait", "export", i) \in Seq(N)
    BY <2>1, ConcatProperties
  <2>3. QED
    BY <1>1, <1>11, <2>2 DEF Export, N
<1>12. ASSUME NEW junk \in Garbage, Quit(junk) PROVE Begins(N)
  <2>1. Submit("PROCESSOR_END", junk, NoImage, NoPipe) \in Seq(N)
    BY SubmitType, GarbageAssumption DEF Kinds, Unset, N
  <2>2. << [do |-> "join"] >> \in Seq(N)
    BY DEF NamedInstr, PlainInstr, Instr, N
  <2>3. todo' \in Seq(N)
    BY <1>12, <2>1, <2>2, ConcatProperties DEF Quit
  <2>4. QED
    BY <1>12, <2>3 DEF Quit, Begins, TypeOK, shared
<1>13. QED
  BY <1>2, <1>3, <1>4, <1>5, <1>6, <1>7, <1>9, <1>10, <1>11, <1>12 DEF Operation, N

\* Close begins with a program of the right type.
LEMMA CloseBegins ==
  ASSUME NEW i \in Images, TypeOK, Close(i)
  PROVE  Begins(Instr)
<1>1. << [do |-> "settle"], [do |-> "length"] >> \in Seq(Instr)
  BY DEF Instr
<1>0. On("drain", i) \in Seq(Instr) /\ On("destroy", i) \in Seq(Instr)
  BY DEF On, Instr
<1>2. << [do |-> "settle"], [do |-> "length"] >> \o On("drain", i) \in Seq(Instr)
  BY <1>1, <1>0, ConcatProperties
<1>3. << [do |-> "settle"], [do |-> "length"] >> \o On("drain", i) \o On("destroy", i)
          \in Seq(Instr)
  BY <1>2, <1>0, ConcatProperties
<1>4. QED
  BY <1>3 DEF Close, Begin, Begins, TypeOK, shared

\* An operation keeps the types.
LEMMA OperationType == TypeOK /\ Operation => TypeOK'
<1> SUFFICES ASSUME TypeOK, Operation PROVE TypeOK'
  OBVIOUS
<1>1. Begins(Instr)
  <2>1. NamedInstr(alive') \subseteq Instr
    BY DEF NamedInstr, PlainInstr
  <2>2. Begins(NamedInstr(alive')) => Begins(Instr)
    BY <2>1, SeqMonotonic DEF Begins
  <2>3. QED
    BY <2>2, OperationBegins, CloseBegins
<1>2. QED
  BY <1>1 DEF Begins, TypeOK, proc

\* So does every step.
LEMMA TypeStep == TypeOK /\ [Next]_vars => TypeOK'
<1> SUFFICES ASSUME TypeOK, [Next]_vars PROVE TypeOK'
  OBVIOUS
<1>1. CASE Rest \/ UNCHANGED vars
  BY <1>1 DEF Rest, TypeOK, vars, shared, proc, gui
<1>2. QED
  BY <1>1, ProcessorType, GuiType, OperationType DEF Next

\* Every variable of the queue and of the two threads always has its type, and
\* the loops of optimize_requests are entered only with something to go over.
THEOREM TypeCorrect == Spec => []TypeOK
BY InitType, TypeStep, PTL DEF Spec

-----------------------------------------------------------------------------
(* Order in sequences of numbers *)

\* The tail of an increasing sequence is increasing and comes after the head;
\* what comes before a sequence comes before its head and its tail, and what
\* comes after it comes after both.
LEMMA OrderOfTail ==
  ASSUME NEW s \in Seq(Nat), s # <<>>
  PROVE  /\ Increasing(s) => /\ Increasing(Tail(s))
                             /\ \A n \in 1..Len(Tail(s)) : Head(s) < Tail(s)[n]
         /\ \A t \in Seq(Nat) :
              /\ Before(t, s) => /\ Before(t, Tail(s))
                                 /\ \A n \in 1..Len(t) : t[n] < Head(s)
              /\ Before(s, t) => /\ Before(Tail(s), t)
                                 /\ \A n \in 1..Len(t) : Head(s) < t[n]
         /\ \A b \in Nat : (\A n \in 1..Len(s) : s[n] <= b) =>
              Head(s) <= b /\ \A n \in 1..Len(Tail(s)) : Tail(s)[n] <= b
<1> DEFINE u == Tail(s)
<1>1. /\ Len(s) \in Nat \ {0} /\ Head(s) = s[1] /\ Len(u) = Len(s) - 1
      /\ \A n \in 1..(Len(s) - 1) : u[n] = s[n + 1]
  BY HeadTail
<1>2. 1 \in 1..Len(s) /\ \A n \in 1..Len(u) : n + 1 \in 1..Len(s) /\ u[n] = s[n + 1] /\ 1 < n + 1
  BY <1>1
<1> HIDE DEF u
<1>3. Increasing(s) => Increasing(u) /\ \A n \in 1..Len(u) : Head(s) < u[n]
  <2> SUFFICES ASSUME Increasing(s)
               PROVE  Increasing(u) /\ \A n \in 1..Len(u) : Head(s) < u[n]
    OBVIOUS
  <2>1. ASSUME NEW m \in 1..Len(u), NEW n \in 1..Len(u), m < n PROVE u[m] < u[n]
    <3>1. m + 1 < n + 1
      BY <1>1, <2>1
    <3>2. QED
      BY <1>2, <3>1 DEF Increasing
  <2>2. QED
    BY <1>1, <1>2, <2>1 DEF Increasing
<1>4. ASSUME NEW t \in Seq(Nat), Before(t, s)
      PROVE  Before(t, u) /\ \A n \in 1..Len(t) : t[n] < Head(s)
  BY <1>1, <1>2, <1>4 DEF Before
<1>5. ASSUME NEW t \in Seq(Nat), Before(s, t)
      PROVE  Before(u, t) /\ \A n \in 1..Len(t) : Head(s) < t[n]
  BY <1>1, <1>2, <1>5 DEF Before
<1>6. ASSUME NEW b \in Nat, \A n \in 1..Len(s) : s[n] <= b
      PROVE  Head(s) <= b /\ \A n \in 1..Len(u) : u[n] <= b
  BY <1>1, <1>2, <1>6
<1>7. QED
  BY <1>3, <1>4, <1>5, <1>6 DEF u

\* A number above every element may be appended to an increasing sequence, and
\* the result comes before (after) whatever both come before (after).
LEMMA OrderOfAppend ==
  ASSUME NEW s \in Seq(Nat), NEW e \in Nat
  PROVE  LET u == Append(s, e) IN
         /\ Increasing(s) /\ (\A n \in 1..Len(s) : s[n] < e) => Increasing(u)
         /\ \A t \in Seq(Nat) :
              /\ Before(t, s) /\ (\A n \in 1..Len(t) : t[n] < e) => Before(t, u)
              /\ Before(s, t) /\ (\A n \in 1..Len(t) : e < t[n]) => Before(u, t)
         /\ \A b \in Nat : e <= b /\ (\A n \in 1..Len(s) : s[n] <= b) =>
              \A n \in 1..Len(u) : u[n] <= b
<1> DEFINE u == Append(s, e)
<1>1. /\ Len(s) \in Nat /\ Len(u) = Len(s) + 1 /\ u[Len(s) + 1] = e
      /\ \A n \in 1..Len(s) : u[n] = s[n] /\ s[n] \in Nat
  BY AppendProperties, LenProperties, ElementOfSeq
<1>2. \A n \in 1..Len(u) : (n \in 1..Len(s) /\ u[n] = s[n]) \/ (n = Len(s) + 1 /\ u[n] = e)
  <2>1. ASSUME NEW n \in 1..Len(u) PROVE n \in 1..Len(s) \/ n = Len(s) + 1
    BY <1>1
  <2>2. QED
    BY <1>1, <2>1
<1> HIDE DEF u
<1>3. ASSUME Increasing(s), \A n \in 1..Len(s) : s[n] < e PROVE Increasing(u)
  <2>1. ASSUME NEW m \in 1..Len(u), NEW n \in 1..Len(u), m < n PROVE u[m] < u[n]
    <3>1. m \in 1..Len(s) /\ u[m] = s[m]
      BY <1>1, <1>2, <2>1
    <3>2. CASE n \in 1..Len(s)
      BY <1>1, <1>3, <2>1, <3>1, <3>2 DEF Increasing
    <3>3. CASE n = Len(s) + 1
      BY <1>1, <1>3, <3>1, <3>3
    <3>4. QED
      BY <1>2, <3>2, <3>3
  <2>2. QED
    BY <2>1 DEF Increasing
<1>4. ASSUME NEW t \in Seq(Nat), Before(t, s), \A n \in 1..Len(t) : t[n] < e PROVE Before(t, u)
  BY <1>2, <1>4 DEF Before
<1>5. ASSUME NEW t \in Seq(Nat), Before(s, t), \A n \in 1..Len(t) : e < t[n] PROVE Before(u, t)
  BY <1>2, <1>5 DEF Before
<1>6. ASSUME NEW b \in Nat, e <= b, \A n \in 1..Len(s) : s[n] <= b
      PROVE  \A n \in 1..Len(u) : u[n] <= b
  BY <1>2, <1>6
<1>7. QED
  BY <1>3, <1>4, <1>5, <1>6 DEF u

\* The front of an increasing sequence is increasing and comes before the last
\* element; what comes before (after) a sequence comes before (after) both.
LEMMA OrderOfFront ==
  ASSUME NEW s \in Seq(Nat), s # <<>>
  PROVE  /\ Increasing(s) => /\ Increasing(Front(s))
                             /\ \A n \in 1..Len(Front(s)) : Front(s)[n] < Last(s)
         /\ \A t \in Seq(Nat) :
              /\ Before(t, s) => /\ Before(t, Front(s))
                                 /\ \A n \in 1..Len(t) : t[n] < Last(s)
              /\ Before(s, t) => /\ Before(Front(s), t)
                                 /\ \A n \in 1..Len(t) : Last(s) < t[n]
         /\ \A b \in Nat : (\A n \in 1..Len(s) : s[n] <= b) =>
              Last(s) <= b /\ \A n \in 1..Len(Front(s)) : Front(s)[n] <= b
<1> DEFINE u == Front(s)
<1>1. /\ Len(s) \in Nat \ {0} /\ Last(s) = s[Len(s)] /\ Len(u) = Len(s) - 1
      /\ \A n \in 1..(Len(s) - 1) : u[n] = s[n]
  BY FrontLast
<1>2. Len(s) \in 1..Len(s) /\ \A n \in 1..Len(u) : n \in 1..Len(s) /\ u[n] = s[n] /\ n < Len(s)
  BY <1>1
<1> HIDE DEF u
<1>3. Increasing(s) => Increasing(u) /\ \A n \in 1..Len(u) : u[n] < Last(s)
  BY <1>1, <1>2 DEF Increasing
<1>4. ASSUME NEW t \in Seq(Nat), Before(t, s)
      PROVE  Before(t, u) /\ \A n \in 1..Len(t) : t[n] < Last(s)
  BY <1>1, <1>2, <1>4 DEF Before
<1>5. ASSUME NEW t \in Seq(Nat), Before(s, t)
      PROVE  Before(u, t) /\ \A n \in 1..Len(t) : Last(s) < t[n]
  BY <1>1, <1>2, <1>5 DEF Before
<1>6. ASSUME NEW b \in Nat, \A n \in 1..Len(s) : s[n] <= b
      PROVE  Last(s) <= b /\ \A n \in 1..Len(u) : u[n] <= b
  BY <1>1, <1>2, <1>6
<1>7. QED
  BY <1>3, <1>4, <1>5, <1>6 DEF u

\* The same for push_front: a number below every element may be put before an
\* increasing sequence.
LEMMA OrderOfCons ==
  ASSUME NEW s \in Seq(Nat), NEW e \in Nat
  PROVE  LET u == <<e>> \o s IN
         /\ Increasing(s) /\ (\A n \in 1..Len(s) : e < s[n]) => Increasing(u)
         /\ \A t \in Seq(Nat) :
              /\ Before(t, s) /\ (\A n \in 1..Len(t) : t[n] < e) => Before(t, u)
              /\ Before(s, t) /\ (\A n \in 1..Len(t) : e < t[n]) => Before(u, t)
         /\ \A b \in Nat : e <= b /\ (\A n \in 1..Len(s) : s[n] <= b) =>
              \A n \in 1..Len(u) : u[n] <= b
<1> DEFINE u == <<e>> \o s
<1>0. <<e>> \in Seq(Nat) /\ Len(<<e>>) = 1 /\ <<e>>[1] = e
  OBVIOUS
<1>1. /\ Len(s) \in Nat /\ Len(u) = Len(s) + 1 /\ u[1] = e
      /\ \A n \in 1..Len(u) : n # 1 => u[n] = s[n - 1]
  BY <1>0, ConcatProperties, LenProperties
<1>2. \A n \in 1..Len(u) : (n = 1 /\ u[n] = e) \/ (n - 1 \in 1..Len(s) /\ u[n] = s[n - 1])
  <2>1. ASSUME NEW n \in 1..Len(u) PROVE n - 1 \in 1..Len(s) \/ n = 1
    BY <1>1
  <2>2. QED
    BY <1>1, <2>1
<1> HIDE DEF u
<1>3. ASSUME Increasing(s), \A n \in 1..Len(s) : e < s[n] PROVE Increasing(u)
  <2>1. ASSUME NEW m \in 1..Len(u), NEW n \in 1..Len(u), m < n PROVE u[m] < u[n]
    <3>1. n - 1 \in 1..Len(s) /\ u[n] = s[n - 1]
      BY <1>1, <1>2, <2>1
    <3>2. CASE m = 1
      BY <1>1, <1>3, <3>1, <3>2
    <3>3. CASE m - 1 \in 1..Len(s) /\ u[m] = s[m - 1]
      <4>1. m - 1 < n - 1
        BY <1>1, <2>1
      <4>2. QED
        BY <1>3, <3>1, <3>3, <4>1 DEF Increasing
    <3>4. QED
      BY <1>2, <3>2, <3>3
  <2>2. QED
    BY <2>1 DEF Increasing
<1>4. ASSUME NEW t \in Seq(Nat), Before(t, s), \A n \in 1..Len(t) : t[n] < e PROVE Before(t, u)
  BY <1>2, <1>4 DEF Before
<1>5. ASSUME NEW t \in Seq(Nat), Before(s, t), \A n \in 1..Len(t) : e < t[n] PROVE Before(u, t)
  BY <1>2, <1>5 DEF Before
<1>6. ASSUME NEW b \in Nat, e <= b, \A n \in 1..Len(s) : s[n] <= b
      PROVE  \A n \in 1..Len(u) : u[n] <= b
  BY <1>2, <1>6
<1>7. QED
  BY <1>3, <1>4, <1>5, <1>6 DEF u

-----------------------------------------------------------------------------
(* Order of the requests *)

\* Every request in s has been submitted.
Submitted(s) == \A n \in 1..Len(s) : s[n] <= Len(reqs)

\* The request the processor has taken from the batch comes after all that was
\* handled and before all that is left, and it works on nothing else meanwhile.
InHand ==
  /\ pc \in {"pop", "length", "more"} => batch = <<>>
  /\ pc \notin {"length", "more", "scan"} => temp = <<>>
  /\ pc \in {"lock", "work"} => /\ cur <= Len(reqs)
                                /\ \A n \in 1..Len(handled) : handled[n] < cur
                                /\ \A n \in 1..Len(batch) : cur < batch[n]
                                /\ \A n \in 1..Len(queue) : cur < queue[n]

\* InOrder with what makes it inductive, as long as the GUI thread does not
\* drain the queue.
OrderInv ==
  /\ InOrder
  /\ Submitted(handled) /\ Submitted(temp) /\ Submitted(batch) /\ Submitted(queue)
  /\ InHand
  /\ hand = 0 /\ todo \in Seq(PlainInstr)

\* The variables InOrder speaks of, and the requests they refer to.
orderVars == <<reqs, queue, temp, batch, handled, hand>>

\* A step that leaves those variables alone preserves the order.
LEMMA OrderStutter ==
  ASSUME OrderInv, UNCHANGED orderVars, InHand', todo' \in Seq(PlainInstr)
  PROVE  OrderInv'
BY DEF OrderInv, InOrder, Submitted, Increasing, Before, orderVars

\* The initial state, where everything is empty, is in order.
LEMMA OrderInit == Init => OrderInv
BY DEF Init, OrderInv, InOrder, InHand, Submitted, Increasing, Before

\* PopFirst and PopMore move the head of the queue to the end of temp_queue.
LEMMA OrderPop ==
  ASSUME TypeOK, OrderInv, PopFirst \/ PopMore
  PROVE  OrderInv'
<1>1. /\ queue \in Seq(Nat) /\ queue # <<>> /\ temp \in Seq(Nat) /\ batch \in Seq(Nat)
      /\ handled \in Seq(Nat) /\ Head(queue) \in Nat /\ Len(reqs) \in Nat
  BY HeadTail, LenProperties DEF TypeOK, PopFirst, PopMore
<1>2. /\ queue' = Tail(queue) /\ temp' = Append(temp, Head(queue))
      /\ batch = <<>> /\ batch' = batch /\ handled' = handled /\ reqs' = reqs
      /\ hand' = hand /\ todo' = todo
      /\ pc' \in {"length", "more", "scan"}
  <2>1. CASE PopFirst
    <3>1. temp = <<>> /\ batch = <<>>
      BY <2>1 DEF PopFirst, OrderInv, InHand
    <3>2. <<Head(queue)>> = Append(<<>>, Head(queue))
      OBVIOUS
    <3>3. QED
      BY <2>1, <3>1, <3>2 DEF PopFirst, gui
  <2>2. CASE PopMore
    BY <2>2 DEF PopMore, gui, OrderInv, InHand
  <2>3. QED
    BY <2>1, <2>2
<1>3. /\ Increasing(queue) /\ Increasing(temp) /\ Increasing(handled)
      /\ Before(handled, temp) /\ Before(handled, queue) /\ Before(temp, queue)
      /\ Submitted(queue) /\ Submitted(temp) /\ Submitted(handled)
  BY DEF OrderInv, InOrder
<1>4. /\ Increasing(queue')
      /\ \A n \in 1..Len(queue') : Head(queue) < queue'[n]
      /\ Before(handled, queue') /\ Before(temp, queue')
      /\ \A n \in 1..Len(handled) : handled[n] < Head(queue)
      /\ \A n \in 1..Len(temp) : temp[n] < Head(queue)
      /\ Head(queue) <= Len(reqs)
      /\ \A n \in 1..Len(queue') : queue'[n] <= Len(reqs)
  BY <1>1, <1>2, <1>3, OrderOfTail DEF Submitted
<1>5. queue' \in Seq(Nat)
  BY <1>1, <1>2, HeadTail
<1>6. /\ Increasing(temp') /\ Before(handled, temp') /\ Before(temp', queue')
      /\ \A n \in 1..Len(temp') : temp'[n] <= Len(reqs)
  BY <1>1, <1>2, <1>3, <1>4, <1>5, OrderOfAppend DEF Submitted
<1>7. InOrder'
  BY <1>2, <1>3, <1>4, <1>6 DEF InOrder, Increasing, Before
<1>8. Submitted(handled)' /\ Submitted(temp)' /\ Submitted(batch)' /\ Submitted(queue)'
  BY <1>2, <1>3, <1>4, <1>6 DEF Submitted
<1>9. InHand'
  BY <1>2 DEF InHand
<1>10. QED
  BY <1>2, <1>7, <1>8, <1>9 DEF OrderInv

\* One turn of the reverse walk moves the last request of temp_queue to the
\* front of the batch, or drops it.
LEMMA OrderScan ==
  ASSUME TypeOK, OrderInv, Scan
  PROVE  OrderInv'
<1> DEFINE k == Last(temp)
<1>1. /\ queue \in Seq(Nat) /\ temp \in Seq(Nat) /\ temp # <<>> /\ batch \in Seq(Nat)
      /\ handled \in Seq(Nat) /\ Len(reqs) \in Nat /\ k \in Nat
      /\ Front(temp) \in Seq(Nat)
  BY FrontLast, LenProperties DEF TypeOK, Scan
<1>2. /\ batch' = batch \/ batch' = <<k>> \o batch
      /\ queue' = queue /\ handled' = handled /\ hand' = hand /\ todo' = todo
      /\ temp' = Front(temp)
  BY DEF Scan, PushFront, shared, gui
<1>3. Len(reqs') = Len(reqs)
  BY DEF Scan, shared
<1>4. /\ Increasing(queue) /\ Increasing(temp) /\ Increasing(batch) /\ Increasing(handled)
      /\ Before(handled, temp) /\ Before(handled, batch) /\ Before(handled, queue)
      /\ Before(temp, batch) /\ Before(temp, queue) /\ Before(batch, queue)
      /\ Submitted(queue) /\ Submitted(temp) /\ Submitted(batch) /\ Submitted(handled)
  BY DEF OrderInv, InOrder
<1> HIDE DEF k
<1>5. /\ Increasing(temp')
      /\ \A n \in 1..Len(temp') : temp'[n] < k
      /\ Before(handled, temp') /\ Before(temp', batch) /\ Before(temp', queue)
      /\ \A n \in 1..Len(handled) : handled[n] < k
      /\ \A n \in 1..Len(batch) : k < batch[n]
      /\ \A n \in 1..Len(queue) : k < queue[n]
      /\ k <= Len(reqs)
      /\ \A n \in 1..Len(temp') : temp'[n] <= Len(reqs)
  BY <1>1, <1>2, <1>4, OrderOfFront DEF Submitted, k
<1>6. /\ Increasing(batch') /\ Before(handled, batch') /\ Before(temp', batch')
      /\ Before(batch', queue)
      /\ \A n \in 1..Len(batch') : batch'[n] <= Len(reqs)
  <2>1. CASE batch' = batch
    BY <1>4, <1>5, <2>1 DEF Submitted
  <2>2. CASE batch' = <<k>> \o batch
    BY <1>1, <1>2, <1>4, <1>5, <2>2, OrderOfCons DEF Submitted
  <2>3. QED
    BY <1>2, <2>1, <2>2
<1>7. InOrder'
  BY <1>2, <1>4, <1>5, <1>6 DEF InOrder, Increasing, Before
<1>8. Submitted(handled)' /\ Submitted(temp)' /\ Submitted(batch)' /\ Submitted(queue)'
  BY <1>2, <1>3, <1>4, <1>5, <1>6 DEF Submitted
<1>9. InHand'
  <2>1. pc' = "scan" \/ (pc' = "next" /\ temp' = <<>>)
    <3>1. pc' = IF Len(temp) = 1 THEN "next" ELSE "scan"
      BY DEF Scan
    <3>2. Len(temp) = 1 => Len(temp') = 0
      <4>1. Len(Front(temp)) = Len(temp) - 1
        BY <1>1, FrontLast
      <4>2. QED
        BY <1>2, <4>1
    <3>3. Len(temp') = 0 => temp' = <<>>
      BY <1>1, <1>2, EmptySeq
    <3>4. QED
      BY <3>1, <3>2, <3>3
  <2>2. QED
    BY <2>1 DEF InHand
<1>10. QED
  BY <1>2, <1>7, <1>8, <1>9 DEF OrderInv

\* Dequeue takes the head of the batch in hand.
LEMMA OrderDequeue ==
  ASSUME TypeOK, OrderInv, Dequeue
  PROVE  OrderInv'
<1>1. /\ queue \in Seq(Nat) /\ batch \in Seq(Nat) /\ batch # <<>> /\ handled \in Seq(Nat)
      /\ Len(reqs) \in Nat
  BY LenProperties DEF TypeOK, Dequeue
<1>2. /\ batch' = Tail(batch) /\ cur' = Head(batch)
      /\ queue' = queue /\ handled' = handled /\ hand' = hand /\ todo' = todo
      /\ reqs' = reqs /\ temp' = temp /\ pc' \in {"lock", "work"} /\ temp = <<>>
  BY DEF Dequeue, shared, gui, OrderInv, InHand
<1>3. /\ Increasing(queue) /\ Increasing(temp) /\ Increasing(batch) /\ Increasing(handled)
      /\ Before(handled, temp) /\ Before(handled, batch) /\ Before(handled, queue)
      /\ Before(temp, queue) /\ Before(batch, queue)
      /\ Submitted(queue) /\ Submitted(temp) /\ Submitted(batch) /\ Submitted(handled)
  BY DEF OrderInv, InOrder
<1>4. /\ Increasing(batch') /\ Before(handled, batch') /\ Before(batch', queue)
      /\ cur' <= Len(reqs)
      /\ \A n \in 1..Len(handled) : handled[n] < cur'
      /\ \A n \in 1..Len(batch') : cur' < batch'[n]
      /\ \A n \in 1..Len(queue) : cur' < queue[n]
      /\ \A n \in 1..Len(batch') : batch'[n] <= Len(reqs)
  BY <1>1, <1>2, <1>3, OrderOfTail DEF Submitted
<1>5. Before(temp, batch')
  BY <1>2 DEF Before
<1>6. InOrder'
  BY <1>2, <1>3, <1>4, <1>5 DEF InOrder, Increasing, Before
<1>7. Submitted(handled)' /\ Submitted(temp)' /\ Submitted(batch)' /\ Submitted(queue)'
  BY <1>2, <1>3, <1>4 DEF Submitted
<1>8. InHand'
  BY <1>2, <1>4 DEF InHand
<1>9. QED
  BY <1>2, <1>6, <1>7, <1>8 DEF OrderInv

\* Handling the request in hand appends it to those handled.
LEMMA OrderHandle ==
  ASSUME TypeOK, OrderInv, HandleLocked \/ HandleUnlocked
  PROVE  OrderInv'
<1>1. /\ queue \in Seq(Nat) /\ batch \in Seq(Nat) /\ handled \in Seq(Nat)
      /\ Len(reqs) \in Nat /\ cur \in Nat
  BY LenProperties DEF TypeOK
<1>2. /\ pc = "work" /\ temp = <<>> /\ handled' = Append(handled, cur)
      /\ batch' = batch /\ queue' = queue /\ hand' = hand /\ todo' = todo
      /\ reqs' = reqs /\ temp' = temp /\ pc' \in {"unlock", "next"}
  BY DEF HandleLocked, HandleUnlocked, Handled, shared, gui, OrderInv, InHand
<1>3. /\ Increasing(queue) /\ Increasing(temp) /\ Increasing(batch) /\ Increasing(handled)
      /\ Before(handled, batch) /\ Before(handled, queue)
      /\ Before(temp, batch) /\ Before(temp, queue) /\ Before(batch, queue)
      /\ Submitted(queue) /\ Submitted(temp) /\ Submitted(batch) /\ Submitted(handled)
      /\ cur <= Len(reqs)
      /\ \A n \in 1..Len(handled) : handled[n] < cur
      /\ \A n \in 1..Len(batch) : cur < batch[n]
      /\ \A n \in 1..Len(queue) : cur < queue[n]
  BY <1>2 DEF OrderInv, InOrder, InHand
<1>4. /\ Increasing(handled') /\ Before(handled', batch) /\ Before(handled', queue)
      /\ \A n \in 1..Len(handled') : handled'[n] <= Len(reqs)
  BY <1>1, <1>2, <1>3, OrderOfAppend DEF Submitted
<1>5. Before(handled', temp)
  BY <1>2 DEF Before
<1>6. InOrder'
  BY <1>2, <1>3, <1>4, <1>5 DEF InOrder, Increasing, Before
<1>7. Submitted(handled)' /\ Submitted(temp)' /\ Submitted(batch)' /\ Submitted(queue)'
  BY <1>2, <1>3, <1>4 DEF Submitted
<1>8. InHand'
  BY <1>2 DEF InHand
<1>9. QED
  BY <1>2, <1>6, <1>7, <1>8 DEF OrderInv

\* What is left of a plain program is plain.
LEMMA PlainTail ==
  ASSUME todo \in Seq(PlainInstr), todo # <<>>
  PROVE  Head(todo) \in PlainInstr /\ Tail(todo) \in Seq(PlainInstr)
BY HeadTail

\* A new request is above all the others, and goes to the end of the queue.
LEMMA OrderPush ==
  ASSUME TypeOK, OrderInv, Push
  PROVE  OrderInv'
<1> DEFINE e == Len(reqs) + 1
<1>1. /\ queue \in Seq(Nat) /\ temp \in Seq(Nat) /\ batch \in Seq(Nat) /\ handled \in Seq(Nat)
      /\ Len(reqs) \in Nat /\ e \in Nat
  BY LenProperties DEF TypeOK
<1>2. /\ queue' = Append(queue, e) /\ batch' = batch /\ handled' = handled /\ temp' = temp
      /\ hand' = hand /\ pc' = pc /\ cur' = cur /\ Len(reqs') = Len(reqs) + 1
  <2>1. reqs \in Seq(Request) /\ reqs' = Append(reqs, Head(todo).req)
    BY DEF TypeOK, Push
  <2>2. Len(reqs') = Len(reqs) + 1
    BY <2>1, LenProperties
  <2>3. QED
    BY <2>2 DEF Push, proc
<1>3. /\ Increasing(queue) /\ Increasing(temp) /\ Increasing(batch) /\ Increasing(handled)
      /\ Before(handled, temp) /\ Before(handled, batch) /\ Before(handled, queue)
      /\ Before(temp, batch) /\ Before(temp, queue) /\ Before(batch, queue)
      /\ Submitted(queue) /\ Submitted(temp) /\ Submitted(batch) /\ Submitted(handled)
      /\ InHand
  BY DEF OrderInv, InOrder
<1>4. \A s \in Seq(Nat) : Submitted(s) => \A n \in 1..Len(s) : s[n] < e
  <2>1. ASSUME NEW s \in Seq(Nat), Submitted(s), NEW n \in 1..Len(s) PROVE s[n] < e
    <3>1. s[n] \in Nat /\ s[n] <= Len(reqs)
      BY <2>1, ElementOfSeq DEF Submitted
    <3>2. QED
      BY <1>1, <3>1
  <2>2. QED
    BY <2>1
<1>5. \A s \in Seq(Nat) : Submitted(s) => \A n \in 1..Len(s) : s[n] <= e
  <2>1. ASSUME NEW s \in Seq(Nat), Submitted(s), NEW n \in 1..Len(s) PROVE s[n] <= e
    <3>1. s[n] \in Nat /\ s[n] < e
      BY <1>4, <2>1, ElementOfSeq
    <3>2. QED
      BY <1>1, <3>1
  <2>2. QED
    BY <2>1
<1>6. /\ Increasing(queue') /\ Before(handled, queue') /\ Before(temp, queue')
      /\ Before(batch, queue')
      /\ \A n \in 1..Len(queue') : queue'[n] <= e
  <2>1. e <= e
    BY <1>1
  <2> HIDE DEF e
  <2>2. QED
    BY <1>1, <1>2, <1>3, <1>4, <1>5, <2>1, OrderOfAppend
<1>7. InOrder'
  BY <1>2, <1>3, <1>6 DEF InOrder, Increasing, Before
<1>8. Submitted(handled)' /\ Submitted(temp)' /\ Submitted(batch)' /\ Submitted(queue)'
  BY <1>1, <1>2, <1>3, <1>5, <1>6 DEF Submitted
<1>9. InHand'
  <2>1. ASSUME pc \in {"lock", "work"}
        PROVE  cur <= Len(reqs') /\ \A n \in 1..Len(queue') : cur < queue'[n]
    <3>1. cur \in Nat /\ cur <= Len(reqs) /\ \A n \in 1..Len(queue) : cur < queue[n]
      BY <1>3, <2>1 DEF InHand, TypeOK
    <3>2. cur < e /\ cur <= Len(reqs')
      BY <1>1, <1>2, <3>1
    <3>3. <<cur>> \in Seq(Nat) /\ Len(<<cur>>) = 1 /\ <<cur>>[1] = cur
      BY <3>1
    <3>4. Before(<<cur>>, queue) /\ \A n \in 1..Len(<<cur>>) : <<cur>>[n] < e
      BY <3>1, <3>2, <3>3 DEF Before
    <3>5. Before(<<cur>>, queue')
      BY <1>1, <1>2, <3>3, <3>4, OrderOfAppend
    <3>6. 1 \in 1..Len(<<cur>>)
      BY <3>3
    <3>7. QED
      BY <3>2, <3>3, <3>5, <3>6 DEF Before
  <2>2. QED
    BY <1>2, <1>3, <2>1 DEF InHand
<1>10. todo' \in Seq(PlainInstr)
  BY PlainTail DEF OrderInv, Push, Do, Done
<1>11. QED
  BY <1>2, <1>7, <1>8, <1>9, <1>10 DEF OrderInv

\* The processor keeps the order.
LEMMA OrderProcessor == TypeOK /\ OrderInv /\ Processor => OrderInv'
<1> SUFFICES ASSUME TypeOK, OrderInv, Processor PROVE OrderInv'
  OBVIOUS
<1>1. CASE QueueLength
  <2>1. UNCHANGED orderVars /\ todo' = todo /\ pc = "length" /\ pc' \in {"scan", "more"}
        /\ (pc' = "more" => batch' = <<>>)
    BY <1>1 DEF QueueLength, shared, gui, orderVars, OrderInv, InHand
  <2>2. InHand'
    BY <2>1 DEF InHand
  <2>3. QED
    BY <2>1, <2>2, OrderStutter DEF OrderInv
<1>2. CASE LockImage
  <2>1. UNCHANGED orderVars /\ todo' = todo /\ cur' = cur /\ pc = "lock" /\ pc' = "work"
    BY <1>2 DEF LockImage, gui, orderVars
  <2>2. InHand'
    BY <2>1 DEF InHand, OrderInv, orderVars
  <2>3. QED
    BY <2>1, <2>2, OrderStutter DEF OrderInv
<1>3. CASE UnlockImage \/ SignalExport
  <2>1. UNCHANGED orderVars /\ todo' = todo /\ pc \in {"unlock", "signal"}
        /\ pc' \in {"signal", "next"}
    BY <1>3 DEF UnlockImage, SignalExport, gui, orderVars
  <2>2. InHand'
    BY <2>1 DEF InHand, OrderInv, orderVars
  <2>3. QED
    BY <2>1, <2>2, OrderStutter DEF OrderInv
<1>4. CASE EndBatch
  <2>1. UNCHANGED orderVars /\ todo' = todo /\ pc = "next" /\ pc' \in {"pop", "stopped"}
        /\ batch = <<>>
    BY <1>4 DEF EndBatch, gui, orderVars
  <2>2. InHand'
    BY <2>1 DEF InHand, OrderInv, orderVars
  <2>3. QED
    BY <2>1, <2>2, OrderStutter DEF OrderInv
<1>5. QED
  BY <1>1, <1>2, <1>3, <1>4, OrderPop, OrderScan, OrderDequeue, OrderHandle DEF Processor

\* So does the GUI thread, while its program does not drain the queue.
LEMMA OrderGui == TypeOK /\ OrderInv /\ Gui => OrderInv'
<1> SUFFICES ASSUME TypeOK, OrderInv, Gui PROVE OrderInv'
  OBVIOUS
<1>1. ~Do("drain") /\ hand = 0
  <2>1. todo # <<>> => Head(todo).do # "drain"
    BY PlainTail DEF OrderInv, PlainInstr
  <2>2. QED
    BY <2>1 DEF Do, OrderInv
<1>2. CASE Clear \/ Reset \/ Wait \/ Lock \/ Unlock \/ Sample \/ Settle \/ DrainLength
             \/ Destroy \/ Join
  <2>1. UNCHANGED orderVars /\ pc' = pc /\ cur' = cur /\ todo # <<>> /\ todo' = Tail(todo)
    BY <1>2 DEF Clear, Reset, Wait, Lock, Unlock, Sample, Settle, DrainLength, Destroy, Join,
                Do, Done, shared, proc, orderVars
  <2>2. InHand'
    BY <2>1 DEF InHand, OrderInv, orderVars
  <2>3. todo' \in Seq(PlainInstr)
    BY <2>1, PlainTail DEF OrderInv
  <2>4. QED
    BY <2>1, <2>2, <2>3, OrderStutter
<1>3. QED
  BY <1>1, <1>2, OrderPush DEF Gui, DrainPop, DrainPush, DrainEnd

\* No step disturbs the order, unless the user may close an image.
LEMMA OrderStep ==
  ASSUME "Close" \notin Ops, TypeOK, OrderInv, [Next]_vars
  PROVE  OrderInv'
<1>1. CASE Operation
  <2>1. ~ \E i \in Images : Close(i)
    BY DEF Close, Begin
  <2>2. Begins(PlainInstr)
    <3>1. Begins(NamedInstr(alive')) /\ NamedInstr(alive') \subseteq PlainInstr
      BY <1>1, <2>1, OperationBegins DEF NamedInstr
    <3>2. QED
      BY <3>1, SeqMonotonic DEF Begins
  <2>3. UNCHANGED orderVars /\ pc' = pc /\ cur' = cur /\ todo' \in Seq(PlainInstr)
    BY <2>2 DEF Begins, proc, orderVars
  <2>4. InHand'
    BY <2>3 DEF InHand, OrderInv, orderVars
  <2>5. QED
    BY <2>3, <2>4, OrderStutter
<1>2. CASE Rest \/ UNCHANGED vars
  <2>1. UNCHANGED orderVars /\ pc' = pc /\ cur' = cur /\ todo' = todo
    BY <1>2 DEF Rest, vars, shared, proc, gui, orderVars
  <2>2. InHand' /\ todo' \in Seq(PlainInstr)
    BY <2>1 DEF InHand, OrderInv, orderVars
  <2>3. QED
    BY <2>1, <2>2, OrderStutter
<1>3. QED
  BY <1>1, <1>2, OrderProcessor, OrderGui DEF Next

\* Unless the user closes an image while it is being processed, the requests of
\* all images are handled in the order they were submitted, each at most once.
THEOREM InOrderCorrect ==
  ASSUME "Close" \notin Ops
  PROVE  Spec => []InOrder
<1>1. TypeOK /\ OrderInv /\ [Next]_vars => OrderInv'
  BY OrderStep
<1>2. OrderInv => InOrder
  BY DEF OrderInv
<1>3. QED
  BY OrderInit, TypeCorrect, <1>1, <1>2, PTL DEF Spec
=============================================================================
