----------------------------- MODULE WaitsProofs ----------------------------
(***************************************************************************)
(* The waits of the GUI thread in ImageProcessor, for any images and       *)
(* pipelines, as long as no image is closed.  The export of an image and   *)
(* the removal of a layer are the last request sent until they are         *)
(* handled, and so no rebuild is put off past them (OnlyCoalesced).  A     *)
(* wait ends when everything sent before it is handled, but for the waits  *)
(* of a synchronous rebuild (WaitsAreExact).  No wait is for a signal that *)
(* will not come (NoLostWakeup).                                           *)
(***************************************************************************)
EXTENDS QueueProofs

\* The operations after which no condition is left signaled by another request.
ExactOperations ==
  {"Update", "LockedUpdate", "Zoom", "Redraw", "MoveLayer", "RemoveLayer", "Export"}

\* Nothing is left to be handled.
Settled == InFlight \subseteq ToSet(handled)

\* The instruction that waits for condition c of image i.
Waiting(x, c, i) == x.do = "wait" /\ x.cond = c /\ x.image = i
WaitsFor(c, i) == todo # <<>> /\ Waiting(Head(todo), c, i)

-----------------------------------------------------------------------------
(* The programs of the operations *)

\* An instruction that waits for no condition and sends no request to be waited for.
SimpleInstr ==
  {x \in PlainInstr : /\ x.do # "wait"
                      /\ x.do = "push" => x.req.kind \notin {"EXPORT", "REMOVE_LAYER"}}

LEMMA SubmitSimple ==
  ASSUME NEW kind \in Kinds \ {"EXPORT", "REMOVE_LAYER"}, NEW image \in Images \cup {NoImage},
         NEW owner \in Images \cup {NoImage}, NEW pipe \in Pipelines \cup {NoPipe}
  PROVE  Submit(kind, image, owner, pipe) \in Seq(SimpleInstr)
<1> DEFINE r == [kind |-> kind, image |-> image, owner |-> owner, pipe |-> pipe]
<1>1. r \in Request /\ r.kind \notin {"EXPORT", "REMOVE_LAYER"}
  BY DEF Request
<1>2. [do |-> "clear"] \in SimpleInstr
  BY DEF SimpleInstr, PlainInstr, Instr
<1>3. [do |-> "push", req |-> r] \in SimpleInstr
  BY <1>1 DEF SimpleInstr, PlainInstr, Instr
<1> HIDE DEF r
<1>4. QED
  BY <1>2, <1>3 DEF Submit, r

LEMMA UpdateSimple ==
  ASSUME NEW i \in Images, NEW p \in Pipelines \cup {NoPipe}
  PROVE  UpdateProgram(i, p) \in Seq(SimpleInstr)
BY SubmitSimple DEF UpdateProgram, Kinds

\* Every operation begins with a simple program but those that wait.
LEMMA OperationSimple ==
  ASSUME "Close" \notin Ops, TypeOK, Operation
  PROVE  \/ todo' \in Seq(SimpleInstr)
         \/ \E i \in Images : RemoveLayer(i) \/ Export(i)
         \/ \E i \in Images, p \in Pipelines \cup {NoPipe} : SyncUpdate(i, p) \/ SpotWB(i, p)
<1>1. ASSUME NEW name, NEW i, NEW n, NEW program \in Seq(SimpleInstr), Begin(name, i, n, program)
      PROVE  todo' \in Seq(SimpleInstr)
  BY <1>1 DEF Begin
<1>2. ASSUME NEW i \in Images, Open(i) PROVE todo' \in Seq(SimpleInstr)
  BY <1>2, UpdateSimple DEF Open
<1>3. ASSUME NEW i \in Images, NEW p \in Pipelines \cup {NoPipe}, Update(i, p)
      PROVE  todo' \in Seq(SimpleInstr)
  BY <1>1, <1>3, UpdateSimple DEF Update
<1>4. ASSUME NEW i \in Images, LockedUpdate(i) PROVE todo' \in Seq(SimpleInstr)
  <2>1. On("lock", i) \in Seq(SimpleInstr) /\ On("unlock", i) \in Seq(SimpleInstr)
    BY DEF On, SimpleInstr, PlainInstr, Instr
  <2>2. On("lock", i) \o UpdateProgram(i, NoPipe) \in Seq(SimpleInstr)
    BY <2>1, UpdateSimple, ConcatProperties
  <2>3. On("lock", i) \o UpdateProgram(i, NoPipe) \o On("unlock", i) \in Seq(SimpleInstr)
    BY <2>1, <2>2, ConcatProperties
  <2>4. QED
    BY <1>1, <1>4, <2>3 DEF LockedUpdate
<1>5. ASSUME NEW i \in Images, NEW p \in Pipelines, Zoom(i, p) PROVE todo' \in Seq(SimpleInstr)
  <2>1. Submit("SET_LEVEL", i, i, p) \in Seq(SimpleInstr)
    BY SubmitSimple DEF Kinds
  <2>2. Submit("SET_LEVEL", i, i, p) \o UpdateProgram(i, NoPipe) \in Seq(SimpleInstr)
    BY <2>1, UpdateSimple, ConcatProperties
  <2>3. QED
    BY <1>1, <1>5, <2>2 DEF Zoom
<1>6. ASSUME NEW i \in Images, NEW junk \in Garbage, Redraw(i, junk)
      PROVE  todo' \in Seq(SimpleInstr)
  <2>1. /\ Submit("REDRAW_START", junk, i, NoPipe) \in Seq(SimpleInstr)
        /\ Submit("REDRAW", i, i, NoPipe) \in Seq(SimpleInstr)
        /\ Submit("REDRAW_END", junk, i, NoPipe) \in Seq(SimpleInstr)
    BY SubmitSimple, GarbageAssumption DEF Kinds
  <2>2. Submit("REDRAW_START", junk, i, NoPipe) \o Submit("REDRAW", i, i, NoPipe)
          \in Seq(SimpleInstr)
    BY <2>1, ConcatProperties
  <2>3. Submit("REDRAW_START", junk, i, NoPipe) \o Submit("REDRAW", i, i, NoPipe)
          \o Submit("REDRAW_END", junk, i, NoPipe) \in Seq(SimpleInstr)
    BY <2>1, <2>2, ConcatProperties
  <2>4. QED
    BY <1>1, <1>6, <2>3 DEF Redraw
<1>8. ASSUME NEW i \in Images, MoveLayer(i) PROVE todo' \in Seq(SimpleInstr)
  <2>1. Submit("MOVE_LAYER", i, i, NoPipe) \in Seq(SimpleInstr)
    BY SubmitSimple DEF Kinds
  <2>2. Submit("MOVE_LAYER", i, i, NoPipe) \o UpdateProgram(i, NoPipe) \in Seq(SimpleInstr)
    BY <2>1, UpdateSimple, ConcatProperties
  <2>3. QED
    BY <1>1, <1>8, <2>2 DEF MoveLayer
<1>9. ASSUME NEW junk \in Garbage, Quit(junk) PROVE todo' \in Seq(SimpleInstr)
  <2>1. Submit("PROCESSOR_END", junk, NoImage, NoPipe) \in Seq(SimpleInstr)
    BY SubmitSimple, GarbageAssumption DEF Kinds
  <2>2. << [do |-> "join"] >> \in Seq(SimpleInstr)
    BY DEF SimpleInstr, PlainInstr, Instr
  <2>3. QED
    BY <1>9, <2>1, <2>2, ConcatProperties DEF Quit
<1>10. \A i : ~Close(i)
  BY DEF Close, Begin
<1>11. CASE \E i \in Images :
              \/ Open(i) \/ LockedUpdate(i) \/ MoveLayer(i) \/ RemoveLayer(i) \/ Export(i) \/ Close(i)
              \/ \E p \in Pipelines \cup {NoPipe} : Update(i, p) \/ SyncUpdate(i, p)
              \/ \E p \in Pipelines : Zoom(i, p) \/ SpotWB(i, p)
              \/ \E junk \in Garbage : Redraw(i, junk)
  <2>1. PICK i \in Images :
              \/ Open(i) \/ LockedUpdate(i) \/ MoveLayer(i) \/ RemoveLayer(i) \/ Export(i) \/ Close(i)
              \/ \E p \in Pipelines \cup {NoPipe} : Update(i, p) \/ SyncUpdate(i, p)
              \/ \E p \in Pipelines : Zoom(i, p) \/ SpotWB(i, p)
              \/ \E junk \in Garbage : Redraw(i, junk)
    BY <1>11
  <2>2. CASE \E junk \in Garbage : Redraw(i, junk)
    BY <1>6, <2>2
  <2>3. CASE \/ \E p \in Pipelines \cup {NoPipe} : Update(i, p) \/ SyncUpdate(i, p)
             \/ \E p \in Pipelines : Zoom(i, p) \/ SpotWB(i, p)
    BY <1>3, <1>5, <2>3
  <2>4. CASE Open(i) \/ LockedUpdate(i) \/ MoveLayer(i) \/ RemoveLayer(i) \/ Export(i) \/ Close(i)
    BY <1>2, <1>4, <1>8, <1>10, <2>4
  <2>5. QED
    BY <2>1, <2>2, <2>3, <2>4
<1>12. QED
  BY <1>9, <1>11 DEF Operation

\* The elements of a program made of two.
LEMMA ConcatForm ==
  ASSUME NEW S, NEW s \in Seq(S), NEW t \in Seq(S)
  PROVE  /\ s \o t \in Seq(S) /\ Len(s \o t) = Len(s) + Len(t) /\ Len(s) \in Nat /\ Len(t) \in Nat
         /\ \A n \in 1 .. Len(s) : (s \o t)[n] = s[n]
         /\ \A n \in 1 .. Len(t) : (s \o t)[Len(s) + n] = t[n]
<1> DEFINE u == s \o t
<1>1. /\ u \in Seq(S) /\ Len(u) = Len(s) + Len(t) /\ Len(s) \in Nat /\ Len(t) \in Nat
      /\ \A n \in 1 .. Len(s) + Len(t) : u[n] = IF n <= Len(s) THEN s[n] ELSE t[n - Len(s)]
  BY ConcatProperties, LenProperties
<1> HIDE DEF u
<1>2. ASSUME NEW n \in 1 .. Len(s) PROVE u[n] = s[n]
  BY <1>1
<1>3. ASSUME NEW n \in 1 .. Len(t) PROVE u[Len(s) + n] = t[n]
  <2>1. /\ Len(s) + n \in 1 .. Len(s) + Len(t) /\ ~(Len(s) + n <= Len(s))
        /\ (Len(s) + n) - Len(s) = n
    BY <1>1
  <2>2. QED
    BY <1>1, <2>1
<1>4. QED
  BY <1>1, <1>2, <1>3 DEF u

\* The instructions of operations on image i.
OwnInstr(i) == NamedInstr({i})

\* The instructions of Image::export_merged.
LEMMA ExportForm ==
  ASSUME NEW i \in Images, Export(i)
  PROVE  /\ Len(todo') = 3
         /\ todo'[1].do = "clear"
         /\ todo'[2].do = "push" /\ todo'[2].req.kind = "EXPORT" /\ todo'[2].req.image = i
         /\ Waiting(todo'[3], "export", i)
<1>0. PICK s, w : s = Submit("EXPORT", i, i, NoPipe) /\ w = OnCond("wait", "export", i)
  OBVIOUS
<1>1. s \in Seq(OwnInstr(i)) /\ w \in Seq(OwnInstr(i))
  BY <1>0, SubmitType, OnCondType DEF Kinds, Conds, OwnInstr
<1>2. /\ Len(s) = 2 /\ s[1].do = "clear" /\ s[2].do = "push"
      /\ s[2].req.kind = "EXPORT" /\ s[2].req.image = i
  BY <1>0 DEF Submit
<1>3. Len(w) = 1 /\ Waiting(w[1], "export", i)
  BY <1>0 DEF OnCond, Waiting
<1>4. todo' = s \o w
  BY <1>0 DEF Export, Begin
<1>5. PICK t : t = s \o w
  OBVIOUS
<1>a. s \in Seq(OwnInstr(i)) /\ w \in Seq(OwnInstr(i))
  BY <1>1
<1>6. /\ Len(t) = Len(s) + Len(w)
      /\ \A n \in 1 .. Len(s) : t[n] = s[n]
      /\ \A n \in 1 .. Len(w) : t[Len(s) + n] = w[n]
  BY <1>5, <1>a, ConcatForm
<1>7. Len(t) = 3 /\ t[1] = s[1] /\ t[2] = s[2] /\ t[3] = w[1]
  BY <1>2, <1>3, <1>6
<1>8. todo' = t
  BY <1>4, <1>5
<1>9. QED
  BY <1>2, <1>3, <1>7, <1>8

\* A request between a reset and a wait.
Between(c, kind, i, p) ==
  OnCond("reset", c, i) \o Submit(kind, i, i, p) \o OnCond("wait", c, i)

\* These are four instructions.
LEMMA BetweenForm ==
  ASSUME NEW i \in Images, NEW c \in Conds, NEW kind \in Kinds,
         NEW p \in Pipelines \cup {NoPipe}, NEW s, s = Between(c, kind, i, p)
  PROVE  /\ s \in Seq(OwnInstr(i)) /\ Len(s) = 4
         /\ s[1] = [do |-> "reset", image |-> i, cond |-> c] /\ s[2].do = "clear"
         /\ s[3].do = "push" /\ s[3].req.kind = kind /\ s[3].req.image = i
         /\ Waiting(s[4], c, i)
<1>1. PICK e, b, w : /\ e = OnCond("reset", c, i) /\ b = Submit(kind, i, i, p)
                     /\ w = OnCond("wait", c, i)
  OBVIOUS
<1>2. e \in Seq(OwnInstr(i)) /\ b \in Seq(OwnInstr(i)) /\ w \in Seq(OwnInstr(i))
  BY <1>1, SubmitType, OnCondType DEF OwnInstr
<1>3. Len(e) = 1 /\ e[1] = [do |-> "reset", image |-> i, cond |-> c]
  BY <1>1 DEF OnCond
<1>4. /\ Len(b) = 2 /\ b[1].do = "clear" /\ b[2].do = "push"
      /\ b[2].req.kind = kind /\ b[2].req.image = i
  BY <1>1 DEF Submit
<1>5. Len(w) = 1 /\ Waiting(w[1], c, i)
  BY <1>1 DEF OnCond, Waiting
<1>6. PICK u : u = e \o b
  OBVIOUS
<1>7. s = u \o w
  BY <1>1, <1>6 DEF Between
<1>8. /\ u \in Seq(OwnInstr(i)) /\ Len(u) = Len(e) + Len(b)
      /\ \A n \in 1 .. Len(e) : u[n] = e[n]
      /\ \A n \in 1 .. Len(b) : u[Len(e) + n] = b[n]
  BY <1>2, <1>6, ConcatForm
<1>9. Len(u) = 3 /\ u[1] = e[1] /\ u[2] = b[1] /\ u[3] = b[2]
  BY <1>3, <1>4, <1>8
<1>a. u \in Seq(OwnInstr(i)) /\ w \in Seq(OwnInstr(i))
  BY <1>2, <1>8
<1>10. /\ s \in Seq(OwnInstr(i)) /\ Len(s) = Len(u) + Len(w)
       /\ \A n \in 1 .. Len(u) : s[n] = u[n]
       /\ \A n \in 1 .. Len(w) : s[Len(u) + n] = w[n]
  BY <1>7, <1>a, ConcatForm
<1>11. Len(s) = 4 /\ s[1] = e[1] /\ s[2] = b[1] /\ s[3] = b[2] /\ s[4] = w[1]
  BY <1>5, <1>9, <1>10
<1>12. QED
  BY <1>3, <1>4, <1>5, <1>10, <1>11

\* Those of a synchronous update.
LEMMA SyncProgramForm ==
  ASSUME NEW i \in Images, NEW p \in Pipelines \cup {NoPipe}, NEW s, s = SyncUpdateProgram(i, p)
  PROVE  /\ s \in Seq(OwnInstr(i)) /\ Len(s) = 4
         /\ s[1] = [do |-> "reset", image |-> i, cond |-> "rebuild"] /\ s[2].do = "clear"
         /\ s[3].do = "push" /\ s[3].req.kind = "REBUILD" /\ s[3].req.image = i
         /\ Waiting(s[4], "rebuild", i)
<1>1. PICK c, k : c = "rebuild" /\ k = "REBUILD"
  OBVIOUS
<1>2. c \in Conds /\ k \in Kinds /\ s = Between(c, k, i, p)
  BY <1>1 DEF Conds, Kinds, SyncUpdateProgram, UpdateProgram, Between
<1>3. QED
  BY <1>1, <1>2, BetweenForm

\* The instructions of LayerWidget::remove_layers.
LEMMA RemoveForm ==
  ASSUME NEW i \in Images, RemoveLayer(i)
  PROVE  /\ Len(todo') = 8
         /\ todo'[1].do = "reset" /\ todo'[2].do = "clear"
         /\ todo'[3].do = "push" /\ todo'[3].req.kind = "REMOVE_LAYER" /\ todo'[3].req.image = i
         /\ Waiting(todo'[4], "remove", i)
         /\ todo'[5] = [do |-> "reset", image |-> i, cond |-> "rebuild"] /\ todo'[6].do = "clear"
         /\ todo'[7].do = "push" /\ todo'[7].req.kind = "REBUILD"
         /\ Waiting(todo'[8], "rebuild", i)
<1>1. PICK s, u : /\ s = Between("remove", "REMOVE_LAYER", i, NoPipe)
                  /\ u = SyncUpdateProgram(i, NoPipe)
  OBVIOUS
<1>2. /\ s \in Seq(OwnInstr(i)) /\ Len(s) = 4
      /\ s[1] = [do |-> "reset", image |-> i, cond |-> "remove"] /\ s[2].do = "clear"
      /\ s[3].do = "push" /\ s[3].req.kind = "REMOVE_LAYER" /\ s[3].req.image = i
      /\ Waiting(s[4], "remove", i)
  <2>1. PICK c, k : c = "remove" /\ k = "REMOVE_LAYER"
    OBVIOUS
  <2>2. c \in Conds /\ k \in Kinds /\ s = Between(c, k, i, NoPipe)
    BY <1>1, <2>1 DEF Conds, Kinds
  <2>3. QED
    BY <2>1, <2>2, BetweenForm
<1>3. /\ u \in Seq(OwnInstr(i)) /\ Len(u) = 4
      /\ u[1] = [do |-> "reset", image |-> i, cond |-> "rebuild"] /\ u[2].do = "clear"
      /\ u[3].do = "push" /\ u[3].req.kind = "REBUILD" /\ u[3].req.image = i
      /\ Waiting(u[4], "rebuild", i)
  BY <1>1, SyncProgramForm
<1>4. todo' = s \o u
  BY <1>1 DEF RemoveLayer, Begin, Between
<1>5. PICK t : t = s \o u
  OBVIOUS
<1>a. s \in Seq(OwnInstr(i)) /\ u \in Seq(OwnInstr(i))
  BY <1>2, <1>3
<1>6. /\ Len(t) = Len(s) + Len(u)
      /\ \A n \in 1 .. Len(s) : t[n] = s[n]
      /\ \A n \in 1 .. Len(u) : t[Len(s) + n] = u[n]
  BY <1>5, <1>a, ConcatForm
<1>7. /\ Len(t) = 8
      /\ t[1] = s[1] /\ t[2] = s[2] /\ t[3] = s[3] /\ t[4] = s[4]
      /\ t[5] = u[1] /\ t[6] = u[2] /\ t[7] = u[3] /\ t[8] = u[4]
  BY <1>2, <1>3, <1>6
<1>8. todo' = t
  BY <1>4, <1>5
<1>9. s[1].do = "reset"
  BY <1>2
<1>10. QED
  BY <1>2, <1>3, <1>7, <1>8, <1>9

\* The instructions of a synchronous update, with or without a sample after it.
LEMMA SyncForm ==
  ASSUME NEW i \in Images, NEW p \in Pipelines \cup {NoPipe}, SyncUpdate(i, p) \/ SpotWB(i, p)
  PROVE  /\ Len(todo') \in {4, 5}
         /\ todo'[1] = [do |-> "reset", image |-> i, cond |-> "rebuild"] /\ todo'[2].do = "clear"
         /\ todo'[3].do = "push" /\ todo'[3].req.kind = "REBUILD"
         /\ Waiting(todo'[4], "rebuild", i)
         /\ Len(todo') = 5 => todo'[5].do = "sample"
<1>1. PICK s, w : s = SyncUpdateProgram(i, p) /\ w = On("sample", i)
  OBVIOUS
<1>2. /\ s \in Seq(OwnInstr(i)) /\ Len(s) = 4
      /\ s[1] = [do |-> "reset", image |-> i, cond |-> "rebuild"] /\ s[2].do = "clear"
      /\ s[3].do = "push" /\ s[3].req.kind = "REBUILD" /\ Waiting(s[4], "rebuild", i)
  BY <1>1, SyncProgramForm
<1>3. w \in Seq(OwnInstr(i)) /\ Len(w) = 1 /\ w[1].do = "sample"
  <2>1. w \in Seq(OwnInstr(i))
    BY <1>1, OnType DEF OwnInstr
  <2>2. QED
    BY <1>1, <2>1 DEF On
<1>4. todo' = s \/ todo' = s \o w
  BY <1>1 DEF SyncUpdate, SpotWB, Begin
<1>5. CASE todo' = s
  <2>1. Len(todo') = 4 /\ todo'[1] = s[1] /\ todo'[2] = s[2] /\ todo'[3] = s[3] /\ todo'[4] = s[4]
    BY <1>2, <1>5
  <2>2. Len(todo') \in {4, 5} /\ (Len(todo') = 5 => todo'[5].do = "sample")
    BY <2>1
  <2>3. QED
    BY <1>2, <2>1, <2>2
<1>6. CASE todo' = s \o w
  <2>1. PICK t : t = s \o w
    OBVIOUS
  <2>2. s \in Seq(OwnInstr(i)) /\ w \in Seq(OwnInstr(i))
    BY <1>2, <1>3
  <2>3. /\ Len(t) = Len(s) + Len(w)
        /\ \A n \in 1 .. Len(s) : t[n] = s[n]
        /\ \A n \in 1 .. Len(w) : t[Len(s) + n] = w[n]
    BY <2>1, <2>2, ConcatForm
  <2>4. Len(t) = 5 /\ t[1] = s[1] /\ t[2] = s[2] /\ t[3] = s[3] /\ t[4] = s[4] /\ t[5] = w[1]
    BY <1>2, <1>3, <2>3
  <2>5. QED
    BY <1>2, <1>3, <1>6, <2>1, <2>4
<1>7. QED
  BY <1>4, <1>5, <1>6

-----------------------------------------------------------------------------
(* The invariant *)

\* A request whose handler the GUI thread waits for is followed by that wait, and the
\* wait for a rebuild comes after the whole of SyncUpdateProgram and another wait.
WaitForm ==
  \A n \in 1 .. Len(todo) :
    /\ todo[n].do = "push" =>
         /\ todo[n].req.kind = "EXPORT" =>
              n + 1 \in 1 .. Len(todo) /\ Waiting(todo[n + 1], "export", todo[n].req.image)
         /\ todo[n].req.kind = "REMOVE_LAYER" =>
              n + 1 \in 1 .. Len(todo) /\ Waiting(todo[n + 1], "remove", todo[n].req.image)
    /\ todo[n].do = "wait" /\ todo[n].cond = "rebuild" =>
         /\ n > 1 => todo[n - 1].do = "push"
         /\ n > 2 => todo[n - 2].do = "clear"
         /\ n > 3 => todo[n - 3] = [do |-> "reset", image |-> todo[n].image, cond |-> "rebuild"]
         /\ n > 4 => todo[n - 4].do = "wait"

\* An export in flight is the last request sent, and the GUI thread waits for its
\* signal; so is the removal of a layer, until it is handled.
Pending ==
  \A k \in InFlight :
    /\ reqs[k].kind = "EXPORT" =>
         k = Len(reqs) /\ WaitsFor("export", reqs[k].image) /\ ~signaled["export"][reqs[k].image]
    /\ reqs[k].kind = "REMOVE_LAYER" /\ k \notin ToSet(handled) =>
         k = Len(reqs) /\ WaitsFor("remove", reqs[k].image) /\ ~signaled["remove"][reqs[k].image]

\* These two signals are given to a thread that waits for them, once all is handled.
Signals ==
  \A i \in Images, c \in {"export", "remove"} : signaled[c][i] => WaitsFor(c, i) /\ Settled

\* The signal of a rebuild is good from the reset on, for all was handled before: so it
\* is after the removal of a layer, not in a synchronous update.
Rebuilds == Ops \subseteq ExactOperations =>
  \A n \in 1 .. Len(todo) : todo[n].do = "wait" /\ todo[n].cond = "rebuild" =>
    /\ n \in {2, 3, 4} => Settled
    /\ n \in {2, 3} => ~signaled["rebuild"][todo[n].image]
    /\ n = 1 => /\ signaled["rebuild"][todo[n].image] => Settled
                /\ \A k \in InFlight : k \in ToSet(handled) \/ k = Len(reqs)

\* Only an export is signaled after the lock is released.
Exported == pc = "signal" => reqs[cur].kind = "EXPORT"

WaitsInv ==
  /\ TypeOK /\ OrderInv /\ Stages /\ Numbered /\ Exported
  /\ WaitForm /\ Pending /\ Signals /\ Rebuilds

LEMMA WaitsInit == Init => WaitsInv
<1> SUFFICES ASSUME Init PROVE WaitsInv
  OBVIOUS
<1>1. TypeOK /\ OrderInv /\ Stages /\ Numbered
  BY InitType, OrderInit, StagesInit, NumberedInit
<1>2. /\ todo = <<>> /\ Len(todo) = 0 /\ pc = "pop" /\ InFlight = {}
      /\ signaled = [c \in Conds |-> [i \in Images |-> FALSE]]
  BY SetOfEmpty DEF Init, InFlight
<1>3. Signals
  BY <1>2 DEF Signals, Conds
<1>4. QED
  BY <1>1, <1>2, <1>3 DEF WaitsInv, Exported, WaitForm, Pending, Rebuilds

-----------------------------------------------------------------------------
(* What is in flight *)

\* The request being worked on is in flight and not handled yet.
LEMMA CurIsNew ==
  ASSUME TypeOK, OrderInv, Numbered, pc = "work"
  PROVE  cur \in InFlight /\ cur \notin ToSet(handled) /\ cur \in 1 .. Len(reqs)
<1>1. cur \in 1 .. Len(reqs) /\ handled \in Seq(Nat)
  BY DEF Numbered, TypeOK
<1>2. \A n \in 1 .. Len(handled) : handled[n] < cur /\ handled[n] \in Nat
  BY <1>1, ElementOfSeq DEF OrderInv, InHand
<1>3. cur \notin ToSet(handled)
  BY <1>1, <1>2 DEF ToSet
<1>4. QED
  BY <1>1, <1>3 DEF InFlight

\* Nothing waits behind the last request once it is worked on.
LEMMA LastAlone ==
  ASSUME TypeOK, OrderInv, Stages, pc \in {"work", "signal"}, cur = Len(reqs)
  PROVE  ToSet(queue) = {} /\ ToSet(temp) = {} /\ ToSet(batch) = {} /\ hand = 0
<1>1. /\ queue \in Seq(Nat) /\ batch \in Seq(Nat) /\ handled \in Seq(Nat) /\ Len(reqs) \in Nat
      /\ temp = <<>> /\ hand = 0
  BY LenProperties DEF TypeOK, Stages, OrderInv
<1>2. ASSUME NEW s \in Seq(Nat), s = queue \/ s = batch, NEW n \in 1 .. Len(s) PROVE FALSE
  <2>1. s[n] \in Nat /\ s[n] <= Len(reqs)
    BY <1>2, ElementOfSeq DEF OrderInv, Submitted
  <2>2. CASE pc = "work"
    BY <1>1, <1>2, <2>1, <2>2 DEF OrderInv, InHand
  <2>3. CASE pc = "signal"
    <3>1. PICK m \in 1 .. Len(handled) : handled[m] = cur
      BY <1>1, <2>3 DEF Stages, ToSet
    <3>2. handled[m] < s[n]
      BY <1>2, <3>1 DEF OrderInv, InOrder, Before
    <3>3. QED
      BY <1>1, <2>1, <3>1, <3>2
  <2>4. QED
    BY <2>2, <2>3
<1>3. ToSet(queue) = {} /\ ToSet(batch) = {}
  BY <1>1, <1>2 DEF ToSet
<1>4. QED
  BY <1>1, <1>3, SetOfEmpty

LEMMA HandledGrows ==
  ASSUME TypeOK, [Next]_vars
  PROVE  ToSet(handled) \subseteq ToSet(handled')
<1>1. handled' = handled \/ handled' = Append(handled, cur)
  <2>1. Processor => handled' = handled \/ handled' = Append(handled, cur)
    BY DEF Processor, PopFirst, QueueLength, PopMore, Scan, Dequeue, LockImage, HandleLocked,
           UnlockImage, SignalExport, HandleUnlocked, EndBatch, Handled
  <2>2. Gui => handled' = handled
    BY DEF Gui, Clear, Push, Reset, Wait, Lock, Unlock, Sample, Settle, DrainLength, DrainPop,
           DrainPush, DrainEnd, Destroy, Join, proc
  <2>3. Operation \/ Rest \/ UNCHANGED vars => handled' = handled
    BY ZenonT(60) DEF Operation, Open, LockedUpdate, MoveLayer, RemoveLayer, Export, Close, Update,
           SyncUpdate, Zoom, SpotWB, Redraw, Quit, Begin, Rest, vars, proc
  <2>4. QED
    BY <2>1, <2>2, <2>3 DEF Next
<1>2. handled \in Seq(Nat) /\ cur \in Nat
  BY DEF TypeOK
<1>3. QED
  BY <1>1, <1>2, SetOfAppend

\* What is settled stays settled until a request is sent.
LEMMA SettledKept ==
  ASSUME TypeOK, [Next]_vars, ~Push, Settled
  PROVE  Settled'
BY FlightFrom, HandledGrows DEF Settled

-----------------------------------------------------------------------------
(* The waits *)

\* The GUI thread resumes only when all is handled.
LEMMA WaitSettles ==
  ASSUME Ops \subseteq ExactOperations, WaitsInv, Wait
  PROVE  Settled
<1>1. PICK w : w = Head(todo)
  OBVIOUS
<1>2. /\ todo # <<>> /\ todo \in Seq(Instr) /\ w.do = "wait" /\ signaled[w.cond][w.image]
  BY <1>1 DEF Wait, Do, WaitsInv, TypeOK
<1>3. w \in Instr /\ w = todo[1] /\ 1 \in 1 .. Len(todo)
  BY <1>1, <1>2, HeadTail
<1>4. w.cond \in Conds /\ w.image \in Images
  BY <1>2, <1>3 DEF Instr
<1>5. CASE w.cond = "rebuild"
  BY <1>2, <1>3, <1>5 DEF WaitsInv, Rebuilds
<1>6. CASE w.cond \in {"export", "remove"}
  BY <1>2, <1>4, <1>6 DEF WaitsInv, Signals
<1>7. QED
  BY <1>4, <1>5, <1>6 DEF Conds

\* Request k is one the GUI thread waits for.
Awaited(k) ==
  reqs[k].kind = "EXPORT" \/ (reqs[k].kind = "REMOVE_LAYER" /\ k \notin ToSet(handled))

\* While there is one the GUI thread does nothing.
LEMMA AwaitedBlocks ==
  ASSUME WaitsInv, NEW k \in InFlight, Awaited(k)
  PROVE  ~Gui /\ ~Operation
<1>1. /\ todo # <<>> /\ Head(todo).do = "wait" /\ hand = 0
      /\ ~signaled[Head(todo).cond][Head(todo).image]
  BY DEF WaitsInv, Pending, Awaited, WaitsFor, Waiting, OrderInv
<1>2. ~Gui
  BY <1>1 DEF Gui, Clear, Push, Reset, Wait, Lock, Unlock, Sample, Settle, DrainLength, DrainPop,
              DrainPush, DrainEnd, Destroy, Join, Do
<1>3. ~Operation
  BY ZenonT(60), <1>1 DEF Operation, Open, LockedUpdate, MoveLayer, RemoveLayer, Export, Close, Update,
              SyncUpdate, Zoom, SpotWB, Redraw, Quit, Begin
<1>4. QED
  BY <1>2, <1>3

\* No signal of an export or of a removal is left over for later.
LEMMA NoneLeft ==
  ASSUME WaitsInv, todo = <<>> \/ Head(todo).do # "wait"
  PROVE  \A i \in Images, c \in {"export", "remove"} : ~signaled[c][i]
BY DEF WaitsInv, Signals, WaitsFor, Waiting

-----------------------------------------------------------------------------
(* The rest of a program *)

\* The form of a program is that of what is left of it.
LEMMA WaitFormTail ==
  ASSUME TypeOK, WaitForm, todo # <<>>, todo' = Tail(todo)
  PROVE  WaitForm'
<1>1. PICK t : t = todo'
  OBVIOUS
<1>2. /\ Len(todo) \in Nat \ {0} /\ Len(t) = Len(todo) - 1
      /\ \A n \in 1 .. Len(t) : n + 1 \in 1 .. Len(todo) /\ t[n] = todo[n + 1]
  BY <1>1, TodoTail
<1>3. ASSUME NEW n \in 1 .. Len(t), t[n].do = "push", NEW c,
             \/ c = "export" /\ t[n].req.kind = "EXPORT"
             \/ c = "remove" /\ t[n].req.kind = "REMOVE_LAYER"
      PROVE  n + 1 \in 1 .. Len(t) /\ Waiting(t[n + 1], c, t[n].req.image)
  <2>1. /\ (n + 1) + 1 \in 1 .. Len(todo)
        /\ Waiting(todo[(n + 1) + 1], c, todo[n + 1].req.image)
    BY <1>2, <1>3 DEF WaitForm
  <2>2. n + 1 \in 1 .. Len(t)
    BY <1>2, <2>1
  <2>3. QED
    BY <1>2, <2>1, <2>2
<1>4. ASSUME NEW n \in 1 .. Len(t), t[n].do = "wait", t[n].cond = "rebuild"
      PROVE  /\ n > 1 => t[n - 1].do = "push"
             /\ n > 2 => t[n - 2].do = "clear"
             /\ n > 3 => t[n - 3] = [do |-> "reset", image |-> t[n].image, cond |-> "rebuild"]
             /\ n > 4 => t[n - 4].do = "wait"
  <2>1. /\ n + 1 > 1 => todo[(n + 1) - 1].do = "push"
        /\ n + 1 > 2 => todo[(n + 1) - 2].do = "clear"
        /\ n + 1 > 3 => todo[(n + 1) - 3] = [do |-> "reset", image |-> todo[n + 1].image,
                                             cond |-> "rebuild"]
        /\ n + 1 > 4 => todo[(n + 1) - 4].do = "wait"
    BY <1>2, <1>4 DEF WaitForm
  <2>2. ASSUME NEW m \in {1, 2, 3, 4}, n > m PROVE t[n - m] = todo[(n + 1) - m]
    <3>1. n - m \in 1 .. Len(t) /\ (n - m) + 1 = (n + 1) - m
      BY <1>2, <2>2
    <3>2. QED
      BY <1>2, <3>1
  <2>3. n > 1 => t[n - 1] = todo[(n + 1) - 1] /\ n + 1 > 1
    BY <2>2
  <2>4. n > 2 => t[n - 2] = todo[(n + 1) - 2] /\ n + 1 > 2
    BY <2>2
  <2>5. n > 3 => t[n - 3] = todo[(n + 1) - 3] /\ n + 1 > 3 /\ t[n] = todo[n + 1]
    BY <1>2, <2>2
  <2>6. n > 4 => t[n - 4] = todo[(n + 1) - 4] /\ n + 1 > 4
    BY <2>2
  <2>7. QED
    BY <2>1, <2>3, <2>4, <2>5, <2>6
<1>5. QED
  BY <1>1, <1>3, <1>4 DEF WaitForm

\* Which instruction precedes a wait for a rebuild, as long as its program has one.
LEMMA BeforeRebuild ==
  ASSUME WaitsInv, todo # <<>>, todo' = Tail(todo),
         NEW n \in 1 .. Len(todo'), todo'[n].do = "wait", todo'[n].cond = "rebuild"
  PROVE  /\ n + 1 \in 1 .. Len(todo) /\ todo[n + 1] = todo'[n]
         /\ n = 1 => Head(todo).do = "push"
         /\ n = 2 => Head(todo).do = "clear"
         /\ n = 3 => Head(todo) = [do |-> "reset", image |-> todo'[n].image, cond |-> "rebuild"]
         /\ n = 4 => Head(todo).do = "wait"
<1>1. PICK t : t = todo'
  OBVIOUS
<1>2. /\ Len(todo) \in Nat \ {0} /\ Len(t) = Len(todo) - 1 /\ Head(todo) = todo[1]
      /\ n + 1 \in 1 .. Len(todo) /\ t[n] = todo[n + 1] /\ n \in 1 .. Len(t)
  BY <1>1, TodoTail DEF WaitsInv
<1>3. /\ n + 1 > 1 => todo[(n + 1) - 1].do = "push"
      /\ n + 1 > 2 => todo[(n + 1) - 2].do = "clear"
      /\ n + 1 > 3 => todo[(n + 1) - 3] = [do |-> "reset", image |-> todo[n + 1].image,
                                           cond |-> "rebuild"]
      /\ n + 1 > 4 => todo[(n + 1) - 4].do = "wait"
  <2>1. todo[n + 1].do = "wait" /\ todo[n + 1].cond = "rebuild"
    BY <1>1, <1>2
  <2>2. QED
    BY <1>2, <2>1 DEF WaitsInv, WaitForm
<1>4. CASE n = 1
  BY <1>1, <1>2, <1>3, <1>4
<1>5. CASE n = 2
  BY <1>1, <1>2, <1>3, <1>5
<1>6. CASE n = 3
  BY <1>1, <1>2, <1>3, <1>6
<1>7. CASE n = 4
  BY <1>1, <1>2, <1>3, <1>7
<1>8. QED
  BY <1>1, <1>2, <1>4, <1>5, <1>6, <1>7

-----------------------------------------------------------------------------
(* The steps of the GUI thread *)

\* What all its instructions have in common.
LEMMA GuiEach ==
  ASSUME WaitsInv, Gui
  PROVE  /\ todo # <<>> /\ todo' = Tail(todo) /\ pc' = pc /\ cur' = cur /\ handled' = handled
         /\ \/ Push /\ Head(todo).do = "push" /\ signaled' = signaled
            \/ Wait /\ Head(todo).do = "wait"
            \/ Reset /\ Head(todo).do = "reset"
            \/ Head(todo).do \notin {"push", "wait", "reset"} /\ ~Push /\ signaled' = signaled
<1>1. hand = 0 /\ todo \in Seq(PlainInstr)
  BY DEF WaitsInv, OrderInv
<1>2. todo # <<>> => Head(todo).do \notin {"drain", "destroy"}
  BY <1>1, PlainTail DEF PlainInstr
<1>3. ~DrainPop /\ ~DrainPush /\ ~DrainEnd /\ ~Destroy
  BY <1>1, <1>2 DEF DrainPop, DrainPush, DrainEnd, Destroy, Do
<1>4. CASE Push
  BY <1>4 DEF Push, Do, Done, proc
<1>5. CASE Wait
  BY <1>5 DEF Wait, Do, Done, proc
<1>6. CASE Reset
  BY <1>6 DEF Reset, Do, Done, proc
<1>7. CASE Clear \/ Lock \/ Unlock \/ Sample \/ Settle \/ DrainLength \/ Join
  BY <1>7 DEF Clear, Lock, Unlock, Sample, Settle, DrainLength, Join, Push, Do, Done, proc, shared
<1>8. QED
  BY <1>3, <1>4, <1>5, <1>6, <1>7 DEF Gui

\* An instruction sends the one request that is waited for next, or leaves none.
LEMMA PendingGui == WaitsInv /\ Gui /\ [Next]_vars => Pending'
<1> SUFFICES ASSUME WaitsInv, Gui, [Next]_vars PROVE Pending'
  OBVIOUS
<1>1. TypeOK /\ Numbered /\ todo' = Tail(todo) /\ todo # <<>> /\ handled' = handled
  BY GuiEach DEF WaitsInv
<1>2. \A k \in InFlight : ~Awaited(k)
  BY AwaitedBlocks
<1>3. CASE ~Push
  <2>1. InFlight' \subseteq InFlight /\ reqs' = reqs
    BY <1>1, <1>3, FlightKept
  <2>2. ASSUME NEW k \in InFlight'
        PROVE  reqs'[k].kind # "EXPORT" /\ (reqs'[k].kind = "REMOVE_LAYER" => k \in ToSet(handled'))
    BY <1>1, <1>2, <2>1 DEF Awaited
  <2>3. QED
    BY <2>2 DEF Pending
<1>4. CASE Push
  <2>1. PICK e : e = Len(reqs) + 1
    OBVIOUS
  <2>2. PICK q : q = Head(todo).req
    OBVIOUS
  <2>3. /\ reqs \in Seq(Request) /\ Len(reqs) \in Nat /\ reqs' = Append(reqs, q)
        /\ Head(todo).do = "push" /\ signaled' = signaled
    BY <1>1, <1>4, <2>2, LenProperties DEF Push, Do, TypeOK
  <2>4. /\ Len(todo') = Len(todo) - 1 /\ Head(todo) = todo[1] /\ Len(todo) \in Nat \ {0}
        /\ \A n \in 1 .. Len(todo') : todo'[n] = todo[n + 1]
    BY <1>1, TodoTail
  <2>5. q \in Request
    <3>1. Head(todo) \in Instr
      BY <1>1, HeadTail DEF TypeOK
    <3>2. QED
      BY <2>2, <2>3, <3>1 DEF Instr
  <2>6. reqs'[e] = q /\ Len(reqs') = e
    BY <2>1, <2>3, <2>5, AppendProperties
  <2>7. ASSUME NEW c,
               \/ c = "export" /\ q.kind = "EXPORT"
               \/ c = "remove" /\ q.kind = "REMOVE_LAYER"
        PROVE  todo' # <<>> /\ Waiting(Head(todo'), c, q.image) /\ ~signaled'[c][q.image]
    <3>1. 1 \in 1 .. Len(todo) /\ todo[1].do = "push" /\ todo[1].req = q
      BY <2>2, <2>3, <2>4
    <3>2. 1 + 1 \in 1 .. Len(todo) /\ Waiting(todo[1 + 1], c, q.image)
      BY <2>7, <3>1 DEF WaitsInv, WaitForm
    <3>3. Len(todo') >= 1 /\ todo'[1] = todo[1 + 1]
      BY <2>4, <3>2
    <3>4. todo' # <<>> /\ Head(todo') = todo'[1]
      <4>1. todo' \in Seq(Instr)
        BY <1>1, HeadTail DEF TypeOK
      <4>2. PICK t : t = todo'
        OBVIOUS
      <4>3. t \in Seq(Instr) /\ Len(t) >= 1
        BY <3>3, <4>1, <4>2
      <4>4. t # <<>>
        BY <4>3
      <4>5. Head(t) = t[1]
        BY <4>3, <4>4, HeadTail
      <4>6. QED
        BY <4>2, <4>4, <4>5
    <3>5. q.image \in Images
      <4>1. todo[1 + 1] \in Instr
        BY <3>2, ElementOfSeq DEF WaitsInv, TypeOK
      <4>2. QED
        BY <3>2, <4>1 DEF Waiting, Instr
    <3>6. ~signaled[c][q.image]
      BY <2>3, <2>7, <3>5, NoneLeft
    <3>7. QED
      BY <2>3, <3>2, <3>3, <3>4, <3>6
  <2>8. ASSUME NEW k \in InFlight', k # e
        PROVE  reqs'[k].kind # "EXPORT" /\ (reqs'[k].kind = "REMOVE_LAYER" => k \in ToSet(handled'))
    <3>1. k \in InFlight
      BY <1>1, <1>4, <2>1, <2>8, FlightFrom
    <3>2. k \in 1 .. Len(reqs)
      BY <1>1, <3>1 DEF Numbered, Kept
    <3>3. reqs'[k] = reqs[k]
      BY <1>1, <1>4, <3>2, Submits
    <3>4. QED
      BY <1>1, <1>2, <3>1, <3>3 DEF Awaited
  <2>9. ASSUME NEW k \in InFlight', k = e
        PROVE  /\ reqs'[k].kind = "EXPORT" =>
                    /\ k = Len(reqs') /\ todo' # <<>>
                    /\ Waiting(Head(todo'), "export", reqs'[k].image)
                    /\ ~signaled'["export"][reqs'[k].image]
               /\ reqs'[k].kind = "REMOVE_LAYER" =>
                    /\ k = Len(reqs') /\ todo' # <<>>
                    /\ Waiting(Head(todo'), "remove", reqs'[k].image)
                    /\ ~signaled'["remove"][reqs'[k].image]
    <3>1. q.kind = "EXPORT" =>
            todo' # <<>> /\ Waiting(Head(todo'), "export", q.image) /\ ~signaled'["export"][q.image]
      BY <2>7
    <3>2. q.kind = "REMOVE_LAYER" =>
            todo' # <<>> /\ Waiting(Head(todo'), "remove", q.image) /\ ~signaled'["remove"][q.image]
      BY <2>7
    <3>3. QED
      BY <2>6, <2>9, <3>1, <3>2
  <2>10. QED
    BY <2>8, <2>9 DEF Pending, WaitsFor
<1>5. QED
  BY <1>3, <1>4

\* A signal that is not waited for is none, and a wait takes its own.
LEMMA SignalsGui == WaitsInv /\ Gui => Signals'
<1> SUFFICES ASSUME WaitsInv, Gui PROVE Signals'
  OBVIOUS
<1>1. /\ TypeOK /\ todo # <<>>
      /\ \/ Push /\ Head(todo).do = "push" /\ signaled' = signaled
         \/ Wait /\ Head(todo).do = "wait"
         \/ Reset /\ Head(todo).do = "reset"
         \/ Head(todo).do \notin {"push", "wait", "reset"} /\ ~Push /\ signaled' = signaled
  BY GuiEach DEF WaitsInv
<1>2. PICK w : w = Head(todo)
  OBVIOUS
<1>3. CASE signaled' = signaled /\ w.do # "wait"
  BY <1>2, <1>3, NoneLeft DEF Signals
<1>4. CASE Reset \/ Wait
  <2>1. signaled' = [signaled EXCEPT ![w.cond][w.image] = FALSE]
    BY <1>2, <1>4 DEF Reset, Wait
  <2>2. \A d \in Conds, j \in Images :
          signaled'[d][j] = IF d = w.cond /\ j = w.image THEN FALSE ELSE signaled[d][j]
    BY <1>1, <2>1 DEF TypeOK
  <2>3. ASSUME NEW i \in Images, NEW c \in {"export", "remove"} PROVE ~signaled'[c][i]
    <3>1. c \in Conds
      BY DEF Conds
    <3>2. CASE c = w.cond /\ i = w.image
      BY <2>2, <3>1, <3>2
    <3>3. CASE ~(c = w.cond /\ i = w.image)
      <4>1. ~signaled[c][i]
        BY <1>2, <3>3 DEF WaitsInv, Signals, WaitsFor, Waiting
      <4>2. QED
        BY <2>2, <3>1, <3>3, <4>1
    <3>4. QED
      BY <3>2, <3>3
  <2>4. QED
    BY <2>3 DEF Signals
<1>5. QED
  BY <1>1, <1>2, <1>3, <1>4

\* From the reset of the flag to the wait for it, nothing can set it too early.
LEMMA RebuildsGui == WaitsInv /\ Gui /\ [Next]_vars => Rebuilds'
<1> SUFFICES ASSUME WaitsInv, Gui, [Next]_vars, Ops \subseteq ExactOperations PROVE Rebuilds'
  BY DEF Rebuilds
<1>1. /\ TypeOK /\ todo # <<>> /\ todo' = Tail(todo) /\ handled' = handled
      /\ \/ Push /\ Head(todo).do = "push" /\ signaled' = signaled
         \/ Wait /\ Head(todo).do = "wait"
         \/ Reset /\ Head(todo).do = "reset"
         \/ Head(todo).do \notin {"push", "wait", "reset"} /\ ~Push /\ signaled' = signaled
  BY GuiEach DEF WaitsInv
<1>0. Settled /\ Head(todo).do # "push" => Settled'
  BY <1>1, SettledKept DEF Push, Do
<1>2. ASSUME NEW n \in 1 .. Len(todo'), todo'[n].do = "wait", todo'[n].cond = "rebuild"
      PROVE  /\ n \in {2, 3, 4} => Settled'
             /\ n \in {2, 3} => ~signaled'["rebuild"][todo'[n].image]
             /\ n = 1 => /\ signaled'["rebuild"][todo'[n].image] => Settled'
                         /\ \A k \in InFlight' : k \in ToSet(handled') \/ k = Len(reqs')
  <2>1. /\ n + 1 \in 1 .. Len(todo) /\ todo[n + 1] = todo'[n]
        /\ n = 1 => Head(todo).do = "push"
        /\ n = 2 => Head(todo).do = "clear"
        /\ n = 3 => Head(todo) = [do |-> "reset", image |-> todo'[n].image, cond |-> "rebuild"]
        /\ n = 4 => Head(todo).do = "wait"
    BY <1>1, <1>2, BeforeRebuild
  <2>2. /\ n + 1 \in {2, 3, 4} => Settled
        /\ n + 1 \in {2, 3} => ~signaled["rebuild"][todo[n + 1].image]
    <3>1. todo[n + 1].do = "wait" /\ todo[n + 1].cond = "rebuild"
      BY <1>2, <2>1
    <3>2. QED
      BY <2>1, <3>1 DEF WaitsInv, Rebuilds
  <2>3. CASE n = 1
    <3>1. Push /\ signaled' = signaled
      BY <1>1, <2>1, <2>3
    <3>2. Settled /\ ~signaled["rebuild"][todo'[n].image]
      BY <2>1, <2>2, <2>3
    <3>3. Len(reqs') = Len(reqs) + 1 /\ InFlight' \subseteq InFlight \cup {Len(reqs) + 1}
      BY <1>1, <3>1, Submits, FlightFrom
    <3>4. QED
      BY <1>1, <2>3, <3>1, <3>2, <3>3 DEF Settled
  <2>4. CASE n = 2
    <3>1. signaled' = signaled /\ Head(todo).do # "push"
      BY <1>1, <2>1, <2>4
    <3>2. Settled /\ ~signaled["rebuild"][todo'[n].image]
      BY <2>1, <2>2, <2>4
    <3>3. QED
      BY <1>0, <2>4, <3>1, <3>2
  <2>5. CASE n = 3
    <3>1. PICK i : i = todo'[n].image
      OBVIOUS
    <3>2. /\ Head(todo).do = "reset" /\ Head(todo).cond = "rebuild" /\ Head(todo).image = i
      BY <2>1, <2>5, <3>1
    <3>3. signaled' = [signaled EXCEPT !["rebuild"][i] = FALSE]
      BY <1>1, <3>2 DEF Reset
    <3>4. i \in Images
      <4>1. todo[n + 1] \in Instr
        BY <1>1, <2>1, ElementOfSeq DEF TypeOK
      <4>2. QED
        BY <1>2, <2>1, <3>1, <4>1 DEF Instr
    <3>5. ~signaled'["rebuild"][i]
      <4>1. "rebuild" \in Conds
        BY DEF Conds
      <4>2. \A d \in Conds, j \in Images :
              signaled'[d][j] = IF d = "rebuild" /\ j = i THEN FALSE ELSE signaled[d][j]
        BY <1>1, <3>3 DEF TypeOK
      <4>3. QED
        BY <3>4, <4>1, <4>2
    <3>6. Settled'
      BY <1>0, <2>2, <2>5, <3>2
    <3>7. QED
      BY <2>5, <3>1, <3>5, <3>6
  <2>6. CASE n = 4
    <3>1. Wait /\ Head(todo).do # "push"
      BY <1>1, <2>1, <2>6
    <3>2. Settled'
      BY <1>0, <3>1, WaitSettles
    <3>3. QED
      BY <2>6, <3>2
  <2>7. CASE n \notin {1, 2, 3, 4}
    BY <2>7
  <2>8. QED
    BY <2>3, <2>4, <2>5, <2>6, <2>7
<1>3. QED
  BY <1>2 DEF Rebuilds

LEMMA WaitsGui == WaitsInv /\ Gui /\ [Next]_vars => WaitForm' /\ Pending' /\ Signals' /\ Rebuilds'
<1> SUFFICES ASSUME WaitsInv, Gui, [Next]_vars
             PROVE  WaitForm' /\ Pending' /\ Signals' /\ Rebuilds'
  OBVIOUS
<1>1. WaitForm'
  BY GuiEach, WaitFormTail DEF WaitsInv
<1>2. QED
  BY <1>1, PendingGui, SignalsGui, RebuildsGui

-----------------------------------------------------------------------------
(* The steps of the processor *)

\* What a step keeps that signals nothing and leaves the program alone.
LEMMA WaitsFrame ==
  ASSUME WaitsInv, [Next]_vars, ~Push, todo' = todo, signaled' = signaled
  PROVE  WaitForm' /\ Pending' /\ Signals' /\ Rebuilds'
<1>1. /\ TypeOK /\ InFlight' \subseteq InFlight /\ reqs' = reqs
      /\ ToSet(handled) \subseteq ToSet(handled')
  BY FlightKept, HandledGrows DEF WaitsInv
<1>2. Settled => Settled'
  BY <1>1, SettledKept
<1>3. WaitForm'
  BY DEF WaitsInv, WaitForm
<1>4. Pending'
  BY <1>1 DEF WaitsInv, Pending, WaitsFor
<1>5. Signals'
  BY <1>2 DEF WaitsInv, Signals, WaitsFor
<1>6. Rebuilds'
  BY <1>1, <1>2 DEF WaitsInv, Rebuilds
<1>7. QED
  BY <1>3, <1>4, <1>5, <1>6

\* The same when the step is a signal, after which nothing is left to be handled, to
\* the thread that waits for it.
LEMMA SignalFrame ==
  ASSUME WaitsInv, todo' = todo, reqs' = reqs, Settled', NEW i, NEW c \in {"export", "remove"},
         signaled' = [signaled EXCEPT ![c][i] = TRUE], WaitsFor(c, i),
         \A k \in InFlight' : reqs[k].kind # "EXPORT"
  PROVE  WaitForm' /\ Pending' /\ Signals' /\ Rebuilds'
<1>1. \A d \in Conds, j \in Images :
        signaled'[d][j] = IF d = c /\ j = i THEN TRUE ELSE signaled[d][j]
  BY DEF WaitsInv, TypeOK
<1>2. WaitForm'
  BY DEF WaitsInv, WaitForm
<1>3. Pending'
  BY DEF Pending, Settled
<1>4. Signals'
  <2>1. ASSUME NEW j \in Images, NEW d \in {"export", "remove"}, signaled'[d][j]
        PROVE  WaitsFor(d, j)'
    <3>1. d \in Conds
      BY DEF Conds
    <3>2. CASE d = c /\ j = i
      BY <3>2 DEF WaitsFor
    <3>3. CASE ~(d = c /\ j = i)
      <4>1. signaled[d][j]
        BY <1>1, <2>1, <3>1, <3>3
      <4>2. WaitsFor(d, j)
        BY <4>1 DEF WaitsInv, Signals
      <4>3. QED
        BY <4>2 DEF WaitsFor
    <3>4. QED
      BY <3>2, <3>3
  <2>2. QED
    BY <2>1 DEF Signals
<1>5. Rebuilds'
  <2>1. ASSUME Ops \subseteq ExactOperations,
               NEW n \in 1 .. Len(todo), n \in {2, 3}, todo[n].do = "wait", todo[n].cond = "rebuild"
        PROVE  ~signaled'["rebuild"][todo[n].image]
    <3>1. todo[n] \in Instr /\ "rebuild" \in Conds /\ "rebuild" # c
      BY ElementOfSeq DEF WaitsInv, TypeOK, Conds
    <3>2. todo[n].image \in Images
      BY <2>1, <3>1 DEF Instr
    <3>3. ~signaled["rebuild"][todo[n].image]
      BY <2>1 DEF WaitsInv, Rebuilds
    <3>4. QED
      BY <1>1, <3>1, <3>2, <3>3
  <2>2. QED
    BY <2>1 DEF Rebuilds, Settled
<1>6. QED
  BY <1>2, <1>3, <1>4, <1>5

\* What the handlers that take the lock have in common.
LEMMA HandleLockedEach ==
  ASSUME WaitsInv, HandleLocked, [Next]_vars
  PROVE  /\ pc = "work" /\ todo' = todo /\ reqs' = reqs /\ ~Push
         /\ cur \in InFlight /\ cur \notin ToSet(handled) /\ InFlight' \subseteq InFlight
         /\ ToSet(handled') = ToSet(handled) \cup {cur}
         /\ cur = Len(reqs) => InFlight \subseteq {cur} /\ Settled'
<1>1. /\ pc = "work" /\ todo' = todo /\ reqs' = reqs /\ handled' = Append(handled, cur)
      /\ handled \in Seq(Nat) /\ cur \in Nat /\ TypeOK /\ handled' # handled
  <2>1. handled \in Seq(Nat) /\ cur \in Nat /\ handled' = Append(handled, cur)
    BY DEF HandleLocked, Handled, WaitsInv, TypeOK
  <2>2. Append(handled, cur) # handled
    <3>1. PICK a : a = Append(handled, cur)
      OBVIOUS
    <3>2. Len(a) = Len(handled) + 1 /\ Len(handled) \in Nat
      BY <2>1, <3>1, AppendProperties, LenProperties
    <3>3. QED
      BY <3>1, <3>2
  <2>3. QED
    BY <2>1, <2>2 DEF HandleLocked, WaitsInv, gui
<1>2. ~Push
  BY <1>1 DEF Push, proc
<1>3. cur \in InFlight /\ cur \notin ToSet(handled) /\ InFlight' \subseteq InFlight
  BY <1>1, <1>2, CurIsNew, FlightFrom DEF WaitsInv
<1>4. ToSet(handled') = ToSet(handled) \cup {cur}
  BY <1>1, SetOfAppend
<1>5. cur = Len(reqs) => InFlight \subseteq {cur}
  BY <1>1, LastAlone DEF WaitsInv, InFlight
<1>6. QED
  BY <1>1, <1>2, <1>3, <1>4, <1>5 DEF Settled

\* A rebuild that ends in time for a wait is the last request, be it part of an export.
LEMMA WaitsRebuilt ==
  ASSUME WaitsInv, HandleLocked, [Next]_vars, Signal("rebuild", reqs[cur].image)
  PROVE  WaitForm' /\ Pending' /\ Signals' /\ Rebuilds'
<1>1. /\ pc = "work" /\ todo' = todo /\ reqs' = reqs
      /\ cur \in InFlight /\ cur \notin ToSet(handled) /\ InFlight' \subseteq InFlight
      /\ ToSet(handled') = ToSet(handled) \cup {cur}
      /\ cur = Len(reqs) => InFlight \subseteq {cur} /\ Settled'
  BY HandleLockedEach
<1>2. ~Settled
  BY <1>1 DEF Settled
<1>3. PICK i : i = reqs[cur].image
  OBVIOUS
<1>4. signaled' = [signaled EXCEPT !["rebuild"][i] = TRUE]
  BY <1>3 DEF Signal
<1>5. \A c \in {"export", "remove"} : \A j : signaled'[c][j] = signaled[c][j]
  BY <1>4 DEF WaitsInv, TypeOK, Conds
<1>6. WaitForm'
  BY <1>1 DEF WaitsInv, WaitForm
<1>7. Pending'
  BY <1>1, <1>5 DEF WaitsInv, Pending, WaitsFor
<1>8. Signals'
  BY <1>2, <1>5 DEF WaitsInv, Signals
<1>9. Rebuilds'
  <2>1. ASSUME Ops \subseteq ExactOperations,
               NEW n \in 1 .. Len(todo), todo[n].do = "wait", todo[n].cond = "rebuild"
        PROVE  n \notin {2, 3, 4} /\ (n = 1 => Settled')
    <3>1. n \notin {2, 3, 4}
      BY <1>2, <2>1 DEF WaitsInv, Rebuilds
    <3>2. n = 1 => cur = Len(reqs)
      BY <1>1, <2>1 DEF WaitsInv, Rebuilds
    <3>3. QED
      BY <1>1, <3>1, <3>2
  <2>2. QED
    BY <1>1, <2>1 DEF Rebuilds, Settled
<1>10. QED
  BY <1>6, <1>7, <1>8, <1>9

LEMMA WaitsProcessor == WaitsInv /\ Processor /\ [Next]_vars => WaitForm' /\ Pending' /\ Signals' /\ Rebuilds'
<1> SUFFICES ASSUME WaitsInv, Processor, [Next]_vars
             PROVE  WaitForm' /\ Pending' /\ Signals' /\ Rebuilds'
  OBVIOUS
<1>1. CASE HandleLocked /\ Signal("rebuild", reqs[cur].image)
  BY <1>1, WaitsRebuilt
<1>2. CASE HandleLocked /\ reqs[cur].kind = "REMOVE_LAYER"
  <2>1. /\ todo' = todo /\ reqs' = reqs /\ cur \in InFlight /\ cur \notin ToSet(handled)
        /\ InFlight' \subseteq InFlight
        /\ cur = Len(reqs) => InFlight \subseteq {cur} /\ Settled'
    BY <1>2, HandleLockedEach
  <2>2. PICK i : i = reqs[cur].image
    OBVIOUS
  <2>3. cur = Len(reqs) /\ WaitsFor("remove", i)
    BY <1>2, <2>1, <2>2 DEF WaitsInv, Pending
  <2>4. signaled' = [signaled EXCEPT !["remove"][i] = TRUE]
    BY <1>2, <2>2 DEF HandleLocked, Signal
  <2>5. \A k \in InFlight' : reqs[k].kind # "EXPORT"
    BY <1>2, <2>1, <2>3
  <2>6. QED
    BY <2>1, <2>3, <2>4, <2>5, SignalFrame
<1>3. CASE HandleLocked /\ UNCHANGED signaled
  <2>1. todo' = todo /\ ~Push
    BY <1>3, HandleLockedEach
  <2>2. QED
    BY <1>3, <2>1, WaitsFrame
<1>4. CASE SignalExport
  <2>1. PICK i : i = reqs[cur].image
    OBVIOUS
  <2>2. /\ pc = "signal" /\ todo' = todo /\ reqs' = reqs /\ cur' = 0
        /\ UNCHANGED <<queue, temp, batch, handled, hand>>
        /\ signaled' = [signaled EXCEPT !["export"][i] = TRUE]
    BY <1>4, <2>1 DEF SignalExport, Signal, gui
  <2>3. cur \in InFlight /\ reqs[cur].kind = "EXPORT"
    <3>1. cur \in 1 .. Len(reqs)
      BY <2>2 DEF WaitsInv, Stages, Numbered, Kept
    <3>2. QED
      BY <2>2, <3>1 DEF WaitsInv, Exported, InFlight
  <2>4. cur = Len(reqs) /\ WaitsFor("export", i)
    BY <2>1, <2>3 DEF WaitsInv, Pending
  <2>5. ToSet(queue) = {} /\ ToSet(temp) = {} /\ ToSet(batch) = {} /\ hand = 0
    BY <2>2, <2>4, LastAlone DEF WaitsInv
  <2>6. InFlight' = {}
    BY <2>2, <2>5 DEF InFlight
  <2>7. Settled'
    BY <2>6 DEF Settled
  <2>8. QED
    BY <2>2, <2>4, <2>6, <2>7, SignalFrame
<1>5. CASE PopFirst \/ QueueLength \/ PopMore \/ Scan \/ Dequeue \/ LockImage \/ UnlockImage
             \/ HandleUnlocked \/ EndBatch
  <2>1. todo' = todo /\ signaled' = signaled
    BY <1>5 DEF PopFirst, QueueLength, PopMore, Scan, Dequeue, LockImage, UnlockImage,
                HandleUnlocked, EndBatch, shared, gui
  <2>2. CASE ~Push
    BY <2>1, <2>2, WaitsFrame
  <2>3. CASE Push
    <3>1. todo # <<>> /\ todo \in Seq(Instr) /\ todo' = Tail(todo)
      BY <2>3 DEF Push, Do, Done, WaitsInv, TypeOK
    <3>2. Len(Tail(todo)) = Len(todo) - 1 /\ Len(todo) \in Nat
      BY <3>1, HeadTail
    <3>3. QED
      BY <2>1, <3>1, <3>2
  <2>4. QED
    BY <2>2, <2>3
<1>6. QED
  <2>1. HandleLocked => \/ Signal("rebuild", reqs[cur].image) \/ UNCHANGED signaled
                        \/ reqs[cur].kind = "REMOVE_LAYER"
    BY DEF HandleLocked
  <2>2. QED
    BY <1>1, <1>2, <1>3, <1>4, <1>5, <2>1 DEF Processor

-----------------------------------------------------------------------------
(* The start of an operation *)

\* A program waits for what it sends; for a rebuild only after another wait, unless it is
\* a synchronous update.
LEMMA OperationForm ==
  ASSUME "Close" \notin Ops, TypeOK, Operation
  PROVE  /\ WaitForm'
         /\ Ops \subseteq ExactOperations => \A n \in 1 .. Len(todo') :
              todo'[n].do = "wait" /\ todo'[n].cond = "rebuild" => n > 4
<1>1. CASE todo' \in Seq(SimpleInstr)
  <2>1. \A n \in 1 .. Len(todo') : todo'[n] \in SimpleInstr
    BY <1>1, ElementOfSeq
  <2>2. QED
    BY <2>1 DEF SimpleInstr, WaitForm
<1>2. CASE \E i \in Images : Export(i)
  <2>1. PICK i \in Images : Export(i)
    BY <1>2
  <2>2. /\ Len(todo') = 3
        /\ todo'[1].do = "clear"
        /\ todo'[2].do = "push" /\ todo'[2].req.kind = "EXPORT" /\ todo'[2].req.image = i
        /\ Waiting(todo'[3], "export", i)
    BY <2>1, ExportForm
  <2>3. QED
    BY <2>2 DEF WaitForm, Waiting
<1>3. CASE \E i \in Images : RemoveLayer(i)
  <2>1. PICK i \in Images : RemoveLayer(i)
    BY <1>3
  <2>2. PICK t : t = todo'
    OBVIOUS
  <2>3. /\ Len(t) = 8
        /\ t[1].do = "reset" /\ t[2].do = "clear"
        /\ t[3].do = "push" /\ t[3].req.kind = "REMOVE_LAYER" /\ t[3].req.image = i
        /\ Waiting(t[4], "remove", i)
        /\ t[5] = [do |-> "reset", image |-> i, cond |-> "rebuild"] /\ t[6].do = "clear"
        /\ t[7].do = "push" /\ t[7].req.kind = "REBUILD"
        /\ Waiting(t[8], "rebuild", i)
    BY <2>1, <2>2, RemoveForm
  <2>4. \A n \in 1 .. Len(t) : t[n].do = "push" => n = 3 \/ (n = 7 /\ t[n].req.kind = "REBUILD")
    BY <2>3 DEF Waiting
  <2>5. \A n \in 1 .. Len(t) : t[n].do = "wait" /\ t[n].cond = "rebuild" => n = 8
    BY <2>3 DEF Waiting
  <2>6. t[4].do = "wait" /\ t[8].image = i
    BY <2>3 DEF Waiting
  <2>7. ASSUME NEW n \in 1 .. Len(t), t[n].do = "push"
        PROVE  /\ t[n].req.kind # "EXPORT"
               /\ t[n].req.kind = "REMOVE_LAYER" =>
                    n + 1 \in 1 .. Len(t) /\ Waiting(t[n + 1], "remove", t[n].req.image)
    BY <2>3, <2>4, <2>7
  <2>8. ASSUME NEW n \in 1 .. Len(t), t[n].do = "wait", t[n].cond = "rebuild"
        PROVE  /\ t[n - 1].do = "push" /\ t[n - 2].do = "clear" /\ t[n - 4].do = "wait"
               /\ t[n - 3] = [do |-> "reset", image |-> t[n].image, cond |-> "rebuild"]
    BY <2>3, <2>5, <2>6, <2>8
  <2>9. QED
    BY <2>2, <2>5, <2>7, <2>8 DEF WaitForm
<1>4. CASE \E i \in Images, p \in Pipelines \cup {NoPipe} : SyncUpdate(i, p) \/ SpotWB(i, p)
  <2>1. PICK i \in Images, p \in Pipelines \cup {NoPipe} : SyncUpdate(i, p) \/ SpotWB(i, p)
    BY <1>4
  <2>2. PICK t : t = todo'
    OBVIOUS
  <2>3. /\ Len(t) \in {4, 5}
        /\ t[1] = [do |-> "reset", image |-> i, cond |-> "rebuild"] /\ t[2].do = "clear"
        /\ t[3].do = "push" /\ t[3].req.kind = "REBUILD"
        /\ Waiting(t[4], "rebuild", i)
        /\ Len(t) = 5 => t[5].do = "sample"
    BY <2>1, <2>2, SyncForm
  <2>4. \A n \in 1 .. Len(t) : n \in {1, 2, 3, 4} \/ (n = 5 /\ Len(t) = 5)
    <3>1. Len(t) = 4 \/ Len(t) = 5
      BY <2>3
    <3>2. CASE Len(t) = 4
      BY <3>2
    <3>3. CASE Len(t) = 5
      BY <3>3
    <3>4. QED
      BY <3>1, <3>2, <3>3
  <2>5. \A n \in 1 .. Len(t) : t[n].do = "push" => t[n].req.kind = "REBUILD"
    BY <2>3, <2>4 DEF Waiting
  <2>6. \A n \in 1 .. Len(t) : t[n].do = "wait" => n = 4
    BY <2>3, <2>4
  <2>7. t[4].image = i
    BY <2>3 DEF Waiting
  <2>8. ASSUME NEW n \in 1 .. Len(t), t[n].do = "wait", t[n].cond = "rebuild"
        PROVE  /\ t[n - 1].do = "push" /\ t[n - 2].do = "clear" /\ ~(n > 4)
               /\ t[n - 3] = [do |-> "reset", image |-> t[n].image, cond |-> "rebuild"]
    BY <2>3, <2>6, <2>7, <2>8
  <2>9. WaitForm'
    BY <2>2, <2>5, <2>8 DEF WaitForm
  <2>10. ~(Ops \subseteq ExactOperations)
    BY <2>1 DEF SyncUpdate, SpotWB, Begin, ExactOperations
  <2>11. QED
    BY <2>9, <2>10
<1>5. QED
  BY <1>1, <1>2, <1>3, <1>4, OperationSimple

\* An operation begins when nothing is waited for and no signal is left over.
LEMMA WaitsOperation ==
  ASSUME "Close" \notin Ops, WaitsInv, Operation, [Next]_vars
  PROVE  WaitForm' /\ Pending' /\ Signals' /\ Rebuilds'
<1>1. TypeOK /\ todo = <<>> /\ UNCHANGED <<reqs, signaled, places>>
  BY ZenonT(60) DEF WaitsInv, Operation, Open, LockedUpdate, MoveLayer, RemoveLayer, Export, Close, Update,
         SyncUpdate, Zoom, SpotWB, Redraw, Quit, Begin, shared, proc, places
<1>2. \A k \in InFlight : ~Awaited(k)
  BY AwaitedBlocks
<1>3. InFlight' = InFlight /\ handled' = handled
  BY <1>1 DEF InFlight, places
<1>4. Pending'
  BY <1>1, <1>2, <1>3 DEF Pending, Awaited
<1>5. Signals'
  BY <1>1, NoneLeft DEF Signals
<1>6. WaitForm' /\ Rebuilds'
  BY <1>1, OperationForm DEF Rebuilds
<1>7. QED
  BY <1>4, <1>5, <1>6

-----------------------------------------------------------------------------
(* The theorems *)

LEMMA ExportedStep == TypeOK /\ Stages /\ Numbered /\ Exported /\ [Next]_vars => Exported'
<1> SUFFICES ASSUME TypeOK, Stages, Numbered, Exported, [Next]_vars, pc' = "signal"
             PROVE  reqs'[cur'].kind = "EXPORT"
  BY DEF Exported
<1>1. CASE UnlockImage
  BY <1>1 DEF UnlockImage
<1>2. CASE Processor /\ ~UnlockImage
  BY <1>2 DEF Processor, PopFirst, QueueLength, PopMore, Scan, Dequeue, LockImage, HandleLocked,
              SignalExport, HandleUnlocked, EndBatch
<1>3. CASE ~Processor
  <2>1. pc' = pc /\ cur' = cur
    <3>1. Gui => pc' = pc /\ cur' = cur
      BY DEF Gui, Clear, Push, Reset, Wait, Lock, Unlock, Sample, Settle, DrainLength, DrainPop,
             DrainPush, DrainEnd, Destroy, Join, proc
    <3>2. Operation \/ Rest \/ UNCHANGED vars => pc' = pc /\ cur' = cur
      BY ZenonT(60) DEF Operation, Open, LockedUpdate, MoveLayer, RemoveLayer, Export, Close, Update,
             SyncUpdate, Zoom, SpotWB, Redraw, Quit, Begin, Rest, vars, proc
    <3>3. QED
      BY <1>3, <3>1, <3>2 DEF Next
  <2>2. cur \in 1 .. Len(reqs)
    BY <2>1 DEF Stages, Numbered, Kept
  <2>3. reqs'[cur] = reqs[cur]
    BY <2>2, ReqsSame, Submits
  <2>4. QED
    BY <2>1, <2>3 DEF Exported
<1>4. QED
  BY <1>1, <1>2, <1>3 DEF Processor

LEMMA WaitsStep ==
  ASSUME "Close" \notin Ops, WaitsInv, [Next]_vars
  PROVE  WaitsInv'
<1>1. TypeOK' /\ OrderInv' /\ Stages' /\ Numbered' /\ Exported'
  BY TypeStep, OrderStep, StagesStep, NumberedStep, ExportedStep DEF WaitsInv
<1>2. CASE Rest \/ UNCHANGED vars
  <2>1. todo' = todo /\ signaled' = signaled /\ reqs' = reqs
    BY <1>2 DEF Rest, vars, shared, gui
  <2>2. ~Push
    <3>1. Push => Len(reqs') = Len(reqs) + 1 /\ Len(reqs) \in Nat
      BY Submits DEF WaitsInv
    <3>2. QED
      BY <2>1, <3>1
  <2>3. QED
    BY <1>1, <2>1, <2>2, WaitsFrame DEF WaitsInv
<1>3. QED
  BY <1>1, <1>2, WaitsGui, WaitsProcessor, WaitsOperation DEF WaitsInv, Next

\* Unless the user closes an image or rebuilds it synchronously, the GUI thread goes on
\* after a wait only when everything submitted before is handled or coalesced: the flag
\* it saw was set for it, even that of an export, which Image::export_merged does not
\* reset.
THEOREM WaitsAreExactCorrect ==
  ASSUME Ops \subseteq ExactOperations
  PROVE  Spec => WaitsAreExact
<1>1. WaitsInv /\ [Next]_vars => WaitsInv'
  BY WaitsStep DEF ExactOperations
<1>2. WaitsInv => (Wait => InFlight \subseteq ToSet(handled))
  BY WaitSettles DEF Settled
<1>3. WaitsInv /\ [Next]_vars => [Wait => InFlight \subseteq ToSet(handled)]_vars
  BY <1>2
<1>4. QED
  BY WaitsInit, <1>1, <1>3, PTL DEF Spec, WaitsAreExact

-----------------------------------------------------------------------------
(* Which requests disappear *)

\* No request is taken out of the queue by the GUI thread.
LEMMA NoDrain ==
  ASSUME hand = 0, todo \in Seq(PlainInstr)
  PROVE  ~DrainPop /\ ~DrainPush
<1>1. todo # <<>> => Head(todo).do # "drain"
  BY PlainTail DEF PlainInstr
<1>2. QED
  BY <1>1 DEF DrainPop, DrainPush, Do

CoalescedInv == WaitsInv /\ Found /\ OnlyCoalesced

\* A rebuild may be put off to a later one while it is in a queue: no export and no removal
\* of a layer is between the two.
LEMMA NothingBetween ==
  ASSUME WaitsInv, OnlyCoalesced, NEW d \in ToSet(temp), NEW j \in ToSet(batch),
         reqs[d].kind = "REBUILD", reqs[j].kind = "REBUILD"
  PROVE  d < j /\ \A m \in d .. j : reqs[m].kind \notin {"EXPORT", "REMOVE_LAYER"}
<1>1. /\ temp \in Seq(Nat) /\ batch \in Seq(Nat) /\ handled \in Seq(Nat) /\ Len(reqs) \in Nat
  BY LenProperties DEF WaitsInv, TypeOK
<1>2. PICK n \in 1 .. Len(temp) : temp[n] = d
  BY <1>1 DEF ToSet
<1>3. PICK o \in 1 .. Len(batch) : batch[o] = j
  BY <1>1 DEF ToSet
<1>4. d \in Nat /\ j \in Nat /\ d < j
  BY <1>1, <1>2, <1>3, ElementOfSeq DEF WaitsInv, OrderInv, InOrder, Before
<1>5. d \in 1 .. Len(reqs) /\ j \in 1 .. Len(reqs)
  BY DEF WaitsInv, Numbered, Kept, InFlight
<1>6. ASSUME NEW m \in d .. j, reqs[m].kind \in {"EXPORT", "REMOVE_LAYER"} PROVE FALSE
  <2>1. m \in 1 .. Len(reqs) /\ m > d /\ m < j /\ m < Len(reqs)
    <3>1. m # d /\ m # j
      BY <1>6
    <3>2. QED
      BY <1>1, <1>4, <1>5, <3>1
  <2>2. m \in Kept
    BY <1>6, <2>1 DEF OnlyCoalesced, Gone
  <2>3. m \notin ToSet(handled)
    <3> SUFFICES ASSUME m \in ToSet(handled) PROVE FALSE
      OBVIOUS
    <3>1. PICK q \in 1 .. Len(handled) : handled[q] = m
      BY <1>1 DEF ToSet
    <3>2. handled[q] < temp[n]
      BY <1>2, <3>1 DEF WaitsInv, OrderInv, InOrder, Before
    <3>3. QED
      BY <1>2, <1>4, <2>1, <3>1, <3>2
  <2>4. m = Len(reqs)
    BY <1>6, <2>2, <2>3 DEF Kept, WaitsInv, Pending
  <2>5. QED
    BY <1>1, <2>1, <2>4
<1>7. QED
  BY <1>4, <1>6

\* A turn of the walk puts off one rebuild, and those that were put off to it.
LEMMA CoalescedScan ==
  ASSUME CoalescedInv, Scan
  PROVE  OnlyCoalesced'
<1>1. PICK d : d = Last(temp)
  OBVIOUS
<1>2. /\ d \in 1 .. Len(reqs) /\ d \in ToSet(temp)
      /\ ToSet(batch) \subseteq Kept'
      /\ \A k \in Kept : k \in Kept' \/ k = d
      /\ \/ d \in Kept'
         \/ /\ reqs[d].kind = "REBUILD"
            /\ \E j \in ToSet(batch) : reqs[j].kind = "REBUILD"
  BY <1>1, ScanLoses DEF CoalescedInv, WaitsInv
<1>3. reqs' = reqs /\ Len(reqs) \in Nat
  BY LenProperties DEF Scan, shared, CoalescedInv, WaitsInv, TypeOK
<1>4. CASE d \in Kept'
  <2>1. Kept \subseteq Kept' /\ Gone' \subseteq Gone
    BY <1>2, <1>3, <1>4 DEF Gone
  <2>2. QED
    BY <1>3, <2>1 DEF CoalescedInv, OnlyCoalesced
<1>5. CASE d \notin Kept'
  <2>1. PICK j \in ToSet(batch) : reqs[j].kind = "REBUILD"
    BY <1>2, <1>5
  <2>2. j \in Kept' /\ j \in 1 .. Len(reqs)
    BY <1>2, <2>1 DEF CoalescedInv, WaitsInv, Numbered, Kept, InFlight
  <2>3. d < j /\ \A m \in d .. j : reqs[m].kind \notin {"EXPORT", "REMOVE_LAYER"}
    BY <1>2, <1>5, <2>1, NothingBetween DEF CoalescedInv
  <2>4. ASSUME NEW k \in Gone'
        PROVE  /\ reqs[k].kind = "REBUILD"
               /\ \E h \in Kept' : /\ h > k /\ reqs[h].kind = "REBUILD"
                                   /\ \A m \in k .. h : reqs[m].kind \notin {"EXPORT", "REMOVE_LAYER"}
    <3>1. k \in 1 .. Len(reqs) /\ (k \in Gone \/ k = d)
      BY <1>2, <1>3 DEF Gone
    <3>2. CASE k = d
      BY <1>2, <1>5, <2>1, <2>2, <2>3, <3>2
    <3>3. CASE k \in Gone
      <4>1. PICK h \in Kept : /\ h > k /\ reqs[h].kind = "REBUILD"
                              /\ \A m \in k .. h : reqs[m].kind \notin {"EXPORT", "REMOVE_LAYER"}
        BY <3>3 DEF CoalescedInv, OnlyCoalesced
      <4>2. reqs[k].kind = "REBUILD"
        BY <3>3 DEF CoalescedInv, OnlyCoalesced
      <4>3. CASE h \in Kept'
        BY <4>1, <4>2, <4>3
      <4>4. CASE h = d
        <5>1. \A m \in k .. j : m \in k .. d \/ m \in d .. j
          BY <1>2, <1>3, <2>2, <3>1
        <5>2. j > k
          BY <1>2, <1>3, <2>2, <2>3, <3>1, <4>1, <4>4
        <5>3. QED
          BY <2>1, <2>2, <2>3, <4>1, <4>2, <4>4, <5>1, <5>2
      <4>5. QED
        BY <1>2, <4>1, <4>3, <4>4
    <3>4. QED
      BY <3>1, <3>2, <3>3
  <2>5. QED
    BY <1>3, <2>4 DEF OnlyCoalesced
<1>6. QED
  BY <1>4, <1>5

LEMMA CoalescedStep ==
  ASSUME "Close" \notin Ops, CoalescedInv, [Next]_vars
  PROVE  CoalescedInv'
<1>1. WaitsInv' /\ Found'
  BY WaitsStep, FoundStep DEF CoalescedInv, WaitsInv
<1>2. CASE Scan
  BY <1>1, <1>2, CoalescedScan DEF CoalescedInv
<1>3. CASE ~Scan
  <2>1. TypeOK /\ Stages /\ Numbered /\ ~DrainPop
    BY NoDrain DEF CoalescedInv, WaitsInv, OrderInv
  <2>2. Gone' \subseteq Gone /\ \A k \in 1 .. Len(reqs) : reqs'[k] = reqs[k]
    BY <1>3, <2>1, GoneKept
  <2>3. \A k \in Kept : k \in 1 .. Len(reqs) => k \in Kept'
    BY <1>3, <2>1, KeptGrows
  <2>4. Kept \subseteq 1 .. Len(reqs) /\ Len(reqs) \in Nat
    BY <2>1, LenProperties DEF Numbered, TypeOK
  <2>5. ASSUME NEW k \in Gone'
        PROVE  /\ reqs'[k].kind = "REBUILD"
               /\ \E h \in Kept' : /\ h > k /\ reqs'[h].kind = "REBUILD"
                                   /\ \A m \in k .. h : reqs'[m].kind \notin {"EXPORT", "REMOVE_LAYER"}
    <3>1. k \in Gone /\ k \in 1 .. Len(reqs)
      BY <2>2 DEF Gone
    <3>2. reqs[k].kind = "REBUILD"
      BY <3>1 DEF CoalescedInv, OnlyCoalesced
    <3>3. PICK h \in Kept : /\ h > k /\ reqs[h].kind = "REBUILD"
                            /\ \A m \in k .. h : reqs[m].kind \notin {"EXPORT", "REMOVE_LAYER"}
      BY <3>1 DEF CoalescedInv, OnlyCoalesced
    <3>4. h \in 1 .. Len(reqs) /\ h \in Kept'
      BY <2>3, <2>4
    <3>5. \A m \in k .. h : m \in 1 .. Len(reqs)
      BY <2>4, <3>1, <3>4
    <3>6. \A m \in k .. h : reqs'[m].kind \notin {"EXPORT", "REMOVE_LAYER"}
      BY <2>2, <3>3, <3>5
    <3>7. reqs'[k].kind = "REBUILD" /\ reqs'[h].kind = "REBUILD"
      BY <2>2, <3>1, <3>2, <3>3, <3>4
    <3>8. QED
      BY <3>3, <3>4, <3>6, <3>7
  <2>6. OnlyCoalesced'
    BY <2>5 DEF OnlyCoalesced
  <2>7. QED
    BY <1>1, <2>6 DEF CoalescedInv
<1>4. QED
  BY <1>2, <1>3

\* Unless the user closes an image, a rebuild disappears unhandled only for a later one
\* that was kept, with no export and no removal of a layer between the two.
THEOREM OnlyCoalescedCorrect ==
  ASSUME "Close" \notin Ops
  PROVE  Spec => []OnlyCoalesced
<1>1. Init => CoalescedInv
  <2>1. Init => reqs = <<>> /\ rebuild_found = FALSE /\ pc = "pop"
    BY DEF Init
  <2>2. Init => Gone = {}
    BY <2>1 DEF Gone
  <2>3. QED
    BY <2>1, <2>2, WaitsInit DEF CoalescedInv, Found, OnlyCoalesced
<1>2. CoalescedInv /\ [Next]_vars => CoalescedInv'
  BY CoalescedStep
<1>3. CoalescedInv => OnlyCoalesced
  BY DEF CoalescedInv
<1>4. QED
  BY <1>1, <1>2, <1>3, PTL DEF Spec

-----------------------------------------------------------------------------
(***************************************************************************)
(* No wake-up is lost.  What the GUI thread waits for is the last request  *)
(* sent, and that one is neither absorbed nor merged into another: it is   *)
(* at the end of whichever sequence holds it until it is handled.          *)
(***************************************************************************)

(* The programs, again *)

\* Instruction y may follow x: what is waited for has just been sent, and clearing the
\* flag is half of sending.
Linked(x, y) ==
  /\ y.do = "wait" => x.do = "push" /\ x.req.image = y.image /\ x.req.kind \in Signalling(y.cond)
  /\ y.do = "join" => x.do = "push" /\ x.req.kind = "PROCESSOR_END"
  /\ x.do = "clear" => y.do = "push"

\* A program is made of such pairs, and never ends between clearing and sending.
Links(s) ==
  /\ \A n \in 1 .. Len(s) : n > 1 => Linked(s[n - 1], s[n])
  /\ s # <<>> => s[Len(s)].do # "clear"

\* A part of a program, neither of LockedUpdate nor of Close.
Part(s) ==
  /\ s \in Seq(Instr) /\ s # <<>> /\ Links(s)
  /\ \A n \in 1 .. Len(s) : s[n].do \notin {"lock", "settle"}

LEMMA OnePart ==
  ASSUME NEW x \in Instr, x.do \notin {"clear", "lock", "settle"}
  PROVE  Part(<<x>>) /\ Len(<<x>>) = 1 /\ <<x>>[1] = x
<1> DEFINE s == <<x>>
<1>1. s \in Seq(Instr) /\ Len(s) = 1 /\ s[1] = x /\ s # <<>>
  OBVIOUS
<1> HIDE DEF s
<1>2. Links(s)
  BY <1>1 DEF Links
<1>3. Part(s)
  BY <1>1, <1>2 DEF Part
<1>4. QED
  BY <1>1, <1>3 DEF s

LEMMA SubmitPart ==
  ASSUME NEW kind \in Kinds, NEW image \in Images \cup {NoImage},
         NEW owner \in Images \cup {NoImage}, NEW pipe \in Pipelines \cup {NoPipe},
         NEW s, s = Submit(kind, image, owner, pipe)
  PROVE  /\ Part(s) /\ Len(s) = 2 /\ s[1].do = "clear"
         /\ s[2].do = "push" /\ s[2].req.image = image /\ s[2].req.kind = kind
<1>1. s \in Seq(NamedInstr({image}))
  BY SubmitType
<1>2. s \in Seq(Instr) /\ s # <<>> /\ Len(s) = 2
  BY <1>1 DEF NamedInstr, PlainInstr, Submit
<1>3. /\ s[1].do = "clear" /\ s[2].do = "push" /\ s[2].req.image = image /\ s[2].req.kind = kind
  BY DEF Submit
<1>4. Links(s)
  BY <1>2, <1>3 DEF Links, Linked
<1>5. Part(s)
  BY <1>2, <1>3, <1>4 DEF Part
<1>6. QED
  BY <1>2, <1>3, <1>5

\* A request about an image, without a pipeline.
LEMMA OwnPart ==
  ASSUME NEW kind \in Kinds, NEW i \in Images, NEW s, s = Submit(kind, i, i, NoPipe)
  PROVE  /\ Part(s) /\ Len(s) = 2 /\ s[1].do = "clear"
         /\ s[2].do = "push" /\ s[2].req.image = i /\ s[2].req.kind = kind
BY SubmitPart

LEMMA JoinParts ==
  ASSUME NEW s, NEW t, Part(s), Part(t), Linked(s[Len(s)], t[1])
  PROVE  /\ Part(s \o t) /\ (s \o t)[1] = s[1]
         /\ Len(s \o t) = Len(s) + Len(t) /\ (s \o t)[Len(s \o t)] = t[Len(t)]
<1> DEFINE u == s \o t
<1>1. /\ s \in Seq(Instr) /\ t \in Seq(Instr) /\ s # <<>> /\ t # <<>>
      /\ Len(s) \in Nat \ {0} /\ Len(t) \in Nat \ {0}
  BY HeadTail DEF Part
<1>2. /\ u \in Seq(Instr) /\ Len(u) = Len(s) + Len(t)
      /\ \A n \in 1 .. Len(s) : u[n] = s[n]
      /\ \A n \in 1 .. Len(t) : u[Len(s) + n] = t[n]
  BY <1>1, ConcatForm
<1> HIDE DEF u
<1>3. \A n \in 1 .. Len(u) :
        \/ n \in 1 .. Len(s)
        \/ n - Len(s) \in 1 .. Len(t) /\ Len(s) + (n - Len(s)) = n
  BY <1>1, <1>2
<1>4. u[1] = s[1] /\ u[Len(u)] = t[Len(t)] /\ u # <<>>
  <2>1. 1 \in 1 .. Len(s) /\ Len(t) \in 1 .. Len(t) /\ Len(u) # 0
    BY <1>1, <1>2
  <2>2. u # <<>>
    BY <2>1
  <2>3. QED
    BY <1>2, <2>1, <2>2
<1>5. ASSUME NEW n \in 1 .. Len(u), n > 1 PROVE Linked(u[n - 1], u[n])
  <2>1. CASE n \in 1 .. Len(s)
    <3>1. n - 1 \in 1 .. Len(s)
      BY <1>1, <1>5, <2>1
    <3>2. QED
      BY <1>2, <1>5, <2>1, <3>1 DEF Part, Links
  <2>2. CASE n = Len(s) + 1
    <3>1. 1 \in 1 .. Len(t) /\ Len(s) \in 1 .. Len(s) /\ n - 1 = Len(s)
      BY <1>1, <2>2
    <3>2. QED
      BY <1>2, <2>2, <3>1
  <2>3. CASE n \notin 1 .. Len(s) /\ n # Len(s) + 1
    <3> DEFINE m == n - Len(s)
    <3>1. /\ m \in 1 .. Len(t) /\ m - 1 \in 1 .. Len(t) /\ m > 1
          /\ Len(s) + m = n /\ Len(s) + (m - 1) = n - 1
      BY <1>1, <1>2, <1>5, <2>3
    <3> HIDE DEF m
    <3>2. u[n] = t[m] /\ u[n - 1] = t[m - 1]
      BY <1>2, <3>1
    <3>3. QED
      BY <3>1, <3>2 DEF Part, Links
  <2>4. QED
    BY <2>1, <2>2, <2>3
<1>6. Links(u)
  BY <1>4, <1>5 DEF Links, Part
<1>7. \A n \in 1 .. Len(u) : u[n].do \notin {"lock", "settle"}
  BY <1>2, <1>3 DEF Part
<1>8. Part(u)
  BY <1>2, <1>4, <1>6, <1>7 DEF Part
<1>9. QED
  BY <1>2, <1>4, <1>8 DEF u

\* What is waited for.
LEMMA Signals3 ==
  /\ Signalling("rebuild") = {"REBUILD"} /\ Signalling("remove") = {"REMOVE_LAYER"}
  /\ Signalling("export") = {"EXPORT"}
BY DEF Signalling

LEMMA CondPart ==
  ASSUME NEW i \in Images, NEW c \in Conds, NEW name \in {"reset", "wait"}, NEW s,
         s = OnCond(name, c, i)
  PROVE  Part(s) /\ Len(s) = 1 /\ s[1].do = name /\ s[1].image = i /\ s[1].cond = c
<1> DEFINE x == [do |-> name, image |-> i, cond |-> c]
<1>1. x \in Instr /\ x.do = name /\ x.image = i /\ x.cond = c
  BY DEF Instr
<1>2. s = <<x>>
  BY DEF OnCond
<1> HIDE DEF x
<1>3. QED
  BY <1>1, <1>2, OnePart

\* A program that an operation may start with.
Ready(s) == Part(s) /\ s[1].do \notin {"wait", "join"}

LEMMA UpdatePart ==
  ASSUME NEW i \in Images, NEW p \in Pipelines \cup {NoPipe}, NEW s, s = UpdateProgram(i, p)
  PROVE  /\ Part(s) /\ Len(s) = 2 /\ s[1].do = "clear"
         /\ s[2].do = "push" /\ s[2].req.image = i /\ s[2].req.kind = "REBUILD"
BY SubmitPart DEF UpdateProgram, Kinds

\* Sending a request between a reset and a wait.
LEMMA BetweenPart ==
  ASSUME NEW i \in Images, NEW c \in Conds, NEW kind \in Signalling(c), NEW b,
         Part(b), Len(b) = 2, b[1].do = "clear",
         b[2].do = "push", b[2].req.image = i, b[2].req.kind = kind,
         NEW s, s = OnCond("reset", c, i) \o b \o OnCond("wait", c, i)
  PROVE  Part(s) /\ s[1].do = "reset" /\ s[Len(s)].do = "wait"
<1>1. PICK e, w : e = OnCond("reset", c, i) /\ w = OnCond("wait", c, i)
  OBVIOUS
<1>2. /\ Part(e) /\ Len(e) = 1 /\ e[1].do = "reset"
      /\ Part(w) /\ Len(w) = 1 /\ w[1].do = "wait" /\ w[1].image = i /\ w[1].cond = c
  BY <1>1, CondPart
<1>3. PICK u : u = e \o b
  OBVIOUS
<1>4. Linked(e[Len(e)], b[1]) /\ b[Len(b)] = b[2]
  BY <1>2 DEF Linked
<1>5. Part(u) /\ u[1] = e[1] /\ u[Len(u)] = b[2]
  <2>1. Part(e \o b) /\ (e \o b)[1] = e[1] /\ (e \o b)[Len(e \o b)] = b[Len(b)]
    BY <1>2, <1>4, JoinParts
  <2>2. QED
    BY <1>3, <1>4, <2>1
<1>6. Linked(u[Len(u)], w[1]) /\ w[Len(w)] = w[1]
  BY <1>2, <1>5 DEF Linked
<1>7. s = u \o w
  BY <1>1, <1>3
<1>8. Part(s) /\ s[1] = u[1] /\ s[Len(s)] = w[1]
  <2>1. Part(u \o w) /\ (u \o w)[1] = u[1] /\ (u \o w)[Len(u \o w)] = w[Len(w)]
    BY ZenonT(60), <1>2, <1>5, <1>6, JoinParts
  <2>2. QED
    BY <1>6, <1>7, <2>1
<1>9. QED
  BY <1>2, <1>5, <1>8

LEMMA SyncUpdatePart ==
  ASSUME NEW i \in Images, NEW p \in Pipelines \cup {NoPipe}, NEW s, s = SyncUpdateProgram(i, p)
  PROVE  Part(s) /\ s[1].do = "reset" /\ s[Len(s)].do = "wait"
<1>1. PICK b : b = UpdateProgram(i, p)
  OBVIOUS
<1>2. s = OnCond("reset", "rebuild", i) \o b \o OnCond("wait", "rebuild", i)
  BY <1>1 DEF SyncUpdateProgram
<1>3. "rebuild" \in Conds /\ "REBUILD" \in Signalling("rebuild")
  BY Signals3 DEF Conds
<1>4. /\ Part(b) /\ Len(b) = 2 /\ b[1].do = "clear"
      /\ b[2].do = "push" /\ b[2].req.image = i /\ b[2].req.kind = "REBUILD"
  BY <1>1, UpdatePart
<1>5. QED
  BY ZenonT(60), <1>2, <1>3, <1>4, BetweenPart

\* Two requests, one after the other.
LEMMA TwoParts ==
  ASSUME NEW s, NEW t, Part(s), Part(t), s[Len(s)].do \in {"push", "wait"},
         t[1].do \in {"clear", "reset", "sample"}
  PROVE  Part(s \o t) /\ (s \o t)[1] = s[1] /\ (s \o t)[Len(s \o t)] = t[Len(t)]
<1>1. Linked(s[Len(s)], t[1])
  BY DEF Linked
<1>2. QED
  BY <1>1, JoinParts

\* Every operation but LockedUpdate and Close starts with such a program.
LEMMA OperationParts ==
  ASSUME TypeOK, Operation
  PROVE  Ready(todo') \/ \E i \in Images : LockedUpdate(i) \/ Close(i)
<1>1. ASSUME NEW i \in Images, NEW p \in Pipelines \cup {NoPipe}, Open(i) \/ Update(i, p)
      PROVE  Ready(todo')
  <2>1. todo' = UpdateProgram(i, NoPipe) \/ todo' = UpdateProgram(i, p)
    BY <1>1 DEF Open, Update, Begin
  <2>2. QED
    BY <2>1, UpdatePart DEF Ready
<1>2. ASSUME NEW i \in Images, NEW p \in Pipelines \cup {NoPipe}, SyncUpdate(i, p)
      PROVE  Ready(todo')
  BY <1>2, SyncUpdatePart DEF SyncUpdate, Begin, Ready
<1>3. ASSUME NEW i \in Images, NEW p \in Pipelines, SpotWB(i, p) PROVE Ready(todo')
  <2>1. PICK s, t : s = SyncUpdateProgram(i, p) /\ t = On("sample", i)
    OBVIOUS
  <2>2. Part(s) /\ s[1].do = "reset" /\ s[Len(s)].do = "wait"
    BY <2>1, SyncUpdatePart
  <2>3. [do |-> "sample", image |-> i] \in Instr
    BY DEF Instr
  <2>4. Part(t) /\ t[1].do = "sample"
    BY <2>1, <2>3, OnePart DEF On
  <2>5. todo' = s \o t
    BY <1>3, <2>1 DEF SpotWB, Begin
  <2>6. QED
    BY <2>2, <2>4, <2>5, TwoParts DEF Ready
<1>4. ASSUME NEW i \in Images, NEW p \in Pipelines, Zoom(i, p) PROVE Ready(todo')
  <2>1. PICK s, t : s = Submit("SET_LEVEL", i, i, p) /\ t = UpdateProgram(i, NoPipe)
    OBVIOUS
  <2>2. Part(s) /\ s[1].do = "clear" /\ Len(s) = 2 /\ s[2].do = "push"
    BY <2>1, SubmitPart DEF Kinds
  <2>3. Part(t) /\ t[1].do = "clear"
    BY <2>1, UpdatePart
  <2>4. todo' = s \o t
    BY <1>4, <2>1 DEF Zoom, Begin
  <2>5. s[Len(s)].do = "push"
    BY <2>2
  <2>6. QED
    BY <2>2, <2>3, <2>4, <2>5, TwoParts DEF Ready
<1>5. ASSUME NEW i \in Images, NEW junk \in Garbage, Redraw(i, junk)
      PROVE  Ready(todo')
  <2>1. PICK a, b, c : /\ a = Submit("REDRAW_START", junk, i, NoPipe)
                       /\ b = Submit("REDRAW", i, i, NoPipe)
                       /\ c = Submit("REDRAW_END", junk, i, NoPipe)
    OBVIOUS
  <2>0. /\ junk \in Images \cup {NoImage} /\ i \in Images \cup {NoImage}
        /\ NoPipe \in Pipelines \cup {NoPipe} /\ "REDRAW_START" \in Kinds /\ "REDRAW_END" \in Kinds
    BY GarbageAssumption DEF Kinds
  <2>2. /\ Part(a) /\ a[1].do = "clear" /\ Len(a) = 2 /\ a[2].do = "push"
        /\ Part(c) /\ c[1].do = "clear"
    <3>1. PICK k, l : k = "REDRAW_START" /\ l = "REDRAW_END"
      OBVIOUS
    <3>2. /\ k \in Kinds /\ a = Submit(k, junk, i, NoPipe)
          /\ l \in Kinds /\ c = Submit(l, junk, i, NoPipe)
      BY <2>0, <2>1, <3>1
    <3>3. QED
      BY <2>0, <3>2, SubmitPart
  <2>3. Part(b) /\ b[1].do = "clear" /\ Len(b) = 2 /\ b[2].do = "push"
    BY <2>1, SubmitPart DEF Kinds
  <2>4. PICK u : u = a \o b
    OBVIOUS
  <2>5. a[Len(a)].do = "push" /\ b[Len(b)] = b[2]
    BY <2>2, <2>3
  <2>6. Part(u) /\ u[1] = a[1] /\ u[Len(u)] = b[2]
    <3>1. Part(a \o b) /\ (a \o b)[1] = a[1] /\ (a \o b)[Len(a \o b)] = b[Len(b)]
      BY <2>2, <2>3, <2>5, TwoParts
    <3>2. QED
      BY <2>4, <2>5, <3>1
  <2>7. todo' = u \o c
    BY <1>5, <2>1, <2>4 DEF Redraw, Begin
  <2>8. u[Len(u)].do = "push"
    BY <2>3, <2>6
  <2>9. Part(u \o c) /\ (u \o c)[1] = u[1]
    BY <2>2, <2>6, <2>8, TwoParts
  <2>10. u[1].do = "clear"
    BY <2>2, <2>6
  <2>11. QED
    BY <2>7, <2>9, <2>10 DEF Ready
<1>7. ASSUME NEW i \in Images, MoveLayer(i) PROVE Ready(todo')
  <2>1. PICK s, t : s = Submit("MOVE_LAYER", i, i, NoPipe) /\ t = UpdateProgram(i, NoPipe)
    OBVIOUS
  <2>2. Part(s) /\ s[1].do = "clear" /\ Len(s) = 2 /\ s[2].do = "push"
    BY <2>1, OwnPart DEF Kinds
  <2>3. Part(t) /\ t[1].do = "clear"
    BY <2>1, UpdatePart
  <2>4. todo' = s \o t
    BY <1>7, <2>1 DEF MoveLayer, Begin
  <2>5. s[Len(s)].do = "push"
    BY <2>2
  <2>6. Part(s \o t) /\ (s \o t)[1] = s[1]
    BY <2>2, <2>3, <2>5, TwoParts
  <2>7. QED
    BY <2>2, <2>4, <2>6 DEF Ready
<1>8. ASSUME NEW i \in Images, RemoveLayer(i) PROVE Ready(todo')
  <2>1. PICK b, s, t : /\ b = Submit("REMOVE_LAYER", i, i, NoPipe)
                       /\ s = OnCond("reset", "remove", i) \o b \o OnCond("wait", "remove", i)
                       /\ t = SyncUpdateProgram(i, NoPipe)
    OBVIOUS
  <2>2. /\ Part(b) /\ Len(b) = 2 /\ b[1].do = "clear" /\ b[2].do = "push"
        /\ b[2].req.image = i /\ b[2].req.kind = "REMOVE_LAYER"
    BY <2>1, OwnPart DEF Kinds
  <2>3. "remove" \in Conds /\ "REMOVE_LAYER" \in Signalling("remove")
    BY Signals3 DEF Conds
  <2>4. Part(s) /\ s[1].do = "reset" /\ s[Len(s)].do = "wait"
    BY ZenonT(60), <2>1, <2>2, <2>3, BetweenPart
  <2>5. Part(t) /\ t[1].do = "reset"
    BY <2>1, SyncUpdatePart
  <2>6. todo' = s \o t
    BY <1>8, <2>1 DEF RemoveLayer, Begin
  <2>7. QED
    BY <2>4, <2>5, <2>6, TwoParts DEF Ready
<1>9. ASSUME NEW i \in Images, Export(i) PROVE Ready(todo')
  <2>1. PICK s, t : s = Submit("EXPORT", i, i, NoPipe) /\ t = OnCond("wait", "export", i)
    OBVIOUS
  <2>2. /\ Part(s) /\ s[1].do = "clear" /\ Len(s) = 2 /\ s[2].do = "push"
        /\ s[2].req.image = i /\ s[2].req.kind = "EXPORT"
    BY <2>1, OwnPart DEF Kinds
  <2>3. Part(t) /\ t[1].do = "wait" /\ t[1].image = i /\ t[1].cond = "export"
    BY <2>1, CondPart DEF Conds
  <2>4. Linked(s[2], t[1])
    BY <2>2, <2>3, Signals3 DEF Linked
  <2>5. todo' = s \o t
    BY <1>9, <2>1 DEF Export, Begin
  <2>6. QED
    BY <2>2, <2>3, <2>4, <2>5, JoinParts DEF Ready
<1>10. ASSUME NEW junk \in Garbage, Quit(junk) PROVE Ready(todo')
  <2>1. PICK s, t : s = Submit("PROCESSOR_END", junk, NoImage, NoPipe) /\ t = <<[do |-> "join"]>>
    OBVIOUS
  <2>2. /\ Part(s) /\ s[1].do = "clear" /\ Len(s) = 2 /\ s[2].do = "push"
        /\ s[2].req.kind = "PROCESSOR_END"
    <3>1. /\ junk \in Images \cup {NoImage} /\ NoImage \in Images \cup {NoImage}
          /\ NoPipe \in Pipelines \cup {NoPipe} /\ "PROCESSOR_END" \in Kinds
      BY GarbageAssumption DEF Kinds
    <3>2. PICK k : k = "PROCESSOR_END"
      OBVIOUS
    <3>3. k \in Kinds /\ s = Submit(k, junk, NoImage, NoPipe)
      BY <2>1, <3>1, <3>2
    <3>4. Part(s) /\ s[1].do = "clear" /\ Len(s) = 2 /\ s[2].do = "push" /\ s[2].req.kind = k
      BY <3>1, <3>3, SubmitPart
    <3>5. QED
      BY <3>2, <3>4
  <2>3. [do |-> "join"] \in Instr
    BY DEF Instr
  <2>4. Part(t) /\ t[1].do = "join"
    BY <2>1, <2>3, OnePart
  <2>5. Linked(s[2], t[1])
    BY <2>2, <2>4 DEF Linked
  <2>6. todo' = s \o t
    BY <1>10, <2>1 DEF Quit
  <2>7. QED
    BY <2>2, <2>4, <2>5, <2>6, JoinParts DEF Ready
<1>11. QED
  <2>1. CASE \E junk \in Garbage : Quit(junk)
    BY <1>10, <2>1
  <2>2. ASSUME NEW i \in Images, NEW junk \in Garbage, Redraw(i, junk)
        PROVE  Ready(todo')
    BY <1>5, <2>2
  <2>3. ASSUME NEW i \in Images,
               \/ \E p \in Pipelines \cup {NoPipe} : Update(i, p) \/ SyncUpdate(i, p)
               \/ \E p \in Pipelines : Zoom(i, p) \/ SpotWB(i, p)
        PROVE  Ready(todo')
    BY <1>1, <1>2, <1>3, <1>4, <2>3
  <2>4. ASSUME NEW i \in Images, Open(i) \/ MoveLayer(i) \/ RemoveLayer(i) \/ Export(i)
        PROVE  Ready(todo')
    BY <1>1, <1>7, <1>8, <1>9, <2>4
  <2>5. QED
    BY <2>1, <2>2, <2>3, <2>4 DEF Operation

-----------------------------------------------------------------------------
(* The invariant *)

\* The lock is taken by LockedUpdate alone, to send one request.
LockForm ==
  \A n \in 1 .. Len(todo) : todo[n].do = "lock" =>
    /\ n = 1 /\ Len(todo) = 4 /\ todo[2].do = "clear" /\ todo[3].do = "push"
    /\ todo[4].do = "unlock" /\ todo[4].image = todo[1].image

\* While the GUI thread has a lock it only sends requests, and then gives the lock back.
GuiLocked ==
  \A i \in Images : mutex[i] = "gui" =>
    /\ todo # <<>> /\ todo[Len(todo)].do = "unlock" /\ todo[Len(todo)].image = i
    /\ \A n \in 1 .. Len(todo) : n < Len(todo) => todo[n].do \in {"clear", "push"}

\* No image is being closed.
NotClosing == \A n \in 1 .. Len(todo) : todo[n].do # "settle"

\* The last request sent is at the end of what holds it.
Newest ==
  /\ \A n \in 1 .. Len(queue) : queue[n] = Len(reqs) => n = Len(queue)
  /\ \A n \in 1 .. Len(temp) : temp[n] = Len(reqs) =>
       n = Len(temp) /\ queue = <<>> /\ batch = <<>>

\* The pops that are left in a batch find something.
Counted == pc = "more" => left <= Len(queue)

\* What the GUI thread sleeps on is the last request sent.
Awaits == todo # <<>> =>
  LET x == Head(todo)
      k == Len(reqs)
  IN  /\ x.do = "wait" => \/ signaled[x.cond][x.image]
                          \/ /\ k # 0 /\ Unsignaled(k)
                             /\ reqs[k].image = x.image /\ reqs[k].kind \in Signalling(x.cond)
      /\ x.do = "join" => \/ ~running
                          \/ /\ k # 0 /\ k \in InFlight /\ k \notin ToSet(handled)
                             /\ reqs[k].kind = "PROCESSOR_END"

\* What holds whenever the program is between two steps, besides the invariant of the
\* order of requests (OrderInv), which goes with it.
WakeInv ==
  /\ TypeOK /\ Stages /\ Numbered /\ Found /\ Exported
  /\ Links(todo) /\ LockForm /\ GuiLocked /\ NotClosing
  /\ Newest /\ Counted /\ Awaits

LEMMA WakeInit == Init => WakeInv
<1> SUFFICES ASSUME Init PROVE WakeInv
  OBVIOUS
<1>1. TypeOK /\ Stages /\ Numbered
  BY InitType, StagesInit, NumberedInit
<1>2. /\ todo = <<>> /\ Len(todo) = 0 /\ pc = "pop"
      /\ queue = <<>> /\ temp = <<>> /\ Len(queue) = 0 /\ Len(temp) = 0
      /\ mutex = [i \in Images |-> "free"] /\ rebuild_found = FALSE
  BY DEF Init
<1>3. Found /\ Exported
  BY <1>2 DEF Found, Exported
<1>4. Links(todo) /\ LockForm /\ GuiLocked /\ NotClosing
  BY <1>2 DEF Links, LockForm, GuiLocked, NotClosing
<1>5. Newest /\ Counted /\ Awaits
  BY <1>2 DEF Newest, Counted, Awaits
<1>6. QED
  BY <1>1, <1>3, <1>4, <1>5 DEF WakeInv

-----------------------------------------------------------------------------
(* The programs *)

\* The four instructions of LockedUpdate.
LEMMA LockedForm ==
  ASSUME NEW S, NEW a \in S, NEW b \in S, NEW c \in S, NEW d \in S, NEW s,
         s = <<a>> \o <<b, c>> \o <<d>>
  PROVE  s \in Seq(S) /\ Len(s) = 4 /\ s[1] = a /\ s[2] = b /\ s[3] = c /\ s[4] = d
<1>1. PICK e, m, w : e = <<a>> /\ m = <<b, c>> /\ w = <<d>>
  OBVIOUS
<1>2. /\ e \in Seq(S) /\ Len(e) = 1 /\ e[1] = a
      /\ m \in Seq(S) /\ Len(m) = 2 /\ m[1] = b /\ m[2] = c
      /\ w \in Seq(S) /\ Len(w) = 1 /\ w[1] = d
  BY <1>1
<1>3. PICK u : u = e \o m
  OBVIOUS
<1>4. /\ u \in Seq(S) /\ Len(u) = Len(e) + Len(m)
      /\ \A n \in 1 .. Len(e) : u[n] = e[n]
      /\ \A n \in 1 .. Len(m) : u[Len(e) + n] = m[n]
  <2>1. e \in Seq(S) /\ m \in Seq(S)
    BY <1>2
  <2>2. QED
    BY <1>3, <2>1, ConcatForm
<1>5. u \in Seq(S) /\ Len(u) = 3 /\ u[1] = a /\ u[2] = b /\ u[3] = c
  BY <1>2, <1>4
<1>6. s = u \o w
  BY <1>1, <1>3
<1>7. /\ s \in Seq(S) /\ Len(s) = Len(u) + Len(w)
      /\ \A n \in 1 .. Len(u) : s[n] = u[n]
      /\ \A n \in 1 .. Len(w) : s[Len(u) + n] = w[n]
  BY <1>2, <1>5, <1>6, ConcatForm
<1>8. QED
  BY <1>2, <1>5, <1>7

LEMMA LockedProgram ==
  ASSUME NEW i \in Images, LockedUpdate(i)
  PROVE  /\ Len(todo') = 4 /\ todo' # <<>> /\ Head(todo') = todo'[1]
         /\ todo'[1].do = "lock" /\ todo'[2].do = "clear" /\ todo'[3].do = "push"
         /\ todo'[4].do = "unlock" /\ todo'[4].image = todo'[1].image
<1> DEFINE r == [kind |-> "REBUILD", image |-> i, owner |-> i, pipe |-> NoPipe]
           a == [do |-> "lock", image |-> i]
           b == [do |-> "clear"]
           c == [do |-> "push", req |-> r]
           d == [do |-> "unlock", image |-> i]
<1>1. r \in Request
  BY DEF Request, Kinds
<1>2. todo' = <<a>> \o <<b, c>> \o <<d>>
  BY DEF LockedUpdate, Begin, On, UpdateProgram, Submit
<1> HIDE DEF r
<1>3. a \in Instr /\ b \in Instr /\ c \in Instr /\ d \in Instr
  BY <1>1 DEF Instr
<1>4. /\ a.do = "lock" /\ b.do = "clear" /\ c.do = "push" /\ d.do = "unlock"
      /\ d.image = i /\ a.image = i
  OBVIOUS
<1> HIDE DEF a, b, c, d
<1>5. PICK s : s = <<a>> \o <<b, c>> \o <<d>>
  OBVIOUS
<1>6. s \in Seq(Instr) /\ Len(s) = 4 /\ s[1] = a /\ s[2] = b /\ s[3] = c /\ s[4] = d
  BY <1>3, <1>5, LockedForm
<1>7. s # <<>> /\ Head(s) = s[1]
  <2>1. s # <<>>
    BY <1>6
  <2>2. QED
    BY <1>6, <2>1, HeadTail
<1>8. QED
  BY <1>2, <1>4, <1>5, <1>6, <1>7

\* What every operation starts with.
LEMMA OperationLinks ==
  ASSUME "Close" \notin Ops, TypeOK, Operation
  PROVE  /\ Links(todo') /\ LockForm'
         /\ todo' # <<>> => Head(todo').do \notin {"wait", "join"}
         /\ \A n \in 1 .. Len(todo') : todo'[n].do # "settle"
<1>1. CASE Ready(todo')
  <2>1. PICK s : s = todo'
    OBVIOUS
  <2>2. /\ s \in Seq(Instr) /\ s # <<>> /\ Links(s)
        /\ s[1].do \notin {"wait", "join"}
        /\ \A n \in 1 .. Len(s) : s[n].do \notin {"lock", "settle"}
    BY <1>1, <2>1 DEF Ready, Part
  <2>3. Head(s) = s[1]
    BY <2>2, HeadTail
  <2>4. LockForm'
    BY <2>1, <2>2 DEF LockForm
  <2>5. QED
    BY <2>1, <2>2, <2>3, <2>4
<1>2. CASE \E i \in Images : LockedUpdate(i)
  <2>1. PICK i \in Images : LockedUpdate(i)
    BY <1>2
  <2>2. PICK s : s = todo'
    OBVIOUS
  <2>3. /\ Len(s) = 4 /\ s # <<>> /\ Head(s) = s[1]
        /\ s[1].do = "lock" /\ s[2].do = "clear" /\ s[3].do = "push"
        /\ s[4].do = "unlock" /\ s[4].image = s[1].image
    BY <2>1, <2>2, LockedProgram
  <2>4. Links(s)
    BY <2>3 DEF Links, Linked
  <2>5. \A n \in 1 .. Len(s) : s[n].do # "settle" /\ (s[n].do = "lock" => n = 1)
    BY <2>3
  <2>6. LockForm'
    BY <2>2, <2>3, <2>5 DEF LockForm
  <2>7. QED
    BY <2>2, <2>3, <2>4, <2>5, <2>6
<1>3. \A i \in Images : ~Close(i)
  BY DEF Close, Begin
<1>4. QED
  BY <1>1, <1>2, <1>3, OperationParts

-----------------------------------------------------------------------------
(* The steps of the GUI thread *)

\* What its instructions have in common, as long as it does not drain the queue.
LEMMA WakeGuiEach ==
  ASSUME TypeOK, Gui, ~DrainPop, ~DrainPush
  PROVE  /\ todo # <<>> /\ todo' = Tail(todo) /\ proc' = proc
         /\ \/ Push /\ Head(todo).do = "push"
            \/ Head(todo).do # "push" /\ reqs' = reqs /\ queue' = queue /\ hand' = hand
         /\ \/ Head(todo).do \notin {"lock", "unlock"} /\ mutex' = mutex
            \/ Head(todo).do = "lock" /\ mutex' = [mutex EXCEPT ![Head(todo).image] = "gui"]
            \/ Head(todo).do = "unlock" /\ mutex' = [mutex EXCEPT ![Head(todo).image] = "free"]
<1>1. CASE Push
  BY <1>1 DEF Push, Do, Done, proc
<1>2. CASE Clear \/ Reset \/ Wait \/ Sample \/ Settle \/ DrainLength \/ DrainEnd \/ Destroy \/ Join
  BY <1>2 DEF Clear, Reset, Wait, Sample, Settle, DrainLength, DrainEnd, Destroy, Join,
              Do, Done, shared
<1>3. CASE Lock \/ Unlock
  BY <1>3 DEF Lock, Unlock, Do, Done
<1>4. QED
  BY <1>1, <1>2, <1>3 DEF Gui

\* The rest of a program is linked as the program is.
LEMMA LinksTail ==
  ASSUME TypeOK, Links(todo), todo # <<>>, todo' = Tail(todo)
  PROVE  /\ Links(todo')
         /\ todo' # <<>> => Head(todo') = todo[2] /\ Linked(Head(todo), Head(todo'))
         /\ Head(todo).do = "clear" => todo' # <<>>
<1>1. PICK t : t = todo'
  OBVIOUS
<1>2. /\ Len(todo) \in Nat \ {0} /\ Len(t) = Len(todo) - 1 /\ Head(todo) = todo[1]
      /\ \A n \in 1 .. Len(t) : n + 1 \in 1 .. Len(todo) /\ t[n] = todo[n + 1]
  BY <1>1, TodoTail
<1>3. t \in Seq(Instr)
  BY <1>1, HeadTail DEF TypeOK
<1>4. ASSUME t # <<>>
      PROVE  /\ Len(t) \in 1 .. Len(t) /\ 1 \in 1 .. Len(t) /\ Head(t) = t[1]
             /\ t[Len(t)] = todo[Len(todo)] /\ t[1] = todo[2] /\ Linked(todo[1], todo[2])
  <2>1. Len(t) \in Nat \ {0} /\ Head(t) = t[1]
    BY <1>3, <1>4, HeadTail
  <2>2. Len(t) \in 1 .. Len(t) /\ 1 \in 1 .. Len(t) /\ Len(t) + 1 = Len(todo)
    BY <1>2, <2>1
  <2>3. t[Len(t)] = todo[Len(todo)] /\ t[1] = todo[2] /\ 2 \in 1 .. Len(todo)
    BY <1>2, <2>2
  <2>4. Linked(todo[2 - 1], todo[2])
    BY <2>3 DEF Links
  <2>5. QED
    BY <2>1, <2>2, <2>3, <2>4
<1>5. ASSUME NEW n \in 1 .. Len(t), n > 1 PROVE Linked(t[n - 1], t[n])
  <2>1. n - 1 \in 1 .. Len(t) /\ (n - 1) + 1 = n /\ (n + 1) - 1 = n /\ n + 1 > 1
    BY <1>2, <1>5
  <2>2. t[n] = todo[n + 1] /\ t[n - 1] = todo[n] /\ n + 1 \in 1 .. Len(todo)
    BY <1>2, <2>1
  <2>3. Linked(todo[(n + 1) - 1], todo[n + 1])
    BY <2>1, <2>2 DEF Links
  <2>4. QED
    BY <2>1, <2>2, <2>3
<1>6. t # <<>> => t[Len(t)].do # "clear"
  BY <1>4 DEF Links
<1>7. Links(t)
  BY <1>5, <1>6 DEF Links
<1>8. Head(todo).do = "clear" => t # <<>>
  <2> SUFFICES ASSUME Head(todo).do = "clear", t = <<>> PROVE FALSE
    OBVIOUS
  <2>1. Len(t) = 0
    OBVIOUS
  <2>2. Len(todo) = 1
    BY <1>2, <2>1
  <2>3. QED
    BY <1>2, <2>2 DEF Links
<1>9. QED
  BY <1>1, <1>2, <1>4, <1>7, <1>8

\* The locks, and what is left of the programs that take them.
LEMMA LocksGui ==
  ASSUME WakeInv, Gui, ~DrainPop, ~DrainPush
  PROVE  LockForm' /\ GuiLocked'
<1>1. PICK t : t = todo'
  OBVIOUS
<1>2. PICK x : x = Head(todo)
  OBVIOUS
<1>3. TypeOK /\ todo # <<>> /\ todo' = Tail(todo)
  BY WakeGuiEach DEF WakeInv
<1>4. /\ Len(todo) \in Nat \ {0} /\ Len(t) = Len(todo) - 1 /\ x = todo[1]
      /\ \A n \in 1 .. Len(t) : n + 1 \in 1 .. Len(todo) /\ t[n] = todo[n + 1]
  BY <1>1, <1>2, <1>3, TodoTail
<1>5. LockForm'
  <2>1. ASSUME NEW n \in 1 .. Len(t), t[n].do = "lock" PROVE FALSE
    <3>1. n + 1 \in 1 .. Len(todo) /\ todo[n + 1].do = "lock" /\ n + 1 # 1
      BY <1>4, <2>1
    <3>2. QED
      BY <3>1 DEF WakeInv, LockForm
  <2>2. QED
    BY <1>1, <2>1 DEF LockForm
<1>6. ASSUME NEW i \in Images, mutex'[i] = "gui"
      PROVE  /\ t # <<>> /\ t[Len(t)].do = "unlock" /\ t[Len(t)].image = i
             /\ \A n \in 1 .. Len(t) : n < Len(t) => t[n].do \in {"clear", "push"}
  <2>0. \/ x.do \notin {"lock", "unlock"} /\ mutex' = mutex
        \/ x.do = "lock" /\ mutex' = [mutex EXCEPT ![x.image] = "gui"]
        \/ x.do = "unlock" /\ mutex' = [mutex EXCEPT ![x.image] = "free"]
    BY <1>2, WakeGuiEach DEF WakeInv
  <2>1. CASE mutex[i] = "gui"
    <3>1. /\ todo[Len(todo)].do = "unlock" /\ todo[Len(todo)].image = i
          /\ \A n \in 1 .. Len(todo) : n < Len(todo) => todo[n].do \in {"clear", "push"}
      BY <2>1 DEF WakeInv, GuiLocked
    <3>2. Len(todo) # 1
      <4> SUFFICES ASSUME Len(todo) = 1 PROVE FALSE
        OBVIOUS
      <4>1. x.do = "unlock" /\ x.image = i
        BY <1>4, <3>1
      <4>2. mutex' = [mutex EXCEPT ![i] = "free"]
        BY <2>0, <4>1
      <4>3. QED
        BY <1>3, <1>6, <4>2 DEF TypeOK
    <3>3. Len(t) \in 1 .. Len(t) /\ Len(t) + 1 = Len(todo) /\ t # <<>>
      BY <1>4, <3>2
    <3>4. t[Len(t)] = todo[Len(todo)]
      BY <1>4, <3>3
    <3>5. ASSUME NEW n \in 1 .. Len(t), n < Len(t) PROVE t[n].do \in {"clear", "push"}
      <4>1. n + 1 \in 1 .. Len(todo) /\ n + 1 < Len(todo) /\ t[n] = todo[n + 1]
        BY <1>4, <3>5
      <4>2. QED
        BY <3>1, <4>1
    <3>6. QED
      BY <3>1, <3>3, <3>4, <3>5
  <2>2. CASE mutex[i] # "gui"
    <3>1. x.do = "lock" /\ mutex' = [mutex EXCEPT ![x.image] = "gui"] /\ i = x.image
      BY <1>3, <1>6, <2>0, <2>2 DEF TypeOK
    <3>2. 1 \in 1 .. Len(todo) /\ todo[1].do = "lock"
      BY <1>4, <3>1
    <3>3. /\ Len(todo) = 4 /\ todo[2].do = "clear" /\ todo[3].do = "push"
          /\ todo[4].do = "unlock" /\ todo[4].image = todo[1].image
      BY <3>2 DEF WakeInv, LockForm
    <3>4. Len(t) = 3 /\ t[1] = todo[2] /\ t[2] = todo[3] /\ t[3] = todo[4]
      BY <1>4, <3>3
    <3>5. t # <<>>
      <4>1. Len(t) # 0
        BY <3>4
      <4>2. QED
        BY <4>1
    <3>6. QED
      BY <1>4, <3>1, <3>3, <3>4, <3>5
  <2>3. QED
    BY <2>1, <2>2
<1>7. QED
  BY <1>1, <1>5, <1>6 DEF GuiLocked

\* No instruction closes an image, and a request sent is one more for the processor to pop.
LEMMA CountedGui ==
  ASSUME WakeInv, Gui, ~DrainPop, ~DrainPush
  PROVE  NotClosing' /\ Counted'
<1>1. /\ TypeOK /\ todo # <<>> /\ todo' = Tail(todo) /\ proc' = proc
      /\ \/ Push /\ Head(todo).do = "push"
         \/ Head(todo).do # "push" /\ reqs' = reqs /\ queue' = queue
  BY WakeGuiEach DEF WakeInv
<1>2. pc' = pc /\ left' = left
  BY <1>1 DEF proc
<1>3. NotClosing'
  BY <1>1, TodoTail DEF WakeInv, NotClosing
<1>4. CASE Push
  <2>1. /\ queue \in Seq(Nat) /\ Len(queue) \in Nat /\ Len(reqs) \in Nat /\ left \in Nat
        /\ queue' = Append(queue, Len(reqs) + 1)
    BY <1>1, <1>4, LenProperties DEF Push, TypeOK
  <2>2. Len(queue') = Len(queue) + 1
    BY <2>1, AppendProperties
  <2>3. QED
    BY <1>2, <1>3, <2>1, <2>2 DEF WakeInv, Counted
<1>5. CASE ~Push
  BY <1>1, <1>2, <1>3, <1>5 DEF WakeInv, Counted
<1>6. QED
  BY <1>4, <1>5

\* The number of a new request is in no sequence of old ones.
LEMMA NewestAppend ==
  ASSUME NEW s \in Seq(Nat), NEW k \in Nat, \A n \in 1 .. Len(s) : s[n] <= k
  PROVE  /\ \A n \in 1 .. Len(Append(s, k + 1)) :
              Append(s, k + 1)[n] = k + 1 => n = Len(Append(s, k + 1))
         /\ \A n \in 1 .. Len(s) : s[n] # k + 1
<1>1. PICK u : u = Append(s, k + 1)
  OBVIOUS
<1>2. /\ Len(s) \in Nat /\ Len(u) = Len(s) + 1 /\ \A n \in 1 .. Len(s) : s[n] \in Nat
      /\ \A n \in 1 .. Len(s) : u[n] = s[n]
  BY <1>1, AppendProperties, LenProperties, ElementOfSeq
<1>3. \A n \in 1 .. Len(s) : s[n] # k + 1
  BY <1>2
<1>4. ASSUME NEW n \in 1 .. Len(u), u[n] = k + 1 PROVE n = Len(u)
  BY <1>2, <1>3, <1>4
<1>5. QED
  BY <1>1, <1>3, <1>4

LEMMA NewestGui ==
  ASSUME WakeInv, Gui, ~DrainPop, ~DrainPush
  PROVE  Newest'
<1>1. /\ TypeOK /\ proc' = proc
      /\ \/ Push /\ Head(todo).do = "push"
         \/ Head(todo).do # "push" /\ reqs' = reqs /\ queue' = queue
  BY WakeGuiEach DEF WakeInv
<1>2. temp' = temp /\ batch' = batch
  BY <1>1 DEF proc
<1>3. CASE ~Push
  BY <1>1, <1>2, <1>3 DEF WakeInv, Newest
<1>4. CASE Push
  <2>1. PICK k : k = Len(reqs)
    OBVIOUS
  <2>2. /\ queue \in Seq(Nat) /\ temp \in Seq(Nat) /\ k \in Nat
        /\ queue' = Append(queue, k + 1) /\ Len(reqs') = k + 1
    BY <1>1, <1>4, <2>1, Submits DEF Push, TypeOK
  <2>3. \A n \in 1 .. Len(queue) : queue[n] <= k
    <3>1. ASSUME NEW n \in 1 .. Len(queue) PROVE queue[n] \in Kept
      BY DEF Kept, InFlight, ToSet
    <3>2. QED
      BY <2>1, <2>2, <3>1 DEF WakeInv, Numbered
  <2>4. \A n \in 1 .. Len(temp) : temp[n] <= k
    <3>1. ASSUME NEW n \in 1 .. Len(temp) PROVE temp[n] \in Kept
      BY DEF Kept, InFlight, ToSet
    <3>2. QED
      BY <2>1, <2>2, <3>1 DEF WakeInv, Numbered
  <2>5. \A n \in 1 .. Len(queue') : queue'[n] = Len(reqs') => n = Len(queue')
    BY <2>2, <2>3, NewestAppend
  <2>6. \A n \in 1 .. Len(temp') : temp'[n] # Len(reqs')
    BY <1>2, <2>2, <2>4, NewestAppend
  <2>7. QED
    BY <2>5, <2>6 DEF Newest
<1>5. QED
  BY <1>3, <1>4

\* What the GUI thread begins to wait for it has just sent.
LEMMA AwaitsGui ==
  ASSUME WakeInv, Gui, ~DrainPop, ~DrainPush
  PROVE  Awaits'
<1> SUFFICES ASSUME todo' # <<>>, NEW y, y = Head(todo'), y.do \in {"wait", "join"}
             PROVE  LET k == Len(reqs')
                    IN  /\ k # 0 /\ k \in InFlight' /\ k \notin ToSet(handled')
                        /\ y.do = "wait" => /\ reqs'[k].image = y.image
                                            /\ reqs'[k].kind \in Signalling(y.cond)
                        /\ y.do = "join" => reqs'[k].kind = "PROCESSOR_END"
  BY DEF Awaits, Unsignaled
<1>1. /\ TypeOK /\ todo # <<>> /\ todo' = Tail(todo) /\ proc' = proc
      /\ Push \/ Head(todo).do # "push"
  BY WakeGuiEach DEF WakeInv
<1>2. PICK x : x = Head(todo)
  OBVIOUS
<1>3. Linked(x, y)
  BY <1>1, <1>2, LinksTail DEF WakeInv
<1>4. /\ x.do = "push"
      /\ y.do = "wait" => x.req.image = y.image /\ x.req.kind \in Signalling(y.cond)
      /\ y.do = "join" => x.req.kind = "PROCESSOR_END"
  BY <1>3 DEF Linked
<1>5. PICK k : k = Len(reqs) + 1
  OBVIOUS
<1>6. /\ Push /\ reqs' = Append(reqs, x.req) /\ queue' = Append(queue, k)
      /\ reqs \in Seq(Request) /\ queue \in Seq(Nat) /\ Len(reqs) \in Nat /\ Len(reqs') = k
  BY <1>1, <1>2, <1>4, <1>5, Submits DEF Push, TypeOK
<1>7. reqs'[k] = x.req
  <2>1. x \in Instr
    BY <1>1, <1>2, HeadTail DEF TypeOK
  <2>2. x.req \in Request
    BY <1>4, <2>1 DEF Instr
  <2>3. QED
    BY <1>5, <1>6, <2>2, AppendProperties
<1>8. k \in InFlight'
  <2>1. k \in ToSet(queue')
    BY <1>5, <1>6, SetOfAppend
  <2>2. QED
    BY <2>1 DEF InFlight
<1>9. k \notin ToSet(handled')
  <2>1. handled' = handled /\ ToSet(handled) \subseteq 1 .. Len(reqs)
    BY <1>1 DEF proc, WakeInv, Numbered, Kept
  <2>2. QED
    BY <1>5, <1>6, <2>1
<1>10. QED
  BY <1>4, <1>5, <1>6, <1>7, <1>8, <1>9

-----------------------------------------------------------------------------
(* The steps of the processor *)

\* What they have in common.
LEMMA WakeProcessorEach ==
  ASSUME TypeOK, Processor
  PROVE  /\ UNCHANGED <<todo, hand, reqs>> /\ ~Push
         /\ ~running => ~running'
         /\ \/ Scan
            \/ handled' = handled /\ ~Scan
            \/ handled' = Append(handled, cur) /\ ~Scan /\ HandleLocked /\ cur' = cur
            \/ handled' = Append(handled, cur) /\ ~Scan /\ HandleUnlocked
<1>1. UNCHANGED <<todo, hand, reqs>>
  BY DEF Processor, PopFirst, QueueLength, PopMore, Scan, Dequeue, LockImage, HandleLocked,
         UnlockImage, SignalExport, HandleUnlocked, EndBatch, shared, gui
<1>2. ~Push
  <2> SUFFICES ASSUME Push PROVE FALSE
    OBVIOUS
  <2>1. todo # <<>> /\ todo' = Tail(todo)
    BY DEF Push, Do, Done
  <2>2. Len(todo') = Len(todo) - 1 /\ Len(todo) \in Nat \ {0}
    BY <2>1, TodoTail
  <2>3. QED
    BY <1>1, <2>2
<1>3. ~running => ~running'
  BY DEF Processor, PopFirst, QueueLength, PopMore, Scan, Dequeue, LockImage,
         HandleLocked, UnlockImage, SignalExport, HandleUnlocked, EndBatch
<1>4. \/ Scan
      \/ handled' = handled /\ ~Scan
      \/ handled' = Append(handled, cur) /\ ~Scan /\ HandleLocked /\ cur' = cur
      \/ handled' = Append(handled, cur) /\ ~Scan /\ HandleUnlocked
  <2>1. HandleLocked \/ HandleUnlocked => ~Scan
    BY DEF HandleLocked, HandleUnlocked, Scan
  <2>2. HandleLocked => handled' = Append(handled, cur) /\ cur' = cur
    BY DEF HandleLocked, Handled
  <2>3. HandleUnlocked => handled' = Append(handled, cur)
    BY DEF HandleUnlocked, Handled
  <2>4. CASE PopFirst \/ QueueLength \/ PopMore \/ Dequeue \/ LockImage \/ UnlockImage
               \/ SignalExport \/ EndBatch
    <3>1. handled' = handled
      BY <2>4 DEF PopFirst, QueueLength, PopMore, Dequeue, LockImage, UnlockImage,
                  SignalExport, EndBatch
    <3>2. QED
      BY <3>1
  <2>5. QED
    BY <2>1, <2>2, <2>3, <2>4 DEF Processor
<1>5. QED
  BY <1>1, <1>2, <1>3, <1>4

\* The last request sent is neither absorbed nor merged: it goes from hand to hand
\* until it is handled.
LEMMA NewestKept ==
  ASSUME WakeInv, Processor, [Next]_vars, ~DrainPop,
         NEW k, k = Len(reqs), k # 0, k \in InFlight, k \notin ToSet(handled)
  PROVE  \/ k \in InFlight' /\ k \notin ToSet(handled')
         \/ k = cur /\ HandleLocked /\ cur' = cur
         \/ k = cur /\ HandleUnlocked
<1>1. /\ TypeOK /\ Stages /\ Numbered /\ Found /\ k \in Kept /\ handled \in Seq(Nat) /\ cur \in Nat
  BY DEF WakeInv, Kept, TypeOK
<1>2. CASE Scan
  <2>1. PICK d : d = Last(temp)
    OBVIOUS
  <2>2. /\ handled' = handled /\ pc = "scan" /\ temp \in Seq(Nat) /\ temp # <<>>
        /\ batch \in Seq(Nat)
    BY <1>1, <1>2 DEF Scan, TypeOK
  <2>3. \A m \in Kept : m \in Kept' \/ m = d
    BY <1>1, <1>2, <2>1, ScanLoses
  <2>4. k \in Kept'
    <3>1. CASE k # d
      BY <1>1, <2>3, <3>1
    <3>2. CASE k = d
      <4>0. Len(temp) \in Nat \ {0} /\ Last(temp) = temp[Len(temp)]
        BY <2>2, FrontLast
      <4>1. Len(temp) \in 1 .. Len(temp) /\ temp[Len(temp)] = k
        BY <2>1, <3>2, <4>0
      <4>2. batch = <<>>
        BY <4>1 DEF WakeInv, Newest
      <4>3. ~rebuild_found
        BY <1>1, <2>2, <4>2, SetOfEmpty DEF Found
      <4>4. batch' = <<k>> \o batch
        BY <1>2, <2>1, <3>2, <4>2, <4>3 DEF Scan, PushFront
      <4>5. k \in Nat
        BY <2>2, <4>1
      <4>6. k \in ToSet(batch')
        BY <2>2, <4>4, <4>5, SetOfCons
      <4>7. QED
        BY <4>6 DEF Kept, InFlight
    <3>3. QED
      BY <3>1, <3>2
  <2>5. QED
    BY <2>2, <2>4 DEF Kept
<1>3. CASE ~Scan
  <2>1. k \in Kept'
    BY <1>1, <1>3, KeptGrows
  <2>2. k \in InFlight' \/ k \in ToSet(handled')
    BY <2>1 DEF Kept
  <2>3. CASE handled' = handled
    BY <2>2, <2>3
  <2>4. CASE handled' = Append(handled, cur) /\ k # cur
    <3>1. ToSet(handled') = ToSet(handled) \cup {cur}
      BY <1>1, <2>4, SetOfAppend
    <3>2. QED
      BY <2>2, <2>4, <3>1
  <2>5. QED
    BY <1>1, <1>3, <2>3, <2>4, WakeProcessorEach
<1>4. QED
  BY <1>2, <1>3

\* What the processor does to the flags of the conditions.
LEMMA SignalsGrow ==
  ASSUME TypeOK, Processor
  PROVE  \A c \in Conds, i \in Images : signaled[c][i] => signaled'[c][i]
<1>1. \/ signaled' = signaled
      \/ \E c, i : signaled' = [signaled EXCEPT ![c][i] = TRUE]
  <2>1. CASE HandleLocked
    BY <2>1 DEF HandleLocked, Signal
  <2>2. CASE SignalExport
    BY <2>2 DEF SignalExport, Signal
  <2>3. CASE ~HandleLocked /\ ~SignalExport
    BY <2>3 DEF Processor, PopFirst, QueueLength, PopMore, Scan, Dequeue, LockImage,
           UnlockImage, HandleUnlocked, EndBatch, shared
  <2>4. QED
    BY <2>1, <2>2, <2>3
<1>2. CASE \E c, i : signaled' = [signaled EXCEPT ![c][i] = TRUE]
  <2>1. PICK c, i : signaled' = [signaled EXCEPT ![c][i] = TRUE]
    BY <1>2
  <2>2. \A d \in Conds, j \in Images :
          signaled'[d][j] = IF d = c /\ j = i THEN TRUE ELSE signaled[d][j]
    BY <2>1 DEF TypeOK
  <2>3. QED
    BY <2>2
<1>3. QED
  BY <1>1, <1>2

LEMMA SignalSets ==
  ASSUME TypeOK, NEW c \in Conds, NEW i \in Images, Signal(c, i)
  PROVE  signaled'[c][i]
BY DEF Signal, TypeOK

\* A request that is waited for signals its condition when it is handled, or stays.
LEMMA AwaitsProcessor ==
  ASSUME WakeInv, Processor, [Next]_vars, ~DrainPop
  PROVE  Awaits'
<1>1. TypeOK /\ Numbered /\ Exported /\ todo' = todo /\ reqs' = reqs /\ ~Push
      /\ (~running => ~running')
  BY WakeProcessorEach DEF WakeInv
<1>2. PICK k : k = Len(reqs)
  OBVIOUS
<1>3. PICK x : x = Head(todo)
  OBVIOUS
<1>5. ASSUME todo # <<>>, x.do = "wait"
      PROVE  \/ signaled'[x.cond][x.image]
             \/ /\ k # 0 /\ Unsignaled(k)'
                /\ reqs'[k].image = x.image /\ reqs'[k].kind \in Signalling(x.cond)
  <2>1. x.cond \in Conds /\ x.image \in Images
    <3>1. x \in Instr
      BY <1>1, <1>3, <1>5, HeadTail DEF TypeOK
    <3>2. QED
      BY <1>5, <3>1 DEF Instr
  <2>2. CASE signaled[x.cond][x.image]
    BY <1>1, <2>1, <2>2, SignalsGrow
  <2>3. CASE ~signaled[x.cond][x.image]
    <3>1. /\ k # 0 /\ Unsignaled(k)
          /\ reqs[k].image = x.image /\ reqs[k].kind \in Signalling(x.cond)
      BY <1>2, <1>3, <1>5, <2>3 DEF WakeInv, Awaits
    <3>2. \/ x.cond = "rebuild" /\ reqs[k].kind = "REBUILD"
          \/ x.cond = "remove" /\ reqs[k].kind = "REMOVE_LAYER"
          \/ x.cond = "export" /\ reqs[k].kind = "EXPORT"
      BY <2>1, <3>1, Signals3 DEF Conds
    <3>3. CASE k \in InFlight \ ToSet(handled)
      <4>2. reqs'[k].image = x.image /\ reqs'[k].kind \in Signalling(x.cond)
        BY <1>1, <3>1
      <4>3. CASE k \in InFlight' /\ k \notin ToSet(handled')
        BY <3>1, <4>2, <4>3 DEF Unsignaled
      <4>4. CASE k = cur /\ HandleLocked /\ cur' = cur
        <5>1. CASE reqs[k].kind = "EXPORT"
          <6>1. pc' = "unlock" /\ k = cur' /\ reqs'[k].kind = "EXPORT"
            BY <1>1, <4>4, <5>1 DEF HandleLocked
          <6>2. Unsignaled(k)'
            BY <6>1 DEF Unsignaled
          <6>3. QED
            BY <3>1, <4>2, <6>2
        <5>2. CASE reqs[k].kind # "EXPORT"
          <6>1. Signal(x.cond, x.image)
            BY <3>1, <3>2, <4>4, <5>2 DEF HandleLocked
          <6>2. QED
            BY <1>1, <2>1, <6>1, SignalSets
        <5>3. QED
          BY <5>1, <5>2
      <4>5. ~(k = cur /\ HandleUnlocked)
        BY <3>2 DEF HandleUnlocked, LockKinds
      <4>6. QED
        BY <1>2, <3>1, <3>3, <4>3, <4>4, <4>5, NewestKept
    <3>4. CASE k = cur /\ pc \in {"unlock", "signal"} /\ reqs[k].kind = "EXPORT"
      <4>1. CASE UnlockImage
        <5>1. pc' = "signal" /\ cur' = cur /\ reqs' = reqs
          BY <3>4, <4>1 DEF UnlockImage
        <5>2. QED
          BY <3>1, <3>4, <5>1 DEF Unsignaled
      <4>2. CASE SignalExport
        <5>1. x.cond = "export" /\ Signal("export", x.image)
          BY <3>1, <3>2, <3>4, <4>2 DEF SignalExport
        <5>2. QED
          BY <1>1, <2>1, <5>1, SignalSets
      <4>3. QED
        BY <3>4, <4>1, <4>2 DEF Processor, PopFirst, QueueLength, PopMore, Scan, Dequeue, LockImage,
               HandleLocked, HandleUnlocked, EndBatch
    <3>5. QED
      BY <3>1, <3>3, <3>4 DEF Unsignaled
  <2>4. QED
    BY <2>2, <2>3
<1>6. ASSUME todo # <<>>, x.do = "join"
      PROVE  \/ ~running'
             \/ /\ k # 0 /\ k \in InFlight' /\ k \notin ToSet(handled')
                /\ reqs'[k].kind = "PROCESSOR_END"
  <2>1. CASE ~running
    BY <1>1, <2>1
  <2>2. CASE running
    <3>1. /\ k # 0 /\ k \in InFlight /\ k \notin ToSet(handled)
          /\ reqs[k].kind = "PROCESSOR_END"
      BY <1>2, <1>3, <1>6, <2>2 DEF WakeInv, Awaits
    <3>2. reqs'[k].kind = "PROCESSOR_END"
      BY <1>1, <3>1
    <3>3. ~(k = cur /\ HandleLocked)
      BY <3>1 DEF HandleLocked, LockKinds
    <3>4. k = cur /\ HandleUnlocked => ~running'
      BY <3>1 DEF HandleUnlocked
    <3>5. QED
      BY <1>2, <3>1, <3>2, <3>3, <3>4, NewestKept
  <2>3. QED
    BY <2>1, <2>2
<1>7. QED
  BY <1>1, <1>2, <1>3, <1>5, <1>6 DEF Awaits

\* A pop that takes the last request leaves the queue empty.
LEMMA NewestTail ==
  ASSUME NEW q \in Seq(Nat), q # <<>>, NEW k,
         \A n \in 1 .. Len(q) : q[n] = k => n = Len(q)
  PROVE  /\ \A n \in 1 .. Len(Tail(q)) : Tail(q)[n] = k => n = Len(Tail(q))
         /\ Head(q) = k => Tail(q) = <<>>
<1>1. PICK u : u = Tail(q)
  OBVIOUS
<1>2. /\ Len(q) \in Nat \ {0} /\ Head(q) = q[1] /\ u \in Seq(Nat) /\ Len(u) = Len(q) - 1
      /\ \A n \in 1 .. (Len(q) - 1) : u[n] = q[n + 1]
  BY <1>1, HeadTail
<1>3. ASSUME NEW n \in 1 .. Len(u), u[n] = k PROVE n = Len(u)
  <2>1. n + 1 \in 1 .. Len(q) /\ q[n + 1] = k
    BY <1>2, <1>3
  <2>2. n + 1 = Len(q)
    BY <2>1
  <2>3. QED
    BY <1>2, <2>2
<1>4. ASSUME Head(q) = k PROVE u = <<>>
  <2>1. 1 \in 1 .. Len(q) /\ q[1] = k
    BY <1>2, <1>4
  <2>2. Len(u) = 0
    BY <1>2, <2>1
  <2>3. QED
    BY <1>2, <2>2, EmptySeq
<1>5. QED
  BY <1>1, <1>3, <1>4

LEMMA NewestProcessor ==
  ASSUME WakeInv, Processor
  PROVE  Newest'
<1>1. TypeOK /\ Stages /\ Newest /\ reqs' = reqs
  BY WakeProcessorEach DEF WakeInv
<1>2. PICK k : k = Len(reqs)
  OBVIOUS
<1>3. CASE PopFirst \/ PopMore
  <2>1. PICK h, q : h = Head(queue) /\ q = Tail(queue)
    OBVIOUS
  <2>2. /\ queue \in Seq(Nat) /\ queue # <<>> /\ temp \in Seq(Nat) /\ h \in Nat
        /\ queue' = q /\ batch = <<>> /\ batch' = <<>>
    BY <1>1, <1>3, <2>1, HeadTail DEF PopFirst, PopMore, TypeOK, Stages
  <2>3. \A n \in 1 .. Len(queue) : queue[n] = k => n = Len(queue)
    BY <1>1, <1>2 DEF Newest
  <2>4. (\A n \in 1 .. Len(q) : q[n] = k => n = Len(q)) /\ (h = k => q = <<>>)
    BY <2>1, <2>2, <2>3, NewestTail
  <2>5. \A n \in 1 .. Len(temp) : temp[n] # k
    BY <1>1, <1>2, <2>2 DEF Newest
  <2>6. temp' = Append(temp, h)
    <3>1. CASE PopMore
      BY <2>1, <3>1 DEF PopMore
    <3>2. CASE PopFirst
      <4>1. temp = <<>> /\ temp' = <<h>>
        BY <1>1, <2>1, <3>2 DEF PopFirst, Stages
      <4>2. Append(<<>>, h) = <<h>>
        OBVIOUS
      <4>3. QED
        BY <4>1, <4>2
    <3>3. QED
      BY <1>3, <3>1, <3>2
  <2>7. /\ Len(temp) \in Nat /\ Len(temp') = Len(temp) + 1 /\ temp'[Len(temp) + 1] = h
        /\ \A n \in 1 .. Len(temp) : temp'[n] = temp[n]
    BY <2>2, <2>6, AppendProperties, LenProperties
  <2>8. ASSUME NEW n \in 1 .. Len(temp'), temp'[n] = k
        PROVE  n = Len(temp') /\ q = <<>>
    <3>1. n = Len(temp) + 1
      BY <2>5, <2>7, <2>8
    <3>2. QED
      BY <2>4, <2>7, <2>8, <3>1
  <2>9. QED
    BY <1>1, <1>2, <2>2, <2>4, <2>8 DEF Newest
<1>4. CASE Scan
  <2>1. /\ temp \in Seq(Nat) /\ temp # <<>> /\ temp' = Front(temp) /\ queue' = queue
    BY <1>1, <1>4 DEF Scan, TypeOK, shared
  <2>2. PICK f : f = Front(temp)
    OBVIOUS
  <2>3. /\ Len(temp) \in Nat \ {0} /\ Len(f) = Len(temp) - 1
        /\ \A n \in 1 .. (Len(temp) - 1) : f[n] = temp[n]
    BY <2>1, <2>2, FrontLast
  <2>4. ASSUME NEW n \in 1 .. Len(f) PROVE f[n] # k
    <3>1. n \in 1 .. Len(temp) /\ n # Len(temp) /\ f[n] = temp[n]
      BY <2>3
    <3>2. QED
      BY <1>1, <1>2, <3>1 DEF Newest
  <2>5. QED
    BY <1>1, <1>2, <2>1, <2>2, <2>4 DEF Newest
<1>5. CASE Dequeue
  <2>1. temp = <<>> /\ Len(temp) = 0 /\ temp' = temp /\ queue' = queue
    BY <1>1, <1>5 DEF Dequeue, Stages, shared
  <2>2. QED
    BY <1>1, <2>1 DEF Newest
<1>6. CASE ~PopFirst /\ ~PopMore /\ ~Scan /\ ~Dequeue
  <2>1. UNCHANGED <<queue, temp, batch>>
    BY <1>6 DEF Processor, QueueLength, LockImage, HandleLocked, UnlockImage, SignalExport,
           HandleUnlocked, EndBatch, shared
  <2>2. QED
    BY <1>1, <2>1 DEF Newest
<1>7. QED
  BY <1>3, <1>4, <1>5, <1>6

\* The processor takes no more than it has counted.
LEMMA CountedProcessor ==
  ASSUME WakeInv, Processor
  PROVE  Counted'
<1> SUFFICES ASSUME pc' = "more" PROVE left' <= Len(queue')
  BY DEF Counted
<1>1. queue \in Seq(Nat) /\ Len(queue) \in Nat /\ left \in Nat /\ TypeOK
  BY LenProperties DEF WakeInv, TypeOK
<1>2. CASE QueueLength
  BY <1>1, <1>2 DEF QueueLength, shared
<1>3. CASE PopMore
  <2>1. /\ pc = "more" /\ left > 0 /\ left' = left - 1 /\ queue # <<>> /\ queue' = Tail(queue)
    BY <1>1, <1>3 DEF PopMore, TypeOK
  <2>2. Len(queue') = Len(queue) - 1
    BY <1>1, <2>1, HeadTail
  <2>3. QED
    BY <1>1, <2>1, <2>2 DEF WakeInv, Counted
<1>4. QED
  BY <1>2, <1>3 DEF Processor, PopFirst, Scan, Dequeue, LockImage, HandleLocked, UnlockImage,
                    SignalExport, HandleUnlocked, EndBatch

LEMMA LocksProcessor ==
  ASSUME WakeInv, Processor
  PROVE  GuiLocked'
<1>1. TypeOK /\ todo' = todo
  BY WakeProcessorEach DEF WakeInv
<1>2. ASSUME NEW i \in Images, mutex'[i] = "gui" PROVE mutex[i] = "gui"
  <2>1. \/ mutex' = mutex
        \/ \E j, v : v # "gui" /\ mutex' = [mutex EXCEPT ![j] = v]
    <3>1. CASE LockImage
      BY <3>1 DEF LockImage
    <3>2. CASE UnlockImage
      BY <3>2 DEF UnlockImage
    <3>3. CASE ~LockImage /\ ~UnlockImage
      BY <3>3 DEF Processor, PopFirst, QueueLength, PopMore, Scan, Dequeue, HandleLocked,
             SignalExport, HandleUnlocked, EndBatch, shared
    <3>4. QED
      BY <3>1, <3>2, <3>3
  <2>2. QED
    BY <1>1, <1>2, <2>1 DEF TypeOK
<1>3. QED
  BY <1>1, <1>2 DEF WakeInv, GuiLocked

LEMMA WakeProcessor ==
  ASSUME WakeInv, Processor, [Next]_vars, ~DrainPop
  PROVE  /\ Links(todo') /\ LockForm' /\ GuiLocked' /\ NotClosing'
         /\ Newest' /\ Counted' /\ Awaits'
<1>1. todo' = todo
  BY WakeProcessorEach DEF WakeInv
<1>2. Links(todo') /\ LockForm' /\ NotClosing'
  BY <1>1 DEF WakeInv, LockForm, NotClosing
<1>3. QED
  BY <1>2, LocksProcessor, NewestProcessor, CountedProcessor, AwaitsProcessor

-----------------------------------------------------------------------------
(* The start of an operation, and the theorem *)

LEMMA WakeOperation ==
  ASSUME "Close" \notin Ops, WakeInv, Operation
  PROVE  /\ Links(todo') /\ LockForm' /\ GuiLocked' /\ NotClosing'
         /\ Newest' /\ Counted' /\ Awaits'
<1>1. TypeOK /\ todo = <<>> /\ UNCHANGED <<reqs, queue, signaled, mutex, proc>>
  BY ZenonT(60) DEF WakeInv, Operation, Open, LockedUpdate, MoveLayer, RemoveLayer, Export, Close, Update,
         SyncUpdate, Zoom, SpotWB, Redraw, Quit, Begin, shared
<1>2. /\ Links(todo') /\ LockForm'
      /\ todo' # <<>> => Head(todo').do \notin {"wait", "join"}
      /\ NotClosing'
  BY <1>1, OperationLinks DEF NotClosing
<1>3. UNCHANGED <<pc, left, temp, batch>>
  BY <1>1 DEF proc
<1>4. GuiLocked'
  BY <1>1 DEF WakeInv, GuiLocked
<1>5. Newest' /\ Counted'
  BY <1>1, <1>3 DEF WakeInv, Newest, Counted
<1>6. Awaits'
  BY <1>2 DEF Awaits
<1>7. QED
  BY <1>2, <1>4, <1>5, <1>6

LEMMA WakeStep ==
  ASSUME "Close" \notin Ops, WakeInv, [Next]_vars, ~DrainPop, ~DrainPush
  PROVE  WakeInv'
<1>1. TypeOK' /\ Stages' /\ Numbered' /\ Found' /\ Exported'
  BY TypeStep, StagesStep, NumberedStep, FoundStep, ExportedStep DEF WakeInv
<1>2. CASE Processor
  BY <1>1, <1>2, WakeProcessor DEF WakeInv
<1>3. CASE Operation
  BY <1>1, <1>3, WakeOperation DEF WakeInv
<1>4. CASE Gui
  <2>1. todo # <<>> /\ todo' = Tail(todo)
    BY <1>4, WakeGuiEach DEF WakeInv
  <2>2. Links(todo')
    BY <2>1, LinksTail DEF WakeInv
  <2>3. QED
    BY <1>1, <1>4, <2>2, LocksGui, CountedGui, NewestGui, AwaitsGui DEF WakeInv
<1>5. CASE Rest \/ UNCHANGED vars
  <2>1. UNCHANGED vars
    BY <1>5 DEF Rest
  <2>2. Links(todo') /\ LockForm' /\ GuiLocked' /\ NotClosing'
    BY <2>1 DEF vars, shared, proc, gui, WakeInv, LockForm, GuiLocked, NotClosing
  <2>3. Newest' /\ Counted' /\ Awaits'
    BY <2>1 DEF vars, shared, proc, gui, WakeInv, Newest, Counted, Awaits, Unsignaled, InFlight
  <2>4. QED
    BY <1>1, <2>2, <2>3 DEF WakeInv
<1>6. QED
  BY <1>2, <1>3, <1>4, <1>5 DEF Next

\* What the GUI thread may sleep on, from the invariant.
LEMMA WakeShows == WakeInv => NoLostWakeup
<1> SUFFICES ASSUME WakeInv PROVE NoLostWakeup
  OBVIOUS
<1>1. TypeOK
  BY DEF WakeInv
<1>2. pc = "more" => queue # <<>>
  <2> SUFFICES ASSUME pc = "more", queue = <<>> PROVE FALSE
    OBVIOUS
  <2>1. left > 0 /\ left \in Nat /\ left <= Len(queue)
    BY <1>1 DEF TypeOK, WakeInv, Counted
  <2>2. Len(queue) = 0
    OBVIOUS
  <2>3. QED
    BY <2>1, <2>2
<1>3. ASSUME todo # <<>>, NEW x, x = Head(todo)
      PROVE  /\ x.do = "wait" => \/ signaled[x.cond][x.image]
                                 \/ \E k \in 1 .. Len(reqs) :
                                      /\ Unsignaled(k) /\ reqs[k].image = x.image
                                      /\ reqs[k].kind \in Signalling(x.cond)
             /\ x.do = "settle" => completed \/ (pc # "stopped" /\ ~Parked)
             /\ x.do = "join" => \/ ~running
                                 \/ \E k \in InFlight : /\ k \notin ToSet(handled)
                                                         /\ reqs[k].kind = "PROCESSOR_END"
             /\ x.do \in {"wait", "settle", "sample", "lock", "join"} =>
                  \A i \in Images : mutex[i] # "gui"
  <2>1. Len(todo) \in Nat \ {0} /\ x = todo[1]
    BY <1>1, <1>3, HeadTail DEF TypeOK
  <2>2. 1 \in 1 .. Len(todo)
    BY <2>1
  <2>3. PICK k : k = Len(reqs)
    OBVIOUS
  <2>4. k \in Nat /\ (k # 0 => k \in 1 .. Len(reqs))
    BY <1>1, <2>3, LenProperties DEF TypeOK
  <2>5. x.do = "wait" => \/ signaled[x.cond][x.image]
                         \/ \E j \in 1 .. Len(reqs) :
                              /\ Unsignaled(j) /\ reqs[j].image = x.image
                              /\ reqs[j].kind \in Signalling(x.cond)
    BY <1>3, <2>3, <2>4 DEF WakeInv, Awaits
  <2>6. x.do = "join" => \/ ~running
                         \/ \E j \in InFlight : /\ j \notin ToSet(handled)
                                                 /\ reqs[j].kind = "PROCESSOR_END"
    BY <1>3, <2>3 DEF WakeInv, Awaits
  <2>7. x.do = "settle" => completed \/ (pc # "stopped" /\ ~Parked)
    BY <2>1, <2>2 DEF WakeInv, NotClosing
  <2>8. ASSUME x.do \in {"wait", "settle", "sample", "lock", "join"}, NEW i \in Images
        PROVE  mutex[i] # "gui"
    <3> SUFFICES ASSUME mutex[i] = "gui" PROVE FALSE
      OBVIOUS
    <3>1. /\ todo[Len(todo)].do = "unlock"
          /\ \A n \in 1 .. Len(todo) : n < Len(todo) => todo[n].do \in {"clear", "push"}
      BY DEF WakeInv, GuiLocked
    <3>2. x.do \in {"clear", "push", "unlock"}
      BY <2>1, <2>2, <3>1
    <3>3. QED
      BY <2>8, <3>2
  <2>9. QED
    BY <2>5, <2>6, <2>7, <2>8
<1>4. QED
  BY <1>2, <1>3 DEF NoLostWakeup

\* No thread sleeps with nobody left to wake it, whatever the GUI thread does, unless it
\* closes an image.  What remove_image_from_queue takes from the queue the processor may
\* have counted already, and then waits for it in the middle of a batch.
THEOREM NoLostWakeupCorrect ==
  ASSUME "Close" \notin Ops
  PROVE  Spec => []NoLostWakeup
<1> DEFINE I == WakeInv /\ OrderInv
<1>1. Init => I
  BY WakeInit, OrderInit
<1>2. I /\ [Next]_vars => I'
  <2> SUFFICES ASSUME WakeInv, OrderInv, [Next]_vars PROVE WakeInv' /\ OrderInv'
    OBVIOUS
  <2>1. OrderInv'
    BY OrderStep DEF WakeInv
  <2>2. ~DrainPop /\ ~DrainPush
    BY NoDrain DEF OrderInv
  <2>3. QED
    BY <2>1, <2>2, WakeStep
<1>3. I => NoLostWakeup
  BY WakeShows
<1> HIDE DEF I
<1>4. QED
  BY <1>1, <1>2, <1>3, PTL DEF Spec
=============================================================================
