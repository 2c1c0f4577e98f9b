--------------------------- MODULE ImageProcessor ---------------------------
(***************************************************************************)
(* The request queue between the GUI thread and the image-processing       *)
(* thread (src/base/imageprocessor.cc), with the condition variables and   *)
(* the per-image lock the two threads share (src/base/image.cc).           *)
(*                                                                         *)
(* The GUI thread runs one operation at a time.  An operation is a short   *)
(* program: the instructions it still has to execute are in "todo", and    *)
(* the processor can step between any two of them.                         *)
(*                                                                         *)
(* A request is known by its number: request k is the k-th one submitted   *)
(* and reqs[k] is its ProcessRequestInfo.                                  *)
(*                                                                         *)
(* No IMAGE_UPDATE: nothing submits one.  The handlers of the draw and the *)
(* clone tools return before they would, and ImageArea::sink at once.      *)
(***************************************************************************)
EXTENDS Naturals, Sequences, SequencesExt

CONSTANTS Images,      \* the images the user may open
          NoImage,     \* the null PF::Image*
          Pipelines,   \* the pipelines of an image
          NoPipe,      \* the null PF::Pipeline*: "rebuild all of them"
          Garbage,     \* what an uninitialised request.image may hold
          Ops,         \* the GUI operations of this run
          Patient,     \* TRUE: an operation other than Close waits its turn
          MaxSubmit    \* bound: requests submitted, PROCESSOR_END excepted

OpNames == {"Update", "SyncUpdate", "SpotWB", "LockedUpdate", "Zoom", "Redraw",
            "MoveLayer", "RemoveLayer", "Export", "Close"}

ASSUME NullAssumption == NoImage \notin Images /\ NoPipe \notin Pipelines
ASSUME GarbageAssumption == Garbage \subseteq Images \cup {NoImage} /\ Garbage # {}
ASSUME OpsAssumption == Ops \subseteq OpNames
ASSUME BoundAssumption == MaxSubmit \in Nat /\ Patient \in BOOLEAN

Kinds == {"SET_LEVEL", "REBUILD", "EXPORT", "REDRAW_START", "REDRAW", "REDRAW_END",
          "MOVE_LAYER", "REMOVE_LAYER", "PROCESSOR_END"}

\* The requests whose handler takes the lock of the image.
LockKinds == {"REBUILD", "EXPORT", "MOVE_LAYER", "REMOVE_LAYER"}

Conds == {"rebuild", "remove", "export"}

\* "image" is request.image; "owner" is the image whose pipeline, sink or
\* layers the handler dereferences.
Request == [kind : Kinds, image : Images \cup {NoImage}, owner : Images \cup {NoImage},
            pipe : Pipelines \cup {NoPipe}]

Instr == [do : {"clear", "settle", "length", "join"}]
           \cup [do : {"lock", "unlock", "sample", "drain", "destroy"}, image : Images]
           \cup [do : {"reset", "wait"}, image : Images, cond : Conds]
           \cup [do : {"push"}, req : Request]

VARIABLES
  \* shared
  reqs,           \* every request submitted so far
  queue,          \* GAsyncQueue* requests
  completed,      \* processing_completed
  signaled,       \* signaled[c][i]: the flag of condition c of image i
  mutex,          \* mutex[i]: the thread that holds image_mutex of i
  fresh,          \* the images not opened yet
  alive,          \* the images opened and not destroyed
  \* processor thread
  pc,
  left,           \* pops left in the loop of optimize_requests
  temp,           \* temp_queue, shrinking from its end as it is scanned
  rebuild_found,
  batch,          \* optimized_requests
  cur,            \* the request being handled, 0 if none
  running,
  handled,        \* history: requests handled, in order
  \* GUI thread
  todo,           \* instructions left in the current operation
  gleft,          \* pops left in the loop of remove_image_from_queue
  hand,           \* request popped by that loop and not pushed back yet
  quit            \* main() has left the event loop

shared == <<reqs, queue, completed, signaled, mutex, fresh, alive>>
proc == <<pc, left, temp, rebuild_found, batch, cur, running, handled>>
gui == <<todo, gleft, hand, quit>>
vars == <<shared, proc, gui>>

Init ==
  /\ reqs = <<>> /\ queue = <<>>
  /\ completed = FALSE
  /\ signaled = [c \in Conds |-> [i \in Images |-> FALSE]]
  /\ mutex = [i \in Images |-> "free"]
  /\ fresh = Images /\ alive = {}
  /\ pc = "pop" /\ left = 0 /\ temp = <<>> /\ rebuild_found = FALSE
  /\ batch = <<>> /\ cur = 0 /\ running = TRUE /\ handled = <<>>
  /\ todo = <<>> /\ gleft = 0 /\ hand = 0 /\ quit = FALSE

-----------------------------------------------------------------------------
(* The processor thread: optimize_requests *)

\* The blocking pop that starts a batch.
PopFirst ==
  /\ pc = "pop" /\ queue # <<>>
  /\ temp' = <<Head(queue)>>
  /\ queue' = Tail(queue)
  /\ pc' = "length"
  /\ UNCHANGED <<reqs, completed, signaled, mutex, fresh, alive, left, rebuild_found,
                 batch, cur, running, handled, gui>>

\* Slips in QueueLength: the loop tested at its end, the flag kept from the last
\* batch, the loop run once too often.
QueueLengthLate ==
  /\ pc = "length"
  /\ left' = Len(queue)
  /\ rebuild_found' = FALSE
  /\ pc' = "more"
  /\ UNCHANGED <<shared, temp, batch, cur, running, handled, gui>>
QueueLengthKeeps ==
  /\ pc = "length"
  /\ left' = Len(queue)
  /\ pc' = IF queue = <<>> THEN "scan" ELSE "more"
  /\ UNCHANGED <<shared, temp, rebuild_found, batch, cur, running, handled, gui>>
QueueLengthPlus ==
  /\ pc = "length"
  /\ left' = Len(queue) + 1
  /\ rebuild_found' = FALSE
  /\ pc' = "more"
  /\ UNCHANGED <<shared, temp, batch, cur, running, handled, gui>>

\* int length = g_async_queue_length( requests )
QueueLength ==
  /\ pc = "length"
  /\ left' = Len(queue)
  /\ rebuild_found' = FALSE
  /\ pc' = IF queue = <<>> THEN "scan" ELSE "more"
  /\ UNCHANGED <<shared, temp, batch, cur, running, handled, gui>>

\* One of the further pops; each blocks while the queue is empty.
PopMore ==
  /\ pc = "more" /\ queue # <<>>
  /\ temp' = Append(temp, Head(queue))
  /\ queue' = Tail(queue)
  /\ left' = left - 1
  /\ pc' = IF left = 1 THEN "scan" ELSE "more"
  /\ UNCHANGED <<reqs, completed, signaled, mutex, fresh, alive, rebuild_found,
                 batch, cur, running, handled, gui>>

\* A slip in Redundant: one kind too many.
RedundantLevel == {"REBUILD", "SET_LEVEL"}

\* The kinds a later rebuild of the batch makes redundant.
Redundant == {"REBUILD"}

\* A slip in PushFront: push_back.
PushBack(q, k) == Append(q, k)

\* std::deque::push_front
PushFront(q, k) == <<k>> \o q

\* One turn of the reverse walk over temp_queue.
Scan ==
  /\ pc = "scan"
  /\ LET k == Last(temp)
         kind == reqs[k].kind
     IN /\ rebuild_found' = (rebuild_found \/ kind = "REBUILD")
        /\ batch' = IF rebuild_found /\ kind \in Redundant THEN batch ELSE PushFront(batch, k)
  /\ temp' = Front(temp)
  /\ pc' = IF Len(temp) = 1 THEN "next" ELSE "scan"
  /\ UNCHANGED <<shared, left, cur, running, handled, gui>>

-----------------------------------------------------------------------------
(* The processor thread: run *)

\* A slip in Dequeue: back() and pop_back().
DequeueBack ==
  /\ pc = "next" /\ batch # <<>>
  /\ cur' = Last(batch)
  /\ batch' = Front(batch)
  /\ pc' = IF reqs[Last(batch)].kind \in LockKinds THEN "lock" ELSE "work"
  /\ UNCHANGED <<shared, left, temp, rebuild_found, running, handled, gui>>

\* front() and pop_front() of optimized_requests.
Dequeue ==
  /\ pc = "next" /\ batch # <<>>
  /\ cur' = Head(batch)
  /\ batch' = Tail(batch)
  /\ pc' = IF reqs[Head(batch)].kind \in LockKinds THEN "lock" ELSE "work"
  /\ UNCHANGED <<shared, left, temp, rebuild_found, running, handled, gui>>

\* request.image->lock()
LockImage ==
  /\ pc = "lock" /\ mutex[reqs[cur].image] = "free"
  /\ mutex' = [mutex EXCEPT ![reqs[cur].image] = "processor"]
  /\ pc' = "work"
  /\ UNCHANGED <<reqs, queue, completed, signaled, fresh, alive, left, temp,
                 rebuild_found, batch, cur, running, handled, gui>>

Signal(c, i) == signaled' = [signaled EXCEPT ![c][i] = TRUE]

Handled == handled' = Append(handled, cur)

\* do_update, alone or at the end of IMAGE_MOVE_LAYER, signals rebuild_cond
\* before it returns, and so does do_export_merged, which calls it unless the
\* file is a .pfi; do_remove_layer is followed by remove_layer_signal, and the
\* lock is still held.
HandleLocked ==
  /\ pc = "work" /\ reqs[cur].kind \in LockKinds
  /\ LET r == reqs[cur] IN
       \/ r.kind \in {"REBUILD", "MOVE_LAYER", "EXPORT"} /\ Signal("rebuild", r.image)
       \/ r.kind = "REMOVE_LAYER" /\ Signal("remove", r.image)
       \/ r.kind = "EXPORT" /\ UNCHANGED signaled
  /\ Handled
  /\ pc' = "unlock"
  /\ UNCHANGED <<reqs, queue, completed, mutex, fresh, alive, left, temp, rebuild_found,
                 batch, cur, running, gui>>

\* image->unlock(); export_done_signal comes after it.
UnlockImage ==
  /\ pc = "unlock"
  /\ mutex' = [mutex EXCEPT ![reqs[cur].image] = "free"]
  /\ IF reqs[cur].kind = "EXPORT"
     THEN pc' = "signal" /\ UNCHANGED cur
     ELSE pc' = "next" /\ cur' = 0
  /\ UNCHANGED <<reqs, queue, completed, signaled, fresh, alive, left, temp,
                 rebuild_found, batch, running, handled, gui>>

SignalExport ==
  /\ pc = "signal"
  /\ Signal("export", reqs[cur].image)
  /\ pc' = "next" /\ cur' = 0
  /\ UNCHANGED <<reqs, queue, completed, mutex, fresh, alive, left, temp, rebuild_found,
                 batch, running, handled, gui>>

\* set_level, sink, process_start, process_area and process_end take no image
\* lock; PROCESSOR_END only clears "running".
HandleUnlocked ==
  /\ pc = "work" /\ reqs[cur].kind \notin LockKinds
  /\ running' = (running /\ reqs[cur].kind # "PROCESSOR_END")
  /\ Handled
  /\ pc' = "next" /\ cur' = 0
  /\ UNCHANGED <<shared, left, temp, rebuild_found, batch, gui>>

\* A slip in EndBatch: the loop of run never ends.
EndBatchForever ==
  /\ pc = "next" /\ batch = <<>>
  /\ completed' = TRUE
  /\ pc' = "pop"
  /\ UNCHANGED <<reqs, queue, signaled, mutex, fresh, alive, left, temp, rebuild_found,
                 batch, cur, running, handled, gui>>

\* The end of a batch: completed becomes TRUE whatever is in the queue.
EndBatch ==
  /\ pc = "next" /\ batch = <<>>
  /\ completed' = TRUE
  /\ pc' = IF running THEN "pop" ELSE "stopped"
  /\ UNCHANGED <<reqs, queue, signaled, mutex, fresh, alive, left, temp, rebuild_found,
                 batch, cur, running, handled, gui>>

Processor ==
  \/ PopFirst \/ QueueLength \/ PopMore \/ Scan \/ Dequeue \/ LockImage
  \/ HandleLocked \/ UnlockImage \/ SignalExport \/ HandleUnlocked \/ EndBatch

-----------------------------------------------------------------------------
(* The GUI thread: one action per instruction *)

Do(name) == todo # <<>> /\ Head(todo).do = name
Done == todo' = Tail(todo)

\* submit_request, first half: processing_completed = false.
Clear ==
  /\ Do("clear") /\ Done
  /\ completed' = FALSE
  /\ UNCHANGED <<reqs, queue, signaled, mutex, fresh, alive, proc, gleft, hand, quit>>

\* submit_request, second half: g_async_queue_push.
Push ==
  /\ Do("push") /\ Done
  /\ reqs' = Append(reqs, Head(todo).req)
  /\ queue' = Append(queue, Len(reqs) + 1)
  /\ UNCHANGED <<completed, signaled, mutex, fresh, alive, proc, gleft, hand, quit>>

Reset ==
  /\ Do("reset") /\ Done
  /\ signaled' = [signaled EXCEPT ![Head(todo).cond][Head(todo).image] = FALSE]
  /\ UNCHANGED <<reqs, queue, completed, mutex, fresh, alive, proc, gleft, hand, quit>>

\* A slip in Wait: the flag stays set.
WaitKeeps ==
  /\ Do("wait") /\ Done
  /\ signaled[Head(todo).cond][Head(todo).image]
  /\ UNCHANGED <<shared, proc, gleft, hand, quit>>

\* PF::Condition::wait: it returns once signaled, and clears the flag.
Wait ==
  /\ Do("wait") /\ Done
  /\ signaled[Head(todo).cond][Head(todo).image]
  /\ signaled' = [signaled EXCEPT ![Head(todo).cond][Head(todo).image] = FALSE]
  /\ UNCHANGED <<reqs, queue, completed, mutex, fresh, alive, proc, gleft, hand, quit>>

Lock ==
  /\ Do("lock") /\ Done
  /\ mutex[Head(todo).image] = "free"
  /\ mutex' = [mutex EXCEPT ![Head(todo).image] = "gui"]
  /\ UNCHANGED <<reqs, queue, completed, signaled, fresh, alive, proc, gleft, hand, quit>>

Unlock ==
  /\ Do("unlock") /\ Done
  /\ mutex' = [mutex EXCEPT ![Head(todo).image] = "free"]
  /\ UNCHANGED <<reqs, queue, completed, signaled, fresh, alive, proc, gleft, hand, quit>>

\* do_sample takes and releases the lock itself.
Sample ==
  /\ Do("sample") /\ Done
  /\ mutex[Head(todo).image] = "free"
  /\ UNCHANGED <<shared, proc, gleft, hand, quit>>

\* A slip in Settle: it does not wait.
SettleAtOnce ==
  /\ Do("settle") /\ Done
  /\ UNCHANGED <<shared, proc, gleft, hand, quit>>

\* remove_image_from_queue: wait_for_processing_completed
Settle ==
  /\ Do("settle") /\ Done
  /\ completed
  /\ UNCHANGED <<shared, proc, gleft, hand, quit>>

\* A slip in DrainLength: the last request is not looked at.
DrainLengthShort ==
  /\ Do("length") /\ Done
  /\ gleft' = IF queue = <<>> THEN 0 ELSE Len(queue) - 1
  /\ UNCHANGED <<shared, proc, hand, quit>>

\* remove_image_from_queue: int length = g_async_queue_length( requests )
DrainLength ==
  /\ Do("length") /\ Done
  /\ gleft' = Len(queue)
  /\ UNCHANGED <<shared, proc, hand, quit>>

\* One pop of its loop, which blocks while the queue is empty: a request of the
\* closed image is deleted, any other is about to be pushed back.
DrainPop ==
  /\ Do("drain") /\ gleft > 0 /\ hand = 0 /\ queue # <<>>
  /\ queue' = Tail(queue)
  /\ gleft' = gleft - 1
  /\ hand' = IF reqs[Head(queue)].image = Head(todo).image THEN 0 ELSE Head(queue)
  /\ UNCHANGED <<reqs, completed, signaled, mutex, fresh, alive, proc, todo, quit>>

DrainPush ==
  /\ hand # 0
  /\ queue' = Append(queue, hand)
  /\ hand' = 0
  /\ UNCHANGED <<reqs, completed, signaled, mutex, fresh, alive, proc, todo, gleft, quit>>

DrainEnd ==
  /\ Do("drain") /\ gleft = 0 /\ hand = 0 /\ Done
  /\ UNCHANGED <<shared, proc, gleft, hand, quit>>

\* do_destroy and the delete after it, on the GUI thread.
Destroy ==
  /\ Do("destroy") /\ Done
  /\ alive' = alive \ {Head(todo).image}
  /\ UNCHANGED <<reqs, queue, completed, signaled, mutex, fresh, proc, gleft, hand, quit>>

\* g_thread_join
Join ==
  /\ Do("join") /\ Done
  /\ pc = "stopped"
  /\ UNCHANGED <<shared, proc, gleft, hand, quit>>

Gui ==
  \/ Clear \/ Push \/ Reset \/ Wait \/ Lock \/ Unlock \/ Sample \/ Settle
  \/ DrainLength \/ DrainPop \/ DrainPush \/ DrainEnd \/ Destroy \/ Join

-----------------------------------------------------------------------------
(* The GUI operations, as programs *)

\* A slip in Submit: the flag is cleared when the request is on its way.
SubmitLateClear(kind, image, owner, pipe) ==
  << [do |-> "push", req |-> [kind |-> kind, image |-> image, owner |-> owner, pipe |-> pipe]],
     [do |-> "clear"] >>

Submit(kind, image, owner, pipe) ==
  << [do |-> "clear"],
     [do |-> "push", req |-> [kind |-> kind, image |-> image, owner |-> owner, pipe |-> pipe]] >>

On(name, i) == << [do |-> name, image |-> i] >>
OnCond(name, c, i) == << [do |-> name, image |-> i, cond |-> c] >>

\* Image::update( pipe, false )
UpdateProgram(i, p) == Submit("REBUILD", i, i, p)

\* A slip in SyncUpdateProgram: the condition is reset after the request is sent.
SyncUpdateLateReset(i, p) ==
  UpdateProgram(i, p) \o OnCond("reset", "rebuild", i) \o OnCond("wait", "rebuild", i)

\* Image::update( pipe, true )
SyncUpdateProgram(i, p) ==
  OnCond("reset", "rebuild", i) \o UpdateProgram(i, p) \o OnCond("wait", "rebuild", i)

\* The processor waits for a request.
Parked == pc = "pop" /\ queue = <<>>

\* The operation "name" may start and, with "n" requests, stays in the bound.
Begin(name, i, n, program) ==
  /\ name \in Ops
  /\ Patient => name = "Close" \/ Parked
  /\ todo = <<>> /\ ~quit /\ i \in alive
  /\ Len(reqs) + n <= MaxSubmit
  /\ todo' = program
  /\ UNCHANGED <<shared, proc, gleft, hand, quit>>

\* ImageEditor::build_image: image->open(), then image->update().
Open(i) ==
  /\ todo = <<>> /\ ~quit /\ i \in fresh
  /\ Patient => Parked
  /\ Len(reqs) < MaxSubmit
  /\ fresh' = fresh \ {i}
  /\ alive' = alive \cup {i}
  /\ todo' = UpdateProgram(i, NoPipe)
  /\ UNCHANGED <<reqs, queue, completed, signaled, mutex, proc, gleft, hand, quit>>

\* A property changes: PFWidget::changed calls image->update().
Update(i, p) == Begin("Update", i, 1, UpdateProgram(i, p))

\* image->update( pipeline, true ), as export_merged_to_mem calls it.
SyncUpdate(i, p) == Begin("SyncUpdate", i, 1, SyncUpdateProgram(i, p))

\* One turn of the spot white balance: a sync update, then a sample of its result.
SpotWB(i, p) ==
  Begin("SpotWB", i, 1, SyncUpdateProgram(i, p) \o On("sample", i))

\* An edit under image->lock() that calls update() before unlock(), as
\* OperationConfigGUI::enable_preview does.
LockedUpdate(i) ==
  Begin("LockedUpdate", i, 1,
        On("lock", i) \o UpdateProgram(i, NoPipe) \o On("unlock", i))

\* ImageEditor::zoom_fit and its siblings: set_pipeline_level, then update.
Zoom(i, p) ==
  Begin("Zoom", i, 2, Submit("SET_LEVEL", i, i, p) \o UpdateProgram(i, NoPipe))

\* ImageArea::on_draw: request.image is not set for the first and the last.
Redraw(i, junk) ==
  Begin("Redraw", i, 3, Submit("REDRAW_START", junk, i, NoPipe) \o Submit("REDRAW", i, i, NoPipe)
                          \o Submit("REDRAW_END", junk, i, NoPipe))

\* Drag and drop of a layer: IMAGE_MOVE_LAYER, then layer_manager.modified().
MoveLayer(i) ==
  Begin("MoveLayer", i, 2, Submit("MOVE_LAYER", i, i, NoPipe) \o UpdateProgram(i, NoPipe))

\* LayerWidget::remove_layers: Image::remove_layer, then layer_manager.modified()
\* with force_synced_update set.
RemoveLayer(i) ==
  Begin("RemoveLayer", i, 2,
        OnCond("reset", "remove", i) \o Submit("REMOVE_LAYER", i, i, NoPipe)
          \o OnCond("wait", "remove", i) \o SyncUpdateProgram(i, NoPipe))

\* A slip in Export: it does not wait.
ExportAtOnce(i) == Begin("Export", i, 1, Submit("EXPORT", i, i, NoPipe))

\* Image::export_merged, which does not reset export_cond.
Export(i) ==
  Begin("Export", i, 1, Submit("EXPORT", i, i, NoPipe) \o OnCond("wait", "export", i))

\* ImageEditor::dispose
Close(i) ==
  Begin("Close", i, 0,
        << [do |-> "settle"], [do |-> "length"] >> \o On("drain", i) \o On("destroy", i))

\* The end of main(), after the windows and their images are gone.
Quit(junk) ==
  /\ todo = <<>> /\ ~quit /\ alive = {}
  /\ quit' = TRUE
  /\ todo' = Submit("PROCESSOR_END", junk, NoImage, NoPipe) \o << [do |-> "join"] >>
  /\ UNCHANGED <<shared, proc, gleft, hand>>

Operation ==
  \/ \E i \in Images :
       \/ Open(i) \/ LockedUpdate(i) \/ MoveLayer(i) \/ RemoveLayer(i) \/ Export(i) \/ Close(i)
       \/ \E p \in Pipelines \cup {NoPipe} : Update(i, p) \/ SyncUpdate(i, p)
       \/ \E p \in Pipelines : Zoom(i, p) \/ SpotWB(i, p)
       \/ \E junk \in Garbage : Redraw(i, junk)
  \/ \E junk \in Garbage : Quit(junk)

\* The processor sleeps in g_async_queue_pop, or its thread has ended.  TLC takes
\* such a state for no deadlock; that the GUI thread is not asleep for ever as well
\* is GuiComesBack.
Rest ==
  /\ \/ pc \in {"pop", "more"} /\ queue = <<>>
     \/ pc = "stopped"
  /\ UNCHANGED vars

Next == Processor \/ Gui \/ Operation \/ Rest

\* Both threads keep running.  The user need not do anything.
Fairness == WF_vars(Processor) /\ WF_vars(Gui)

Spec == Init /\ [][Next]_vars /\ Fairness

-----------------------------------------------------------------------------
(* Properties *)

\* Every variable holds a value of the type the code gives it, and a loop of
\* optimize_requests is entered only with something to go over.
TypeOK ==
  /\ reqs \in Seq(Request) /\ queue \in Seq(Nat)
  /\ completed \in BOOLEAN
  /\ signaled \in [Conds -> [Images -> BOOLEAN]]
  /\ mutex \in [Images -> {"free", "gui", "processor"}]
  /\ fresh \subseteq Images /\ alive \subseteq Images
  /\ pc \in {"pop", "length", "more", "scan", "next", "lock", "work", "unlock",
             "signal", "stopped"}
  /\ left \in Nat /\ temp \in Seq(Nat) /\ rebuild_found \in BOOLEAN
  /\ batch \in Seq(Nat) /\ cur \in Nat /\ running \in BOOLEAN /\ handled \in Seq(Nat)
  /\ pc = "more" => left > 0
  /\ pc \in {"length", "more", "scan"} => temp # <<>>
  /\ todo \in Seq(Instr) /\ gleft \in Nat /\ hand \in Nat /\ quit \in BOOLEAN

Increasing(s) == \A m, n \in 1..Len(s) : m < n => s[m] < s[n]
Before(s, t) == \A m \in 1..Len(s), n \in 1..Len(t) : s[m] < t[n]

\* Requests are handled in the order they were submitted and none twice, and
\* nothing still in a queue overtakes: the reverse walk and push_front of
\* optimize_requests keep the order.  Handled requests come first, then those
\* left in temp_queue, those in the batch and those in the queue.
InOrder ==
  /\ Increasing(handled) /\ Increasing(temp) /\ Increasing(batch) /\ Increasing(queue)
  /\ Before(handled, temp) /\ Before(handled, batch) /\ Before(handled, queue)
  /\ Before(temp, batch) /\ Before(temp, queue) /\ Before(batch, queue)

\* The requests some thread still holds.
InFlight == ToSet(queue) \cup ToSet(temp) \cup ToSet(batch) \cup ({cur, hand} \ {0})
Kept == InFlight \cup ToSet(handled)
Gone == {k \in 1..Len(reqs) : k \notin Kept}

\* A rebuild disappears unhandled only for a later one that was kept, and is never
\* put off past an export or the removal of a layer submitted between the two: the
\* file written, or the layer removed, is that of an image rebuilt first.
\* optimize_requests does not look at the requests it walks over; it is the waits of
\* export_merged and remove_layer that keep a later rebuild out of their batch.
OnlyCoalesced ==
  \A k \in Gone :
    /\ reqs[k].kind = "REBUILD"
    /\ \E j \in Kept :
         /\ j > k /\ reqs[j].kind = "REBUILD"
         /\ \A m \in k .. j : reqs[m].kind \notin {"EXPORT", "REMOVE_LAYER"}

\* The rebuild of a pipeline that optimize_requests drops still comes: a later
\* REBUILD that was kept is of the same image, and of all its pipelines or of
\* the same one.  "Remove redundant requests to minimize pixel reprocessing".
RebuildStillComes ==
  \A k \in Gone : reqs[k].kind = "REBUILD" =>
    \E j \in Kept : /\ j > k
                    /\ reqs[j].kind = "REBUILD" /\ reqs[j].image = reqs[k].image
                    /\ reqs[j].pipe \in {NoPipe, reqs[k].pipe}

\* When a GUI operation that waits resumes, everything submitted before it
\* resumes has been handled or coalesced: the flag it saw was not left over
\* from an earlier request.
WaitsAreExact == [][Wait => InFlight \subseteq ToSet(handled)]_vars

\* The processor never works on an image the GUI thread has destroyed.
NoUseAfterDestroy ==
  pc \in {"lock", "work", "unlock", "signal"} /\ reqs[cur].owner # NoImage
    => reqs[cur].owner \in alive

\* The requests whose field "image" the code leaves uninitialised.
Unset == {"REDRAW_START", "REDRAW_END", "PROCESSOR_END"}

\* Once an image is closed, no request still queued names it, although the
\* processor pops requests while remove_image_from_queue goes round the queue and
\* the requests of the other images are pushed back behind those not yet seen.
QueueForgets == \A k \in ToSet(queue) : reqs[k].kind \in Unset \/ reqs[k].image \in alive

\* The kinds of requests whose handler signals condition c.
Signalling(c) == CASE c = "rebuild" -> {"REBUILD"} [] c = "remove" -> {"REMOVE_LAYER"}
                   [] c = "export" -> {"EXPORT"}

\* Request k has not signaled its condition yet.
Unsignaled(k) ==
  \/ k \in InFlight \ ToSet(handled)
  \/ k = cur /\ pc \in {"unlock", "signal"} /\ reqs[k].kind = "EXPORT"

\* No thread sleeps with nobody to wake it.  The processor never runs out of requests in
\* the middle of a batch.  Whatever the GUI thread sleeps on, the request that will wake
\* it is still to be handled, the processor has still to end a batch, or is about to end;
\* and it sleeps with no image locked.
NoLostWakeup ==
  /\ pc = "more" => queue # <<>>
  /\ todo # <<>> =>
       LET x == Head(todo) IN
       /\ x.do = "wait" => \/ signaled[x.cond][x.image]
                           \/ \E k \in 1..Len(reqs) : /\ Unsignaled(k) /\ reqs[k].image = x.image
                                                       /\ reqs[k].kind \in Signalling(x.cond)
       /\ x.do = "settle" => completed \/ (pc # "stopped" /\ ~Parked)
       /\ x.do = "join" => \/ ~running
                           \/ \E k \in InFlight : /\ k \notin ToSet(handled)
                                                   /\ reqs[k].kind = "PROCESSOR_END"
       /\ x.do \in {"wait", "settle", "sample", "lock", "join"} =>
            \A i \in Images : mutex[i] # "gui"

\* The GUI thread always comes back to its event loop: no wait, lock or join
\* lasts for ever.
GuiComesBack == []<>(todo = <<>>)

\* Every request submitted is handled or coalesced in the end.
RequestsSettle == \A k \in 1..(MaxSubmit + 1) : (k \in InFlight) ~> (k \notin InFlight)

\* Once main() asks for it, the processor stops and nothing is left behind.
ProcessorStops == quit ~> (pc = "stopped" /\ queue = <<>> /\ todo = <<>>)
=============================================================================
