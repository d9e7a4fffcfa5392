---------------------- MODULE EmbeddingPipelineProofs ----------------------
(***************************************************************************)
(* Proofs about EmbeddingPipeline, for every set of databases, roots,      *)
(* streams and marking tasks, every batch size and every debounce window:  *)
(* types and the retry limit, what the rows say of the text of their root, *)
(* that no live root is dropped, that deferred and sleeping processors are *)
(* woken.                                                                  *)
(***************************************************************************)
EXTENDS EmbeddingPipeline, FiniteSetTheorems, TLAPS

NodeType == [life : {"live", "archived", "gone"}, text : 0..MaxEdits, blank : BOOLEAN]
RowType == [st : {"none", "stale", "fresh"}, errs : 0..MaxRetries, age : 0..Debounce,
            text : 0..MaxEdits]
TaskType == [pc : {"idle", "look", "write"}, root : Roots \cup {None}, has : BOOLEAN,
             old : BOOLEAN, age : 0..Debounce]
Places == {"list", "plant", "idle", "acquire", "check", "parked", "gate", "fetch", "batch",
           "read", "clear", "store", "fail", "ask"}
ProcType == [pc : Places, todo : SUBSET Roots, done : BOOLEAN, root : Roots \cup {None},
             text : 0..MaxEdits, newer : BOOLEAN, res : BOOLEAN]

(* The types of all variables. *)
Fields ==
    /\ nodes \in [Roots -> NodeType]
    /\ rows \in [Roots -> RowType]
    /\ tasks \in [Tasks -> TaskType]
    /\ proc \in [Dbs -> ProcType]
    /\ line \in Seq(Tasks) /\ gateQueue \in Seq(Dbs)
    /\ trig \in [Dbs -> BOOLEAN] /\ note \in [Dbs -> BOOLEAN]
    /\ timers \in [Dbs -> SUBSET (0..Debounce)]
    /\ active \in Dbs \cup {None}
    /\ stream \in [Streams -> {"new", "open", "closed"}]
    /\ spent \in [edits : 0..MaxEdits, faults : 0..MaxFaults]
    /\ lost \subseteq Roots

(* A text has no more versions than there were edits, and only stale rows count
   failures. *)
Versions ==
    /\ \A r \in Roots : nodes[r].text <= spent.edits
    /\ \A r \in Roots : rows[r].st # "stale" => rows[r].errs = 0

(* A marking task in the line has looked at its root, and stands there once. *)
Marking ==
    /\ \A t \in Tasks :
          /\ tasks[t].pc = "idle" => tasks[t] = IdleTask
          /\ tasks[t].pc # "idle" => tasks[t].root \in Roots
          /\ tasks[t].pc = "look" => ~tasks[t].has /\ ~tasks[t].old
    /\ \A i \in 1 .. Len(line) : tasks[line[i]].pc = "write"
    /\ \A i, j \in 1 .. Len(line) : line[i] = line[j] => i = j

(* Where a processor has a root in hand. *)
Holding == {"read", "clear", "store", "fail"}

(* A root that is to be embedded and may fail once more. *)
Owed(r) == rows[r].st # "fresh" /\ rows[r].errs < MaxRetries

(* The roots of a batch are the database's own, each is taken once, and all may
   fail once more. *)
Fits(d, k) ==
    /\ k \in ProcType
    /\ k.todo \subseteq RootsOf(d)
    /\ k.pc \in Holding => k.root \in RootsOf(d) \ k.todo /\ Owed(k.root)
    /\ k.pc \notin Holding => k.root = None
    /\ k.pc \in Holding \cup {"batch"} => \A r \in k.todo : Owed(r)

InHand == \A d \in Dbs : Fits(d, proc[d])

(* The processors in line for the permit wait for it, each once. *)
Gating ==
    /\ \A i \in 1 .. Len(gateQueue) : proc[gateQueue[i]].pc = "gate"
    /\ \A i, j \in 1 .. Len(gateQueue) : gateQueue[i] = gateQueue[j] => i = j

Types == Fields /\ Versions /\ Marking /\ InHand /\ Gating

-----------------------------------------------------------------------------
(* Types *)

(* What a step that changes the state does, by action. *)
LEMMA Steps ==
    ASSUME Next
    PROVE  \/ \E t \in Tasks, r \in Roots : Edit(t, r) \/ Archive(t, r) \/ Unarchive(t, r)
           \/ \E r \in Roots : Delete(r)
           \/ \E d \in Busy : Nudge(d)
           \/ \E s \in Streams : OpenStream(s) \/ CloseStream(s)
           \/ \E t \in Tasks : QueueLook(t) \/ RowsUnread(t) \/ QueueFails(t) \/ QueueWrite(t)
           \/ \E d \in Dbs : SweepList(d) \/ SweepPlant(d)
           \/ \E d \in Dbs : Wake(d) \/ Acquire(d) \/ Check(d) \/ Notified(d) \/ Grant(d)
           \/ \E d \in Dbs : Fetch(d) \/ FetchFails(d) \/ EndBatch(d) \/ Ask(d) \/ AskFails(d)
           \/ \E d \in Dbs, r \in Roots : r \in RootsOf(d) /\ ReadAt(d, r)
           \/ \E d \in Dbs : ReadRoot(d) \/ Clear(d) \/ Store(d) \/ Fail(d) \/ TimerFires(d)
           \/ Tick
           \/ Crash
  BY DEF Next, Users, TaskStep, ProcStep, RootsOf

(* A root belongs to one database. *)
LEMMA Homes ==
    /\ \A r \in Roots : HomeOf[r] \in Dbs /\ r \in RootsOf(HomeOf[r])
    /\ \A d \in Dbs : RootsOf(d) \subseteq Roots
    /\ \A d, e \in Dbs, r \in Roots : r \in RootsOf(d) /\ r \in RootsOf(e) => d = e
  BY HomeAssumption DEF RootsOf

(* The resting records are typed. *)
LEMMA Resting ==
    /\ IdleTask \in TaskType /\ \A r \in Roots : LookTask(r) \in TaskType
    /\ NoRows \in RowType /\ \A n \in 0..Debounce : StaleRows(n) \in RowType
    /\ \A n \in 0..MaxEdits : FreshRows(n) \in RowType
    /\ Wired \in ProcType
    /\ 0 \in 0..Debounce /\ Debounce \in 0..Debounce /\ 0 \in 0..MaxEdits /\ 0 \in 0..MaxFaults
  <1>1. 0 \in 0..Debounce /\ Debounce \in 0..Debounce /\ 0 \in 0..MaxEdits /\ 0 \in 0..MaxFaults
        /\ 0 \in 0..MaxRetries
    BY SizeAssumption
  <1>2. IdleTask \in TaskType
    BY <1>1 DEF IdleTask, TaskType
  <1>3. \A r \in Roots : LookTask(r) \in TaskType
    BY <1>1 DEF LookTask, IdleTask, TaskType
  <1>4. NoRows \in RowType /\ (\A n \in 0..Debounce : StaleRows(n) \in RowType)
        /\ \A n \in 0..MaxEdits : FreshRows(n) \in RowType
    BY <1>1 DEF NoRows, StaleRows, FreshRows, RowType
  <1>5. Wired \in ProcType
    BY <1>1 DEF Wired, ProcType, Places
  <1>6. QED BY <1>1, <1>2, <1>3, <1>4, <1>5

(* Everything is wired and embedded when the daemon starts. *)
LEMMA TypesInit == Init => Types
  <1>. SUFFICES ASSUME Init PROVE Types
    OBVIOUS
  <1>. USE Resting
  <1>1. Fields
    <2>1. nodes \in [Roots -> NodeType] /\ rows \in [Roots -> RowType]
      BY DEF Init, NodeType
    <2>2. timers \in [Dbs -> SUBSET (0..Debounce)] /\ line \in Seq(Tasks) /\ gateQueue \in Seq(Dbs)
      BY DEF Init
    <2>3. proc \in [Dbs -> ProcType] /\ tasks \in [Tasks -> TaskType]
      BY DEF Init
    <2>4. QED BY <2>1, <2>2, <2>3 DEF Init, Fields
  <1>2. Versions
    BY SizeAssumption DEF Init, Versions, FreshRows
  <1>3. Marking
    BY DEF Init, Marking, IdleTask
  <1>4. InHand
    BY DEF Init, InHand, Fits, Wired, Holding
  <1>5. Gating
    BY DEF Init, Gating
  <1>6. QED BY <1>1, <1>2, <1>3, <1>4, <1>5 DEF Types

(* No row becomes fresh, and rows keep the failures they count or forget them all. *)
Mild ==
    \A r \in Roots : /\ rows'[r].errs = rows[r].errs \/ rows'[r].errs = 0
                     /\ rows'[r].st = "fresh" => rows[r].st = "fresh"

(* A processor that goes on while no failure is counted keeps its batch in order. *)
LEMMA ProcGoes ==
    ASSUME Types, NEW d \in Dbs, NEW k, Fits(d, k), proc' = [proc EXCEPT ![d] = k], Mild
    PROVE  /\ proc' \in [Dbs -> ProcType] /\ InHand'
           /\ proc[d].pc # "gate" /\ UNCHANGED gateQueue => Gating'
  <1>1. proc' \in [Dbs -> ProcType] /\ \A e \in Dbs \ {d} : proc'[e] = proc[e]
    BY DEF Types, Fields, Fits
  <1>2. ASSUME NEW e \in Dbs, NEW p, Fits(e, p) PROVE Fits(e, p)'
    <2>1. \A r \in Roots : Owed(r) => Owed(r)'
      BY SizeAssumption DEF Mild, Owed
    <2>2. QED BY <1>2, <2>1, Homes DEF Fits, ProcType, RootsOf
  <1>3. \A e \in Dbs : Fits(e, proc'[e])
    BY DEF Types, Fields, InHand
  <1>4. ASSUME proc[d].pc # "gate", UNCHANGED gateQueue PROVE Gating'
    <2>1. \A i \in 1 .. Len(gateQueue) : gateQueue[i] \in Dbs \ {d}
      BY <1>4 DEF Types, Fields, Gating
    <2>2. QED BY <1>1, <1>4, <2>1 DEF Types, Gating
  <1>5. QED BY <1>1, <1>2, <1>3, <1>4 DEF InHand

(* So do processors that only hear of a newer mark. *)
LEMMA ProcStays ==
    ASSUME Types, Mild, proc' \in [Dbs -> ProcType],
           \A e \in Dbs : /\ proc'[e].pc = proc[e].pc
                          /\ proc'[e].todo = proc[e].todo /\ proc'[e].root = proc[e].root
    PROVE  InHand' /\ (UNCHANGED gateQueue => Gating')
  <1>1. \A r \in Roots : Owed(r) => Owed(r)'
    BY SizeAssumption DEF Mild, Owed
  <1>2. ASSUME NEW e \in Dbs PROVE Fits(e, proc[e])'
    <2>1. Fits(e, proc[e])
      BY DEF Types, InHand
    <2>2. QED BY <1>1, <2>1, Homes DEF Fits, ProcType, RootsOf
  <1>3. \A i \in 1 .. Len(gateQueue) : gateQueue[i] \in Dbs
    BY DEF Types, Fields
  <1>4. QED BY <1>2, <1>3 DEF InHand, Types, Gating

(* A task that has looked joins the end of the line. *)
LEMMA LineJoin ==
    ASSUME Types, NEW t \in Tasks, tasks[t].pc = "look", NEW k \in TaskType,
           k.pc = "write", k.root \in Roots,
           tasks' = [tasks EXCEPT ![t] = k], line' = Append(line, t)
    PROVE  tasks' \in [Tasks -> TaskType] /\ line' \in Seq(Tasks) /\ Marking'
  <1>1. tasks \in [Tasks -> TaskType] /\ line \in Seq(Tasks)
    BY DEF Types, Fields
  <1>2. tasks' \in [Tasks -> TaskType] /\ line' \in Seq(Tasks)
    BY <1>1
  <1>3. /\ Len(line') = Len(line) + 1 /\ line'[Len(line) + 1] = t /\ Len(line) \in Nat
        /\ \A i \in 1 .. Len(line) : line'[i] = line[i] /\ line[i] \in Tasks
    BY <1>1
  <1>4. \A i \in 1 .. Len(line) : line[i] # t
    BY DEF Types, Marking
  <1>5. \A u \in Tasks : tasks'[u] = IF u = t THEN k ELSE tasks[u]
    BY <1>1
  <1>6. \A i \in 1 .. Len(line') : tasks'[line'[i]].pc = "write"
    BY <1>3, <1>4, <1>5 DEF Types, Marking
  <1>7. \A i, j \in 1 .. Len(line') : line'[i] = line'[j] => i = j
    BY <1>3, <1>4 DEF Types, Marking
  <1>8. QED BY <1>2, <1>5, <1>6, <1>7 DEF Types, Marking

(* The task at the head of the line leaves it when it is done. *)
LEMMA LineLeave ==
    ASSUME Types, NEW t \in Tasks, line # <<>>, t = Head(line),
           tasks' = [tasks EXCEPT ![t] = IdleTask], line' = Tail(line)
    PROVE  /\ tasks' \in [Tasks -> TaskType] /\ line' \in Seq(Tasks) /\ Marking'
           /\ tasks[t].pc = "write" /\ tasks[t].root \in Roots
  <1>1. tasks \in [Tasks -> TaskType] /\ line \in Seq(Tasks)
    BY DEF Types, Fields
  <1>2. tasks' \in [Tasks -> TaskType] /\ line' \in Seq(Tasks)
    BY <1>1, Resting
  <1>3. /\ Len(line) \in Nat \ {0} /\ Len(line') = Len(line) - 1 /\ t = line[1]
        /\ \A i \in 1 .. Len(line') : line'[i] = line[i + 1]
        /\ \A i \in 1 .. Len(line) : line[i] \in Tasks
    BY <1>1
  <1>4. \A i \in 1 .. Len(line') : line'[i] # t /\ i + 1 \in 1 .. Len(line)
    BY <1>3 DEF Types, Marking
  <1>5. \A u \in Tasks : tasks'[u] = IF u = t THEN IdleTask ELSE tasks[u]
    BY <1>1
  <1>6. \A i \in 1 .. Len(line') : tasks'[line'[i]].pc = "write"
    BY <1>3, <1>4, <1>5 DEF Types, Marking
  <1>7. \A i, j \in 1 .. Len(line') : line'[i] = line'[j] => i = j
    <2>1. TAKE i, j \in 1 .. Len(line')
    <2>2. HAVE line'[i] = line'[j]
    <2>3. i + 1 = j + 1
      BY <1>3, <1>4, <2>2 DEF Types, Marking
    <2>4. QED BY <2>3, <1>3
  <1>8. tasks[t].pc = "write" /\ tasks[t].root \in Roots
    <2>1. 1 \in 1 .. Len(line)
      BY <1>3
    <2>2. QED BY <1>3, <2>1 DEF Types, Marking
  <1>9. Marking'
    <2>1. \A u \in Tasks :
            /\ tasks'[u].pc = "idle" => tasks'[u] = IdleTask
            /\ tasks'[u].pc # "idle" => tasks'[u].root \in Roots
            /\ tasks'[u].pc = "look" => ~tasks'[u].has /\ ~tasks'[u].old
      <3>1. IdleTask.pc = "idle"
        BY DEF IdleTask
      <3>2. QED BY <1>5, <3>1 DEF Types, Marking
    <2>2. QED BY <1>6, <1>7, <2>1 DEF Marking
  <1>10. QED BY <1>2, <1>8, <1>9

(* A task out of the line starts over, or ends. *)
LEMMA LineAside ==
    ASSUME Types, NEW t \in Tasks, tasks[t].pc # "write", NEW r \in Roots,
           NEW k \in {IdleTask, LookTask(r)},
           tasks' = [tasks EXCEPT ![t] = k], line' = line
    PROVE  tasks' \in [Tasks -> TaskType] /\ Marking'
  <1>1. tasks \in [Tasks -> TaskType] /\ line \in Seq(Tasks)
    BY DEF Types, Fields
  <1>2. tasks' \in [Tasks -> TaskType]
    BY <1>1, Resting
  <1>3. \A i \in 1 .. Len(line) : line[i] # t /\ line[i] \in Tasks
    BY <1>1 DEF Types, Marking
  <1>4. \A u \in Tasks : tasks'[u] = IF u = t THEN k ELSE tasks[u]
    BY <1>1
  <1>5. k.pc \in {"idle", "look"} /\ (k.pc = "idle" => k = IdleTask)
        /\ (k.pc = "look" => k.root \in Roots /\ ~k.has /\ ~k.old)
    <2>1. CASE k = IdleTask
      BY <2>1 DEF IdleTask
    <2>2. CASE k = LookTask(r)
      BY <2>2 DEF IdleTask, LookTask
    <2>3. QED BY <2>1, <2>2
  <1>6. QED BY <1>2, <1>3, <1>4, <1>5 DEF Types, Marking

(* The roots whose rows a user's archive or delete takes keep out of the batches. *)
LEMMA RowsDeletedTypes ==
    ASSUME Types, NEW r \in Roots, RowsDeleted(r)
    PROVE  /\ rows' \in [Roots -> RowType] /\ rows'[r] = NoRows
           /\ \A q \in Roots \ {r} : rows'[q] = rows[q]
           /\ proc' \in [Dbs -> ProcType] /\ InHand' /\ (UNCHANGED gateQueue => Gating')
           /\ \A q \in Roots : rows'[q].st # "stale" => rows'[q].errs = 0
  <1>1. rows \in [Roots -> RowType] /\ proc \in [Dbs -> ProcType]
    BY DEF Types, Fields
  <1>2. /\ rows' \in [Roots -> RowType] /\ rows'[r] = NoRows
        /\ \A q \in Roots \ {r} : rows'[q] = rows[q]
    BY <1>1, Resting DEF RowsDeleted
  <1>3. Mild /\ \A q \in Roots : rows'[q].st # "stale" => rows'[q].errs = 0
    BY <1>2 DEF Mild, NoRows, Types, Versions
  <1>4. proc' \in [Dbs -> ProcType]
    BY <1>1 DEF RowsDeleted, ProcType
  <1>5. \A e \in Dbs : /\ proc'[e].pc = proc[e].pc
                       /\ proc'[e].todo = proc[e].todo /\ proc'[e].root = proc[e].root
    BY <1>1 DEF RowsDeleted, ProcType
  <1>6. QED BY <1>2, <1>3, <1>4, <1>5, ProcStays

(* Users' writes. *)
LEMMA UserTypes ==
    ASSUME Types, NEW t, NEW r \in Roots,
           \/ t \in Tasks /\ (Edit(t, r) \/ Archive(t, r) \/ Unarchive(t, r))
           \/ Delete(r)
    PROVE  Types'
  <1>1. /\ nodes \in [Roots -> NodeType] /\ spent \in [edits : 0..MaxEdits, faults : 0..MaxFaults]
        /\ nodes[r] \in NodeType
    BY DEF Types, Fields
  <1>2. spent' \in [edits : 0..MaxEdits, faults : 0..MaxFaults] /\ spent'.edits = spent.edits + 1
        /\ spent.edits \in 0..MaxEdits /\ spent.edits < MaxEdits /\ MaxEdits \in Nat
    <2>1. spent.edits < MaxEdits /\ spent' = [spent EXCEPT !.edits = @ + 1] /\ MaxEdits \in Nat
      BY SizeAssumption DEF Edit, Archive, Unarchive, Delete, CanEdit, Edited
    <2>2. QED BY <1>1, <2>1
  <1>3. nodes' \in [Roots -> NodeType] /\ \A q \in Roots : nodes'[q].text <= spent'.edits
    <2>1. CASE Edit(t, r)
      <3>1. PICK b \in BOOLEAN : nodes' = [nodes EXCEPT ![r].text = @ + 1, ![r].blank = b]
        BY <2>1 DEF Edit
      <3>2. nodes[r].text \in 0..MaxEdits /\ nodes[r].text <= spent.edits
        BY <1>1 DEF NodeType, Types, Versions
      <3>3. nodes[r].text + 1 \in 0..MaxEdits
        BY <1>2, <3>2
      <3>4. nodes' \in [Roots -> NodeType]
        BY <1>1, <3>1, <3>3 DEF NodeType
      <3>5. nodes'[r].text = nodes[r].text + 1 /\ \A q \in Roots \ {r} : nodes'[q] = nodes[q]
        BY <1>1, <3>1 DEF NodeType
      <3>6. \A q \in Roots : nodes[q].text \in Nat /\ nodes[q].text <= spent.edits
        BY <1>1 DEF NodeType, Types, Versions
      <3>7. QED BY <1>2, <3>4, <3>5, <3>6
    <2>2. CASE Archive(t, r) \/ Unarchive(t, r) \/ Delete(r)
      <3>1. PICK life \in {"live", "archived", "gone"} : nodes' = [nodes EXCEPT ![r].life = life]
        BY <2>2 DEF Archive, Unarchive, Delete
      <3>2. nodes' \in [Roots -> NodeType] /\ \A q \in Roots : nodes'[q].text = nodes[q].text
        BY <1>1, <3>1 DEF NodeType
      <3>3. \A q \in Roots : nodes[q].text \in Nat /\ nodes[q].text <= spent.edits
        BY <1>1 DEF NodeType, Types, Versions
      <3>4. QED BY <1>2, <3>2, <3>3
    <2>3. QED BY <2>1, <2>2
  <1>4. tasks' \in [Tasks -> TaskType] /\ line' = line /\ Marking'
    <2>1. CASE Delete(r)
      BY <2>1 DEF Delete, Types, Fields, Marking
    <2>2. CASE t \in Tasks /\ (Edit(t, r) \/ Archive(t, r) \/ Unarchive(t, r))
      <3>1. tasks[t].pc = "idle" /\ tasks' = [tasks EXCEPT ![t] = LookTask(r)] /\ line' = line
        BY <2>2 DEF Edit, Archive, Unarchive
      <3>2. QED BY <2>2, <3>1, LineAside
    <2>3. QED BY <2>1, <2>2
  <1>5. /\ rows' \in [Roots -> RowType] /\ proc' \in [Dbs -> ProcType] /\ InHand'
        /\ (UNCHANGED gateQueue => Gating')
        /\ \A q \in Roots : rows'[q].st # "stale" => rows'[q].errs = 0
    <2>1. CASE Edit(t, r) \/ Unarchive(t, r)
      <3>1. rows' = rows /\ proc' = proc
        BY <2>1 DEF Edit, Unarchive
      <3>2. Mild
        BY <3>1 DEF Mild
      <3>3. QED BY <3>1, <3>2, ProcStays DEF Types, Fields, Versions
    <2>2. CASE Archive(t, r) \/ Delete(r)
      BY <2>2, RowsDeletedTypes DEF Archive, Delete
    <2>3. QED BY <2>1, <2>2
  <1>6. UNCHANGED <<line, trig, timers, lost, active, stream, gateQueue, note>>
    BY DEF Edit, Archive, Unarchive, Delete, KeepScheduler
  <1>7. Fields'
    BY <1>2, <1>3, <1>4, <1>5, <1>6 DEF Types, Fields
  <1>8. QED BY <1>3, <1>4, <1>5, <1>6, <1>7 DEF Types, Versions

(* Nothing that a processor or the store holds changes. *)
LEMMA HandsOff ==
    ASSUME Types, UNCHANGED <<nodes, rows, proc>>,
           \/ UNCHANGED spent
           \/ spent' = [spent EXCEPT !.faults = @ + 1] /\ spent.faults < MaxFaults
    PROVE  /\ spent' \in [edits : 0..MaxEdits, faults : 0..MaxFaults]
           /\ Versions' /\ InHand' /\ (UNCHANGED gateQueue => Gating')
  <1>1. /\ spent' \in [edits : 0..MaxEdits, faults : 0..MaxFaults]
        /\ spent'.edits = spent.edits
    BY SizeAssumption DEF Types, Fields
  <1>2. Mild
    BY DEF Mild
  <1>3. InHand' /\ (UNCHANGED gateQueue => Gating')
    BY <1>2, ProcStays DEF Types, Fields
  <1>4. QED BY <1>1, <1>3 DEF Types, Versions

(* queue_root_for_embedding_async keeps the rows typed, and starts them over. *)
LEMMA QueueTypes ==
    ASSUME Types, NEW t \in Tasks,
           QueueLook(t) \/ RowsUnread(t) \/ QueueFails(t) \/ QueueWrite(t)
    PROVE  Types'
  <1>1. /\ tasks \in [Tasks -> TaskType] /\ tasks[t] \in TaskType
        /\ trig \in [Dbs -> BOOLEAN] /\ lost \subseteq Roots
    BY DEF Types, Fields
  <1>2. CASE QueueLook(t)
    <2>1. tasks[t].root \in Roots /\ tasks[t].pc = "look"
      BY <1>2 DEF QueueLook, Types, Marking
    <2>2. tasks' \in [Tasks -> TaskType] /\ line' \in Seq(Tasks) /\ Marking'
      <3>1. CASE nodes[tasks[t].root].life = "live"
        <4>. DEFINE b == rows[tasks[t].root].st # "none"
        <4>. DEFINE k == [tasks[t] EXCEPT !.pc = "write", !.has = b]
        <4>1. tasks' = [tasks EXCEPT ![t] = k] /\ line' = Append(line, t)
          BY <3>1, <1>2 DEF QueueLook
        <4>2. k \in TaskType /\ k.pc = "write" /\ k.root \in Roots
          BY <1>1, <2>1 DEF TaskType
        <4>. HIDE DEF k
        <4>3. QED BY <2>1, <4>1, <4>2, LineJoin
      <3>2. CASE nodes[tasks[t].root].life # "live"
        <4>1. tasks' = [tasks EXCEPT ![t] = IdleTask] /\ line' = line
          BY <3>2, <1>2 DEF QueueLook
        <4>2. QED BY <2>1, <4>1, LineAside DEF Types, Fields
      <3>3. QED BY <3>1, <3>2
    <2>3. UNCHANGED <<nodes, rows, proc, trig, timers, spent, lost, active, stream, gateQueue, note>>
      BY <1>2 DEF QueueLook, KeepScheduler
    <2>4. /\ spent' \in [edits : 0..MaxEdits, faults : 0..MaxFaults]
          /\ Versions' /\ InHand' /\ Gating'
      BY <2>3, HandsOff
    <2>5. QED BY <2>2, <2>3, <2>4 DEF Types, Fields
  <1>3. CASE RowsUnread(t)
    <2>1. tasks[t].root \in Roots /\ tasks[t].pc = "look"
      BY <1>3 DEF RowsUnread, Types, Marking
    <2>2. tasks' \in [Tasks -> TaskType] /\ line' \in Seq(Tasks) /\ Marking'
      <3>. DEFINE k == [tasks[t] EXCEPT !.pc = "write"]
      <3>1. tasks' = [tasks EXCEPT ![t] = k] /\ line' = Append(line, t)
        BY <1>3 DEF RowsUnread
      <3>2. k \in TaskType /\ k.pc = "write" /\ k.root \in Roots
        BY <1>1, <2>1 DEF TaskType
      <3>. HIDE DEF k
      <3>3. QED BY <2>1, <3>1, <3>2, LineJoin
    <2>3. UNCHANGED <<nodes, rows, proc, trig, timers, lost, active, stream, gateQueue, note>>
      BY <1>3 DEF RowsUnread, KeepScheduler
    <2>4. spent' = [spent EXCEPT !.faults = @ + 1] /\ spent.faults < MaxFaults
      BY <1>3 DEF RowsUnread
    <2>5. QED BY <2>2, <2>3, <2>4, HandsOff DEF Types, Fields
  <1>4. CASE QueueFails(t)
    <2>1. tasks' = [tasks EXCEPT ![t] = IdleTask]
      BY <1>4 DEF QueueFails
    <2>2. tasks' \in [Tasks -> TaskType] /\ line' \in Seq(Tasks) /\ Marking' /\ tasks[t].root \in Roots
      <3>1. CASE tasks[t].pc = "look" /\ line' = line
        <4>1. tasks[t].root \in Roots
          BY <3>1 DEF Types, Marking
        <4>2. QED BY <2>1, <3>1, <4>1, LineAside DEF Types, Fields
      <3>2. CASE line # <<>> /\ t = Head(line) /\ line' = Tail(line)
        BY <2>1, <3>2, LineLeave
      <3>3. QED BY <1>4, <3>1, <3>2 DEF QueueFails
    <2>3. UNCHANGED <<nodes, rows, proc, trig, timers, active, stream, gateQueue, note>>
          /\ lost' \subseteq Roots
      BY <1>1, <1>4, <2>2 DEF QueueFails, KeepScheduler
    <2>4. spent' = [spent EXCEPT !.faults = @ + 1] /\ spent.faults < MaxFaults
      BY <1>4 DEF QueueFails
    <2>5. QED BY <2>2, <2>3, <2>4, HandsOff DEF Types, Fields
  <1>5. CASE QueueWrite(t)
    <2>1. /\ tasks' \in [Tasks -> TaskType] /\ line' \in Seq(Tasks) /\ Marking'
          /\ tasks[t].pc = "write" /\ tasks[t].root \in Roots
      BY <1>5, LineLeave DEF QueueWrite
    <2>. DEFINE r == tasks[t].root
    <2>2. UNCHANGED <<nodes, timers, spent, active, stream, gateQueue, note>>
          /\ lost' \subseteq Roots /\ trig' \in [Dbs -> BOOLEAN]
      BY <1>1, <1>5, <2>1 DEF QueueWrite, KeepScheduler
    <2>3. rows \in [Roots -> RowType] /\ proc \in [Dbs -> ProcType] /\ tasks[t].age \in 0..Debounce
          /\ tasks[t].old \in BOOLEAN
      BY <1>1 DEF Types, Fields, TaskType
    <2>4. /\ rows' \in [Roots -> RowType] /\ Mild
          /\ \A q \in Roots : rows'[q].st # "stale" => rows'[q].errs = 0
      <3>1. CASE rows' = [rows EXCEPT ![r] = StaleRows(tasks[t].age)]
        <4>1. /\ StaleRows(tasks[t].age) \in RowType /\ StaleRows(tasks[t].age).errs = 0
              /\ StaleRows(tasks[t].age).st = "stale"
          BY <2>3, Resting DEF StaleRows
        <4>2. \A q \in Roots : rows'[q] = IF q = r THEN StaleRows(tasks[t].age) ELSE rows[q]
          BY <2>3, <3>1
        <4>3. rows' \in [Roots -> RowType]
          BY <2>3, <3>1, <4>1
        <4>4. QED BY <4>1, <4>2, <4>3 DEF Mild, Types, Versions
      <3>2. CASE rows' = rows
        BY <2>3, <3>2 DEF Mild, Types, Versions
      <3>3. QED BY <1>5, <3>1, <3>2 DEF QueueWrite, RowsMarked
    <2>5. /\ proc' \in [Dbs -> ProcType]
          /\ \A e \in Dbs : /\ proc'[e].pc = proc[e].pc
                            /\ proc'[e].todo = proc[e].todo /\ proc'[e].root = proc[e].root
      <3>1. CASE proc' = [d \in Dbs |-> IF proc[d].root = r
                                       THEN [proc[d] EXCEPT !.newer = ~tasks[t].old] ELSE proc[d]]
        BY <2>3, <3>1 DEF ProcType
      <3>2. CASE proc' = proc
        BY <2>3, <3>2
      <3>3. QED BY <1>5, <3>1, <3>2 DEF QueueWrite
    <2>6. InHand' /\ Versions' /\ Gating'
      BY <2>2, <2>4, <2>5, ProcStays DEF Types, Versions
    <2>7. QED BY <2>1, <2>2, <2>4, <2>5, <2>6 DEF Types, Fields
  <1>6. QED BY <1>2, <1>3, <1>4, <1>5

(* The scheduler: a processor that waits for the model has no root in hand, and
   stands in line once. *)
LEMMA WakeTypes ==
    ASSUME Types, NEW d \in Dbs, Wake(d) \/ Acquire(d) \/ Check(d) \/ Notified(d) \/ Grant(d)
    PROVE  Types'
  <1>1. /\ proc \in [Dbs -> ProcType] /\ proc[d] \in ProcType /\ Fits(d, proc[d])
        /\ gateQueue \in Seq(Dbs)
    BY DEF Types, Fields, InHand
  <1>2. UNCHANGED <<nodes, rows, tasks, line, timers, spent, lost, active, stream>>
    BY DEF Wake, Acquire, Check, Notified, Grant, KeepData, KeepScheduler
  <1>3. trig' \in [Dbs -> BOOLEAN] /\ note' \in [Dbs -> BOOLEAN]
    BY DEF Wake, Acquire, Check, Notified, Grant, KeepData, KeepScheduler, Types, Fields
  <1>4. ASSUME NEW pc \in {"acquire", "check", "gate", "parked", "fetch"}, NEW res \in BOOLEAN,
               proc[d].pc \in {"idle", "acquire", "check", "parked", "gate"}
        PROVE  Fits(d, [proc[d] EXCEPT !.pc = pc, !.res = res])
    <2>1. [proc[d] EXCEPT !.pc = pc, !.res = res] \in ProcType
      BY <1>1 DEF ProcType, Places
    <2>2. QED BY <1>1, <1>4, <2>1 DEF Fits, Holding, ProcType
  <1>5. Mild
    BY <1>2 DEF Mild
  <1>6. CASE Grant(d)
    <2>1. gateQueue # <<>> /\ d = Head(gateQueue) /\ gateQueue' = Tail(gateQueue)
      BY <1>6 DEF Grant
    <2>2. /\ Len(gateQueue) \in Nat \ {0} /\ Len(gateQueue') = Len(gateQueue) - 1
          /\ d = gateQueue[1] /\ gateQueue' \in Seq(Dbs)
          /\ \A i \in 1 .. Len(gateQueue') : gateQueue'[i] = gateQueue[i + 1]
          /\ \A i \in 1 .. Len(gateQueue) : gateQueue[i] \in Dbs
      BY <1>1, <2>1
    <2>3. 1 \in 1 .. Len(gateQueue) /\ proc[d].pc = "gate"
      BY <2>2 DEF Types, Gating
    <2>. DEFINE k == [proc[d] EXCEPT !.pc = "fetch", !.res = proc[d].res]
    <2>4. proc' = [proc EXCEPT ![d] = k] /\ proc[d].res \in BOOLEAN
      BY <1>1, <1>6 DEF Grant, Goes, ProcType
    <2>5. Fits(d, k)
      BY <1>4, <2>3, <2>4
    <2>. HIDE DEF k
    <2>6. proc' \in [Dbs -> ProcType] /\ InHand'
      BY <1>5, <2>4, <2>5, ProcGoes
    <2>7. \A i \in 1 .. Len(gateQueue') : i + 1 \in 1 .. Len(gateQueue) /\ gateQueue'[i] # d
      BY <2>2, <2>3 DEF Types, Gating
    <2>8. Gating'
      <3>1. \A e \in Dbs \ {d} : proc'[e] = proc[e]
        BY <1>1, <2>4
      <3>2. \A i \in 1 .. Len(gateQueue') : proc'[gateQueue'[i]].pc = "gate"
        BY <2>2, <2>7, <3>1 DEF Types, Gating
      <3>3. ASSUME NEW i \in 1 .. Len(gateQueue'), NEW j \in 1 .. Len(gateQueue'),
                   gateQueue'[i] = gateQueue'[j]
            PROVE  i = j
        <4>1. i + 1 = j + 1
          BY <2>2, <2>7, <3>3 DEF Types, Gating
        <4>2. QED BY <4>1, <2>2
      <3>4. QED BY <3>2, <3>3 DEF Gating
    <2>9. QED BY <1>2, <1>3, <2>2, <2>6, <2>8 DEF Types, Fields, Versions, Marking
  <1>7. CASE Wake(d) \/ Acquire(d) \/ Check(d) \/ Notified(d)
    <2>1. PICK pc \in {"acquire", "check", "gate", "parked"}, res \in BOOLEAN :
             /\ proc' = [proc EXCEPT ![d] = [proc[d] EXCEPT !.pc = pc, !.res = res]]
             /\ proc[d].pc \in {"idle", "acquire", "check", "parked"}
             /\ \/ UNCHANGED gateQueue
                \/ pc = "gate" /\ gateQueue' = Append(gateQueue, d)
      <3>0. proc[d].res \in BOOLEAN
            /\ \A pc : Goes(d, pc) = [proc EXCEPT ![d] = [proc[d] EXCEPT !.pc = pc, !.res = proc[d].res]]
        BY <1>1 DEF Goes, ProcType
      <3>1. CASE Wake(d)
        BY <3>0, <3>1 DEF Wake, At, KeepScheduler
      <3>2. CASE Acquire(d)
        <4>1. CASE active = d
          <5>1. /\ proc' = [proc EXCEPT ![d] = [proc[d] EXCEPT !.pc = "gate", !.res = TRUE]]
                /\ gateQueue' = Append(gateQueue, d) /\ proc[d].pc = "acquire"
            BY <1>1, <3>2, <4>1 DEF Acquire, At
          <5>2. QED BY <5>1
        <4>2. CASE active # d
          BY <3>0, <3>2, <4>2 DEF Acquire, At
        <4>3. QED BY <4>1, <4>2
      <3>3. CASE Check(d)
        BY <3>0, <3>3 DEF Check, At
      <3>4. CASE Notified(d)
        BY <3>0, <3>4 DEF Notified, At
      <3>5. QED BY <1>7, <3>1, <3>2, <3>3, <3>4
    <2>. DEFINE k == [proc[d] EXCEPT !.pc = pc, !.res = res]
    <2>2. proc' = [proc EXCEPT ![d] = k] /\ k.pc = pc
      BY <1>1, <2>1 DEF ProcType
    <2>3. Fits(d, k)
      BY <1>4, <2>1
    <2>. HIDE DEF k
    <2>4. proc' \in [Dbs -> ProcType] /\ InHand' /\ (UNCHANGED gateQueue => Gating')
      BY <1>5, <2>1, <2>2, <2>3, ProcGoes
    <2>5. gateQueue' \in Seq(Dbs) /\ Gating'
      <3>1. CASE UNCHANGED gateQueue
        BY <1>1, <2>4, <3>1
      <3>2. CASE pc = "gate" /\ gateQueue' = Append(gateQueue, d)
        <4>1. /\ Len(gateQueue') = Len(gateQueue) + 1 /\ gateQueue'[Len(gateQueue) + 1] = d
              /\ \A i \in 1 .. Len(gateQueue) : gateQueue'[i] = gateQueue[i] /\ gateQueue[i] \in Dbs
              /\ Len(gateQueue) \in Nat /\ gateQueue' \in Seq(Dbs)
          BY <1>1, <3>2
        <4>2. \A i \in 1 .. Len(gateQueue) : gateQueue[i] # d
          BY <2>1 DEF Types, Gating
        <4>3. proc'[d].pc = "gate" /\ \A e \in Dbs \ {d} : proc'[e] = proc[e]
          BY <1>1, <2>2, <3>2
        <4>4. \A i \in 1 .. Len(gateQueue') : proc'[gateQueue'[i]].pc = "gate"
          BY <4>1, <4>2, <4>3 DEF Types, Gating
        <4>5. \A i, j \in 1 .. Len(gateQueue') : gateQueue'[i] = gateQueue'[j] => i = j
          BY <4>1, <4>2 DEF Types, Gating
        <4>6. QED BY <4>1, <4>4, <4>5 DEF Gating
      <3>3. QED BY <2>1, <3>1, <3>2
    <2>6. QED BY <1>2, <1>3, <2>4, <2>5 DEF Types, Fields, Versions, Marking
  <1>8. QED BY <1>6, <1>7

(* A processor that neither stands in line nor changes rows. *)
LEMMA ProcAlone ==
    ASSUME Types, NEW d \in Dbs, NEW k, proc' = [proc EXCEPT ![d] = k], Fits(d, k),
           proc[d].pc # "gate",
           UNCHANGED <<nodes, rows, line, lost, active, stream, gateQueue>>,
           trig' \in [Dbs -> BOOLEAN], note' \in [Dbs -> BOOLEAN],
           timers' \in [Dbs -> SUBSET (0..Debounce)],
           \/ UNCHANGED spent
           \/ spent' = [spent EXCEPT !.faults = @ + 1] /\ spent.faults < MaxFaults,
           tasks' \in [Tasks -> TaskType], Marking'
    PROVE  Types'
  <1>1. /\ spent' \in [edits : 0..MaxEdits, faults : 0..MaxFaults]
        /\ spent'.edits = spent.edits
    BY SizeAssumption DEF Types, Fields
  <1>2. Mild
    BY DEF Mild
  <1>3. proc' \in [Dbs -> ProcType] /\ InHand' /\ Gating'
    BY <1>2, ProcGoes
  <1>4. QED BY <1>1, <1>3 DEF Types, Fields, Versions

(* A batch, from the query that fills it to the wake it leaves behind: it takes roots
   of its database that may fail once more. *)
LEMMA BatchTypes ==
    ASSUME Types, NEW d \in Dbs,
           \/ SweepList(d) \/ Fetch(d) \/ FetchFails(d) \/ EndBatch(d) \/ Ask(d) \/ AskFails(d)
           \/ ReadRoot(d)
    PROVE  Types'
  <1>1. /\ proc \in [Dbs -> ProcType] /\ proc[d] \in ProcType /\ Fits(d, proc[d])
        /\ note \in [Dbs -> BOOLEAN]
    BY DEF Types, Fields, InHand
  <1>2. /\ UNCHANGED <<nodes, rows, tasks, line, lost, active, stream, gateQueue, trig>>
        /\ proc[d].pc # "gate"
    BY DEF SweepList, Fetch, FetchFails, EndBatch, Ask, AskFails, ReadRoot, KeepData,
           KeepScheduler, ReleaseTo, At
  <1>3. tasks' \in [Tasks -> TaskType] /\ Marking' /\ trig' \in [Dbs -> BOOLEAN]
    BY <1>2 DEF Types, Fields, Marking
  <1>4. note' \in [Dbs -> BOOLEAN]
    <2>1. Woken(d) \in [Dbs -> BOOLEAN]
      BY <1>1 DEF Woken
    <2>2. note' = note \/ note' = Woken(d)
      BY DEF SweepList, Fetch, FetchFails, EndBatch, Ask, AskFails, ReadRoot, KeepScheduler,
             ReleaseTo
    <2>3. QED BY <1>1, <2>1, <2>2
  <1>5. timers' \in [Dbs -> SUBSET (0..Debounce)]
    <2>1. timers' = timers \/ timers' = [timers EXCEPT ![d] = @ \cup {Debounce}]
      BY DEF SweepList, Fetch, FetchFails, EndBatch, Ask, AskFails, ReadRoot, KeepData
    <2>2. timers \in [Dbs -> SUBSET (0..Debounce)] /\ Debounce \in 0..Debounce
      BY Resting DEF Types, Fields
    <2>3. [timers EXCEPT ![d] = @ \cup {Debounce}] \in [Dbs -> SUBSET (0..Debounce)]
      BY <2>2
    <2>4. QED BY <2>1, <2>2, <2>3
  <1>6. \/ UNCHANGED spent
        \/ spent' = [spent EXCEPT !.faults = @ + 1] /\ spent.faults < MaxFaults
    BY DEF SweepList, Fetch, FetchFails, EndBatch, Ask, AskFails, ReadRoot, KeepData
  <1>7. \E k : proc' = [proc EXCEPT ![d] = k] /\ Fits(d, k)
    <2>1. CASE SweepList(d)
      <3>. DEFINE k == [proc[d] EXCEPT !.pc = "plant", !.todo = Unembedded(d)]
      <3>1. proc' = [proc EXCEPT ![d] = k] /\ proc[d].pc = "list"
        BY <2>1 DEF SweepList, At
      <3>2. k \in ProcType /\ k.todo \subseteq RootsOf(d) /\ k.pc = "plant" /\ k.root = proc[d].root
        BY <1>1, Homes DEF ProcType, Places, Unembedded
      <3>. HIDE DEF k
      <3>3. Fits(d, k)
        BY <1>1, <3>1, <3>2 DEF Fits, Holding
      <3>4. QED BY <3>1, <3>3
    <2>2. CASE Fetch(d)
      <3>1. PICK batch \in SUBSET Due(d) :
               proc' = [proc EXCEPT ![d].pc = "batch", ![d].todo = batch]
        BY <2>2 DEF Fetch
      <3>. DEFINE k == [proc[d] EXCEPT !.pc = "batch", !.todo = batch]
      <3>2. proc' = [proc EXCEPT ![d] = k] /\ proc[d].pc = "fetch"
        BY <2>2, <3>1 DEF Fetch, At
      <3>3. batch \subseteq RootsOf(d) /\ \A r \in batch : Owed(r)
        BY DEF Due, Eligible, Owed
      <3>4. k \in ProcType /\ k.todo = batch /\ k.pc = "batch" /\ k.root = proc[d].root
        BY <1>1, <3>3, Homes DEF ProcType, Places
      <3>. HIDE DEF k
      <3>5. Fits(d, k)
        BY <1>1, <3>2, <3>3, <3>4 DEF Fits, Holding
      <3>6. QED BY <3>2, <3>5
    <2>3. CASE FetchFails(d) \/ EndBatch(d)
      <3>1. PICK pc \in {"idle", "acquire", "ask"} : ReleaseTo(d, pc)
        BY <2>3 DEF FetchFails, EndBatch
      <3>. DEFINE k == [proc[d] EXCEPT !.pc = pc, !.res = FALSE, !.done = FALSE]
      <3>2. proc' = [proc EXCEPT ![d] = k] /\ proc[d].pc \in {"fetch", "batch"}
        BY <2>3, <3>1 DEF FetchFails, EndBatch, At, ReleaseTo
      <3>3. k \in ProcType /\ k.todo = proc[d].todo /\ k.pc = pc /\ k.root = proc[d].root
        BY <1>1 DEF ProcType, Places
      <3>. HIDE DEF k
      <3>4. Fits(d, k)
        BY <1>1, <3>2, <3>3 DEF Fits, Holding
      <3>5. QED BY <3>2, <3>4
    <2>4. CASE Ask(d) \/ AskFails(d)
      <3>. DEFINE k == [proc[d] EXCEPT !.pc = "idle"]
      <3>1. proc' = [proc EXCEPT ![d] = k] /\ proc[d].pc = "ask"
        BY <2>4 DEF Ask, AskFails, At, Goes
      <3>2. k \in ProcType /\ k.todo = proc[d].todo /\ k.pc = "idle" /\ k.root = proc[d].root
        BY <1>1 DEF ProcType, Places
      <3>. HIDE DEF k
      <3>3. Fits(d, k)
        BY <1>1, <3>1, <3>2 DEF Fits, Holding
      <3>4. QED BY <3>1, <3>3
    <2>5. CASE ReadRoot(d)
      <3>1. proc[d].pc = "read" /\ proc[d].root \in Roots
        BY <1>1, <2>5, Homes DEF ReadRoot, At, Fits, Holding
      <3>2. proc[d].text \in 0..MaxEdits /\ nodes[proc[d].root].text \in 0..MaxEdits
        BY <1>1, <3>1 DEF ProcType, Types, Fields, NodeType
      <3>3. PICK pc \in {"clear", "store", "fail"}, text \in 0..MaxEdits :
               proc' = [proc EXCEPT ![d] = [proc[d] EXCEPT !.pc = pc, !.text = text]]
        <4>1. CASE proc' = Goes(d, "fail") \/ proc' = Goes(d, "clear")
          <5>1. \A pc : Goes(d, pc) = [proc EXCEPT ![d] = [proc[d] EXCEPT !.pc = pc, !.text = proc[d].text]]
            BY <1>1 DEF Goes, ProcType
          <5>2. QED BY <3>2, <4>1, <5>1
        <4>2. CASE \E pc \in {"store", "fail"} :
                     proc' = [proc EXCEPT ![d].pc = pc, ![d].text = nodes[proc[d].root].text]
          <5>1. PICK pc \in {"store", "fail"} :
                     proc' = [proc EXCEPT ![d].pc = pc, ![d].text = nodes[proc[d].root].text]
            BY <4>2
          <5>2. proc' = [proc EXCEPT ![d] = [proc[d] EXCEPT !.pc = pc, !.text = nodes[proc[d].root].text]]
            BY <5>1
          <5>3. QED BY <3>2, <5>2
        <4>3. QED BY <2>5, <4>1, <4>2 DEF ReadRoot
      <3>. DEFINE k == [proc[d] EXCEPT !.pc = pc, !.text = text]
      <3>4. k \in ProcType /\ k.todo = proc[d].todo /\ k.pc = pc /\ k.root = proc[d].root
        BY <1>1 DEF ProcType, Places
      <3>5. proc' = [proc EXCEPT ![d] = k]
        BY <3>3
      <3>. HIDE DEF k
      <3>6. Fits(d, k)
        BY <1>1, <3>1, <3>4 DEF Fits, Holding
      <3>7. QED BY <3>5, <3>6
    <2>6. QED BY <2>1, <2>2, <2>3, <2>4, <2>5
  <1>8. QED BY <1>2, <1>3, <1>4, <1>5, <1>6, <1>7, ProcAlone

(* A read takes a root out of its batch, and makes old the marks it is newer than. *)
LEMMA ReadAtTypes ==
    ASSUME Types, NEW d \in Dbs, NEW r \in Roots, r \in RootsOf(d), ReadAt(d, r)
    PROVE  Types'
  <1>1. /\ proc \in [Dbs -> ProcType] /\ proc[d] \in ProcType /\ Fits(d, proc[d])
        /\ proc[d].pc = "batch" /\ r \in proc[d].todo /\ tasks \in [Tasks -> TaskType]
    BY DEF Types, Fields, InHand, ReadAt, At
  <1>2. UNCHANGED <<nodes, rows, line, trig, timers, spent, lost, active, stream, gateQueue, note>>
    BY DEF ReadAt, KeepScheduler
  <1>3. \A t \in Tasks : /\ tasks'[t] \in TaskType
                         /\ tasks'[t].pc = tasks[t].pc /\ tasks'[t].root = tasks[t].root
                         /\ tasks[t].pc # "write" => tasks'[t] = tasks[t]
    BY <1>1 DEF ReadAt, TaskType
  <1>4. tasks' \in [Tasks -> TaskType]
    BY <1>3 DEF ReadAt
  <1>5. Marking'
    <2>1. \A i \in 1 .. Len(line) : line[i] \in Tasks
      BY DEF Types, Fields
    <2>2. QED BY <1>2, <1>3, <2>1 DEF Types, Marking
  <1>. DEFINE k == [proc[d] EXCEPT !.pc = "read", !.root = r, !.newer = FALSE, !.todo = @ \ {r}]
  <1>6. proc' = [proc EXCEPT ![d] = k]
    BY DEF ReadAt
  <1>7. /\ k \in ProcType /\ k.todo = proc[d].todo \ {r} /\ k.pc = "read" /\ k.root = r
    BY <1>1 DEF ProcType, Places
  <1>. HIDE DEF k
  <1>8. Fits(d, k)
    BY <1>1, <1>7 DEF Fits, Holding
  <1>9. QED BY <1>1, <1>2, <1>4, <1>5, <1>6, <1>8, ProcAlone DEF Types, Fields

(* The markers of the startup sweep are new rows, of no failures. *)
LEMMA PlantTypes ==
    ASSUME Types, NEW d \in Dbs, SweepPlant(d)
    PROVE  Types'
  <1>1. /\ proc \in [Dbs -> ProcType] /\ proc[d] \in ProcType /\ Fits(d, proc[d])
        /\ rows \in [Roots -> RowType] /\ proc[d].pc = "plant"
    BY DEF Types, Fields, InHand, SweepPlant, At
  <1>2. UNCHANGED <<nodes, tasks, line, timers, spent, lost, active, stream, gateQueue, note>>
        /\ trig' \in [Dbs -> BOOLEAN]
    BY DEF SweepPlant, KeepScheduler, Types, Fields
  <1>3. \A r \in Roots : rows'[r] = StaleRows(0) \/ rows'[r] = rows[r]
    BY DEF SweepPlant
  <1>4. rows' \in [Roots -> RowType]
    BY <1>1, <1>3, Resting DEF SweepPlant
  <1>5. Mild /\ \A r \in Roots : rows'[r].st # "stale" => rows'[r].errs = 0
    BY <1>3 DEF Mild, StaleRows, Types, Versions
  <1>. DEFINE k == [proc[d] EXCEPT !.pc = "idle", !.todo = {}]
  <1>6. proc' = [proc EXCEPT ![d] = k]
    BY DEF SweepPlant
  <1>7. k \in ProcType /\ k.todo = {} /\ k.pc = "idle" /\ k.root = proc[d].root
    BY <1>1 DEF ProcType, Places
  <1>. HIDE DEF k
  <1>8. Fits(d, k)
    BY <1>1, <1>7 DEF Fits, Holding
  <1>9. proc' \in [Dbs -> ProcType] /\ InHand' /\ Gating'
    BY <1>1, <1>2, <1>5, <1>6, <1>8, ProcGoes
  <1>10. QED BY <1>2, <1>4, <1>5, <1>9 DEF Types, Fields, Versions, Marking

(* The root in hand is done with: its rows are what the processor made of them, and
   it is in no other hand. *)
LEMMA DoneTypes ==
    ASSUME Types, NEW d \in Dbs, NEW ok \in BOOLEAN, proc' = RootDone(d, ok),
           proc[d].pc \in Holding, NEW row \in RowType, row.st # "stale" => row.errs = 0,
           rows' = [rows EXCEPT ![proc[d].root] = row],
           UNCHANGED <<nodes, tasks, line, trig, timers, spent, active, stream, gateQueue, note>>,
           lost' \subseteq lost
    PROVE  Types'
  <1>1. /\ proc \in [Dbs -> ProcType] /\ proc[d] \in ProcType /\ Fits(d, proc[d])
        /\ rows \in [Roots -> RowType]
    BY DEF Types, Fields, InHand
  <1>2. proc[d].root \in RootsOf(d) \ proc[d].todo /\ proc[d].root \in Roots
        /\ proc[d].todo \subseteq RootsOf(d)
    BY <1>1, Homes DEF Fits
  <1>3. /\ rows' \in [Roots -> RowType]
        /\ \A r \in Roots \ {proc[d].root} : rows'[r] = rows[r]
        /\ \A r \in Roots : rows'[r].st # "stale" => rows'[r].errs = 0
    BY <1>1, <1>2 DEF Types, Versions
  <1>0. PICK k : k = [proc[d] EXCEPT !.pc = "batch", !.root = None, !.text = 0,
                                     !.newer = FALSE, !.done = @ \/ ok]
    OBVIOUS
  <1>4. proc' = [proc EXCEPT ![d] = k]
    BY <1>0 DEF RootDone
  <1>5. proc[d].done \/ ok \in BOOLEAN
    BY <1>1 DEF ProcType
  <1>6. k \in ProcType /\ k.todo = proc[d].todo /\ k.pc = "batch" /\ k.root = None
    BY <1>0, <1>1, <1>5, Resting DEF ProcType, Places
  <1>7. proc' \in [Dbs -> ProcType] /\ proc'[d] = k /\ \A e \in Dbs \ {d} : proc'[e] = proc[e]
    BY <1>1, <1>4, <1>6
  <1>8. Fits(d, k)'
    <2>1. \A r \in k.todo : Owed(r) /\ r \in RootsOf(d) /\ r # proc[d].root
      BY <1>1, <1>2, <1>6 DEF Fits
    <2>2. \A r \in k.todo : Owed(r)' /\ r \in RootsOf(d)
      BY <1>3, <2>1, Homes DEF Owed
    <2>3. k.todo \subseteq RootsOf(d)' /\ k.root = None /\ k.pc \notin Holding
      BY <2>2, <1>6 DEF Holding, RootsOf
    <2>4. QED BY <1>6, <2>2, <2>3 DEF Fits
  <1>9. ASSUME NEW e \in Dbs \ {d} PROVE Fits(e, proc[e])'
    <2>1. Fits(e, proc[e]) /\ proc'[e] = proc[e]
      BY <1>7 DEF Types, InHand
    <2>2. \A r \in RootsOf(e) : rows'[r] = rows[r]
      BY <1>2, <1>3, Homes
    <2>3. RootsOf(e)' = RootsOf(e)
      BY DEF RootsOf
    <2>4. proc[e].pc \in Holding => rows'[proc[e].root] = rows[proc[e].root] /\ Owed(proc[e].root)
      BY <2>1, <2>2 DEF Fits
    <2>5. proc[e].pc \in Holding \cup {"batch"} => \A r \in proc[e].todo : rows'[r] = rows[r] /\ Owed(r)
      BY <2>1, <2>2 DEF Fits
    <2>6. QED BY <2>1, <2>3, <2>4, <2>5 DEF Fits, Owed
  <1>10. InHand'
    BY <1>7, <1>8, <1>9 DEF InHand
  <1>11. Gating'
    <2>1. proc[d].pc # "gate"
      BY DEF Holding
    <2>2. \A i \in 1 .. Len(gateQueue) : gateQueue[i] \in Dbs \ {d}
      BY <2>1 DEF Types, Fields, Gating
    <2>3. QED BY <1>7, <2>2 DEF Types, Gating
  <1>12. QED BY <1>3, <1>7, <1>10, <1>11 DEF Types, Fields, Versions, Marking

(* upsert_embeddings, delete_embeddings and record_embedding_error keep the rows
   typed: a root that fails was not given up before. *)
LEMMA EndTypes ==
    ASSUME Types, NEW d \in Dbs, Clear(d) \/ Store(d) \/ Fail(d)
    PROVE  Types'
  <1>1. /\ proc[d] \in ProcType /\ Fits(d, proc[d]) /\ rows \in [Roots -> RowType]
        /\ proc[d].pc \in Holding
    BY DEF Types, Fields, InHand, Clear, Store, Fail, At, Holding
  <1>2. /\ proc[d].root \in Roots /\ rows[proc[d].root] \in RowType /\ proc[d].text \in 0..MaxEdits
        /\ rows[proc[d].root].errs < MaxRetries /\ rows[proc[d].root].st # "fresh"
        /\ rows[proc[d].root].st # "stale" => rows[proc[d].root].errs = 0
    BY <1>1, Homes DEF Fits, ProcType, Types, Versions, Owed
  <1>3. UNCHANGED <<nodes, tasks, line, trig, timers, spent, active, stream, gateQueue, note>>
        /\ lost' \subseteq lost
    BY DEF Clear, Store, Fail, KeepScheduler
  <1>4. \E ok \in BOOLEAN : proc' = RootDone(d, ok)
    BY DEF Clear, Store, Fail
  <1>5. \E row \in RowType : /\ row.st # "stale" => row.errs = 0
                             /\ rows' = [rows EXCEPT ![proc[d].root] = row]
    <2>1. CASE Clear(d)
      <3>1. NoRows \in RowType /\ NoRows.errs = 0
        BY Resting DEF NoRows
      <3>2. QED BY <2>1, <3>1 DEF Clear
    <2>2. CASE Store(d)
      <3>1. NoRows \in RowType /\ NoRows.errs = 0
        BY Resting DEF NoRows
      <3>2. FreshRows(proc[d].text) \in RowType /\ FreshRows(proc[d].text).errs = 0
        BY <1>2, Resting DEF FreshRows
      <3>3. Stored(d) \in RowType /\ (Stored(d).st # "stale" => Stored(d).errs = 0)
        BY <1>2, <3>1, <3>2 DEF Stored
      <3>4. QED BY <2>2, <3>3 DEF Store
    <2>3. CASE Fail(d)
      <3>. DEFINE old == rows[proc[d].root]
      <3>1. CASE old.st = "none"
        <4>1. rows' = [rows EXCEPT ![proc[d].root] = old]
          BY <1>1, <1>2, <2>3, <3>1 DEF Fail
        <4>2. QED BY <1>2, <3>1, <4>1
      <3>2. CASE old.st # "none"
        <4>. DEFINE row == [old EXCEPT !.errs = @ + 1, !.age = 0, !.text = proc[d].text]
        <4>1. rows' = [rows EXCEPT ![proc[d].root] = row]
          <5>1. rows' = [rows EXCEPT ![proc[d].root].errs = @ + 1, ![proc[d].root].age = 0,
                                     ![proc[d].root].text = proc[d].text]
            BY <2>3, <3>2 DEF Fail
          <5>2. QED BY <1>1, <1>2, <5>1
        <4>2. old.errs + 1 \in 0..MaxRetries
          BY <1>2, SizeAssumption DEF RowType
        <4>3. row \in RowType
          BY <1>2, <4>2, Resting DEF RowType
        <4>4. row.st = old.st
          BY <1>2 DEF RowType
        <4>5. row.st = "stale"
          BY <1>2, <3>2, <4>4 DEF RowType
        <4>6. QED BY <4>1, <4>3, <4>5
      <3>3. QED BY <3>1, <3>2
    <2>4. QED BY <2>1, <2>2, <2>3
  <1>6. QED BY <1>1, <1>3, <1>4, <1>5, DoneTypes

(* Time, crashes, streams, wakes. *)
LEMMA AsideTypes ==
    ASSUME Types,
           \/ \E d \in Busy : Nudge(d)
           \/ \E s \in Streams : OpenStream(s) \/ CloseStream(s)
           \/ \E d \in Dbs : TimerFires(d)
           \/ Tick \/ Crash
    PROVE  Types'
  <1>1. /\ trig \in [Dbs -> BOOLEAN] /\ timers \in [Dbs -> SUBSET (0..Debounce)]
        /\ stream \in [Streams -> {"new", "open", "closed"}] /\ active \in Dbs \cup {None}
        /\ rows \in [Roots -> RowType] /\ tasks \in [Tasks -> TaskType]
        /\ proc \in [Dbs -> ProcType]
    BY DEF Types, Fields
  <1>2. ASSUME UNCHANGED <<nodes, rows, tasks, line, proc, spent, lost, gateQueue>>,
               trig' \in [Dbs -> BOOLEAN], timers' \in [Dbs -> SUBSET (0..Debounce)],
               stream' \in [Streams -> {"new", "open", "closed"}], active' \in Dbs \cup {None},
               UNCHANGED note
        PROVE  Types'
    <2>1. Versions' /\ InHand' /\ Gating'
      BY <1>2, HandsOff
    <2>2. QED BY <1>2, <2>1 DEF Types, Fields, Marking
  <1>3. ASSUME NEW d \in Busy, Nudge(d) PROVE Types'
    BY <1>1, <1>2, <1>3 DEF Nudge, KeepScheduler
  <1>4. ASSUME NEW s \in Streams, OpenStream(s) \/ CloseStream(s) PROVE Types'
    <2>1. stream' \in [Streams -> {"new", "open", "closed"}] /\ active' \in Dbs \cup {None}
      BY <1>1, <1>4, HomeAssumption DEF OpenStream, CloseStream
    <2>2. QED BY <1>1, <1>2, <1>4, <2>1 DEF OpenStream, CloseStream, KeepData
  <1>5. ASSUME NEW d \in Dbs, TimerFires(d) PROVE Types'
    <2>1. timers' \in [Dbs -> SUBSET (0..Debounce)] /\ trig' \in [Dbs -> BOOLEAN]
      BY <1>1, <1>5 DEF TimerFires
    <2>2. QED BY <1>1, <1>2, <1>5, <2>1 DEF TimerFires, KeepScheduler
  <1>6. CASE Tick
    <2>0. Debounce \in Nat
      BY SizeAssumption
    <2>1. \A n \in 0..Debounce : Older(n) \in 0..Debounce
      BY <2>0 DEF Older
    <2>2. /\ rows' \in [Roots -> RowType]
          /\ \A r \in Roots : rows'[r].st = rows[r].st /\ rows'[r].errs = rows[r].errs
      <3>1. \A r \in Roots : /\ rows'[r] \in RowType
                             /\ rows'[r].st = rows[r].st /\ rows'[r].errs = rows[r].errs
        <4>1. TAKE r \in Roots
        <4>2. rows[r] \in RowType /\ rows[r].age \in 0..Debounce
          BY <1>1 DEF RowType
        <4>3. rows'[r] = IF rows[r].st = "stale" THEN [rows[r] EXCEPT !.age = Older(rows[r].age)]
                         ELSE rows[r]
          BY <1>6 DEF Tick
        <4>4. QED BY <4>2, <4>3, <2>1 DEF RowType
      <3>2. QED BY <1>6, <3>1 DEF Tick
    <2>3. /\ tasks' \in [Tasks -> TaskType]
          /\ \A t \in Tasks : /\ tasks'[t].pc = tasks[t].pc /\ tasks'[t].root = tasks[t].root
                              /\ tasks[t].pc # "write" => tasks'[t] = tasks[t]
      <3>1. \A t \in Tasks : /\ tasks'[t] \in TaskType
                             /\ tasks'[t].pc = tasks[t].pc /\ tasks'[t].root = tasks[t].root
                             /\ tasks[t].pc # "write" => tasks'[t] = tasks[t]
        <4>1. TAKE t \in Tasks
        <4>2. tasks[t] \in TaskType /\ tasks[t].age \in 0..Debounce
          BY <1>1 DEF TaskType
        <4>3. tasks'[t] = IF tasks[t].pc = "write" THEN [tasks[t] EXCEPT !.age = Older(tasks[t].age)]
                          ELSE tasks[t]
          BY <1>6 DEF Tick
        <4>4. QED BY <4>2, <4>3, <2>1 DEF TaskType
      <3>2. QED BY <1>6, <3>1 DEF Tick
    <2>4. timers' \in [Dbs -> SUBSET (0..Debounce)]
      <3>1. \A n \in 0..Debounce : (IF n > 0 THEN n - 1 ELSE 0) \in 0..Debounce
        BY <2>0
      <3>2. QED BY <1>1, <1>6, <3>1 DEF Tick
    <2>5. UNCHANGED <<nodes, line, proc, trig, spent, lost, active, stream, gateQueue, note>>
      BY <1>6 DEF Tick, KeepScheduler
    <2>6. Mild
      BY <2>2 DEF Mild
    <2>7. InHand' /\ Gating'
      BY <1>1, <2>5, <2>6, ProcStays
    <2>8. Marking'
      <3>1. \A i \in 1 .. Len(line) : line[i] \in Tasks
        BY DEF Types, Fields
      <3>2. QED BY <2>3, <2>5, <3>1 DEF Types, Marking
    <2>9. QED BY <2>2, <2>3, <2>4, <2>5, <2>7, <2>8 DEF Types, Fields, Versions
  <1>7. CASE Crash
    <2>1. /\ spent' \in [edits : 0..MaxEdits, faults : 0..MaxFaults]
          /\ spent'.edits = spent.edits
      BY <1>7, SizeAssumption DEF Crash, Types, Fields
    <2>2. lost' \subseteq Roots
      BY <1>7 DEF Crash, Types, Fields, Marking
    <2>3. stream' \in [Streams -> {"new", "open", "closed"}]
      BY <1>1, <1>7 DEF Crash
    <2>4. /\ tasks' \in [Tasks -> TaskType] /\ proc' \in [Dbs -> ProcType]
          /\ line' \in Seq(Tasks) /\ gateQueue' \in Seq(Dbs)
          /\ line' = <<>> /\ gateQueue' = <<>>
          /\ trig' \in [Dbs -> BOOLEAN] /\ note' \in [Dbs -> BOOLEAN]
          /\ timers' \in [Dbs -> SUBSET (0..Debounce)] /\ active' \in Dbs \cup {None}
      BY <1>7, Resting DEF Crash
    <2>5. UNCHANGED <<nodes, rows>>
      BY <1>7 DEF Crash
    <2>6. Fields' /\ Versions'
      BY <2>1, <2>2, <2>3, <2>4, <2>5 DEF Types, Fields, Versions
    <2>7. Marking' /\ Gating'
      BY <1>7, <2>4 DEF Crash, Marking, Gating, IdleTask
    <2>8. InHand'
      BY <1>7, <2>4 DEF Crash, InHand, Fits, Wired, Holding
    <2>9. QED BY <2>6, <2>7, <2>8 DEF Types
  <1>8. QED BY <1>3, <1>4, <1>5, <1>6, <1>7

(* Every step keeps every variable typed. *)
LEMMA TypesStep == Types /\ [Next]_vars => Types'
  <1>. SUFFICES ASSUME Types, [Next]_vars PROVE Types'
    OBVIOUS
  <1>1. CASE Next
    <2>1. ASSUME NEW t, NEW r \in Roots,
                 \/ t \in Tasks /\ (Edit(t, r) \/ Archive(t, r) \/ Unarchive(t, r))
                 \/ Delete(r)
          PROVE  Types'
      BY <2>1, UserTypes
    <2>2. ASSUME NEW t \in Tasks, QueueLook(t) \/ RowsUnread(t) \/ QueueFails(t) \/ QueueWrite(t)
          PROVE  Types'
      BY <2>2, QueueTypes
    <2>3. ASSUME NEW d \in Dbs, Wake(d) \/ Acquire(d) \/ Check(d) \/ Notified(d) \/ Grant(d)
          PROVE  Types'
      BY <2>3, WakeTypes
    <2>4. ASSUME NEW d \in Dbs,
                 \/ SweepList(d) \/ Fetch(d) \/ FetchFails(d) \/ EndBatch(d) \/ Ask(d)
                 \/ AskFails(d) \/ ReadRoot(d)
          PROVE  Types'
      BY <2>4, BatchTypes
    <2>5. ASSUME NEW d \in Dbs, NEW r \in Roots, r \in RootsOf(d), ReadAt(d, r) PROVE Types'
      BY <2>5, ReadAtTypes
    <2>6. ASSUME NEW d \in Dbs, SweepPlant(d) \/ Clear(d) \/ Store(d) \/ Fail(d) PROVE Types'
      BY <2>6, PlantTypes, EndTypes
    <2>7. ASSUME \/ \E d \in Busy : Nudge(d)
                 \/ \E s \in Streams : OpenStream(s) \/ CloseStream(s)
                 \/ \E d \in Dbs : TimerFires(d)
                 \/ Tick \/ Crash
          PROVE  Types'
      BY <2>7, AsideTypes
    <2>8. QED BY <1>1, <2>1, <2>2, <2>3, <2>4, <2>5, <2>6, <2>7, Steps
  <1>2. CASE UNCHANGED vars
    BY <1>2 DEF vars, Types, Fields, Versions, Marking, InHand, Fits, Owed, RootsOf, Gating
  <1>3. QED BY <1>1, <1>2

(* Every variable keeps its type; in particular no root fails more often than the
   retry limit allows: a root is taken into a batch only below the limit, it is in
   one hand, and what lands on its rows meanwhile starts the count over. *)
THEOREM TypeCorrect == Spec => []TypeOK
  <1>1. Spec => []Types
    BY TypesInit, TypesStep, PTL DEF Spec
  <1>2. Types => TypeOK
    BY DEF Types, Fields, TypeOK, NodeType, RowType, TaskType, ProcType, Places
  <1>3. QED BY <1>1, <1>2, PTL

-----------------------------------------------------------------------------
(* What the rows say of the text *)

(* A mark on its way that the read under way is not newer than, and that will not be
   dropped for rows that it found and that are gone. *)
Covers(t, r) ==
    /\ tasks[t].root = r /\ ~tasks[t].old
    /\ ~(tasks[t].pc = "write" /\ tasks[t].has /\ rows[r].st = "none")

(* A processor about to store vectors, which no newer mark stops, has the current
   text, or the mark of the edit since will come after it. *)
StoresCurrent ==
    \A d \in Dbs :
        LET r == proc[d].root
        IN  /\ proc[d].pc = "store" /\ ~proc[d].newer
            /\ nodes[r].life = "live" /\ proc[d].text # nodes[r].text
            => r \in lost \/ \E t \in Tasks : Covers(t, r)

(* A root nobody empties or archives is cleared only when it is deleted. *)
Plain ==
    /\ \A r \in Roots \ Flickering : nodes[r].life # "archived" /\ ~nodes[r].blank
    /\ \A d \in Dbs : proc[d].pc = "clear" /\ proc[d].root \notin Flickering =>
          nodes[proc[d].root].life = "gone"

TextInv == FreshIsCurrent /\ ArchivedNotSearched /\ NeverForgotten /\ StoresCurrent /\ Plain

(* When the rows, the texts and the marks on their way say what they said, and no
   processor reads a text or has heard of a mark, nothing is to show. *)
LEMMA QuietText ==
    ASSUME Types, Types', TextInv, UNCHANGED <<nodes, lost>>,
           \A r \in Roots : rows'[r].st = rows[r].st /\ rows'[r].text = rows[r].text,
           \A t \in Tasks : /\ tasks'[t].pc = tasks[t].pc /\ tasks'[t].root = tasks[t].root
                            /\ tasks'[t].old = tasks[t].old /\ tasks'[t].has = tasks[t].has,
           \A d \in Dbs : proc'[d].pc \in {"clear", "store"} =>
              /\ proc'[d].pc = proc[d].pc /\ proc'[d].root = proc[d].root
              /\ proc'[d].text = proc[d].text /\ proc'[d].newer = proc[d].newer
    PROVE  TextInv'
  <1>1. \A r \in Roots : Queueing(r) => Queueing(r)'
    BY DEF Queueing
  <1>2. FreshIsCurrent' /\ ArchivedNotSearched' /\ NeverForgotten'
    BY <1>1 DEF TextInv, FreshIsCurrent, ArchivedNotSearched, NeverForgotten
  <1>3. \A d \in Dbs : proc'[d].pc \in {"clear", "store"} => proc[d].root \in Roots
    BY Homes DEF Types, InHand, Fits, Holding
  <1>4. \A t \in Tasks, r \in Roots : Covers(t, r) => Covers(t, r)'
    BY DEF Covers
  <1>5. StoresCurrent'
    BY <1>3, <1>4 DEF TextInv, StoresCurrent
  <1>6. Plain'
    BY <1>3 DEF TextInv, Plain
  <1>7. QED BY <1>2, <1>5, <1>6 DEF TextInv

(* A user's write starts a mark of its own. *)
LEMMA TaskStarts ==
    ASSUME Types, NEW t \in Tasks, NEW r \in Roots, tasks[t].pc = "idle",
           tasks' = [tasks EXCEPT ![t] = LookTask(r)]
    PROVE  /\ tasks'[t].root = r /\ ~tasks'[t].old /\ tasks'[t].pc = "look"
           /\ \A u \in Tasks : tasks[u].root \in Roots => tasks'[u] = tasks[u]
  <1>1. tasks'[t] = LookTask(r) /\ \A u \in Tasks \ {t} : tasks'[u] = tasks[u]
    BY DEF Types, Fields
  <1>2. tasks[t].root = None /\ None \notin Roots
    BY DbsAssumption DEF Types, Marking, IdleTask
  <1>3. QED BY <1>1, <1>2 DEF LookTask, IdleTask

(* The processors with a root in hand after its rows are deleted had it before, and
   have heard of no mark since. *)
LEMMA HandsAfterDelete ==
    ASSUME Types, NEW r \in Roots, RowsDeleted(r)
    PROVE  \A d \in Dbs : /\ proc'[d].pc = proc[d].pc /\ proc'[d].root = proc[d].root
                          /\ proc'[d].text = proc[d].text
                          /\ proc[d].root # r => proc'[d] = proc[d]
  BY DEF RowsDeleted, Types, Fields, ProcType

(* Users' writes: an edit and an unarchival send a mark, and what is archived or
   deleted has no rows. *)
LEMMA UserText ==
    ASSUME Types, Types', TextInv, NEW t, NEW r \in Roots,
           \/ t \in Tasks /\ (Edit(t, r) \/ Archive(t, r) \/ Unarchive(t, r))
           \/ Delete(r)
    PROVE  TextInv'
  <1>1. nodes \in [Roots -> NodeType] /\ nodes[r] \in NodeType /\ UNCHANGED lost
    BY DEF Types, Fields, Edit, Archive, Unarchive, Delete
  <1>2. \A d \in Dbs : proc[d].pc \in {"clear", "store"} => proc[d].root \in Roots
    BY Homes DEF Types, InHand, Fits, Holding
  <1>3. CASE t \in Tasks /\ Edit(t, r)
    <2>1. PICK b \in BOOLEAN : /\ nodes' = [nodes EXCEPT ![r].text = @ + 1, ![r].blank = b]
                               /\ r \notin Flickering => ~b
      BY <1>3 DEF Edit
    <2>2. /\ nodes'[r].life = nodes[r].life /\ nodes'[r].blank = b
          /\ \A q \in Roots \ {r} : nodes'[q] = nodes[q]
      BY <1>1, <2>1 DEF NodeType
    <2>3. /\ tasks'[t].root = r /\ ~tasks'[t].old /\ tasks'[t].pc = "look"
          /\ \A u \in Tasks : tasks[u].root \in Roots => tasks'[u] = tasks[u]
          /\ UNCHANGED <<rows, proc>>
      BY <1>3, TaskStarts DEF Edit
    <2>4. \A q \in Roots : Queueing(q) \/ q = r => Queueing(q)'
      BY <1>3, <2>3 DEF Queueing
    <2>5. /\ Covers(t, r)' /\ t \in Tasks
          /\ \A u \in Tasks, q \in Roots : Covers(u, q) => Covers(u, q)'
      BY <1>3, <2>3 DEF Covers
    <2>6. FreshIsCurrent' /\ ArchivedNotSearched' /\ NeverForgotten'
      BY <1>1, <2>2, <2>3, <2>4 DEF TextInv, FreshIsCurrent, ArchivedNotSearched, NeverForgotten
    <2>7. StoresCurrent'
      BY <1>1, <1>2, <2>2, <2>3, <2>5 DEF TextInv, StoresCurrent
    <2>8. Plain'
      <3>1. \A q \in Roots \ Flickering : nodes'[q].life # "archived" /\ ~nodes'[q].blank
        BY <2>1, <2>2 DEF TextInv, Plain
      <3>2. \A q \in Roots : nodes'[q].life = nodes[q].life
        BY <2>2
      <3>3. QED BY <1>2, <2>3, <3>1, <3>2 DEF TextInv, Plain
    <2>9. QED BY <2>6, <2>7, <2>8 DEF TextInv
  <1>4. CASE t \in Tasks /\ Unarchive(t, r)
    <2>1. /\ nodes' = [nodes EXCEPT ![r].life = "live"] /\ nodes[r].life = "archived"
          /\ UNCHANGED <<rows, proc>>
      BY <1>4 DEF Unarchive
    <2>2. /\ nodes'[r].life = "live" /\ nodes'[r].text = nodes[r].text
          /\ nodes'[r].blank = nodes[r].blank
          /\ \A q \in Roots \ {r} : nodes'[q] = nodes[q]
      BY <1>1, <2>1 DEF NodeType
    <2>3. /\ tasks'[t].root = r /\ ~tasks'[t].old /\ tasks'[t].pc = "look"
          /\ \A u \in Tasks : tasks[u].root \in Roots => tasks'[u] = tasks[u]
      BY <1>4, TaskStarts DEF Unarchive
    <2>4. r \in Flickering
      BY <2>1 DEF TextInv, Plain
    <2>5. \A q \in Roots : Queueing(q) \/ q = r => Queueing(q)'
      BY <1>4, <2>3 DEF Queueing
    <2>6. /\ Covers(t, r)' /\ t \in Tasks
          /\ \A u \in Tasks, q \in Roots : Covers(u, q) => Covers(u, q)'
      BY <1>4, <2>1, <2>3 DEF Covers
    <2>7. FreshIsCurrent' /\ ArchivedNotSearched' /\ NeverForgotten'
      BY <1>1, <2>1, <2>2, <2>4, <2>5 DEF TextInv, FreshIsCurrent, ArchivedNotSearched, NeverForgotten
    <2>8. StoresCurrent'
      BY <1>1, <1>2, <2>1, <2>2, <2>6 DEF TextInv, StoresCurrent
    <2>9. Plain'
      BY <1>2, <2>1, <2>2, <2>4 DEF TextInv, Plain
    <2>10. QED BY <2>7, <2>8, <2>9 DEF TextInv
  <1>5. CASE (t \in Tasks /\ Archive(t, r)) \/ Delete(r)
    <2>1. PICK life \in {"archived", "gone"} :
             /\ nodes' = [nodes EXCEPT ![r].life = life]
             /\ life = "archived" => r \in Flickering
      BY <1>5 DEF Archive, Delete
    <2>2. /\ nodes'[r].life = life /\ nodes'[r].text = nodes[r].text
          /\ nodes'[r].blank = nodes[r].blank
          /\ \A q \in Roots \ {r} : nodes'[q] = nodes[q]
      BY <1>1, <2>1 DEF NodeType
    <2>3. RowsDeleted(r)
      BY <1>5 DEF Archive, Delete
    <2>4. rows'[r].st = "none" /\ \A q \in Roots \ {r} : rows'[q] = rows[q]
      BY <2>3, RowsDeletedTypes DEF NoRows
    <2>5. \A u \in Tasks : tasks[u].root \in Roots => tasks'[u] = tasks[u]
      <3>1. CASE Delete(r)
        BY <3>1 DEF Delete
      <3>2. CASE t \in Tasks /\ Archive(t, r)
        BY <3>2, TaskStarts DEF Archive
      <3>3. QED BY <1>5, <3>1, <3>2
    <2>6. \A q \in Roots : Queueing(q) => Queueing(q)'
      BY <2>5 DEF Queueing
    <2>7. \A u \in Tasks, q \in Roots \ {r} : Covers(u, q) => Covers(u, q)'
      BY <2>4, <2>5 DEF Covers
    <2>8. FreshIsCurrent' /\ ArchivedNotSearched' /\ NeverForgotten'
      BY <1>1, <2>1, <2>2, <2>4, <2>6 DEF TextInv, FreshIsCurrent, ArchivedNotSearched, NeverForgotten
    <2>9. StoresCurrent'
      BY <1>1, <1>2, <2>1, <2>2, <2>3, <2>7, HandsAfterDelete DEF TextInv, StoresCurrent
    <2>10. Plain'
      BY <1>2, <2>1, <2>2, <2>3, HandsAfterDelete DEF TextInv, Plain
    <2>11. QED BY <2>8, <2>9, <2>10 DEF TextInv
  <1>6. QED BY <1>3, <1>4, <1>5

-----------------------------------------------------------------------------
(* The order of the marks *)

(* A mark that waits to be written is in the line, behind all marks of its root that
   the read under way is newer than; so once that read has heard of a newer mark
   none of those is left. *)
Ordered ==
    /\ \A t \in Tasks : tasks[t].pc = "write" => \E i \in 1 .. Len(line) : line[i] = t
    /\ \A i, j \in 1 .. Len(line) :
          i < j /\ tasks[line[i]].root = tasks[line[j]].root /\ tasks[line[j]].old => tasks[line[i]].old
    /\ \A t \in Tasks, d \in Dbs :
          tasks[t].old /\ tasks[t].root = proc[d].root => ~proc[d].newer

(* A mark that a read is newer than waits in the line. *)
LEMMA OldWaits ==
    ASSUME Types, NEW t \in Tasks, tasks[t].old
    PROVE  tasks[t].pc = "write" /\ tasks[t].root \in Roots
  <1>1. tasks[t] \in TaskType
    BY DEF Types, Fields
  <1>2. tasks[t].pc # "idle"
    BY DEF Types, Marking, IdleTask
  <1>3. QED BY <1>1, <1>2 DEF Types, Marking, TaskType

(* A step that leaves the waiting marks alone. *)
LEMMA OrderedKeep ==
    ASSUME Types, Types', Ordered, UNCHANGED line,
           \A t \in Tasks : (tasks[t].pc = "write" \/ tasks'[t].pc = "write") =>
              /\ tasks'[t].pc = tasks[t].pc
              /\ tasks'[t].old = tasks[t].old /\ tasks'[t].root = tasks[t].root,
           \A d \in Dbs : proc'[d].newer => proc[d].newer /\ proc'[d].root = proc[d].root
    PROVE  Ordered'
  <1>1. \A i \in 1 .. Len(line) : line[i] \in Tasks /\ tasks[line[i]].pc = "write"
    BY DEF Types, Fields, Marking
  <1>2. \A t \in Tasks : tasks'[t].old => tasks[t].old /\ tasks'[t].root = tasks[t].root
    <2>1. TAKE t \in Tasks
    <2>2. HAVE tasks'[t].old
    <2>3. tasks'[t] \in TaskType
      BY DEF Types, Fields
    <2>4. tasks'[t].pc # "idle" /\ tasks'[t].pc # "look"
      BY <2>2 DEF Types, Marking, IdleTask
    <2>5. tasks'[t].pc = "write"
      BY <2>3, <2>4 DEF TaskType
    <2>6. QED BY <2>2, <2>5
  <1>3. \A t \in Tasks : tasks'[t].pc = "write" => \E i \in 1 .. Len(line) : line[i] = t
    BY DEF Ordered
  <1>4. \A i, j \in 1 .. Len(line) :
          i < j /\ tasks'[line[i]].root = tasks'[line[j]].root /\ tasks'[line[j]].old
          => tasks'[line[i]].old
    BY <1>1 DEF Ordered
  <1>5. \A t \in Tasks, d \in Dbs :
          tasks'[t].old /\ tasks'[t].root = proc'[d].root => ~proc'[d].newer
    BY <1>2 DEF Ordered
  <1>6. QED BY <1>3, <1>4, <1>5 DEF Ordered

(* A mark that joins the line is newer than every read under way. *)
LEMMA OrderedJoin ==
    ASSUME Types, Ordered, NEW t \in Tasks, tasks[t].pc = "look",
           line' = Append(line, t), UNCHANGED proc,
           \A u \in Tasks \ {t} : tasks'[u] = tasks[u], ~tasks'[t].old
    PROVE  Ordered'
  <1>1. /\ Len(line') = Len(line) + 1 /\ line'[Len(line) + 1] = t /\ Len(line) \in Nat
        /\ \A i \in 1 .. Len(line) : line'[i] = line[i] /\ line[i] \in Tasks
    BY DEF Types, Fields
  <1>2. \A i \in 1 .. Len(line) : line[i] # t
    BY DEF Types, Marking
  <1>3. \A i \in 1 .. Len(line) : i \in 1 .. Len(line') /\ Len(line) + 1 \in 1 .. Len(line')
    BY <1>1
  <1>4. ASSUME NEW u \in Tasks, tasks'[u].pc = "write" PROVE \E i \in 1 .. Len(line') : line'[i] = u
    <2>1. CASE u = t
      BY <1>1, <2>1
    <2>2. CASE u # t
      BY <1>1, <1>3, <1>4, <2>2 DEF Ordered
    <2>3. QED BY <2>1, <2>2
  <1>5. ASSUME NEW i \in 1 .. Len(line'), NEW j \in 1 .. Len(line'), i < j,
               tasks'[line'[i]].root = tasks'[line'[j]].root, tasks'[line'[j]].old
        PROVE  tasks'[line'[i]].old
    <2>1. j \in 1 .. Len(line)
      BY <1>1, <1>5
    <2>2. i \in 1 .. Len(line)
      BY <1>1, <1>5, <2>1
    <2>3. QED BY <1>1, <1>2, <1>5, <2>1, <2>2 DEF Ordered
  <1>6. \A u \in Tasks, d \in Dbs : tasks'[u].old /\ tasks'[u].root = proc'[d].root => ~proc'[d].newer
    BY DEF Ordered
  <1>7. QED BY <1>4, <1>5, <1>6 DEF Ordered

(* The marks behind the head of the line stay in their order, and if the head was
   newer than a read, so are they. *)
LEMMA OrderedLeave ==
    ASSUME Types, Ordered, NEW t \in Tasks, line # <<>>, t = Head(line), line' = Tail(line),
           tasks' = [tasks EXCEPT ![t] = IdleTask],
           \A d \in Dbs : /\ proc'[d].root = proc[d].root
                          /\ proc'[d].newer => \/ proc[d].newer
                                               \/ proc[d].root = tasks[t].root /\ ~tasks[t].old
    PROVE  Ordered'
  <1>1. /\ Len(line) \in Nat \ {0} /\ Len(line') = Len(line) - 1 /\ t = line[1]
        /\ \A i \in 1 .. Len(line') : line'[i] = line[i + 1] /\ i + 1 \in 1 .. Len(line)
        /\ \A i \in 1 .. Len(line) : line[i] \in Tasks
        /\ 1 \in 1 .. Len(line)
    BY DEF Types, Fields
  <1>2. \A u \in Tasks : tasks'[u] = IF u = t THEN IdleTask ELSE tasks[u]
    BY DEF Types, Fields
  <1>3. IdleTask.pc = "idle" /\ ~IdleTask.old
    BY DEF IdleTask
  <1>4. \A i \in 1 .. Len(line') : line'[i] # t /\ line'[i] \in Tasks
    <2>1. \A i \in 1 .. Len(line') : i + 1 # 1
      BY <1>1
    <2>2. QED BY <1>1, <2>1 DEF Types, Marking
  <1>5. ASSUME NEW u \in Tasks, tasks'[u].pc = "write" PROVE \E i \in 1 .. Len(line') : line'[i] = u
    <2>1. u # t /\ tasks[u].pc = "write"
      BY <1>2, <1>3, <1>5
    <2>2. PICK i \in 1 .. Len(line) : line[i] = u
      BY <2>1 DEF Ordered
    <2>3. i - 1 \in 1 .. Len(line') /\ (i - 1) + 1 = i
      BY <1>1, <2>1, <2>2
    <2>4. line'[i - 1] = u
      BY <1>1, <2>2, <2>3
    <2>5. QED BY <2>3, <2>4
  <1>6. ASSUME NEW i \in 1 .. Len(line'), NEW j \in 1 .. Len(line'), i < j,
               tasks'[line'[i]].root = tasks'[line'[j]].root, tasks'[line'[j]].old
        PROVE  tasks'[line'[i]].old
    <2>1. i + 1 < j + 1
      BY <1>6
    <2>2. QED BY <1>1, <1>2, <1>4, <1>6, <2>1 DEF Ordered
  <1>7. ASSUME NEW u \in Tasks, NEW d \in Dbs, tasks'[u].old, tasks'[u].root = proc'[d].root
        PROVE  ~proc'[d].newer
    <2>1. u # t /\ tasks[u].old /\ tasks[u].root = proc[d].root
      BY <1>2, <1>3, <1>7
    <2>2. ~proc[d].newer
      BY <2>1 DEF Ordered
    <2>3. CASE proc[d].root = tasks[t].root
      <3>1. tasks[u].pc = "write"
        BY <2>1, OldWaits
      <3>2. PICK j \in 1 .. Len(line) : line[j] = u
        BY <3>1 DEF Ordered
      <3>3. 1 < j
        BY <1>1, <2>1, <3>2
      <3>4. tasks[t].old
        BY <1>1, <2>1, <2>3, <3>2, <3>3 DEF Ordered
      <3>5. QED BY <2>2, <3>4
    <2>4. QED BY <2>2, <2>3
  <1>8. QED BY <1>5, <1>6, <1>7 DEF Ordered

(* A processor's own steps never tell it of a mark. *)
LEMMA NoNews ==
    ASSUME Types, NEW d \in Dbs,
           \/ SweepList(d) \/ SweepPlant(d) \/ Wake(d) \/ Acquire(d) \/ Check(d) \/ Notified(d)
           \/ Grant(d) \/ Fetch(d) \/ FetchFails(d) \/ EndBatch(d) \/ Ask(d) \/ AskFails(d)
           \/ (\E r \in Roots : ReadAt(d, r)) \/ ReadRoot(d) \/ Clear(d) \/ Store(d) \/ Fail(d)
    PROVE  /\ proc'[d].newer => proc[d].newer /\ proc'[d].root = proc[d].root
           /\ \A e \in Dbs \ {d} : proc'[e] = proc[e]
  <1>1. proc \in [Dbs -> ProcType] /\ proc[d] \in ProcType
    BY DEF Types, Fields
  <1>2. ASSUME NEW pc, proc' = Goes(d, pc)
        PROVE  /\ proc'[d].newer = proc[d].newer /\ proc'[d].root = proc[d].root
               /\ \A e \in Dbs \ {d} : proc'[e] = proc[e]
    BY <1>1, <1>2 DEF Goes, ProcType
  <1>3. CASE Wake(d) \/ Check(d) \/ Notified(d) \/ Grant(d) \/ Ask(d) \/ AskFails(d)
    <2>1. \E pc : proc' = Goes(d, pc)
      BY <1>3 DEF Wake, Check, Notified, Grant, Ask, AskFails
    <2>2. QED BY <1>2, <2>1
  <1>4. CASE Acquire(d)
    <2>1. CASE active # d
      <3>1. proc' = Goes(d, "check")
        BY <1>4, <2>1 DEF Acquire
      <3>2. QED BY <3>1, <1>2
    <2>2. CASE active = d
      BY <1>1, <1>4, <2>2 DEF Acquire, ProcType
    <2>3. QED BY <2>1, <2>2
  <1>5. CASE FetchFails(d) \/ EndBatch(d)
    <2>1. PICK pc : ReleaseTo(d, pc)
      BY <1>5 DEF FetchFails, EndBatch
    <2>2. QED BY <1>1, <2>1 DEF ReleaseTo, ProcType
  <1>6. CASE SweepList(d) \/ SweepPlant(d) \/ Fetch(d)
    <2>1. PICK pc, todo : proc' = [proc EXCEPT ![d].pc = pc, ![d].todo = todo]
      BY <1>6 DEF SweepList, SweepPlant, Fetch
    <2>2. QED BY <1>1, <2>1 DEF ProcType
  <1>7. CASE \E r \in Roots : ReadAt(d, r)
    <2>1. PICK r \in Roots : ReadAt(d, r)
      BY <1>7
    <2>2. QED BY <1>1, <2>1 DEF ReadAt, ProcType
  <1>8. CASE ReadRoot(d)
    <2>1. CASE \E pc : proc' = Goes(d, pc)
      BY <1>2, <2>1
    <2>2. CASE \E pc, text : proc' = [proc EXCEPT ![d].pc = pc, ![d].text = text]
      BY <1>1, <2>2 DEF ProcType
    <2>3. QED BY <1>8, <2>1, <2>2 DEF ReadRoot
  <1>9. CASE Clear(d) \/ Store(d) \/ Fail(d)
    <2>1. \E ok : proc' = RootDone(d, ok)
      BY <1>9 DEF Clear, Store, Fail
    <2>2. ~proc'[d].newer /\ \A e \in Dbs \ {d} : proc'[e] = proc[e]
      BY <1>1, <2>1 DEF RootDone, ProcType
    <2>3. QED BY <2>2
  <1>10. QED BY <1>3, <1>4, <1>5, <1>6, <1>7, <1>8, <1>9

(* The marks of a user's write are not in line yet, and the rows it deletes silence
   the news of older ones. *)
LEMMA UserOrdered ==
    ASSUME Types, Types', Ordered, NEW t, NEW r \in Roots,
           \/ t \in Tasks /\ (Edit(t, r) \/ Archive(t, r) \/ Unarchive(t, r))
           \/ Delete(r)
    PROVE  Ordered'
  <1>1. tasks \in [Tasks -> TaskType] /\ proc \in [Dbs -> ProcType] /\ UNCHANGED line
    BY DEF Types, Fields, Edit, Archive, Unarchive, Delete
  <1>2. \A u \in Tasks : (tasks[u].pc = "write" \/ tasks'[u].pc = "write") => tasks'[u] = tasks[u]
    <2>1. CASE Delete(r)
      BY <2>1 DEF Delete
    <2>2. CASE t \in Tasks /\ (Edit(t, r) \/ Archive(t, r) \/ Unarchive(t, r))
      <3>1. tasks[t].pc = "idle" /\ tasks' = [tasks EXCEPT ![t] = LookTask(r)]
        BY <2>2 DEF Edit, Archive, Unarchive
      <3>2. tasks'[t].pc = "look" /\ \A u \in Tasks \ {t} : tasks'[u] = tasks[u]
        BY <1>1, <2>2, <3>1 DEF LookTask, IdleTask
      <3>3. QED BY <3>1, <3>2
    <2>3. QED BY <2>1, <2>2
  <1>3. \A d \in Dbs : proc'[d].newer => proc[d].newer /\ proc'[d].root = proc[d].root
    <2>1. CASE RowsDeleted(r)
      BY <1>1, <2>1 DEF RowsDeleted, ProcType
    <2>2. CASE UNCHANGED proc
      BY <2>2
    <2>3. QED BY <2>1, <2>2 DEF Edit, Archive, Unarchive, Delete
  <1>4. QED BY <1>1, <1>2, <1>3, OrderedKeep

(* A mark that is looked up joins the end of the line, and the one at its head is
   written. *)
LEMMA QueueOrdered ==
    ASSUME Types, Types', Ordered, NEW t \in Tasks,
           QueueLook(t) \/ RowsUnread(t) \/ QueueFails(t) \/ QueueWrite(t)
    PROVE  Ordered'
  <1>1. tasks \in [Tasks -> TaskType] /\ tasks[t] \in TaskType /\ proc \in [Dbs -> ProcType]
    BY DEF Types, Fields
  <1>2. CASE UNCHANGED <<line, proc>> /\ tasks[t].pc = "look" /\ tasks' = [tasks EXCEPT ![t] = IdleTask]
    <2>1. tasks'[t].pc = "idle" /\ \A u \in Tasks \ {t} : tasks'[u] = tasks[u]
      BY <1>1, <1>2 DEF IdleTask
    <2>2. QED BY <1>2, <2>1, OrderedKeep
  <1>3. CASE UNCHANGED proc /\ tasks[t].pc = "look" /\ line' = Append(line, t)
             /\ \E b : tasks' = [tasks EXCEPT ![t] = [tasks[t] EXCEPT !.pc = "write", !.has = b]]
    <2>1. ~tasks'[t].old /\ \A u \in Tasks \ {t} : tasks'[u] = tasks[u]
      BY <1>1, <1>3 DEF Types, Marking, TaskType
    <2>2. QED BY <1>3, <2>1, OrderedJoin
  <1>4. CASE QueueLook(t)
    <2>1. CASE nodes[tasks[t].root].life = "live"
      BY <1>3, <1>4, <2>1 DEF QueueLook
    <2>2. CASE nodes[tasks[t].root].life # "live"
      BY <1>2, <1>4, <2>2 DEF QueueLook
    <2>3. QED BY <2>1, <2>2
  <1>5. CASE RowsUnread(t)
    <2>1. tasks' = [tasks EXCEPT ![t] = [tasks[t] EXCEPT !.pc = "write", !.has = tasks[t].has]]
      BY <1>1, <1>5 DEF RowsUnread, TaskType
    <2>2. QED BY <1>3, <1>5, <2>1 DEF RowsUnread
  <1>6. CASE QueueFails(t)
    <2>1. CASE tasks[t].pc = "look" /\ line' = line
      BY <1>2, <1>6, <2>1 DEF QueueFails
    <2>2. CASE line # <<>> /\ t = Head(line) /\ line' = Tail(line)
      <3>1. tasks' = [tasks EXCEPT ![t] = IdleTask] /\ UNCHANGED proc
        BY <1>6 DEF QueueFails
      <3>2. QED BY <2>2, <3>1, OrderedLeave
    <2>3. QED BY <1>6, <2>1, <2>2 DEF QueueFails
  <1>7. CASE QueueWrite(t)
    <2>1. line # <<>> /\ t = Head(line) /\ line' = Tail(line) /\ tasks' = [tasks EXCEPT ![t] = IdleTask]
      BY <1>7 DEF QueueWrite
    <2>2. \A d \in Dbs : /\ proc'[d].root = proc[d].root
                         /\ proc'[d].newer => \/ proc[d].newer
                                              \/ proc[d].root = tasks[t].root /\ ~tasks[t].old
      <3>1. CASE Marks(t)
        <4>1. proc' = [d \in Dbs |-> IF proc[d].root = tasks[t].root
                                     THEN [proc[d] EXCEPT !.newer = ~tasks[t].old] ELSE proc[d]]
          BY <1>7, <3>1 DEF QueueWrite
        <4>2. QED BY <1>1, <4>1 DEF ProcType
      <3>2. CASE ~Marks(t)
        BY <1>7, <3>2 DEF QueueWrite
      <3>3. QED BY <3>1, <3>2
    <2>3. QED BY <2>1, <2>2, OrderedLeave
  <1>8. QED BY <1>4, <1>5, <1>6, <1>7

(* A read that starts is newer than all marks of its root in the line. *)
LEMMA ReadAtOrdered ==
    ASSUME Types, Ordered, NEW d \in Dbs, NEW r \in Roots, r \in RootsOf(d), ReadAt(d, r)
    PROVE  Ordered'
  <1>1. tasks \in [Tasks -> TaskType] /\ proc \in [Dbs -> ProcType] /\ proc[d] \in ProcType
    BY DEF Types, Fields
  <1>2. UNCHANGED line /\ \A i \in 1 .. Len(line) : line[i] \in Tasks /\ tasks[line[i]].pc = "write"
    BY DEF ReadAt, Types, Fields, Marking
  <1>3. \A u \in Tasks : /\ tasks'[u].pc = tasks[u].pc /\ tasks'[u].root = tasks[u].root
                         /\ tasks[u].pc = "write" /\ tasks[u].root = r => tasks'[u].old
                         /\ tasks[u].root # r => tasks'[u] = tasks[u]
                         /\ tasks[u].pc # "write" => tasks'[u] = tasks[u]
    BY <1>1 DEF ReadAt, TaskType
  <1>4. ~proc'[d].newer /\ \A e \in Dbs \ {d} : proc'[e] = proc[e] /\ proc[e].root # r
    <2>1. ~proc'[d].newer /\ \A e \in Dbs \ {d} : proc'[e] = proc[e]
      BY <1>1 DEF ReadAt, ProcType
    <2>2. \A e \in Dbs : proc[e].root \in RootsOf(e) \/ proc[e].root = None
      BY DEF Types, InHand, Fits
    <2>3. QED BY <2>1, <2>2, Homes, DbsAssumption
  <1>5. \A u \in Tasks : tasks'[u].pc = "write" => \E i \in 1 .. Len(line') : line'[i] = u
    BY <1>2, <1>3 DEF Ordered
  <1>6. ASSUME NEW i \in 1 .. Len(line), NEW j \in 1 .. Len(line), i < j,
               tasks'[line[i]].root = tasks'[line[j]].root, tasks'[line[j]].old
        PROVE  tasks'[line[i]].old
    BY <1>2, <1>3, <1>6 DEF Ordered
  <1>7. ASSUME NEW u \in Tasks, NEW e \in Dbs, tasks'[u].old, tasks'[u].root = proc'[e].root
        PROVE  ~proc'[e].newer
    <2>1. CASE e = d
      BY <1>4, <2>1
    <2>2. CASE e # d
      <3>1. tasks[u].root = proc[e].root /\ tasks[u].root # r
        BY <1>3, <1>4, <1>7, <2>2
      <3>2. QED BY <1>3, <1>4, <1>7, <2>2, <3>1 DEF Ordered
    <2>3. QED BY <2>1, <2>2
  <1>8. QED BY <1>2, <1>5, <1>6, <1>7 DEF Ordered

(* No step breaks the order of the marks. *)
LEMMA OrderedStep == Types /\ Types' /\ Ordered /\ [Next]_vars => Ordered'
  <1>. SUFFICES ASSUME Types, Types', Ordered, [Next]_vars PROVE Ordered'
    OBVIOUS
  <1>1. CASE Next
    <2>1. ASSUME NEW t, NEW r \in Roots,
                 \/ t \in Tasks /\ (Edit(t, r) \/ Archive(t, r) \/ Unarchive(t, r))
                 \/ Delete(r)
          PROVE  Ordered'
      BY <2>1, UserOrdered
    <2>2. ASSUME NEW t \in Tasks, QueueLook(t) \/ RowsUnread(t) \/ QueueFails(t) \/ QueueWrite(t)
          PROVE  Ordered'
      BY <2>2, QueueOrdered
    <2>3. ASSUME NEW d \in Dbs,
                 \/ SweepList(d) \/ SweepPlant(d) \/ Wake(d) \/ Acquire(d) \/ Check(d) \/ Notified(d)
                 \/ Grant(d) \/ Fetch(d) \/ FetchFails(d) \/ EndBatch(d) \/ Ask(d) \/ AskFails(d)
                 \/ ReadRoot(d) \/ Clear(d) \/ Store(d) \/ Fail(d)
          PROVE  Ordered'
      <3>1. UNCHANGED <<tasks, line>>
        BY <2>3 DEF SweepList, SweepPlant, Wake, Acquire, Check, Notified, Grant, Fetch, FetchFails,
                    EndBatch, Ask, AskFails, ReadRoot, Clear, Store, Fail, KeepData
      <3>2. \A e \in Dbs : proc'[e].newer => proc[e].newer /\ proc'[e].root = proc[e].root
        BY <2>3, NoNews
      <3>3. QED BY <3>1, <3>2, OrderedKeep
    <2>4. ASSUME NEW d \in Dbs, NEW r \in Roots, r \in RootsOf(d), ReadAt(d, r) PROVE Ordered'
      BY <2>4, ReadAtOrdered
    <2>5. CASE \/ \E d \in Busy : Nudge(d)
               \/ \E s \in Streams : OpenStream(s) \/ CloseStream(s)
               \/ \E d \in Dbs : TimerFires(d)
      <3>1. UNCHANGED <<tasks, line, proc>>
        BY <2>5 DEF Nudge, OpenStream, CloseStream, TimerFires, KeepData
      <3>2. QED BY <3>1, OrderedKeep
    <2>6. CASE Tick
      <3>1. UNCHANGED <<line, proc>>
        BY <2>6 DEF Tick
      <3>2. \A t \in Tasks : /\ tasks'[t].pc = tasks[t].pc
                             /\ tasks'[t].old = tasks[t].old /\ tasks'[t].root = tasks[t].root
        BY <2>6 DEF Tick, Types, Fields, TaskType
      <3>3. QED BY <3>1, <3>2, OrderedKeep
    <2>7. CASE Crash
      BY <2>7 DEF Crash, Ordered, IdleTask, Wired
    <2>8. QED BY <1>1, <2>1, <2>2, <2>3, <2>4, <2>5, <2>6, <2>7, Steps
  <1>2. CASE UNCHANGED vars
    BY <1>2 DEF vars, Ordered
  <1>3. QED BY <1>1, <1>2

-----------------------------------------------------------------------------
(* Steps that change rows, marks or what is read *)

(* A root is in one hand at most. *)
LEMMA Hands ==
    ASSUME Types, NEW d \in Dbs
    PROVE  /\ proc[d].pc \in Holding => proc[d].root \in Roots /\ proc[d].root \in RootsOf(d)
           /\ \A r \in RootsOf(d), e \in Dbs \ {d} : proc[e].root # r
  <1>1. \A e \in Dbs : proc[e].root \in RootsOf(e) \/ proc[e].root = None
    BY DEF Types, InHand, Fits
  <1>2. QED BY <1>1, Homes, DbsAssumption DEF Types, InHand, Fits

(* queue_root_for_embedding_async: a mark is written, dropped because the root is no
   longer live or has no rows to mark, or known to be lost. *)
LEMMA QueueText ==
    ASSUME Types, Types', Ordered, TextInv, NEW t \in Tasks,
           QueueLook(t) \/ RowsUnread(t) \/ QueueFails(t) \/ QueueWrite(t)
    PROVE  TextInv'
  <1>1. tasks \in [Tasks -> TaskType] /\ tasks[t] \in TaskType /\ proc \in [Dbs -> ProcType]
        /\ rows \in [Roots -> RowType]
    BY DEF Types, Fields
  <1>2. \A d \in Dbs : proc[d].pc \in {"clear", "store"} => proc[d].root \in Roots
    BY Hands DEF Holding
  <1>3. UNCHANGED nodes /\ \A u \in Tasks \ {t} : tasks'[u] = tasks[u]
    BY <1>1 DEF QueueLook, RowsUnread, QueueFails, QueueWrite
  <1>4. \A q \in Roots : Queueing(q) /\ q # tasks[t].root => Queueing(q)'
    BY <1>3 DEF Queueing
  <1>5. CASE (QueueLook(t) /\ nodes[tasks[t].root].life = "live") \/ RowsUnread(t)
    <2>1. UNCHANGED <<rows, proc, lost>>
      BY <1>5 DEF QueueLook, RowsUnread
    <2>2. \E b \in {FALSE, rows[tasks[t].root].st # "none"} :
             tasks' = [tasks EXCEPT ![t] = [tasks[t] EXCEPT !.pc = "write", !.has = b]]
      <3>1. CASE QueueLook(t) /\ nodes[tasks[t].root].life = "live"
        BY <3>1 DEF QueueLook
      <3>2. CASE RowsUnread(t)
        <4>1. ~tasks[t].has
          BY <3>2 DEF RowsUnread, Types, Marking
        <4>2. tasks' = [tasks EXCEPT ![t] = [tasks[t] EXCEPT !.pc = "write", !.has = FALSE]]
          BY <1>1, <3>2, <4>1 DEF RowsUnread, TaskType
        <4>3. QED BY <4>2
      <3>3. QED BY <1>5, <3>1, <3>2
    <2>3. /\ tasks'[t].root = tasks[t].root /\ tasks'[t].old = tasks[t].old
          /\ tasks'[t].has => rows[tasks[t].root].st # "none"
      BY <1>1, <2>2 DEF TaskType
    <2>4. \A u \in Tasks, q \in Roots : Covers(u, q) => Covers(u, q)'
      BY <1>3, <2>1, <2>3 DEF Covers
    <2>5. \A q \in Roots : Queueing(q) => Queueing(q)'
      BY <1>4, <2>3 DEF Queueing
    <2>6. FreshIsCurrent' /\ ArchivedNotSearched' /\ NeverForgotten'
      BY <1>3, <2>1, <2>5 DEF TextInv, FreshIsCurrent, ArchivedNotSearched, NeverForgotten
    <2>7. StoresCurrent'
      BY <1>2, <1>3, <2>1, <2>4 DEF TextInv, StoresCurrent
    <2>8. Plain'
      BY <1>3, <2>1 DEF TextInv, Plain
    <2>9. QED BY <2>6, <2>7, <2>8 DEF TextInv
  <1>6. ASSUME UNCHANGED <<rows, proc>>, lost \subseteq lost',
               \/ nodes[tasks[t].root].life # "live"
               \/ rows[tasks[t].root].st = "none" /\ ~Covers(t, tasks[t].root)
               \/ tasks[t].root \in lost'
        PROVE  TextInv'
    <2>1. FreshIsCurrent'
      <3>1. ASSUME NEW q \in Roots, rows[q].st = "fresh"
            PROVE  rows[q].text = nodes[q].text \/ Queueing(q)' \/ q \in lost'
        BY <1>4, <1>6, <3>1 DEF TextInv, FreshIsCurrent, ArchivedNotSearched
      <3>2. QED BY <1>3, <1>6, <3>1 DEF FreshIsCurrent
    <2>2. ArchivedNotSearched' /\ NeverForgotten' /\ Plain'
      BY <1>3, <1>6 DEF TextInv, ArchivedNotSearched, NeverForgotten, Plain
    <2>3. StoresCurrent'
      <3>1. ASSUME NEW d \in Dbs, proc[d].pc = "store", ~proc[d].newer,
                   nodes[proc[d].root].life = "live", proc[d].text # nodes[proc[d].root].text
            PROVE  proc[d].root \in lost' \/ \E u \in Tasks : Covers(u, proc[d].root)'
        <4>1. CASE proc[d].root \in lost
          BY <1>6, <4>1
        <4>2. CASE \E u \in Tasks : Covers(u, proc[d].root)
          <5>1. PICK u \in Tasks : Covers(u, proc[d].root)
            BY <4>2
          <5>2. CASE u = t
            BY <1>6, <3>1, <5>1, <5>2 DEF Covers
          <5>3. CASE u # t
            BY <1>3, <1>6, <5>1, <5>3 DEF Covers
          <5>4. QED BY <5>2, <5>3
        <4>3. QED BY <3>1, <4>1, <4>2 DEF TextInv, StoresCurrent
      <3>2. QED BY <1>3, <1>6, <3>1 DEF StoresCurrent
    <2>4. QED BY <2>1, <2>2, <2>3 DEF TextInv
  <1>7. CASE (QueueLook(t) /\ nodes[tasks[t].root].life # "live") \/ QueueFails(t)
    BY <1>6, <1>7 DEF QueueLook, QueueFails
  <1>8. CASE QueueWrite(t)
    <2>1. tasks[t].pc = "write" /\ tasks[t].root \in Roots
      BY <1>8, LineLeave DEF QueueWrite
    <2>2. CASE ~Marks(t)
      <3>1. UNCHANGED <<rows, proc>>
            /\ lost' = IF rows[tasks[t].root].st = "none" THEN lost ELSE lost \cup {tasks[t].root}
        BY <1>8, <2>2 DEF QueueWrite
      <3>2. CASE rows[tasks[t].root].st # "none"
        BY <1>6, <3>1, <3>2
      <3>3. CASE rows[tasks[t].root].st = "none" /\ tasks[t].has
        BY <1>6, <2>1, <3>1, <3>3 DEF Covers
      <3>4. CASE rows[tasks[t].root].st = "none" /\ ~tasks[t].has
        BY <1>6, <2>2, <3>1, <3>4 DEF Marks
      <3>5. QED BY <3>2, <3>3, <3>4
    <2>3. CASE Marks(t)
      <3>. DEFINE r == tasks[t].root
      <3>1. /\ rows' = [rows EXCEPT ![r] = StaleRows(tasks[t].age)]
            /\ proc' = [d \in Dbs |-> IF proc[d].root = r
                                      THEN [proc[d] EXCEPT !.newer = ~tasks[t].old] ELSE proc[d]]
            /\ lost' = IF Overtaken(t, r) THEN lost ELSE lost \ {r}
        BY <1>8, <2>3 DEF QueueWrite, RowsMarked
      <3>2. rows'[r].st = "stale" /\ \A q \in Roots \ {r} : rows'[q] = rows[q]
        BY <1>1, <2>1, <3>1 DEF StaleRows
      <3>3. \A d \in Dbs : /\ proc'[d].pc = proc[d].pc /\ proc'[d].root = proc[d].root
                           /\ proc'[d].text = proc[d].text
                           /\ proc'[d].newer = IF proc[d].root = r THEN ~tasks[t].old ELSE proc[d].newer
        BY <1>1, <3>1 DEF ProcType
      <3>4. FreshIsCurrent' /\ ArchivedNotSearched' /\ NeverForgotten'
        BY <1>3, <1>4, <3>1, <3>2 DEF TextInv, FreshIsCurrent, ArchivedNotSearched, NeverForgotten
      <3>5. ASSUME NEW d \in Dbs, proc'[d].pc = "store", ~proc'[d].newer,
                   nodes[proc[d].root].life = "live", proc[d].text # nodes[proc[d].root].text
            PROVE  proc[d].root \in lost' \/ \E u \in Tasks : Covers(u, proc[d].root)'
        <4>1. ~proc[d].newer /\ (proc[d].root = r => tasks[t].old)
          BY <3>3, <3>5 DEF Ordered
        <4>2. proc[d].root \in lost \/ \E u \in Tasks : Covers(u, proc[d].root)
          BY <3>3, <3>5, <4>1 DEF TextInv, StoresCurrent
        <4>3. CASE proc[d].root \in lost
          BY <3>1, <4>1, <4>3 DEF Overtaken
        <4>4. CASE \E u \in Tasks : Covers(u, proc[d].root)
          <5>1. PICK u \in Tasks : Covers(u, proc[d].root)
            BY <4>4
          <5>2. u # t /\ proc[d].root \in Roots
            BY <1>2, <3>3, <3>5, <4>1, <5>1 DEF Covers
          <5>3. tasks'[u] = tasks[u]
            BY <1>3, <5>2
          <5>4. rows'[proc[d].root].st = "none" => rows[proc[d].root].st = "none"
            BY <3>2, <5>2
          <5>5. QED BY <3>3, <5>1, <5>3, <5>4 DEF Covers
        <4>5. QED BY <4>2, <4>3, <4>4
      <3>6. StoresCurrent'
        BY <1>3, <3>3, <3>5 DEF StoresCurrent
      <3>7. Plain'
        BY <1>3, <3>3 DEF TextInv, Plain
      <3>8. QED BY <3>4, <3>6, <3>7 DEF TextInv
    <2>4. QED BY <2>2, <2>3
  <1>9. QED BY <1>5, <1>7, <1>8

(* The startup sweep makes stale rows where there are none. *)
LEMMA PlantText ==
    ASSUME Types, TextInv, NEW d \in Dbs, SweepPlant(d)
    PROVE  TextInv'
  <1>1. UNCHANGED <<nodes, tasks, lost>> /\ proc \in [Dbs -> ProcType] /\ proc[d] \in ProcType
    BY DEF SweepPlant, Types, Fields
  <1>2. \A r \in Roots : rows'[r] = rows[r] \/ (rows[r].st = "none" /\ rows'[r].st = "stale")
    BY DEF SweepPlant, StaleRows
  <1>3. proc'[d].pc = "idle" /\ \A e \in Dbs \ {d} : proc'[e] = proc[e]
    BY <1>1 DEF SweepPlant, ProcType
  <1>4. \A e \in Dbs : proc'[e].pc \in {"clear", "store"} => proc'[e] = proc[e] /\ proc[e].root \in Roots
    BY <1>3, Hands DEF Holding
  <1>5. FreshIsCurrent' /\ ArchivedNotSearched' /\ NeverForgotten'
    BY <1>1, <1>2 DEF TextInv, FreshIsCurrent, ArchivedNotSearched, NeverForgotten, Queueing
  <1>6. \A u \in Tasks, q \in Roots : Covers(u, q) => Covers(u, q)'
    BY <1>1, <1>2 DEF Covers
  <1>7. StoresCurrent'
    BY <1>1, <1>4, <1>6 DEF TextInv, StoresCurrent
  <1>8. Plain'
    BY <1>1, <1>4 DEF TextInv, Plain
  <1>9. QED BY <1>5, <1>7, <1>8 DEF TextInv

(* A read that starts overtakes only marks of its own root, whose text it has not read
   yet. *)
LEMMA ReadAtText ==
    ASSUME Types, TextInv, NEW d \in Dbs, NEW r \in Roots, r \in RootsOf(d), ReadAt(d, r)
    PROVE  TextInv'
  <1>1. /\ UNCHANGED <<nodes, rows, lost>> /\ proc \in [Dbs -> ProcType] /\ proc[d] \in ProcType
        /\ tasks \in [Tasks -> TaskType]
    BY DEF ReadAt, Types, Fields
  <1>2. \A u \in Tasks : /\ tasks'[u].root = tasks[u].root
                         /\ tasks[u].root # r => tasks'[u] = tasks[u]
    BY <1>1 DEF ReadAt, TaskType
  <1>3. proc'[d].pc = "read" /\ \A e \in Dbs \ {d} : proc'[e] = proc[e]
    BY <1>1 DEF ReadAt, ProcType
  <1>4. \A e \in Dbs : proc'[e].pc \in {"clear", "store"} =>
           proc'[e] = proc[e] /\ proc[e].root \in Roots \ {r}
    BY <1>3, Hands DEF Holding
  <1>5. FreshIsCurrent' /\ ArchivedNotSearched' /\ NeverForgotten'
    BY <1>1, <1>2 DEF TextInv, FreshIsCurrent, ArchivedNotSearched, NeverForgotten, Queueing
  <1>6. \A u \in Tasks, q \in Roots \ {r} : Covers(u, q) => Covers(u, q)'
    BY <1>1, <1>2 DEF Covers
  <1>7. StoresCurrent'
    BY <1>1, <1>4, <1>6 DEF TextInv, StoresCurrent
  <1>8. Plain'
    BY <1>1, <1>4 DEF TextInv, Plain
  <1>9. QED BY <1>5, <1>7, <1>8 DEF TextInv

(* What is read is the current text, and only a root that is gone, archived or blank
   has none. *)
LEMMA ReadRootText ==
    ASSUME Types, TextInv, NEW d \in Dbs, ReadRoot(d)
    PROVE  TextInv'
  <1>1. /\ UNCHANGED <<nodes, rows, tasks, lost>> /\ proc \in [Dbs -> ProcType]
        /\ proc[d] \in ProcType /\ nodes \in [Roots -> NodeType]
        /\ proc[d].root \in Roots /\ nodes[proc[d].root] \in NodeType
    <2>1. proc[d].pc = "read"
      BY DEF ReadRoot, At
    <2>2. proc[d].root \in Roots
      BY <2>1, Hands DEF Holding
    <2>3. QED BY <2>2 DEF ReadRoot, KeepData, Types, Fields
  <1>2. /\ proc'[d].root = proc[d].root /\ \A e \in Dbs \ {d} : proc'[e] = proc[e]
        /\ proc'[d].pc = "store" => proc'[d].text = nodes[proc[d].root].text
        /\ proc'[d].pc = "clear" => \/ nodes[proc[d].root].life = "archived"
                                    \/ nodes[proc[d].root].blank
    <2>1. ASSUME NEW pc \in {"clear", "fail"}, proc' = Goes(d, pc)
          PROVE  /\ proc'[d].root = proc[d].root /\ \A e \in Dbs \ {d} : proc'[e] = proc[e]
                 /\ proc'[d].pc = pc
      BY <1>1, <2>1 DEF Goes, ProcType
    <2>2. CASE nodes[proc[d].root].life = "gone"
      BY <2>1, <2>2 DEF ReadRoot
    <2>3. CASE /\ nodes[proc[d].root].life # "gone"
               /\ nodes[proc[d].root].life = "archived" \/ nodes[proc[d].root].blank
      <3>1. proc' = Goes(d, "clear")
        BY <2>3 DEF ReadRoot
      <3>2. QED BY <2>1, <2>3, <3>1
    <2>4. CASE nodes[proc[d].root].life = "live" /\ ~nodes[proc[d].root].blank
      <3>1. PICK pc \in {"store", "fail"} :
               proc' = [proc EXCEPT ![d].pc = pc, ![d].text = nodes[proc[d].root].text]
        BY <2>4 DEF ReadRoot
      <3>2. QED BY <1>1, <3>1 DEF ProcType
    <2>5. QED BY <1>1, <2>2, <2>3, <2>4 DEF NodeType
  <1>3. \A e \in Dbs : proc'[e].pc \in {"clear", "store"} => proc[e].root \in Roots
    BY <1>1, <1>2, Hands DEF Holding
  <1>4. FreshIsCurrent' /\ ArchivedNotSearched' /\ NeverForgotten'
    BY <1>1 DEF TextInv, FreshIsCurrent, ArchivedNotSearched, NeverForgotten, Queueing
  <1>5. StoresCurrent'
    <2>1. \A u \in Tasks, q \in Roots : Covers(u, q) => Covers(u, q)'
      BY <1>1 DEF Covers
    <2>2. QED BY <1>1, <1>2, <1>3, <2>1 DEF TextInv, StoresCurrent
  <1>6. Plain'
    BY <1>1, <1>2, <1>3 DEF TextInv, Plain
  <1>7. QED BY <1>4, <1>5, <1>6 DEF TextInv

(* The root in hand is cleared, stored or failed; a text that is stored is current, or
   the mark for the edit since is on its way. *)
LEMMA EndText ==
    ASSUME Types, TextInv, NEW d \in Dbs, Clear(d) \/ Store(d) \/ Fail(d)
    PROVE  TextInv'
  <1>. DEFINE r == proc[d].root
  <1>1. /\ UNCHANGED <<nodes, tasks>> /\ lost' \subseteq lost
        /\ proc[d].pc \in Holding /\ r \in Roots /\ r \in RootsOf(d)
        /\ rows \in [Roots -> RowType] /\ rows[r] \in RowType
        /\ proc \in [Dbs -> ProcType] /\ proc[d] \in ProcType
    <2>1. proc[d].pc \in Holding
      BY DEF Clear, Store, Fail, At, Holding
    <2>2. r \in Roots /\ r \in RootsOf(d)
      BY <2>1, Hands
    <2>3. QED BY <2>1, <2>2 DEF Clear, Store, Fail, Types, Fields
  <1>2. proc'[d].pc = "batch" /\ \A e \in Dbs \ {d} : proc'[e] = proc[e]
    <2>1. PICK ok : proc' = RootDone(d, ok)
      BY DEF Clear, Store, Fail
    <2>2. QED BY <1>1, <2>1 DEF RootDone, ProcType
  <1>3. \A q \in Roots \ {r} : rows'[q] = rows[q] /\ (q \in lost => q \in lost')
    <2>1. CASE Clear(d)
      BY <1>1, <2>1 DEF Clear
    <2>2. CASE Store(d)
      BY <1>1, <2>2 DEF Store
    <2>3. CASE Fail(d)
      <3>1. CASE rows[r].st = "none"
        BY <2>3, <3>1 DEF Fail
      <3>2. CASE rows[r].st # "none"
        BY <1>1, <2>3, <3>2 DEF Fail
      <3>3. QED BY <3>1, <3>2
    <2>4. QED BY <2>1, <2>2, <2>3
  <1>4. \A e \in Dbs : proc'[e].pc \in {"clear", "store"} =>
           proc'[e] = proc[e] /\ proc[e].root \in Roots \ {r}
    BY <1>1, <1>2, Hands DEF Holding
  <1>5. /\ rows'[r].st = "fresh" => /\ nodes[r].life = "live"
                                    /\ rows'[r].text = nodes[r].text \/ Queueing(r) \/ r \in lost'
        /\ r \notin Flickering /\ nodes[r].life = "live" => rows'[r].st # "none"
    <2>1. rows[r].st # "fresh"
      BY <1>1 DEF Types, InHand, Fits, Owed
    <2>2. r \notin Flickering /\ nodes[r].life = "live" => rows[r].st # "none"
      BY <1>1 DEF TextInv, NeverForgotten
    <2>3. CASE Clear(d)
      <3>1. rows'[r].st = "none" /\ proc[d].pc = "clear"
        BY <1>1, <2>3 DEF Clear, NoRows, At
      <3>2. QED BY <1>1, <3>1 DEF TextInv, Plain
    <2>4. CASE Store(d)
      <3>1. rows'[r] = Stored(d) /\ proc[d].pc = "store"
            /\ lost' = IF ~proc[d].newer /\ proc[d].text = nodes[r].text THEN lost \ {r} ELSE lost
        BY <1>1, <2>4 DEF Store, At
      <3>2. CASE proc[d].newer
        BY <2>1, <2>2, <3>1, <3>2 DEF Stored
      <3>3. CASE ~proc[d].newer /\ nodes[r].life # "live"
        <4>1. rows'[r].st = "none"
          BY <3>1, <3>3 DEF Stored, NoRows
        <4>2. QED BY <3>3, <4>1
      <3>4. CASE ~proc[d].newer /\ nodes[r].life = "live"
        <4>1. rows'[r].st = "fresh" /\ rows'[r].text = proc[d].text
          BY <3>1, <3>4 DEF Stored, FreshRows
        <4>2. CASE proc[d].text = nodes[r].text
          BY <3>4, <4>1, <4>2
        <4>3. CASE proc[d].text # nodes[r].text
          <5>1. r \in lost \/ \E u \in Tasks : Covers(u, r)
            BY <3>1, <3>4, <4>3 DEF TextInv, StoresCurrent
          <5>2. QED BY <3>1, <3>4, <4>1, <4>3, <5>1 DEF Covers, Queueing
        <4>4. QED BY <4>2, <4>3
      <3>5. QED BY <3>2, <3>3, <3>4
    <2>5. CASE Fail(d)
      <3>1. rows'[r].st = rows[r].st
        <4>1. CASE rows[r].st = "none"
          BY <2>5, <4>1 DEF Fail
        <4>2. CASE rows[r].st # "none"
          BY <1>1, <2>5, <4>2 DEF Fail, RowType
        <4>3. QED BY <4>1, <4>2
      <3>2. QED BY <2>1, <2>2, <3>1
    <2>6. QED BY <2>3, <2>4, <2>5
  <1>6. \A q \in Roots : Queueing(q) => Queueing(q)'
    BY <1>1 DEF Queueing
  <1>7. \A q \in Roots :
           rows'[q].st = "fresh" => /\ nodes[q].life = "live"
                                    /\ rows'[q].text = nodes[q].text \/ Queueing(q) \/ q \in lost'
    BY <1>3, <1>5 DEF TextInv, FreshIsCurrent, ArchivedNotSearched
  <1>8. FreshIsCurrent' /\ ArchivedNotSearched'
    BY <1>1, <1>6, <1>7 DEF FreshIsCurrent, ArchivedNotSearched
  <1>9. NeverForgotten'
    BY <1>1, <1>3, <1>5 DEF TextInv, NeverForgotten
  <1>10. StoresCurrent'
    <2>1. \A u \in Tasks, q \in Roots \ {r} : Covers(u, q) => Covers(u, q)'
      BY <1>1, <1>3 DEF Covers
    <2>2. ASSUME NEW e \in Dbs, proc'[e].pc = "store", ~proc'[e].newer,
                 nodes'[proc'[e].root].life = "live", proc'[e].text # nodes'[proc'[e].root].text
          PROVE  proc'[e].root \in lost' \/ \E u \in Tasks : Covers(u, proc[e].root)'
      <3>1. proc'[e] = proc[e] /\ proc[e].root \in Roots \ {r}
        BY <1>4, <2>2
      <3>2. proc[e].root \in lost \/ \E u \in Tasks : Covers(u, proc[e].root)
        BY <1>1, <2>2, <3>1 DEF TextInv, StoresCurrent
      <3>3. CASE proc[e].root \in lost
        BY <1>3, <3>1, <3>3
      <3>4. CASE \E u \in Tasks : Covers(u, proc[e].root)
        BY <1>1, <1>3, <3>1, <3>4 DEF Covers
      <3>5. QED BY <3>2, <3>3, <3>4
    <2>3. QED BY <2>2 DEF StoresCurrent
  <1>11. Plain'
    BY <1>1, <1>4 DEF TextInv, Plain
  <1>12. QED BY <1>8, <1>9, <1>10, <1>11 DEF TextInv

(* The marks that die in a crash are lost, and known to be. *)
LEMMA CrashText ==
    ASSUME Types, TextInv, Crash
    PROVE  TextInv'
  <1>1. UNCHANGED <<nodes, rows>>
        /\ lost' = lost \cup {tasks[t].root : t \in {u \in Tasks : tasks[u].pc # "idle"}}
    BY DEF Crash
  <1>2. \A r \in Roots : Queueing(r) => r \in lost'
    <2>1. ASSUME NEW r \in Roots, NEW t \in Tasks, tasks[t].root = r PROVE tasks[t].pc # "idle"
      BY <2>1, DbsAssumption DEF Types, Marking, IdleTask
    <2>2. QED BY <1>1, <2>1 DEF Queueing
  <1>3. FreshIsCurrent' /\ ArchivedNotSearched' /\ NeverForgotten'
    BY <1>1, <1>2 DEF TextInv, FreshIsCurrent, ArchivedNotSearched, NeverForgotten
  <1>4. \A d \in Dbs : proc'[d].pc = "list"
    BY DEF Crash, Wired
  <1>5. StoresCurrent' /\ Plain'
    BY <1>1, <1>4 DEF StoresCurrent, TextInv, Plain
  <1>6. QED BY <1>3, <1>5 DEF TextInv

(* Every row is current when the daemon starts. *)
LEMMA TextInit == Init => TextInv /\ Ordered
  <1>. SUFFICES ASSUME Init PROVE TextInv /\ Ordered
    OBVIOUS
  <1>1. FreshIsCurrent /\ ArchivedNotSearched /\ NeverForgotten
    BY DEF Init, FreshIsCurrent, ArchivedNotSearched, NeverForgotten, FreshRows
  <1>2. StoresCurrent /\ Plain
    BY DEF Init, StoresCurrent, Plain, Wired
  <1>3. Ordered
    BY DEF Init, Ordered, IdleTask, Wired
  <1>4. QED BY <1>1, <1>2, <1>3 DEF TextInv

(* The steps of a processor that hold no text, and where they lead. *)
LEMMA OffTheText ==
    ASSUME Types, NEW d \in Dbs,
           \/ SweepList(d) \/ Wake(d) \/ Acquire(d) \/ Check(d) \/ Notified(d) \/ Grant(d)
           \/ Fetch(d) \/ FetchFails(d) \/ EndBatch(d) \/ Ask(d) \/ AskFails(d)
    PROVE  /\ UNCHANGED <<nodes, rows, tasks, lost>>
           /\ proc'[d].pc \notin Holding /\ proc[d].pc \notin Holding
           /\ \A e \in Dbs \ {d} : proc'[e] = proc[e]
  <1>1. proc \in [Dbs -> ProcType] /\ proc[d] \in ProcType
    BY DEF Types, Fields
  <1>2. UNCHANGED <<nodes, rows, tasks, lost>>
    BY DEF SweepList, Wake, Acquire, Check, Notified, Grant, Fetch, FetchFails, EndBatch, Ask,
           AskFails, KeepData
  <1>3. \A e \in Dbs \ {d} : proc'[e] = proc[e]
    BY NoNews
  <1>4. ASSUME NEW pc \in {"acquire", "check", "gate", "parked", "fetch", "idle"}, proc' = Goes(d, pc)
        PROVE  proc'[d].pc \notin Holding
    BY <1>1, <1>4 DEF Goes, ProcType, Holding
  <1>5. proc'[d].pc \notin Holding
    <2>1. CASE Wake(d) \/ Check(d) \/ Notified(d) \/ Grant(d) \/ Ask(d) \/ AskFails(d)
      <3>1. \E pc \in {"acquire", "check", "gate", "parked", "fetch", "idle"} : proc' = Goes(d, pc)
        BY <2>1 DEF Wake, Check, Notified, Grant, Ask, AskFails
      <3>2. QED BY <1>4, <3>1
    <2>2. CASE Acquire(d)
      <3>1. CASE active # d
        BY <1>4, <2>2, <3>1 DEF Acquire
      <3>2. CASE active = d
        BY <1>1, <2>2, <3>2 DEF Acquire, ProcType, Holding
      <3>3. QED BY <3>1, <3>2
    <2>3. CASE FetchFails(d) \/ EndBatch(d)
      <3>1. PICK pc \in {"idle", "acquire", "ask"} : ReleaseTo(d, pc)
        BY <2>3 DEF FetchFails, EndBatch
      <3>2. QED BY <1>1, <3>1 DEF ReleaseTo, ProcType, Holding
    <2>4. CASE SweepList(d) \/ Fetch(d)
      <3>1. PICK pc \in {"plant", "batch"} : \E todo : proc' = [proc EXCEPT ![d].pc = pc, ![d].todo = todo]
        BY <2>4 DEF SweepList, Fetch
      <3>2. QED BY <1>1, <3>1 DEF ProcType, Holding
    <2>5. QED BY <2>1, <2>2, <2>3, <2>4
  <1>6. proc[d].pc \notin Holding
    <2>1. CASE Grant(d)
      <3>1. /\ gateQueue \in Seq(Dbs) /\ gateQueue # <<>> /\ d = Head(gateQueue)
        BY <2>1 DEF Grant, Types, Fields
      <3>2. d = gateQueue[1] /\ 1 \in 1 .. Len(gateQueue)
        BY <3>1
      <3>3. QED BY <3>2 DEF Types, Gating, Holding
    <2>2. QED BY <2>1 DEF SweepList, Wake, Acquire, Check, Notified, Fetch, FetchFails, EndBatch,
                 Ask, AskFails, At, Holding
  <1>7. QED BY <1>2, <1>3, <1>5, <1>6

(* No step stores as current what is not, or forgets a root. *)
LEMMA TextStep == Types /\ Types' /\ Ordered /\ TextInv /\ [Next]_vars => TextInv'
  <1>. SUFFICES ASSUME Types, Types', Ordered, TextInv, [Next]_vars PROVE TextInv'
    OBVIOUS
  <1>1. CASE Next
    <2>1. ASSUME NEW t, NEW r \in Roots,
                 \/ t \in Tasks /\ (Edit(t, r) \/ Archive(t, r) \/ Unarchive(t, r))
                 \/ Delete(r)
          PROVE  TextInv'
      BY <2>1, UserText
    <2>2. ASSUME NEW t \in Tasks, QueueLook(t) \/ RowsUnread(t) \/ QueueFails(t) \/ QueueWrite(t)
          PROVE  TextInv'
      BY <2>2, QueueText
    <2>3. ASSUME NEW d \in Dbs,
                 \/ SweepList(d) \/ Wake(d) \/ Acquire(d) \/ Check(d) \/ Notified(d) \/ Grant(d)
                 \/ Fetch(d) \/ FetchFails(d) \/ EndBatch(d) \/ Ask(d) \/ AskFails(d)
          PROVE  TextInv'
      <3>1. UNCHANGED <<nodes, rows, tasks, lost>>
        BY <2>3, OffTheText
      <3>2. \A e \in Dbs : proc'[e].pc \in {"clear", "store"} => proc'[e] = proc[e]
        BY <2>3, OffTheText DEF Holding
      <3>3. QED BY <3>1, <3>2, QuietText
    <2>4. ASSUME NEW d \in Dbs, NEW r \in Roots, r \in RootsOf(d), ReadAt(d, r) PROVE TextInv'
      BY <2>4, ReadAtText
    <2>5. ASSUME NEW d \in Dbs, SweepPlant(d) \/ ReadRoot(d) \/ Clear(d) \/ Store(d) \/ Fail(d)
          PROVE  TextInv'
      BY <2>5, PlantText, ReadRootText, EndText
    <2>6. CASE \/ \E d \in Busy : Nudge(d)
               \/ \E s \in Streams : OpenStream(s) \/ CloseStream(s)
               \/ \E d \in Dbs : TimerFires(d)
      <3>1. UNCHANGED <<nodes, rows, tasks, lost, proc>>
        BY <2>6 DEF Nudge, OpenStream, CloseStream, TimerFires, KeepData
      <3>2. QED BY <3>1, QuietText
    <2>7. CASE Tick
      <3>1. UNCHANGED <<nodes, lost, proc>>
        BY <2>7 DEF Tick
      <3>2. /\ \A r \in Roots : rows'[r].st = rows[r].st /\ rows'[r].text = rows[r].text
            /\ \A t \in Tasks : /\ tasks'[t].pc = tasks[t].pc /\ tasks'[t].root = tasks[t].root
                                /\ tasks'[t].old = tasks[t].old /\ tasks'[t].has = tasks[t].has
        BY <2>7 DEF Tick, Types, Fields, TaskType, RowType
      <3>3. QED BY <3>1, <3>2, QuietText
    <2>8. CASE Crash
      BY <2>8, CrashText
    <2>9. QED BY <1>1, <2>1, <2>2, <2>3, <2>4, <2>5, <2>6, <2>7, <2>8, Steps
  <1>2. CASE UNCHANGED vars
    <2>1. UNCHANGED <<nodes, rows, tasks, lost, proc>>
      BY <1>2 DEF vars
    <2>2. QED BY <2>1, QuietText
  <1>3. QED BY <1>1, <1>2

(* The invariant of the texts holds throughout. *)
LEMMA TextKept == Spec => []TextInv
  <1>1. Init => Types /\ Ordered /\ TextInv
    BY TypesInit, TextInit
  <1>2. Types /\ Ordered /\ TextInv /\ [Next]_vars => (Types /\ Ordered /\ TextInv)'
    BY TypesStep, OrderedStep, TextStep
  <1>3. QED BY <1>1, <1>2, PTL DEF Spec

(* Vectors stored as fresh embed the text the tree has now, or the mark for the edit
   since is on its way, or a fault or an ignored insert is known to have lost it. The
   argument is about the mark that a read under way does not stop: if it is older
   than the read, every mark that was to come before it was older too (Ordered), so
   the text that the processor holds is not made to look newer than it is. *)
THEOREM FreshRowsAreCurrent == Spec => []FreshIsCurrent
  <1>1. TextInv => FreshIsCurrent
    BY DEF TextInv
  <1>2. QED BY <1>1, TextKept, PTL

(* No archived or deleted root is in the vector index, whatever was in hand when it
   was archived. *)
THEOREM ArchivedStaysOut == Spec => []ArchivedNotSearched
  <1>1. TextInv => ArchivedNotSearched
    BY DEF TextInv
  <1>2. QED BY <1>1, TextKept, PTL

(* A live root that nobody empties or archives keeps rows, and so is embedded or
   waits for it. *)
THEOREM LiveRootsKept == Spec => []NeverForgotten
  <1>1. TextInv => NeverForgotten
    BY DEF TextInv
  <1>2. QED BY <1>1, TextKept, PTL

-----------------------------------------------------------------------------
(* Roots that are given up *)

(* A root whose text the pipeline may have missed: its mark is on its way, or lost. *)
Excused(r) == r \in lost \/ Queueing(r)

(* A processor that is about to record a failure on an older text than the root's
   records the first one since the mark that told of the new text. *)
FailsCurrent ==
    \A d \in Dbs :
        LET r == proc[d].root
        IN  /\ proc[d].pc = "fail" /\ nodes[r].life = "live"
            /\ proc[d].text # nodes[r].text /\ ~Excused(r)
            => rows[r].errs = 0

GivenUpInv == GivenUpOnCurrentText /\ FailsCurrent

(* Steps that record no failure and read no text: each live root has a mark on its
   way, or no failures, or nothing about it has changed. *)
LEMMA GivenUpKeep ==
    ASSUME Types, GivenUpInv,
           \A r \in Roots : nodes'[r].life = "live" =>
              \/ Excused(r)'
              \/ rows'[r].errs = 0
              \/ /\ nodes[r].life = "live" /\ nodes'[r].text = nodes[r].text /\ ~Excused(r)
                 /\ rows'[r].st = rows[r].st /\ rows'[r].errs = rows[r].errs
                 /\ rows'[r].text = rows[r].text,
           \A d \in Dbs : proc'[d].pc = "fail" =>
              /\ proc[d].pc = "fail" /\ proc'[d].root = proc[d].root
              /\ proc'[d].text = proc[d].text
    PROVE  GivenUpInv'
  <1>1. GivenUpOnCurrentText'
    <2>1. MaxRetries # 0
      BY SizeAssumption
    <2>2. ASSUME NEW r \in Roots, nodes'[r].life = "live", rows'[r].st = "stale",
                 rows'[r].errs = MaxRetries, ~Excused(r)'
          PROVE  rows'[r].text = nodes'[r].text
      <3>1. /\ nodes[r].life = "live" /\ nodes'[r].text = nodes[r].text /\ ~Excused(r)
            /\ rows[r].st = "stale" /\ rows[r].errs = MaxRetries /\ rows'[r].text = rows[r].text
        BY <2>1, <2>2
      <3>2. QED BY <3>1 DEF GivenUpInv, GivenUpOnCurrentText, Excused
    <2>3. QED BY <2>2 DEF GivenUpOnCurrentText, Excused
  <1>2. FailsCurrent'
    <2>1. \A d \in Dbs : proc[d].pc = "fail" => proc[d].root \in Roots
      BY Hands DEF Holding
    <2>2. ASSUME NEW d \in Dbs, proc'[d].pc = "fail", nodes'[proc[d].root].life = "live",
                 proc[d].text # nodes'[proc[d].root].text, ~Excused(proc[d].root)',
                 proc'[d].root = proc[d].root
          PROVE  rows'[proc[d].root].errs = 0
      <3>. DEFINE r == proc[d].root
      <3>1. r \in Roots /\ proc[d].pc = "fail"
        BY <2>1, <2>2
      <3>2. ~Excused(r)'
        BY <2>2 DEF Excused, Queueing
      <3>3. CASE rows'[r].errs # 0
        <4>1. /\ nodes[r].life = "live" /\ nodes'[r].text = nodes[r].text /\ ~Excused(r)
              /\ rows'[r].errs = rows[r].errs
          BY <2>2, <3>1, <3>2, <3>3 DEF Excused, Queueing
        <4>2. QED BY <2>2, <3>1, <4>1 DEF GivenUpInv, FailsCurrent
      <3>4. QED BY <3>3
    <2>3. QED BY <2>2 DEF FailsCurrent
  <1>3. QED BY <1>1, <1>2 DEF GivenUpInv

(* Users' writes send a mark, or leave a root that is not live. *)
LEMMA UserGivenUp ==
    ASSUME Types, GivenUpInv, NEW t, NEW r \in Roots,
           \/ t \in Tasks /\ (Edit(t, r) \/ Archive(t, r) \/ Unarchive(t, r))
           \/ Delete(r)
    PROVE  GivenUpInv'
  <1>1. /\ nodes \in [Roots -> NodeType] /\ nodes[r] \in NodeType /\ UNCHANGED lost
        /\ tasks \in [Tasks -> TaskType]
    BY DEF Types, Fields, Edit, Archive, Unarchive, Delete
  <1>2. CASE t \in Tasks /\ (Edit(t, r) \/ Unarchive(t, r))
    <2>1. /\ tasks' = [tasks EXCEPT ![t] = LookTask(r)] /\ tasks[t].pc = "idle"
          /\ UNCHANGED <<rows, proc>>
          /\ \A q \in Roots \ {r} : nodes'[q] = nodes[q]
      <3>1. CASE Edit(t, r)
        <4>1. PICK b : nodes' = [nodes EXCEPT ![r].text = @ + 1, ![r].blank = b]
          BY <3>1 DEF Edit
        <4>2. QED BY <1>1, <3>1, <4>1 DEF Edit
      <3>2. CASE Unarchive(t, r)
        BY <1>1, <3>2 DEF Unarchive
      <3>3. QED BY <1>2, <3>1, <3>2
    <2>2. tasks'[t].root = r
      BY <1>2, <2>1, TaskStarts
    <2>3. Excused(r)'
      BY <1>2, <2>2 DEF Excused, Queueing
    <2>4. \A q \in Roots : Excused(q) => Excused(q)'
      <3>1. \A u \in Tasks : tasks[u].root \in Roots => tasks'[u] = tasks[u]
        BY <1>2, <2>1, TaskStarts
      <3>2. QED BY <1>1, <3>1 DEF Excused, Queueing
    <2>5. QED BY <2>1, <2>3, <2>4, GivenUpKeep
  <1>3. CASE (t \in Tasks /\ Archive(t, r)) \/ Delete(r)
    <2>1. PICK life \in {"archived", "gone"} : nodes' = [nodes EXCEPT ![r].life = life]
      BY <1>3 DEF Archive, Delete
    <2>2. nodes'[r].life # "live" /\ \A q \in Roots \ {r} : nodes'[q] = nodes[q]
      BY <1>1, <2>1 DEF NodeType
    <2>3. RowsDeleted(r)
      BY <1>3 DEF Archive, Delete
    <2>4. \A q \in Roots \ {r} : rows'[q] = rows[q]
      BY <2>3, RowsDeletedTypes
    <2>5. \A q \in Roots : Excused(q) => Excused(q)'
      <3>1. \A u \in Tasks : tasks[u].root \in Roots => tasks'[u] = tasks[u]
        <4>1. CASE Delete(r)
          BY <4>1 DEF Delete
        <4>2. CASE t \in Tasks /\ Archive(t, r)
          BY <4>2, TaskStarts DEF Archive
        <4>3. QED BY <1>3, <4>1, <4>2
      <3>2. QED BY <1>1, <3>1 DEF Excused, Queueing
    <2>6. QED BY <2>2, <2>3, <2>4, <2>5, HandsAfterDelete, GivenUpKeep
  <1>4. QED BY <1>2, <1>3

(* A mark that is written starts the count of failures over. *)
LEMMA QueueGivenUp ==
    ASSUME Types, GivenUpInv, NEW t \in Tasks,
           QueueLook(t) \/ RowsUnread(t) \/ QueueFails(t) \/ QueueWrite(t)
    PROVE  GivenUpInv'
  <1>1. tasks \in [Tasks -> TaskType] /\ tasks[t] \in TaskType /\ proc \in [Dbs -> ProcType]
        /\ rows \in [Roots -> RowType]
    BY DEF Types, Fields
  <1>2. UNCHANGED nodes /\ \A u \in Tasks \ {t} : tasks'[u] = tasks[u]
    BY <1>1 DEF QueueLook, RowsUnread, QueueFails, QueueWrite
  <1>3. \A q \in Roots : Queueing(q) /\ q # tasks[t].root => Queueing(q)'
    BY <1>2 DEF Queueing
  <1>4. ASSUME UNCHANGED <<rows, proc>>, lost \subseteq lost',
               \/ tasks'[t].root = tasks[t].root
               \/ nodes[tasks[t].root].life # "live"
               \/ tasks[t].root \in lost'
               \/ rows[tasks[t].root].errs = 0
        PROVE  GivenUpInv'
    <2>1. \A q \in Roots : nodes[q].life = "live" /\ Excused(q) => Excused(q)' \/ rows[q].errs = 0
      BY <1>2, <1>3, <1>4 DEF Excused, Queueing
    <2>2. QED BY <1>2, <1>4, <2>1, GivenUpKeep
  <1>5. CASE (QueueLook(t) /\ nodes[tasks[t].root].life = "live") \/ RowsUnread(t)
    <2>1. UNCHANGED <<rows, proc, lost>>
      BY <1>5 DEF QueueLook, RowsUnread
    <2>2. tasks'[t].root = tasks[t].root
      BY <1>1, <1>5 DEF QueueLook, RowsUnread, TaskType
    <2>3. QED BY <1>4, <2>1, <2>2
  <1>6. CASE (QueueLook(t) /\ nodes[tasks[t].root].life # "live") \/ QueueFails(t)
    BY <1>4, <1>6 DEF QueueLook, QueueFails
  <1>7. CASE QueueWrite(t)
    <2>1. tasks[t].pc = "write" /\ tasks[t].root \in Roots
      BY <1>7, LineLeave DEF QueueWrite
    <2>2. CASE ~Marks(t)
      <3>1. UNCHANGED <<rows, proc>>
            /\ lost' = IF rows[tasks[t].root].st = "none" THEN lost ELSE lost \cup {tasks[t].root}
        BY <1>7, <2>2 DEF QueueWrite
      <3>2. rows[tasks[t].root].st = "none" => rows[tasks[t].root].errs = 0
        BY <2>1 DEF Types, Versions
      <3>3. QED BY <1>4, <3>1, <3>2
    <2>3. CASE Marks(t)
      <3>. DEFINE r == tasks[t].root
      <3>1. /\ rows' = [rows EXCEPT ![r] = StaleRows(tasks[t].age)]
            /\ proc' = [d \in Dbs |-> IF proc[d].root = r
                                      THEN [proc[d] EXCEPT !.newer = ~tasks[t].old] ELSE proc[d]]
            /\ lost \subseteq lost' \cup {r}
        BY <1>7, <2>3 DEF QueueWrite, RowsMarked
      <3>2. rows'[r].errs = 0 /\ \A q \in Roots \ {r} : rows'[q] = rows[q]
        BY <1>1, <2>1, <3>1 DEF StaleRows
      <3>3. \A d \in Dbs : /\ proc'[d].pc = proc[d].pc /\ proc'[d].root = proc[d].root
                           /\ proc'[d].text = proc[d].text
        BY <1>1, <3>1 DEF ProcType
      <3>4. \A q \in Roots \ {r} : Excused(q) => Excused(q)'
        BY <1>3, <3>1 DEF Excused
      <3>5. QED BY <1>2, <3>2, <3>3, <3>4, GivenUpKeep
    <2>4. QED BY <2>2, <2>3
  <1>8. QED BY <1>5, <1>6, <1>7

(* A processor that ends with a root without a failure, or takes the next one. *)
LEMMA DoneGivenUp ==
    ASSUME Types, GivenUpInv, NEW d \in Dbs,
           SweepPlant(d) \/ Clear(d) \/ Store(d) \/ \E r \in Roots : r \in RootsOf(d) /\ ReadAt(d, r)
    PROVE  GivenUpInv'
  <1>1. /\ UNCHANGED nodes /\ tasks \in [Tasks -> TaskType] /\ rows \in [Roots -> RowType]
        /\ proc \in [Dbs -> ProcType] /\ proc[d] \in ProcType
    BY DEF SweepPlant, Clear, Store, ReadAt, Types, Fields
  <1>2. proc'[d].pc # "fail" /\ \A e \in Dbs \ {d} : proc'[e] = proc[e]
    <2>1. CASE SweepPlant(d)
      BY <1>1, <2>1 DEF SweepPlant, ProcType
    <2>2. CASE \E r \in Roots : ReadAt(d, r)
      <3>1. PICK r \in Roots : ReadAt(d, r)
        BY <2>2
      <3>2. QED BY <1>1, <3>1 DEF ReadAt, ProcType
    <2>3. CASE Clear(d) \/ Store(d)
      <3>1. \E ok : proc' = RootDone(d, ok)
        BY <2>3 DEF Clear, Store
      <3>2. QED BY <1>1, <3>1 DEF RootDone, ProcType
    <2>4. QED BY <2>1, <2>2, <2>3
  <1>3. CASE SweepPlant(d)
    <2>1. \A r \in Roots : rows'[r] = rows[r] \/ rows'[r].errs = 0
      BY <1>3 DEF SweepPlant, StaleRows
    <2>2. \A r \in Roots : Excused(r)' <=> Excused(r)
      BY <1>3 DEF SweepPlant, Excused, Queueing
    <2>3. QED BY <1>1, <1>2, <2>1, <2>2, GivenUpKeep
  <1>4. CASE \E r \in Roots : ReadAt(d, r)
    <2>1. UNCHANGED <<rows, lost>> /\ \A u \in Tasks : tasks'[u].root = tasks[u].root
      <3>1. PICK r \in Roots : ReadAt(d, r)
        BY <1>4
      <3>2. UNCHANGED <<rows, lost>>
        BY <3>1 DEF ReadAt
      <3>3. \A u \in Tasks : tasks'[u] \in {tasks[u], [tasks[u] EXCEPT !.old = TRUE]}
        BY <3>1 DEF ReadAt
      <3>4. \A u \in Tasks : tasks[u] \in TaskType
        BY <1>1
      <3>5. QED BY <3>2, <3>3, <3>4 DEF TaskType
    <2>2. \A r \in Roots : Excused(r) => Excused(r)'
      BY <2>1 DEF Excused, Queueing
    <2>3. QED BY <1>1, <1>2, <2>1, <2>2, GivenUpKeep
  <1>5. CASE Clear(d) \/ Store(d)
    <2>0. PICK r : r = proc[d].root
      OBVIOUS
    <2>1. r \in Roots /\ UNCHANGED tasks
      BY <1>5, <2>0, Hands DEF Clear, Store, At, Holding
    <2>2. \A q \in Roots \ {r} : rows'[q] = rows[q] /\ (Excused(q) => Excused(q)')
      <3>1. \A q \in Roots \ {r} : rows'[q] = rows[q] /\ (q \in lost => q \in lost')
        BY <1>1, <1>5, <2>0, <2>1 DEF Clear, Store
      <3>2. QED BY <2>1, <3>1 DEF Excused, Queueing
    <2>3. rows'[r].errs = 0 \/ (rows'[r] = rows[r] /\ (Excused(r) => Excused(r)'))
      <3>1. CASE Clear(d)
        BY <1>1, <2>0, <2>1, <3>1 DEF Clear, NoRows
      <3>2. CASE Store(d)
        <4>1. rows'[r] = Stored(d) /\ (proc[d].newer => lost' = lost)
          BY <1>1, <2>0, <2>1, <3>2 DEF Store
        <4>2. CASE proc[d].newer
          BY <2>0, <2>1, <4>1, <4>2 DEF Stored, Excused, Queueing
        <4>3. CASE ~proc[d].newer
          BY <4>1, <4>3 DEF Stored, NoRows, FreshRows
        <4>4. QED BY <4>2, <4>3
      <3>3. QED BY <1>5, <3>1, <3>2
    <2>4. QED BY <1>1, <1>2, <2>2, <2>3, GivenUpKeep
  <1>6. QED BY <1>3, <1>4, <1>5

(* A failure that gives the root up is not its first, so it is on the current text. *)
LEMMA FailGivenUp ==
    ASSUME MaxRetries > 1, Types, GivenUpInv, NEW d \in Dbs, Fail(d)
    PROVE  GivenUpInv'
  <1>. DEFINE r == proc[d].root
  <1>1. /\ UNCHANGED <<nodes, tasks, lost>> /\ rows \in [Roots -> RowType]
        /\ proc \in [Dbs -> ProcType] /\ proc[d] \in ProcType /\ proc[d].pc = "fail"
        /\ r \in Roots /\ rows[r] \in RowType
    BY Hands DEF Fail, At, Holding, Types, Fields
  <1>2. proc'[d].pc # "fail" /\ \A e \in Dbs \ {d} : proc'[e] = proc[e]
    <2>1. proc' = RootDone(d, FALSE)
      BY DEF Fail
    <2>2. QED BY <1>1, <2>1 DEF RootDone, ProcType
  <1>3. \A q \in Roots : Excused(q)' <=> Excused(q)
    BY <1>1 DEF Excused, Queueing
  <1>4. CASE rows[r].st = "none"
    <2>1. UNCHANGED rows
      BY <1>4 DEF Fail
    <2>2. QED BY <1>1, <1>2, <1>3, <2>1, GivenUpKeep
  <1>5. CASE rows[r].st # "none"
    <2>1. rows' = [rows EXCEPT ![r].errs = @ + 1, ![r].age = 0, ![r].text = proc[d].text]
      BY <1>5 DEF Fail
    <2>2. /\ rows'[r].errs = rows[r].errs + 1 /\ rows'[r].text = proc[d].text
          /\ \A q \in Roots \ {r} : rows'[q] = rows[q]
      BY <1>1, <2>1 DEF RowType
    <2>3. ASSUME NEW q \in Roots, nodes[q].life = "live", rows'[q].st = "stale",
                 rows'[q].errs = MaxRetries, ~Excused(q)
          PROVE  rows'[q].text = nodes[q].text
      <3>1. CASE q # r
        BY <2>2, <2>3, <3>1 DEF GivenUpInv, GivenUpOnCurrentText, Excused
      <3>2. CASE q = r
        <4>1. rows[r].errs # 0
          BY <2>2, <2>3, <3>2
        <4>2. QED BY <1>1, <2>2, <2>3, <3>2, <4>1 DEF GivenUpInv, FailsCurrent
      <3>3. QED BY <3>1, <3>2
    <2>4. GivenUpOnCurrentText'
      BY <1>1, <1>3, <2>3 DEF GivenUpOnCurrentText, Excused
    <2>5. ASSUME NEW e \in Dbs, proc'[e].pc = "fail", nodes[proc'[e].root].life = "live",
                 proc'[e].text # nodes[proc'[e].root].text, proc'[e].root \notin lost,
                 ~Queueing(proc[e].root)'
          PROVE  rows'[proc'[e].root].errs = 0
      <3>1. e # d /\ proc'[e] = proc[e]
        BY <1>2, <2>5
      <3>2. proc[e].root \in Roots \ {r}
        BY <1>1, <2>5, <3>1, Hands DEF Holding
      <3>3. ~Excused(proc[e].root)
        BY <1>1, <2>5, <3>1 DEF Excused, Queueing
      <3>4. QED BY <2>2, <2>5, <3>1, <3>2, <3>3 DEF GivenUpInv, FailsCurrent
    <2>6. FailsCurrent'
      BY <1>1, <2>5 DEF FailsCurrent, Excused, Queueing
    <2>7. QED BY <2>4, <2>6 DEF GivenUpInv
  <1>6. QED BY <1>4, <1>5

(* The text that a processor fails on was current when it was read. *)
LEMMA ReadRootGivenUp ==
    ASSUME Types, GivenUpInv, NEW d \in Dbs, ReadRoot(d)
    PROVE  GivenUpInv'
  <1>1. /\ UNCHANGED <<nodes, rows, tasks, lost>> /\ proc \in [Dbs -> ProcType]
        /\ proc[d] \in ProcType
    BY DEF ReadRoot, KeepData, Types, Fields
  <1>2. \A q \in Roots : Excused(q)' <=> Excused(q)
    BY <1>1 DEF Excused, Queueing
  <1>3. /\ proc'[d].root = proc[d].root /\ \A e \in Dbs \ {d} : proc'[e] = proc[e]
        /\ proc'[d].pc = "fail" => \/ nodes[proc[d].root].life = "gone"
                                   \/ proc'[d].text = nodes[proc[d].root].text
    <2>1. CASE \E pc \in {"clear", "fail"} :
                  proc' = Goes(d, pc) /\ (pc = "fail" => nodes[proc[d].root].life = "gone")
      BY <1>1, <2>1 DEF Goes, ProcType
    <2>2. CASE \E pc : proc' = [proc EXCEPT ![d].pc = pc, ![d].text = nodes[proc[d].root].text]
      BY <1>1, <2>2 DEF ProcType
    <2>3. QED BY <2>1, <2>2 DEF ReadRoot
  <1>4. GivenUpOnCurrentText'
    BY <1>1, <1>2 DEF GivenUpInv, GivenUpOnCurrentText, Excused
  <1>5. FailsCurrent'
    <2>1. \A e \in Dbs : Excused(proc[e].root)' <=> (proc'[e].root \in lost \/ Queueing(proc'[e].root))
      BY <1>1 DEF Excused, Queueing
    <2>2. QED BY <1>1, <1>3, <2>1 DEF GivenUpInv, FailsCurrent, Excused, Queueing
  <1>6. QED BY <1>4, <1>5 DEF GivenUpInv

(* With a retry to spare, no step gives a root up on a text it no longer has. *)
LEMMA GivenUpStep ==
    ASSUME MaxRetries > 1
    PROVE  Types /\ GivenUpInv /\ [Next]_vars => GivenUpInv'
  <1>. SUFFICES ASSUME Types, GivenUpInv, [Next]_vars PROVE GivenUpInv'
    OBVIOUS
  <1>0. ASSUME UNCHANGED <<nodes, rows, tasks, lost>>,
               \A d \in Dbs : proc'[d].pc = "fail" => proc'[d] = proc[d]
        PROVE  GivenUpInv'
    <2>1. \A q \in Roots : Excused(q)' <=> Excused(q)
      BY <1>0 DEF Excused, Queueing
    <2>2. QED BY <1>0, <2>1, GivenUpKeep
  <1>1. CASE Next
    <2>1. ASSUME NEW t, NEW r \in Roots,
                 \/ t \in Tasks /\ (Edit(t, r) \/ Archive(t, r) \/ Unarchive(t, r))
                 \/ Delete(r)
          PROVE  GivenUpInv'
      BY <2>1, UserGivenUp
    <2>2. ASSUME NEW t \in Tasks, QueueLook(t) \/ RowsUnread(t) \/ QueueFails(t) \/ QueueWrite(t)
          PROVE  GivenUpInv'
      BY <2>2, QueueGivenUp
    <2>3. ASSUME NEW d \in Dbs,
                 \/ SweepList(d) \/ Wake(d) \/ Acquire(d) \/ Check(d) \/ Notified(d) \/ Grant(d)
                 \/ Fetch(d) \/ FetchFails(d) \/ EndBatch(d) \/ Ask(d) \/ AskFails(d)
          PROVE  GivenUpInv'
      <3>1. UNCHANGED <<nodes, rows, tasks, lost>>
        BY <2>3, OffTheText
      <3>2. \A e \in Dbs : proc'[e].pc = "fail" => proc'[e] = proc[e]
        BY <2>3, OffTheText DEF Holding
      <3>3. QED BY <1>0, <3>1, <3>2
    <2>4. ASSUME NEW d \in Dbs, NEW r \in Roots, r \in RootsOf(d), ReadAt(d, r) PROVE GivenUpInv'
      BY <2>4, DoneGivenUp
    <2>5. ASSUME NEW d \in Dbs, SweepPlant(d) \/ ReadRoot(d) \/ Clear(d) \/ Store(d) \/ Fail(d)
          PROVE  GivenUpInv'
      BY <2>5, DoneGivenUp, ReadRootGivenUp, FailGivenUp
    <2>6. CASE \/ \E d \in Busy : Nudge(d)
               \/ \E s \in Streams : OpenStream(s) \/ CloseStream(s)
               \/ \E d \in Dbs : TimerFires(d)
      <3>1. UNCHANGED <<nodes, rows, tasks, lost, proc>>
        BY <2>6 DEF Nudge, OpenStream, CloseStream, TimerFires, KeepData
      <3>2. QED BY <1>0, <3>1
    <2>7. CASE Tick
      <3>1. UNCHANGED <<nodes, lost, proc>>
        BY <2>7 DEF Tick
      <3>2. /\ \A r \in Roots : /\ rows'[r].st = rows[r].st /\ rows'[r].text = rows[r].text
                                /\ rows'[r].errs = rows[r].errs
            /\ \A t \in Tasks : tasks'[t].root = tasks[t].root
        BY <2>7 DEF Tick, Types, Fields, TaskType, RowType
      <3>3. \A q \in Roots : Excused(q)' <=> Excused(q)
        BY <3>1, <3>2 DEF Excused, Queueing
      <3>4. QED BY <3>1, <3>2, <3>3, GivenUpKeep
    <2>8. CASE Crash
      <3>1. UNCHANGED <<nodes, rows>>
            /\ lost' = lost \cup {tasks[t].root : t \in {u \in Tasks : tasks[u].pc # "idle"}}
        BY <2>8 DEF Crash
      <3>2. \A d \in Dbs : proc'[d].pc # "fail"
        BY <2>8 DEF Crash, Wired
      <3>3. \A r \in Roots, t \in Tasks : tasks[t].root = r => tasks[t].pc # "idle"
        BY DbsAssumption DEF Types, Marking, IdleTask
      <3>4. \A r \in Roots : Excused(r) => Excused(r)'
        BY <3>1, <3>3 DEF Excused, Queueing
      <3>5. QED BY <3>1, <3>2, <3>4, GivenUpKeep
    <2>9. QED BY <1>1, <2>1, <2>2, <2>3, <2>4, <2>5, <2>6, <2>7, <2>8, Steps
  <1>2. CASE UNCHANGED vars
    <2>1. UNCHANGED <<nodes, rows, tasks, lost, proc>>
      BY <1>2 DEF vars
    <2>2. QED BY <1>0, <2>1
  <1>3. QED BY <1>1, <1>2

(* As long as a root may fail more than once, it is given up only for the text that it
   has. With one retry the first failure gives it up, and that may be on the text
   read before the last mark: record_embedding_error does not ask for newer rows. *)
THEOREM GivenUpIsCurrent ==
    ASSUME MaxRetries > 1
    PROVE  Spec => []GivenUpOnCurrentText
  <1>1. Init => GivenUpInv
    <2>. SUFFICES ASSUME Init PROVE GivenUpInv
      OBVIOUS
    <2>2. \A r \in Roots : rows[r].st = "fresh"
      BY DEF Init, FreshRows
    <2>3. \A d \in Dbs : proc[d].pc = "list"
      BY DEF Init, Wired
    <2>4. QED BY <2>2, <2>3 DEF GivenUpInv, GivenUpOnCurrentText, FailsCurrent
  <1>2. GivenUpInv => GivenUpOnCurrentText
    BY DEF GivenUpInv
  <1>3. Types /\ GivenUpInv /\ [Next]_vars => GivenUpInv'
    BY GivenUpStep
  <1>4. QED BY <1>1, <1>2, <1>3, TypesInit, TypesStep, PTL DEF Spec

-----------------------------------------------------------------------------
(* Processors that wait *)

(* Where a processor's own step leaves it, what it does to its reservation and to
   whom it tells. *)
LEMMA OwnStep ==
    ASSUME Types, NEW d \in Dbs,
           \/ SweepList(d) \/ SweepPlant(d) \/ Wake(d) \/ Acquire(d) \/ Notified(d) \/ Grant(d)
           \/ Fetch(d) \/ Ask(d) \/ AskFails(d) \/ (\E r \in Roots : ReadAt(d, r))
           \/ ReadRoot(d) \/ Clear(d) \/ Store(d) \/ Fail(d)
    PROVE  /\ proc'[d].pc # "parked" /\ (proc[d].res => proc'[d].res)
           /\ \A e \in Dbs \ {d} : proc'[e] = proc[e] /\ note'[e] = note[e]
  <1>1. proc \in [Dbs -> ProcType] /\ proc[d] \in ProcType /\ note \in [Dbs -> BOOLEAN]
    BY DEF Types, Fields
  <1>2. \A e \in Dbs \ {d} : proc'[e] = proc[e]
    BY NoNews
  <1>3. \A e \in Dbs \ {d} : note'[e] = note[e]
    BY <1>1 DEF SweepList, SweepPlant, Wake, Acquire, Notified, Grant, Fetch, Ask, AskFails, ReadAt,
                ReadRoot, Clear, Store, Fail, KeepScheduler
  <1>4. ASSUME NEW pc, pc # "parked", proc' = Goes(d, pc)
        PROVE  proc'[d].pc # "parked" /\ (proc[d].res => proc'[d].res)
    BY <1>1, <1>4 DEF Goes, ProcType
  <1>5. proc'[d].pc # "parked" /\ (proc[d].res => proc'[d].res)
    <2>1. CASE Wake(d) \/ Notified(d) \/ Grant(d) \/ Ask(d) \/ AskFails(d)
      <3>1. \E pc : pc # "parked" /\ proc' = Goes(d, pc)
        BY <2>1 DEF Wake, Notified, Grant, Ask, AskFails
      <3>2. QED BY <1>4, <3>1
    <2>2. CASE Acquire(d)
      <3>1. CASE active # d
        BY <1>4, <2>2, <3>1 DEF Acquire
      <3>2. CASE active = d
        BY <1>1, <2>2, <3>2 DEF Acquire, ProcType
      <3>3. QED BY <3>1, <3>2
    <2>3. CASE SweepList(d) \/ SweepPlant(d) \/ Fetch(d)
      <3>1. PICK pc \in {"plant", "idle", "batch"} :
               \E todo : proc' = [proc EXCEPT ![d].pc = pc, ![d].todo = todo]
        BY <2>3 DEF SweepList, SweepPlant, Fetch
      <3>2. QED BY <1>1, <3>1 DEF ProcType
    <2>4. CASE \E r \in Roots : ReadAt(d, r)
      <3>1. PICK r \in Roots : ReadAt(d, r)
        BY <2>4
      <3>2. QED BY <1>1, <3>1 DEF ReadAt, ProcType
    <2>5. CASE ReadRoot(d)
      <3>1. CASE \E pc \in {"fail", "clear"} : proc' = Goes(d, pc)
        BY <1>4, <3>1
      <3>2. CASE \E pc \in {"store", "fail"} : \E text :
                    proc' = [proc EXCEPT ![d].pc = pc, ![d].text = text]
        BY <1>1, <3>2 DEF ProcType
      <3>3. QED BY <2>5, <3>1, <3>2 DEF ReadRoot
    <2>6. CASE Clear(d) \/ Store(d) \/ Fail(d)
      <3>1. \E ok : proc' = RootDone(d, ok)
        BY <2>6 DEF Clear, Store, Fail
      <3>2. QED BY <1>1, <3>1 DEF RootDone, ProcType
    <2>7. QED BY <2>1, <2>2, <2>3, <2>4, <2>5, <2>6
  <1>6. QED BY <1>2, <1>3, <1>5

(* A reservation counts. *)
LEMMA Reserved ==
    /\ HighWaiters \in Nat
    /\ HighWaiters = 0 <=> ~\E d \in Dbs : proc[d].res
  <1>. DEFINE S == {d \in Dbs : proc[d].res}
  <1>1. IsFiniteSet(S)
    BY DbsAssumption, FS_Subset
  <1>2. Cardinality(S) \in Nat /\ (Cardinality(S) = 0 <=> S = {})
    BY <1>1, FS_CardinalityType, FS_EmptySet
  <1>3. QED BY <1>2 DEF HighWaiters

(* Nobody is left waiting for a reservation that is dropped: who drops it notifies all
   who wait or are about to, and who has looked since has seen another one. *)
LEMMA DeferralStep == Types /\ DeferralEnds /\ [Next]_vars => DeferralEnds'
  <1>. SUFFICES ASSUME Types, DeferralEnds, [Next]_vars PROVE DeferralEnds'
    OBVIOUS
  <1>0. /\ HighWaiters' \in Nat
        /\ HighWaiters' = 0 <=> ~\E d \in Dbs : proc'[d].res
    <2>1. \A S \in SUBSET Dbs : Cardinality(S) \in Nat /\ (Cardinality(S) = 0 <=> S = {})
      BY DbsAssumption, FS_Subset, FS_CardinalityType, FS_EmptySet
    <2>. DEFINE S == {d \in Dbs : proc'[d].res}
    <2>2. HighWaiters' = Cardinality(S) /\ S \in SUBSET Dbs
      BY DEF HighWaiters
    <2>. HIDE DEF S
    <2>3. Cardinality(S) \in Nat /\ (Cardinality(S) = 0 <=> S = {})
      BY <2>1, <2>2
    <2>4. QED BY <2>2, <2>3 DEF S
  <1>1. ASSUME \A e \in Dbs : proc'[e].pc = "parked" /\ ~note'[e] =>
                  \/ proc[e].pc = "parked" /\ ~note[e]
                  \/ HighWaiters # 0,
               \A e \in Dbs : proc[e].res => proc'[e].res
        PROVE  DeferralEnds'
    <2>1. ASSUME NEW e \in Dbs, proc'[e].pc = "parked", ~note'[e] PROVE HighWaiters' > 0
      <3>1. HighWaiters # 0
        BY <1>1, <2>1, Reserved DEF DeferralEnds
      <3>2. \E d \in Dbs : proc'[d].res
        BY <1>1, <3>1, Reserved
      <3>3. QED BY <1>0, <3>2
    <2>2. QED BY <2>1 DEF DeferralEnds
  <1>2. ASSUME \A e \in Dbs : proc'[e].pc = proc[e].pc /\ proc'[e].res = proc[e].res, UNCHANGED note
        PROVE  DeferralEnds'
    BY <1>1, <1>2
  <1>3. proc \in [Dbs -> ProcType] /\ note \in [Dbs -> BOOLEAN]
    BY DEF Types, Fields
  <1>4. CASE Next
    <2>1. ASSUME NEW t, NEW r \in Roots,
                 \/ t \in Tasks /\ (Edit(t, r) \/ Archive(t, r) \/ Unarchive(t, r))
                 \/ Delete(r)
          PROVE  DeferralEnds'
      <3>1. UNCHANGED note /\ (UNCHANGED proc \/ RowsDeleted(r))
        BY <2>1 DEF Edit, Archive, Unarchive, Delete, KeepScheduler
      <3>2. \A e \in Dbs : proc'[e].pc = proc[e].pc /\ proc'[e].res = proc[e].res
        <4>1. CASE UNCHANGED proc
          BY <4>1
        <4>2. CASE RowsDeleted(r)
          BY <1>3, <4>2 DEF RowsDeleted, ProcType
        <4>3. QED BY <3>1, <4>1, <4>2
      <3>3. QED BY <1>2, <3>1, <3>2
    <2>2. ASSUME NEW t \in Tasks, QueueLook(t) \/ RowsUnread(t) \/ QueueFails(t) \/ QueueWrite(t)
          PROVE  DeferralEnds'
      <3>1. UNCHANGED note
        BY <2>2 DEF QueueLook, RowsUnread, QueueFails, QueueWrite, KeepScheduler
      <3>2. CASE UNCHANGED proc
        BY <1>2, <3>1, <3>2
      <3>3. CASE proc' = [d \in Dbs |-> IF proc[d].root = tasks[t].root
                                       THEN [proc[d] EXCEPT !.newer = ~tasks[t].old] ELSE proc[d]]
        <4>1. \A e \in Dbs : proc'[e].pc = proc[e].pc /\ proc'[e].res = proc[e].res
          BY <1>3, <3>3 DEF ProcType
        <4>2. QED BY <1>2, <3>1, <4>1
      <3>4. QED BY <2>2, <3>2, <3>3 DEF QueueLook, RowsUnread, QueueFails, QueueWrite
    <2>3. ASSUME NEW d \in Dbs,
                 \/ SweepList(d) \/ SweepPlant(d) \/ Wake(d) \/ Acquire(d) \/ Notified(d) \/ Grant(d)
                 \/ Fetch(d) \/ Ask(d) \/ AskFails(d) \/ (\E r \in Roots : ReadAt(d, r))
                 \/ ReadRoot(d) \/ Clear(d) \/ Store(d) \/ Fail(d)
          PROVE  DeferralEnds'
      <3>1. /\ proc'[d].pc # "parked" /\ (proc[d].res => proc'[d].res)
            /\ \A e \in Dbs \ {d} : proc'[e] = proc[e] /\ note'[e] = note[e]
        BY <2>3, OwnStep
      <3>2. QED BY <1>1, <3>1
    <2>4. ASSUME NEW d \in Dbs, Check(d) PROVE DeferralEnds'
      <3>1. UNCHANGED note
        BY <2>4 DEF Check
      <3>2. PICK pc : proc' = Goes(d, pc) /\ (pc = "parked" => HighWaiters # 0)
        BY <2>4 DEF Check
      <3>3. /\ proc'[d].pc = pc /\ proc'[d].res = proc[d].res
            /\ \A e \in Dbs \ {d} : proc'[e] = proc[e]
        BY <1>3, <3>2 DEF Goes, ProcType
      <3>4. QED BY <1>1, <3>1, <3>2, <3>3
    <2>5. ASSUME NEW d \in Dbs, FetchFails(d) \/ EndBatch(d) PROVE DeferralEnds'
      <3>1. PICK pc \in {"idle", "acquire", "ask"} : ReleaseTo(d, pc)
        BY <2>5 DEF FetchFails, EndBatch
      <3>2. /\ proc'[d].pc # "parked" /\ \A e \in Dbs \ {d} : proc'[e] = proc[e]
            /\ note' = Woken(d)
        BY <1>3, <3>1 DEF ReleaseTo, ProcType
      <3>3. CASE proc[d].res
        <4>1. \A e \in Dbs : proc[e].pc = "parked" => note'[e]
          BY <3>2, <3>3 DEF Woken
        <4>2. QED BY <3>2, <4>1 DEF DeferralEnds
      <3>4. CASE ~proc[d].res
        <4>1. UNCHANGED note
          BY <3>2, <3>4 DEF Woken
        <4>2. QED BY <1>1, <3>2, <3>4, <4>1
      <3>5. QED BY <3>3, <3>4
    <2>6. CASE \/ \E d \in Busy : Nudge(d)
               \/ \E s \in Streams : OpenStream(s) \/ CloseStream(s)
               \/ \E d \in Dbs : TimerFires(d)
               \/ Tick
      <3>1. UNCHANGED <<proc, note>>
        BY <2>6 DEF Nudge, OpenStream, CloseStream, TimerFires, Tick, KeepScheduler
      <3>2. QED BY <1>2, <3>1
    <2>7. CASE Crash
      <3>1. \A e \in Dbs : proc'[e].pc = "list"
        BY <2>7 DEF Crash, Wired
      <3>2. QED BY <3>1 DEF DeferralEnds
    <2>8. QED BY <1>4, <2>1, <2>2, <2>3, <2>4, <2>5, <2>6, <2>7, Steps
  <1>5. CASE UNCHANGED vars
    BY <1>2, <1>5 DEF vars
  <1>6. QED BY <1>4, <1>5

(* A processor that defers, and that nobody notified, defers to a reservation that is
   still held. *)
THEOREM DeferralsEnd == Spec => []DeferralEnds
  <1>1. Init => DeferralEnds
    BY DEF Init, DeferralEnds, Wired
  <1>2. QED BY <1>1, TypesInit, TypesStep, DeferralStep, PTL DEF Spec

(* What a sleeping processor waits for: a wake, or the end of a debounce window. *)
Timed(d) ==
    proc[d].pc = "idle" /\ ~trig[d] /\ spent.faults = 0 =>
        \A r \in RootsOf(d) :
            Eligible(r) /\ rows[r].age < Debounce =>
                \E n \in timers[d] : rows[r].age + n >= Debounce

(* A processor sleeps on as it did, with no rows stale but those that were. *)
LEMMA SleepsOn ==
    ASSUME NEW d \in Dbs, Timed(d), trig'[d] = trig[d], timers'[d] = timers[d],
           proc'[d].pc = "idle" => proc[d].pc = "idle",
           spent'.faults = 0 => spent.faults = 0,
           \A r \in RootsOf(d) : rows'[r] = rows[r] \/ rows'[r].st # "stale"
    PROVE  Timed(d)'
  <1>1. RootsOf(d)' = RootsOf(d)
    BY DEF RootsOf
  <1>2. QED BY <1>1 DEF Timed, Eligible

(* Time that passes brings the end of the window and the delayed wake closer alike. *)
LEMMA TickSleep ==
    ASSUME Types, NEW d \in Dbs, Timed(d), Tick
    PROVE  Timed(d)'
  <1>1. /\ rows \in [Roots -> RowType] /\ timers \in [Dbs -> SUBSET (0..Debounce)]
        /\ Debounce \in Nat /\ RootsOf(d) \subseteq Roots
    BY SizeAssumption, Homes DEF Types, Fields
  <1>2. /\ UNCHANGED <<proc, trig, spent>>
        /\ timers'[d] = {IF n > 0 THEN n - 1 ELSE 0 : n \in timers[d]}
    BY <1>1 DEF Tick
  <1>3. ASSUME NEW r \in RootsOf(d), proc[d].pc = "idle", ~trig[d], spent.faults = 0,
               rows'[r].st = "stale", rows'[r].errs < MaxRetries, rows'[r].age < Debounce
        PROVE  \E n \in timers'[d] : rows'[r].age + n >= Debounce
    <2>1. rows[r] \in RowType /\ rows[r].age \in 0..Debounce
      BY <1>1 DEF RowType
    <2>2. rows'[r] = IF rows[r].st = "stale" THEN [rows[r] EXCEPT !.age = Older(rows[r].age)]
                     ELSE rows[r]
      BY <1>1 DEF Tick
    <2>3. rows[r].st = "stale" /\ rows'[r] = [rows[r] EXCEPT !.age = Older(rows[r].age)]
      BY <1>3, <2>2
    <2>4. rows'[r].errs = rows[r].errs /\ rows'[r].age = Older(rows[r].age)
      BY <2>1, <2>3 DEF RowType
    <2>5. rows[r].age < Debounce /\ rows'[r].age = rows[r].age + 1
      BY <1>1, <1>3, <2>1, <2>4 DEF Older
    <2>6. PICK n \in timers[d] : rows[r].age + n >= Debounce
      BY <1>3, <2>3, <2>4, <2>5 DEF Timed, Eligible
    <2>7. n \in 0..Debounce /\ n > 0
      BY <1>1, <2>1, <2>5, <2>6
    <2>8. n - 1 \in timers'[d]
      BY <1>2, <2>6, <2>7
    <2>9. rows'[r].age + (n - 1) >= Debounce
      BY <1>1, <2>1, <2>5, <2>6, <2>7
    <2>10. QED BY <2>8, <2>9
  <1>4. RootsOf(d)' = RootsOf(d)
    BY DEF RootsOf
  <1>5. QED BY <1>2, <1>3, <1>4 DEF Timed, Eligible

(* A processor that goes to sleep asks first, and is timed for the longest window. *)
LEMMA AskSleep ==
    ASSUME Types, NEW d \in Dbs, Ask(d)
    PROVE  Timed(d)'
  <1>1. /\ rows \in [Roots -> RowType] /\ timers \in [Dbs -> SUBSET (0..Debounce)]
        /\ Debounce \in Nat /\ RootsOf(d) \subseteq Roots /\ UNCHANGED rows
    BY SizeAssumption, Homes DEF Types, Fields, Ask
  <1>2. RootsOf(d)' = RootsOf(d)
    BY DEF RootsOf
  <1>3. ASSUME NEW r \in RootsOf(d), Eligible(r), rows[r].age < Debounce
        PROVE  Debounce \in timers'[d] /\ rows[r].age + Debounce >= Debounce
    <2>1. Pending(d)
      BY <1>3 DEF Pending
    <2>2. Debounce \in timers'[d]
      BY <1>1, <2>1 DEF Ask
    <2>3. rows[r].age \in 0..Debounce
      BY <1>1 DEF RowType
    <2>4. QED BY <1>1, <2>2, <2>3
  <1>4. QED BY <1>1, <1>2, <1>3 DEF Timed, Eligible

(* The roots whose rows a processor touches are of its database. *)
LEMMA OwnRows ==
    ASSUME Types, NEW d \in Dbs,
           \/ SweepList(d) \/ SweepPlant(d) \/ Wake(d) \/ Acquire(d) \/ Check(d) \/ Notified(d)
           \/ Grant(d) \/ Fetch(d) \/ FetchFails(d) \/ EndBatch(d) \/ Ask(d) \/ AskFails(d)
           \/ (\E r \in Roots : r \in RootsOf(d) /\ ReadAt(d, r))
           \/ ReadRoot(d) \/ Clear(d) \/ Store(d) \/ Fail(d)
    PROVE  \A e \in Dbs \ {d}, r \in Roots : r \in RootsOf(e) => rows'[r] = rows[r]
  <1>1. rows \in [Roots -> RowType] /\ proc[d].todo \subseteq RootsOf(d)
    BY DEF Types, Fields, InHand, Fits
  <1>2. ASSUME NEW q \in RootsOf(d), \A r \in Roots \ {q} : rows'[r] = rows[r]
        PROVE  \A e \in Dbs \ {d}, r \in Roots : r \in RootsOf(e) => rows'[r] = rows[r]
    BY <1>2, Homes
  <1>3. CASE UNCHANGED rows
    BY <1>3
  <1>4. CASE SweepPlant(d)
    <2>1. \A r \in Roots : r \notin proc[d].todo => rows'[r] = rows[r]
      BY <1>4 DEF SweepPlant
    <2>2. QED BY <1>1, <2>1, Homes
  <1>5. CASE Clear(d) \/ Store(d) \/ Fail(d)
    <2>1. proc[d].root \in RootsOf(d)
      BY <1>5, Hands DEF Clear, Store, Fail, At, Holding
    <2>2. \A r \in Roots \ {proc[d].root} : rows'[r] = rows[r]
      <3>1. CASE Clear(d) \/ Store(d)
        BY <1>1, <3>1 DEF Clear, Store
      <3>2. CASE Fail(d)
        <4>1. CASE rows[proc[d].root].st = "none"
          BY <3>2, <4>1 DEF Fail
        <4>2. CASE rows[proc[d].root].st # "none"
          BY <1>1, <3>2, <4>2 DEF Fail
        <4>3. QED BY <4>1, <4>2
      <3>3. QED BY <1>5, <3>1, <3>2
    <2>3. QED BY <1>2, <2>1, <2>2
  <1>6. QED BY <1>3, <1>4, <1>5 DEF SweepList, Wake, Acquire, Check, Notified, Grant, Fetch,
               FetchFails, EndBatch, Ask, AskFails, ReadAt, ReadRoot, KeepData

(* The steps of a processor that leave it awake. *)
LEMMA StaysAwake ==
    ASSUME Types, NEW d \in Dbs,
           \/ SweepList(d) \/ Wake(d) \/ Acquire(d) \/ Check(d) \/ Notified(d) \/ Grant(d)
           \/ Fetch(d) \/ EndBatch(d) \/ (\E r \in Roots : ReadAt(d, r))
           \/ ReadRoot(d) \/ Clear(d) \/ Store(d) \/ Fail(d)
    PROVE  proc'[d].pc # "idle"
  <1>1. proc \in [Dbs -> ProcType] /\ proc[d] \in ProcType
    BY DEF Types, Fields
  <1>2. ASSUME NEW pc, pc # "idle", proc' = Goes(d, pc) PROVE proc'[d].pc # "idle"
    BY <1>1, <1>2 DEF Goes, ProcType
  <1>3. CASE Wake(d) \/ Check(d) \/ Notified(d) \/ Grant(d)
    <2>1. \E pc : pc # "idle" /\ proc' = Goes(d, pc)
      BY <1>3 DEF Wake, Check, Notified, Grant
    <2>2. QED BY <1>2, <2>1
  <1>4. CASE Acquire(d)
    <2>1. CASE active # d
      BY <1>2, <1>4, <2>1 DEF Acquire
    <2>2. CASE active = d
      BY <1>1, <1>4, <2>2 DEF Acquire, ProcType
    <2>3. QED BY <2>1, <2>2
  <1>5. CASE SweepList(d) \/ Fetch(d)
    <2>1. PICK pc \in {"plant", "batch"} : \E todo : proc' = [proc EXCEPT ![d].pc = pc, ![d].todo = todo]
      BY <1>5 DEF SweepList, Fetch
    <2>2. QED BY <1>1, <2>1 DEF ProcType
  <1>6. CASE EndBatch(d)
    <2>1. PICK pc \in {"acquire", "ask"} : ReleaseTo(d, pc)
      BY <1>6 DEF EndBatch
    <2>2. QED BY <1>1, <2>1 DEF ReleaseTo, ProcType
  <1>7. CASE \E r \in Roots : ReadAt(d, r)
    <2>1. PICK r \in Roots : ReadAt(d, r)
      BY <1>7
    <2>2. QED BY <1>1, <2>1 DEF ReadAt, ProcType
  <1>8. CASE ReadRoot(d)
    <2>1. CASE \E pc \in {"fail", "clear"} : proc' = Goes(d, pc)
      BY <1>2, <2>1
    <2>2. CASE \E pc \in {"store", "fail"} : \E text :
                  proc' = [proc EXCEPT ![d].pc = pc, ![d].text = text]
      BY <1>1, <2>2 DEF ProcType
    <2>3. QED BY <1>8, <2>1, <2>2 DEF ReadRoot
  <1>9. CASE Clear(d) \/ Store(d) \/ Fail(d)
    <2>1. \E ok : proc' = RootDone(d, ok)
      BY <1>9 DEF Clear, Store, Fail
    <2>2. QED BY <1>1, <2>1 DEF RootDone, ProcType
  <1>10. QED BY <1>3, <1>4, <1>5, <1>6, <1>7, <1>8, <1>9

(* A processor that sleeps while rows wait for their window is timed, or woken. *)
LEMMA SleepStep == Types /\ SleepIsTimed /\ [Next]_vars => SleepIsTimed'
  <1>. SUFFICES ASSUME Types, SleepIsTimed, [Next]_vars, NEW d \in Dbs PROVE Timed(d)'
    BY DEF SleepIsTimed, Timed
  <1>0. /\ proc \in [Dbs -> ProcType] /\ trig \in [Dbs -> BOOLEAN] /\ rows \in [Roots -> RowType]
        /\ timers \in [Dbs -> SUBSET (0..Debounce)] /\ tasks \in [Tasks -> TaskType]
        /\ spent \in [edits : 0..MaxEdits, faults : 0..MaxFaults]
        /\ Timed(d) /\ RootsOf(d) \subseteq Roots
    BY Homes DEF Types, Fields, SleepIsTimed, Timed
  <1>1. ASSUME trig'[d] \/ proc'[d].pc # "idle" PROVE Timed(d)'
    BY <1>1 DEF Timed
  <1>2. ASSUME spent' = [spent EXCEPT !.faults = @ + 1] PROVE Timed(d)'
    <2>1. spent'.faults # 0
      BY <1>0, <1>2, SizeAssumption
    <2>2. QED BY <2>1 DEF Timed
  <1>3. CASE Next
    <2>1. ASSUME NEW t, NEW r \in Roots,
                 \/ t \in Tasks /\ (Edit(t, r) \/ Archive(t, r) \/ Unarchive(t, r))
                 \/ Delete(r)
          PROVE  Timed(d)'
      <3>1. UNCHANGED <<trig, timers>> /\ spent'.faults = spent.faults
        BY <1>0, <2>1 DEF Edit, Archive, Unarchive, Delete, Edited
      <3>2. CASE UNCHANGED <<rows, proc>>
        BY <1>0, <3>1, <3>2, SleepsOn
      <3>3. CASE RowsDeleted(r)
        <4>1. \A q \in Roots : rows'[q] = rows[q] \/ rows'[q].st # "stale"
          BY <3>3, RowsDeletedTypes DEF NoRows
        <4>2. proc'[d].pc = proc[d].pc
          BY <3>3, HandsAfterDelete
        <4>3. QED BY <1>0, <3>1, <4>1, <4>2, SleepsOn
      <3>4. QED BY <2>1, <3>2, <3>3 DEF Edit, Archive, Unarchive, Delete
    <2>2. ASSUME NEW t \in Tasks, QueueLook(t) \/ RowsUnread(t) \/ QueueFails(t) \/ QueueWrite(t)
          PROVE  Timed(d)'
      <3>1. CASE QueueLook(t)
        <4>1. UNCHANGED <<rows, proc, trig, timers, spent>>
          BY <3>1 DEF QueueLook
        <4>2. QED BY <1>0, <4>1, SleepsOn
      <3>2. CASE RowsUnread(t) \/ QueueFails(t)
        BY <1>2, <3>2 DEF RowsUnread, QueueFails
      <3>3. CASE QueueWrite(t)
        <4>. DEFINE r == tasks[t].root
        <4>1. tasks[t].root \in Roots
          BY <3>3, LineLeave DEF QueueWrite
        <4>2. CASE HomeOf[r] = d
          <5>1. trig'[d]
            BY <1>0, <3>3, <4>2 DEF QueueWrite
          <5>2. QED BY <1>1, <5>1
        <4>3. CASE HomeOf[r] # d
          <5>1. trig'[d] = trig[d] /\ UNCHANGED <<timers, spent>>
            BY <1>0, <3>3, <4>3 DEF QueueWrite
          <5>2. \A q \in RootsOf(d) : q # r
            BY <4>3 DEF RootsOf
          <5>3. CASE Marks(t)
            <6>1. /\ rows' = [rows EXCEPT ![r] = StaleRows(tasks[t].age)]
                  /\ proc' = [e \in Dbs |-> IF proc[e].root = r
                                            THEN [proc[e] EXCEPT !.newer = ~tasks[t].old] ELSE proc[e]]
              BY <3>3, <5>3 DEF QueueWrite, RowsMarked
            <6>2. \A q \in RootsOf(d) : rows'[q] = rows[q]
              BY <1>0, <5>2, <6>1
            <6>3. proc'[d].pc = proc[d].pc
              BY <1>0, <6>1 DEF ProcType
            <6>4. QED BY <1>0, <5>1, <6>2, <6>3, SleepsOn
          <5>4. CASE ~Marks(t)
            <6>1. UNCHANGED <<rows, proc>>
              BY <3>3, <5>4 DEF QueueWrite
            <6>2. QED BY <1>0, <5>1, <6>1, SleepsOn
          <5>5. QED BY <5>3, <5>4
        <4>4. QED BY <4>2, <4>3
      <3>4. QED BY <2>2, <3>1, <3>2, <3>3
    <2>3. ASSUME NEW e \in Dbs, FetchFails(e) \/ AskFails(e) PROVE Timed(d)'
      BY <1>2, <2>3 DEF FetchFails, AskFails
    <2>4. ASSUME NEW e \in Dbs, e # d,
                 \/ SweepList(e) \/ SweepPlant(e) \/ Wake(e) \/ Acquire(e) \/ Check(e) \/ Notified(e)
                 \/ Grant(e) \/ Fetch(e) \/ EndBatch(e) \/ Ask(e)
                 \/ (\E r \in Roots : r \in RootsOf(e) /\ ReadAt(e, r))
                 \/ ReadRoot(e) \/ Clear(e) \/ Store(e) \/ Fail(e)
          PROVE  Timed(d)'
      <3>1. proc'[d] = proc[d] /\ \A r \in RootsOf(d) : rows'[r] = rows[r]
        BY <1>0, <2>4, NoNews, OwnRows
      <3>2. trig'[d] = trig[d] /\ timers'[d] = timers[d] /\ UNCHANGED spent
        BY <1>0, <2>4 DEF SweepList, SweepPlant, Wake, Acquire, Check, Notified, Grant, Fetch, EndBatch,
                          Ask, ReadAt, ReadRoot, Clear, Store, Fail, KeepData
      <3>3. QED BY <1>0, <3>1, <3>2, SleepsOn
    <2>5. CASE \/ SweepList(d) \/ Wake(d) \/ Acquire(d) \/ Check(d) \/ Notified(d) \/ Grant(d)
               \/ Fetch(d) \/ EndBatch(d) \/ (\E r \in Roots : ReadAt(d, r))
               \/ ReadRoot(d) \/ Clear(d) \/ Store(d) \/ Fail(d)
      BY <1>1, <2>5, StaysAwake
    <2>6. CASE SweepPlant(d)
      <3>1. trig'[d]
        BY <1>0, <2>6 DEF SweepPlant
      <3>2. QED BY <1>1, <3>1
    <2>7. CASE Ask(d)
      BY <2>7, AskSleep
    <2>8. CASE \/ \E e \in Busy : Nudge(e)
               \/ \E e \in Dbs : TimerFires(e)
      <3>1. UNCHANGED <<rows, proc, spent>>
        BY <2>8 DEF Nudge, TimerFires
      <3>2. trig'[d] \/ (trig'[d] = trig[d] /\ timers'[d] = timers[d])
        BY <1>0, <2>8 DEF Nudge, TimerFires
      <3>3. QED BY <1>0, <1>1, <3>1, <3>2, SleepsOn
    <2>9. CASE \E s \in Streams : OpenStream(s) \/ CloseStream(s)
      <3>1. UNCHANGED <<rows, proc, trig, timers, spent>>
        BY <2>9 DEF OpenStream, CloseStream, KeepData
      <3>2. QED BY <1>0, <3>1, SleepsOn
    <2>10. CASE Tick
      BY <1>0, <2>10, TickSleep
    <2>11. CASE Crash
      BY <1>2, <2>11 DEF Crash
    <2>12. QED BY <1>3, <2>1, <2>2, <2>3, <2>4, <2>5, <2>6, <2>7, <2>8, <2>9, <2>10, <2>11, Steps
  <1>4. CASE UNCHANGED vars
    <2>1. UNCHANGED <<rows, proc, trig, timers, spent>>
      BY <1>4 DEF vars
    <2>2. QED BY <1>0, <2>1, SleepsOn
  <1>5. QED BY <1>3, <1>4

(* While no query failed and the daemon did not crash, a processor that sleeps with a
   root inside its debounce window has a delayed wake that fires after the window. *)
THEOREM SleepersAreTimed == Spec => []SleepIsTimed
  <1>1. Init => SleepIsTimed
    BY DEF Init, SleepIsTimed, Wired
  <1>2. QED BY <1>1, TypesInit, TypesStep, SleepStep, PTL DEF Spec

=============================================================================
