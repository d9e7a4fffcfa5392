------------------------- MODULE EmbeddingPipeline -------------------------
(* The embedding pipeline of the daemon: every open database has a processor
   that re-embeds the roots whose text changed, and all of them share one model
   through EmbeddingScheduler, which puts the database with a live edit stream
   first.

   An edit commits, and only afterwards a task of its own marks the root's
   embedding rows stale and wakes the processor. The processor reads a root,
   runs the model, and stores the vectors, while further edits, archivals and
   marks land between these steps. Nothing but the nodes and the embedding rows
   survives a crash.

   Left out: chunking and the vectors themselves (a row holds the version of the
   text it embeds), searching, and several chunks per root. A row is in the
   vector index exactly when it is fresh: every statement that changes one
   changes the other in the same transaction. *)
EXTENDS Integers, FiniteSets, Sequences

CONSTANTS
    Dbs,            \* the open databases
    Roots,          \* the embedding roots, all of an embeddable type
    Streams,        \* WatchNodes streams clients may open, each at most once
    HomeOf,         \* the database a root or a stream belongs to
    Flickering,     \* roots that users may empty, archive and bring back
    Busy,           \* databases whose other trees users may edit without end
    Tasks,          \* marking tasks that can be under way at once
    BatchSize,      \* BATCH_SIZE of process_until_empty
    MaxRetries,     \* EmbeddingConfig::max_retries
    Debounce,       \* EmbeddingConfig::debounce_duration_secs, in ticks
    MaxEdits,       \* bound: edits, archivals, unarchivals and deletions
    MaxFaults,      \* bound: store calls that fail and crashes of the daemon
    None

ASSUME HomeAssumption == \A x \in Roots \cup Streams : HomeOf[x] \in Dbs
ASSUME SizeAssumption == /\ BatchSize \in Nat \ {0} /\ MaxRetries \in Nat \ {0}
                         /\ Debounce \in Nat \ {0}
                         /\ MaxEdits \in Nat /\ MaxFaults \in Nat
ASSUME DbsAssumption == IsFiniteSet(Dbs) /\ None \notin Dbs \cup Roots

VARIABLES
    nodes,      \* root -> its life, the version of its text, and whether that is blank
    rows,       \* root -> its embedding rows: state, failures, age, version embedded
                \* (as history, the version last failed on while they are stale)
    tasks,      \* the marking tasks
    line,       \* the tasks in line for the writer, in the order they joined
    proc,       \* database -> its processor
    trig,       \* database -> a wake waits in the trigger channel
    timers,     \* database -> ticks left on each delayed wake
    active,     \* the database the scheduler calls active, or None
    stream,     \* stream -> new, open or closed
    gateQueue,  \* processors in line for the gate's permit
    note,       \* database -> its deferred processor was notified
    spent,      \* edits and faults used up
    lost        \* history: roots whose mark a fault or an ignored insert lost

vars == <<nodes, rows, tasks, line, proc, trig, timers, active, stream, gateQueue, note,
          spent, lost>>

----------------------------------------------------------------------------
(* Records *)

NoRows == [st |-> "none", errs |-> 0, age |-> 0, text |-> 0]
StaleRows(age) == [st |-> "stale", errs |-> 0, age |-> age, text |-> 0]
FreshRows(text) == [st |-> "fresh", errs |-> 0, age |-> 0, text |-> text]

IdleTask == [pc |-> "idle", root |-> None, has |-> FALSE, old |-> FALSE, age |-> 0]
LookTask(r) == [IdleTask EXCEPT !.pc = "look", !.root = r]

(* A processor just wired: it sweeps for unembedded roots, then wakes itself. *)
Wired == [pc |-> "list", todo |-> {}, done |-> FALSE, root |-> None, text |-> 0,
          newer |-> FALSE, res |-> FALSE]

RootsOf(d) == {r \in Roots : HomeOf[r] = d}

(* The processor that holds the permit runs one batch with it. *)
InBatch(d) == proc[d].pc \in {"fetch", "batch", "read", "clear", "store", "fail"}

(* high_waiters: reservations of the active database that are not dropped. *)
HighWaiters == Cardinality({d \in Dbs : proc[d].res})

Queueing(r) == \E t \in Tasks : tasks[t].root = r

----------------------------------------------------------------------------
(* What the queries return *)

Eligible(r) == rows[r].st = "stale" /\ rows[r].errs < MaxRetries

(* Mutant of Due: the retry limit is not asked for. *)
DueForever(d) ==
    {r \in RootsOf(d) : rows[r].st = "stale" /\ rows[r].age >= Debounce}

(* get_stale_embedding_root_ids: the rows past their debounce window. *)
Due(d) == {r \in RootsOf(d) : Eligible(r) /\ rows[r].age >= Debounce}

(* Mutant of Pending: a root that failed once is not waited for. *)
PendingUnfailed(d) ==
    \E r \in RootsOf(d) : Eligible(r) /\ rows[r].errs = 0 /\ rows[r].age < Debounce

(* has_pending_stale_embeddings: rows still inside their window. *)
Pending(d) == \E r \in RootsOf(d) : Eligible(r) /\ rows[r].age < Debounce

(* get_unembedded_root_ids, then the behaviour's choice: blank text is none. *)
Unembedded(d) ==
    {r \in RootsOf(d) : nodes[r].life = "live" /\ rows[r].st = "none" /\ ~nodes[r].blank}

----------------------------------------------------------------------------
Init ==
    /\ nodes = [r \in Roots |-> [life |-> "live", text |-> 0, blank |-> FALSE]]
    /\ rows = [r \in Roots |-> FreshRows(0)]
    /\ tasks = [t \in Tasks |-> IdleTask]
    /\ line = <<>>
    /\ proc = [d \in Dbs |-> Wired]
    /\ trig = [d \in Dbs |-> FALSE]
    /\ timers = [d \in Dbs |-> {}]
    /\ active = None
    /\ stream = [s \in Streams |-> "new"]
    /\ gateQueue = <<>>
    /\ note = [d \in Dbs |-> FALSE]
    /\ spent = [edits |-> 0, faults |-> 0]
    /\ lost = {}

----------------------------------------------------------------------------
(* Writes of users, and the marking task each of them leaves behind *)

CanEdit == spent.edits < MaxEdits
Edited == spent' = [spent EXCEPT !.edits = @ + 1]
KeepScheduler == UNCHANGED <<active, stream, gateQueue, note>>

(* The rows of r are gone, and with them any mark newer than a read under way. *)
RowsDeleted(r) ==
    /\ rows' = [rows EXCEPT ![r] = NoRows]
    /\ proc' = [d \in Dbs |-> IF proc[d].root = r THEN [proc[d] EXCEPT !.newer = FALSE]
                              ELSE proc[d]]

(* update_node: the text of a tree changes; a spawned task marks its root. *)
Edit(t, r) ==
    /\ CanEdit /\ Edited
    /\ tasks[t].pc = "idle" /\ nodes[r].life # "gone"
    /\ \E b \in (IF r \in Flickering THEN BOOLEAN ELSE {FALSE}) :
           nodes' = [nodes EXCEPT ![r].text = @ + 1, ![r].blank = b]
    /\ tasks' = [tasks EXCEPT ![t] = LookTask(r)]
    /\ UNCHANGED <<rows, line, proc, trig, timers, lost>> /\ KeepScheduler

(* Archiving takes the node out of the vector index in the same transaction. *)
Archive(t, r) ==
    /\ CanEdit /\ Edited
    /\ tasks[t].pc = "idle" /\ r \in Flickering /\ nodes[r].life = "live"
    /\ nodes' = [nodes EXCEPT ![r].life = "archived"]
    /\ RowsDeleted(r)
    /\ tasks' = [tasks EXCEPT ![t] = LookTask(r)]
    /\ UNCHANGED <<line, trig, timers, lost>> /\ KeepScheduler

Unarchive(t, r) ==
    /\ CanEdit /\ Edited
    /\ tasks[t].pc = "idle" /\ nodes[r].life = "archived"
    /\ nodes' = [nodes EXCEPT ![r].life = "live"]
    /\ tasks' = [tasks EXCEPT ![t] = LookTask(r)]
    /\ UNCHANGED <<rows, line, proc, trig, timers, lost>> /\ KeepScheduler

(* delete_node of the root itself: its rows go with it and nothing is queued. *)
Delete(r) ==
    /\ CanEdit /\ Edited
    /\ nodes[r].life # "gone"
    /\ nodes' = [nodes EXCEPT ![r].life = "gone"]
    /\ RowsDeleted(r)
    /\ UNCHANGED <<tasks, line, trig, timers, lost>> /\ KeepScheduler

----------------------------------------------------------------------------
(* queue_root_for_embedding_async *)

(* The reads: a root that is archived or gone is not queued. The mark takes its
   timestamp and joins the line for the writer. *)
QueueLook(t) ==
    LET r == tasks[t].root
        live == nodes[r].life = "live"
    IN /\ tasks[t].pc = "look"
       /\ tasks' = [tasks EXCEPT ![t] =
              IF live THEN [@ EXCEPT !.pc = "write", !.has = rows[r].st # "none"]
              ELSE IdleTask]
       /\ line' = IF live THEN Append(line, t) ELSE line
       /\ UNCHANGED <<nodes, rows, proc, trig, timers, spent, lost>>
       /\ KeepScheduler

(* has_embeddings fails: logged, and taken for a root without rows. *)
RowsUnread(t) ==
    /\ tasks[t].pc = "look" /\ nodes[tasks[t].root].life = "live"
    /\ spent.faults < MaxFaults
    /\ spent' = [spent EXCEPT !.faults = @ + 1]
    /\ tasks' = [tasks EXCEPT ![t].pc = "write"]
    /\ line' = Append(line, t)
    /\ UNCHANGED <<nodes, rows, proc, trig, timers, lost>> /\ KeepScheduler

(* Another read, or the write of the mark, fails: logged, and the root is not
   queued. *)
QueueFails(t) ==
    /\ \/ tasks[t].pc = "look" /\ line' = line
       \/ line # <<>> /\ t = Head(line) /\ line' = Tail(line)
    /\ spent.faults < MaxFaults
    /\ spent' = [spent EXCEPT !.faults = @ + 1]
    /\ lost' = lost \cup {tasks[t].root}
    /\ tasks' = [tasks EXCEPT ![t] = IdleTask]
    /\ UNCHANGED <<nodes, rows, proc, trig, timers>> /\ KeepScheduler

(* mark_root_embedding_stale updates the rows there are; the marker of
   create_stale_embedding_marker is inserted only if there are none, and only
   for a node that participates. *)
Marks(t) ==
    LET r == tasks[t].root
    IN IF tasks[t].has THEN rows[r].st # "none"
       ELSE rows[r].st = "none" /\ nodes[r].life = "live"

(* Mutant of RowsMarked: the failures of the old text are kept. *)
RowsMarkedKeepErrors(t) ==
    [rows EXCEPT ![tasks[t].root] = [StaleRows(tasks[t].age) EXCEPT !.errs = rows[tasks[t].root].errs]]

RowsMarked(t) == [rows EXCEPT ![tasks[t].root] = StaleRows(tasks[t].age)]

(* A read of r under way that began after the mark took its timestamp: the mark does
   not make it read again what was edited since. *)
Overtaken(t, r) == tasks[t].old /\ \E d \in Dbs : proc[d].root = r

(* Once the write has committed the processor is woken. A read of the root that
   began before the mark took its timestamp is older than the rows now. A marker
   that meets rows stored since the look is ignored, and the mark with it. *)
QueueWrite(t) ==
    LET r == tasks[t].root
    IN /\ line # <<>> /\ t = Head(line)
       /\ IF Marks(t)
          THEN /\ rows' = RowsMarked(t)
               /\ proc' = [d \in Dbs |-> IF proc[d].root = r
                                        THEN [proc[d] EXCEPT !.newer = ~tasks[t].old]
                                        ELSE proc[d]]
               /\ lost' = IF Overtaken(t, r) THEN lost ELSE lost \ {r}
          ELSE /\ lost' = IF rows[r].st = "none" THEN lost ELSE lost \cup {r}
               /\ UNCHANGED <<rows, proc>>
       /\ trig' = [trig EXCEPT ![HomeOf[r]] = TRUE]
       /\ tasks' = [tasks EXCEPT ![t] = IdleTask]
       /\ line' = Tail(line)
       /\ UNCHANGED <<nodes, timers, spent>> /\ KeepScheduler

(* Another tree of the database is edited, whose own rows are not followed
   here: all that is left of it is the wake. *)
Nudge(d) ==
    /\ ~trig[d]
    /\ trig' = [trig EXCEPT ![d] = TRUE]
    /\ UNCHANGED <<nodes, rows, tasks, line, proc, timers, spent, lost>> /\ KeepScheduler

----------------------------------------------------------------------------
(* Streams: WatchNodes opens and ends, ActiveDbGuard *)

KeepData == UNCHANGED <<nodes, rows, tasks, line, timers, spent, lost>>

OpenStream(s) ==
    /\ stream[s] = "new"
    /\ stream' = [stream EXCEPT ![s] = "open"]
    /\ active' = HomeOf[s]
    /\ KeepData /\ UNCHANGED <<proc, trig, gateQueue, note>>

(* clear_active_if: the claim goes only if it still names this database. *)
CloseStream(s) ==
    /\ stream[s] = "open"
    /\ stream' = [stream EXCEPT ![s] = "closed"]
    /\ active' = IF active = HomeOf[s] THEN None ELSE active
    /\ KeepData /\ UNCHANGED <<proc, trig, gateQueue, note>>

----------------------------------------------------------------------------
(* EmbeddingScheduler::acquire, and the drop of its permit *)

At(d, pc) == proc[d].pc = pc
Goes(d, pc) == [proc EXCEPT ![d].pc = pc]

(* The active database reserves before it joins the line for the gate; another
   one enables its notification before it looks at the reservations. *)
Acquire(d) ==
    /\ At(d, "acquire")
    /\ IF active = d
       THEN /\ proc' = [proc EXCEPT ![d].pc = "gate", ![d].res = TRUE]
            /\ gateQueue' = Append(gateQueue, d)
            /\ UNCHANGED note
       ELSE /\ proc' = Goes(d, "check")
            /\ note' = [note EXCEPT ![d] = FALSE]
            /\ UNCHANGED gateQueue
    /\ KeepData /\ UNCHANGED <<trig, active, stream>>

Check(d) ==
    /\ At(d, "check")
    /\ IF HighWaiters = 0
       THEN proc' = Goes(d, "gate") /\ gateQueue' = Append(gateQueue, d)
       ELSE proc' = Goes(d, "parked") /\ UNCHANGED gateQueue
    /\ KeepData /\ UNCHANGED <<trig, active, stream, note>>

Notified(d) ==
    /\ At(d, "parked") /\ note[d]
    /\ proc' = Goes(d, "check")
    /\ note' = [note EXCEPT ![d] = FALSE]
    /\ KeepData /\ UNCHANGED <<trig, active, stream, gateQueue>>

(* The semaphore is fair: its one permit goes to the head of the line. *)
Grant(d) ==
    /\ gateQueue # <<>> /\ d = Head(gateQueue)
    /\ \A e \in Dbs : ~InBatch(e)
    /\ proc' = Goes(d, "fetch")
    /\ gateQueue' = Tail(gateQueue)
    /\ KeepData /\ UNCHANGED <<trig, active, stream, note>>

(* Mutant of Woken: the permit is dropped without notify_waiters. *)
WokenNobody(d) == note

(* Dropping the reservation notifies every processor that deferred to it. *)
Woken(d) ==
    IF proc[d].res THEN [e \in Dbs |-> note[e] \/ proc[e].pc \in {"check", "parked"}]
    ELSE note

(* The batch is over: the permit and the reservation are dropped. *)
ReleaseTo(d, pc) ==
    /\ proc' = [proc EXCEPT ![d].pc = pc, ![d].res = FALSE, ![d].done = FALSE]
    /\ note' = Woken(d)
    /\ UNCHANGED <<active, stream, gateQueue>>

----------------------------------------------------------------------------
(* The processor: wire_database_embeddings_bg, then the task of
   EmbeddingProcessor::new and process_until_empty *)

(* The startup sweep lists the roots without rows, then plants their markers. *)
SweepList(d) ==
    /\ At(d, "list")
    /\ proc' = [proc EXCEPT ![d].pc = "plant", ![d].todo = Unembedded(d)]
    /\ UNCHANGED trig /\ KeepData /\ KeepScheduler

(* The insert ignores a root that has rows by now, and fails as a whole if one
   of the nodes is gone (the foreign key); either way the processor is woken. *)
SweepPlant(d) ==
    /\ At(d, "plant")
    /\ rows' = [r \in Roots |->
           IF r \in proc[d].todo /\ rows[r].st = "none"
              /\ \A q \in proc[d].todo : nodes[q].life # "gone"
           THEN StaleRows(0) ELSE rows[r]]
    /\ proc' = [proc EXCEPT ![d].pc = "idle", ![d].todo = {}]
    /\ trig' = [trig EXCEPT ![d] = TRUE]
    /\ UNCHANGED <<nodes, tasks, line, timers, spent, lost>> /\ KeepScheduler

(* Mutant of Wake: the draining loop swallows the trigger that was received. *)
WakeSwallowed(d) ==
    /\ At(d, "idle") /\ trig[d]
    /\ trig' = [trig EXCEPT ![d] = FALSE]
    /\ UNCHANGED proc
    /\ KeepData /\ KeepScheduler

(* A trigger is received and every further one drained with it. *)
Wake(d) ==
    /\ At(d, "idle") /\ trig[d]
    /\ trig' = [trig EXCEPT ![d] = FALSE]
    /\ proc' = Goes(d, "acquire")
    /\ KeepData /\ KeepScheduler

(* process_stale_embeddings takes a batch of the roots that are due. *)
Fetch(d) ==
    /\ At(d, "fetch")
    /\ \E batch \in SUBSET Due(d) :
           /\ Cardinality(batch) =
                  IF Cardinality(Due(d)) < BatchSize THEN Cardinality(Due(d)) ELSE BatchSize
           /\ proc' = [proc EXCEPT ![d].pc = "batch", ![d].todo = batch]
    /\ UNCHANGED trig /\ KeepData /\ KeepScheduler

(* The query fails: processing stops until the next wake. *)
FetchFails(d) ==
    /\ At(d, "fetch") /\ spent.faults < MaxFaults
    /\ spent' = [spent EXCEPT !.faults = @ + 1]
    /\ ReleaseTo(d, "idle")
    /\ UNCHANGED <<nodes, rows, tasks, line, trig, timers, lost>>

(* embed_root_node takes read_at before it reads anything: a mark that took its
   timestamp earlier does not count as newer. *)
ReadAt(d, r) ==
    /\ At(d, "batch") /\ r \in proc[d].todo
    /\ proc' = [proc EXCEPT ![d].pc = "read", ![d].root = r, ![d].newer = FALSE,
                            ![d].todo = @ \ {r}]
    /\ tasks' = [t \in Tasks |-> IF tasks[t].pc = "write" /\ tasks[t].root = r
                                 THEN [tasks[t] EXCEPT !.old = TRUE] ELSE tasks[t]]
    /\ UNCHANGED <<nodes, rows, line, trig, timers, spent, lost>> /\ KeepScheduler

(* The node and its tree are read, and the model run on the text, which may
   fail. A node that is gone is an error; an archived or blank one has no
   content. *)
ReadRoot(d) ==
    LET n == nodes[proc[d].root]
    IN /\ At(d, "read")
       /\ \/ /\ n.life = "gone"
             /\ proc' = Goes(d, "fail")
          \/ /\ n.life # "gone" /\ (n.life = "archived" \/ n.blank)
             /\ proc' = Goes(d, "clear")
          \/ /\ n.life = "live" /\ ~n.blank
             /\ \E pc \in {"store", "fail"} :
                    proc' = [proc EXCEPT ![d].pc = pc, ![d].text = n.text]
       /\ UNCHANGED trig /\ KeepData /\ KeepScheduler

RootDone(d, ok) ==
    [proc EXCEPT ![d].pc = "batch", ![d].root = None, ![d].text = 0,
                 ![d].newer = FALSE, ![d].done = @ \/ ok]

(* Nothing to embed: the rows are deleted, whatever was written to them since. *)
Clear(d) ==
    /\ At(d, "clear")
    /\ rows' = [rows EXCEPT ![proc[d].root] = NoRows]
    /\ proc' = RootDone(d, TRUE)
    /\ UNCHANGED <<nodes, tasks, line, trig, timers, spent, lost>> /\ KeepScheduler

(* Mutant of Stored: a mark that landed during the read is overwritten. *)
StoredOverMark(d) ==
    IF nodes[proc[d].root].life = "live" THEN FreshRows(proc[d].text) ELSE NoRows

(* Mutant of Stored: the old rows are deleted before the check for newer ones. *)
StoredAfterDelete(d) ==
    IF ~proc[d].newer /\ nodes[proc[d].root].life = "live"
    THEN FreshRows(proc[d].text) ELSE NoRows

(* Mutant of Stored: participation is not checked again. *)
StoredUnchecked(d) ==
    IF proc[d].newer THEN rows[proc[d].root] ELSE FreshRows(proc[d].text)

(* upsert_embeddings: rows written since the read stay, and a node that does not
   participate any more is left without rows. *)
Stored(d) ==
    IF proc[d].newer THEN rows[proc[d].root]
    ELSE IF nodes[proc[d].root].life = "live" THEN FreshRows(proc[d].text)
    ELSE NoRows

Store(d) ==
    /\ At(d, "store")
    /\ rows' = [rows EXCEPT ![proc[d].root] = Stored(d)]
    /\ lost' = IF ~proc[d].newer /\ proc[d].text = nodes[proc[d].root].text
               THEN lost \ {proc[d].root} ELSE lost
    /\ proc' = RootDone(d, TRUE)
    /\ UNCHANGED <<nodes, tasks, line, trig, timers, spent>> /\ KeepScheduler

(* record_embedding_error: one failure more, and a new debounce window, for a root
   that has rows. *)
Fail(d) ==
    LET r == proc[d].root
    IN /\ At(d, "fail")
       /\ rows' = IF rows[r].st = "none" THEN rows
                  ELSE [rows EXCEPT ![r].errs = @ + 1, ![r].age = 0, ![r].text = proc[d].text]
       /\ proc' = RootDone(d, FALSE)
       /\ UNCHANGED <<nodes, tasks, line, trig, timers, spent, lost>> /\ KeepScheduler

(* A batch in which nothing succeeded ends the run like an empty one. *)
EndBatch(d) ==
    /\ At(d, "batch") /\ proc[d].todo = {}
    /\ ReleaseTo(d, IF proc[d].done THEN "acquire" ELSE "ask")
    /\ UNCHANGED trig /\ KeepData

(* Rows inside their debounce window get a delayed wake. *)
Ask(d) ==
    /\ At(d, "ask")
    /\ timers' = IF Pending(d) THEN [timers EXCEPT ![d] = @ \cup {Debounce}] ELSE timers
    /\ proc' = Goes(d, "idle")
    /\ UNCHANGED <<nodes, rows, tasks, line, trig, spent, lost>> /\ KeepScheduler

AskFails(d) ==
    /\ At(d, "ask") /\ spent.faults < MaxFaults
    /\ spent' = [spent EXCEPT !.faults = @ + 1]
    /\ proc' = Goes(d, "idle")
    /\ UNCHANGED <<nodes, rows, tasks, line, trig, timers, lost>> /\ KeepScheduler

TimerFires(d) ==
    /\ 0 \in timers[d]
    /\ timers' = [timers EXCEPT ![d] = @ \ {0}]
    /\ trig' = [trig EXCEPT ![d] = TRUE]
    /\ UNCHANGED <<nodes, rows, tasks, line, proc, spent, lost>> /\ KeepScheduler

----------------------------------------------------------------------------
(* Time and crashes *)

(* A tick: marks age, and the delayed wakes come closer. Rows and stamped marks
   past their window stay so. *)
Older(age) == IF age < Debounce THEN age + 1 ELSE age

Tick ==
    /\ rows' = [r \in Roots |->
           IF rows[r].st = "stale" THEN [rows[r] EXCEPT !.age = Older(@)] ELSE rows[r]]
    /\ tasks' = [t \in Tasks |->
           IF tasks[t].pc = "write" THEN [tasks[t] EXCEPT !.age = Older(@)] ELSE tasks[t]]
    /\ timers' = [d \in Dbs |-> {IF n > 0 THEN n - 1 ELSE 0 : n \in timers[d]}]
    /\ UNCHANGED <<nodes, line, proc, trig, spent, lost>> /\ KeepScheduler

(* The daemon dies and is started again: marks not yet written are lost with
   the tasks that were to write them, and every database is wired anew. *)
Crash ==
    /\ spent.faults < MaxFaults
    /\ spent' = [spent EXCEPT !.faults = @ + 1]
    /\ lost' = lost \cup {tasks[t].root : t \in {u \in Tasks : tasks[u].pc # "idle"}}
    /\ tasks' = [t \in Tasks |-> IdleTask]
    /\ line' = <<>>
    /\ proc' = [d \in Dbs |-> Wired]
    /\ trig' = [d \in Dbs |-> FALSE]
    /\ timers' = [d \in Dbs |-> {}]
    /\ active' = None
    /\ stream' = [s \in Streams |-> IF stream[s] = "open" THEN "closed" ELSE stream[s]]
    /\ gateQueue' = <<>>
    /\ note' = [d \in Dbs |-> FALSE]
    /\ UNCHANGED <<nodes, rows>>

----------------------------------------------------------------------------
Users ==
    \/ \E t \in Tasks, r \in Roots : Edit(t, r) \/ Archive(t, r) \/ Unarchive(t, r)
    \/ \E r \in Roots : Delete(r)
    \/ \E d \in Busy : Nudge(d)
    \/ \E s \in Streams : OpenStream(s) \/ CloseStream(s)

TaskStep(t) == QueueLook(t) \/ RowsUnread(t) \/ QueueFails(t) \/ QueueWrite(t)

ProcStep(d) ==
    \/ SweepList(d) \/ SweepPlant(d) \/ Wake(d)
    \/ Acquire(d) \/ Check(d) \/ Notified(d) \/ Grant(d)
    \/ Fetch(d) \/ FetchFails(d) \/ EndBatch(d) \/ Ask(d) \/ AskFails(d)
    \/ \E r \in RootsOf(d) : ReadAt(d, r)
    \/ ReadRoot(d) \/ Clear(d) \/ Store(d) \/ Fail(d)

Next ==
    \/ Users
    \/ \E t \in Tasks : TaskStep(t)
    \/ \E d \in Dbs : ProcStep(d) \/ TimerFires(d)
    \/ Tick
    \/ Crash

Spec == Init /\ [][Next]_vars

(* The runtime runs every task that is ready, and time passes; users, faults
   and crashes owe nothing. *)
Fairness ==
    /\ \A t \in Tasks : WF_vars(TaskStep(t))
    /\ \A d \in Dbs : WF_vars(ProcStep(d))
    /\ WF_vars(Tick)

FairSpec == Spec /\ Fairness

----------------------------------------------------------------------------
(* Properties *)

(* Every variable holds a value of its kind, and a root's failures never pass
   the retry limit. *)
TypeOK ==
    /\ nodes \in [Roots -> [life : {"live", "archived", "gone"}, text : 0..MaxEdits,
                            blank : BOOLEAN]]
    /\ rows \in [Roots -> [st : {"none", "stale", "fresh"}, errs : 0..MaxRetries,
                           age : 0..Debounce, text : 0..MaxEdits]]
    /\ tasks \in [Tasks -> [pc : {"idle", "look", "write"}, root : Roots \cup {None},
                            has : BOOLEAN, old : BOOLEAN, age : 0..Debounce]]
    /\ proc \in [Dbs -> [pc : {"list", "plant", "idle", "acquire", "check", "parked",
                               "gate", "fetch", "batch", "read", "clear", "store",
                               "fail", "ask"},
                         todo : SUBSET Roots, done : BOOLEAN, root : Roots \cup {None},
                         text : 0..MaxEdits, newer : BOOLEAN, res : BOOLEAN]]
    /\ line \in Seq(Tasks) /\ gateQueue \in Seq(Dbs)
    /\ trig \in [Dbs -> BOOLEAN] /\ note \in [Dbs -> BOOLEAN]
    /\ timers \in [Dbs -> SUBSET (0..Debounce)]
    /\ active \in Dbs \cup {None}
    /\ stream \in [Streams -> {"new", "open", "closed"}]
    /\ spent \in [edits : 0..MaxEdits, faults : 0..MaxFaults]
    /\ lost \subseteq Roots

(* Vectors stored as fresh embed the text the tree has now, or a mark for the
   text that changed since is on its way, however edits interleave with reading
   and inference (embed_root_node and upsert_embeddings: read_at). The exception
   is a mark that failed, died in a crash, or was inserted as a marker over rows
   that were stored after its task had found none. *)
FreshIsCurrent ==
    \A r \in Roots :
        rows[r].st = "fresh" =>
            rows[r].text = nodes[r].text \/ Queueing(r) \/ r \in lost

(* An archived or deleted root is not in the vector index, even when inference
   on it was running while it was archived (ADR-087: an archived node "is not
   filtered out of semantic results, it has none"). *)
ArchivedNotSearched ==
    \A r \in Roots : rows[r].st = "fresh" => nodes[r].life = "live"

(* A live root whose text was never emptied and which was never archived keeps
   rows, fresh or stale, through edits, failures and crashes: it is never
   dropped from the pipeline. *)
NeverForgotten ==
    \A r \in Roots \ Flickering : nodes[r].life = "live" => rows[r].st # "none"

(* A root is given up only for the text it has: when its retries are used up
   and no mark is on its way, the last failure was on its current text
   (mark_root_embedding_stale: "a node that used up its retries is embedded
   again once it is edited"). *)
GivenUpOnCurrentText ==
    \A r \in Roots :
        /\ nodes[r].life = "live" /\ rows[r].st = "stale" /\ rows[r].errs = MaxRetries
        /\ ~Queueing(r) /\ r \notin lost
        => rows[r].text = nodes[r].text

(* A deferred processor that nobody notified defers to a reservation that still
   exists: draining the active backlog is never missed (acquire: "an active
   batch that drains between the check and the await cannot be missed"). *)
DeferralEnds ==
    \A d \in Dbs : proc[d].pc = "parked" /\ ~note[d] => HighWaiters > 0

(* A processor that sleeps with a root still inside its debounce window has a
   delayed wake that fires once the window is over, as long as no query of it
   failed. *)
SleepIsTimed ==
    \A d \in Dbs :
        proc[d].pc = "idle" /\ ~trig[d] /\ spent.faults = 0 =>
            \A r \in RootsOf(d) :
                Eligible(r) /\ rows[r].age < Debounce =>
                    \E n \in timers[d] : rows[r].age + n >= Debounce

(* A database in which other trees are edited again and again, each edit a wake
   of its processor, ends with every root embedded or given up, if from some
   time on no other database is the active one. *)
EventuallyEmbedded ==
    \A d \in Busy :
        <>[](active \in {d, None}) /\ []<><<Nudge(d)>>_vars =>
            <>[](\A r \in RootsOf(d) : ~Eligible(r))

=============================================================================
