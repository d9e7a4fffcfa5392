------------------------ MODULE DatabaseManagerProofs ------------------------
(***************************************************************************)
(* Proofs about DatabaseManager, for every set of ids, paths, service sets,*)
(* mutexes and clients: types and who holds which lock, the registry and   *)
(* the files of its entries, and that one reachable service set serves a   *)
(* registered database, whichever requests their clients drop.             *)
(***************************************************************************)
EXTENDS DatabaseManager, TLAPS

(* The types of the variables but task. *)
Fields ==
    /\ path \in [Ids -> Paths \cup {None}]
    /\ default \in Ids \cup {None}
    /\ minted \subseteq Ids
    /\ writer \in Clients \cup {None}
    /\ open \in [Ids -> Sets \cup {None}]
    /\ activity \in [Ids -> {"none", "fresh", "idle"}]
    /\ opening \in [Ids -> Locks \cup {None}]
    /\ holder \in [Locks -> Clients \cup {None}]
    /\ creator \in Clients \cup {None}
    /\ files \subseteq Paths
    /\ home \in [Sets -> Ids \cup {None}]
    /\ phase \in [Sets -> {"new", "live", "stopping", "stopped"}]
    /\ turns \subseteq Sets
    /\ abandoned \subseteq Sets
    /\ met \subseteq Paths
    /\ jobs \subseteq [set : Sets, path : Paths, unlink : BOOLEAN]
    /\ task \in [Tasks -> TaskRecords]
    /\ victims \subseteq Ids \X Sets
    /\ mode \in {"serving", "draining", "closing", "down"}
    /\ calls \in 0..MaxCalls

-----------------------------------------------------------------------------
(* Where a task can stand *)

(* The places of a request by its operation, and what it holds there. *)
Sound(k) ==
    /\ k \in TaskRecords
    /\ k.at = "idle" <=> k.op = None
    /\ k.at = "idle" => k = IdleTask
    /\ k.op = "open" => k.at \in {"lookup", "await_lock", "recheck", "resolve", "build",
                                  "publish", "touch", "stop", "rest"}
    /\ k.op = "create" => k.at \in {"await_create", "check_paths", "create_file", "seed",
                                    "await_registry", "saving", "cache", "touch", "stop",
                                    "rest", "unlink"}
    /\ k.op \in {"register", "set_default", "rename"} => k.at \in {"await_registry", "saving"}
    /\ k.op = "remove" => k.at \in {"await_lock", "await_registry", "saving", "take", "forget",
                                    "stop", "rest"}
    /\ k.op = "evict" => k.at \in {"pick", "pending", "take", "forget", "stop", "rest"}
    /\ k.at \notin {"idle", "pick"} => k.id \in Ids
    /\ k.op \in {"create", "register"} => k.path \in Paths
    /\ k.at \in {"build", "publish"} => k.path \in Paths
    /\ k.at \in {"publish", "cache", "stop", "rest", "unlink"} => k.set \in Sets
    /\ k.op = "create" /\ k.at \in {"await_registry", "saving"} => k.set \in Sets
    /\ k.op # "create" /\ k.at \in {"await_registry", "saving"} => k.set = None
    /\ k.at \in {"lookup", "await_lock", "recheck", "resolve", "build", "await_create",
                 "check_paths", "create_file", "seed", "take", "pick", "pending"} => k.set = None
    /\ k.op \in {"open", "remove"} /\ k.at \notin {"lookup", "touch"} => k.lock \in Locks
    /\ k.op = "create" =>
         (k.lock \in Locks <=> k.at \notin {"await_create", "check_paths", "create_file", "seed"})
    /\ k.at = "lookup" \/ k.op \in {"register", "set_default", "rename", "evict"} => k.lock = None

Whereabouts ==
    /\ \A t \in Tasks : Sound(task[t])
    /\ \A t \in Clients : task[t].op # "evict"
    /\ task[Reaper].op \in {None, "evict"}

Types == Fields /\ Whereabouts

-----------------------------------------------------------------------------
(* The steps *)

(* What a step that changes the state does, by action. *)
LEMMA Steps ==
    ASSUME Next
    PROVE  \/ \E t \in Clients, id \in Ids : Request(t, id)
           \/ \E t \in Clients, id \in Ids : RemoveCall(t, id)
           \/ \E t \in Clients, id \in Ids, op \in {"set_default", "rename"} : EditCall(t, op, id)
           \/ \E t \in Clients, id \in Ids, p \in Paths : CreateCall(t, id, p)
           \/ \E t \in Clients, id \in Ids, p \in Paths : RegisterCall(t, id, p)
           \/ \E t \in Clients : Lookup(t) \/ Lock(t) \/ Recheck(t) \/ Resolve(t) \/ Build(t)
           \/ \E t \in Clients : BuildFails(t) \/ Publish(t) \/ Touch(t)
           \/ \E t \in Clients : CreateStart(t) \/ CheckPaths(t) \/ CreateFile(t) \/ Seed(t)
           \/ \E t \in Clients : CreateFails(t) \/ Cache(t) \/ Unlink(t)
           \/ \E t \in Clients : AwaitRegistry(t) \/ Saved(t) \/ SaveFails(t)
           \/ \E t \in Tasks : Take(t) \/ Forget(t) \/ Stop(t) \/ Rest(t)
           \/ \E t \in Clients : Cancel(t)
           \/ \E j \in jobs : JobStop(j) \/ JobEnds(j)
           \/ Collect(Reaper) \/ Pick(Reaper) \/ Pending(Reaper) \/ SweepDone(Reaper)
           \/ \E s \in Sets : StartTurn(s) \/ EndTurn(s) \/ ShutdownSet(s)
           \/ \E id \in Ids : Age(id)
           \/ StopServing \/ ShutdownAll \/ ShutdownEnds
           \/ UNCHANGED vars
  BY DEF Next, Call, Handling, Sweeping, Closing, Rollback, ShuttingDown, StaysDown, Tasks

(* The daemon starts with every record of its type and no task under way. *)
LEMMA TypesInit == Init => Types
  <1>. SUFFICES ASSUME Init PROVE Types
    OBVIOUS
  <1>. USE DatabaseManagerAssumption
  <1>1. IdleTask \in TaskRecords /\ Sound(IdleTask)
    BY DEF IdleTask, TaskRecords, Sound, Operations
  <1>2. Whereabouts
    BY <1>1 DEF Init, Whereabouts, Tasks, IdleTask, Operations
  <1>3. default \in Ids \cup {None} /\ minted \subseteq Ids
    BY DEF Init, Registered
  <1>4. QED BY <1>1, <1>2, <1>3 DEF Init, Types, Fields

(* A task that comes to stand where it may keeps the table of tasks sound. *)
LEMMA TaskMoves ==
    ASSUME Types, NEW t \in Tasks, NEW k, task' = [task EXCEPT ![t] = k], Sound(k),
           t \in Clients => k.op # "evict",
           t = Reaper => k.op \in {None, "evict"}
    PROVE  Whereabouts' /\ task' \in [Tasks -> TaskRecords]
  <1>1. task \in [Tasks -> TaskRecords] /\ k \in TaskRecords
    BY DEF Types, Fields, Sound
  <1>2. task'[t] = k /\ \A u \in Tasks \ {t} : task'[u] = task[u]
    BY <1>1
  <1>3. \A u \in Tasks : Sound(task'[u])
    BY <1>2 DEF Types, Whereabouts
  <1>4. Clients \subseteq Tasks /\ Reaper \in Tasks
    BY DEF Tasks
  <1>5. QED BY <1>1, <1>2, <1>3, <1>4 DEF Types, Whereabouts, Sound

(* A task that ends gives its locks back, and every record stays typed (a guard
   dropped at the end of its scope). *)
LEMMA LetGoTypes ==
    ASSUME Types, NEW t \in Tasks, LetGo(t)
    PROVE  /\ Whereabouts' /\ task' \in [Tasks -> TaskRecords]
           /\ writer' \in Clients \cup {None} /\ creator' \in Clients \cup {None}
           /\ holder' \in [Locks -> Clients \cup {None}]
  <1>1. IdleTask \in TaskRecords /\ Sound(IdleTask) /\ IdleTask.op = None
    BY DatabaseManagerAssumption DEF IdleTask, TaskRecords, Sound, Operations
  <1>2. Whereabouts' /\ task' \in [Tasks -> TaskRecords]
    BY <1>1, TaskMoves, DatabaseManagerAssumption DEF LetGo, Operations
  <1>3. QED BY <1>2 DEF LetGo, Types, Fields

(* Requests begin. *)
LEMMA CallTypes ==
    ASSUME Types, NEW t \in Clients, Call(t)
    PROVE  Types'
  <1>. USE DatabaseManagerAssumption
  <1>. t \in Tasks /\ t # Reaper
    BY DEF Tasks
  <1>1. task[t] = IdleTask /\ calls' \in 0 .. MaxCalls
        /\ minted \subseteq Ids
    <2>1. NewCall(t)
      BY DEF Call, Request, RemoveCall, EditCall, CreateCall, RegisterCall, Begin
    <2>2. QED BY <2>1 DEF NewCall, At, Types, Fields, Whereabouts, Sound
  <1>2. ASSUME NEW op \in Operations \ {"evict"}, NEW place, NEW id \in Ids, NEW p \in Paths \cup {None},
               Begin(t, op, place, id, p),
               Sound([IdleTask EXCEPT !.op = op, !.at = place, !.id = id, !.path = p])
        PROVE  Whereabouts' /\ task' \in [Tasks -> TaskRecords]
    BY <1>2, TaskMoves DEF Begin, IdleTask
  <1>3. ASSUME NEW id \in Ids, Request(t, id) PROVE Types'
    <2>1. Sound([IdleTask EXCEPT !.op = "open", !.at = "lookup", !.id = id, !.path = None])
      BY DEF IdleTask, Sound, TaskRecords, Operations
    <2>2. Whereabouts' /\ task' \in [Tasks -> TaskRecords]
      BY <1>2, <1>3, <2>1 DEF Request, Operations
    <2>3. QED BY <1>1, <1>3, <2>2 DEF Request, Types, Fields, registry, locks, sets
  <1>4. ASSUME NEW id \in Ids, RemoveCall(t, id) PROVE Types'
    <2>1. PICK l \in Locks :
            /\ opening' = [opening EXCEPT ![id] = l]
            /\ task' = [task EXCEPT ![t] = [IdleTask EXCEPT !.op = "remove", !.id = id,
                                                         !.at = "await_lock", !.lock = l]]
      BY <1>4 DEF RemoveCall, LockFor
    <2>2. Sound([IdleTask EXCEPT !.op = "remove", !.id = id, !.at = "await_lock", !.lock = l])
      BY DEF IdleTask, Sound, TaskRecords, Operations
    <2>3. Whereabouts' /\ task' \in [Tasks -> TaskRecords]
      BY <2>1, <2>2, TaskMoves DEF IdleTask
    <2>4. opening' \in [Ids -> Locks \cup {None}]
      BY <2>1 DEF Types, Fields
    <2>5. QED BY <1>1, <1>4, <2>3, <2>4 DEF RemoveCall, NewCall, Types, Fields, registry, sets
  <1>5. ASSUME NEW id \in Ids, NEW op \in {"set_default", "rename"}, EditCall(t, op, id) PROVE Types'
    <2>1. Sound([IdleTask EXCEPT !.op = op, !.at = "await_registry", !.id = id, !.path = None])
      BY DEF IdleTask, Sound, TaskRecords, Operations
    <2>2. Whereabouts' /\ task' \in [Tasks -> TaskRecords]
      BY <1>2, <1>5, <2>1 DEF EditCall, Operations
    <2>3. QED BY <1>1, <1>5, <2>2 DEF EditCall, Types, Fields, registry, locks, sets
  <1>6. ASSUME NEW id \in Ids, NEW p \in Paths, CreateCall(t, id, p) PROVE Types'
    <2>1. Sound([IdleTask EXCEPT !.op = "create", !.at = "await_create", !.id = id, !.path = p])
      BY DEF IdleTask, Sound, TaskRecords, Operations
    <2>2. Whereabouts' /\ task' \in [Tasks -> TaskRecords]
      BY <1>2, <1>6, <2>1 DEF CreateCall, Operations
    <2>3. QED BY <1>1, <1>6, <2>2 DEF CreateCall, Mint, Types, Fields, locks, sets
  <1>7. ASSUME NEW id \in Ids, NEW p \in Paths, RegisterCall(t, id, p) PROVE Types'
    <2>1. Sound([IdleTask EXCEPT !.op = "register", !.at = "await_registry", !.id = id, !.path = p])
      BY DEF IdleTask, Sound, TaskRecords, Operations
    <2>2. Whereabouts' /\ task' \in [Tasks -> TaskRecords]
      BY <1>2, <1>7, <2>1 DEF RegisterCall, Operations
    <2>3. QED BY <1>1, <1>7, <2>2 DEF RegisterCall, Mint, Types, Fields, locks, sets
  <1>8. QED BY <1>3, <1>4, <1>5, <1>6, <1>7 DEF Call

(* A task that goes on to a place it may stand at stays typed. *)
LEMMA GotoTypes ==
    ASSUME Types, NEW t \in Tasks, NEW place, Goto(t, place), Sound([task[t] EXCEPT !.at = place])
    PROVE  Whereabouts' /\ task' \in [Tasks -> TaskRecords]
  <1>. DEFINE k == [task[t] EXCEPT !.at = place]
  <1>1. task' = [task EXCEPT ![t] = k]
    BY DEF Goto
  <1>2. k.op = task[t].op
    BY DEF Types, Fields, TaskRecords
  <1>3. (t \in Clients => k.op # "evict") /\ (t = Reaper => k.op \in {None, "evict"})
    BY <1>2 DEF Types, Whereabouts
  <1>4. Sound(k)
    OBVIOUS
  <1>. HIDE DEF k
  <1>5. QED BY <1>1, <1>3, <1>4, TaskMoves

(* get_or_open *)
LEMMA OpenTypes ==
    ASSUME Types, NEW t \in Clients,
           Lookup(t) \/ Lock(t) \/ Recheck(t) \/ Resolve(t) \/ Build(t) \/ BuildFails(t)
           \/ Publish(t) \/ Touch(t)
    PROVE  Types'
  <1>. USE DatabaseManagerAssumption
  <1>. t \in Tasks /\ t # Reaper
    BY DEF Tasks
  <1>0. /\ Sound(task[t]) /\ task[t] \in TaskRecords /\ task[t].op # "evict"
        /\ task \in [Tasks -> TaskRecords]
    BY DEF Types, Fields, Whereabouts
  <1>1. CASE Lookup(t)
    <2>1. task[t].at = "lookup" /\ task[t].op = "open"
      BY <1>0, <1>1 DEF Lookup, At, Sound, TaskRecords, Operations
    <2>2. CASE Goto(t, "touch") /\ opening' = opening
      <3>1. Sound([task[t] EXCEPT !.at = "touch"])
        BY <1>0, <2>1 DEF Sound, TaskRecords
      <3>2. Whereabouts' /\ task' \in [Tasks -> TaskRecords]
        BY <2>2, <3>1, GotoTypes
      <3>3. QED BY <1>1, <2>2, <3>2 DEF Lookup, Types, Fields, registry, sets
    <2>3. ASSUME NEW l \in Locks, LockFor(task[t].id, l),
                 task' = [task EXCEPT ![t].at = "await_lock", ![t].lock = l]
          PROVE  Types'
      <3>. DEFINE k == [task[t] EXCEPT !.at = "await_lock", !.lock = l]
      <3>1. task' = [task EXCEPT ![t] = k]
        BY <1>0, <2>3
      <3>2. Sound(k) /\ k.op # "evict"
        BY <1>0, <2>1 DEF Sound, TaskRecords
      <3>. HIDE DEF k
      <3>3. Whereabouts' /\ task' \in [Tasks -> TaskRecords]
        BY <3>1, <3>2, TaskMoves
      <3>4. opening' \in [Ids -> Locks \cup {None}]
        BY <2>3 DEF LockFor, Types, Fields
      <3>5. QED BY <1>1, <3>3, <3>4 DEF Lookup, Types, Fields, registry, sets
    <2>4. QED BY <1>1, <2>2, <2>3 DEF Lookup
  <1>2. CASE Lock(t)
    <2>. DEFINE place == IF task[t].op = "open" THEN "recheck" ELSE "await_registry"
    <2>0. task[t].at = "await_lock" /\ task[t].op \in {"open", "remove"}
      BY <1>0, <1>2 DEF Lock, At, Sound, TaskRecords, Operations
    <2>1. Sound([task[t] EXCEPT !.at = place])
      <3>1. CASE task[t].op = "open"
        <4>1. Sound([task[t] EXCEPT !.at = "recheck"])
          BY <1>0, <2>0, <3>1 DEF Sound, TaskRecords
        <4>2. QED BY <3>1, <4>1
      <3>2. CASE task[t].op = "remove"
        <4>1. Sound([task[t] EXCEPT !.at = "await_registry"])
          BY <1>0, <2>0, <3>2 DEF Sound, TaskRecords
        <4>2. QED BY <3>2, <4>1
      <3>3. QED BY <2>0, <3>1, <3>2
    <2>2. Goto(t, place)
      BY <1>2 DEF Lock
    <2>. HIDE DEF place
    <2>3. Whereabouts' /\ task' \in [Tasks -> TaskRecords]
      BY <2>1, <2>2, GotoTypes
    <2>4. holder' \in [Locks -> Clients \cup {None}]
      BY <1>2 DEF Lock, Types, Fields
    <2>5. QED BY <1>2, <2>3, <2>4 DEF Lock, Types, Fields, registry, sets
  <1>3. CASE Recheck(t)
    <2>. DEFINE place == IF open[task[t].id] # None THEN "touch" ELSE "resolve"
    <2>1. Sound([task[t] EXCEPT !.at = place])
      BY <1>0, <1>3 DEF Recheck, At, Sound, TaskRecords, Operations
    <2>2. Goto(t, place)
      BY <1>3 DEF Recheck
    <2>. HIDE DEF place
    <2>3. Whereabouts' /\ task' \in [Tasks -> TaskRecords]
      BY <2>1, <2>2, GotoTypes
    <2>4. QED BY <1>3, <2>3 DEF Recheck, Types, Fields, registry, locks, sets
  <1>4. CASE Resolve(t)
    <2>1. CASE Finish(t)
      BY <1>4, <2>1, LetGoTypes DEF Resolve, Finish, Types, Fields, registry, sets
    <2>2. CASE /\ task[t].id \in Registered /\ UNCHANGED locks
               /\ task' = [task EXCEPT ![t].at = "build", ![t].path = path[task[t].id]]
      <3>. DEFINE k == [task[t] EXCEPT !.at = "build", !.path = path[task[t].id]]
      <3>1. task' = [task EXCEPT ![t] = k]
        BY <1>0, <2>2
      <3>2. path[task[t].id] \in Paths
        BY <2>2 DEF Registered, Types, Fields
      <3>0. task[t].at = "resolve" /\ task[t].op = "open"
        BY <1>0, <1>4 DEF Resolve, At, Sound, TaskRecords, Operations
      <3>3. Sound(k) /\ k.op # "evict"
        BY <1>0, <3>0, <3>2 DEF Sound, TaskRecords
      <3>. HIDE DEF k
      <3>4. Whereabouts' /\ task' \in [Tasks -> TaskRecords]
        BY <3>1, <3>3, TaskMoves
      <3>5. QED BY <1>4, <2>2, <3>4 DEF Resolve, Types, Fields, registry, locks, sets
    <2>3. QED BY <1>4, <2>1, <2>2 DEF Resolve
  <1>5. CASE Build(t)
    <2>1. PICK s \in Sets :
             SetBuilt(t, s) /\ task' = [task EXCEPT ![t].set = s, ![t].at = "publish"]
      BY <1>5 DEF Build
    <2>. DEFINE k == [task[t] EXCEPT !.set = s, !.at = "publish"]
    <2>2. task' = [task EXCEPT ![t] = k]
      BY <1>0, <2>1
    <2>3. Sound(k) /\ k.op # "evict"
      BY <1>0, <1>5 DEF Build, At, Sound, TaskRecords, Operations
    <2>4. task[t].id \in Ids /\ task[t].path \in Paths
      BY <1>0, <1>5 DEF Build, At, Sound
    <2>. HIDE DEF k
    <2>5. Whereabouts' /\ task' \in [Tasks -> TaskRecords]
      BY <2>2, <2>3, TaskMoves
    <2>6. QED BY <1>5, <2>1, <2>4, <2>5 DEF Build, SetBuilt, Types, Fields, registry, locks
  <1>6. CASE BuildFails(t)
    <2>1. task[t].path \in Paths
      BY <1>0, <1>6 DEF BuildFails, At, Sound
    <2>2. QED BY <1>6, <2>1, LetGoTypes DEF BuildFails, Finish, Types, Fields, registry, sets
  <1>7. CASE Publish(t)
    <2>1. task[t].set \in Sets
      BY <1>0, <1>7 DEF Publish, At, Sound
    <2>2. Sound([task[t] EXCEPT !.at = "touch"]) /\ Sound([task[t] EXCEPT !.at = "stop"])
      BY <1>0, <1>7 DEF Publish, At, Sound, TaskRecords, Operations
    <2>3. Whereabouts' /\ task' \in [Tasks -> TaskRecords]
      BY <1>7, <2>2, GotoTypes DEF Publish
    <2>4. open' \in [Ids -> Sets \cup {None}]
      BY <1>7, <2>1 DEF Publish, Types, Fields
    <2>5. QED BY <1>7, <2>3, <2>4 DEF Publish, Types, Fields, registry, locks, sets
  <1>8. CASE Touch(t)
    <2>1. activity' \in [Ids -> {"none", "fresh", "idle"}]
      BY <1>8 DEF Touch, Types, Fields
    <2>2. QED BY <1>8, <2>1, LetGoTypes DEF Touch, Finish, Types, Fields, registry, sets
  <1>9. QED BY <1>1, <1>2, <1>3, <1>4, <1>5, <1>6, <1>7, <1>8

(* create *)
LEMMA CreateTypes ==
    ASSUME Types, NEW t \in Clients,
           \/ CreateStart(t) \/ CheckPaths(t) \/ CreateFile(t) \/ Seed(t) \/ CreateFails(t)
           \/ Cache(t) \/ Unlink(t)
    PROVE  Types'
  <1>. USE DatabaseManagerAssumption
  <1>. t \in Tasks /\ t # Reaper
    BY DEF Tasks
  <1>0. /\ Sound(task[t]) /\ task[t] \in TaskRecords /\ task[t].op # "evict"
        /\ task \in [Tasks -> TaskRecords]
    BY DEF Types, Fields, Whereabouts
  <1>1. CASE CreateStart(t)
    <2>0. task[t].at = "await_create" /\ task[t].op = "create"
      BY <1>0, <1>1 DEF CreateStart, At, Sound, TaskRecords, Operations
    <2>1. CASE Finish(t)
      BY <1>1, <2>1, LetGoTypes DEF CreateStart, Finish, Types, Fields, registry, sets
    <2>2. CASE Goto(t, "check_paths") /\ creator' = t /\ UNCHANGED <<writer, opening, holder>>
      <3>1. Sound([task[t] EXCEPT !.at = "check_paths"])
        BY <1>0, <2>0 DEF Sound, TaskRecords
      <3>2. Whereabouts' /\ task' \in [Tasks -> TaskRecords]
        BY <2>2, <3>1, GotoTypes
      <3>3. QED BY <1>1, <2>2, <3>2 DEF CreateStart, Types, Fields, registry, sets
    <2>3. QED BY <1>1, <2>1, <2>2 DEF CreateStart
  <1>2. CASE CheckPaths(t)
    <2>0. task[t].at = "check_paths" /\ task[t].op = "create"
      BY <1>0, <1>2 DEF CheckPaths, At, Sound, TaskRecords, Operations
    <2>1. CASE Finish(t)
      BY <1>2, <2>1, LetGoTypes DEF CheckPaths, Finish, Types, Fields, registry, sets
    <2>2. CASE Goto(t, "create_file") /\ UNCHANGED locks
      <3>1. Sound([task[t] EXCEPT !.at = "create_file"])
        BY <1>0, <2>0 DEF Sound, TaskRecords
      <3>2. Whereabouts' /\ task' \in [Tasks -> TaskRecords]
        BY <2>2, <3>1, GotoTypes
      <3>3. QED BY <1>2, <2>2, <3>2 DEF CheckPaths, Types, Fields, registry, locks, sets
    <2>3. QED BY <1>2, <2>1, <2>2 DEF CheckPaths
  <1>3. CASE CreateFile(t)
    <2>0. task[t].at = "create_file" /\ task[t].op = "create" /\ task[t].path \in Paths
      BY <1>0, <1>3 DEF CreateFile, At, Sound, TaskRecords, Operations
    <2>1. Sound([task[t] EXCEPT !.at = "seed"])
      BY <1>0, <2>0 DEF Sound, TaskRecords
    <2>2. Whereabouts' /\ task' \in [Tasks -> TaskRecords]
      BY <1>3, <2>1, GotoTypes DEF CreateFile
    <2>3. QED BY <1>3, <2>0, <2>2 DEF CreateFile, Types, Fields, registry, locks, sets
  <1>4. CASE Seed(t)
    <2>0. task[t].at = "seed" /\ task[t].op = "create" /\ task[t].path \in Paths /\ task[t].id \in Ids
      BY <1>0, <1>4 DEF Seed, At, Sound, TaskRecords, Operations
    <2>1. PICK s \in Sets, l \in Locks :
             /\ SetBuilt(t, s) /\ LockFor(task[t].id, l) /\ holder' = [holder EXCEPT ![l] = t]
             /\ task' = [task EXCEPT ![t].set = s, ![t].lock = l, ![t].at = "await_registry"]
      BY <1>4 DEF Seed
    <2>. DEFINE k == [task[t] EXCEPT !.set = s, !.lock = l, !.at = "await_registry"]
    <2>2. task' = [task EXCEPT ![t] = k]
      BY <1>0, <2>1
    <2>3. Sound(k) /\ k.op # "evict"
      BY <1>0, <2>0 DEF Sound, TaskRecords
    <2>. HIDE DEF k
    <2>4. Whereabouts' /\ task' \in [Tasks -> TaskRecords]
      BY <2>2, <2>3, TaskMoves
    <2>5. holder' \in [Locks -> Clients \cup {None}] /\ opening' \in [Ids -> Locks \cup {None}]
      BY <2>1 DEF LockFor, Types, Fields
    <2>6. QED BY <1>4, <2>0, <2>1, <2>4, <2>5 DEF Seed, SetBuilt, Types, Fields, registry
  <1>5. CASE CreateFails(t)
    BY <1>5, LetGoTypes DEF CreateFails, Finish, Types, Fields, registry, sets
  <1>6. CASE Cache(t)
    <2>0. task[t].at = "cache" /\ task[t].op = "create" /\ task[t].set \in Sets
      BY <1>0, <1>6 DEF Cache, At, Sound, TaskRecords, Operations
    <2>1. Sound([task[t] EXCEPT !.at = "touch"])
      BY <1>0, <2>0 DEF Sound, TaskRecords
    <2>2. Whereabouts' /\ task' \in [Tasks -> TaskRecords]
      BY <1>6, <2>1, GotoTypes DEF Cache
    <2>3. open' \in [Ids -> Sets \cup {None}]
      BY <1>6, <2>0 DEF Cache, Types, Fields
    <2>4. QED BY <1>6, <2>2, <2>3 DEF Cache, Types, Fields, registry, locks, sets
  <1>7. CASE Unlink(t)
    <2>1. Whereabouts' /\ task' \in [Tasks -> TaskRecords] /\ writer' \in Clients \cup {None}
          /\ creator' \in Clients \cup {None} /\ holder' \in [Locks -> Clients \cup {None}]
      BY <1>7, LetGoTypes DEF Unlink
    <2>2. opening' \in [Ids -> Locks \cup {None}]
      BY <1>7 DEF Unlink, PruneUnshared, Types, Fields
    <2>3. QED BY <1>7, <2>1, <2>2 DEF Unlink, Types, Fields, registry, sets
  <1>8. QED BY <1>1, <1>2, <1>3, <1>4, <1>5, <1>6, <1>7

(* The registry's steps *)
LEMMA RegistryTypes ==
    ASSUME Types, NEW t \in Clients, AwaitRegistry(t) \/ Saved(t) \/ SaveFails(t)
    PROVE  Types'
  <1>. USE DatabaseManagerAssumption
  <1>. t \in Tasks /\ t # Reaper
    BY DEF Tasks
  <1>0. /\ Sound(task[t]) /\ task[t] \in TaskRecords /\ task[t].op # "evict"
        /\ task \in [Tasks -> TaskRecords]
    BY DEF Types, Fields, Whereabouts
  <1>1. CASE AwaitRegistry(t)
    <2>0. task[t].at = "await_registry"
      BY <1>1 DEF AwaitRegistry, At
    <2>1. CASE Finish(t)
      BY <1>1, <2>1, LetGoTypes DEF AwaitRegistry, Finish, Types, Fields, registry, sets
    <2>2. CASE Goto(t, "saving") /\ writer' = t /\ UNCHANGED <<opening, holder, creator>>
      <3>1. Sound([task[t] EXCEPT !.at = "saving"])
        BY <1>0, <2>0 DEF Sound, TaskRecords, Operations
      <3>2. Whereabouts' /\ task' \in [Tasks -> TaskRecords]
        BY <2>2, <3>1, GotoTypes
      <3>3. QED BY <1>1, <2>2, <3>2 DEF AwaitRegistry, Types, Fields, registry, sets
    <2>3. QED BY <1>1, <2>1, <2>2 DEF AwaitRegistry
  <1>2. CASE Saved(t)
    <2>0. task[t].at = "saving" /\ task[t].id \in Ids
      BY <1>0, <1>2 DEF Saved, At, Sound
    <2>1. path' \in [Ids -> Paths \cup {None}] /\ default' \in Ids \cup {None}
      <3>1. CASE task[t].op \in {"create", "register"}
        <4>1. task[t].path \in Paths
          BY <1>0, <3>1 DEF Sound
        <4>2. Candidate(t) = [path |-> [path EXCEPT ![task[t].id] = task[t].path],
                              default |-> IF default = None THEN task[t].id ELSE default]
          BY <3>1 DEF Candidate
        <4>3. QED BY <1>2, <2>0, <4>1, <4>2 DEF Saved, Types, Fields
      <3>2. CASE task[t].op = "remove"
        <4>2. Candidate(t) = [path |-> [path EXCEPT ![task[t].id] = None],
                              default |-> IF default = task[t].id THEN None ELSE default]
          BY <3>2 DEF Candidate
        <4>3. QED BY <1>2, <2>0, <4>2 DEF Saved, Types, Fields
      <3>3. CASE task[t].op = "set_default"
        <4>2. Candidate(t) = [path |-> path, default |-> task[t].id]
          BY <3>3 DEF Candidate
        <4>3. QED BY <1>2, <2>0, <4>2 DEF Saved, Types, Fields
      <3>4. CASE task[t].op \notin {"create", "register", "remove", "set_default"}
        <4>2. Candidate(t) = [path |-> path, default |-> default]
          BY <3>4 DEF Candidate
        <4>3. QED BY <1>2, <2>0, <4>2 DEF Saved, Types, Fields
      <3>5. QED BY <3>1, <3>2, <3>3, <3>4
    <2>2. CASE Finish(t)
      BY <1>2, <2>1, <2>2, LetGoTypes DEF Saved, Finish, Types, Fields, sets
    <2>3. CASE /\ Goto(t, "cache") /\ task[t].op = "create"
               /\ writer' = None /\ UNCHANGED <<opening, holder, creator>>
      <3>1. Sound([task[t] EXCEPT !.at = "cache"])
        BY <1>0, <2>0, <2>3 DEF Sound, TaskRecords
      <3>2. Whereabouts' /\ task' \in [Tasks -> TaskRecords]
        BY <2>3, <3>1, GotoTypes
      <3>3. QED BY <1>2, <2>1, <2>3, <3>2 DEF Saved, Types, Fields, sets
    <2>4. CASE /\ Goto(t, "take") /\ task[t].op = "remove"
               /\ writer' = None /\ UNCHANGED <<opening, holder, creator>>
      <3>1. Sound([task[t] EXCEPT !.at = "take"])
        BY <1>0, <2>0, <2>4 DEF Sound, TaskRecords
      <3>2. Whereabouts' /\ task' \in [Tasks -> TaskRecords]
        BY <2>4, <3>1, GotoTypes
      <3>3. QED BY <1>2, <2>1, <2>4, <3>2 DEF Saved, Types, Fields, sets
    <2>5. QED BY <1>2, <2>2, <2>3, <2>4 DEF Saved
  <1>3. CASE SaveFails(t)
    <2>1. CASE Finish(t)
      BY <1>3, <2>1, LetGoTypes DEF SaveFails, Finish, Types, Fields, registry, sets
    <2>2. CASE Goto(t, "stop") /\ task[t].op = "create" /\ writer' = None
               /\ UNCHANGED <<opening, holder, creator>>
      <3>0. task[t].at = "saving"
        BY <1>3 DEF SaveFails, At
      <3>1. Sound([task[t] EXCEPT !.at = "stop"])
        BY <1>0, <2>2, <3>0 DEF Sound, TaskRecords
      <3>2. Whereabouts' /\ task' \in [Tasks -> TaskRecords]
        BY <2>2, <3>1, GotoTypes
      <3>3. QED BY <1>3, <2>2, <3>2 DEF SaveFails, Types, Fields, registry, sets
    <2>3. QED BY <1>3, <2>1, <2>2 DEF SaveFails
  <1>4. QED BY <1>1, <1>2, <1>3

(* Closing a service set *)
LEMMA AfterCloseTypes ==
    ASSUME Types, NEW t \in Tasks, AfterClose(t), task[t].at \in {"forget", "rest"},
           task[t].op = "create" => task[t].set \in Sets
    PROVE  /\ Whereabouts' /\ task' \in [Tasks -> TaskRecords]
           /\ writer' \in Clients \cup {None} /\ creator' \in Clients \cup {None}
           /\ holder' \in [Locks -> Clients \cup {None}]
           /\ opening' \in [Ids -> Locks \cup {None}]
  <1>. USE DatabaseManagerAssumption
  <1>0. /\ Sound(task[t]) /\ task[t] \in TaskRecords /\ task \in [Tasks -> TaskRecords]
        /\ (t \in Clients => task[t].op # "evict") /\ (t = Reaper => task[t].op \in {None, "evict"})
    BY DEF Types, Fields, Whereabouts
  <1>1. CASE task[t].op = "remove"
    <2>1. LetGo(t) /\ opening' = [opening EXCEPT ![task[t].id] = None]
      BY <1>1 DEF AfterClose
    <2>2. opening' \in [Ids -> Locks \cup {None}]
      BY <2>1 DEF Types, Fields
    <2>3. QED BY <2>1, <2>2, LetGoTypes
  <1>2. CASE task[t].op = "evict"
    <2>. DEFINE k == [IdleTask EXCEPT !.op = "evict", !.at = "pick"]
    <2>1. task' = [task EXCEPT ![t] = k] /\ UNCHANGED locks
      BY <1>2 DEF AfterClose
    <2>2. Sound(k) /\ k.op = "evict"
      BY DEF IdleTask, Sound, TaskRecords, Operations
    <2>3. t \notin Clients
      BY <1>0, <1>2
    <2>. HIDE DEF k
    <2>4. Whereabouts' /\ task' \in [Tasks -> TaskRecords]
      BY <2>1, <2>2, <2>3, TaskMoves
    <2>5. QED BY <2>1, <2>4 DEF Types, Fields, locks
  <1>3. CASE task[t].op = "create"
    <2>1. Goto(t, "unlink") /\ UNCHANGED locks
      BY <1>3 DEF AfterClose
    <2>2. Sound([task[t] EXCEPT !.at = "unlink"])
      BY <1>0, <1>3 DEF Sound, TaskRecords
    <2>3. Whereabouts' /\ task' \in [Tasks -> TaskRecords]
      BY <2>1, <2>2, GotoTypes
    <2>4. QED BY <2>1, <2>3 DEF Types, Fields, locks
  <1>4. CASE task[t].op \notin {"remove", "evict", "create"}
    <2>1. Goto(t, "touch") /\ UNCHANGED locks
      BY <1>4 DEF AfterClose
    <2>2. task[t].op = "open"
      BY <1>0, <1>4 DEF Sound, TaskRecords, Operations
    <2>3. Sound([task[t] EXCEPT !.at = "touch"])
      BY <1>0, <2>2 DEF Sound, TaskRecords
    <2>4. Whereabouts' /\ task' \in [Tasks -> TaskRecords]
      BY <2>1, <2>3, GotoTypes
    <2>5. QED BY <2>1, <2>4 DEF Types, Fields, locks
  <1>5. QED BY <1>1, <1>2, <1>3, <1>4

(* close_database, called by remove and by the idle eviction, keeps the records
   typed. *)
LEMMA CloseTypes ==
    ASSUME Types, NEW t \in Tasks, Take(t) \/ Forget(t) \/ Stop(t) \/ Rest(t)
    PROVE  Types'
  <1>. USE DatabaseManagerAssumption
  <1>0. /\ Sound(task[t]) /\ task[t] \in TaskRecords /\ task \in [Tasks -> TaskRecords]
        /\ (t \in Clients => task[t].op # "evict") /\ (t = Reaper => task[t].op \in {None, "evict"})
    BY DEF Types, Fields, Whereabouts
  <1>1. CASE Take(t)
    <2>0. task[t].at = "take" /\ task[t].id \in Ids /\ task[t].op \in {"remove", "evict"}
      BY <1>0, <1>1 DEF Take, At, Sound, TaskRecords, Operations
    <2>. DEFINE k == [task[t] EXCEPT !.set = open[task[t].id], !.at = "forget"]
    <2>1. task' = [task EXCEPT ![t] = k]
      BY <1>0, <1>1 DEF Take
    <2>2. open[task[t].id] \in Sets \cup {None}
      BY <2>0 DEF Types, Fields
    <2>3. Sound(k) /\ k.op = task[t].op
      BY <1>0, <2>0, <2>2 DEF Sound, TaskRecords
    <2>. HIDE DEF k
    <2>4. Whereabouts' /\ task' \in [Tasks -> TaskRecords]
      BY <1>0, <2>1, <2>3, TaskMoves
    <2>5. open' \in [Ids -> Sets \cup {None}]
      BY <1>1 DEF Take, Types, Fields
    <2>6. QED BY <1>1, <2>4, <2>5 DEF Take, Types, Fields, registry, locks, sets
  <1>2. CASE Forget(t)
    <2>0. task[t].at = "forget" /\ task[t].id \in Ids /\ task[t].op \in {"remove", "evict"}
      BY <1>0, <1>2 DEF Forget, At, Sound, TaskRecords, Operations
    <2>1. activity' \in [Ids -> {"none", "fresh", "idle"}]
      BY <1>2 DEF Forget, Types, Fields
    <2>2. CASE AfterClose(t)
      BY <1>2, <2>0, <2>1, <2>2, AfterCloseTypes DEF Forget, Types, Fields, registry, sets
    <2>3. CASE Goto(t, "stop") /\ task[t].set # None /\ UNCHANGED locks
      <3>1. Sound([task[t] EXCEPT !.at = "stop"])
        BY <1>0, <2>0, <2>3 DEF Sound, TaskRecords
      <3>2. Whereabouts' /\ task' \in [Tasks -> TaskRecords]
        BY <2>3, <3>1, GotoTypes
      <3>3. QED BY <1>2, <2>1, <2>3, <3>2 DEF Forget, Types, Fields, registry, locks, sets
    <2>4. QED BY <1>2, <2>2, <2>3 DEF Forget
  <1>3. CASE Stop(t)
    <2>0. task[t].at = "stop" /\ task[t].set \in Sets
      BY <1>0, <1>3 DEF Stop, At, Sound
    <2>1. Sound([task[t] EXCEPT !.at = "rest"])
      BY <1>0, <2>0 DEF Sound, TaskRecords, Operations
    <2>2. Whereabouts' /\ task' \in [Tasks -> TaskRecords]
      BY <1>3, <2>1, GotoTypes DEF Stop
    <2>3. phase' \in [Sets -> {"new", "live", "stopping", "stopped"}]
      BY <1>3 DEF Stop, Stopping, Types, Fields
    <2>4. QED BY <1>3, <2>2, <2>3 DEF Stop, Stopping, Types, Fields, registry, locks
  <1>4. CASE Rest(t)
    <2>0. task[t].at = "rest" /\ task[t].set \in Sets
      BY <1>0, <1>4 DEF Rest, At, Sound
    <2>1. phase' \in [Sets -> {"new", "live", "stopping", "stopped"}]
      BY <1>4 DEF Rest, Stopped, Types, Fields
    <2>2. QED BY <1>4, <2>0, <2>1, AfterCloseTypes DEF Rest, Stopped, Types, Fields, registry
  <1>5. QED BY <1>1, <1>2, <1>3, <1>4

(* A dropped request *)
LEMMA CancelTypes ==
    ASSUME Types, NEW t \in Clients, Cancel(t)
    PROVE  Types'
  <1>. USE DatabaseManagerAssumption
  <1>. t \in Tasks /\ t # Reaper
    BY DEF Tasks
  <1>0. Sound(task[t]) /\ task[t] \in TaskRecords
    BY DEF Types, Fields, Whereabouts
  <1>1. /\ Whereabouts' /\ task' \in [Tasks -> TaskRecords]
        /\ writer' \in Clients \cup {None} /\ creator' \in Clients \cup {None}
        /\ holder' \in [Locks -> Clients \cup {None}]
    BY LetGoTypes DEF Cancel
  <1>2. opening' \in [Ids -> Locks \cup {None}]
    BY DEF Cancel, PruneUnshared, Types, Fields
  <1>3. files' \subseteq Paths /\ jobs' \subseteq [set : Sets, path : Paths, unlink : BOOLEAN]
    <2>1. CASE task[t].op # "create"
      BY <2>1 DEF Cancel, Types, Fields
    <2>2. CASE task[t].op = "create"
      <3>1. UndoCreate(t) /\ task[t].path \in Paths
        BY <1>0, <2>2 DEF Cancel, Sound
      <3>2. CASE task[t].at \in {"create_file", "seed", "unlink"}
        BY <3>1, <3>2 DEF UndoCreate, Types, Fields
      <3>3. CASE task[t].at \in {"await_registry", "saving", "stop", "rest", "cache"}
        <4>1. task[t].set \in Sets
          BY <1>0, <2>2, <3>3 DEF Sound
        <4>2. files' = files /\ \E b \in BOOLEAN : jobs' = jobs \cup {[set |-> task[t].set, path |-> task[t].path, unlink |-> b]}
          BY <3>1, <3>3 DEF UndoCreate
        <4>3. QED BY <3>1, <4>1, <4>2 DEF Types, Fields
      <3>4. CASE task[t].at \notin {"create_file", "seed", "unlink", "await_registry", "saving", "stop", "rest", "cache"}
        BY <3>1, <3>4 DEF UndoCreate, Types, Fields
      <3>5. QED BY <3>2, <3>3, <3>4
    <2>3. QED BY <2>1, <2>2
  <1>4. abandoned' \subseteq Sets
    <2>1. task[t].set \in Sets \cup {None} /\ task[t].id \in Ids \cup {None}
      BY <1>0 DEF TaskRecords
    <2>2. CASE task[t].at = "take" /\ task[t].op # "create"
      <3>1. task[t].id \in Ids
        BY <1>0, <2>2 DEF Sound
      <3>2. open[task[t].id] \in Sets \cup {None}
        BY <3>1 DEF Types, Fields
      <3>3. SetLeft(t) \subseteq Sets
        BY <2>2, <3>2 DEF SetLeft
      <3>4. QED BY <3>3 DEF Cancel, Types, Fields
    <2>3. CASE task[t].at # "take" \/ task[t].op = "create"
      <3>1. SetLeft(t) \subseteq Sets
        BY <2>1, <2>3 DEF SetLeft
      <3>2. QED BY <3>1 DEF Cancel, Types, Fields
    <2>4. QED BY <2>2, <2>3
  <1>5. QED BY <1>1, <1>2, <1>3, <1>4 DEF Cancel, Types, Fields, registry, sets

(* The reaper *)
LEMMA SweepTypes ==
    ASSUME Types, Collect(Reaper) \/ Pick(Reaper) \/ Pending(Reaper) \/ SweepDone(Reaper)
    PROVE  Types'
  <1>. USE DatabaseManagerAssumption
  <1>. DEFINE t == Reaper
  <1>. Reaper \in Tasks /\ Reaper \notin Clients
    BY DEF Tasks
  <1>0. /\ Sound(task[t]) /\ task[t] \in TaskRecords /\ task[t].op \in {None, "evict"}
        /\ task \in [Tasks -> TaskRecords]
    BY DEF Types, Fields, Whereabouts
  <1>1. CASE Collect(Reaper)
    <2>0. task[t] = IdleTask
      BY <1>0, <1>1 DEF Collect, At, Sound
    <2>. DEFINE k == [IdleTask EXCEPT !.op = "evict", !.at = "pick"]
    <2>1. task' = [task EXCEPT ![t] = k]
      BY <1>0, <1>1, <2>0 DEF Collect, IdleTask
    <2>2. Sound(k) /\ k.op = "evict"
      BY DEF IdleTask, Sound, TaskRecords, Operations
    <2>. HIDE DEF k
    <2>3. Whereabouts' /\ task' \in [Tasks -> TaskRecords]
      BY <2>1, <2>2, TaskMoves
    <2>4. victims' \subseteq Ids \X Sets
      <3>1. PICK active : victims' = {<<id, open[id]>> :
                  id \in {i \in Ids \ {default, active} : open[i] # None /\ activity[i] = "idle"}}
        BY <1>1 DEF Collect
      <3>2. \A i \in Ids : open[i] # None => open[i] \in Sets
        BY DEF Types, Fields
      <3>3. QED BY <3>1, <3>2
    <2>5. QED BY <1>1, <2>3, <2>4 DEF Collect, Types, Fields, registry, locks, sets
  <1>2. CASE Pick(Reaper)
    <2>0. task[t].at = "pick" /\ task[t].op = "evict"
      BY <1>0, <1>2 DEF Pick, At, Sound
    <2>1. PICK v \in victims :
            /\ victims' = victims \ {v}
            /\ task' = task \/ task' = [task EXCEPT ![t].id = v[1], ![t].at = "pending"]
      BY <1>2 DEF Pick
    <2>2. v[1] \in Ids /\ victims' \subseteq Ids \X Sets
      BY <2>1 DEF Types, Fields
    <2>3. CASE task' = task
      BY <1>2, <2>2, <2>3 DEF Pick, Types, Fields, Whereabouts, registry, locks, sets
    <2>4. CASE task' = [task EXCEPT ![t].id = v[1], ![t].at = "pending"]
      <3>. DEFINE k == [task[t] EXCEPT !.id = v[1], !.at = "pending"]
      <3>1. task' = [task EXCEPT ![t] = k]
        BY <1>0, <2>4
      <3>2. Sound(k) /\ k.op = "evict"
        BY <1>0, <2>0, <2>2 DEF Sound, TaskRecords
      <3>. HIDE DEF k
      <3>3. Whereabouts' /\ task' \in [Tasks -> TaskRecords]
        BY <3>1, <3>2, TaskMoves
      <3>4. QED BY <1>2, <2>2, <3>3 DEF Pick, Types, Fields, registry, locks, sets
    <2>5. QED BY <2>1, <2>3, <2>4
  <1>3. CASE Pending(Reaper)
    <2>0. task[t].at = "pending" /\ task[t].op = "evict"
      BY <1>0, <1>3 DEF Pending, At, Sound
    <2>1. Sound([task[t] EXCEPT !.at = "pick"]) /\ Sound([task[t] EXCEPT !.at = "take"])
      BY <1>0, <2>0 DEF Sound, TaskRecords
    <2>2. Whereabouts' /\ task' \in [Tasks -> TaskRecords]
      BY <1>3, <2>1, GotoTypes DEF Pending
    <2>3. QED BY <1>3, <2>2 DEF Pending, Types, Fields, registry, locks, sets
  <1>4. CASE SweepDone(Reaper)
    <2>1. Sound(IdleTask) /\ IdleTask.op = None
      BY DEF IdleTask, TaskRecords, Sound, Operations
    <2>2. Whereabouts' /\ task' \in [Tasks -> TaskRecords]
      BY <1>4, <2>1, TaskMoves DEF SweepDone, Operations
    <2>3. QED BY <1>4, <2>2 DEF SweepDone, Types, Fields, registry, locks, sets
  <1>5. QED BY <1>1, <1>2, <1>3, <1>4

(* Every step of the daemon keeps every record typed and every task at a place its
   fields allow. *)
LEMMA TypesStep == Types /\ [Next]_vars => Types'
  <1>. SUFFICES ASSUME Types, Next PROVE Types'
    <2>1. CASE UNCHANGED vars
      BY <2>1 DEF vars, Types, Fields, Whereabouts
    <2>2. QED BY <2>1
  <1>. USE DatabaseManagerAssumption
  <1>1. ASSUME NEW t \in Clients, NEW id \in Ids, Request(t, id) PROVE Types'
    BY <1>1, CallTypes DEF Call
  <1>2. ASSUME NEW t \in Clients, NEW id \in Ids, RemoveCall(t, id) PROVE Types'
    BY <1>2, CallTypes DEF Call
  <1>3. ASSUME NEW t \in Clients, NEW id \in Ids, NEW op \in {"set_default", "rename"}, EditCall(t, op, id)
        PROVE Types'
    BY <1>3, CallTypes DEF Call
  <1>4. ASSUME NEW t \in Clients, NEW id \in Ids, NEW p \in Paths, CreateCall(t, id, p)
        PROVE Types'
    BY <1>4, CallTypes DEF Call
  <1>5. ASSUME NEW t \in Clients, NEW id \in Ids, NEW p \in Paths, RegisterCall(t, id, p)
        PROVE Types'
    BY <1>5, CallTypes DEF Call
  <1>6. ASSUME NEW j \in jobs, JobStop(j) \/ JobEnds(j) PROVE Types'
    <2>1. j.set \in Sets
      BY DEF Types, Fields
    <2>2. phase' \in [Sets -> {"new", "live", "stopping", "stopped"}]
      BY <1>6 DEF JobStop, JobEnds, Stopping, Stopped, Types, Fields, sets
    <2>3. CASE JobStop(j)
      BY <2>2, <2>3 DEF JobStop, Stopping, Stopped, Types, Fields, Whereabouts, registry, locks
    <2>4. CASE JobEnds(j)
      BY <2>4 DEF JobEnds, Types, Fields, Whereabouts, registry, locks, sets
    <2>5. QED BY <1>6, <2>3, <2>4
  <1>7. ASSUME NEW s \in Sets, StartTurn(s) \/ EndTurn(s) \/ ShutdownSet(s) PROVE Types'
    <2>1. phase' \in [Sets -> {"new", "live", "stopping", "stopped"}]
      BY <1>7 DEF StartTurn, EndTurn, ShutdownSet, Stopping, Stopped, Types, Fields
    <2>2. CASE StartTurn(s)
      BY <2>2 DEF StartTurn, Types, Fields, Whereabouts, registry, locks
    <2>3. CASE EndTurn(s)
      BY <2>3 DEF EndTurn, Types, Fields, Whereabouts, registry, locks
    <2>4. CASE ShutdownSet(s)
      BY <2>1, <2>4 DEF ShutdownSet, Stopping, Stopped, Types, Fields, Whereabouts, registry, locks
    <2>5. QED BY <1>7, <2>2, <2>3, <2>4
  <1>8. ASSUME NEW id \in Ids, Age(id) PROVE Types'
    BY <1>8 DEF Age, Types, Fields, Whereabouts, registry, locks, sets
  <1>9. CASE StopServing
    BY <1>9 DEF StopServing, Types, Fields, Whereabouts, registry, locks, sets
  <1>10. CASE ShutdownAll
    BY <1>10 DEF ShutdownAll, Types, Fields, Whereabouts, registry, locks, sets
  <1>11. CASE ShutdownEnds
    BY <1>11 DEF ShutdownEnds, Types, Fields, Whereabouts, registry, locks, sets
  <1>12. CASE UNCHANGED vars
    BY <1>12 DEF vars, Types, Fields, Whereabouts
  <1>13. QED BY Steps, <1>1, <1>2, <1>3, <1>4, <1>5, <1>6, <1>7, <1>8, <1>9, <1>10, <1>11, <1>12,
                OpenTypes, CreateTypes, RegistryTypes, CloseTypes, CancelTypes, SweepTypes

-----------------------------------------------------------------------------
(* What a task's step leaves alone *)

(* The operations that pass through each place. *)
LEMMA Places ==
    ASSUME Types, NEW t \in Tasks
    PROVE  /\ task[t] \in TaskRecords /\ task \in [Tasks -> TaskRecords]
           /\ task[t].at = "idle" <=> task[t].op = None
           /\ task[t].at = "idle" => task[t] = IdleTask
           /\ task[t].at \in {"lookup", "recheck", "resolve", "build", "publish"} => task[t].op = "open"
           /\ task[t].at = "await_lock" => task[t].op \in {"open", "remove"}
           /\ task[t].at = "touch" => task[t].op \in {"open", "create"}
           /\ task[t].at \in {"await_create", "check_paths", "create_file", "seed", "cache", "unlink"}
                => task[t].op = "create"
           /\ task[t].at \in {"await_registry", "saving"}
                => task[t].op \in {"create", "register", "remove", "set_default", "rename"}
           /\ task[t].at \in {"take", "forget"} => task[t].op \in {"remove", "evict"}
           /\ task[t].at \in {"stop", "rest"} => task[t].op \in {"open", "create", "remove", "evict"}
           /\ task[t].at \in {"pick", "pending"} => task[t].op = "evict"
           /\ task[t].at \notin {"idle", "pick"} => task[t].id \in Ids
           /\ t \in Clients => task[t].op # "evict"
           /\ task[Reaper].op \in {None, "evict"}
  <1>1. Sound(task[t])
    BY DEF Types, Whereabouts
  <1>. HIDE DEF Types
  <1>2. /\ task[t] \in TaskRecords /\ task \in [Tasks -> TaskRecords]
        /\ task[t].at = "idle" <=> task[t].op = None
        /\ task[t].at = "idle" => task[t] = IdleTask
        /\ task[t].at \notin {"idle", "pick"} => task[t].id \in Ids
        /\ t \in Clients => task[t].op # "evict"
        /\ task[Reaper].op \in {None, "evict"}
    BY <1>1 DEF Types, Fields, Whereabouts, Sound
  <1>3. QED BY <1>1, <1>2, DatabaseManagerAssumption DEF Sound, TaskRecords, Operations

(* A step of a task touches no database but its own, and no other task. *)
Own(t) ==
    /\ \A u \in Tasks \ {t} : task'[u] = task[u]
    /\ \A i \in Ids \ {task[t].id} :
         path'[i] = path[i] /\ open'[i] = open[i] /\ opening'[i] = opening[i]
    /\ minted' = minted /\ victims' = victims
    /\ abandoned \subseteq abandoned' /\ met' = met
    /\ task'[t].id \in {None, task[t].id}

(* A task that ends changes no other task. *)
LEMMA LetGoOwn ==
    ASSUME Types, NEW t \in Tasks, LetGo(t)
    PROVE  /\ \A u \in Tasks \ {t} : task'[u] = task[u]
           /\ task'[t] = IdleTask /\ task'[t].id = None
  BY DEF LetGo, Types, Fields, IdleTask

(* What a step of one task leaves alone: the other tasks, and the entries, sets and mutexes of the other
   databases. *)
LEMMA OwnSteps ==
    ASSUME Types, NEW t \in Tasks,
           \/ Lookup(t) \/ Lock(t) \/ Recheck(t) \/ Resolve(t) \/ Build(t)
           \/ BuildFails(t) \/ Publish(t) \/ Touch(t)
           \/ CreateStart(t) \/ CheckPaths(t) \/ CreateFile(t) \/ Seed(t)
           \/ CreateFails(t) \/ Cache(t) \/ Unlink(t)
           \/ AwaitRegistry(t) \/ Saved(t) \/ SaveFails(t)
           \/ Take(t) \/ Forget(t) \/ Stop(t) \/ Rest(t)
           \/ Cancel(t)
    PROVE  Own(t)
  <1>0. task[t] \in TaskRecords /\ task \in [Tasks -> TaskRecords]
    BY Places
  <1>a. abandoned \subseteq abandoned' /\ met' = met
    <2>1. CASE Cancel(t)
      BY <2>1 DEF Cancel, registry
    <2>2. CASE Build(t) \/ Seed(t) \/ Stop(t) \/ Rest(t)
      BY <2>2 DEF Build, Seed, Stop, Rest, SetBuilt, Stopping, Stopped, registry
    <2>3. CASE Saved(t) \/ SaveFails(t) \/ AwaitRegistry(t) \/ Take(t) \/ Forget(t)
      BY <2>3 DEF Saved, SaveFails, AwaitRegistry, Take, Forget, registry, sets
    <2>4. CASE \/ Lookup(t) \/ Lock(t) \/ Recheck(t) \/ Resolve(t) \/ BuildFails(t)
               \/ Publish(t) \/ Touch(t)
      BY <2>4 DEF Lookup, Lock, Recheck, Resolve, BuildFails, Publish, Touch, registry, sets
    <2>5. CASE \/ CreateStart(t) \/ CheckPaths(t) \/ CreateFile(t) \/ CreateFails(t)
               \/ Cache(t) \/ Unlink(t)
      BY <2>5 DEF CreateStart, CheckPaths, CreateFile, CreateFails, Cache, Unlink, registry, sets
    <2>6. QED BY <2>1, <2>2, <2>3, <2>4, <2>5
  <1>1. ASSUME NEW place, Goto(t, place)
        PROVE  /\ \A u \in Tasks \ {t} : task'[u] = task[u]
               /\ task'[t].id = task[t].id
    BY <1>0, <1>1 DEF Goto, TaskRecords
  <1>2. ASSUME NEW l, LockFor(task[t].id, l) PROVE \A i \in Ids \ {task[t].id} : opening'[i] = opening[i]
    BY <1>2 DEF LockFor, Types, Fields
  <1>3. CASE Lookup(t)
    <2>1. CASE Goto(t, "touch") /\ UNCHANGED opening
      BY <1>a, <1>1, <1>3, <2>1 DEF Lookup, Own, registry
    <2>2. ASSUME NEW l, LockFor(task[t].id, l),
                 task' = [task EXCEPT ![t].at = "await_lock", ![t].lock = l]
          PROVE  Own(t)
      BY <1>a, <1>0, <1>2, <1>3, <2>2 DEF Lookup, Own, registry, TaskRecords
    <2>3. QED BY <1>3, <2>1, <2>2 DEF Lookup
  <1>4. CASE Lock(t) \/ Recheck(t) \/ CreateFile(t) \/ Stop(t)
    BY <1>a, <1>1, <1>4 DEF Lock, Recheck, CreateFile, Stop, Own, registry, locks
  <1>5. CASE Resolve(t) \/ CreateStart(t) \/ CheckPaths(t)
    <2>1. CASE Finish(t)
      BY <1>a, <1>5, <2>1, LetGoOwn DEF Finish, Resolve, CreateStart, CheckPaths, Own, registry
    <2>2. CASE ~Finish(t)
      BY <1>a, <1>0, <1>1, <1>5, <2>2 DEF Resolve, CreateStart, CheckPaths, Own, registry, locks, TaskRecords
    <2>3. QED BY <2>1, <2>2
  <1>6. CASE Build(t)
    BY <1>a, <1>0, <1>6 DEF Build, Own, registry, locks, TaskRecords
  <1>7. CASE BuildFails(t) \/ CreateFails(t) \/ Touch(t)
    BY <1>a, <1>7, LetGoOwn DEF BuildFails, CreateFails, Touch, Finish, Own, registry
  <1>8. CASE Publish(t) \/ Cache(t)
    BY <1>a, <1>1, <1>8 DEF Publish, Cache, Own, registry, locks, Types, Fields
  <1>9. CASE Seed(t)
    <2>1. PICK s \in Sets, l \in Locks :
             /\ LockFor(task[t].id, l)
             /\ task' = [task EXCEPT ![t].set = s, ![t].lock = l, ![t].at = "await_registry"]
      BY <1>9 DEF Seed
    <2>2. (\A u \in Tasks \ {t} : task'[u] = task[u]) /\ task'[t].id = task[t].id
      BY <1>0, <2>1 DEF TaskRecords
    <2>3. QED BY <1>a, <1>2, <1>9, <2>1, <2>2 DEF Seed, Own, registry
  <1>10. CASE Unlink(t)
    BY <1>a, <1>10, LetGoOwn DEF Unlink, PruneUnshared, Own, registry, Types, Fields
  <1>11. CASE AwaitRegistry(t) \/ SaveFails(t)
    <2>1. CASE Finish(t)
      BY <1>a, <1>11, <2>1, LetGoOwn DEF Finish, AwaitRegistry, SaveFails, Own, registry
    <2>2. CASE ~Finish(t)
      BY <1>a, <1>1, <1>11, <2>2 DEF AwaitRegistry, SaveFails, Own, registry
    <2>3. QED BY <2>1, <2>2
  <1>12. CASE Saved(t)
    <2>1. \A i \in Ids \ {task[t].id} : path'[i] = path[i]
      BY <1>12 DEF Saved, Candidate, Types, Fields
    <2>2. CASE Finish(t)
      BY <1>a, <1>12, <2>1, <2>2, LetGoOwn DEF Finish, Saved, Own
    <2>3. CASE ~Finish(t)
      BY <1>a, <1>1, <1>12, <2>1, <2>3 DEF Saved, Own
    <2>4. QED BY <2>2, <2>3
  <1>13. CASE Take(t)
    BY <1>a, <1>0, <1>13 DEF Take, Own, registry, locks, TaskRecords, Types, Fields
  <1>14. ASSUME AfterClose(t)
         PROVE  /\ \A u \in Tasks \ {t} : task'[u] = task[u]
                /\ task'[t].id \in {None, task[t].id}
                /\ \A i \in Ids \ {task[t].id} : opening'[i] = opening[i]
    <2>1. CASE task[t].op = "remove"
      BY <1>14, <2>1, LetGoOwn DEF AfterClose, Types, Fields
    <2>2. CASE task[t].op = "evict"
      BY <1>0, <1>14, <2>2 DEF AfterClose, IdleTask, locks
    <2>3. CASE task[t].op \notin {"remove", "evict"}
      BY <1>1, <1>14, <2>3 DEF AfterClose, locks
    <2>4. QED BY <2>1, <2>2, <2>3
  <1>15. CASE Forget(t) \/ Rest(t)
    BY <1>a, <1>1, <1>14, <1>15 DEF Forget, Rest, Own, registry, locks
  <1>16. CASE Cancel(t)
    BY <1>a, <1>16, LetGoOwn DEF Cancel, PruneUnshared, Own, registry, Types, Fields
  <1>17. QED BY <1>3, <1>4, <1>5, <1>6, <1>7, <1>8, <1>9, <1>10, <1>11, <1>12, <1>13, <1>15, <1>16

-----------------------------------------------------------------------------
(* Ids *)

(* Every id the manager works with was minted. *)
Known ==
    /\ Registered \subseteq minted
    /\ \A t \in Tasks : task[t].id # None => task[t].id \in minted
    /\ \A v \in victims : v[1] \in minted
    /\ \A id \in Ids : open[id] # None \/ opening[id] # None => id \in minted

(* Until it is registered, the id of a new entry is known to its request alone. *)
Unregistered(t) == task[t].op \in {"create", "register"} /\ task[t].at \notin {"cache", "touch"}

Private ==
    \A t \in Tasks : Unregistered(t) =>
        /\ task[t].id \notin Registered
        /\ open[task[t].id] = None
        /\ opening[task[t].id] = task[t].lock
        /\ \A u \in Tasks \ {t} : task[u].id # task[t].id
        /\ \A v \in victims : v[1] # task[t].id

(* A step of one task keeps the names known. *)
LEMMA OwnKnown ==
    ASSUME Types, Known, NEW t \in Tasks, Own(t)
    PROVE  Known'
  <1>1. \A i \in Registered' : i \in minted
    <2>. SUFFICES ASSUME NEW i \in Ids, path'[i] # None PROVE i \in minted
      BY DEF Registered
    <2>1. CASE i = task[t].id
      BY <2>1, DatabaseManagerAssumption DEF Known
    <2>2. CASE i # task[t].id
      BY <2>2 DEF Known, Own, Registered
    <2>3. QED BY <2>1, <2>2
  <1>2. \A u \in Tasks : task'[u].id # None => task'[u].id \in minted
    BY DEF Own, Known
  <1>3. \A i \in Ids : open'[i] # None \/ opening'[i] # None => i \in minted
    <2>. SUFFICES ASSUME NEW i \in Ids, open'[i] # None \/ opening'[i] # None PROVE i \in minted
      OBVIOUS
    <2>1. CASE i = task[t].id
      BY <2>1, DatabaseManagerAssumption DEF Known
    <2>2. CASE i # task[t].id
      BY <2>2 DEF Known, Own
    <2>3. QED BY <2>1, <2>2
  <1>4. QED BY <1>1, <1>2, <1>3 DEF Own, Known

(* A step of one task keeps every created database private until it is registered,
   when it keeps its own so. *)
LEMMA OwnPrivate ==
    ASSUME Types, Private, NEW t \in Tasks, Own(t),
           Unregistered(t)' => /\ Unregistered(t)
                               /\ task'[t].id = task[t].id
                               /\ path'[task[t].id] = path[task[t].id]
                               /\ open'[task[t].id] = open[task[t].id]
                               /\ opening'[task[t].id] = task'[t].lock
    PROVE  Private'
  <1>. SUFFICES ASSUME NEW u \in Tasks, Unregistered(u)'
                PROVE  /\ task'[u].id \notin Registered'
                       /\ open'[task'[u].id] = None
                       /\ opening'[task'[u].id] = task'[u].lock
                       /\ \A w \in Tasks \ {u} : task'[w].id # task'[u].id
                       /\ \A v \in victims' : v[1] # task'[u].id
    BY DEF Private
  <1>1. Unregistered(u) /\ task'[u].id = task[u].id
    BY DEF Own, Unregistered
  <1>2. task[u].id \in Ids /\ task[u].id # None
    BY <1>1, Places, DatabaseManagerAssumption DEF Unregistered, Operations
  <1>3. CASE u = t
    BY <1>1, <1>2, <1>3 DEF Private, Own, Registered
  <1>4. CASE u # t
    <2>1. task[u].id # task[t].id /\ task'[u] = task[u]
      BY <1>1, <1>4 DEF Private, Own
    <2>2. \A w \in Tasks \ {u} : task'[w].id # task[u].id
      BY <1>1, <1>2, <2>1 DEF Private, Own
    <2>3. QED BY <1>1, <1>2, <1>4, <2>1, <2>2 DEF Private, Own, Registered
  <1>5. QED BY <1>3, <1>4

(* The steps of a request keep a new id to itself. *)
LEMMA OwnStepsPrivate ==
    ASSUME Types, Private, NEW t \in Tasks,
           \/ Lookup(t) \/ Lock(t) \/ Recheck(t) \/ Resolve(t) \/ Build(t)
           \/ BuildFails(t) \/ Publish(t) \/ Touch(t)
           \/ CreateStart(t) \/ CheckPaths(t) \/ CreateFile(t) \/ Seed(t)
           \/ CreateFails(t) \/ Cache(t) \/ Unlink(t)
           \/ AwaitRegistry(t) \/ Saved(t) \/ SaveFails(t)
           \/ Take(t) \/ Forget(t) \/ Stop(t) \/ Rest(t)
           \/ Cancel(t)
    PROVE  Private'
  <1>. DEFINE id == task[t].id
              Fine == Unregistered(t)' => /\ Unregistered(t)
                                          /\ task'[t].id = id
                                          /\ path'[id] = path[id]
                                          /\ open'[id] = open[id]
                                          /\ opening'[id] = task'[t].lock
  <1>0. task[t] \in TaskRecords /\ task \in [Tasks -> TaskRecords]
    BY Places
  <1>1. ASSUME task'[t] = IdleTask PROVE Fine
    BY <1>1, DatabaseManagerAssumption DEF Unregistered, IdleTask, Operations
  <1>2. LetGo(t) => Fine
    BY <1>1, LetGoOwn
  <1>3. ASSUME NEW place, Goto(t, place)
        PROVE  /\ task'[t].id = id /\ task'[t].op = task[t].op /\ task'[t].lock = task[t].lock
               /\ task'[t].at = place
    BY <1>0, <1>3 DEF Goto, TaskRecords
  <1>4. CASE Lookup(t) \/ Lock(t) \/ Recheck(t) \/ Resolve(t) \/ Build(t) \/ Publish(t)
    <2>1. task[t].op \in {"open", "remove"}
      BY <1>4, Places DEF Lookup, Lock, Recheck, Resolve, Build, Publish, At
    <2>2. task'[t].op = task[t].op \/ LetGo(t)
      BY <1>0, <1>3, <1>4 DEF Lookup, Lock, Recheck, Resolve, Build, Publish, Finish, TaskRecords
    <2>3. Fine
      BY <1>2, <2>1, <2>2 DEF Unregistered
    <2>4. QED BY <1>4, <2>3, OwnSteps, OwnPrivate
  <1>5. CASE BuildFails(t) \/ Touch(t) \/ CreateFails(t) \/ Unlink(t) \/ Cancel(t)
    BY <1>2, <1>5, OwnSteps, OwnPrivate DEF BuildFails, Touch, CreateFails, Unlink, Cancel, Finish
  <1>6. CASE CreateStart(t) \/ CheckPaths(t) \/ CreateFile(t)
    <2>1. task[t].op = "create" /\ task[t].at \notin {"cache", "touch"}
      BY <1>6, Places DEF CreateStart, CheckPaths, CreateFile, At
    <2>2. LetGo(t) \/ ((\E place : Goto(t, place)) /\ UNCHANGED <<path, open, opening>>)
      BY <1>6 DEF CreateStart, CheckPaths, CreateFile, Finish, registry, locks
    <2>3. Fine
      BY <1>2, <1>3, <2>1, <2>2 DEF Unregistered, Private
    <2>4. QED BY <1>6, <2>3, OwnSteps, OwnPrivate
  <1>7. CASE Seed(t)
    <2>1. PICK l \in Locks :
             /\ LockFor(id, l)
             /\ \E s \in Sets : task' = [task EXCEPT ![t].set = s, ![t].lock = l, ![t].at = "await_registry"]
      BY <1>7 DEF Seed
    <2>2. task[t].op = "create" /\ task[t].at = "seed" /\ id \in Ids
      BY <1>7, Places DEF Seed, At
    <2>3. task'[t].id = id /\ task'[t].lock = l
      BY <1>0, <2>1 DEF TaskRecords
    <2>4. opening'[id] = l
      BY <2>1, <2>2 DEF LockFor, Types, Fields
    <2>5. Fine
      BY <1>7, <2>2, <2>3, <2>4 DEF Seed, Unregistered, registry
    <2>6. QED BY <1>7, <2>5, OwnSteps, OwnPrivate
  <1>8. CASE Cache(t)
    BY <1>3, <1>8, OwnSteps, OwnPrivate DEF Cache, Unregistered
  <1>9. CASE AwaitRegistry(t) \/ SaveFails(t)
    <2>1. task[t].at \notin {"cache", "touch"}
      BY <1>9 DEF AwaitRegistry, SaveFails, At
    <2>2. LetGo(t) \/ ((\E place : Goto(t, place)) /\ UNCHANGED <<path, open, opening>>)
      BY <1>9 DEF AwaitRegistry, SaveFails, Finish, registry
    <2>3. Fine
      BY <1>2, <1>3, <2>1, <2>2 DEF Unregistered, Private
    <2>4. QED BY <1>9, <2>3, OwnSteps, OwnPrivate
  <1>10. CASE Saved(t)
    <2>1. Fine
      BY <1>2, <1>3, <1>10 DEF Saved, Finish, Unregistered
    <2>2. QED BY <1>10, <2>1, OwnSteps, OwnPrivate
  <1>11. CASE Take(t) \/ Forget(t)
    <2>1. task[t].op \in {"remove", "evict"}
      BY <1>11, Places DEF Take, Forget, At
    <2>2. task'[t].op = task[t].op \/ LetGo(t)
      BY <1>0, <1>3, <1>11, <2>1 DEF Take, Forget, AfterClose, TaskRecords, IdleTask
    <2>3. Fine
      BY <1>2, <2>1, <2>2 DEF Unregistered
    <2>4. QED BY <1>11, <2>3, OwnSteps, OwnPrivate
  <1>12. CASE Stop(t) \/ Rest(t)
    <2>1. task[t].op \in {"open", "create", "remove", "evict"} /\ task[t].at \in {"stop", "rest"}
      BY <1>12, Places DEF Stop, Rest, At
    <2>2. CASE task[t].op = "create"
      <3>1. (\E place : Goto(t, place)) /\ UNCHANGED <<path, open, opening>>
        BY <1>12, <2>2 DEF Stop, Rest, AfterClose, registry, locks
      <3>2. Fine
        BY <1>3, <2>1, <2>2, <3>1 DEF Unregistered, Private
      <3>3. QED BY <1>12, <3>2, OwnSteps, OwnPrivate
    <2>3. CASE task[t].op \in {"open", "remove", "evict"}
      <3>1. task'[t].op = task[t].op \/ LetGo(t)
        BY <1>0, <1>3, <1>12, <2>3 DEF Stop, Rest, AfterClose, TaskRecords, IdleTask
      <3>2. Fine
        BY <1>2, <2>3, <3>1 DEF Unregistered
      <3>3. QED BY <1>12, <3>2, OwnSteps, OwnPrivate
    <2>4. QED BY <2>1, <2>2, <2>3
  <1>13. QED BY <1>4, <1>5, <1>6, <1>7, <1>8, <1>9, <1>10, <1>11, <1>12

(* A request that names a registered database. *)
LEMMA NamesRegistered ==
    ASSUME Types, NEW t \in Clients, NEW id \in Ids,
           Request(t, id) \/ RemoveCall(t, id) \/ (\E op \in {"set_default", "rename"} : EditCall(t, op, id))
    PROVE  /\ task[t] = IdleTask /\ id \in Registered
           /\ \A u \in Tasks \ {t} : task'[u] = task[u]
           /\ task'[t].id = id /\ task'[t].op \in {"open", "remove", "set_default", "rename"}
           /\ task'[t].at \in {"lookup", "await_lock", "await_registry"}
           /\ task'[t].op \in {"set_default", "rename"} => task'[t].at = "await_registry"
           /\ task'[t].set = None
           /\ task'[t].at # "await_lock" => task'[t].lock = None
           /\ \A i \in Ids \ {id} : opening'[i] = opening[i]
           /\ UNCHANGED <<path, default, minted, met, writer, creator, holder, open, files, sets, jobs, victims, mode>>
  <1>. t \in Tasks /\ task \in [Tasks -> TaskRecords]
    BY Places DEF Tasks
  <1>0. /\ task[t] = IdleTask /\ id \in Registered
    BY Places DEF Request, RemoveCall, EditCall, Begin, NewCall, At
  <1>1. ASSUME NEW op, NEW place, Begin(t, op, place, id, None)
        PROVE  /\ \A u \in Tasks \ {t} : task'[u] = task[u]
               /\ task'[t].id = id /\ task'[t].op = op /\ task'[t].at = place
               /\ task'[t].set = None /\ task'[t].lock = None
    BY <1>1 DEF Begin, IdleTask
  <1>2. CASE Request(t, id)
    <2>1. Begin(t, "open", "lookup", id, None)
      BY <1>2 DEF Request
    <2>2. QED BY <1>0, <1>1, <1>2, <2>1 DEF Request, registry, locks
  <1>3. CASE RemoveCall(t, id)
    <2>1. PICK l \in Locks :
            /\ opening' = [opening EXCEPT ![id] = l]
            /\ task' = [task EXCEPT ![t] = [IdleTask EXCEPT !.op = "remove", !.id = id,
                                                         !.at = "await_lock", !.lock = l]]
      BY <1>3 DEF RemoveCall, LockFor
    <2>2. (\A u \in Tasks \ {t} : task'[u] = task[u]) /\ task'[t].id = id /\ task'[t].op = "remove"
          /\ task'[t].at = "await_lock" /\ task'[t].set = None
      BY <2>1 DEF IdleTask
    <2>3. \A i \in Ids \ {id} : opening'[i] = opening[i]
      BY <2>1 DEF Types, Fields
    <2>4. QED BY <1>0, <1>3, <2>2, <2>3 DEF RemoveCall, registry
  <1>4. ASSUME NEW op \in {"set_default", "rename"}, EditCall(t, op, id)
        PROVE  /\ \A u \in Tasks \ {t} : task'[u] = task[u]
               /\ task'[t].id = id /\ task'[t].op = op /\ task'[t].at = "await_registry"
               /\ task'[t].set = None /\ task'[t].lock = None
    BY <1>1, <1>4 DEF EditCall
  <1>5. CASE \E op \in {"set_default", "rename"} : EditCall(t, op, id)
    BY <1>0, <1>4, <1>5 DEF EditCall, registry, locks
  <1>6. QED BY <1>2, <1>3, <1>5

(* A request that mints the id of a new entry. *)
LEMMA NamesNew ==
    ASSUME Types, NEW t \in Clients, NEW id \in Ids, NEW p \in Paths,
           \/ CreateCall(t, id, p)
           \/ RegisterCall(t, id, p)
    PROVE  /\ task[t] = IdleTask /\ id \notin minted /\ minted' = minted \cup {id}
           /\ \A u \in Tasks \ {t} : task'[u] = task[u]
           /\ \/ task'[t].op = "create" /\ task'[t].at = "await_create" /\ CreateCall(t, id, p)
              \/ /\ task'[t].op = "register" /\ task'[t].at = "await_registry" /\ p \in files
                 /\ Undoable(p) => p \in met'
           /\ task'[t].id = id /\ task'[t].lock = None /\ task'[t].set = None /\ task'[t].path = p
           /\ met \subseteq met'
           /\ UNCHANGED <<path, default, locks, open, files, sets, jobs, victims, mode>>
  <1>. t \in Tasks /\ task \in [Tasks -> TaskRecords]
    BY Places DEF Tasks
  <1>0. task[t] = IdleTask
    BY Places DEF CreateCall, RegisterCall, Begin, NewCall, At
  <1>1. ASSUME NEW op, NEW place, Begin(t, op, place, id, p)
        PROVE  /\ \A u \in Tasks \ {t} : task'[u] = task[u]
               /\ task'[t].id = id /\ task'[t].op = op /\ task'[t].at = place /\ task'[t].path = p
               /\ task'[t].set = None /\ task'[t].lock = None
    BY <1>1 DEF Begin, IdleTask
  <1>2. CASE CreateCall(t, id, p)
    <2>1. Begin(t, "create", "await_create", id, p)
      BY <1>2 DEF CreateCall
    <2>2. QED BY <1>0, <1>1, <1>2, <2>1 DEF CreateCall, Mint
  <1>3. CASE RegisterCall(t, id, p)
    <2>1. Begin(t, "register", "await_registry", id, p)
      BY <1>3 DEF RegisterCall
    <2>2. QED BY <1>0, <1>1, <1>3, <2>1 DEF RegisterCall, Mint
  <1>4. QED BY <1>2, <1>3

(* Ids of the reaper's candidates were open, so minted and no request's own. *)
LEMMA SweepKnown ==
    ASSUME Types, Known, Private, Collect(Reaper) \/ Pick(Reaper) \/ Pending(Reaper) \/ SweepDone(Reaper)
    PROVE  Known' /\ Private'
  <1>0. Reaper \in Tasks /\ task \in [Tasks -> TaskRecords] /\ task[Reaper] \in TaskRecords
    BY Places DEF Tasks
  <1>1. /\ UNCHANGED <<path, minted, open, opening>>
        /\ \A u \in Tasks \ {Reaper} : task'[u] = task[u]
    BY <1>0 DEF Collect, Pick, Pending, SweepDone, Goto, registry, locks
  <1>2. \A v \in victims' : v \in victims \/ \E id \in Ids : open[id] # None /\ v[1] = id
    <2>1. CASE Collect(Reaper)
      <3>1. PICK active : victims' = {<<id, open[id]>> :
                  id \in {i \in Ids \ {default, active} : open[i] # None /\ activity[i] = "idle"}}
        BY <2>1 DEF Collect
      <3>2. QED BY <3>1
    <2>2. CASE Pick(Reaper) \/ Pending(Reaper) \/ SweepDone(Reaper)
      BY <2>2 DEF Pick, Pending, SweepDone
    <2>3. QED BY <2>1, <2>2
  <1>3. task'[Reaper].id \in {None, task[Reaper].id} \cup {v[1] : v \in victims}
    <2>1. CASE Collect(Reaper) \/ Pending(Reaper) \/ SweepDone(Reaper)
      BY <1>0, <2>1 DEF Collect, Pending, SweepDone, Goto, IdleTask, TaskRecords
    <2>2. CASE Pick(Reaper)
      <3>1. PICK v \in victims :
              task' = task \/ task' = [task EXCEPT ![Reaper].id = v[1], ![Reaper].at = "pending"]
        BY <2>2 DEF Pick
      <3>2. QED BY <1>0, <3>1 DEF TaskRecords
    <2>3. QED BY <2>1, <2>2
  <1>4. task'[Reaper].op \in {None, "evict"}
    BY SweepTypes DEF Types, Whereabouts
  <1>5. Known'
    BY <1>0, <1>1, <1>2, <1>3 DEF Known, Registered
  <1>6. \A u \in Tasks : Unregistered(u)' => u # Reaper /\ Unregistered(u)
    BY <1>1, <1>4, DatabaseManagerAssumption DEF Unregistered, Operations
  <1>7. \A u \in Tasks : Unregistered(u) => task[u].id # None /\ task[u].id \in Ids
    BY Places, DatabaseManagerAssumption DEF Unregistered, Operations
  <1>8. QED BY <1>0, <1>1, <1>2, <1>3, <1>5, <1>6, <1>7 DEF Private, Registered

(* The steps that move no task. *)
LEMMA AsideSteps ==
    ASSUME Types,
           \/ \E j \in jobs : JobStop(j) \/ JobEnds(j)
           \/ \E s \in Sets : StartTurn(s) \/ EndTurn(s) \/ ShutdownSet(s)
           \/ \E id \in Ids : Age(id)
           \/ StopServing \/ ShutdownAll \/ ShutdownEnds
           \/ UNCHANGED vars
    PROVE  /\ UNCHANGED <<registry, locks, task, victims, home, abandoned>>
           /\ open' \in {open, [id \in Ids |-> None]}
  BY DEF JobStop, JobEnds, StartTurn, EndTurn, ShutdownSet, Age, StopServing, ShutdownAll, ShutdownEnds,
         Stopping, Stopped, registry, locks, sets, vars

(* No step uses an id before it is minted, and a created one is its creator's alone
   until registered. *)
LEMMA KnownStep == Types /\ Known /\ Private /\ [Next]_vars => Known' /\ Private'
  <1>. SUFFICES ASSUME Types, Known, Private, Next \/ UNCHANGED vars PROVE Known' /\ Private'
    OBVIOUS
  <1>. Clients \subseteq Tasks
    BY DEF Tasks
  <1>1. ASSUME NEW t \in Clients, NEW id \in Ids,
               Request(t, id) \/ RemoveCall(t, id) \/ (\E op \in {"set_default", "rename"} : EditCall(t, op, id))
        PROVE  Known' /\ Private'
    <2>1. id \in Registered /\ id \in minted
      BY <1>1, NamesRegistered DEF Known
    <2>2. Known'
      BY <1>1, <2>1, NamesRegistered DEF Known, Registered
    <2>3. \A u \in Tasks : Unregistered(u)' => u # t /\ Unregistered(u)
      BY <1>1, NamesRegistered DEF Unregistered
    <2>4. \A u \in Tasks : Unregistered(u) => task[u].id # id /\ task[u].id \in Ids
      BY <2>1, Places, DatabaseManagerAssumption DEF Unregistered, Operations, Private
    <2>5. QED BY <1>1, <2>2, <2>3, <2>4, NamesRegistered DEF Private, Registered
  <1>2. ASSUME NEW t \in Clients, NEW id \in Ids, NEW p \in Paths,
               \/ CreateCall(t, id, p)
               \/ RegisterCall(t, id, p)
        PROVE  Known' /\ Private'
    <2>1. /\ id \notin minted /\ minted' = minted \cup {id} /\ task'[t].id = id /\ task'[t].lock = None
          /\ \A u \in Tasks \ {t} : task'[u] = task[u]
          /\ UNCHANGED <<path, opening, open, victims>>
      BY <1>2, NamesNew DEF locks
    <2>2. Known'
      BY <2>1 DEF Known, Registered
    <2>3. /\ id \notin Registered /\ open[id] = None /\ opening[id] = None
          /\ \A u \in Tasks : task[u].id # id
          /\ \A v \in victims : v[1] # id
      BY <2>1, DatabaseManagerAssumption DEF Known
    <2>4. QED BY <2>1, <2>2, <2>3 DEF Private, Registered, Unregistered
  <1>3. ASSUME NEW t \in Tasks,
               \/ Lookup(t) \/ Lock(t) \/ Recheck(t) \/ Resolve(t) \/ Build(t)
               \/ BuildFails(t) \/ Publish(t) \/ Touch(t)
               \/ CreateStart(t) \/ CheckPaths(t) \/ CreateFile(t) \/ Seed(t)
               \/ CreateFails(t) \/ Cache(t) \/ Unlink(t)
               \/ AwaitRegistry(t) \/ Saved(t) \/ SaveFails(t)
               \/ Take(t) \/ Forget(t) \/ Stop(t) \/ Rest(t)
               \/ Cancel(t)
        PROVE  Known' /\ Private'
    BY <1>3, OwnSteps, OwnKnown, OwnStepsPrivate
  <1>4. ASSUME /\ UNCHANGED <<registry, locks, task, victims, home>>
               /\ open' \in {open, [id \in Ids |-> None]}
        PROVE  Known' /\ Private'
    <2>1. \A i \in Ids : open'[i] \in {open[i], None}
      BY <1>4
    <2>2. \A u \in Tasks : Unregistered(u) => task[u].id \in Ids
      BY Places, DatabaseManagerAssumption DEF Unregistered, Operations
    <2>3. Known'
      BY <1>4, <2>1 DEF Known, Registered, registry, locks
    <2>4. QED BY <1>4, <2>1, <2>2, <2>3 DEF Private, Registered, Unregistered, registry, locks
  <1>5. CASE Next
    BY <1>1, <1>2, <1>3, <1>4, <1>5, Steps, SweepKnown, AsideSteps
  <1>6. CASE UNCHANGED vars
    BY <1>4, <1>6, AsideSteps
  <1>7. QED BY <1>5, <1>6

-----------------------------------------------------------------------------
(* Locks *)

(* Each lock is held by the task that stands where it has taken it. *)
Holders ==
    /\ \A t \in Tasks : writer = t <=> task[t].at = "saving"
    /\ \A t \in Tasks : creator = t <=> task[t].op = "create" /\ task[t].at # "await_create"
    /\ \A l \in Locks, t \in Tasks :
          holder[l] = t <=> task[t].lock = l /\ task[t].at # "await_lock"

(* A task that goes on with the locks it has. *)
LEMMA HoldersSame ==
    ASSUME Types, Holders, NEW t \in Tasks, UNCHANGED <<writer, creator, holder>>,
           \A u \in Tasks \ {t} : task'[u] = task[u],
           task'[t].at = "saving" <=> task[t].at = "saving",
           task'[t].op = "create" /\ task'[t].at # "await_create"
             <=> task[t].op = "create" /\ task[t].at # "await_create",
           \A l \in Locks : task'[t].lock = l /\ task'[t].at # "await_lock"
                              <=> task[t].lock = l /\ task[t].at # "await_lock"
    PROVE  Holders'
  BY DEF Holders

(* A task that ends gives back what it held, so that the holders stay the tasks that
   stand past the lock. *)
LEMMA HoldersLetGo ==
    ASSUME Types, Holders, NEW t \in Tasks, LetGo(t)
    PROVE  Holders'
  <1>1. \A u \in Tasks \ {t} : task'[u] = task[u]
    BY LetGoOwn
  <1>2. task'[t].at = "idle" /\ task'[t].op = None /\ task'[t].lock = None
    BY LetGoOwn DEF IdleTask
  <1>3. None \notin Tasks /\ None \notin Locks /\ None # "create"
    BY DatabaseManagerAssumption DEF Tasks, Operations
  <1>4. \A u \in Tasks : writer' = u <=> u # t /\ writer = u
    BY <1>3 DEF LetGo
  <1>5. \A u \in Tasks : creator' = u <=> u # t /\ creator = u
    BY <1>3 DEF LetGo
  <1>6. \A l \in Locks, u \in Tasks : holder'[l] = u <=> u # t /\ holder[l] = u
    BY <1>3 DEF LetGo
  <1>7. QED BY <1>1, <1>2, <1>3, <1>4, <1>5, <1>6 DEF Holders

(* A task that goes on past no lock leaves the holders what they were. *)
LEMMA HoldersGoto ==
    ASSUME Types, Holders, NEW t \in Tasks, NEW place, Goto(t, place), UNCHANGED <<writer, creator, holder>>,
           task[t].at \notin {"saving", "await_create", "await_lock"},
           place \notin {"saving", "await_create", "await_lock"}
    PROVE  Holders'
  <1>1. /\ \A u \in Tasks \ {t} : task'[u] = task[u]
        /\ task'[t].at = place /\ task'[t].op = task[t].op /\ task'[t].lock = task[t].lock
    BY Places DEF Goto, TaskRecords
  <1>2. QED BY <1>1, HoldersSame

(* open_database takes the mutex of its database and gives it back on every path out. *)
LEMMA OpenHolders ==
    ASSUME Types, Holders, NEW t \in Clients,
           \/ Lookup(t) \/ Lock(t) \/ Recheck(t) \/ Resolve(t) \/ Build(t)
           \/ BuildFails(t) \/ Publish(t) \/ Touch(t)
    PROVE  Holders'
  <1>. t \in Tasks
    BY DEF Tasks
  <1>0. task[t] \in TaskRecords /\ task \in [Tasks -> TaskRecords]
    BY Places
  <1>1. CASE Lookup(t)
    <2>1. task[t].at = "lookup" /\ task[t].op = "open" /\ task[t].lock = None
      BY <1>1, Places DEF Lookup, At, Types, Whereabouts, Sound
    <2>2. CASE Goto(t, "touch")
      BY <1>1, <2>1, <2>2, HoldersGoto DEF Lookup
    <2>3. CASE \E l \in Locks : task' = [task EXCEPT ![t].at = "await_lock", ![t].lock = l]
      <3>1. /\ \A u \in Tasks \ {t} : task'[u] = task[u]
            /\ task'[t].op = "open" /\ task'[t].at = "await_lock"
        BY <1>0, <2>1, <2>3 DEF TaskRecords
      <3>2. QED BY <1>1, <2>1, <3>1, HoldersSame, DatabaseManagerAssumption DEF Lookup
    <2>4. QED BY <1>1, <2>2, <2>3 DEF Lookup
  <1>2. CASE Lock(t)
    <2>. DEFINE l == task[t].lock
    <2>1. task[t].at = "await_lock" /\ task[t].op \in {"open", "remove"} /\ holder[l] = None
      BY <1>2, Places DEF Lock, At
    <2>2. l \in Locks
      BY <2>1 DEF Types, Whereabouts, Sound
    <2>3. /\ \A u \in Tasks \ {t} : task'[u] = task[u]
          /\ task'[t].at \in {"recheck", "await_registry"} /\ task'[t].op = task[t].op /\ task'[t].lock = l
      BY <1>0, <1>2 DEF Lock, Goto, TaskRecords
    <2>4. \A k \in Locks : holder'[k] = IF k = l THEN t ELSE holder[k]
      BY <1>2, <2>2 DEF Lock, Types, Fields
    <2>5. None \notin Tasks
      BY DatabaseManagerAssumption DEF Tasks
    <2>6. UNCHANGED <<writer, creator>>
      BY <1>2 DEF Lock
    <2>. HIDE DEF l
    <2>7. \A k \in Locks, u \in Tasks : holder'[k] = u <=> task'[u].lock = k /\ task'[u].at # "await_lock"
      <3>1. \A k \in Locks : holder'[k] = t <=> task'[t].lock = k /\ task'[t].at # "await_lock"
        BY <2>1, <2>2, <2>3, <2>4 DEF Holders, l
      <3>2. \A k \in Locks, u \in Tasks \ {t} : holder'[k] = u <=> holder[k] = u
        BY <2>1, <2>2, <2>4, <2>5
      <3>3. QED BY <2>3, <3>1, <3>2 DEF Holders
    <2>8. QED BY <2>1, <2>3, <2>6, <2>7 DEF Holders
  <1>3. CASE Recheck(t) \/ Publish(t)
    <2>1. task[t].at \in {"recheck", "publish"}
      BY <1>3 DEF Recheck, Publish, At
    <2>2. \E place \in {"touch", "resolve", "stop"} : Goto(t, place)
      BY <1>3 DEF Recheck, Publish
    <2>3. UNCHANGED <<writer, creator, holder>>
      BY <1>3 DEF Recheck, Publish, locks
    <2>4. QED BY <2>1, <2>2, <2>3, HoldersGoto
  <1>4. CASE BuildFails(t) \/ Touch(t)
    BY <1>4, HoldersLetGo DEF BuildFails, Touch, Finish
  <1>5. CASE Resolve(t)
    <2>1. CASE Finish(t)
      BY <2>1, HoldersLetGo DEF Finish
    <2>2. CASE task' = [task EXCEPT ![t].at = "build", ![t].path = path[task[t].id]] /\ UNCHANGED locks
      <3>1. task[t].at = "resolve" /\ task[t].op = "open"
        BY <1>5, Places DEF Resolve, At
      <3>2. /\ \A u \in Tasks \ {t} : task'[u] = task[u]
            /\ task'[t].op = "open" /\ task'[t].at = "build" /\ task'[t].lock = task[t].lock
        BY <1>0, <2>2, <3>1 DEF TaskRecords
      <3>3. QED BY <2>2, <3>1, <3>2, HoldersSame DEF locks
    <2>3. QED BY <1>5, <2>1, <2>2 DEF Resolve
  <1>6. CASE Build(t)
    <2>1. task[t].at = "build" /\ task[t].op = "open"
      BY <1>6, Places DEF Build, At
    <2>2. /\ \A u \in Tasks \ {t} : task'[u] = task[u]
          /\ task'[t].op = "open" /\ task'[t].at = "publish" /\ task'[t].lock = task[t].lock
      <3>1. PICK s \in Sets : task' = [task EXCEPT ![t].set = s, ![t].at = "publish"]
        BY <1>6 DEF Build
      <3>2. QED BY <1>0, <2>1, <3>1 DEF TaskRecords
    <2>3. QED BY <1>6, <2>1, <2>2, HoldersSame DEF Build, locks
  <1>7. QED BY <1>1, <1>2, <1>3, <1>4, <1>5, <1>6

(* create_database takes the create lock and then the fresh mutex, and gives both
   back on every path out. *)
LEMMA CreateHolders ==
    ASSUME Types, Holders, Private, NEW t \in Clients,
           \/ CreateStart(t) \/ CheckPaths(t) \/ CreateFile(t) \/ Seed(t)
           \/ CreateFails(t) \/ Cache(t) \/ Unlink(t)
    PROVE  Holders'
  <1>. t \in Tasks
    BY DEF Tasks
  <1>0. task[t] \in TaskRecords /\ task \in [Tasks -> TaskRecords]
    BY Places
  <1>a. None \notin Tasks /\ None \notin Locks
    BY DatabaseManagerAssumption DEF Tasks
  <1>1. CASE CreateStart(t)
    <2>1. CASE Finish(t)
      BY <2>1, HoldersLetGo DEF Finish
    <2>2. CASE creator' = t /\ Goto(t, "check_paths") /\ UNCHANGED <<writer, opening, holder>>
      <3>1. task[t].at = "await_create" /\ task[t].op = "create" /\ creator = None
        BY <1>1, Places DEF CreateStart, At
      <3>2. /\ \A u \in Tasks \ {t} : task'[u] = task[u]
            /\ task'[t].op = "create" /\ task'[t].at = "check_paths" /\ task'[t].lock = task[t].lock
        BY <1>0, <2>2, <3>1 DEF Goto, TaskRecords
      <3>3. \A u \in Tasks \ {t} : ~(task[u].op = "create" /\ task[u].at # "await_create")
        BY <1>a, <3>1 DEF Holders
      <3>4. QED BY <2>2, <3>1, <3>2, <3>3 DEF Holders
    <2>3. QED BY <1>1, <2>1, <2>2 DEF CreateStart
  <1>2. CASE CheckPaths(t)
    <2>1. CASE Finish(t)
      BY <2>1, HoldersLetGo DEF Finish
    <2>2. CASE Goto(t, "create_file") /\ UNCHANGED locks
      BY <1>2, <2>2, HoldersGoto DEF CheckPaths, At, locks
    <2>3. QED BY <1>2, <2>1, <2>2 DEF CheckPaths
  <1>3. CASE CreateFile(t) \/ Cache(t)
    <2>1. task[t].at \in {"create_file", "cache"} /\ UNCHANGED <<writer, creator, holder>>
      BY <1>3 DEF CreateFile, Cache, At, locks
    <2>2. \E place \in {"seed", "touch"} : Goto(t, place)
      BY <1>3 DEF CreateFile, Cache
    <2>3. QED BY <2>1, <2>2, HoldersGoto
  <1>4. CASE CreateFails(t) \/ Unlink(t)
    BY <1>4, HoldersLetGo DEF CreateFails, Unlink, Finish
  <1>5. CASE Seed(t)
    <2>1. PICK s \in Sets, l \in Locks :
             /\ LockFor(task[t].id, l) /\ holder' = [holder EXCEPT ![l] = t]
             /\ task' = [task EXCEPT ![t].set = s, ![t].lock = l, ![t].at = "await_registry"]
      BY <1>5 DEF Seed
    <2>2. task[t].at = "seed" /\ task[t].op = "create" /\ task[t].lock = None
      <3>1. task[t].at = "seed" /\ task[t].op = "create"
        BY <1>5, Places DEF Seed, At
      <3>2. task[t].lock \notin Locks
        BY <3>1 DEF Types, Whereabouts, Sound
      <3>3. QED BY <1>0, <3>1, <3>2 DEF TaskRecords
    <2>3. opening[task[t].id] = None
      BY <2>2 DEF Private, Unregistered
    <2>4. Unreferenced(l)
      BY <1>a, <2>1, <2>3 DEF LockFor
    <2>5. \A u \in Tasks : task[u].lock # l
      BY <2>4 DEF Unreferenced
    <2>6. /\ \A u \in Tasks \ {t} : task'[u] = task[u]
          /\ task'[t].op = "create" /\ task'[t].at = "await_registry" /\ task'[t].lock = l
      BY <1>0, <2>1, <2>2 DEF TaskRecords
    <2>7. \A k \in Locks : holder'[k] = IF k = l THEN t ELSE holder[k]
      BY <2>1 DEF Types, Fields
    <2>8. \A u \in Tasks : holder[l] # u
      BY <2>5 DEF Holders
    <2>9. \A k \in Locks, u \in Tasks : holder'[k] = u <=> task'[u].lock = k /\ task'[u].at # "await_lock"
      <3>1. \A k \in Locks : holder'[k] = t <=> task'[t].lock = k
        BY <1>a, <2>2, <2>6, <2>7 DEF Holders
      <3>2. \A k \in Locks, u \in Tasks \ {t} : holder'[k] = u <=> holder[k] = u
        BY <2>7, <2>8
      <3>3. QED BY <2>6, <3>1, <3>2 DEF Holders
    <2>10. UNCHANGED <<writer, creator>>
      BY <1>5 DEF Seed
    <2>11. QED BY <2>2, <2>6, <2>9, <2>10 DEF Holders
  <1>6. QED BY <1>1, <1>2, <1>3, <1>4, <1>5

(* The registry mutex is held across the save alone. *)
LEMMA RegistryHolders ==
    ASSUME Types, Holders, NEW t \in Clients, AwaitRegistry(t) \/ Saved(t) \/ SaveFails(t)
    PROVE  Holders'
  <1>. t \in Tasks
    BY DEF Tasks
  <1>0. task[t] \in TaskRecords /\ task \in [Tasks -> TaskRecords]
    BY Places
  <1>a. None \notin Tasks /\ None \notin Locks
    BY DatabaseManagerAssumption DEF Tasks
  <1>1. CASE Finish(t)
    BY <1>1, HoldersLetGo DEF Finish
  <1>2. ASSUME NEW place, Goto(t, place), UNCHANGED <<holder, creator>>,
               place \notin {"await_create", "await_lock"}, task[t].at \notin {"await_create", "await_lock"},
               \A u \in Tasks \ {t} : writer' = u <=> writer = u,
               writer' = t <=> place = "saving"
        PROVE  Holders'
    <2>1. /\ \A u \in Tasks \ {t} : task'[u] = task[u]
          /\ task'[t].op = task[t].op /\ task'[t].at = place /\ task'[t].lock = task[t].lock
      BY <1>0, <1>2 DEF Goto, TaskRecords
    <2>2. QED BY <1>2, <2>1 DEF Holders
  <1>3. CASE AwaitRegistry(t) /\ ~Finish(t)
    BY <1>a, <1>2, <1>3 DEF AwaitRegistry, At, RegistryFree, Holders
  <1>4. CASE (Saved(t) \/ SaveFails(t)) /\ ~Finish(t)
    <2>1. task[t].at = "saving" /\ writer' = None /\ UNCHANGED <<holder, creator>>
      BY <1>4 DEF Saved, SaveFails, At
    <2>2. writer = t
      BY <2>1 DEF Holders
    <2>3. \E place \in {"cache", "take", "stop"} : Goto(t, place)
      BY <1>4 DEF Saved, SaveFails
    <2>4. QED BY <1>a, <1>2, <2>1, <2>2, <2>3
  <1>5. QED BY <1>1, <1>3, <1>4

(* close_database takes the mutex of its database, or goes on without one when there
   is none. *)
LEMMA CloseHolders ==
    ASSUME Types, Holders, NEW t \in Tasks, Take(t) \/ Forget(t) \/ Stop(t) \/ Rest(t)
    PROVE  Holders'
  <1>0. task[t] \in TaskRecords /\ task \in [Tasks -> TaskRecords]
    BY Places
  <1>1. task[t].at \in {"take", "forget", "stop", "rest"}
    BY DEF Take, Forget, Stop, Rest, At
  <1>2. ASSUME NEW place \in {"stop", "rest", "unlink", "touch"}, Goto(t, place), UNCHANGED locks
        PROVE  Holders'
    BY <1>1, <1>2, HoldersGoto DEF locks
  <1>3. CASE Take(t)
    <2>1. /\ \A u \in Tasks \ {t} : task'[u] = task[u]
          /\ task'[t].op = task[t].op /\ task'[t].at = "forget" /\ task'[t].lock = task[t].lock
      BY <1>0, <1>3 DEF Take, TaskRecords
    <2>2. QED BY <1>1, <1>3, <2>1, HoldersSame DEF Take, locks
  <1>4. CASE AfterClose(t)
    <2>1. CASE task[t].op = "remove"
      BY <1>4, <2>1, HoldersLetGo DEF AfterClose
    <2>2. CASE task[t].op = "evict"
      <3>1. task[t].lock = None
        BY <2>2 DEF Types, Whereabouts, Sound
      <3>2. /\ \A u \in Tasks \ {t} : task'[u] = task[u]
            /\ task'[t].op = "evict" /\ task'[t].at = "pick" /\ task'[t].lock = None
            /\ UNCHANGED locks
        BY <1>0, <1>4, <2>2 DEF AfterClose, IdleTask
      <3>3. QED BY <1>1, <2>2, <3>1, <3>2, HoldersSame DEF locks
    <2>3. CASE task[t].op \notin {"remove", "evict"}
      BY <1>2, <1>4, <2>3 DEF AfterClose
    <2>4. QED BY <2>1, <2>2, <2>3
  <1>5. CASE Forget(t) \/ Stop(t) \/ Rest(t)
    BY <1>2, <1>4, <1>5 DEF Forget, Stop, Rest
  <1>6. QED BY <1>3, <1>5

(* Every step keeps each lock with the one task that stands past it. *)
LEMMA HoldersStep == Types /\ Private /\ Holders /\ [Next]_vars => Holders'
  <1>. SUFFICES ASSUME Types, Private, Holders, Next \/ UNCHANGED vars PROVE Holders'
    OBVIOUS
  <1>. Clients \subseteq Tasks
    BY DEF Tasks
  <1>a. None \notin Locks /\ None # "create"
    BY DatabaseManagerAssumption DEF Operations
  <1>1. ASSUME NEW t \in Clients, NEW id \in Ids,
               Request(t, id) \/ RemoveCall(t, id) \/ (\E op \in {"set_default", "rename"} : EditCall(t, op, id))
        PROVE  Holders'
    <2>1. task[t].at = "idle" /\ task[t].op = None /\ task[t].lock = None
      BY <1>1, NamesRegistered DEF IdleTask
    <2>2. /\ \A u \in Tasks \ {t} : task'[u] = task[u]
          /\ task'[t].op # "create" /\ task'[t].at # "saving" /\ UNCHANGED <<writer, creator, holder>>
          /\ task'[t].at # "await_lock" => task'[t].lock = None
      BY <1>1, NamesRegistered
    <2>3. QED BY <1>a, <2>1, <2>2, HoldersSame
  <1>2. ASSUME NEW t \in Clients, NEW id \in Ids, NEW p \in Paths,
               \/ CreateCall(t, id, p)
               \/ RegisterCall(t, id, p)
        PROVE  Holders'
    <2>1. task[t].at = "idle" /\ task[t].op = None /\ task[t].lock = None
      BY <1>2, NamesNew DEF IdleTask
    <2>2. /\ \A u \in Tasks \ {t} : task'[u] = task[u]
          /\ task'[t].at # "saving" /\ task'[t].lock = None
          /\ task'[t].op = "create" => task'[t].at = "await_create"
      BY <1>2, NamesNew
    <2>3. UNCHANGED <<writer, creator, holder>>
      BY <1>2, NamesNew DEF locks
    <2>4. QED BY <1>a, <2>1, <2>2, <2>3, HoldersSame
  <1>3. ASSUME NEW t \in Clients, Cancel(t) PROVE Holders'
    BY <1>3, HoldersLetGo DEF Cancel
  <1>4. CASE Collect(Reaper) \/ Pick(Reaper) \/ Pending(Reaper) \/ SweepDone(Reaper)
    <2>1. Reaper \in Tasks /\ task \in [Tasks -> TaskRecords] /\ task[Reaper] \in TaskRecords
      BY Places DEF Tasks
    <2>2. /\ \A u \in Tasks \ {Reaper} : task'[u] = task[u]
          /\ UNCHANGED <<writer, creator, holder>>
      BY <1>4, <2>1 DEF Collect, Pick, Pending, SweepDone, Goto, locks
    <2>3. task[Reaper].at \in {"idle", "pick", "pending"}
      BY <1>4 DEF Collect, Pick, Pending, SweepDone, At
    <2>4. task[Reaper].op \in {None, "evict"} /\ task'[Reaper].op \in {None, "evict"}
          /\ Sound(task[Reaper]) /\ Sound(task'[Reaper])
      BY <1>4, <2>1, SweepTypes DEF Types, Whereabouts
    <2>5. task'[Reaper].at \in {"idle", "pick", "pending", "take"}
      <3>1. CASE Collect(Reaper) \/ Pending(Reaper) \/ SweepDone(Reaper)
        BY <2>1, <3>1 DEF Collect, Pending, SweepDone, Goto, IdleTask, TaskRecords
      <3>2. CASE Pick(Reaper)
        <4>1. PICK v \in victims :
                task' = task \/ task' = [task EXCEPT ![Reaper].id = v[1], ![Reaper].at = "pending"]
          BY <3>2 DEF Pick
        <4>2. QED BY <2>1, <2>3, <4>1 DEF TaskRecords
      <3>3. QED BY <1>4, <3>1, <3>2
    <2>6. task[Reaper].lock = None /\ task'[Reaper].lock = None
      BY <2>3, <2>4, <2>5, DatabaseManagerAssumption DEF Sound, IdleTask, Operations
    <2>7. QED BY <1>a, <2>1, <2>2, <2>3, <2>4, <2>5, <2>6, HoldersSame
  <1>5. ASSUME UNCHANGED <<registry, locks, task, victims, home>> PROVE Holders'
    BY <1>5 DEF Holders, locks
  <1>6. CASE Next
    BY <1>1, <1>2, <1>3, <1>4, <1>5, <1>6, Steps, AsideSteps,
                 OpenHolders, CreateHolders, RegistryHolders, CloseHolders
  <1>7. CASE UNCHANGED vars
    BY <1>7 DEF vars, Holders
  <1>8. QED BY <1>6, <1>7

(* Types, locks and ids, together: a create takes the lock of an id that nobody
   else knows, so the lock is fresh. *)
Base == Types /\ Known /\ Private /\ Holders

(* The daemon starts in a state of the base invariant. *)
LEMMA BaseInit == Init => Base
  <1>. SUFFICES ASSUME Init PROVE Base
    OBVIOUS
  <1>1. None \notin Tasks /\ None \notin Locks /\ None # "create"
    BY DatabaseManagerAssumption DEF Tasks, Operations
  <1>2. \A t \in Tasks : task[t] = IdleTask
    BY DEF Init
  <1>3. Holders
    BY <1>1, <1>2 DEF Init, Holders, IdleTask
  <1>4. Private
    BY <1>2, DatabaseManagerAssumption DEF Private, Unregistered, IdleTask, Operations
  <1>5. Known
    BY <1>2 DEF Known, Init, IdleTask
  <1>6. QED BY <1>3, <1>4, <1>5, TypesInit DEF Base

(* Every step keeps the base invariant. *)
LEMMA BaseStep == Base /\ [Next]_vars => Base'
  BY TypesStep, KnownStep, HoldersStep DEF Base

(* The base invariant gives the type invariant that the runs check. *)
LEMMA BaseTypeOK == Base => TypeOK
  <1>. SUFFICES ASSUME Base PROVE TypeOK
    OBVIOUS
  <1>1. Clients \subseteq Tasks
    BY DEF Tasks
  <1>2. writer # None => task[writer].at = "saving"
    BY <1>1 DEF Base, Types, Fields, Holders
  <1>3. creator # None => task[creator].op = "create"
    BY <1>1 DEF Base, Types, Fields, Holders
  <1>4. \A l \in Locks : holder[l] # None => task[holder[l]].lock = l
    BY <1>1 DEF Base, Types, Fields, Holders
  <1>5. QED BY <1>2, <1>3, <1>4 DEF Base, Types, Fields, TypeOK

(* Every variable keeps its type, and whoever holds the registry's lock, the
   create lock or a database's mutex stands where it took it. *)
THEOREM TypeCorrect == Spec => []TypeOK
  <1>1. Spec => []Base
    BY BaseInit, BaseStep, PTL DEF Spec
  <1>2. QED BY <1>1, BaseTypeOK, PTL

-----------------------------------------------------------------------------
(* Waiting *)

(* The lock a request waits for: create_lock, a database's mutex, the registry's
   lock, the open set's lock; last, the places where it waits for none. *)
Rank(t) ==
    CASE task[t].at = "await_create" -> 1
      [] task[t].at = "await_lock" -> 2
      [] task[t].at \in {"await_registry", "resolve", "check_paths"} -> 3
      [] task[t].at \in {"lookup", "recheck", "publish", "cache", "take"} -> 4
      [] OTHER -> 5

(* A request at the place of a lock that another one holds. *)
BlockedBy(t, u) ==
    \/ task[t].at = "await_create" /\ creator = u
    \/ task[t].at = "await_lock" /\ holder[task[t].lock] = u
    \/ task[t].at \in {"await_registry", "resolve", "check_paths"} /\ writer = u

(* The open set's lock is held across an await by the shutdown alone. *)
Blocked(t) ==
    \/ \E u \in Clients : BlockedBy(t, u)
    \/ Rank(t) = 4 /\ ~OpenFree

(* Whoever holds a lock is under way and waits for none but a later one, and no
   request is under way while the shutdown holds the lock of the open set. *)
LocksInOrder ==
    /\ \A t, u \in Clients : BlockedBy(t, u) => task[u].at # "idle" /\ Rank(t) < Rank(u)
    /\ ~OpenFree => \A t \in Clients : task[t].at = "idle"

(* The part of LocksInOrder that the holders alone do not give. *)
Quiet == ~OpenFree => \A t \in Clients : task[t].at = "idle"

(* The shutdown takes the open set's lock when the requests have ended, and
   none begins after that. *)
LEMMA QuietStep == Base /\ Quiet /\ [Next]_vars => Quiet'
  <1>. SUFFICES ASSUME Base, Quiet, Next \/ UNCHANGED vars PROVE Quiet'
    OBVIOUS
  <1>. Types /\ Clients \subseteq Tasks /\ Reaper \notin Clients
    BY DatabaseManagerAssumption DEF Base, Tasks
  <1>1. ASSUME NEW t \in Clients, NEW id \in Ids,
               Request(t, id) \/ RemoveCall(t, id) \/ (\E op \in {"set_default", "rename"} : EditCall(t, op, id))
        PROVE  Quiet'
    BY <1>1 DEF Request, RemoveCall, EditCall, Begin, NewCall, Quiet, OpenFree
  <1>2. ASSUME NEW t \in Clients, NEW id \in Ids, NEW p \in Paths, CreateCall(t, id, p) \/ RegisterCall(t, id, p)
        PROVE  Quiet'
    BY <1>2 DEF CreateCall, RegisterCall, Begin, NewCall, Quiet, OpenFree
  <1>3. ASSUME NEW t \in Clients, mode' = mode, task[t].at # "idle"
        PROVE  Quiet'
    BY <1>3 DEF Quiet, OpenFree
  <1>4. ASSUME NEW t \in Clients,
               \/ Lookup(t) \/ Lock(t) \/ Recheck(t) \/ Resolve(t) \/ Build(t)
               \/ BuildFails(t) \/ Publish(t) \/ Touch(t)
        PROVE  Quiet'
    BY <1>3, <1>4 DEF Lookup, Lock, Recheck, Resolve, Build, BuildFails, Publish, Touch, At
  <1>5. ASSUME NEW t \in Clients,
               \/ CreateStart(t) \/ CheckPaths(t) \/ CreateFile(t) \/ Seed(t) \/ CreateFails(t)
               \/ Cache(t) \/ Unlink(t) \/ AwaitRegistry(t) \/ Saved(t) \/ SaveFails(t)
        PROVE  Quiet'
    BY <1>3, <1>5 DEF CreateStart, CheckPaths, CreateFile, Seed, CreateFails, Cache, Unlink, AwaitRegistry,
                      Saved, SaveFails, At
  <1>6. ASSUME NEW t \in Clients, Cancel(t) PROVE Quiet'
    <2>1. task[t].op # None
      BY <1>6, DatabaseManagerAssumption DEF Cancel
    <2>2. task[t].at # "idle"
      BY <2>1, Places
    <2>3. QED BY <1>3, <1>6, <2>2 DEF Cancel
  <1>7. ASSUME mode' = mode, \A u \in Tasks \ {Reaper} : task'[u] = task[u] PROVE Quiet'
    BY <1>7 DEF Quiet, OpenFree
  <1>8. ASSUME NEW t \in Tasks, Take(t) \/ Forget(t) \/ Stop(t) \/ Rest(t) PROVE Quiet'
    <2>1. mode' = mode /\ task[t].at # "idle"
      BY <1>8 DEF Take, Forget, Stop, Rest, At
    <2>2. CASE t \in Clients
      BY <1>3, <2>1, <2>2
    <2>3. CASE t = Reaper
      BY <1>7, <1>8, <2>1, <2>3, OwnSteps DEF Own
    <2>4. QED BY <2>2, <2>3 DEF Tasks
  <1>9. CASE Collect(Reaper) \/ Pick(Reaper) \/ Pending(Reaper) \/ SweepDone(Reaper)
    <2>1. task \in [Tasks -> TaskRecords] /\ mode' = mode
      BY <1>9 DEF Types, Fields, Collect, Pick, Pending, SweepDone
    <2>2. \A u \in Tasks \ {Reaper} : task'[u] = task[u]
      BY <1>9, <2>1 DEF Collect, Pick, Pending, SweepDone, Goto
    <2>3. QED BY <1>7, <2>1, <2>2
  <1>10. CASE ShutdownAll
    BY <1>10 DEF ShutdownAll, Quiet, At
  <1>11. CASE \/ \E j \in jobs : JobStop(j) \/ JobEnds(j)
              \/ \E s \in Sets : StartTurn(s) \/ EndTurn(s) \/ ShutdownSet(s)
              \/ \E id \in Ids : Age(id)
              \/ StopServing \/ ShutdownEnds \/ UNCHANGED vars
    BY <1>11 DEF JobStop, JobEnds, StartTurn, EndTurn, ShutdownSet, Age, StopServing, ShutdownEnds, vars,
                 Quiet, OpenFree
  <1>12. QED BY <1>1, <1>2, <1>4, <1>5, <1>6, <1>8, <1>9, <1>10, <1>11, Steps

(* The holders of the locks, by where they stand. *)
LEMMA InOrder == Base /\ Quiet => LocksInOrder
  <1>. SUFFICES ASSUME Base, Quiet, NEW t \in Clients, NEW u \in Clients, BlockedBy(t, u)
                PROVE  task[u].at # "idle" /\ Rank(t) < Rank(u)
    BY DEF LocksInOrder, Quiet
  <1>. t \in Tasks /\ u \in Tasks
    BY DEF Tasks
  <1>1. Sound(task[u]) /\ Sound(task[t]) /\ None \notin Locks /\ None # "create"
    BY DatabaseManagerAssumption DEF Base, Types, Whereabouts, Operations
  <1>2. CASE task[t].at = "await_create" /\ creator = u
    <2>1. task[u].op = "create" /\ task[u].at # "await_create"
      BY <1>2 DEF Base, Holders
    <2>2. task[u].at # "idle"
      BY <1>1, <2>1, Places DEF Base
    <2>3. Rank(t) = 1 /\ Rank(u) \in {2, 3, 4, 5}
      BY <1>2, <2>1 DEF Rank
    <2>4. QED BY <2>2, <2>3
  <1>3. CASE task[t].at = "await_lock" /\ holder[task[t].lock] = u
    <2>1. task[t].lock \in Locks
      BY <1>1, <1>3, Places DEF Base, Sound
    <2>2. task[u].lock = task[t].lock /\ task[u].at # "await_lock"
      BY <1>3, <2>1 DEF Base, Holders
    <2>3. task[u].lock # None
      BY <1>1, <2>1, <2>2
    <2>4. task[u].at # "idle"
      BY <2>3, Places DEF Base, IdleTask
    <2>5. task[u].at # "await_create"
      BY <1>1, <2>1, <2>2, Places DEF Base, Sound
    <2>6. Rank(t) = 2 /\ Rank(u) \in {3, 4, 5}
      BY <1>3, <2>2, <2>5 DEF Rank
    <2>7. QED BY <2>4, <2>6
  <1>4. CASE task[t].at \in {"await_registry", "resolve", "check_paths"} /\ writer = u
    <2>1. task[u].at = "saving"
      BY <1>4 DEF Base, Holders
    <2>2. Rank(t) = 3 /\ Rank(u) = 5
      BY <1>4, <2>1 DEF Rank
    <2>3. QED BY <2>1, <2>2
  <1>5. QED BY <1>2, <1>3, <1>4 DEF BlockedBy

(* Of the requests under way, one that has the furthest rank is not blocked. *)
LEMMA SomeoneUnblocked ==
    ASSUME LocksInOrder, \E t \in Clients : task[t].at # "idle"
    PROVE  \E t \in Clients : task[t].at # "idle" /\ ~Blocked(t)
  <1>. DEFINE Awake(n) == \E t \in Clients : task[t].at # "idle" /\ Rank(t) = n
  <1>1. \A t \in Clients : Rank(t) \in {1, 2, 3, 4, 5}
    BY DEF Rank
  <1>2. OpenFree
    BY DEF LocksInOrder
  <1>3. PICK n \in {1, 2, 3, 4, 5} : Awake(n) /\ \A m \in {1, 2, 3, 4, 5} : m > n => ~Awake(m)
    <2>1. Awake(1) \/ Awake(2) \/ Awake(3) \/ Awake(4) \/ Awake(5)
      BY <1>1
    <2>. HIDE DEF Awake
    <2>2. QED BY <2>1
  <1>4. PICK t \in Clients : task[t].at # "idle" /\ Rank(t) = n
    BY <1>3
  <1>5. ASSUME NEW u \in Clients, BlockedBy(t, u) PROVE FALSE
    <2>1. task[u].at # "idle" /\ n < Rank(u)
      BY <1>4, <1>5 DEF LocksInOrder
    <2>2. Awake(Rank(u)) /\ Rank(u) \in {1, 2, 3, 4, 5}
      BY <1>1, <2>1
    <2>3. QED BY <1>3, <2>1, <2>2
  <1>6. QED BY <1>2, <1>4, <1>5 DEF Blocked

(* The locks are taken in one order, also by requests that fail or are dropped:
   create_lock, a database's mutex, the registry's lock, the open set's. Whoever
   holds one is under way and waits for none but a later one. *)
THEOREM LocksTakenInOrder == Spec => []LocksInOrder
  <1>1. Init => Quiet
    BY DEF Init, Quiet, IdleTask, Tasks
  <1>2. Spec => [](Base /\ Quiet)
    BY <1>1, BaseInit, BaseStep, QuietStep, PTL DEF Spec
  <1>3. QED BY <1>2, InOrder, PTL

(* So the requests under way are never all blocked: not in a circle, and not by
   a lock that a finished or dropped request kept. *)
THEOREM SomeRequestProceeds ==
    Spec => []((\E t \in Clients : task[t].at # "idle")
                 => \E t \in Clients : task[t].at # "idle" /\ ~Blocked(t))
  <1>1. LocksInOrder => ((\E t \in Clients : task[t].at # "idle")
                           => \E t \in Clients : task[t].at # "idle" /\ ~Blocked(t))
    BY SomeoneUnblocked
  <1>2. QED BY <1>1, LocksTakenInOrder, PTL

-----------------------------------------------------------------------------
(* The registry's entries and their files *)

(* A create whose file a rollback would remove. *)
Undone(t) ==
    task[t].op = "create" /\ task[t].at \notin {"await_create", "check_paths", "cache", "touch"}

(* A register that did not meet a create of its path: the file is there, and
   nobody may remove it. *)
Apart(t) ==
    task[t].path \notin met =>
      /\ task[t].path \in files
      /\ \A u \in Tasks : MayUndo(u) => task[u].path # task[t].path
      /\ \A j \in jobs : j.unlink => j.path # task[t].path

(* The path of an entry that is about to be saved, and the file of a create that
   fails, belong to no entry, but for paths where a register met a create. *)
Unnamed(p) == p \in met \/ \A id \in Registered : path[id] # p

OwnPath ==
    /\ RegistrySound
    /\ \A t \in Tasks : task[t].op = "register" => Apart(t)
    /\ \A t \in Tasks : Undone(t) \/ (task[t].op = "register" /\ task[t].at = "saving") =>
          Unnamed(task[t].path)
    /\ \A t \in Tasks : task[t].op = "set_default" /\ task[t].at = "saving" =>
          task[t].id \in Registered

(* The file that a rollback will remove is there, so no create takes its path. *)
OwnFile ==
    /\ \A t \in Tasks : Undone(t) /\ task[t].at # "create_file" => task[t].path \in files
    /\ \A j \in jobs : j.unlink =>
          /\ j.path \in files
          /\ Unnamed(j.path)
          /\ \A t \in Tasks : task[t].op = "create" /\ task[t].at # "await_create" =>
                task[t].path # j.path
          /\ \A i \in jobs : i.unlink /\ i.path = j.path => i = j

(* One create at a time is past create_lock, one task at a time saves. *)
LEMMA Alone ==
    ASSUME Base, NEW t \in Tasks, NEW u \in Tasks
    PROVE  /\ /\ task[t].op = "create" /\ task[t].at # "await_create"
              /\ task[u].op = "create" /\ task[u].at # "await_create"
              => u = t
           /\ task[t].at = "saving" /\ task[u].at = "saving" => u = t
           /\ \A l \in Locks : /\ task[t].lock = l /\ task[t].at # "await_lock"
                               /\ task[u].lock = l /\ task[u].at # "await_lock"
                               => u = t
  BY DEF Base, Holders

(* What a task that neither edits the registry nor removes a file has to see to. *)
Careful(t) ==
    /\ task[t].op = "register" => Apart(t)
    /\ MayUndo(t) => \A u \in Tasks : task[u].op = "register" /\ task[u].path \notin met =>
                                        task[u].path # task[t].path
    /\ Undone(t) \/ (task[t].op = "register" /\ task[t].at = "saving") => Unnamed(task[t].path)
    /\ task[t].op = "set_default" /\ task[t].at = "saving" => task[t].id \in Registered
    /\ Undone(t) /\ task[t].at # "create_file" => task[t].path \in files
    /\ task[t].op = "create" /\ task[t].at # "await_create" =>
          \A j \in jobs : j.unlink => task[t].path # j.path

(* A step of one task that touches no entry keeps the paths and files owned, when
   that task stays careful. *)
LEMMA CarefulKeeps ==
    ASSUME OwnPath, OwnFile, NEW t \in Tasks, \A u \in Tasks \ {t} : task'[u] = task[u],
           UNCHANGED <<path, default, jobs>>, files \subseteq files', met \subseteq met', Careful(t)'
    PROVE  OwnPath' /\ OwnFile'
  <1>1. Registered' = Registered /\ RegistrySound'
    BY DEF Registered, OwnPath, RegistrySound
  <1>2. \A u \in Tasks \ {t} : Undone(u)' = Undone(u) /\ MayUndo(u)' = MayUndo(u)
    BY DEF Undone, MayUndo
  <1>3. \A p : Unnamed(p) => Unnamed(p)'
    BY <1>1 DEF Unnamed
  <1>4. ASSUME NEW u \in Tasks, task'[u].op = "register" PROVE Apart(u)'
    <2>1. CASE u = t
      BY <1>4, <2>1 DEF Careful
    <2>2. CASE u # t
      <3>1. Apart(u) /\ task'[u] = task[u]
        BY <1>4, <2>2 DEF OwnPath
      <3>2. ASSUME task[u].path \notin met' PROVE task'[t].path # task[u].path \/ ~MayUndo(t)'
        BY <1>4, <3>1, <3>2 DEF Careful
      <3>3. QED BY <1>2, <3>1, <3>2 DEF Apart
    <2>3. QED BY <2>1, <2>2
  <1>5. OwnPath'
    BY <1>1, <1>2, <1>3, <1>4 DEF OwnPath, Careful
  <1>6. OwnFile'
    BY <1>1, <1>2, <1>3 DEF OwnFile, Careful
  <1>7. QED BY <1>5, <1>6

(* Every task is careful in a state where paths and files are owned. *)
LEMMA CarefulBefore ==
    ASSUME OwnPath, OwnFile, NEW t \in Tasks PROVE Careful(t)
  <1>1. MayUndo(t) => \A u \in Tasks : task[u].op = "register" /\ task[u].path \notin met =>
                                       task[u].path # task[t].path
    BY DEF OwnPath, Apart
  <1>2. QED BY <1>1 DEF OwnPath, OwnFile, Careful

(* A task that is not, or no longer, a create or an edit has nothing to see to. *)
LEMMA CarefulOthers ==
    ASSUME NEW t \in Tasks, task'[t].op \notin {"create", "register", "set_default"}
    PROVE  Careful(t)'
  BY DEF Careful, Undone, MayUndo

(* A task that ends keeps the paths and files owned. *)
LEMMA LetGoCareful ==
    ASSUME Types, OwnPath, OwnFile, NEW t \in Tasks, LetGo(t), UNCHANGED <<path, default, jobs>>,
           files \subseteq files', met \subseteq met'
    PROVE  OwnPath' /\ OwnFile'
  <1>1. task'[t].op = None
    BY LetGoOwn DEF IdleTask
  <1>2. Careful(t)'
    BY <1>1, CarefulOthers, DatabaseManagerAssumption DEF Operations
  <1>3. QED BY <1>2, LetGoOwn, CarefulKeeps

(* open_database only adds files, at the path of the entry it opens. *)
LEMMA OpenFiles ==
    ASSUME Types, OwnPath, OwnFile, NEW t \in Clients,
           \/ Lookup(t) \/ Lock(t) \/ Recheck(t) \/ Resolve(t) \/ Build(t)
           \/ BuildFails(t) \/ Publish(t) \/ Touch(t)
    PROVE  OwnPath' /\ OwnFile'
  <1>. t \in Tasks
    BY DEF Tasks
  <1>0. /\ UNCHANGED <<path, default, jobs, met>> /\ files \subseteq files'
        /\ \A u \in Tasks \ {t} : task'[u] = task[u]
    BY OwnSteps DEF Own, Lookup, Lock, Recheck, Resolve, Build, BuildFails, Publish, Touch, SetBuilt, registry
  <1>1. task[t] \in TaskRecords /\ task \in [Tasks -> TaskRecords]
    BY Places
  <1>2. CASE LetGo(t)
    BY <1>0, <1>2, LetGoCareful
  <1>3. CASE ~LetGo(t)
    <2>1. ~Touch(t) /\ ~BuildFails(t)
      BY <1>3 DEF Touch, BuildFails, Finish
    <2>2. task[t].op \in {"open", "remove"}
      BY <2>1, Places DEF Lookup, Lock, Recheck, Resolve, Build, Publish, At
    <2>3. task'[t].op = task[t].op
      <3>1. CASE Build(t)
        <4>1. PICK s \in Sets : task' = [task EXCEPT ![t].set = s, ![t].at = "publish"]
          BY <3>1 DEF Build
        <4>2. QED BY <1>1, <4>1 DEF TaskRecords
      <3>2. CASE Lookup(t)
        <4>1. Goto(t, "touch") \/ \E l \in Locks : task' = [task EXCEPT ![t].at = "await_lock", ![t].lock = l]
          BY <3>2 DEF Lookup
        <4>2. QED BY <1>1, <4>1 DEF Goto, TaskRecords
      <3>3. CASE Lock(t) \/ Recheck(t) \/ Resolve(t) \/ Publish(t)
        BY <1>1, <1>3, <3>3 DEF Lock, Recheck, Resolve, Publish, Finish, Goto, TaskRecords
      <3>4. QED BY <2>1, <3>1, <3>2, <3>3
    <2>4. QED BY <1>0, <2>2, <2>3, CarefulOthers, CarefulKeeps
  <1>4. QED BY <1>2, <1>3

(* The rollback of a create that was never registered. *)
LEMMA UndoneFile ==
    ASSUME Base, OwnPath, OwnFile, NEW t \in Tasks, Undone(t), LetGo(t),
           files' = files \ {task[t].path}, UNCHANGED <<path, default, jobs, met>>
    PROVE  OwnPath' /\ OwnFile'
  <1>1. /\ \A u \in Tasks \ {t} : task'[u] = task[u]
        /\ task'[t].op = None /\ task'[t].at = "idle"
    BY LetGoOwn DEF IdleTask, Base
  <1>2. MayUndo(t) /\ task[t].op = "create" /\ task[t].at # "await_create"
    BY DEF Undone, MayUndo
  <1>3. \A u \in Tasks : (Undone(u)' => Undone(u) /\ u # t) /\ (MayUndo(u)' => MayUndo(u) /\ u # t)
    BY <1>1, DatabaseManagerAssumption DEF Undone, MayUndo, Operations
  <1>4. \A u \in Tasks : ~Undone(u)'
    BY <1>2, <1>3, Alone DEF Undone
  <1>5. Registered' = Registered /\ RegistrySound'
    BY DEF Registered, OwnPath, RegistrySound
  <1>6. None \notin {"create", "register", "set_default"}
    BY DatabaseManagerAssumption DEF Operations
  <1>7. \A p : Unnamed(p) => Unnamed(p)'
    BY <1>5 DEF Unnamed
  <1>8. ASSUME NEW u \in Tasks, task'[u].op = "register" PROVE Apart(u)'
    <2>1. u # t /\ task'[u] = task[u] /\ Apart(u)
      BY <1>1, <1>6, <1>8 DEF OwnPath
    <2>2. QED BY <1>1, <1>2, <1>3, <2>1 DEF Apart
  <1>9. OwnPath'
    BY <1>1, <1>4, <1>5, <1>6, <1>7, <1>8 DEF OwnPath
  <1>10. OwnFile'
    BY <1>1, <1>2, <1>4, <1>6, <1>7 DEF OwnFile
  <1>11. QED BY <1>9, <1>10

(* create_database makes its file after it found no entry and no file at the path, under the create lock, so
   the file a rollback unlinks is its own. *)
LEMMA CreateFiles ==
    ASSUME Base, OwnPath, OwnFile, NEW t \in Clients,
           \/ CreateStart(t) \/ CheckPaths(t) \/ CreateFile(t) \/ Seed(t)
           \/ CreateFails(t) \/ Cache(t) \/ Unlink(t)
    PROVE  OwnPath' /\ OwnFile'
  <1>. t \in Tasks
    BY DEF Tasks
  <1>0. /\ UNCHANGED <<path, default, jobs, met>>
        /\ \A u \in Tasks \ {t} : task'[u] = task[u]
    BY OwnSteps DEF Base, Own, CreateStart, CheckPaths, CreateFile, Seed, CreateFails, Cache, Unlink, registry
  <1>1. /\ task[t] \in TaskRecords /\ task \in [Tasks -> TaskRecords]
        /\ task[t].op = "create"
    BY Places DEF Base, CreateStart, CheckPaths, CreateFile, Seed, CreateFails, Cache, Unlink, At
  <1>2. CASE CreateFails(t) \/ Unlink(t)
    BY <1>0, <1>1, <1>2, UndoneFile DEF CreateFails, Unlink, Finish, At, Undone
  <1>3. CASE LetGo(t) /\ (CreateStart(t) \/ CheckPaths(t))
    BY <1>0, <1>3, LetGoCareful DEF Base, CreateStart, CheckPaths
  <1>4. ASSUME NEW place, Goto(t, place)
        PROVE  task'[t].op = "create" /\ task'[t].at = place /\ task'[t].path = task[t].path
    BY <1>1, <1>4 DEF Goto, TaskRecords
  <1>5. Registered' = Registered /\ Careful(t) /\ \A p : Unnamed(p) => Unnamed(p)'
    BY <1>0, CarefulBefore DEF Registered, Unnamed
  <1>a. None # "register" /\ None # "create"
    BY DatabaseManagerAssumption DEF Operations
  <1>b. \A u \in Tasks : task'[u].op = "register" => task[u].op = "register" /\ task'[u] = task[u]
    <2>1. task'[t].op \in {"create", None}
      <3>1. CASE LetGo(t)
        BY <3>1, LetGoOwn DEF Base, IdleTask
      <3>2. CASE Seed(t)
        <4>1. PICK s \in Sets, l \in Locks :
                 task' = [task EXCEPT ![t].set = s, ![t].lock = l, ![t].at = "await_registry"]
          BY <3>2 DEF Seed
        <4>2. QED BY <1>1, <4>1 DEF TaskRecords
      <3>3. CASE ~LetGo(t) /\ ~Seed(t)
        BY <1>4, <3>3 DEF CreateStart, CheckPaths, CreateFile, CreateFails, Cache, Unlink, Finish
      <3>4. QED BY <3>1, <3>2, <3>3
    <2>2. QED BY <1>0, <1>a, <2>1
  <1>6. CASE CreateStart(t) /\ ~LetGo(t)
    <2>1. Goto(t, "check_paths") /\ task[t].path \notin files /\ files' = files
      BY <1>6 DEF CreateStart, Finish
    <2>0. \A u \in Tasks : task'[u].op = "register" /\ task'[u].path \notin met => task'[u].path # task[t].path
      BY <1>b, <2>1 DEF OwnPath, Apart
    <2>2. Careful(t)'
      BY <1>0, <1>4, <2>0, <2>1 DEF Careful, Undone, OwnFile
    <2>3. QED BY <1>0, <2>1, <2>2, CarefulKeeps
  <1>7. CASE CheckPaths(t) /\ ~LetGo(t)
    <2>1. /\ Goto(t, "create_file") /\ files' = files /\ task[t].at = "check_paths"
          /\ Unnamed(task[t].path)
      BY <1>7 DEF CheckPaths, Finish, At, Unnamed
    <2>2. Careful(t)'
      BY <1>0, <1>1, <1>4, <1>5, <1>b, <2>1 DEF Careful, Undone, MayUndo
    <2>3. QED BY <1>0, <2>1, <2>2, CarefulKeeps
  <1>8. CASE CreateFile(t)
    <2>1. Goto(t, "seed") /\ files' = files \cup {task[t].path} /\ task[t].at = "create_file"
      BY <1>8 DEF CreateFile, At
    <2>2. Careful(t)'
      BY <1>0, <1>1, <1>4, <1>5, <1>b, <2>1 DEF Careful, Undone, MayUndo
    <2>3. QED BY <1>0, <2>1, <2>2, CarefulKeeps
  <1>9. CASE Seed(t)
    <2>1. PICK s \in Sets, l \in Locks :
             task' = [task EXCEPT ![t].set = s, ![t].lock = l, ![t].at = "await_registry"]
      BY <1>9 DEF Seed
    <2>2. task[t].at = "seed" /\ files \subseteq files'
      BY <1>9 DEF Seed, At, SetBuilt
    <2>3. task'[t].op = "create" /\ task'[t].at = "await_registry" /\ task'[t].path = task[t].path
      BY <1>1, <2>1 DEF TaskRecords
    <2>4. Careful(t)'
      BY <1>0, <1>1, <1>5, <1>b, <2>2, <2>3 DEF Careful, Undone, MayUndo
    <2>5. QED BY <1>0, <2>2, <2>4, CarefulKeeps
  <1>10. CASE Cache(t)
    <2>1. Goto(t, "touch") /\ files' = files /\ task[t].at = "cache"
      BY <1>10 DEF Cache, At
    <2>2. Careful(t)'
      BY <1>0, <1>1, <1>4, <1>5, <1>b, <2>1 DEF Careful, Undone, MayUndo
    <2>3. QED BY <1>0, <2>1, <2>2, CarefulKeeps
  <1>11. QED BY <1>2, <1>3, <1>6, <1>7, <1>8, <1>9, <1>10

(* A save publishes the entry whose path was compared with every other entry's under
   the registry mutex. *)
LEMMA RegistryFiles ==
    ASSUME Base, OwnPath, OwnFile, NEW t \in Clients,
           AwaitRegistry(t) \/ Saved(t) \/ SaveFails(t)
    PROVE  OwnPath' /\ OwnFile'
  <1>. t \in Tasks
    BY DEF Tasks
  <1>0. UNCHANGED <<files, jobs, met>> /\ \A u \in Tasks \ {t} : task'[u] = task[u]
    BY OwnSteps DEF Base, Own, AwaitRegistry, Saved, SaveFails
  <1>1. /\ task[t] \in TaskRecords /\ task \in [Tasks -> TaskRecords]
        /\ task[t].op \in {"create", "register", "remove", "set_default", "rename"}
        /\ task[t].id \in Ids
    BY Places DEF Base, AwaitRegistry, Saved, SaveFails, At
  <1>2. ASSUME NEW place, Goto(t, place)
        PROVE  /\ task'[t].op = task[t].op /\ task'[t].at = place /\ task'[t].path = task[t].path
               /\ task'[t].id = task[t].id
    BY <1>1, <1>2 DEF Goto, TaskRecords
  <1>3. Careful(t)
    BY CarefulBefore
  <1>a. /\ None \notin {"create", "register", "set_default", "remove"} /\ None \notin Ids /\ None \notin Paths
        /\ task[t].op \in {"create", "register"} => task[t].path \in Paths
    BY DatabaseManagerAssumption DEF Operations, Base, Types, Whereabouts, Sound
  <1>b. \A u \in Tasks : task'[u].op = "register" => task[u].op = "register" /\ task'[u].path = task[u].path
    <2>1. CASE LetGo(t)
      BY <1>0, <1>a, <2>1, LetGoOwn DEF Base, IdleTask
    <2>2. CASE ~LetGo(t)
      <3>1. task'[t].op = task[t].op /\ task'[t].path = task[t].path
        BY <1>2, <2>2 DEF AwaitRegistry, Saved, SaveFails, Finish
      <3>2. QED BY <1>0, <3>1
    <2>3. QED BY <2>1, <2>2
  <1>4. CASE AwaitRegistry(t)
    <2>1. UNCHANGED <<path, default>> /\ Registered' = Registered /\ task[t].at = "await_registry"
      BY <1>4 DEF AwaitRegistry, registry, Registered, At
    <2>2. CASE Finish(t)
      BY <1>0, <2>1, <2>2, LetGoCareful DEF Base, Finish
    <2>3. CASE Goto(t, "saving") /\ ~Rejected(t)
      <3>1. \A u \in Tasks : MayUndo(u)' = MayUndo(u) /\ task'[u].path = task[u].path
        BY <1>0, <1>2, <2>1, <2>3 DEF MayUndo
      <3>2. \A p : Unnamed(p)' = Unnamed(p)
        BY <1>0, <2>1 DEF Unnamed
      <3>3. task[t].op = "register" => Apart(t) /\ Apart(t)'
        BY <1>0, <1>3, <3>1 DEF Careful, Apart
      <3>4. task[t].op = "register" => Unnamed(task[t].path)
        BY <2>3, <3>3 DEF Rejected, Apart, Unnamed
      <3>5. MayUndo(t)' => \A u \in Tasks : task'[u].op = "register" /\ task'[u].path \notin met' =>
                                             task'[u].path # task'[t].path
        BY <1>0, <1>3, <1>b, <3>1 DEF Careful
      <3>6. task'[t] = [task[t] EXCEPT !.at = "saving"] /\ task[t].at = "await_registry"
        BY <1>1, <2>1, <2>3 DEF Goto, Base, Types, Fields
      <3>7. Undone(t)' \/ (task'[t].op = "register" /\ task'[t].at = "saving") =>
              (Unnamed(task[t].path))'
        <4>. SUFFICES ASSUME Undone(t)' \/ task'[t].op = "register" PROVE (Unnamed(task[t].path))'
          OBVIOUS
        <4>1. Undone(t) \/ task[t].op = "register"
          BY <1>1, <3>6 DEF Undone, TaskRecords
        <4>2. Unnamed(task[t].path)
          BY <1>3, <3>4, <4>1 DEF Careful
        <4>3. PICK q : q = task[t].path
          OBVIOUS
        <4>4. Unnamed(q)' /\ q = task'[t].path
          BY <1>1, <3>2, <3>6, <4>2, <4>3 DEF TaskRecords
        <4>5. QED BY <4>4 DEF Unnamed
      <3>8. Undone(t)' /\ task'[t].at # "create_file" => task'[t].path \in files'
        BY <1>0, <1>1, <1>3, <3>6 DEF Careful, Undone, TaskRecords
      <3>9. task'[t].op = "create" =>
              \A j \in jobs' : j.unlink => task'[t].path # j.path
        BY <1>0, <1>1, <1>3, <3>6 DEF Careful, TaskRecords
      <3>10. task'[t].at = "saving" /\ task'[t].op = "set_default" => task'[t].id \in Registered'
        BY <1>0, <1>1, <2>1, <2>3, <3>6 DEF Rejected, TaskRecords
      <3>11. Careful(t)'
        BY <3>3, <3>5, <3>6, <3>7, <3>8, <3>9, <3>10 DEF Careful
      <3>12. QED BY <1>0, <2>1, <3>11, CarefulKeeps
    <2>4. QED BY <1>4, <2>2, <2>3 DEF AwaitRegistry
  <1>5. CASE SaveFails(t)
    <2>1. UNCHANGED <<path, default>> /\ Registered' = Registered /\ task[t].at = "saving"
      BY <1>5 DEF SaveFails, registry, Registered, At
    <2>2. CASE Finish(t)
      BY <1>0, <2>1, <2>2, LetGoCareful DEF Base, Finish
    <2>3. CASE Goto(t, "stop") /\ task[t].op = "create"
      <3>1. \A p : Unnamed(p)' = Unnamed(p)
        BY <1>0, <2>1 DEF Unnamed
      <3>2. Careful(t)'
        BY <1>0, <1>1, <1>2, <1>3, <1>b, <2>1, <2>3, <3>1 DEF Careful, Undone, MayUndo
      <3>3. QED BY <1>0, <2>1, <3>2, CarefulKeeps
    <2>4. QED BY <1>5, <2>2, <2>3 DEF SaveFails
  <1>6. CASE Saved(t)
    <2>. DEFINE id == task[t].id
    <2>1. task[t].at = "saving" /\ \A u \in Tasks \ {t} : task[u].at # "saving"
      BY <1>6, Alone DEF Saved, At
    <2>2. task'[t].op \in {None, "create", "remove"} /\ task'[t].at \in {"idle", "cache", "take"}
          /\ (task'[t].op = "create" => task[t].op = "create" /\ task'[t].at = "cache" /\ task'[t].path = task[t].path)
      <3>1. CASE Finish(t)
        BY <1>a, <3>1, LetGoOwn DEF Finish, IdleTask, Base
      <3>2. CASE ~Finish(t)
        BY <1>2, <1>6, <3>2 DEF Saved
      <3>3. QED BY <3>1, <3>2
    <2>3. \A u \in Tasks : (Undone(u)' => Undone(u) /\ u # t) /\ (MayUndo(u)' => MayUndo(u) /\ u # t)
      BY <1>0, <1>a, <2>2 DEF Undone, MayUndo
    <2>4. \A u \in Tasks : task'[u].op = "register" => u # t /\ Apart(u)'
      <3>. SUFFICES ASSUME NEW u \in Tasks, task'[u].op = "register" PROVE u # t /\ Apart(u)'
        OBVIOUS
      <3>1. u # t /\ task[u].op = "register"
        BY <1>a, <1>b, <2>2
      <3>2. Apart(u)
        BY <3>1 DEF OwnPath
      <3>3. QED BY <1>0, <2>3, <3>1, <3>2 DEF Apart
    <2>5. \A u \in Tasks : task'[u].at # "saving"
      BY <1>0, <2>1, <2>2
    <2>6. CASE task[t].op \in {"create", "register"}
      <3>. DEFINE p == task[t].path
      <3>1. path' = [path EXCEPT ![id] = p] /\ default' = IF default = None THEN id ELSE default
        BY <1>6, <2>6 DEF Saved, Candidate
      <3>2. id \notin Registered /\ p \in Paths /\ p # None
        <4>1. id \notin Registered
          BY <2>1, <2>6 DEF Base, Private, Unregistered
        <4>2. QED BY <1>a, <2>6, <4>1
      <3>3. Registered' = Registered \cup {id}
        BY <1>1, <3>1, <3>2 DEF Registered, Base, Types, Fields
      <3>4. Unnamed(p) /\ \A i \in Registered : path'[i] = path[i]
        BY <2>1, <2>6, <3>1, <3>2 DEF OwnPath, Undone, Registered, Base, Types, Fields
      <3>5. path'[id] = p
        BY <1>1, <3>1 DEF Base, Types, Fields
      <3>6. \A u \in Tasks : Undone(u)' => task[u].path # p \/ p \in met
        <4>. SUFFICES ASSUME NEW u \in Tasks, Undone(u)' PROVE task[u].path # p \/ p \in met
          OBVIOUS
        <4>1. Undone(u) /\ u # t
          BY <2>3
        <4>2. task[u].op = "create" /\ task[u].at # "await_create" /\ MayUndo(u)
          BY <4>1 DEF Undone, MayUndo
        <4>3. task[t].op = "register"
          BY <2>1, <2>6, <4>1, <4>2, Alone
        <4>4. QED BY <4>2, <4>3 DEF OwnPath, Apart
      <3>7. \A j \in jobs : j.unlink => p # j.path \/ p \in met
        <4>1. CASE task[t].op = "create"
          BY <2>1, <4>1 DEF OwnFile
        <4>2. CASE task[t].op = "register"
          BY <4>2 DEF OwnPath, Apart
        <4>3. QED BY <2>6, <4>1, <4>2
      <3>. HIDE DEF id, p
      <3>8. \A q : Unnamed(q) /\ (q # p \/ p \in met) => Unnamed(q)'
        BY <1>0, <3>3, <3>4, <3>5 DEF Unnamed
      <3>9. RegistrySound'
        BY <1>0, <3>1, <3>3, <3>4, <3>5 DEF OwnPath, RegistrySound, Unnamed
      <3>10. OwnPath'
        <4>1. \A u \in Tasks : Undone(u)' => (Unnamed(task[u].path))'
          <5>. SUFFICES ASSUME NEW u \in Tasks, Undone(u)' PROVE (Unnamed(task[u].path))'
            OBVIOUS
          <5>1. Undone(u) /\ task'[u] = task[u] /\ Unnamed(task[u].path)
            BY <1>0, <2>3 DEF OwnPath
          <5>2. PICK q : q = task[u].path
            OBVIOUS
          <5>3. Unnamed(q)'
            BY <3>6, <3>8, <5>1, <5>2
          <5>4. q = task'[u].path
            BY <5>1, <5>2
          <5>5. QED BY <5>3, <5>4 DEF Unnamed
        <4>2. QED BY <2>4, <2>5, <3>9, <4>1 DEF OwnPath
      <3>11. OwnFile'
        <4>1. \A u \in Tasks : Undone(u)' /\ task'[u].at # "create_file" => task'[u].path \in files'
          BY <1>0, <2>3 DEF OwnFile
        <4>2. \A j \in jobs : j.unlink => Unnamed(j.path)'
          BY <3>7, <3>8 DEF OwnFile
        <4>3. \A j \in jobs : j.unlink => \A u \in Tasks : task'[u].op = "create" /\ task'[u].at # "await_create" =>
                                                  task'[u].path # j.path
          BY <1>0, <2>1, <2>2 DEF OwnFile
        <4>4. QED BY <1>0, <4>1, <4>2, <4>3 DEF OwnFile
      <3>12. QED BY <3>10, <3>11
    <2>7. CASE task[t].op \in {"remove", "set_default", "rename"}
      <3>1. (\A i \in Registered' : i \in Registered /\ path'[i] = path[i]) /\ default' \in Registered' \cup {None}
        <4>1. CASE task[t].op = "remove"
          <5>1. path' = [path EXCEPT ![id] = None] /\ default' = IF default = id THEN None ELSE default
            BY <1>6, <4>1 DEF Saved, Candidate
          <5>2. Registered' = Registered \ {id}
            BY <1>1, <5>1 DEF Registered, Base, Types, Fields
          <5>3. QED BY <5>1, <5>2 DEF OwnPath, RegistrySound, Registered, Base, Types, Fields
        <4>2. CASE task[t].op = "set_default"
          <5>1. path' = path /\ default' = id /\ id \in Registered
            BY <1>6, <2>1, <4>2 DEF Saved, Candidate, OwnPath
          <5>2. QED BY <5>1 DEF Registered
        <4>3. CASE task[t].op = "rename"
          <5>1. path' = path /\ default' = default
            BY <1>6, <4>3 DEF Saved, Candidate
          <5>2. QED BY <5>1 DEF Registered, OwnPath, RegistrySound
        <4>4. QED BY <2>7, <4>1, <4>2, <4>3
      <3>. HIDE DEF id
      <3>2. task'[t].op # "create"
        BY <2>2, <2>7
      <3>3. \A q : Unnamed(q) => Unnamed(q)'
        BY <1>0, <3>1 DEF Unnamed
      <3>4. RegistrySound'
        BY <1>0, <3>1 DEF OwnPath, RegistrySound
      <3>5. OwnPath'
        BY <1>0, <2>3, <2>4, <2>5, <3>3, <3>4 DEF OwnPath
      <3>6. OwnFile'
        BY <1>0, <2>3, <3>2, <3>3 DEF OwnFile
      <3>7. QED BY <3>5, <3>6
    <2>8. QED BY <1>1, <2>6, <2>7
  <1>7. QED BY <1>4, <1>5, <1>6

(* close_database takes no file away. *)
LEMMA CloseFiles ==
    ASSUME Base, OwnPath, OwnFile, NEW t \in Tasks, Take(t) \/ Forget(t) \/ Stop(t) \/ Rest(t)
    PROVE  OwnPath' /\ OwnFile'
  <1>0. UNCHANGED <<path, default, files, jobs, met>> /\ \A u \in Tasks \ {t} : task'[u] = task[u]
    BY OwnSteps DEF Base, Own, Take, Forget, Stop, Rest, registry
  <1>1. /\ task[t] \in TaskRecords /\ task \in [Tasks -> TaskRecords]
        /\ task[t].op \in {"open", "create", "remove", "evict"}
        /\ task[t].at \in {"take", "forget", "stop", "rest"}
    BY Places DEF Base, Take, Forget, Stop, Rest, At
  <1>2. CASE LetGo(t)
    BY <1>0, <1>2, LetGoCareful DEF Base
  <1>3. ASSUME NEW place, Goto(t, place)
        PROVE  task'[t].op = task[t].op /\ task'[t].at = place /\ task'[t].path = task[t].path
    BY <1>1, <1>3 DEF Goto, TaskRecords
  <1>4. CASE task[t].op = "create"
    <2>1. task[t].at \in {"stop", "rest"} /\ \E place \in {"rest", "unlink"} : Goto(t, place)
      <3>1. task[t].at \in {"stop", "rest"}
        BY <1>1, <1>4, Places DEF Base
      <3>2. QED BY <1>4, <3>1 DEF Take, Forget, Stop, Rest, At, AfterClose
    <2>2. Careful(t) /\ Registered' = Registered /\ \A p : Unnamed(p) => Unnamed(p)'
      BY <1>0, CarefulBefore DEF Registered, Unnamed
    <2>3. Careful(t)'
      BY <1>0, <1>3, <1>4, <2>1, <2>2 DEF Careful, Undone, MayUndo
    <2>4. QED BY <1>0, <2>3, CarefulKeeps
  <1>5. CASE task[t].op # "create" /\ ~LetGo(t)
    <2>1. task'[t].op = task[t].op
      BY <1>1, <1>3, <1>5 DEF Take, Forget, Stop, Rest, AfterClose, IdleTask, TaskRecords
    <2>2. QED BY <1>0, <1>1, <1>5, <2>1, CarefulOthers, CarefulKeeps
  <1>6. QED BY <1>2, <1>4, <1>5

(* A create dropped half way leaves its file, which no entry names. *)
LEMMA CancelFiles ==
    ASSUME Base, OwnPath, OwnFile, NEW t \in Clients, Cancel(t)
    PROVE  OwnPath' /\ OwnFile'
  <1>. t \in Tasks
    BY DEF Tasks
  <1>0. LetGo(t) /\ UNCHANGED <<path, default, met>>
    BY DEF Cancel, registry
  <1>1. CASE UNCHANGED <<files, jobs>>
    BY <1>0, <1>1, LetGoCareful DEF Base
  <1>2. CASE ~UNCHANGED <<files, jobs>>
    <2>1. task[t].op = "create" /\ UndoCreate(t)
      BY <1>2 DEF Cancel
    <2>2. CASE task[t].at \in {"create_file", "seed", "unlink"}
      BY <1>0, <2>1, <2>2, UndoneFile DEF UndoCreate, Undone
    <2>3. CASE task[t].at \in {"await_registry", "saving", "stop", "rest", "cache"}
      <3>. DEFINE p == task[t].path
                  job(b) == [set |-> task[t].set, path |-> p, unlink |-> b]
      <3>1. PICK b \in BOOLEAN : /\ jobs' = jobs \cup {job(b)} /\ files' = files
                                 /\ b => task[t].at # "cache"
        BY <2>1, <2>3 DEF UndoCreate
      <3>2. /\ \A u \in Tasks \ {t} : task'[u] = task[u]
            /\ task'[t].op = None /\ task'[t].at = "idle"
        BY <1>0, LetGoOwn DEF IdleTask, Base
      <3>3. None \notin {"create", "register", "set_default"}
        BY DatabaseManagerAssumption DEF Operations
      <3>4. b => MayUndo(t)
        BY <2>1, <2>3, <3>1 DEF MayUndo
      <3>5. b => /\ p \in files
                 /\ Unnamed(p)
        BY <2>1, <2>3, <3>1 DEF OwnPath, OwnFile, Undone
      <3>6. \A j \in jobs : j.unlink => j.path # p
        BY <2>1, <2>3 DEF OwnFile
      <3>7. \A u \in Tasks : ~(task'[u].op = "create" /\ task'[u].at # "await_create")
        <4>. SUFFICES ASSUME NEW u \in Tasks, task'[u].op = "create", task'[u].at # "await_create"
                      PROVE FALSE
          OBVIOUS
        <4>1. u # t
          BY <3>2, <3>3
        <4>2. task[u].op = "create" /\ task[u].at # "await_create"
          BY <3>2, <4>1
        <4>3. QED BY <2>1, <2>3, <4>1, <4>2, Alone
      <3>. HIDE DEF p
      <3>8. Registered' = Registered /\ RegistrySound'
        BY <1>0 DEF Registered, OwnPath, RegistrySound
      <3>9. /\ \A u \in Tasks : ~Undone(u)' /\ ~MayUndo(u)'
            /\ \A q : Unnamed(q) => Unnamed(q)'
        BY <1>0, <3>7, <3>8 DEF Undone, MayUndo, Unnamed
      <3>10. job(b).path = p /\ job(b).unlink = b
        OBVIOUS
      <3>. HIDE DEF job
      <3>11. ASSUME NEW u \in Tasks, task'[u].op = "register" PROVE Apart(u)'
        <4>1. u # t /\ task'[u] = task[u] /\ Apart(u)
          BY <3>2, <3>3, <3>11 DEF OwnPath
        <4>2. b /\ task[u].path \notin met => p # task[u].path
          BY <3>4, <4>1 DEF Apart, p
        <4>3. QED BY <1>0, <3>1, <3>9, <3>10, <4>1, <4>2 DEF Apart
      <3>12. OwnPath'
        BY <1>0, <3>1, <3>2, <3>3, <3>8, <3>9, <3>11 DEF OwnPath
      <3>13. OwnFile'
        <4>1. \A j \in jobs' : j.unlink => j.path \in files' /\ Unnamed(j.path)'
          BY <1>0, <3>1, <3>5, <3>9, <3>10 DEF OwnFile
        <4>2. \A i, j \in jobs' : i.unlink /\ j.unlink /\ i.path = j.path => i = j
          BY <3>1, <3>6, <3>10 DEF OwnFile
        <4>3. QED BY <3>7, <3>9, <4>1, <4>2 DEF OwnFile
      <3>14. QED BY <3>12, <3>13
    <2>4. CASE task[t].at \notin {"create_file", "seed", "unlink", "await_registry", "saving", "stop", "rest", "cache"}
      BY <1>2, <2>1, <2>4 DEF UndoCreate
    <2>5. QED BY <2>2, <2>3, <2>4
  <1>3. QED BY <1>1, <1>2

(* A close that goes on in a task of its own takes no file away. *)
LEMMA JobFiles ==
    ASSUME Base, OwnPath, OwnFile, NEW j \in jobs, JobStop(j) \/ JobEnds(j)
    PROVE  OwnPath' /\ OwnFile'
  <1>1. UNCHANGED <<path, default, met, task>> /\ Registered' = Registered
    BY DEF JobStop, JobEnds, registry, Registered
  <1>2. CASE UNCHANGED <<files, jobs>>
    BY <1>1, <1>2 DEF OwnPath, OwnFile, Apart, Unnamed, MayUndo, RegistrySound, Undone, Registered
  <1>3. CASE JobEnds(j) /\ ~j.unlink
    <2>1. files' = files /\ jobs' \subseteq jobs
      BY <1>3 DEF JobEnds
    <2>2. QED BY <1>1, <2>1 DEF OwnPath, OwnFile, Apart, Unnamed, MayUndo, RegistrySound, Undone, Registered
  <1>4. CASE JobEnds(j) /\ j.unlink
    <2>1. files' = files \ {j.path} /\ jobs' = jobs \ {j}
      BY <1>4 DEF JobEnds
    <2>2. \A t \in Tasks : task[t].op = "register" => Apart(t) /\ Apart(t)'
      BY <1>1, <1>4, <2>1 DEF OwnPath, Apart, MayUndo
    <2>3. (\A p : Unnamed(p)' = Unnamed(p)) /\ RegistrySound'
      BY <1>1 DEF OwnPath, RegistrySound, Unnamed
    <2>4. OwnPath'
      BY <1>1, <2>1, <2>2, <2>3 DEF OwnPath, Undone
    <2>5. \A t \in Tasks : Undone(t) => task[t].path # j.path
      BY <1>4 DEF OwnFile, Undone
    <2>6. \A i \in jobs' : i.unlink => i.path # j.path
      BY <1>4, <2>1 DEF OwnFile
    <2>7. OwnFile'
      <3>1. \A t \in Tasks : Undone(t)' /\ task'[t].at # "create_file" => task'[t].path \in files'
        BY <1>1, <2>1, <2>5 DEF OwnFile, Undone
      <3>2. \A i \in jobs' : i.unlink => i.path \in files'
        BY <2>1, <2>6 DEF OwnFile
      <3>3. QED BY <1>1, <2>1, <2>3, <3>1, <3>2 DEF OwnFile
    <2>8. QED BY <2>4, <2>7
  <1>5. QED BY <1>2, <1>3, <1>4 DEF JobStop, JobEnds

(* Every step keeps one path to an entry and one entry to a file. *)
LEMMA FilesStep == Base /\ OwnPath /\ OwnFile /\ [Next]_vars => OwnPath' /\ OwnFile'
  <1>. SUFFICES ASSUME Base, OwnPath, OwnFile, Next \/ UNCHANGED vars PROVE OwnPath' /\ OwnFile'
    OBVIOUS
  <1>. Types /\ Clients \subseteq Tasks
    BY DEF Base, Tasks
  <1>1. ASSUME NEW t \in Clients, NEW id \in Ids,
               Request(t, id) \/ RemoveCall(t, id) \/ (\E op \in {"set_default", "rename"} : EditCall(t, op, id))
        PROVE  OwnPath' /\ OwnFile'
    <2>1. Careful(t)'
      BY <1>1, NamesRegistered DEF Careful, Undone, MayUndo
    <2>2. QED BY <1>1, <2>1, NamesRegistered, CarefulKeeps
  <1>2. ASSUME NEW t \in Clients, NEW id \in Ids, NEW p \in Paths,
               \/ CreateCall(t, id, p)
               \/ RegisterCall(t, id, p)
        PROVE  OwnPath' /\ OwnFile'
    <2>1. CASE task'[t].op = "create"
      <3>1. task'[t].at = "await_create"
        BY <1>2, <2>1, NamesNew
      <3>2. Careful(t)'
        BY <2>1, <3>1 DEF Careful, Undone, MayUndo
      <3>3. QED BY <1>2, <3>2, NamesNew, CarefulKeeps
    <2>2. CASE task'[t].op = "register"
      <3>1. /\ task'[t].at = "await_registry" /\ task'[t].path = p /\ p \in files
            /\ Undoable(p) => p \in met'
            /\ \A u \in Tasks \ {t} : task'[u] = task[u]
            /\ UNCHANGED <<files, jobs>>
        BY <1>2, <2>2, NamesNew
      <3>2. Apart(t)'
        BY <2>2, <3>1 DEF Apart, Undoable, MayUndo
      <3>3. Careful(t)'
        BY <2>2, <3>1, <3>2 DEF Careful, Undone, MayUndo
      <3>4. QED BY <1>2, <3>3, NamesNew, CarefulKeeps
    <2>3. QED BY <1>2, <2>1, <2>2, NamesNew
  <1>3. CASE Collect(Reaper) \/ Pick(Reaper) \/ Pending(Reaper) \/ SweepDone(Reaper)
    <2>1. Reaper \in Tasks /\ task \in [Tasks -> TaskRecords]
      BY Places DEF Tasks
    <2>2. /\ UNCHANGED <<path, default, met, jobs, files>>
          /\ \A u \in Tasks \ {Reaper} : task'[u] = task[u]
      BY <1>3, <2>1 DEF Collect, Pick, Pending, SweepDone, Goto, registry
    <2>3. task'[Reaper].op \in {None, "evict"}
      BY <1>3, SweepTypes DEF Types, Whereabouts
    <2>4. Careful(Reaper)'
      BY <2>1, <2>3, CarefulOthers, DatabaseManagerAssumption DEF Operations
    <2>5. QED BY <2>1, <2>2, <2>4, CarefulKeeps
  <1>4. CASE UNCHANGED <<registry, task, files, jobs>>
    BY <1>4 DEF OwnPath, OwnFile, Apart, Unnamed, MayUndo, RegistrySound, Undone, Registered, registry
  <1>5. ASSUME NEW s \in Sets, StartTurn(s) \/ EndTurn(s) \/ ShutdownSet(s)
        PROVE  UNCHANGED <<registry, task, files, jobs>>
    BY <1>5 DEF StartTurn, EndTurn, ShutdownSet
  <1>6. ASSUME (\E id \in Ids : Age(id)) \/ StopServing \/ ShutdownAll \/ ShutdownEnds \/ UNCHANGED vars
        PROVE  UNCHANGED <<registry, task, files, jobs>>
    BY <1>6 DEF Age, StopServing, ShutdownAll, ShutdownEnds, vars, registry
  <1>7. CASE Next
    BY <1>1, <1>2, <1>3, <1>4, <1>5, <1>6, <1>7, Steps, OpenFiles, CreateFiles, RegistryFiles,
                 CloseFiles, CancelFiles, JobFiles
  <1>8. QED BY <1>4, <1>6, <1>7

(* No removal of a file takes that of a registered database. *)
LEMMA FilesStayStep ==
    Base /\ OwnPath /\ OwnFile /\ [Next]_vars
      => [\A id \in Registered : path[id] \in files => path[id] \in files' \cup met]_vars
  <1>. SUFFICES ASSUME Base, OwnPath, OwnFile, Next, NEW id \in Registered, path[id] \in files
                PROVE  path[id] \in files' \cup met
    OBVIOUS
  <1>. Types /\ Clients \subseteq Tasks
    BY DEF Base, Tasks
  <1>1. ASSUME NEW t \in Clients, CreateFails(t) \/ Unlink(t) PROVE path[id] \in files' \cup met
    <2>1. Undone(t) /\ files' = files \ {task[t].path}
      BY <1>1, Places DEF CreateFails, Unlink, At, Undone
    <2>2. QED BY <2>1 DEF OwnPath, Unnamed
  <1>2. ASSUME NEW t \in Clients, Cancel(t) PROVE path[id] \in files' \cup met
    <2>1. CASE files' = files
      BY <2>1
    <2>2. CASE files' # files
      <3>1. Undone(t) /\ files' = files \ {task[t].path}
        BY <1>2, <2>2 DEF Cancel, UndoCreate, Undone
      <3>2. QED BY <3>1 DEF OwnPath, Unnamed
    <2>3. QED BY <2>1, <2>2
  <1>3. ASSUME NEW j \in jobs, JobStop(j) \/ JobEnds(j) PROVE path[id] \in files' \cup met
    BY <1>3 DEF JobStop, JobEnds, OwnFile, Unnamed
  <1>4. ASSUME NEW t \in Clients,
               \/ Lookup(t) \/ Lock(t) \/ Recheck(t) \/ Resolve(t) \/ Build(t)
               \/ BuildFails(t) \/ Publish(t) \/ Touch(t)
               \/ CreateStart(t) \/ CheckPaths(t) \/ CreateFile(t) \/ Seed(t) \/ Cache(t)
               \/ AwaitRegistry(t) \/ Saved(t) \/ SaveFails(t)
        PROVE  path[id] \in files' \cup met
    BY <1>4 DEF Lookup, Lock, Recheck, Resolve, Build, BuildFails, Publish, Touch, SetBuilt,
                CreateStart, CheckPaths, CreateFile, Seed, Cache, AwaitRegistry, Saved, SaveFails
  <1>5. ASSUME NEW t \in Tasks, Take(t) \/ Forget(t) \/ Stop(t) \/ Rest(t) PROVE path[id] \in files' \cup met
    BY <1>5 DEF Take, Forget, Stop, Rest
  <1>6. ASSUME NEW t \in Clients, NEW i \in Ids, NEW p \in Paths,
               \/ Request(t, i) \/ RemoveCall(t, i) \/ (\E op \in {"set_default", "rename"} : EditCall(t, op, i))
               \/ CreateCall(t, i, p)
               \/ RegisterCall(t, i, p)
        PROVE  path[id] \in files' \cup met
    BY <1>6 DEF Request, RemoveCall, EditCall, CreateCall, RegisterCall
  <1>7. ASSUME \/ Collect(Reaper) \/ Pick(Reaper) \/ Pending(Reaper) \/ SweepDone(Reaper)
               \/ \E s \in Sets : StartTurn(s) \/ EndTurn(s) \/ ShutdownSet(s)
               \/ \E i \in Ids : Age(i)
               \/ StopServing \/ ShutdownAll \/ ShutdownEnds
               \/ UNCHANGED vars
        PROVE  path[id] \in files' \cup met
    BY <1>7 DEF Collect, Pick, Pending, SweepDone, StartTurn, EndTurn, ShutdownSet, Age, StopServing,
                ShutdownAll, ShutdownEnds, vars
  <1>8. Paths # {}
    <2>1. path[id] \in Paths
      BY DEF Registered, Types, Fields
    <2>2. QED BY <2>1
  <1>9. QED BY <1>1, <1>2, <1>3, <1>4, <1>5, <1>6, <1>7, <1>8, Steps

(* The daemon starts with one path to an entry and one entry to a file. *)
LEMMA FilesInit == Init => OwnPath /\ OwnFile
  <1>. SUFFICES ASSUME Init PROVE OwnPath /\ OwnFile
    OBVIOUS
  <1>1. \A t \in Tasks : task[t].op = None
    BY DEF Init, IdleTask
  <1>2. None \notin {"create", "register", "set_default"}
    BY DatabaseManagerAssumption DEF Operations
  <1>3. QED BY <1>1, <1>2 DEF Init, OwnPath, OwnFile, Apart, RegistrySound, Undone

(* The registry names a registered default and at most one database per file,
   whatever creates, registers, removes and edits interleave, fail and are
   dropped, but for the files that were registered while they were created. *)
THEOREM RegistryStaysSound == Spec => []RegistrySound
  <1>1. OwnPath => RegistrySound
    BY DEF OwnPath
  <1>2. Spec => [](Base /\ OwnPath /\ OwnFile)
    BY BaseInit, BaseStep, FilesInit, FilesStep, PTL DEF Spec
  <1>3. QED BY <1>1, <1>2, PTL

(* No rollback of a create, at once or spawned, removes the file of a registered
   database, unless that file was registered while it was being created. *)
THEOREM FilesOfEntriesStay == Spec => RegisteredFilesStay
  <1>1. Spec => [](Base /\ OwnPath /\ OwnFile)
    BY BaseInit, BaseStep, FilesInit, FilesStep, PTL DEF Spec
  <1>2. QED BY <1>1, FilesStayStep, PTL DEF Spec, RegisteredFilesStay

-----------------------------------------------------------------------------
(* What a database's mutex protects *)

(* A task that has the mutex of a registered database has the recorded one, and
   what it established under the mutex stays so while it holds it. *)
Secured(t) ==
    /\ task[t].lock # None /\ task[t].id \in Registered => opening[task[t].id] = task[t].lock
    /\ task[t].at \in {"build", "publish"} => task[t].id \in Registered
    /\ task[t].op = "create" /\ task[t].at \in {"cache", "touch"} => task[t].id \in Registered
    /\ task[t].at \in {"resolve", "build", "publish", "cache"} => open[task[t].id] = None
    /\ task[t].op = "remove" /\ task[t].at \in {"take", "forget", "stop", "rest"} =>
         task[t].id \notin Registered

Guarded == \A t \in Tasks : Secured(t)

(* Two tasks that are past the mutex of a registered database are one. *)
LEMMA OneInside ==
    ASSUME Base, NEW t \in Tasks, NEW u \in Tasks, Secured(t), Secured(u), task[t].id = task[u].id,
           task[t].id \in Registered,
           task[t].lock # None, task[t].at # "await_lock", task[u].lock # None, task[u].at # "await_lock"
    PROVE  t = u
  <1>1. task[t].lock = task[u].lock
    BY DEF Secured
  <1>2. task[t].lock \in Locks
    BY Places DEF Base, TaskRecords
  <1>3. QED BY <1>1, <1>2, Alone

(* Where a task has a mutex. *)
LEMMA HasMutex ==
    ASSUME Base, NEW t \in Tasks
    PROVE  /\ task[t].at \in {"recheck", "resolve", "build", "publish", "cache"} => task[t].lock # None
           /\ task[t].op = "create" /\ task[t].at \in {"cache", "touch"} => task[t].lock # None
           /\ task[t].op = "remove" => task[t].lock # None
  <1>1. Sound(task[t]) /\ None \notin Locks
    BY DatabaseManagerAssumption DEF Base, Types, Whereabouts
  <1>2. task[t].at \in {"recheck", "resolve", "build", "publish"} => task[t].op = "open"
    BY Places DEF Base
  <1>3. task[t].at = "cache" => task[t].op = "create"
    BY Places DEF Base
  <1>4. task[t].op = "remove" => task[t].at \notin {"lookup", "touch"}
    BY <1>1 DEF Sound
  <1>5. QED BY <1>1, <1>2, <1>3, <1>4 DEF Sound

(* A step of one task keeps the databases guarded when what it establishes holds for itself and for the tasks
   of the same database. *)
LEMMA GuardedOwn ==
    ASSUME Base, Guarded, NEW t \in Tasks, Own(t), Secured(t)',
           \A u \in Tasks \ {t} : task[u].id = task[t].id /\ task[t].id \in Ids => Secured(u)'
    PROVE  Guarded'
  <1>. SUFFICES ASSUME NEW u \in Tasks \ {t} PROVE Secured(u)'
    BY DEF Guarded
  <1>1. task'[u] = task[u] /\ Secured(u)
    BY DEF Own, Guarded
  <1>2. CASE task[u].id \notin Ids
    <2>1. task[u].id \notin Registered' /\ task[u].at \in {"idle", "pick"}
      BY <1>2, Places DEF Registered, Base
    <2>2. QED BY <1>1, <2>1 DEF Secured
  <1>3. CASE task[u].id \in Ids /\ task[u].id # task[t].id
    BY <1>1, <1>3 DEF Own, Secured, Registered
  <1>4. QED BY <1>2, <1>3

(* A step that touches no entry, set or mutex keeps the databases guarded. *)
LEMMA GuardedQuiet ==
    ASSUME Base, Guarded, NEW t \in Tasks, \A u \in Tasks \ {t} : task'[u] = task[u], Secured(t)',
           UNCHANGED <<path, open, opening>>
    PROVE  Guarded'
  BY DEF Guarded, Secured, Registered

(* A task that ends leaves nothing to secure. *)
LEMMA SecuredIdle ==
    ASSUME NEW t \in Tasks, task'[t] = IdleTask PROVE Secured(t)'
  BY DatabaseManagerAssumption DEF Secured, IdleTask, Operations

(* A task that ends keeps the databases guarded. *)
LEMMA LetGoGuarded ==
    ASSUME Base, Guarded, NEW t \in Tasks, LetGo(t), UNCHANGED <<path, open, opening>>
    PROVE  Guarded'
  BY LetGoOwn, SecuredIdle, GuardedQuiet DEF Base

(* opening_lock gives whoever asks the mutex that others already have. *)
LEMMA LockForGuards ==
    ASSUME Base, Guarded, NEW t \in Tasks, NEW id \in Ids, NEW l \in Locks, LockFor(id, l),
           UNCHANGED <<path, open>>, NEW u \in Tasks \ {t}, task'[u] = task[u]
    PROVE  Secured(u)'
  <1>1. Secured(u) /\ None \notin Locks
    BY DatabaseManagerAssumption DEF Guarded
  <1>2. opening' = [opening EXCEPT ![id] = l] /\ opening \in [Ids -> Locks \cup {None}]
        /\ (opening[id] = l \/ opening[id] = None)
    BY DEF LockFor, Base, Types, Fields
  <1>3. task[u].lock # None /\ task[u].id \in Registered => opening'[task[u].id] = task[u].lock
    BY <1>1, <1>2 DEF Secured, Registered
  <1>4. QED BY <1>1, <1>3 DEF Secured, Registered

(* open_database records the mutex it waits for before it waits, and publishes under
   it. *)
LEMMA OpenGuarded ==
    ASSUME Base, Guarded, NEW t \in Clients,
           \/ Lookup(t) \/ Lock(t) \/ Recheck(t) \/ Resolve(t) \/ Build(t)
           \/ BuildFails(t) \/ Publish(t) \/ Touch(t)
    PROVE  Guarded'
  <1>. Types /\ t \in Tasks
    BY DEF Base, Tasks
  <1>. DEFINE id == task[t].id
  <1>0. /\ Own(t) /\ \A u \in Tasks \ {t} : task'[u] = task[u]
        /\ UNCHANGED path
    BY OwnSteps DEF Own, Lookup, Lock, Recheck, Resolve, Build, BuildFails, Publish, Touch, registry
  <1>1. task[t] \in TaskRecords /\ task \in [Tasks -> TaskRecords] /\ id \in Ids
    BY Places DEF Lookup, Lock, Recheck, Resolve, Build, BuildFails, Publish, Touch, At
  <1>2. Secured(t) /\ None \notin Locks
    BY DatabaseManagerAssumption DEF Guarded
  <1>3. ASSUME NEW place, Goto(t, place)
        PROVE  /\ task'[t].op = task[t].op /\ task'[t].at = place /\ task'[t].id = id
               /\ task'[t].lock = task[t].lock
    BY <1>1, <1>3 DEF Goto, TaskRecords
  <1>4. CASE Lookup(t)
    <2>1. task[t].op = "open" /\ UNCHANGED <<path, open>>
      BY <1>0, <1>4, Places DEF Lookup, At
    <2>2. CASE Goto(t, "touch") /\ UNCHANGED opening
      <3>1. Secured(t)'
        BY <1>0, <1>2, <1>3, <2>1, <2>2 DEF Secured, Registered
      <3>2. QED BY <1>0, <2>1, <2>2, <3>1, GuardedQuiet
    <2>3. ASSUME NEW l \in Locks, LockFor(id, l),
                 task' = [task EXCEPT ![t].at = "await_lock", ![t].lock = l]
          PROVE  Guarded'
      <3>1. task'[t].op = "open" /\ task'[t].at = "await_lock" /\ task'[t].id = id /\ task'[t].lock = l
        BY <1>1, <2>1, <2>3 DEF TaskRecords
      <3>2. opening'[id] = l
        BY <1>1, <2>3 DEF LockFor, Types, Fields
      <3>3. Secured(t)'
        BY <3>1, <3>2 DEF Secured
      <3>4. \A u \in Tasks \ {t} : Secured(u)'
        BY <1>0, <1>1, <2>1, <2>3, LockForGuards
      <3>5. QED BY <1>0, <3>3, <3>4, GuardedOwn
    <2>4. QED BY <1>4, <2>2, <2>3 DEF Lookup
  <1>5. CASE Lock(t) \/ Recheck(t)
    <2>1. UNCHANGED <<path, open, opening>> /\ task[t].op \in {"open", "remove"}
      BY <1>0, <1>5, Places DEF Lock, Recheck, locks, At
    <2>2. \E place \in {"recheck", "await_registry", "touch", "resolve"} :
             Goto(t, place) /\ (place = "resolve" => open[id] = None)
      BY <1>5 DEF Lock, Recheck
    <2>3. Secured(t)'
      BY <1>2, <1>3, <2>1, <2>2 DEF Secured, Registered
    <2>4. QED BY <1>0, <2>1, <2>3, GuardedQuiet
  <1>6. CASE BuildFails(t) \/ Touch(t)
    BY <1>0, <1>6, LetGoGuarded DEF BuildFails, Touch, Finish
  <1>7. CASE Resolve(t)
    <2>1. CASE Finish(t)
      BY <1>0, <1>7, <2>1, LetGoGuarded DEF Resolve, Finish
    <2>2. CASE /\ task[t].id \in Registered /\ UNCHANGED locks
               /\ task' = [task EXCEPT ![t].at = "build", ![t].path = path[task[t].id]]
      <3>1. task[t].op = "open" /\ task[t].at = "resolve" /\ UNCHANGED <<open, opening>>
        BY <1>7, <2>2, Places DEF Resolve, At, locks
      <3>2. task'[t].op = "open" /\ task'[t].at = "build" /\ task'[t].id = id /\ task'[t].lock = task[t].lock
        BY <1>1, <2>2, <3>1 DEF TaskRecords
      <3>3. Secured(t)'
        BY <1>0, <1>2, <2>2, <3>1, <3>2 DEF Secured, Registered
      <3>4. QED BY <1>0, <3>1, <3>3, GuardedQuiet
    <2>3. QED BY <1>7, <2>1, <2>2 DEF Resolve
  <1>8. CASE Build(t)
    <2>1. PICK s \in Sets : task' = [task EXCEPT ![t].set = s, ![t].at = "publish"]
      BY <1>8 DEF Build
    <2>2. task[t].op = "open" /\ task[t].at = "build" /\ UNCHANGED <<open, opening>>
      BY <1>8, Places DEF Build, At, locks
    <2>3. task'[t].op = "open" /\ task'[t].at = "publish" /\ task'[t].id = id /\ task'[t].lock = task[t].lock
      BY <1>1, <2>1, <2>2 DEF TaskRecords
    <2>4. Secured(t)'
      BY <1>0, <1>2, <2>2, <2>3 DEF Secured, Registered
    <2>5. QED BY <1>0, <2>2, <2>4, GuardedQuiet
  <1>9. CASE Publish(t)
    <2>1. task[t].op = "open" /\ task[t].at = "publish" /\ UNCHANGED opening /\ id \in Registered
          /\ task[t].lock # None
      <3>1. task[t].at = "publish" /\ UNCHANGED opening
        BY <1>9 DEF Publish, At, locks
      <3>2. task[t].op = "open"
        BY <3>1, Places
      <3>3. QED BY <1>2, <3>1, <3>2, HasMutex DEF Secured
    <2>2. \E place \in {"touch", "stop"} : Goto(t, place)
      BY <1>9 DEF Publish
    <2>3. Secured(t)'
      BY <1>0, <1>2, <1>3, <2>1, <2>2 DEF Secured, Registered
    <2>4. \A u \in Tasks \ {t} : task[u].id = id => task[u].at \notin {"resolve", "build", "publish", "cache"}
      BY <1>2, <2>1, HasMutex, OneInside DEF Guarded
    <2>5. \A u \in Tasks \ {t} : task[u].id = id => Secured(u)'
      BY <1>0, <2>1, <2>4 DEF Secured, Registered, Guarded
    <2>6. QED BY <1>0, <2>3, <2>5, GuardedOwn, OwnSteps
  <1>10. QED BY <1>4, <1>5, <1>6, <1>7, <1>8, <1>9

(* create_database takes a fresh mutex, records it, and publishes its set under it. *)
LEMMA CreateGuarded ==
    ASSUME Base, Guarded, NEW t \in Clients,
           \/ CreateStart(t) \/ CheckPaths(t) \/ CreateFile(t) \/ Seed(t)
           \/ CreateFails(t) \/ Cache(t) \/ Unlink(t)
    PROVE  Guarded'
  <1>. Types /\ Private /\ t \in Tasks
    BY DEF Base, Tasks
  <1>. DEFINE id == task[t].id
  <1>0. /\ Own(t) /\ \A u \in Tasks \ {t} : task'[u] = task[u]
        /\ UNCHANGED path
    BY OwnSteps DEF Own, CreateStart, CheckPaths, CreateFile, Seed, CreateFails, Cache, Unlink, registry
  <1>1. task[t] \in TaskRecords /\ task \in [Tasks -> TaskRecords] /\ id \in Ids /\ task[t].op = "create"
    BY Places DEF CreateStart, CheckPaths, CreateFile, Seed, CreateFails, Cache, Unlink, At
  <1>2. Secured(t) /\ None \notin Locks
    BY DatabaseManagerAssumption DEF Guarded
  <1>3. ASSUME NEW place, Goto(t, place)
        PROVE  /\ task'[t].op = task[t].op /\ task'[t].at = place /\ task'[t].id = id
               /\ task'[t].lock = task[t].lock
    BY <1>1, <1>3 DEF Goto, TaskRecords
  <1>4. CASE LetGo(t) /\ (CreateStart(t) \/ CheckPaths(t) \/ CreateFails(t))
    BY <1>0, <1>4, LetGoGuarded DEF CreateStart, CheckPaths, CreateFails, Finish, locks
  <1>5. CASE CreateFile(t) \/ (~LetGo(t) /\ (CreateStart(t) \/ CheckPaths(t)))
    <2>1. /\ UNCHANGED <<path, open, opening>>
          /\ \E place \in {"check_paths", "create_file", "seed"} : Goto(t, place)
      BY <1>0, <1>5 DEF CreateStart, CheckPaths, CreateFile, Finish, locks
    <2>2. Secured(t)'
      BY <1>1, <1>2, <1>3, <2>1 DEF Secured, Registered
    <2>3. QED BY <1>0, <2>1, <2>2, GuardedQuiet
  <1>6. CASE Seed(t)
    <2>1. PICK s \in Sets, l \in Locks :
             /\ LockFor(id, l)
             /\ task' = [task EXCEPT ![t].set = s, ![t].lock = l, ![t].at = "await_registry"]
      BY <1>6 DEF Seed
    <2>2. task'[t].op = "create" /\ task'[t].at = "await_registry" /\ task'[t].id = id /\ task'[t].lock = l
      BY <1>1, <2>1 DEF TaskRecords
    <2>3. opening'[id] = l /\ UNCHANGED open
      BY <1>1, <1>6, <2>1 DEF Seed, LockFor, Types, Fields
    <2>4. Secured(t)'
      BY <2>2, <2>3 DEF Secured
    <2>5. QED BY <1>0, <1>1, <2>1, <2>3, <2>4, LockForGuards, GuardedOwn
  <1>7. CASE Unlink(t)
    <2>1. task'[t] = IdleTask
      BY <1>7, LetGoOwn DEF Unlink
    <2>2. Unregistered(t)
      BY <1>1, <1>7 DEF Unlink, At, Unregistered
    <2>3. \A u \in Tasks \ {t} : task[u].id # id
      BY <2>2 DEF Private
    <2>4. QED BY <1>0, <2>1, <2>3, SecuredIdle, GuardedOwn
  <1>8. CASE Cache(t)
    <2>1. task[t].at = "cache" /\ UNCHANGED opening /\ id \in Registered /\ task[t].lock # None
      BY <1>1, <1>2, <1>8, HasMutex DEF Cache, At, locks, Secured
    <2>2. Goto(t, "touch")
      BY <1>8 DEF Cache
    <2>3. Secured(t)'
      BY <1>0, <1>1, <1>2, <1>3, <2>1, <2>2 DEF Secured, Registered
    <2>4. \A u \in Tasks \ {t} : task[u].id = id => task[u].at \notin {"resolve", "build", "publish", "cache"}
      BY <1>2, <2>1, HasMutex, OneInside DEF Guarded
    <2>5. \A u \in Tasks \ {t} : task[u].id = id => Secured(u)'
      BY <1>0, <2>1, <2>4 DEF Secured, Registered, Guarded
    <2>6. QED BY <1>0, <2>3, <2>5, GuardedOwn
  <1>9. CreateFails(t) => LetGo(t)
    BY DEF CreateFails, Finish
  <1>10. QED BY <1>4, <1>5, <1>6, <1>7, <1>8, <1>9

(* A save turns a private database into a registered one with the mutex its creator
   holds. *)
LEMMA RegistryGuarded ==
    ASSUME Base, Guarded, NEW t \in Clients, AwaitRegistry(t) \/ Saved(t) \/ SaveFails(t)
    PROVE  Guarded'
  <1>. Types /\ Private /\ t \in Tasks
    BY DEF Base, Tasks
  <1>. DEFINE id == task[t].id
  <1>0. Own(t) /\ \A u \in Tasks \ {t} : task'[u] = task[u]
    BY OwnSteps DEF Own
  <1>1. /\ task[t] \in TaskRecords /\ task \in [Tasks -> TaskRecords] /\ id \in Ids
        /\ task[t].op \in {"create", "register", "remove", "set_default", "rename"}
        /\ task[t].at \in {"await_registry", "saving"}
    BY Places DEF AwaitRegistry, Saved, SaveFails, At
  <1>2. Secured(t) /\ None \notin Locks
    BY DatabaseManagerAssumption DEF Guarded
  <1>3. ASSUME NEW place, Goto(t, place)
        PROVE  /\ task'[t].op = task[t].op /\ task'[t].at = place /\ task'[t].id = id
               /\ task'[t].lock = task[t].lock
    BY <1>1, <1>3 DEF Goto, TaskRecords
  <1>4. UNCHANGED <<open, opening>>
    BY DEF AwaitRegistry, Saved, SaveFails, Finish
  <1>5. CASE AwaitRegistry(t) \/ SaveFails(t)
    <2>1. UNCHANGED path
      BY <1>5 DEF AwaitRegistry, SaveFails, registry
    <2>2. CASE LetGo(t)
      BY <1>4, <2>1, <2>2, LetGoGuarded
    <2>3. CASE ~LetGo(t)
      <3>1. Goto(t, "saving") \/ (Goto(t, "stop") /\ task[t].op = "create")
        BY <1>5, <2>3 DEF AwaitRegistry, SaveFails, Finish
      <3>2. Secured(t)'
        BY <1>2, <1>3, <1>4, <2>1, <3>1 DEF Secured, Registered
      <3>3. QED BY <1>0, <1>4, <2>1, <3>2, GuardedQuiet
    <2>4. QED BY <2>2, <2>3
  <1>6. CASE Saved(t)
    <2>1. task[t].at = "saving"
      BY <1>6 DEF Saved, At
    <2>2. CASE task[t].op \in {"create", "register"}
      <3>1. Unregistered(t)
        BY <2>1, <2>2 DEF Unregistered
      <3>2. open[id] = None /\ opening[id] = task[t].lock /\ \A u \in Tasks \ {t} : task[u].id # id
        BY <3>1 DEF Private
      <3>3. path' = [path EXCEPT ![id] = task[t].path]
        BY <1>6, <2>2 DEF Saved, Candidate
      <3>4. id \in Registered'
        <4>1. Sound(task[t])
          BY DEF Types, Whereabouts
        <4>2. task[t].path \in Paths /\ None \notin Paths
          BY <2>2, <4>1, DatabaseManagerAssumption DEF Sound
        <4>3. QED BY <1>1, <3>3, <4>2 DEF Registered, Types, Fields
      <3>5. Secured(t)'
        <4>1. CASE task[t].op = "register"
          <5>1. LetGo(t)
            BY <1>6, <4>1 DEF Saved, Finish
          <5>2. QED BY <5>1, LetGoOwn, SecuredIdle
        <4>2. CASE task[t].op = "create"
          <5>1. Goto(t, "cache")
            BY <1>6, <4>2 DEF Saved
          <5>2. QED BY <1>3, <1>4, <3>2, <3>4, <4>2, <5>1 DEF Secured
        <4>3. QED BY <2>2, <4>1, <4>2
      <3>6. QED BY <1>0, <3>2, <3>5, GuardedOwn
    <2>3. CASE task[t].op = "remove"
      <3>1. path' = [path EXCEPT ![id] = None]
        BY <1>6, <2>3 DEF Saved, Candidate
      <3>2. id \notin Registered'
        BY <1>1, <3>1 DEF Registered, Types, Fields
      <3>3. Goto(t, "take") /\ task[t].lock # None
        BY <1>6, <2>3, HasMutex DEF Saved
      <3>4. Secured(t)'
        BY <1>3, <2>3, <3>2, <3>3 DEF Secured
      <3>5. \A u \in Tasks \ {t} : task[u].id = id => Secured(u)'
        <4>. SUFFICES ASSUME NEW u \in Tasks \ {t}, task[u].id = id PROVE Secured(u)'
          OBVIOUS
        <4>1. Secured(u) /\ task'[u] = task[u]
          BY <1>0 DEF Guarded
        <4>2. /\ task[u].at \notin {"build", "publish"}
              /\ ~(task[u].op = "create" /\ task[u].at \in {"cache", "touch"})
          <5>. SUFFICES ASSUME \/ task[u].at \in {"build", "publish"}
                               \/ task[u].op = "create" /\ task[u].at \in {"cache", "touch"}
                        PROVE  FALSE
            OBVIOUS
          <5>1. id \in Registered
            BY <4>1 DEF Secured
          <5>2. task[u].lock # None /\ task[u].at # "await_lock"
            BY HasMutex
          <5>3. t = u
            BY <1>2, <2>1, <3>3, <4>1, <5>1, <5>2, OneInside
          <5>4. QED BY <5>3
        <4>3. QED BY <1>4, <3>2, <4>1, <4>2 DEF Secured
      <3>6. QED BY <1>0, <3>4, <3>5, GuardedOwn
    <2>4. CASE task[t].op \in {"set_default", "rename"}
      <3>1. path' = path
        BY <1>6, <2>4 DEF Saved, Candidate
      <3>2. LetGo(t)
        BY <1>6, <2>4 DEF Saved, Finish
      <3>3. QED BY <1>4, <3>1, <3>2, LetGoGuarded
    <2>5. QED BY <1>1, <2>2, <2>3, <2>4
  <1>7. QED BY <1>5, <1>6

(* close_database takes the mutex that is recorded, and takes the set out under it. *)
LEMMA CloseGuarded ==
    ASSUME Base, Guarded, NEW t \in Tasks, Take(t) \/ Forget(t) \/ Stop(t) \/ Rest(t)
    PROVE  Guarded'
  <1>. Types /\ Private
    BY DEF Base
  <1>. DEFINE id == task[t].id
  <1>0. /\ Own(t) /\ \A u \in Tasks \ {t} : task'[u] = task[u]
        /\ UNCHANGED path
    BY OwnSteps DEF Own, Take, Forget, Stop, Rest, registry
  <1>1. /\ task[t] \in TaskRecords /\ task \in [Tasks -> TaskRecords] /\ id \in Ids
        /\ task[t].op \in {"open", "create", "remove", "evict"}
        /\ task[t].at \in {"take", "forget", "stop", "rest"}
    BY Places DEF Take, Forget, Stop, Rest, At
  <1>2. Secured(t) /\ None \notin Locks
    BY DatabaseManagerAssumption DEF Guarded
  <1>3. ASSUME NEW place, Goto(t, place)
        PROVE  /\ task'[t].op = task[t].op /\ task'[t].at = place /\ task'[t].id = id
               /\ task'[t].lock = task[t].lock
    BY <1>1, <1>3 DEF Goto, TaskRecords
  <1>4. CASE Take(t)
    <2>1. task[t].op \in {"remove", "evict"} /\ UNCHANGED opening /\ task[t].at = "take"
      BY <1>4, Places DEF Take, locks, At
    <2>2. task'[t].op = task[t].op /\ task'[t].at = "forget" /\ task'[t].id = id /\ task'[t].lock = task[t].lock
      BY <1>1, <1>4 DEF Take, TaskRecords
    <2>3. \A i \in Ids : open'[i] \in {open[i], None}
      BY <1>4 DEF Take, Types, Fields
    <2>4. Secured(t)'
      BY <1>0, <1>2, <2>1, <2>2 DEF Secured, Registered
    <2>5. \A u \in Tasks \ {t} : task[u].id = id => Secured(u)'
      BY <1>0, <1>1, <2>1, <2>3 DEF Secured, Registered, Guarded
    <2>6. QED BY <1>0, <2>4, <2>5, GuardedOwn
  <1>5. CASE AfterClose(t) /\ UNCHANGED open
    <2>1. CASE task[t].op = "remove"
      <3>1. task'[t] = IdleTask
        BY <1>5, <2>1, LetGoOwn DEF AfterClose
      <3>2. id \notin Registered /\ Registered' = Registered
        BY <1>0, <1>1, <1>2, <2>1 DEF Secured, Registered
      <3>3. \A u \in Tasks \ {t} : task[u].id = id => Secured(u)'
        BY <1>0, <1>5, <3>2 DEF Secured, Guarded
      <3>4. QED BY <1>0, <3>1, <3>3, SecuredIdle, GuardedOwn
    <2>2. CASE task[t].op = "evict"
      <3>1. task'[t] = [IdleTask EXCEPT !.op = "evict", !.at = "pick"] /\ UNCHANGED opening
        BY <1>1, <1>5, <2>2 DEF AfterClose, locks
      <3>2. task'[t].op = "evict" /\ task'[t].at = "pick" /\ task'[t].lock = None
        BY <3>1 DEF IdleTask
      <3>3. Secured(t)'
        BY <3>2 DEF Secured
      <3>4. QED BY <1>0, <1>5, <3>1, <3>3, GuardedQuiet
    <2>3. CASE task[t].op \in {"open", "create"}
      <3>1. (\E place \in {"unlink", "touch"} : Goto(t, place) /\ (task[t].op = "create" => place = "unlink"))
            /\ UNCHANGED opening
        BY <1>5, <2>3 DEF AfterClose, locks
      <3>2. Secured(t)'
        BY <1>0, <1>2, <1>3, <1>5, <2>3, <3>1 DEF Secured, Registered
      <3>3. QED BY <1>0, <1>5, <3>1, <3>2, GuardedQuiet
    <2>4. QED BY <1>1, <2>1, <2>2, <2>3
  <1>6. CASE \E place \in {"stop", "rest"} : Goto(t, place) /\ UNCHANGED <<open, opening>>
    <2>1. Secured(t)'
      BY <1>0, <1>1, <1>2, <1>3, <1>6 DEF Secured, Registered
    <2>2. QED BY <1>0, <1>6, <2>1, GuardedQuiet
  <1>7. QED BY <1>4, <1>5, <1>6 DEF Forget, Stop, Rest, locks

(* A request dropped half way leaves the recorded mutexes to the others. *)
LEMMA CancelGuarded ==
    ASSUME Base, Guarded, NEW t \in Clients, Cancel(t)
    PROVE  Guarded'
  <1>. Types /\ Private /\ t \in Tasks
    BY DEF Base, Tasks
  <1>. DEFINE id == task[t].id
  <1>0. /\ Own(t) /\ UNCHANGED <<path, open>> /\ LetGo(t)
        /\ \A u \in Tasks \ {t} : task'[u] = task[u]
    BY OwnSteps DEF Own, Cancel, registry
  <1>1. CASE UNCHANGED opening
    BY <1>0, <1>1, LetGoGuarded
  <1>2. CASE ~UNCHANGED opening
    <2>1. task[t].op = "create" /\ task[t].at # "touch" /\ PruneUnshared(t)
      BY <1>2 DEF Cancel, At
    <2>2. task[t].lock # None /\ ~\E u \in Tasks \ {t} : task[u].lock = opening[id]
      BY <1>2, <2>1 DEF PruneUnshared
    <2>3. CASE task[t].at = "cache"
      <3>1. id \in Registered
        BY <2>1, <2>3 DEF Guarded, Secured
      <3>2. \A u \in Tasks \ {t} : task[u].id = id => task[u].lock = None
        BY <2>2, <3>1 DEF Guarded, Secured
      <3>3. \A u \in Tasks \ {t} : task[u].id = id => Secured(u)'
        BY <1>0, <3>2 DEF Guarded, Secured, Registered
      <3>4. QED BY <1>0, <3>3, LetGoOwn, SecuredIdle, GuardedOwn
    <2>4. CASE task[t].at # "cache"
      <3>1. \A u \in Tasks \ {t} : task[u].id # id
        BY <2>1, <2>4 DEF Private, Unregistered
      <3>2. QED BY <1>0, <3>1, LetGoOwn, SecuredIdle, GuardedOwn
    <2>5. QED BY <2>3, <2>4
  <1>3. QED BY <1>1, <1>2

(* Every step keeps the tasks of a database on the one mutex recorded for it. *)
LEMMA GuardedStep == Base /\ Guarded /\ [Next]_vars => Guarded'
  <1>. SUFFICES ASSUME Base, Guarded, Next \/ UNCHANGED vars PROVE Guarded'
    OBVIOUS
  <1>. Types /\ Clients \subseteq Tasks
    BY DEF Base, Tasks
  <1>1. ASSUME NEW t \in Clients, NEW id \in Ids,
               Request(t, id) \/ RemoveCall(t, id) \/ (\E op \in {"set_default", "rename"} : EditCall(t, op, id))
        PROVE  Guarded'
    <2>1. /\ \A u \in Tasks \ {t} : task'[u] = task[u]
          /\ task'[t].at \in {"lookup", "await_lock", "await_registry"}
          /\ task'[t].op \in {"open", "remove", "set_default", "rename"}
          /\ task'[t].at # "await_lock" => task'[t].lock = None
          /\ UNCHANGED <<path, open>>
      BY <1>1, NamesRegistered
    <2>2. CASE RemoveCall(t, id)
      <3>1. PICK l \in Locks :
              /\ LockFor(id, l)
              /\ task' = [task EXCEPT ![t] = [IdleTask EXCEPT !.op = "remove", !.id = id,
                                                           !.at = "await_lock", !.lock = l]]
        BY <2>2 DEF RemoveCall
      <3>2. task'[t] = [IdleTask EXCEPT !.op = "remove", !.id = id, !.at = "await_lock", !.lock = l]
        BY <3>1, Places
      <3>3. task'[t].op = "remove" /\ task'[t].id = id /\ task'[t].at = "await_lock" /\ task'[t].lock = l
        BY <3>2 DEF IdleTask
      <3>4. opening'[id] = l
        BY <3>1 DEF LockFor, Types, Fields
      <3>5. Secured(t)'
        BY <3>3, <3>4 DEF Secured
      <3>6. \A u \in Tasks \ {t} : Secured(u)'
        BY <2>1, <3>1, LockForGuards
      <3>7. QED BY <3>5, <3>6 DEF Guarded
    <2>3. CASE ~RemoveCall(t, id)
      <3>1. UNCHANGED opening /\ task'[t].lock = None
        <4>1. UNCHANGED opening /\ task'[t].at # "await_lock"
          BY <1>1, <2>3, Places DEF Request, EditCall, Begin, IdleTask, locks
        <4>2. QED BY <2>1, <4>1
      <3>2. Secured(t)'
        BY <2>1, <3>1 DEF Secured
      <3>3. QED BY <2>1, <3>1, <3>2, GuardedQuiet
    <2>4. QED BY <2>2, <2>3
  <1>2. ASSUME NEW t \in Clients, NEW id \in Ids, NEW p \in Paths,
               \/ CreateCall(t, id, p)
               \/ RegisterCall(t, id, p)
        PROVE  Guarded'
    <2>1. /\ \A u \in Tasks \ {t} : task'[u] = task[u]
          /\ task'[t].at \in {"await_create", "await_registry"}
          /\ task'[t].op \in {"create", "register"}
          /\ task'[t].lock = None
          /\ UNCHANGED <<path, open, opening>>
      BY <1>2, NamesNew DEF locks
    <2>2. Secured(t)'
      BY <2>1 DEF Secured
    <2>3. QED BY <2>1, <2>2, GuardedQuiet
  <1>3. CASE Collect(Reaper) \/ Pick(Reaper) \/ Pending(Reaper) \/ SweepDone(Reaper)
    <2>1. Reaper \in Tasks /\ task \in [Tasks -> TaskRecords] /\ task[Reaper] \in TaskRecords
      BY Places DEF Tasks
    <2>2. /\ \A u \in Tasks \ {Reaper} : task'[u] = task[u]
          /\ UNCHANGED <<path, open, opening>>
      BY <1>3, <2>1 DEF Collect, Pick, Pending, SweepDone, Goto, registry, locks
    <2>3. task'[Reaper].op \in {None, "evict"} /\ Sound(task'[Reaper])
      BY <1>3, <2>1, SweepTypes DEF Types, Whereabouts
    <2>4. Secured(Reaper)'
      <3>1. None \notin {"create", "remove"}
        BY DatabaseManagerAssumption DEF Operations
      <3>2. task'[Reaper].at \notin {"build", "publish", "resolve", "cache"}
        BY <2>3, <3>1 DEF Sound, IdleTask
      <3>3. task'[Reaper].lock = None
        BY <2>3 DEF Sound, IdleTask
      <3>4. QED BY <2>3, <3>1, <3>2, <3>3 DEF Secured
    <2>5. QED BY <2>1, <2>2, <2>4, GuardedQuiet
  <1>4. ASSUME UNCHANGED <<registry, locks, task, victims, home>>, open' \in {open, [i \in Ids |-> None]}
        PROVE  Guarded'
    <2>1. \A i \in Ids : open'[i] \in {open[i], None}
      BY <1>4
    <2>2. \A t \in Tasks : task[t].at \in {"resolve", "build", "publish", "cache"} => task[t].id \in Ids
      BY Places
    <2>3. QED BY <1>4, <2>1, <2>2 DEF Guarded, Secured, Registered, registry, locks
  <1>5. CASE Next
    BY <1>1, <1>2, <1>3, <1>4, <1>5, Steps, AsideSteps, OpenGuarded, CreateGuarded,
                 RegistryGuarded, CloseGuarded, CancelGuarded
  <1>6. CASE UNCHANGED vars
    BY <1>4, <1>6, AsideSteps
  <1>7. QED BY <1>5, <1>6

(* The daemon starts with no task under way, and so with every database guarded. *)
LEMMA GuardedInit == Init => Guarded
  <1>. SUFFICES ASSUME Init PROVE Guarded
    OBVIOUS
  <1>1. \A t \in Tasks : task[t] = IdleTask
    BY DEF Init
  <1>2. QED BY <1>1, DatabaseManagerAssumption DEF Guarded, Secured, IdleTask, Operations

-----------------------------------------------------------------------------
(* Service sets *)

InHand == {"publish", "await_registry", "saving", "cache"}

(* A task has service set s, to publish it or to close it. *)
Has(t, s) == task[t].set = s /\ task[t].at \in InHand \cup {"forget", "stop", "rest"}

(* A set that is yet to be built is nowhere. *)
Fresh ==
    \A s \in Sets : phase[s] = "new" =>
      /\ \A t \in Tasks : task[t].set # s
      /\ \A i \in Ids : open[i] # s
      /\ \A j \in jobs : j.set # s

(* A set stands where its database is. *)
AtHome ==
    /\ \A s \in Sets : phase[s] # "new" => home[s] \in Ids
    /\ \A i \in Ids : open[i] # None => home[open[i]] = i
    /\ \A t \in Tasks : task[t].set # None /\ task[t].at \in InHand => home[task[t].set] = task[t].id

Running(s) == phase[s] \in {"live", "stopping"}

Kept ==
    \A s \in Sets \ abandoned : Running(s) =>
      \/ open[home[s]] = s
      \/ \E t \in Tasks : Has(t, s)
      \/ \E j \in jobs : j.set = s

Placed == Fresh /\ AtHome /\ Kept

(* A step of a task that builds and stops no set. *)
LEMMA PlacedOwn ==
    ASSUME Base, Placed, NEW t \in Tasks, Own(t), UNCHANGED <<home, phase>>,
           jobs \subseteq jobs',
           \A j \in jobs' : j \in jobs \/ j.set = task[t].set,
           \/ task'[t].set \in {None, task[t].set}
           \/ task[t].id \in Ids /\ task'[t].set = open[task[t].id],
           task[t].id \in Ids =>
             \/ open'[task[t].id] \in {open[task[t].id], None}
             \/ task[t].at \in InHand /\ open'[task[t].id] = task[t].set,
           task'[t].at \in InHand =>
             task'[t].set = None \/ (task'[t].set = task[t].set /\ task[t].at \in InHand),
           task'[t].at \in InHand => task'[t].id = task[t].id,
           \A s \in Sets \ abandoned' :
             Running(s) /\ (Has(t, s) \/ (task[t].id \in Ids /\ open[task[t].id] = s)) =>
             \/ Has(t, s)'
             \/ task[t].id \in Ids /\ open'[task[t].id] = s
             \/ \E j \in jobs' : j.set = s
    PROVE  Placed'
  <1>. DEFINE id == task[t].id
  <1>. None \notin Sets /\ None \notin Ids
    BY DatabaseManagerAssumption
  <1>1. \A u \in Tasks \ {t} : task'[u] = task[u]
    BY DEF Own
  <1>2. \A i \in Ids \ {id} : open'[i] = open[i]
    BY DEF Own
  <1>3. \A s \in Sets : Running(s)' <=> Running(s)
    BY DEF Running
  <1>4. \A i \in Ids : open[i] \in Sets \cup {None}
    BY DEF Base, Types, Fields
  <1>5. Fresh'
    <2>. SUFFICES ASSUME NEW s \in Sets, phase[s] = "new"
                  PROVE  /\ \A u \in Tasks : task'[u].set # s
                         /\ \A i \in Ids : open'[i] # s
                         /\ \A j \in jobs' : j.set # s
      BY DEF Fresh
    <2>1. task[t].set # s /\ \A i \in Ids : open[i] # s
      BY DEF Placed, Fresh
    <2>2. \A u \in Tasks : task'[u].set # s
      BY <1>1, <2>1 DEF Placed, Fresh
    <2>3. \A i \in Ids : open'[i] # s
      BY <1>2, <2>1
    <2>4. \A j \in jobs' : j.set # s
      BY <2>1 DEF Placed, Fresh
    <2>5. QED BY <2>2, <2>3, <2>4
  <1>6. AtHome'
    <2>1. \A i \in Ids : open'[i] # None => home[open'[i]] = i
      BY <1>2 DEF Placed, AtHome
    <2>2. \A u \in Tasks : task'[u].set # None /\ task'[u].at \in InHand => home[task'[u].set] = task'[u].id
      BY <1>1 DEF Placed, AtHome
    <2>3. QED BY <2>1, <2>2 DEF Placed, AtHome
  <1>7. Kept'
    <2>. SUFFICES ASSUME NEW s \in Sets \ abandoned', Running(s)
                  PROVE  open'[home[s]] = s \/ (\E u \in Tasks : Has(u, s)') \/ \E j \in jobs' : j.set = s
      BY <1>3 DEF Kept
    <2>0. s \notin abandoned
      BY DEF Own
    <2>1. home[s] \in Ids
      BY DEF Placed, AtHome, Running
    <2>2. CASE open[home[s]] = s /\ home[s] # id
      BY <1>2, <2>1, <2>2
    <2>3. CASE open[home[s]] = s /\ home[s] = id
      BY <2>1, <2>3
    <2>4. ASSUME NEW u \in Tasks \ {t}, Has(u, s) PROVE Has(u, s)'
      BY <1>1, <2>4 DEF Has
    <2>5. CASE Has(t, s)
      <3>1. CASE id \in Ids /\ open'[id] = s
        <4>1. home[s] = id
          BY <2>5, <3>1, <1>6 DEF AtHome
        <4>2. QED BY <3>1, <4>1
      <3>2. QED BY <2>5, <3>1
    <2>6. CASE \E j \in jobs : j.set = s
      BY <2>6
    <2>7. QED BY <2>0, <2>2, <2>3, <2>4, <2>5, <2>6 DEF Placed, Kept
  <1>8. QED BY <1>5, <1>6, <1>7 DEF Placed

(* A step of a task that has no set, before or after. *)
LEMMA PlacedAside ==
    ASSUME Base, Placed, NEW t \in Tasks, UNCHANGED <<home, phase, open, jobs>>,
           abandoned \subseteq abandoned',
           \A u \in Tasks \ {t} : task'[u] = task[u],
           \A s \in Sets \ abandoned' : ~Has(t, s),
           task'[t].set = None
    PROVE  Placed'
  <1>. None \notin Sets
    BY DatabaseManagerAssumption
  <1>1. Fresh'
    BY DEF Placed, Fresh
  <1>2. AtHome'
    BY DEF Placed, AtHome
  <1>3. \A u \in Tasks, s \in Sets \ abandoned' : Has(u, s) => Has(u, s)'
    BY DEF Has
  <1>4. Kept'
    BY <1>3 DEF Placed, Kept, Running
  <1>5. QED BY <1>1, <1>2, <1>4 DEF Placed

(* Where a task has no set. *)
LEMMA SetPlaces ==
    ASSUME Types, NEW t \in Tasks
    PROVE  /\ task[t].at \in {"idle", "lookup", "await_lock", "recheck", "resolve", "build", "await_create",
                              "check_paths", "create_file", "seed", "take", "pick", "pending"}
                => task[t].set = None
           /\ task[t].at \in {"await_registry", "saving"} /\ task[t].op # "create" => task[t].set = None
           /\ task[t].at \in {"publish", "cache", "stop", "rest", "unlink"} => task[t].set \in Sets
           /\ task[t].at \in {"await_registry", "saving"} /\ task[t].op = "create" => task[t].set \in Sets
  <1>1. Sound(task[t])
    BY DEF Types, Whereabouts
  <1>2. QED BY <1>1 DEF Sound, IdleTask

(* The set that a build or a seed has just made. *)
LEMMA PlacedBuilt ==
    ASSUME Base, Placed, NEW t \in Tasks, NEW s \in Sets, SetBuilt(t, s), task[t].id \in Ids, task[t].set = None,
           \A u \in Tasks \ {t} : task'[u] = task[u], UNCHANGED <<open, jobs>>,
           task'[t].set = s, task'[t].at \in InHand, task'[t].id = task[t].id
    PROVE  Placed'
  <1>. None \notin Sets /\ None \notin Ids
    BY DatabaseManagerAssumption
  <1>1. /\ phase[s] = "new"
        /\ \A r \in Sets : phase'[r] = IF r = s THEN "live" ELSE phase[r]
        /\ \A r \in Sets : home'[r] = IF r = s THEN task[t].id ELSE home[r]
        /\ abandoned' = abandoned
    BY DEF SetBuilt, Base, Types, Fields
  <1>2. /\ \A u \in Tasks : task[u].set # s
        /\ \A i \in Ids : open[i] # s
        /\ \A j \in jobs : j.set # s
    BY <1>1 DEF Placed, Fresh
  <1>3. Fresh'
    BY <1>1 DEF Placed, Fresh
  <1>4. AtHome'
    <2>1. \A r \in Sets : phase'[r] # "new" => home'[r] \in Ids
      BY <1>1 DEF Placed, AtHome
    <2>2. \A i \in Ids : open'[i] # None => home'[open'[i]] = i
      BY <1>1, <1>2 DEF Placed, AtHome, Base, Types, Fields
    <2>3. \A u \in Tasks : task[u].set \in Sets \cup {None}
      BY Places DEF Base, TaskRecords
    <2>4. \A u \in Tasks : task'[u].set # None /\ task'[u].at \in InHand => home'[task'[u].set] = task'[u].id
      BY <1>1, <1>2, <2>3 DEF Placed, AtHome
    <2>5. QED BY <2>1, <2>2, <2>4 DEF AtHome
  <1>5. Kept'
    <2>. SUFFICES ASSUME NEW r \in Sets \ abandoned', Running(r)'
                  PROVE  open[home'[r]] = r \/ (\E u \in Tasks : Has(u, r)') \/ \E j \in jobs : j.set = r
      BY DEF Kept
    <2>1. CASE r = s
      BY <2>1 DEF Has
    <2>2. CASE r # s
      <3>1. Running(r) /\ home'[r] = home[r]
        BY <1>1, <2>2 DEF Running
      <3>2. \A u \in Tasks : Has(u, r) => Has(u, r)'
        BY DEF Has
      <3>3. QED BY <1>1, <3>1, <3>2 DEF Placed, Kept
    <2>3. QED BY <2>1, <2>2
  <1>6. QED BY <1>3, <1>4, <1>5 DEF Placed

(* open_database keeps every running set open or in hand: the built set goes into the
   table under its mutex. *)
LEMMA OpenPlaced ==
    ASSUME Base, Guarded, Placed, NEW t \in Clients,
           \/ Lookup(t) \/ Lock(t) \/ Recheck(t) \/ Resolve(t) \/ Build(t)
           \/ BuildFails(t) \/ Publish(t) \/ Touch(t)
    PROVE  Placed'
  <1>. Types /\ t \in Tasks
    BY DEF Base, Tasks
  <1>. DEFINE id == task[t].id
  <1>0. /\ Own(t) /\ \A u \in Tasks \ {t} : task'[u] = task[u]
        /\ UNCHANGED jobs /\ abandoned \subseteq abandoned'
    BY OwnSteps DEF Own, Lookup, Lock, Recheck, Resolve, Build, BuildFails, Publish, Touch
  <1>1. task[t] \in TaskRecords /\ task \in [Tasks -> TaskRecords] /\ id \in Ids
    BY Places DEF Lookup, Lock, Recheck, Resolve, Build, BuildFails, Publish, Touch, At
  <1>. None \notin Sets
    BY DatabaseManagerAssumption
  <1>2. ASSUME NEW place, Goto(t, place)
        PROVE  task'[t].at = place /\ task'[t].id = id /\ task'[t].set = task[t].set
    BY <1>1, <1>2 DEF Goto, TaskRecords
  <1>3. CASE Lookup(t) \/ Lock(t) \/ Recheck(t) \/ Resolve(t) \/ BuildFails(t)
    <2>1. task[t].at \in {"lookup", "await_lock", "recheck", "resolve", "build"} /\ UNCHANGED <<home, phase, open>>
      BY <1>3 DEF Lookup, Lock, Recheck, Resolve, BuildFails, At, sets
    <2>2. task[t].set = None
      BY <2>1, SetPlaces
    <2>3. task'[t].set = None
      <3>1. CASE LetGo(t)
        BY <3>1, LetGoOwn DEF IdleTask
      <3>2. CASE Lookup(t)
        <4>1. Goto(t, "touch") \/ \E l \in Locks : task' = [task EXCEPT ![t].at = "await_lock", ![t].lock = l]
          BY <3>2 DEF Lookup
        <4>2. QED BY <1>1, <2>2, <4>1 DEF Goto, TaskRecords
      <3>3. CASE ~LetGo(t) /\ ~Lookup(t)
        BY <1>1, <1>3, <2>2, <3>3 DEF Lock, Recheck, Resolve, BuildFails, Finish, Goto, TaskRecords
      <3>4. QED BY <3>1, <3>2, <3>3
    <2>4. QED BY <1>0, <2>1, <2>2, <2>3, PlacedAside DEF Has
  <1>4. CASE Build(t)
    <2>1. PICK s \in Sets : SetBuilt(t, s) /\ task' = [task EXCEPT ![t].set = s, ![t].at = "publish"]
      BY <1>4 DEF Build
    <2>2. task'[t].set = s /\ task'[t].at = "publish" /\ task'[t].id = id
      BY <1>1, <2>1 DEF TaskRecords
    <2>3. task[t].set = None /\ UNCHANGED <<open, jobs>>
      BY <1>4, SetPlaces DEF Build, At
    <2>4. QED BY <1>0, <1>1, <2>1, <2>2, <2>3, PlacedBuilt DEF InHand
  <1>5. CASE Publish(t)
    <2>1. task[t].at = "publish" /\ task[t].set \in Sets /\ UNCHANGED <<home, phase>>
      BY <1>5, SetPlaces DEF Publish, At, sets
    <2>2. CASE Goto(t, "touch") /\ open[id] = None /\ open' = [open EXCEPT ![id] = task[t].set]
      <3>1. open'[id] = task[t].set
        BY <1>1, <2>2 DEF Types, Fields
      <3>2. task'[t].at = "touch" /\ task'[t].set = task[t].set
        BY <1>2, <2>2
      <3>3. \A s \in Sets : Has(t, s) \/ open[id] = s => open'[id] = s
        BY <2>2, <3>1 DEF Has
      <3>4. QED BY <1>0, <1>1, <2>1, <3>1, <3>2, <3>3, PlacedOwn DEF InHand
    <2>3. CASE Goto(t, "stop") /\ UNCHANGED open
      <3>1. task'[t].at = "stop" /\ task'[t].set = task[t].set
        BY <1>2, <2>3
      <3>2. \A s \in Sets : Has(t, s) => Has(t, s)'
        BY <3>1 DEF Has
      <3>3. QED BY <1>0, <2>1, <2>3, <3>1, <3>2, PlacedOwn DEF InHand
    <2>4. QED BY <1>5, <2>2, <2>3 DEF Publish
  <1>6. CASE Touch(t)
    <2>1. task[t].at = "touch" /\ UNCHANGED <<home, phase, open>> /\ task'[t] = IdleTask
      BY <1>6, LetGoOwn DEF Touch, At, sets, Finish
    <2>2. QED BY <1>0, <2>1, PlacedAside DEF Has, InHand, IdleTask
  <1>7. QED BY <1>3, <1>4, <1>5, <1>6

(* create_database keeps every running set open or in hand, the ones its failing
   paths stop included. *)
LEMMA CreatePlaced ==
    ASSUME Base, Guarded, Placed, NEW t \in Clients,
           \/ CreateStart(t) \/ CheckPaths(t) \/ CreateFile(t) \/ Seed(t)
           \/ CreateFails(t) \/ Cache(t) \/ Unlink(t)
    PROVE  Placed'
  <1>. Types /\ t \in Tasks
    BY DEF Base, Tasks
  <1>. DEFINE id == task[t].id
  <1>0. /\ Own(t) /\ \A u \in Tasks \ {t} : task'[u] = task[u]
        /\ UNCHANGED jobs /\ abandoned \subseteq abandoned'
    BY OwnSteps DEF Own, CreateStart, CheckPaths, CreateFile, Seed, CreateFails, Cache, Unlink
  <1>1. task[t] \in TaskRecords /\ task \in [Tasks -> TaskRecords] /\ id \in Ids
    BY Places DEF CreateStart, CheckPaths, CreateFile, Seed, CreateFails, Cache, Unlink, At
  <1>. None \notin Sets
    BY DatabaseManagerAssumption
  <1>2. ASSUME NEW place, Goto(t, place)
        PROVE  task'[t].at = place /\ task'[t].id = id /\ task'[t].set = task[t].set
    BY <1>1, <1>2 DEF Goto, TaskRecords
  <1>3. CASE CreateStart(t) \/ CheckPaths(t) \/ CreateFile(t) \/ CreateFails(t)
    <2>1. task[t].at \in {"await_create", "check_paths", "create_file", "seed"} /\ UNCHANGED <<home, phase, open>>
      BY <1>3 DEF CreateStart, CheckPaths, CreateFile, CreateFails, At, sets
    <2>2. task[t].set = None
      BY <2>1, SetPlaces
    <2>3. task'[t].set = None
      <3>1. CASE LetGo(t)
        BY <3>1, LetGoOwn DEF IdleTask
      <3>2. CASE ~LetGo(t)
        BY <1>2, <1>3, <2>2, <3>2 DEF CreateStart, CheckPaths, CreateFile, CreateFails, Finish
      <3>3. QED BY <3>1, <3>2
    <2>4. QED BY <1>0, <2>1, <2>2, <2>3, PlacedAside DEF Has
  <1>4. CASE Seed(t)
    <2>1. PICK s \in Sets, l \in Locks :
             SetBuilt(t, s) /\ task' = [task EXCEPT ![t].set = s, ![t].lock = l, ![t].at = "await_registry"]
      BY <1>4 DEF Seed
    <2>2. task'[t].set = s /\ task'[t].at = "await_registry" /\ task'[t].id = id
      BY <1>1, <2>1 DEF TaskRecords
    <2>3. task[t].set = None /\ UNCHANGED <<open, jobs>>
      BY <1>4, SetPlaces DEF Seed, At
    <2>4. QED BY <1>0, <1>1, <2>1, <2>2, <2>3, PlacedBuilt DEF InHand
  <1>5. CASE Cache(t)
    <2>1. task[t].at = "cache" /\ task[t].set \in Sets /\ UNCHANGED <<home, phase>>
      BY <1>5, SetPlaces DEF Cache, At, sets
    <2>2. Goto(t, "touch") /\ open[id] = None
      BY <1>5, <2>1 DEF Cache, Guarded, Secured
    <2>3. open'[id] = task[t].set
      BY <1>1, <1>5 DEF Cache, Types, Fields
    <2>4. task'[t].at = "touch" /\ task'[t].set = task[t].set
      BY <1>2, <2>2
    <2>5. \A s \in Sets : Has(t, s) \/ open[id] = s => open'[id] = s
      BY <2>2, <2>3 DEF Has
    <2>6. QED BY <1>0, <1>1, <2>1, <2>3, <2>4, <2>5, PlacedOwn DEF InHand
  <1>6. CASE Unlink(t)
    <2>1. task[t].at = "unlink" /\ UNCHANGED <<home, phase, open>> /\ task'[t] = IdleTask
      BY <1>6, LetGoOwn DEF Unlink, At, sets
    <2>2. QED BY <1>0, <2>1, PlacedAside DEF Has, InHand, IdleTask
  <1>7. QED BY <1>3, <1>4, <1>5, <1>6

(* A save moves no set. *)
LEMMA RegistryPlaced ==
    ASSUME Base, Placed, NEW t \in Clients, AwaitRegistry(t) \/ Saved(t) \/ SaveFails(t)
    PROVE  Placed'
  <1>. Types /\ t \in Tasks
    BY DEF Base, Tasks
  <1>0. /\ Own(t) /\ \A u \in Tasks \ {t} : task'[u] = task[u]
        /\ UNCHANGED <<jobs, home, phase, open>> /\ abandoned \subseteq abandoned'
    BY OwnSteps DEF Own, AwaitRegistry, Saved, SaveFails, sets
  <1>1. /\ task[t] \in TaskRecords /\ task \in [Tasks -> TaskRecords]
        /\ task[t].at \in {"await_registry", "saving"}
    BY Places DEF AwaitRegistry, Saved, SaveFails, At
  <1>. None \notin Sets
    BY DatabaseManagerAssumption
  <1>2. ASSUME NEW place, Goto(t, place)
        PROVE  task'[t].at = place /\ task'[t].id = task[t].id /\ task'[t].set = task[t].set
    BY <1>1, <1>2 DEF Goto, TaskRecords
  <1>3. CASE task[t].op = "create"
    <2>1. \E place \in {"saving", "cache", "stop"} : Goto(t, place)
      BY <1>3 DEF AwaitRegistry, Saved, SaveFails, Rejected
    <2>2. task'[t].at \in {"saving", "cache", "stop"} /\ task'[t].id = task[t].id /\ task'[t].set = task[t].set
      BY <1>2, <2>1
    <2>3. \A s \in Sets : Has(t, s) => Has(t, s)'
      BY <2>2 DEF Has, InHand
    <2>4. QED BY <1>0, <1>1, <2>2, <2>3, PlacedOwn DEF InHand
  <1>4. CASE task[t].op # "create"
    <2>1. task[t].set = None
      BY <1>1, <1>4, SetPlaces
    <2>2. task'[t].set = None
      <3>1. CASE LetGo(t)
        BY <3>1, LetGoOwn DEF IdleTask
      <3>2. CASE ~LetGo(t)
        BY <1>2, <2>1, <3>2 DEF AwaitRegistry, Saved, SaveFails, Finish
      <3>3. QED BY <3>1, <3>2
    <2>3. QED BY <1>0, <2>1, <2>2, PlacedAside DEF Has
  <1>5. QED BY <1>3, <1>4

(* A phase that changes and stays among the running and the stopped. *)
LEMMA PlacedPhase ==
    ASSUME Base, Placed, NEW s \in Sets, phase[s] # "new",
           \E to \in {"stopping", "stopped"} : phase' = [phase EXCEPT ![s] = to],
           phase'[s] = "stopping" => phase[s] # "stopped" \/ \E u \in Tasks : Has(u, s)',
           UNCHANGED <<home, jobs>>, abandoned \subseteq abandoned',
           \A i \in Ids : open'[i] = open[i],
           \A u \in Tasks : /\ task'[u].set \in {None, task[u].set}
                            /\ task'[u].at \in InHand => task'[u] = task[u]
                            /\ \A r \in Sets : Has(u, r) => Has(u, r)' \/ (r = s /\ phase'[s] = "stopped")
    PROVE  Placed'
  <1>. None \notin Sets /\ None \notin Ids
    BY DatabaseManagerAssumption
  <1>1. /\ \A r \in Sets \ {s} : phase'[r] = phase[r]
        /\ phase'[s] \in {"stopping", "stopped"}
    BY DEF Base, Types, Fields
  <1>2. Fresh'
    BY <1>1 DEF Placed, Fresh
  <1>3. AtHome'
    BY <1>1 DEF Placed, AtHome
  <1>4. Kept'
    <2>. SUFFICES ASSUME NEW r \in Sets \ abandoned', Running(r)'
                  PROVE  open'[home[r]] = r \/ (\E u \in Tasks : Has(u, r)') \/ \E j \in jobs : j.set = r
      BY DEF Kept
    <2>1. home[r] \in Ids
      BY <1>1 DEF Placed, AtHome, Running
    <2>2. CASE ~Running(r)
      <3>1. r = s /\ phase'[s] = "stopping" /\ phase[s] = "stopped"
        BY <1>1, <2>2 DEF Running, Base, Types, Fields
      <3>2. QED BY <3>1
    <2>3. CASE Running(r)
      BY <2>1, <2>3, <1>1 DEF Placed, Kept, Running
    <2>4. QED BY <2>2, <2>3
  <1>5. QED BY <1>2, <1>3, <1>4 DEF Placed

(* close_database takes a set out of the table and stops it before it lets it go. *)
LEMMA ClosePlaced ==
    ASSUME Base, Placed, NEW t \in Tasks, Take(t) \/ Forget(t) \/ Stop(t) \/ Rest(t)
    PROVE  Placed'
  <1>. Types
    BY DEF Base
  <1>. DEFINE id == task[t].id
  <1>0. /\ Own(t) /\ \A u \in Tasks \ {t} : task'[u] = task[u]
        /\ UNCHANGED jobs /\ abandoned \subseteq abandoned'
    BY OwnSteps DEF Own, Take, Forget, Stop, Rest
  <1>1. task[t] \in TaskRecords /\ task \in [Tasks -> TaskRecords] /\ id \in Ids
    BY Places DEF Take, Forget, Stop, Rest, At
  <1>. None \notin Sets
    BY DatabaseManagerAssumption
  <1>2. ASSUME NEW place, Goto(t, place)
        PROVE  task'[t].at = place /\ task'[t].id = id /\ task'[t].set = task[t].set
    BY <1>1, <1>2 DEF Goto, TaskRecords
  <1>3. ASSUME AfterClose(t)
        PROVE  task'[t].set \in {None, task[t].set} /\ task'[t].at \in {"idle", "pick", "unlink", "touch"}
    <2>1. CASE LetGo(t)
      BY <2>1, LetGoOwn DEF IdleTask
    <2>2. CASE task[t].op = "evict"
      BY <1>1, <1>3, <2>2 DEF AfterClose, IdleTask
    <2>3. CASE ~LetGo(t) /\ task[t].op # "evict"
      BY <1>2, <1>3, <2>3 DEF AfterClose
    <2>4. QED BY <2>1, <2>2, <2>3
  <1>4. CASE Take(t)
    <2>1. task[t].at = "take" /\ task[t].set = None /\ UNCHANGED <<home, phase>>
      BY <1>4, SetPlaces DEF Take, At, sets
    <2>2. task'[t].set = open[id] /\ task'[t].at = "forget" /\ open'[id] = None
      BY <1>1, <1>4 DEF Take, TaskRecords, Types, Fields
    <2>3. \A s \in Sets : Has(t, s) \/ open[id] = s => Has(t, s)'
      BY <2>1, <2>2 DEF Has
    <2>4. QED BY <1>0, <1>1, <2>1, <2>2, <2>3, PlacedOwn DEF InHand
  <1>5. CASE Forget(t)
    <2>1. task[t].at = "forget" /\ UNCHANGED <<home, phase, open>>
      BY <1>5 DEF Forget, At, sets
    <2>2. CASE task[t].set = None
      <3>1. task'[t].set = None
        BY <1>3, <1>5, <2>2 DEF Forget
      <3>2. QED BY <1>0, <2>1, <2>2, <3>1, PlacedAside DEF Has
    <2>3. CASE task[t].set # None
      <3>1. task'[t].at = "stop" /\ task'[t].set = task[t].set
        BY <1>2, <1>5, <2>3 DEF Forget
      <3>2. \A s \in Sets : Has(t, s) => Has(t, s)'
        BY <3>1 DEF Has
      <3>3. QED BY <1>0, <2>1, <3>1, <3>2, PlacedOwn DEF InHand
    <2>4. QED BY <2>2, <2>3
  <1>6. CASE Stop(t) \/ Rest(t)
    <2>. DEFINE s == task[t].set
    <2>1. task[t].at \in {"stop", "rest"} /\ s \in Sets /\ UNCHANGED <<home, open>>
      BY <1>6, SetPlaces DEF Stop, Rest, At, Stopping, Stopped
    <2>2. phase[s] # "new"
      BY <2>1 DEF Placed, Fresh
    <2>3. CASE Stop(t)
      <3>1. phase' = [phase EXCEPT ![s] = "stopping"]
        BY <2>3 DEF Stop, Stopping
      <3>2. task'[t].at = "rest" /\ task'[t].set = s
        BY <1>2, <2>3 DEF Stop
      <3>3. Has(t, s) /\ \A r \in Sets : Has(t, r) => Has(t, r)'
        BY <2>3, <3>2 DEF Has, Stop, At
      <3>. HIDE DEF s
      <3>4. \A u \in Tasks : /\ task'[u].set \in {None, task[u].set}
                             /\ task'[u].at \in InHand => task'[u] = task[u]
                             /\ \A r \in Sets : Has(u, r) => Has(u, r)'
        BY <1>0, <3>2, <3>3 DEF Has, InHand, s
      <3>5. QED BY <1>0, <2>1, <2>2, <3>1, <3>3, <3>4, PlacedPhase
    <2>4. CASE Rest(t)
      <3>1. phase' = [phase EXCEPT ![s] = "stopped"]
        BY <2>4 DEF Rest, Stopped
      <3>2. phase'[s] = "stopped"
        BY <2>1, <3>1 DEF Types, Fields
      <3>3. task'[t].set \in {None, task[t].set} /\ task'[t].at \in {"idle", "pick", "unlink", "touch"}
        BY <1>3, <2>4 DEF Rest
      <3>4. \A u \in Tasks : /\ task'[u].set \in {None, task[u].set}
                             /\ task'[u].at \in InHand => task'[u] = task[u]
                             /\ \A r \in Sets : Has(u, r) => Has(u, r)' \/ r = s
        BY <1>0, <3>3 DEF Has, InHand
      <3>. HIDE DEF s
      <3>5. QED BY <1>0, <2>1, <2>2, <3>1, <3>2, <3>4, PlacedPhase
    <2>5. QED BY <1>6, <2>3, <2>4
  <1>7. QED BY <1>4, <1>5, <1>6

(* A dropped create hands its set to its rollback, a dropped edit has none, and
   the set of a dropped open or remove is abandoned. *)
LEMMA CancelPlaced ==
    ASSUME Base, Placed, NEW t \in Clients, Cancel(t)
    PROVE  Placed'
  <1>. Types /\ t \in Tasks
    BY DEF Base, Tasks
  <1>. None \notin Sets
    BY DatabaseManagerAssumption
  <1>0. /\ Own(t) /\ \A u \in Tasks \ {t} : task'[u] = task[u]
        /\ UNCHANGED <<home, phase, open>> /\ task'[t] = IdleTask /\ task'[t].set = None /\ task'[t].at = "idle"
        /\ abandoned \subseteq abandoned'
    BY OwnSteps, LetGoOwn DEF Own, Cancel, sets, IdleTask
  <1>1. CASE task[t].op # "create"
    <2>1. UNCHANGED jobs /\ abandoned' = abandoned \cup SetLeft(t)
      BY <1>1 DEF Cancel
    <2>2. ASSUME NEW s \in Sets, Has(t, s) PROVE s \in SetLeft(t)
      <3>1. task[t].set = s /\ task[t].at \in {"publish", "await_registry", "saving", "cache", "forget", "stop", "rest"}
        BY <2>2 DEF Has, InHand
      <3>2. task[t].at \notin {"await_registry", "saving", "cache"}
        BY <1>1, <3>1, SetPlaces, Places
      <3>3. QED BY <1>1, <3>1, <3>2 DEF SetLeft
    <2>3. QED BY <1>0, <2>1, <2>2, PlacedAside
  <1>2. CASE task[t].op = "create" /\ \A s \in Sets : ~Has(t, s)
    <2>1. CASE UNCHANGED jobs
      BY <1>0, <1>2, <2>1, PlacedAside
    <2>2. CASE ~UNCHANGED jobs
      <3>1. task[t].at \in {"await_registry", "saving", "stop", "rest", "cache"} /\ task[t].op = "create"
        BY <2>2 DEF Cancel, UndoCreate
      <3>2. Has(t, task[t].set) /\ task[t].set \in Sets
        BY <3>1, SetPlaces DEF Has, InHand
      <3>3. QED BY <1>2, <3>2
    <2>3. QED BY <2>1, <2>2
  <1>3. CASE task[t].op = "create" /\ \E s \in Sets : Has(t, s)
    <2>1. task[t].set \in Sets /\ task[t].at \in {"publish", "await_registry", "saving", "cache", "forget", "stop", "rest"}
      BY <1>3 DEF Has, InHand
    <2>2. task[t].at \in {"await_registry", "saving", "cache", "stop", "rest"}
      BY <1>3, <2>1, Places
    <2>3. PICK mine : jobs' = jobs \cup {mine} /\ mine.set = task[t].set
      <3>1. PICK b \in BOOLEAN :
              jobs' = jobs \cup {[set |-> task[t].set, path |-> task[t].path, unlink |-> b]}
        BY <1>3, <2>2 DEF Cancel, UndoCreate
      <3>. DEFINE j == [set |-> task[t].set, path |-> task[t].path, unlink |-> b]
      <3>2. jobs' = jobs \cup {j} /\ j.set = task[t].set
        BY <3>1
      <3>. HIDE DEF j
      <3>3. QED BY <3>2
    <2>4. /\ jobs \subseteq jobs'
          /\ \A j \in jobs' : j \in jobs \/ j.set = task[t].set
          /\ \E j \in jobs' : j.set = task[t].set
      BY <2>3
    <2>5. \A s \in Sets : Has(t, s) => \E j \in jobs' : j.set = s
      BY <2>4 DEF Has
    <2>6. QED BY <1>0, <2>4, <2>5, PlacedOwn DEF InHand
  <1>4. QED BY <1>1, <1>2, <1>3

(* A close that goes on in a task of its own stops the set it took. *)
LEMMA JobPlaced ==
    ASSUME Base, Placed, NEW j \in jobs, JobStop(j) \/ JobEnds(j)
    PROVE  Placed'
  <1>1. j.set \in Sets /\ phase[j.set] # "new"
    BY DEF Base, Types, Fields, Placed, Fresh
  <1>2. CASE JobStop(j)
    <2>1. /\ \E to \in {"stopping", "stopped"} : phase' = [phase EXCEPT ![j.set] = to]
          /\ phase[j.set] # "stopped" /\ UNCHANGED <<home, jobs, open, task, abandoned>>
      BY <1>2 DEF JobStop, Stopping, Stopped
    <2>2. \A u \in Tasks, r \in Sets : Has(u, r) => Has(u, r)'
      BY <2>1 DEF Has
    <2>3. QED BY <1>1, <2>1, <2>2, PlacedPhase
  <1>3. CASE JobEnds(j)
    <2>1. phase[j.set] = "stopped" /\ jobs' = jobs \ {j} /\ UNCHANGED <<home, phase, open, task, abandoned>>
      BY <1>3 DEF JobEnds, sets
    <2>2. Fresh' /\ AtHome'
      BY <2>1 DEF Placed, Fresh, AtHome
    <2>3. Kept'
      <3>. SUFFICES ASSUME NEW s \in Sets \ abandoned, Running(s)
                    PROVE  open[home[s]] = s \/ (\E u \in Tasks : Has(u, s)) \/ \E i \in jobs' : i.set = s
        BY <2>1 DEF Kept, Running, Has
      <3>1. s # j.set
        BY <2>1 DEF Running
      <3>2. QED BY <2>1, <3>1 DEF Placed, Kept
    <2>4. QED BY <2>2, <2>3 DEF Placed
  <1>4. QED BY <1>2, <1>3

(* shutdown stops the sets of the table. *)
LEMMA ShutdownPlaced ==
    ASSUME Base, Placed, (\E s \in Sets : ShutdownSet(s)) \/ ShutdownEnds
    PROVE  Placed'
  <1>. None \notin Sets
    BY DatabaseManagerAssumption
  <1>1. ASSUME NEW s \in Sets, ShutdownSet(s) PROVE Placed'
    <2>1. s \in OpenSets
      BY <1>1 DEF ShutdownSet
    <2>2. phase[s] # "new"
      BY <2>1 DEF OpenSets, Placed, Fresh
    <2>3. /\ \E to \in {"stopping", "stopped"} : phase' = [phase EXCEPT ![s] = to]
          /\ phase[s] # "stopped" /\ UNCHANGED <<home, jobs, open, task, abandoned>>
      BY <1>1 DEF ShutdownSet, Stopping, Stopped
    <2>4. \A u \in Tasks, r \in Sets : Has(u, r) => Has(u, r)'
      BY <2>3 DEF Has
    <2>5. QED BY <2>2, <2>3, <2>4, PlacedPhase
  <1>2. CASE ShutdownEnds
    <2>1. /\ \A s \in OpenSets : phase[s] = "stopped"
          /\ open' = [i \in Ids |-> None]
          /\ UNCHANGED <<home, phase, jobs, task, abandoned>>
      BY <1>2 DEF ShutdownEnds, sets
    <2>2. Fresh' /\ AtHome'
      BY <2>1 DEF Placed, Fresh, AtHome
    <2>3. Kept'
      <3>. SUFFICES ASSUME NEW s \in Sets \ abandoned, Running(s)
                    PROVE  (\E u \in Tasks : Has(u, s)) \/ \E i \in jobs : i.set = s
        BY <2>1 DEF Kept, Running, Has
      <3>1. home[s] \in Ids
        BY DEF Placed, AtHome, Running
      <3>2. open[home[s]] # s
        BY <2>1, <3>1 DEF OpenSets, Running
      <3>3. QED BY <3>2 DEF Placed, Kept
    <2>4. QED BY <2>2, <2>3 DEF Placed
  <1>3. QED BY <1>1, <1>2

(* Every step keeps each running set in the table or in the hand of the task that
   builds or stops it, but for those a dropped open or remove had in hand. *)
LEMMA PlacedStep ==
    ASSUME Base, Guarded, Placed, [Next]_vars
    PROVE  Placed'
  <1>. Types /\ Clients \subseteq Tasks
    BY DEF Base, Tasks
  <1>1. ASSUME NEW t \in Clients, NEW id \in Ids, NEW p \in Paths \cup {None},
               \/ Request(t, id) \/ RemoveCall(t, id) \/ (\E op \in {"set_default", "rename"} : EditCall(t, op, id))
               \/ p \in Paths /\ CreateCall(t, id, p)
               \/ p \in Paths /\ RegisterCall(t, id, p)
        PROVE  Placed'
    <2>1. /\ task[t] = IdleTask /\ task'[t].set = None
          /\ \A u \in Tasks \ {t} : task'[u] = task[u]
          /\ UNCHANGED <<home, phase, open, jobs, abandoned>>
      BY <1>1, NamesRegistered, NamesNew DEF sets
    <2>2. QED BY <2>1, PlacedAside DEF Has, InHand, IdleTask
  <1>2. CASE Collect(Reaper) \/ Pick(Reaper) \/ Pending(Reaper) \/ SweepDone(Reaper)
    <2>1. Reaper \in Tasks /\ task \in [Tasks -> TaskRecords] /\ task[Reaper] \in TaskRecords
      BY Places DEF Tasks
    <2>2. /\ \A u \in Tasks \ {Reaper} : task'[u] = task[u]
          /\ UNCHANGED <<home, phase, open, jobs, abandoned>>
      BY <1>2, <2>1 DEF Collect, Pick, Pending, SweepDone, Goto, sets
    <2>3. task[Reaper].at \in {"idle", "pick", "pending"}
      BY <1>2 DEF Collect, Pick, Pending, SweepDone, At
    <2>4. task[Reaper].set = None
      BY <2>1, <2>3, SetPlaces
    <2>5. task'[Reaper].set = None
      <3>1. CASE Collect(Reaper) \/ Pending(Reaper) \/ SweepDone(Reaper)
        BY <2>1, <2>4, <3>1 DEF Collect, Pending, SweepDone, Goto, IdleTask, TaskRecords
      <3>2. CASE Pick(Reaper)
        <4>1. PICK v \in victims :
                task' = task \/ task' = [task EXCEPT ![Reaper].id = v[1], ![Reaper].at = "pending"]
          BY <3>2 DEF Pick
        <4>2. QED BY <2>1, <2>4, <4>1 DEF TaskRecords
      <3>3. QED BY <1>2, <3>1, <3>2
    <2>6. QED BY <2>1, <2>2, <2>3, <2>4, <2>5, PlacedAside DEF Has, InHand
  <1>3. CASE UNCHANGED <<home, phase, open, jobs, abandoned, task>>
    BY <1>3 DEF Placed, Fresh, AtHome, Kept, Has, Running
  <1>4. ASSUME \/ \E s \in Sets : StartTurn(s) \/ EndTurn(s)
               \/ \E id \in Ids : Age(id)
               \/ StopServing \/ ShutdownAll
               \/ UNCHANGED vars
        PROVE  UNCHANGED <<home, phase, open, jobs, abandoned, task>>
    BY <1>4 DEF StartTurn, EndTurn, Age, StopServing, ShutdownAll, vars, sets
  <1>5. CASE Next
    BY <1>1, <1>2, <1>3, <1>4, <1>5, Steps, OpenPlaced, CreatePlaced, RegistryPlaced,
                 ClosePlaced, CancelPlaced, JobPlaced, ShutdownPlaced
  <1>6. QED BY <1>3, <1>4, <1>5

(* The daemon starts with no set running. *)
LEMMA PlacedInit == Init => Placed
  <1>. SUFFICES ASSUME Init PROVE Placed
    OBVIOUS
  <1>1. None \notin Sets
    BY DatabaseManagerAssumption
  <1>2. \A t \in Tasks : task[t].set = None
    BY DEF Init, IdleTask
  <1>3. QED BY <1>1, <1>2 DEF Init, Placed, Fresh, AtHome, Kept, Running

(* A live set that nobody is closing is the open one of its database, or in the
   hand of the one task that is about to make it so. *)
LEMMA PlacedOneSet == Base /\ Guarded /\ Placed => OneServiceSet
  <1>. SUFFICES ASSUME Base, Guarded, Placed, NEW s \in Sets \ abandoned, NEW u \in Sets \ abandoned, home[s] = home[u],
                       phase[s] = "live", ~Retiring(s), phase[u] = "live", ~Retiring(u)
                PROVE  s = u
    BY DEF OneServiceSet
  <1>. DEFINE id == home[s]
  <1>. None \notin Sets /\ None \notin Ids
    BY DatabaseManagerAssumption
  <1>1. id \in Ids
    BY DEF Placed, AtHome
  <1>2. ASSUME NEW r \in Sets \ abandoned, home[r] = id, phase[r] = "live", ~Retiring(r), open[id] # r
        PROVE  \E t \in Tasks : task[t].set = r /\ task[t].at \in InHand /\ task[t].id = id
    <2>1. PICK t \in Tasks : Has(t, r)
      BY <1>2 DEF Placed, Kept, Running, Retiring
    <2>2. task[t].set = r /\ task[t].at \in InHand
      BY <1>2, <2>1 DEF Has, Retiring
    <2>3. QED BY <1>2, <2>2 DEF Placed, AtHome
  <1>3. ASSUME NEW t \in Tasks, task[t].set # None, task[t].at \in InHand, task[t].id = id
        PROVE  /\ open[id] = None
               /\ \A v \in Tasks : task[v].set # None /\ task[v].at \in InHand /\ task[v].id = id => v = t
    <2>1. ASSUME NEW v \in Tasks, task[v].set # None, task[v].at \in InHand, task[v].id = id
          PROVE  Unregistered(v) \/ (/\ task[v].at \in {"publish", "cache"}
                                     /\ id \in Registered /\ open[id] = None
                                     /\ task[v].lock # None /\ task[v].at # "await_lock")
      <3>1. CASE task[v].at \in {"await_registry", "saving"}
        BY <2>1, <3>1, SetPlaces DEF Base, Unregistered
      <3>2. CASE task[v].at \in {"publish", "cache"}
        <4>1. task[v].at = "cache" => task[v].op = "create"
          BY Places DEF Base
        <4>2. QED BY <2>1, <3>2, <4>1, HasMutex DEF Guarded, Secured
      <3>3. QED BY <2>1, <3>1, <3>2 DEF InHand
    <2>2. CASE Unregistered(t)
      BY <1>3, <2>2 DEF Base, Private
    <2>3. CASE ~Unregistered(t)
      <3>1. id \in Registered /\ open[id] = None /\ task[t].lock # None /\ task[t].at # "await_lock"
        BY <1>3, <2>1, <2>3
      <3>2. ASSUME NEW v \in Tasks, task[v].set # None, task[v].at \in InHand, task[v].id = id PROVE v = t
        <4>1. ~Unregistered(v)
          BY <3>1, <3>2 DEF Base, Private
        <4>2. task[v].lock # None /\ task[v].at # "await_lock"
          BY <2>1, <3>2, <4>1
        <4>3. QED BY <1>3, <3>1, <3>2, <4>2, OneInside DEF Guarded
      <3>3. QED BY <3>1, <3>2
    <2>4. QED BY <2>2, <2>3
  <1>4. CASE open[id] = s
    <2>1. open[id] = u
      BY <1>2, <1>3, <1>4
    <2>2. QED BY <1>4, <2>1
  <1>5. CASE open[id] # s
    <2>1. PICK t \in Tasks : task[t].set = s /\ task[t].at \in InHand /\ task[t].id = id
      BY <1>2, <1>5
    <2>2. open[id] # u
      BY <1>3, <2>1
    <2>3. PICK v \in Tasks : task[v].set = u /\ task[v].at \in InHand /\ task[v].id = id
      BY <1>2, <2>2
    <2>4. v = t
      BY <1>3, <2>1, <2>3
    <2>5. QED BY <2>1, <2>3, <2>4
  <1>6. QED BY <1>4, <1>5

(* A set that is in the table or in hand is no orphan. *)
LEMMA PlacedReachable == Placed => OnlyDropsOrphan
  BY DEF Placed, Kept, Running, Has, OnlyDropsOrphan, Reachable

-----------------------------------------------------------------------------
(* Removals *)

(* Only a step that opens, closes, registers or removes a database, or drops the
   removal, can disturb RemovedIsClosed. *)
LEMMA RemovedKeeps ==
    ASSUME RemovedIsClosed, NEW t \in Tasks, \A u \in Tasks \ {t} : task'[u] = task[u],
           task[t].at # "take" \/ task[t].op # "remove", UNCHANGED path,
           abandoned \subseteq abandoned',
           \A i \in Ids : open'[i] \in {open[i], None} \/ i \in Registered
    PROVE  RemovedIsClosed'
  <1>. SUFFICES ASSUME NEW i \in Ids, i \notin Registered', open'[i] # None, open'[i] \notin abandoned'
                PROVE  \E u \in Tasks : task'[u].op = "remove" /\ task'[u].id = i /\ task'[u].at = "take"
    BY DEF RemovedIsClosed
  <1>1. i \notin Registered /\ open[i] # None /\ open[i] \notin abandoned
    BY DEF Registered
  <1>2. PICK u \in Tasks : task[u].op = "remove" /\ task[u].id = i /\ task[u].at = "take"
    BY <1>1 DEF RemovedIsClosed
  <1>3. QED BY <1>2

(* Every step keeps a removed database closed: a set of it is published only after its entry was read again
   under its mutex. *)
LEMMA RemovedStep ==
    ASSUME Base, Guarded, RemovedIsClosed, [Next]_vars
    PROVE  RemovedIsClosed'
  <1>. Types /\ Clients \subseteq Tasks
    BY DEF Base, Tasks
  <1>. None \notin Ids /\ None \notin Paths /\ None \notin Operations
    BY DatabaseManagerAssumption
  <1>1. ASSUME NEW t \in Clients, NEW id \in Ids, NEW p \in Paths \cup {None},
               \/ Request(t, id) \/ RemoveCall(t, id) \/ (\E op \in {"set_default", "rename"} : EditCall(t, op, id))
               \/ p \in Paths /\ CreateCall(t, id, p)
               \/ p \in Paths /\ RegisterCall(t, id, p)
        PROVE  RemovedIsClosed'
    <2>1. /\ task[t] = IdleTask /\ \A u \in Tasks \ {t} : task'[u] = task[u]
          /\ UNCHANGED <<path, open, abandoned>>
      BY <1>1, NamesRegistered, NamesNew DEF sets
    <2>2. QED BY <2>1, RemovedKeeps DEF IdleTask
  <1>2. ASSUME NEW t \in Clients,
               \/ Lookup(t) \/ Lock(t) \/ Recheck(t) \/ Resolve(t) \/ Build(t) \/ BuildFails(t) \/ Touch(t)
               \/ CreateStart(t) \/ CheckPaths(t) \/ CreateFile(t) \/ Seed(t) \/ CreateFails(t) \/ Unlink(t)
               \/ AwaitRegistry(t) \/ SaveFails(t)
        PROVE  RemovedIsClosed'
    <2>1. /\ task[t].at # "take" /\ UNCHANGED <<path, open>>
      BY <1>2 DEF Lookup, Lock, Recheck, Resolve, Build, BuildFails, Touch, CreateStart, CheckPaths, CreateFile,
                  Seed, CreateFails, Unlink, AwaitRegistry, SaveFails, At, registry
    <2>2. abandoned \subseteq abandoned' /\ \A u \in Tasks \ {t} : task'[u] = task[u]
      BY <1>2, OwnSteps DEF Own
    <2>3. QED BY <2>1, <2>2, RemovedKeeps
  <1>3. ASSUME NEW t \in Clients, Publish(t) \/ Cache(t) PROVE RemovedIsClosed'
    <2>1. /\ task[t].at \in {"publish", "cache"} /\ UNCHANGED path
          /\ task[t].at = "cache" => task[t].op = "create"
      BY <1>3, Places DEF Publish, Cache, At, registry
    <2>2. task[t].id \in Registered
      BY <2>1 DEF Guarded, Secured
    <2>3. Own(t)
      BY <1>3, OwnSteps
    <2>4. \A i \in Ids : open'[i] = open[i] \/ i \in Registered
      BY <2>2, <2>3 DEF Own
    <2>5. abandoned \subseteq abandoned' /\ \A u \in Tasks \ {t} : task'[u] = task[u]
      BY <2>3 DEF Own
    <2>6. QED BY <2>1, <2>4, <2>5, RemovedKeeps
  <1>4. ASSUME NEW t \in Clients, Saved(t) PROVE RemovedIsClosed'
    <2>. DEFINE id == task[t].id
    <2>1. /\ task[t] \in TaskRecords /\ task \in [Tasks -> TaskRecords]
          /\ id \in Ids /\ task[t].at = "saving" /\ UNCHANGED open
          /\ task[t].op \in {"create", "register", "remove", "set_default", "rename"}
      BY <1>4, Places DEF Saved, At
    <2>2. Own(t) /\ abandoned \subseteq abandoned' /\ \A u \in Tasks \ {t} : task'[u] = task[u]
      BY <1>4, OwnSteps DEF Own
    <2>3. CASE task[t].op = "remove"
      <3>1. Goto(t, "take")
        BY <1>4, <2>3 DEF Saved
      <3>2. task'[t].op = "remove" /\ task'[t].id = id /\ task'[t].at = "take"
        BY <2>1, <2>3, <3>1 DEF Goto, TaskRecords
      <3>. SUFFICES ASSUME NEW i \in Ids, i \notin Registered', open'[i] # None, open'[i] \notin abandoned'
                    PROVE  \E u \in Tasks : task'[u].op = "remove" /\ task'[u].id = i /\ task'[u].at = "take"
        BY DEF RemovedIsClosed
      <3>3. CASE i = id
        BY <3>2, <3>3
      <3>4. CASE i # id
        <4>1. i \notin Registered /\ open[i] # None /\ open[i] \notin abandoned
          BY <2>1, <2>2, <3>4 DEF Own, Registered
        <4>2. PICK u \in Tasks : task[u].op = "remove" /\ task[u].id = i /\ task[u].at = "take"
          BY <4>1 DEF RemovedIsClosed
        <4>3. QED BY <2>1, <2>2, <4>2
      <3>5. QED BY <3>3, <3>4
    <2>4. CASE task[t].op # "remove"
      <3>1. \A i \in Ids : i \notin Registered' => i \notin Registered
        <4>1. CASE task[t].op \in {"create", "register"}
          <5>1. path' = [path EXCEPT ![id] = task[t].path]
            BY <1>4, <4>1 DEF Saved, Candidate
          <5>2. Sound(task[t])
            BY DEF Types, Whereabouts
          <5>3. task[t].path # None
            BY <4>1, <5>2, DatabaseManagerAssumption DEF Sound
          <5>4. QED BY <5>1, <5>3 DEF Registered, Types, Fields
        <4>2. CASE task[t].op \in {"set_default", "rename"}
          <5>1. path' = path
            BY <1>4, <4>2 DEF Saved, Candidate
          <5>2. QED BY <5>1 DEF Registered
        <4>3. QED BY <2>1, <2>4, <4>1, <4>2
      <3>2. QED BY <2>1, <2>2, <3>1 DEF RemovedIsClosed
    <2>5. QED BY <2>3, <2>4
  <1>5. ASSUME NEW t \in Tasks, Take(t) PROVE RemovedIsClosed'
    <2>1. Own(t) /\ UNCHANGED path /\ task[t].id \in Ids
      BY <1>5, OwnSteps, Places DEF Take, registry, At
    <2>2. open'[task[t].id] = None
      BY <1>5, <2>1 DEF Take, Types, Fields
    <2>. SUFFICES ASSUME NEW i \in Ids, i \notin Registered', open'[i] # None, open'[i] \notin abandoned'
                  PROVE  \E u \in Tasks : task'[u].op = "remove" /\ task'[u].id = i /\ task'[u].at = "take"
      BY DEF RemovedIsClosed
    <2>3. i # task[t].id /\ i \notin Registered /\ open[i] # None /\ open[i] \notin abandoned
      BY <2>1, <2>2 DEF Own, Registered
    <2>4. PICK u \in Tasks : task[u].op = "remove" /\ task[u].id = i /\ task[u].at = "take"
      BY <2>3 DEF RemovedIsClosed
    <2>5. QED BY <2>1, <2>3, <2>4 DEF Own
  <1>6. ASSUME NEW t \in Tasks, Forget(t) \/ Stop(t) \/ Rest(t) PROVE RemovedIsClosed'
    <2>1. task[t].at # "take" /\ UNCHANGED <<path, open>>
      BY <1>6 DEF Forget, Stop, Rest, At, registry
    <2>2. abandoned \subseteq abandoned' /\ \A u \in Tasks \ {t} : task'[u] = task[u]
      BY <1>6, OwnSteps DEF Own
    <2>3. QED BY <2>1, <2>2, RemovedKeeps
  <1>7. ASSUME NEW t \in Clients, Cancel(t) PROVE RemovedIsClosed'
    <2>1. /\ UNCHANGED <<path, open>> /\ abandoned' = abandoned \cup SetLeft(t)
          /\ \A u \in Tasks \ {t} : task'[u] = task[u]
      BY <1>7, OwnSteps DEF Cancel, registry, Own
    <2>2. CASE task[t].at # "take" \/ task[t].op # "remove"
      BY <2>1, <2>2, RemovedKeeps
    <2>3. CASE task[t].at = "take" /\ task[t].op = "remove"
      <3>. SUFFICES ASSUME NEW i \in Ids, i \notin Registered', open'[i] # None, open'[i] \notin abandoned'
                    PROVE  \E u \in Tasks : task'[u].op = "remove" /\ task'[u].id = i /\ task'[u].at = "take"
        BY DEF RemovedIsClosed
      <3>1. i \notin Registered /\ open[i] # None /\ open[i] \notin abandoned
        BY <2>1 DEF Registered
      <3>2. PICK u \in Tasks : task[u].op = "remove" /\ task[u].id = i /\ task[u].at = "take"
        BY <3>1 DEF RemovedIsClosed
      <3>3. CASE u = t
        <4>1. open[i] \in SetLeft(t)
          BY <2>3, <3>1, <3>2, <3>3 DEF SetLeft
        <4>2. QED BY <2>1, <4>1
      <3>4. CASE u # t
        BY <2>1, <3>2, <3>4
      <3>5. QED BY <3>3, <3>4
    <2>4. QED BY <2>2, <2>3
  <1>8. CASE Collect(Reaper) \/ Pick(Reaper) \/ Pending(Reaper) \/ SweepDone(Reaper)
    <2>1. Reaper \in Tasks /\ task \in [Tasks -> TaskRecords] /\ task[Reaper].op \in {None, "evict"}
      BY Places DEF Tasks
    <2>2. /\ \A u \in Tasks \ {Reaper} : task'[u] = task[u]
          /\ UNCHANGED <<path, open, abandoned>>
      BY <1>8, <2>1 DEF Collect, Pick, Pending, SweepDone, Goto, registry, sets
    <2>3. task[Reaper].op # "remove"
      BY <2>1 DEF Operations
    <2>4. QED BY <2>1, <2>2, <2>3, RemovedKeeps
  <1>9. ASSUME UNCHANGED <<registry, locks, task, victims, home, abandoned>>, open' \in {open, [i \in Ids |-> None]}
        PROVE  RemovedIsClosed'
    <2>1. \A i \in Ids : open'[i] # None => open'[i] = open[i]
      BY <1>9
    <2>2. Registered' = Registered /\ task' = task /\ abandoned' = abandoned
      BY <1>9 DEF registry, Registered
    <2>3. QED BY <2>1, <2>2 DEF RemovedIsClosed
  <1>10. CASE Next
    BY <1>1, <1>2, <1>3, <1>4, <1>5, <1>6, <1>7, <1>8, <1>9, <1>10, Steps, AsideSteps
  <1>11. CASE UNCHANGED vars
    BY <1>9, <1>11, AsideSteps
  <1>12. QED BY <1>10, <1>11

(* At most one service set of a database is in use, whatever opens, removals,
   creates, dropped requests and evictions interleave, but for the sets that a
   client abandoned. *)
THEOREM OneSetServes == Spec => []OneServiceSet
  <1>1. Base /\ Guarded /\ Placed /\ [Next]_vars => (Base /\ Guarded /\ Placed)'
    BY BaseStep, GuardedStep, PlacedStep
  <1>2. Init => Base /\ Guarded /\ Placed
    BY BaseInit, GuardedInit, PlacedInit
  <1>3. QED BY <1>1, <1>2, PlacedOneSet, PTL DEF Spec

(* Nor does a running set get lost: it is open, or a task or a rollback has it
   in hand, or it is one that a client abandoned. *)
THEOREM NoSetIsLost == Spec => []OnlyDropsOrphan
  <1>1. Base /\ Guarded /\ Placed /\ [Next]_vars => (Base /\ Guarded /\ Placed)'
    BY BaseStep, GuardedStep, PlacedStep
  <1>2. Init => Base /\ Guarded /\ Placed
    BY BaseInit, GuardedInit, PlacedInit
  <1>3. QED BY <1>1, <1>2, PlacedReachable, PTL DEF Spec

(* A removed database is closed, or its removal is about to close it, or the
   client of the removal went away before it did. *)
THEOREM RemovedAreClosed == Spec => []RemovedIsClosed
  <1>1. Base /\ Guarded /\ RemovedIsClosed /\ [Next]_vars => (Base /\ Guarded /\ RemovedIsClosed)'
    BY BaseStep, GuardedStep, RemovedStep
  <1>2. Init => Base /\ Guarded /\ RemovedIsClosed
    BY BaseInit, GuardedInit DEF Init, RemovedIsClosed
  <1>3. QED BY <1>1, <1>2, PTL DEF Spec

=============================================================================
