--------------------------- MODULE DatabaseManager ---------------------------
(***************************************************************************)
(* The daemon's database manager (daemon/src/services/database_manager.rs):*)
(* the registry of databases and the service sets of those that are open.  *)
(*                                                                         *)
(* Requests run as tasks: a routed request opens its database when it is   *)
(* closed, and the database service creates, registers, removes and edits  *)
(* entries. A client that disconnects drops the future of its request at   *)
(* whichever await it is parked. The reaper closes idle databases, and the *)
(* daemon's shutdown closes all of them.                                   *)
(*                                                                         *)
(* A step of the model ends at an await. The registry here is the one in   *)
(* memory; RegistryFile models its file.                                   *)
(***************************************************************************)
EXTENDS Naturals, FiniteSets

CONSTANTS
    Ids,            (* database ids, each minted at most once                   *)
    Paths,          (* database files                                           *)
    Sets,           (* service sets; a bound: each is built at most once        *)
    Locks,          (* the per-id mutexes                                       *)
    Clients,        (* requests in flight at once                               *)
    Reaper,         (* the idle reaper                                          *)
    Cancellable,    (* operations whose request a client may drop               *)
    MaxCalls,       (* bound: requests                                          *)
    None

Operations == {"open", "create", "register", "remove", "set_default", "rename", "evict"}

ASSUME DatabaseManagerAssumption ==
    /\ Ids \subseteq Nat /\ Sets \subseteq Nat /\ Locks \subseteq Nat
    /\ None \notin Ids \cup Paths \cup Sets \cup Locks \cup Clients \cup {Reaper}
    /\ None \notin Operations
    /\ Reaper \notin Clients
    /\ MaxCalls \in Nat
    /\ Cancellable \subseteq Operations \ {"evict"}

VARIABLES
    path,       (* registry: path[id] of a registered database, or None        *)
    default,    (* registry: default_database                                  *)
    minted,     (* ids that exist or existed                                   *)
    writer,     (* the task that holds the registry's write lock               *)
    open,       (* open[id]: the service set routed requests get               *)
    activity,   (* last_activity: "none", "fresh", or "idle" beyond the window *)
    opening,    (* opening[id]: the mutex recorded for id                      *)
    holder,     (* holder[lock]: the task that holds it                        *)
    creator,    (* the task that holds create_lock                             *)
    files,      (* the database files that exist                               *)
    home,       (* home[s]: the database service set s was built for           *)
    phase,      (* phase[s]: "new", "live", "stopping", "stopped"              *)
    turns,      (* the sets with an ai-chat turn in flight                     *)
    abandoned,  (* history: the sets whose request went away before it ended   *)
    met,        (* history: paths registered while a create could still undo   *)
    jobs,       (* rollbacks of dropped creates, spawned                       *)
    task,       (* where each task stands, with what it holds                  *)
    victims,    (* the reaper's candidates: pairs of id and set                *)
    mode,       (* "serving", "draining", "closing", "down"                    *)
    calls       (* the requests so far                                         *)

registry == <<path, default, minted, met>>
locks    == <<writer, opening, holder, creator>>
sets     == <<home, phase, turns, abandoned>>
vars     == <<path, default, minted, writer, open, activity, opening, holder, creator,
              files, home, phase, turns, abandoned, met, jobs, task, victims, mode, calls>>

Tasks      == Clients \cup {Reaper}
Registered == {id \in Ids : path[id] # None}
IdleTask   == [at |-> "idle", op |-> None, id |-> None, path |-> None, set |-> None,
               lock |-> None]

-----------------------------------------------------------------------------
(* Locks and control *)

(* A daemon that is down takes no step. *)
At(t, place)   == mode # "down" /\ task[t].at = place
Goto(t, place) == task' = [task EXCEPT ![t].at = place]

(* Nobody holds the registry's write lock across an await. *)
RegistryFree == writer = None

(* Nobody holds the write lock of the open set across an await; only
   shutdown_all does. *)
OpenFree == mode \in {"serving", "draining"}

(* Mutant: the per-id lock outlives its request. *)
LetGoKeepsIdLock(t) ==
    /\ writer' = IF writer = t THEN None ELSE writer
    /\ creator' = IF creator = t THEN None ELSE creator
    /\ task' = [task EXCEPT ![t] = IdleTask]
    /\ UNCHANGED holder

(* The end of a request, however it ends: every guard it holds is dropped. *)
LetGo(t) ==
    /\ writer' = IF writer = t THEN None ELSE writer
    /\ creator' = IF creator = t THEN None ELSE creator
    /\ holder' = [l \in Locks |-> IF holder[l] = t THEN None ELSE holder[l]]
    /\ task' = [task EXCEPT ![t] = IdleTask]

Finish(t) == LetGo(t) /\ UNCHANGED opening

(* opening_lock: the mutex recorded for id, or a fresh one. *)
Unreferenced(l) == /\ \A id \in Ids : opening[id] # l
                   /\ \A t \in Tasks : task[t].lock # l

LockFor(id, l) ==
    /\ \/ l = opening[id]
       \/ /\ opening[id] = None
          /\ Unreferenced(l)
          /\ \A k \in Locks : Unreferenced(k) => l <= k
    /\ opening' = [opening EXCEPT ![id] = l]

(* Mutant: OpeningEntryGuard without the strong_count check. *)
PruneAlways(t) ==
    opening' = IF task[t].lock = None THEN opening
               ELSE [opening EXCEPT ![task[t].id] = None]

(* OpeningEntryGuard: the entry of an unfinished create goes unless another
   task shares the mutex. *)
PruneUnshared(t) ==
    LET id     == task[t].id
        shared == \E u \in Tasks \ {t} : task[u].lock = opening[id]
    IN  opening' = IF task[t].lock = None \/ shared THEN opening
                   ELSE [opening EXCEPT ![id] = None]

NewCall(t) ==
    /\ mode = "serving"
    /\ At(t, "idle")
    /\ calls < MaxCalls
    /\ calls' = calls + 1

(* A request with operation op starts at the given place. *)
Begin(t, op, place, id, p) ==
    /\ NewCall(t)
    /\ task' = [task EXCEPT ![t] = [IdleTask EXCEPT !.op = op, !.at = place,
                                                    !.id = id, !.path = p]]

-----------------------------------------------------------------------------
(* get_or_open *)

(* A routed request names a registered database: resolve_database_id. *)
Request(t, id) ==
    /\ RegistryFree
    /\ id \in Registered
    /\ Begin(t, "open", "lookup", id, None)
    /\ UNCHANGED <<registry, locks, open, activity, files, sets, jobs, victims, mode>>

Lookup(t) ==
    /\ At(t, "lookup")
    /\ OpenFree
    /\ IF open[task[t].id] # None
       THEN Goto(t, "touch") /\ UNCHANGED opening
       ELSE \E l \in Locks :
              /\ LockFor(task[t].id, l)
              /\ task' = [task EXCEPT ![t].at = "await_lock", ![t].lock = l]
    /\ UNCHANGED <<registry, writer, holder, creator, open, activity, files, sets, jobs,
                   victims, mode, calls>>

(* The per-id lock, for get_or_open and remove. *)
Lock(t) ==
    /\ At(t, "await_lock")
    /\ holder[task[t].lock] = None
    /\ holder' = [holder EXCEPT ![task[t].lock] = t]
    /\ Goto(t, IF task[t].op = "open" THEN "recheck" ELSE "await_registry")
    /\ UNCHANGED <<registry, writer, opening, creator, open, activity, files, sets, jobs,
                   victims, mode, calls>>

Recheck(t) ==
    /\ At(t, "recheck")
    /\ OpenFree
    /\ Goto(t, IF open[task[t].id] # None THEN "touch" ELSE "resolve")
    /\ UNCHANGED <<registry, locks, open, activity, files, sets, jobs, victims, mode, calls>>

(* find_or_err under the lock: a database removed meanwhile is not opened. *)
Resolve(t) ==
    /\ At(t, "resolve")
    /\ RegistryFree
    /\ IF task[t].id \in Registered
       THEN /\ task' = [task EXCEPT ![t].at = "build", ![t].path = path[task[t].id]]
            /\ UNCHANGED locks
       ELSE Finish(t)
    /\ UNCHANGED <<registry, open, activity, files, sets, jobs, victims, mode, calls>>

(* build_database_services: from its return on, the set's tasks run. Opening a
   missing file creates it, and so may an attempt that fails. *)
SetBuilt(t, s) ==
    /\ phase[s] = "new"
    /\ \A u \in Sets : phase[u] = "new" => s <= u
    /\ phase' = [phase EXCEPT ![s] = "live"]
    /\ home' = [home EXCEPT ![s] = task[t].id]
    /\ files' = files \cup {task[t].path}
    /\ UNCHANGED <<turns, abandoned>>

Build(t) ==
    /\ At(t, "build")
    /\ \E s \in Sets :
         /\ SetBuilt(t, s)
         /\ task' = [task EXCEPT ![t].set = s, ![t].at = "publish"]
    /\ UNCHANGED <<registry, locks, open, activity, jobs, victims, mode, calls>>

BuildFails(t) ==
    /\ At(t, "build")
    /\ files' \in {files, files \cup {task[t].path}}
    /\ Finish(t)
    /\ UNCHANGED <<registry, open, activity, sets, jobs, victims, mode, calls>>

(* cache_or_discard; a set that finds another in its place is shut down. *)
Publish(t) ==
    /\ At(t, "publish")
    /\ OpenFree
    /\ IF open[task[t].id] = None
       THEN open' = [open EXCEPT ![task[t].id] = task[t].set] /\ Goto(t, "touch")
       ELSE Goto(t, "stop") /\ UNCHANGED open
    /\ UNCHANGED <<registry, locks, activity, files, sets, jobs, victims, mode, calls>>

(* touch, the last await of get_or_open and of create. *)
Touch(t) ==
    /\ At(t, "touch")
    /\ activity' = [activity EXCEPT ![task[t].id] = "fresh"]
    /\ Finish(t)
    /\ UNCHANGED <<registry, open, files, sets, jobs, victims, mode, calls>>

-----------------------------------------------------------------------------
(* create *)

(* DatabaseId::generate. Nobody sees an id before it is registered, so it may be
   minted when the call begins. *)
Mint(id) ==
    /\ id \notin minted
    /\ \A i \in Ids : i < id => i \in minted
    /\ minted' = minted \cup {id}

CreateCall(t, id, p) ==
    /\ Mint(id)
    /\ Begin(t, "create", "await_create", id, p)
    /\ UNCHANGED <<path, default, met, locks, open, activity, files, sets, jobs, victims, mode>>

(* create_lock, then path.exists(). *)
CreateStart(t) ==
    /\ At(t, "await_create")
    /\ creator = None
    /\ IF task[t].path \in files
       THEN Finish(t)
       ELSE /\ creator' = t
            /\ Goto(t, "check_paths")
            /\ UNCHANGED <<writer, opening, holder>>
    /\ UNCHANGED <<registry, open, activity, files, sets, jobs, victims, mode, calls>>

(* Mutant: create looks for the file only, not for an entry at its path. *)
CheckPathsSkipped(t) ==
    /\ At(t, "check_paths")
    /\ RegistryFree
    /\ Goto(t, "create_file")
    /\ UNCHANGED <<registry, locks, open, activity, files, sets, jobs, victims, mode, calls>>

(* An entry whose file is missing still owns its path. *)
CheckPaths(t) ==
    /\ At(t, "check_paths")
    /\ RegistryFree
    /\ IF \E id \in Registered : path[id] = task[t].path
       THEN Finish(t)
       ELSE Goto(t, "create_file") /\ UNCHANGED locks
    /\ UNCHANGED <<registry, open, activity, files, sets, jobs, victims, mode, calls>>

CreateFile(t) ==
    /\ At(t, "create_file")
    /\ files' = files \cup {task[t].path}
    /\ Goto(t, "seed")
    /\ UNCHANGED <<registry, locks, open, activity, sets, jobs, victims, mode, calls>>

(* The build is done; the create takes the lock of its id, which no other task
   knows yet, before it registers. *)
Seed(t) ==
    /\ At(t, "seed")
    /\ \E s \in Sets, l \in Locks :
         /\ SetBuilt(t, s)
         /\ LockFor(task[t].id, l)
         /\ holder' = [holder EXCEPT ![l] = t]
         /\ task' = [task EXCEPT ![t].set = s, ![t].lock = l, ![t].at = "await_registry"]
    /\ UNCHANGED <<registry, writer, creator, open, activity, jobs, victims, mode, calls>>

(* The rollback's drop, with no service set: the file goes at once. *)
CreateFails(t) ==
    /\ At(t, "create_file") \/ At(t, "seed")
    /\ files' = files \ {task[t].path}
    /\ Finish(t)
    /\ UNCHANGED <<registry, open, activity, sets, jobs, victims, mode, calls>>

(* Registered: the set becomes the open one, and OpeningEntryGuard is disarmed. *)
Cache(t) ==
    /\ At(t, "cache")
    /\ OpenFree
    /\ open' = [open EXCEPT ![task[t].id] = task[t].set]
    /\ Goto(t, "touch")
    /\ UNCHANGED <<registry, locks, activity, files, sets, jobs, victims, mode, calls>>

(* CreateRollback::run, its last await: the set is closed, the file goes. *)
Unlink(t) ==
    /\ At(t, "unlink")
    /\ files' = files \ {task[t].path}
    /\ LetGo(t)
    /\ PruneUnshared(t)
    /\ UNCHANGED <<registry, open, activity, sets, jobs, victims, mode, calls>>

-----------------------------------------------------------------------------
(* register, remove, set_default, rename and set_extensions *)

(* Mutant: remove does not wait for an open in flight. *)
RemoveCallUnlocked(t, id) ==
    /\ id \in Registered
    /\ Begin(t, "remove", "await_registry", id, None)
    /\ UNCHANGED <<registry, locks, open, activity, files, sets, jobs, victims, mode>>

(* Mutant: remove takes the registry's lock before the id's. *)
RemoveCallRegistryFirst(t, id) ==
    /\ RegistryFree
    /\ id \in Registered
    /\ NewCall(t)
    /\ writer' = t
    /\ \E l \in Locks :
         /\ LockFor(id, l)
         /\ task' = [task EXCEPT ![t] = [IdleTask EXCEPT !.op = "remove", !.id = id,
                                                  !.at = "await_lock", !.lock = l]]
    /\ UNCHANGED <<registry, holder, creator, open, activity, files, sets, jobs, victims,
                   mode>>

(* The file at p is one that a create, or its rollback, may yet remove. *)
MayUndo(t) ==
    task[t].op = "create" /\ task[t].at \notin {"await_create", "cache", "touch"}

Undoable(p) ==
    \/ \E t \in Tasks : MayUndo(t) /\ task[t].path = p
    \/ \E j \in jobs : j.unlink /\ j.path = p

(* register does not take create_lock: its path may be one that is being created. *)
RegisterCall(t, id, p) ==
    /\ p \in files
    /\ Mint(id)
    /\ Begin(t, "register", "await_registry", id, p)
    /\ met' = met \cup {q \in {p} : Undoable(q)}
    /\ UNCHANGED <<path, default, locks, open, activity, files, sets, jobs, victims, mode>>

RemoveCall(t, id) ==
    /\ RegistryFree
    /\ id \in Registered
    /\ NewCall(t)
    /\ \E l \in Locks :
         /\ LockFor(id, l)
         /\ task' = [task EXCEPT ![t] = [IdleTask EXCEPT !.op = "remove", !.id = id,
                                                  !.at = "await_lock", !.lock = l]]
    /\ UNCHANGED <<registry, writer, holder, creator, open, activity, files, sets, jobs,
                   victims, mode>>

(* rename and set_extensions edit an entry's label and keys; op = "rename" is both. *)
EditCall(t, op, id) ==
    /\ id \in Registered
    /\ Begin(t, op, "await_registry", id, None)
    /\ UNCHANGED <<registry, locks, open, activity, files, sets, jobs, victims, mode>>

(* With the registry's write lock: find_or_err, or register's search for an
   entry that names the same existing file. *)
Rejected(t) ==
    \/ task[t].op \in {"remove", "set_default", "rename"} /\ task[t].id \notin Registered
    \/ /\ task[t].op = "register"
       /\ task[t].path \in files
       /\ \E id \in Registered : path[id] = task[t].path

AwaitRegistry(t) ==
    /\ At(t, "await_registry")
    /\ RegistryFree
    /\ IF Rejected(t)
       THEN Finish(t)
       ELSE writer' = t /\ Goto(t, "saving") /\ UNCHANGED <<opening, holder, creator>>
    /\ UNCHANGED <<registry, open, activity, files, sets, jobs, victims, mode, calls>>

(* mutate_and_save: the saved candidate becomes the registry, all at once. *)
Candidate(t) ==
    CASE task[t].op \in {"create", "register"} ->
           [path    |-> [path EXCEPT ![task[t].id] = task[t].path],
            default |-> IF default = None THEN task[t].id ELSE default]
      [] task[t].op = "remove" ->
           [path    |-> [path EXCEPT ![task[t].id] = None],
            default |-> IF default = task[t].id THEN None ELSE default]
      [] task[t].op = "set_default" -> [path |-> path, default |-> task[t].id]
      [] OTHER -> [path |-> path, default |-> default]

Saved(t) ==
    /\ At(t, "saving")
    /\ path' = Candidate(t).path
    /\ default' = Candidate(t).default
    /\ IF task[t].op \in {"create", "remove"}
       THEN /\ Goto(t, IF task[t].op = "create" THEN "cache" ELSE "take")
            /\ writer' = None
            /\ UNCHANGED <<opening, holder, creator>>
       ELSE Finish(t)
    /\ UNCHANGED <<minted, met, open, activity, files, sets, jobs, victims, mode, calls>>

SaveFails(t) ==
    /\ At(t, "saving")
    /\ IF task[t].op = "create"
       THEN Goto(t, "stop") /\ writer' = None /\ UNCHANGED <<opening, holder, creator>>
       ELSE Finish(t)
    /\ UNCHANGED <<registry, open, activity, files, sets, jobs, victims, mode, calls>>

-----------------------------------------------------------------------------
(* close_without_notify and DatabaseServices::shutdown *)

Take(t) ==
    /\ At(t, "take")
    /\ OpenFree
    /\ task' = [task EXCEPT ![t].set = open[task[t].id], ![t].at = "forget"]
    /\ open' = [open EXCEPT ![task[t].id] = None]
    /\ UNCHANGED <<registry, locks, activity, files, sets, jobs, victims, mode, calls>>

(* What follows the close: remove prunes the id's mutex and ends, the reaper
   goes on to the next candidate, a create's rollback removes the file, and an
   open that lost its place returns the set it found. *)
AfterClose(t) ==
    CASE task[t].op = "remove" ->
           LetGo(t) /\ opening' = [opening EXCEPT ![task[t].id] = None]
      [] task[t].op = "evict" ->
           /\ task' = [task EXCEPT ![t] = [IdleTask EXCEPT !.op = "evict", !.at = "pick"]]
           /\ UNCHANGED locks
      [] task[t].op = "create" -> Goto(t, "unlink") /\ UNCHANGED locks
      [] OTHER -> Goto(t, "touch") /\ UNCHANGED locks

Forget(t) ==
    /\ At(t, "forget")
    /\ activity' = [activity EXCEPT ![task[t].id] = "none"]
    /\ IF task[t].set = None THEN AfterClose(t) ELSE Goto(t, "stop") /\ UNCHANGED locks
    /\ UNCHANGED <<registry, open, files, sets, jobs, victims, mode, calls>>

(* The agent's token is cancelled first: no turn starts from here on. The
   running ones are cancelled and end later. *)
Stopping(s) ==
    /\ phase' = [phase EXCEPT ![s] = "stopping"]
    /\ UNCHANGED <<home, turns, abandoned>>

(* Then the embedding processor, the sweep, the play engine and the streams. *)
Stopped(s) ==
    /\ phase' = [phase EXCEPT ![s] = "stopped"]
    /\ UNCHANGED <<home, turns, abandoned>>

Stop(t) ==
    /\ At(t, "stop")
    /\ Stopping(task[t].set)
    /\ Goto(t, "rest")
    /\ UNCHANGED <<registry, locks, open, activity, files, jobs, victims, mode, calls>>

Rest(t) ==
    /\ At(t, "rest")
    /\ Stopped(task[t].set)
    /\ AfterClose(t)
    /\ UNCHANGED <<registry, open, activity, files, jobs, victims, mode, calls>>

-----------------------------------------------------------------------------
(* A dropped request *)

(* Mutant: the service set leaves the rollback before the open set's lock is
   held. *)
UndoCreateLate(t) ==
    LET job == [set |-> task[t].set, path |-> task[t].path, unlink |-> TRUE]
    IN  CASE task[t].at \in {"create_file", "seed", "unlink"} ->
               files' = files \ {task[t].path} /\ UNCHANGED jobs
          [] task[t].at \in {"await_registry", "saving", "stop", "rest"} ->
               jobs' = jobs \cup {job} /\ UNCHANGED files
          [] OTHER -> UNCHANGED <<files, jobs>>

(* Mutant: keep_files is not set once the entry is registered. *)
UndoCreateAll(t) ==
    LET job == [set |-> task[t].set, path |-> task[t].path, unlink |-> TRUE]
    IN  CASE task[t].at \in {"create_file", "seed", "unlink"} ->
               files' = files \ {task[t].path} /\ UNCHANGED jobs
          [] task[t].at \in {"await_registry", "saving", "stop", "rest", "cache"} ->
               jobs' = jobs \cup {job} /\ UNCHANGED files
          [] OTHER -> UNCHANGED <<files, jobs>>

(* CreateRollback's drop: without a service set it removes the file at once,
   with one it spawns a job; the file is kept once it is registered. *)
UndoCreate(t) ==
    LET spawn(unlink) == jobs' = jobs \cup {[set |-> task[t].set, path |-> task[t].path,
                                             unlink |-> unlink]}
    IN  CASE task[t].at \in {"create_file", "seed", "unlink"} ->
               files' = files \ {task[t].path} /\ UNCHANGED jobs
          [] task[t].at \in {"await_registry", "saving", "stop", "rest"} ->
               spawn(TRUE) /\ UNCHANGED files
          [] task[t].at = "cache" -> spawn(FALSE) /\ UNCHANGED files
          [] OTHER -> UNCHANGED <<files, jobs>>

(* The service set a dropped request was to publish or to close. *)
SetLeft(t) ==
    IF task[t].op = "create" THEN {}
    ELSE CASE task[t].at \in {"publish", "forget", "stop", "rest"} -> {task[t].set} \ {None}
           [] task[t].at = "take" -> {open[task[t].id]} \ {None}
           [] OTHER -> {}

(* The future is dropped where it is parked. Nothing shuts down the service set
   of an open, or of a remove. *)
Cancel(t) ==
    /\ mode # "down"
    /\ task[t].op \in Cancellable
    /\ LetGo(t)
    /\ IF task[t].op = "create"
       THEN /\ UndoCreate(t)
            /\ IF At(t, "touch") THEN UNCHANGED opening ELSE PruneUnshared(t)
       ELSE UNCHANGED <<opening, files, jobs>>
    /\ abandoned' = abandoned \cup SetLeft(t)
    /\ UNCHANGED <<registry, open, activity, home, phase, turns, victims, mode, calls>>

(* CreateRollback::undo *)
JobStop(j) ==
    /\ mode # "down"
    /\ phase[j.set] # "stopped"
    /\ IF phase[j.set] = "live" THEN Stopping(j.set) ELSE Stopped(j.set)
    /\ UNCHANGED <<registry, locks, open, activity, files, jobs, task, victims, mode, calls>>

JobEnds(j) ==
    /\ mode # "down"
    /\ phase[j.set] = "stopped"
    /\ files' = IF j.unlink THEN files \ {j.path} ELSE files
    /\ jobs' = jobs \ {j}
    /\ UNCHANGED <<registry, locks, open, activity, sets, task, victims, mode, calls>>

-----------------------------------------------------------------------------
(* evict_idle_databases *)

(* The candidates; the active database is any of them, or none. The default read
   just before is taken for the current one. *)
Collect(t) ==
    /\ At(t, "idle")
    /\ RegistryFree
    /\ OpenFree
    /\ \E active \in Ids \cup {None} :
         victims' = {<<id, open[id]>> :
                       id \in {i \in Ids \ {default, active} : /\ open[i] # None
                                                               /\ activity[i] = "idle"}}
    /\ victims' # {}
    /\ task' = [task EXCEPT ![t].op = "evict", ![t].at = "pick"]
    /\ UNCHANGED <<registry, locks, open, activity, files, sets, jobs, mode, calls>>

(* has_active_turns, of the set collected. *)
Pick(t) ==
    /\ At(t, "pick")
    /\ \E v \in victims :
         /\ victims' = victims \ {v}
         /\ IF v[2] \in turns THEN UNCHANGED task
            ELSE task' = [task EXCEPT ![t].id = v[1], ![t].at = "pending"]
    /\ UNCHANGED <<registry, locks, open, activity, files, sets, jobs, mode, calls>>

(* has_pending_embeddings: yes or no. *)
Pending(t) ==
    /\ At(t, "pending")
    /\ \E next \in {"pick", "take"} : Goto(t, next)
    /\ UNCHANGED <<registry, locks, open, activity, files, sets, jobs, victims, mode, calls>>

SweepDone(t) ==
    /\ At(t, "pick")
    /\ victims = {}
    /\ task' = [task EXCEPT ![t] = IdleTask]
    /\ UNCHANGED <<registry, locks, open, activity, files, sets, jobs, victims, mode, calls>>

-----------------------------------------------------------------------------
(* ai-chat turns, time, and the end of the daemon *)

(* The event watcher starts a turn without a request: begin_turn. *)
StartTurn(s) ==
    /\ mode # "down"
    /\ phase[s] = "live"
    /\ s \notin turns
    /\ turns' = turns \cup {s}
    /\ UNCHANGED <<registry, locks, open, activity, files, home, phase, abandoned, jobs, task,
                   victims, mode, calls>>

EndTurn(s) ==
    /\ mode # "down"
    /\ s \in turns
    /\ turns' = turns \ {s}
    /\ UNCHANGED <<registry, locks, open, activity, files, home, phase, abandoned, jobs, task,
                   victims, mode, calls>>

(* The idle window passes without a request. *)
Age(id) ==
    /\ mode # "down"
    /\ activity[id] = "fresh"
    /\ activity' = [activity EXCEPT ![id] = "idle"]
    /\ UNCHANGED <<registry, locks, open, files, sets, jobs, task, victims, mode, calls>>

(* The server takes no more requests, waits for those in flight, and then calls
   shutdown_all, which holds the open set's lock to the end. *)
StopServing ==
    /\ mode = "serving"
    /\ mode' = "draining"
    /\ UNCHANGED <<registry, locks, open, activity, files, sets, jobs, task, victims, calls>>

ShutdownAll ==
    /\ mode = "draining"
    /\ \A t \in Clients : At(t, "idle")
    /\ mode' = "closing"
    /\ UNCHANGED <<registry, locks, open, activity, files, sets, jobs, task, victims, calls>>

OpenSets == {open[id] : id \in Ids} \ {None}

ShutdownSet(s) ==
    /\ mode = "closing"
    /\ s \in OpenSets
    /\ phase[s] # "stopped"
    /\ IF phase[s] = "live"
       THEN Stopping(s) /\ \A u \in OpenSets : phase[u] # "stopping"
       ELSE Stopped(s)
    /\ UNCHANGED <<registry, locks, open, activity, files, jobs, task, victims, mode, calls>>

ShutdownEnds ==
    /\ mode = "closing"
    /\ \A s \in OpenSets : phase[s] = "stopped"
    /\ mode' = "down"
    /\ open' = [id \in Ids |-> None]
    /\ activity' = [id \in Ids |-> "none"]
    /\ UNCHANGED <<registry, locks, files, sets, jobs, task, victims, calls>>

-----------------------------------------------------------------------------
(* The specification *)

(* The daemon has loaded its registry and made sure of a default. Opening it is
   the first request. *)
Init ==
    /\ files \in SUBSET Paths
    /\ path \in [Ids -> Paths \cup {None}]
    /\ \A i, j \in Registered : path[i] = path[j] => i = j
    /\ \A i, j \in Ids : i < j /\ j \in Registered => i \in Registered
    /\ default \in Registered
    /\ minted = Registered
    /\ open = [id \in Ids |-> None]
    /\ activity = [id \in Ids |-> "none"]
    /\ opening = [id \in Ids |-> None]
    /\ holder = [l \in Locks |-> None]
    /\ writer = None
    /\ creator = None
    /\ home = [s \in Sets |-> None]
    /\ phase = [s \in Sets |-> "new"]
    /\ turns = {}
    /\ abandoned = {}
    /\ met = {}
    /\ jobs = {}
    /\ task = [t \in Tasks |-> IdleTask]
    /\ victims = {}
    /\ mode = "serving"
    /\ calls = 0

Call(t) ==
    \/ \E id \in Ids : \/ Request(t, id)
                       \/ RemoveCall(t, id)
                       \/ EditCall(t, "set_default", id)
                       \/ EditCall(t, "rename", id)
    \/ \E id \in Ids, p \in Paths : CreateCall(t, id, p) \/ RegisterCall(t, id, p)

(* The steps of a request and of the reaper. *)
Closing(t) == Take(t) \/ Forget(t) \/ Stop(t) \/ Rest(t)

Handling(t) ==
    \/ Lookup(t) \/ Lock(t) \/ Recheck(t) \/ Resolve(t) \/ Build(t) \/ BuildFails(t)
    \/ Publish(t) \/ Touch(t)
    \/ CreateStart(t) \/ CheckPaths(t) \/ CreateFile(t) \/ Seed(t) \/ CreateFails(t)
    \/ Cache(t) \/ Unlink(t)
    \/ AwaitRegistry(t) \/ Saved(t) \/ SaveFails(t)
    \/ Closing(t)

Sweeping(t) == Collect(t) \/ Pick(t) \/ Pending(t) \/ SweepDone(t) \/ Closing(t)

Rollback == \E j \in jobs : JobStop(j) \/ JobEnds(j)

ShuttingDown == ShutdownAll \/ (\E s \in Sets : ShutdownSet(s)) \/ ShutdownEnds

StaysDown == mode = "down" /\ UNCHANGED vars

Next ==
    \/ \E t \in Clients : Call(t) \/ Handling(t) \/ Cancel(t)
    \/ Sweeping(Reaper)
    \/ Rollback
    \/ \E s \in Sets : StartTurn(s) \/ EndTurn(s)
    \/ \E id \in Ids : Age(id)
    \/ StopServing
    \/ ShuttingDown
    \/ StaysDown

Spec == Init /\ [][Next]_vars

-----------------------------------------------------------------------------
(* Properties *)

TaskRecords ==
    [at : {"idle", "lookup", "await_lock", "recheck", "resolve", "build", "publish",
           "touch", "await_create", "check_paths", "create_file", "seed",
           "await_registry", "saving", "cache", "take", "forget", "stop", "rest",
           "unlink", "pick", "pending"},
     op : Operations \cup {None}, id : Ids \cup {None}, path : Paths \cup {None},
     set : Sets \cup {None}, lock : Locks \cup {None}]

(* Types; the lock variables agree with where the tasks stand. *)
TypeOK ==
    /\ path \in [Ids -> Paths \cup {None}]
    /\ default \in Ids \cup {None}
    /\ minted \subseteq Ids
    /\ writer \in Clients \cup {None}
    /\ open \in [Ids -> Sets \cup {None}]
    /\ activity \in [Ids -> {"none", "fresh", "idle"}]
    /\ opening \in [Ids -> Locks \cup {None}]
    /\ holder \in [Locks -> Clients \cup {None}]
    /\ creator \in Clients \cup {None}
    /\ files \subseteq Paths
    /\ home \in [Sets -> Ids \cup {None}]
    /\ phase \in [Sets -> {"new", "live", "stopping", "stopped"}]
    /\ turns \subseteq Sets
    /\ abandoned \subseteq Sets
    /\ met \subseteq Paths
    /\ jobs \subseteq [set : Sets, path : Paths, unlink : BOOLEAN]
    /\ task \in [Tasks -> TaskRecords]
    /\ victims \subseteq Ids \X Sets
    /\ mode \in {"serving", "draining", "closing", "down"}
    /\ calls \in 0..MaxCalls
    /\ writer # None => task[writer].at = "saving"
    /\ creator # None => task[creator].op = "create"
    /\ \A l \in Locks : holder[l] # None => task[holder[l]].lock = l

(* A set that somebody is about to close. *)
Retiring(s) ==
    \/ \E t \in Tasks : task[t].set = s /\ task[t].at \in {"forget", "stop", "rest"}
    \/ \E j \in jobs : j.set = s

(* One service set serves a database: whatever opens, removals, dropped requests
   and evictions interleave, two live sets of one id never exist unless one of
   them is on its way out, or a client went away before it was closed. Two would
   hold two writers and two event buses on one file (the comment on the opening
   locks). *)
OneServiceSet ==
    \A s, u \in Sets \ abandoned :
      /\ home[s] = home[u]
      /\ phase[s] = "live" /\ ~Retiring(s)
      /\ phase[u] = "live" /\ ~Retiring(u)
      => s = u

(* A set that is the open one of its database, or that a request or a rollback
   has in hand and publishes or closes. *)
Reachable(s) ==
    \/ open[home[s]] = s
    \/ \E t \in Tasks : task[t].set = s
    \/ \E j \in jobs : j.set = s

(* Every running service set is reachable: DatabaseServices::shutdown is the only
   way a set is retired. *)
NoOrphans ==
    \A s \in Sets : phase[s] \in {"live", "stopping"} => Reachable(s)

(* The only running sets that nobody can reach are those an open or a remove had
   in hand when its client went away. *)
OnlyDropsOrphan ==
    \A s \in Sets \ abandoned : phase[s] \in {"live", "stopping"} => Reachable(s)

(* A database that is not registered is not open, save for the moment in which
   its removal is about to close it, or when the client of the removal went away
   before that: an open in flight cannot outlive it. *)
RemovedIsClosed ==
    \A id \in Ids : id \notin Registered /\ open[id] # None =>
      \/ open[id] \in abandoned
      \/ \E t \in Tasks : task[t].op = "remove" /\ task[t].id = id /\ task[t].at = "take"

(* The registry names a registered default, and no two databases on one file,
   unless the file was registered while it was being created. *)
RegistrySound ==
    /\ default \in Registered \cup {None}
    /\ \A i, j \in Registered : path[i] = path[j] => i = j \/ path[i] \in met

(* The manager never removes the file of a registered database; the rollback of
   a create removes files, and those a client registered meanwhile with them. *)
RegisteredFilesStay ==
    [][\A id \in Registered : path[id] \in files => path[id] \in files' \cup met]_vars

(* Requests never wait for each other in a circle, nor for a lock that a dropped
   or finished one kept: create_lock, the per-id locks, the registry's lock and
   the lock of the open set are taken in this order. *)
NoDeadlock ==
    (\E t \in Clients : task[t].at # "idle") => \E t \in Clients : ENABLED Handling(t)

=============================================================================
