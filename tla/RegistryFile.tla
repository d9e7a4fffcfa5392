---------------------------- MODULE RegistryFile ----------------------------
(***************************************************************************)
(* The registry of databases and its file databases.toml: mutate_and_save  *)
(* and Registry::save, load (daemon/src/services/database_manager.rs), and *)
(* write_durably (daemon/src/durable_write.rs).                            *)
(*                                                                         *)
(* A mutation holds the registry's write lock while a blocking closure     *)
(* writes a temporary file, flushes it and renames it over the registry.   *)
(* Dropping the mutation releases the lock; the closure runs on. Files are *)
(* inodes, because two closures may have the temporary file open, and the  *)
(* one that opened it keeps writing to it after it was renamed. Three      *)
(* history variables tell what such closures did to which file; no action  *)
(* reads them.                                                             *)
(***************************************************************************)
EXTENDS Naturals, FiniteSets

CONSTANTS
    Ids,            (* databases; a registry is the set of those registered     *)
    Callers,        (* mutations in flight, with their closures                 *)
    Inodes,         (* files on the disk, named or not                          *)
    None,
    MaxSaves,       (* bound: mutations                                         *)
    MaxCancels,     (* bound: mutations dropped by their client                 *)
    MaxCrashes      (* bound: kills of the daemon and losses of power           *)

ASSUME RegistryFileAssumption ==
    /\ None \notin Inodes \cup Callers
    /\ {MaxSaves, MaxCancels, MaxCrashes} \subseteq Nat

VARIABLES
    live,       (* the registry in memory                                      *)
    writer,     (* the caller that holds its write lock                        *)
    job,        (* job[c]: the closure of caller c: where it is, what it saves *)
    dropped,    (* the callers whose future is gone while the closure runs     *)
    tmp,        (* the inode the temporary name refers to                      *)
    file,       (* the inode databases.toml refers to                          *)
    synced,     (* the one it refers to on the disk                            *)
    content,    (* content[i]: what a read finds                               *)
    flushed,    (* flushed[i]: what is on the disk                             *)
    up,         (* "up", "down", or "refused": the daemon did not start        *)
    saves, cancels, crashes,    (* the bounded inputs used so far              *)
    overtaken,  (* history: the dropped callers whose closure still runs and
                   past which another mutation has begun                       *)
    shared,     (* history: the inodes that two closures had open, or that one
                   renamed while another had it open                           *)
    stale       (* history: the inodes that an overtaken closure put in place,
                   or that were shared when put in place                       *)

names  == <<tmp, file, synced>>
data   == <<content, flushed>>
bounds == <<saves, cancels, crashes>>
marks  == <<shared, stale>>
vars   == <<live, writer, job, dropped, tmp, file, synced, content, flushed, up,
            saves, cancels, crashes, overtaken, shared, stale>>

NoJob   == [at |-> "none", inode |-> None, value |-> {}]
Running(c, at) == up = "up" /\ job[c].at = at

(* What a file holds: a registry's whole text, nothing, or what two writers
   leave. *)
Registries == SUBSET Ids
Whole(r)   == [kind |-> "whole", ids |-> r]
Empty      == [kind |-> "empty", ids |-> {}]
Garbled    == [kind |-> "garbled", ids |-> {}]
Contents   == {Whole(r) : r \in Registries} \cup {Empty, Garbled}

(* What a load of inode i reads from bytes; a missing file is a first boot. *)
Load(i, bytes) == IF i = None THEN Whole({}) ELSE bytes[i]

OneWrite(r) == {r \cup {id} : id \in Ids} \cup {r \ {id} : id \in Ids}

(* Another closure opened inode i and has not returned. *)
OpenToOthers(c, i) == \E b \in Callers \ {c} : job[b].inode = i

-----------------------------------------------------------------------------
(* A mutation and its closure *)

(* Mutant: the candidate is computed without the lock. *)
MutateUnlocked(c) ==
    /\ Running(c, "none")
    /\ saves < MaxSaves
    /\ saves' = saves + 1
    /\ writer' = c
    /\ \E value \in OneWrite(live) :
         job' = [job EXCEPT ![c] = [at |-> "create", inode |-> None, value |-> value]]
    /\ overtaken' = overtaken \cup dropped
    /\ UNCHANGED <<live, dropped, names, data, up, cancels, crashes, marks>>

(* Mutant: the candidate is swapped in before it is saved. *)
MutateLiveFirst(c) ==
    /\ Running(c, "none")
    /\ writer = None
    /\ saves < MaxSaves
    /\ saves' = saves + 1
    /\ writer' = c
    /\ \E value \in OneWrite(live) :
         /\ live' = value
         /\ job' = [job EXCEPT ![c] = [at |-> "create", inode |-> None, value |-> value]]
    /\ overtaken' = overtaken \cup dropped
    /\ UNCHANGED <<dropped, names, data, up, cancels, crashes, marks>>

(* mutate_and_save: the candidate is computed under the lock and handed to a
   blocking closure. *)
Mutate(c) ==
    /\ Running(c, "none")
    /\ writer = None
    /\ saves < MaxSaves
    /\ saves' = saves + 1
    /\ writer' = c
    /\ \E value \in OneWrite(live) :
         job' = [job EXCEPT ![c] = [at |-> "create", inode |-> None, value |-> value]]
    /\ overtaken' = overtaken \cup dropped
    /\ UNCHANGED <<live, dropped, names, data, up, cancels, crashes, marks>>

(* File::create makes the temporary file or truncates the one that is there. *)
Create(c) ==
    /\ Running(c, "create")
    /\ \E i \in Inodes :
         /\ \/ i = tmp
            \/ /\ tmp = None
               /\ i \notin {file, synced}
               /\ ~OpenToOthers(c, i)
         /\ tmp' = i
         /\ content' = [content EXCEPT ![i] = Empty]
         /\ flushed' = [flushed EXCEPT ![i] = Empty]
         /\ job' = [job EXCEPT ![c].at = "write", ![c].inode = i]
         /\ shared' = IF OpenToOthers(c, i) THEN shared \cup {i} ELSE shared \ {i}
         /\ stale' = stale \ {i}
    /\ UNCHANGED <<live, writer, dropped, file, synced, up, bounds, overtaken>>

(* write_all; over another closure's text some of that text may remain. *)
Write(c) ==
    /\ Running(c, "write")
    /\ \E bytes \in {Whole(job[c].value), Garbled} :
         /\ bytes = Garbled => content[job[c].inode] \notin {Empty, Whole(job[c].value)}
         /\ content' = [content EXCEPT ![job[c].inode] = bytes]
    /\ job' = [job EXCEPT ![c].at = "sync"]
    /\ UNCHANGED <<live, writer, dropped, names, flushed, up, bounds, overtaken, marks>>

(* Mutant: the temporary file is renamed without sync_all. *)
SyncSkipped(c) ==
    /\ Running(c, "sync")
    /\ job' = [job EXCEPT ![c].at = "rename"]
    /\ UNCHANGED <<live, writer, dropped, names, data, up, bounds, overtaken, marks>>

Sync(c) ==
    /\ Running(c, "sync")
    /\ flushed' = [flushed EXCEPT ![job[c].inode] = content[job[c].inode]]
    /\ job' = [job EXCEPT ![c].at = "rename"]
    /\ UNCHANGED <<live, writer, dropped, names, content, up, bounds, overtaken, marks>>

(* Mutant: a finished save keeps the registry's lock. *)
ReturnLocked(c) ==
    /\ job' = [job EXCEPT ![c] = NoJob]
    /\ dropped' = dropped \ {c}
    /\ overtaken' = overtaken \ {c}
    /\ UNCHANGED writer

(* The closure is done. A caller that is still there gets its result and
   releases the lock. *)
Return(c) ==
    /\ job' = [job EXCEPT ![c] = NoJob]
    /\ dropped' = dropped \ {c}
    /\ overtaken' = overtaken \ {c}
    /\ writer' = IF writer = c THEN None ELSE writer

(* A staging step fails, or the rename finds no temporary file: the file of that
   name goes and the mutation fails. *)
StageFails(c) ==
    /\ Running(c, "create") \/ Running(c, "write") \/ Running(c, "sync")
       \/ Running(c, "rename")
    /\ tmp' = None
    /\ Return(c)
    /\ UNCHANGED <<live, file, synced, data, up, bounds, marks>>

Rename(c) ==
    /\ Running(c, "rename")
    /\ tmp # None
    /\ file' = tmp
    /\ tmp' = None
    /\ job' = [job EXCEPT ![c].at = "sync_dir"]
    /\ shared' = IF OpenToOthers(c, tmp) THEN shared \cup {tmp} ELSE shared
    /\ stale' = IF c \in overtaken \/ tmp \in shared' THEN stale \cup {tmp} ELSE stale
    /\ UNCHANGED <<live, writer, dropped, synced, data, up, bounds, overtaken>>

(* The directory is synced, or that fails and is logged. Then the candidate
   becomes the registry, unless the mutation was dropped. *)
SyncDir(c) ==
    /\ Running(c, "sync_dir")
    /\ synced' \in {synced, file}
    /\ live' = IF c \in dropped THEN live ELSE job[c].value
    /\ Return(c)
    /\ UNCHANGED <<tmp, file, data, up, bounds, marks>>

(* The client goes away while its mutation waits for the closure. *)
Cancel(c) ==
    /\ up = "up"
    /\ writer = c
    /\ cancels < MaxCancels
    /\ cancels' = cancels + 1
    /\ writer' = None
    /\ dropped' = dropped \cup {c}
    /\ UNCHANGED <<live, job, names, data, up, saves, crashes, overtaken, marks>>

-----------------------------------------------------------------------------
(* Crash and start *)

(* The daemon is gone. The next one has another process id and so another
   temporary name. *)
Halt ==
    /\ up = "up"
    /\ crashes < MaxCrashes
    /\ crashes' = crashes + 1
    /\ up' = "down"
    /\ job' = [c \in Callers |-> NoJob]
    /\ dropped' = {}
    /\ writer' = None
    /\ tmp' = None
    /\ overtaken' = {}
    /\ UNCHANGED <<live, saves, cancels, marks>>

Kill == Halt /\ UNCHANGED <<file, synced, data>>

(* What was not flushed is lost, or happens to have reached the disk. *)
PowerLoss ==
    /\ Halt
    /\ \E f \in {file, synced} :
         /\ file' = f
         /\ synced' = f
         /\ \/ UNCHANGED data
            \/ content' = flushed /\ UNCHANGED flushed

(* Registry::load; an empty or unreadable file is refused. A file that loads
   is what the memory holds from now on, whoever wrote it. *)
Start ==
    /\ up = "down"
    /\ IF Load(file, content).kind = "whole"
       THEN up' = "up" /\ live' = Load(file, content).ids /\ stale' = stale \ {file}
       ELSE up' = "refused" /\ UNCHANGED <<live, stale>>
    /\ UNCHANGED <<writer, job, dropped, names, data, bounds, overtaken, shared>>

-----------------------------------------------------------------------------
Init ==
    /\ live \in Registries
    /\ writer = None
    /\ job = [c \in Callers |-> NoJob]
    /\ dropped = {}
    /\ tmp = None
    /\ \/ live = {} /\ file = None /\ content = [i \in Inodes |-> Empty]
       \/ \E i \in Inodes :
            /\ file = i
            /\ content = [[j \in Inodes |-> Empty] EXCEPT ![i] = Whole(live)]
    /\ synced = file
    /\ flushed = content
    /\ up = "up"
    /\ saves = 0 /\ cancels = 0 /\ crashes = 0
    /\ overtaken = {} /\ shared = {} /\ stale = {}

Closure(c) ==
    \/ Create(c) \/ Write(c) \/ Sync(c) \/ Rename(c) \/ SyncDir(c) \/ StageFails(c)

Next ==
    \/ \E c \in Callers : Mutate(c) \/ Closure(c) \/ Cancel(c)
    \/ Kill \/ PowerLoss \/ Start

Spec == Init /\ [][Next]_vars

-----------------------------------------------------------------------------
(* Properties *)

Jobs == [at : {"none", "create", "write", "sync", "rename", "sync_dir"},
         inode : Inodes \cup {None}, value : Registries]

(* Types; the lock's holder has a closure running. *)
TypeOK ==
    /\ live \in Registries
    /\ writer \in Callers \cup {None}
    /\ job \in [Callers -> Jobs]
    /\ dropped \subseteq Callers
    /\ {tmp, file, synced} \subseteq Inodes \cup {None}
    /\ content \in [Inodes -> Contents]
    /\ flushed \in [Inodes -> Contents]
    /\ up \in {"up", "down", "refused"}
    /\ saves \in 0..MaxSaves
    /\ cancels \in 0..MaxCancels
    /\ crashes \in 0..MaxCrashes
    /\ overtaken \subseteq dropped
    /\ shared \subseteq Inodes
    /\ stale \subseteq Inodes
    /\ writer # None => job[writer].at # "none"

(* However the daemon ends, in the middle of a save too, the registry's file is
   whole: killed, it finds what a read finds, and after a loss of power what
   was flushed under either name. A torn file keeps the daemon from starting. *)
NeverTorn ==
    /\ Load(file, content).kind = "whole"
    /\ Load(file, flushed).kind = "whole"
    /\ Load(synced, flushed).kind = "whole"

(* The same of every file that one closure alone wrote and renamed, whatever
   other closures do meanwhile: only two on one temporary file can tear it. *)
OnlySharedTorn ==
    /\ file \notin shared =>
         Load(file, content).kind = "whole" /\ Load(file, flushed).kind = "whole"
    /\ synced \notin shared => Load(synced, flushed).kind = "whole"

(* Between mutations the file holds the registry in memory: a mutation that
   returned an error left no trace in it, and one that succeeded is there. The
   write of a dropped mutation may be ahead of the memory, by itself alone; no
   more is known of a file that was stale when put in place. *)
FileHoldsLive ==
    up = "up" /\ writer = None /\ file \notin stale =>
      \/ Load(file, content) = Whole(live)
      \/ cancels > 0 /\ \E r \in OneWrite(live) : Load(file, content) = Whole(r)

(* What a read of inode i finds; of a shared or stale file nothing is known. *)
Read(i, bytes) == IF i \in shared \cup stale THEN None ELSE Load(i, bytes).ids

(* The file is the atomic register callers take it for, dropped mutations
   included, but for what a closure saves after another mutation began. *)
Atomic == INSTANCE AtomicRegistry WITH stored <- Read(file, content),
                                       safe <- Read(synced, flushed),
                                       overlap <- overtaken # {},
                                       Unknown <- None

AtomicSpec == Atomic!Spec

=============================================================================
