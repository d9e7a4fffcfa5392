-------------------------- MODULE RegistryFileProofs --------------------------
(***************************************************************************)
(* Proofs about RegistryFile, for every set of databases, callers and      *)
(* inodes and every bound, overlapping closures included: types, that only *)
(* two closures on one temporary file can tear the registry's file, that   *)
(* the file follows the registry in memory, and that they implement        *)
(* AtomicRegistry.                                                         *)
(***************************************************************************)
EXTENDS RegistryFile, TLAPS

(* What a step that changes the state does, by action. *)
LEMMA Steps ==
    ASSUME Next
    PROVE  \/ \E c \in Callers : Mutate(c)
           \/ \E c \in Callers : Create(c)
           \/ \E c \in Callers : Write(c)
           \/ \E c \in Callers : Sync(c)
           \/ \E c \in Callers : Rename(c)
           \/ \E c \in Callers : SyncDir(c)
           \/ \E c \in Callers : StageFails(c)
           \/ \E c \in Callers : Cancel(c)
           \/ Kill
           \/ PowerLoss
           \/ Start
  BY DEF Next, Closure

(* One mutation of a registry is a registry. *)
LEMMA OneWriteType ==
    ASSUME NEW r \in Registries, NEW s \in OneWrite(r)
    PROVE  s \in Registries
  BY DEF OneWrite, Registries

-----------------------------------------------------------------------------
(* Types *)

LEMMA TypeInit == Init => TypeOK
  <1>1. SUFFICES ASSUME Init PROVE TypeOK
    OBVIOUS
  <1>2. NoJob \in Jobs
    BY DEF NoJob, Jobs, Registries
  <1>3. content \in [Inodes -> Contents] /\ file \in Inodes \cup {None}
    <2>1. CASE file = None /\ content = [i \in Inodes |-> Empty]
      BY <2>1 DEF Contents
    <2>2. CASE \E i \in Inodes :
                  /\ file = i
                  /\ content = [[j \in Inodes |-> Empty] EXCEPT ![i] = Whole(live)]
      BY <1>1, <2>2 DEF Init, Contents
    <2>3. QED BY <1>1, <2>1, <2>2 DEF Init
  <1>4. QED BY <1>1, <1>2, <1>3, RegistryFileAssumption DEF Init, TypeOK

(* The end of a closure keeps the types of what it changes. *)
LEMMA TypeReturn ==
    ASSUME TypeOK, NEW c \in Callers, Return(c)
    PROVE  /\ job' \in [Callers -> Jobs]
           /\ dropped' \subseteq Callers
           /\ writer' \in Callers \cup {None}
           /\ overtaken' \subseteq dropped'
           /\ writer' # None => job'[writer'].at # "none"
  <1>1. NoJob \in Jobs
    BY DEF NoJob, Jobs, Registries
  <1>2. QED BY <1>1, RegistryFileAssumption DEF Return, TypeOK

LEMMA TypeStep == TypeOK /\ [Next]_vars => TypeOK'
  <1>1. SUFFICES ASSUME TypeOK, Next PROVE TypeOK'
    BY DEF TypeOK, vars
  <1>. USE RegistryFileAssumption
  <1>2. ASSUME NEW c \in Callers, Mutate(c) PROVE TypeOK'
    <2>1. PICK value \in OneWrite(live) :
            job' = [job EXCEPT ![c] = [at |-> "create", inode |-> None, value |-> value]]
      BY <1>2 DEF Mutate
    <2>2. value \in Registries
      BY <1>1, OneWriteType DEF TypeOK
    <2>3. job' \in [Callers -> Jobs] /\ job'[c].at # "none"
      BY <1>1, <2>1, <2>2 DEF TypeOK, Jobs
    <2>4. saves' \in 0..MaxSaves
      BY <1>1, <1>2 DEF TypeOK, Mutate
    <2>5. QED BY <1>1, <1>2, <2>3, <2>4 DEF TypeOK, Mutate, names, data, marks
  <1>3. ASSUME NEW c \in Callers, Create(c) PROVE TypeOK'
    <2>1. PICK i \in Inodes :
            /\ tmp' = i
            /\ content' = [content EXCEPT ![i] = Empty]
            /\ flushed' = [flushed EXCEPT ![i] = Empty]
            /\ job' = [job EXCEPT ![c].at = "write", ![c].inode = i]
      BY <1>3 DEF Create
    <2>2. job' \in [Callers -> Jobs]
      BY <1>1, <2>1 DEF TypeOK, Jobs
    <2>3. content' \in [Inodes -> Contents] /\ flushed' \in [Inodes -> Contents]
      BY <1>1, <2>1 DEF TypeOK, Contents
    <2>4. writer # None => job'[writer].at # "none"
      BY <1>1, <2>1 DEF TypeOK, Jobs
    <2>5. shared' \subseteq Inodes /\ stale' \subseteq Inodes
      <3>1. PICK j \in Inodes : /\ shared' \in {shared \cup {j}, shared \ {j}}
                               /\ stale' = stale \ {j}
        BY <1>3 DEF Create
      <3>2. QED BY <1>1, <3>1 DEF TypeOK
    <2>6. QED BY <1>1, <1>3, <2>1, <2>2, <2>3, <2>4, <2>5 DEF TypeOK, Create, bounds
  <1>4. ASSUME NEW c \in Callers, Write(c) PROVE TypeOK'
    <2>1. PICK bytes \in {Whole(job[c].value), Garbled} :
            content' = [content EXCEPT ![job[c].inode] = bytes]
      BY <1>4 DEF Write
    <2>2. bytes \in Contents
      BY <1>1 DEF TypeOK, Jobs, Contents
    <2>3. content' \in [Inodes -> Contents]
      BY <1>1, <2>1, <2>2 DEF TypeOK
    <2>4. job' = [job EXCEPT ![c].at = "sync"]
      BY <1>4 DEF Write
    <2>5. job' \in [Callers -> Jobs] /\ (writer # None => job'[writer].at # "none")
      BY <1>1, <2>4 DEF TypeOK, Jobs
    <2>6. QED BY <1>1, <1>4, <2>3, <2>5 DEF TypeOK, Write, names, bounds, marks
  <1>5. ASSUME NEW c \in Callers, Sync(c) PROVE TypeOK'
    <2>1. flushed' \in [Inodes -> Contents]
      <3>1. job[c].inode \in Inodes => content[job[c].inode] \in Contents
        BY <1>1 DEF TypeOK
      <3>2. QED BY <1>1, <1>5, <3>1 DEF TypeOK, Sync
    <2>2. job' = [job EXCEPT ![c].at = "rename"]
      BY <1>5 DEF Sync
    <2>3. job' \in [Callers -> Jobs] /\ (writer # None => job'[writer].at # "none")
      BY <1>1, <2>2 DEF TypeOK, Jobs
    <2>4. QED BY <1>1, <1>5, <2>1, <2>3 DEF TypeOK, Sync, names, bounds, marks
  <1>6. ASSUME NEW c \in Callers, Rename(c) PROVE TypeOK'
    <2>1. job' = [job EXCEPT ![c].at = "sync_dir"]
      BY <1>6 DEF Rename
    <2>2. job' \in [Callers -> Jobs] /\ (writer # None => job'[writer].at # "none")
      BY <1>1, <2>1 DEF TypeOK, Jobs
    <2>3. shared' \subseteq Inodes /\ stale' \subseteq Inodes
      <3>1. shared' \subseteq shared \cup {tmp} /\ stale' \subseteq stale \cup {tmp}
        BY <1>6 DEF Rename
      <3>2. tmp \in Inodes
        BY <1>1, <1>6 DEF TypeOK, Rename
      <3>3. QED BY <1>1, <3>1, <3>2 DEF TypeOK
    <2>4. QED BY <1>1, <1>6, <2>2, <2>3 DEF TypeOK, Rename, data, bounds
  <1>7. ASSUME NEW c \in Callers, SyncDir(c) PROVE TypeOK'
    <2>1. live' \in Registries
      BY <1>1, <1>7 DEF TypeOK, SyncDir, Jobs
    <2>2. QED BY <1>1, <1>7, <2>1, TypeReturn DEF TypeOK, SyncDir, data, bounds, marks
  <1>8. ASSUME NEW c \in Callers, StageFails(c) PROVE TypeOK'
    BY <1>1, <1>8, TypeReturn DEF TypeOK, StageFails, data, bounds, marks
  <1>9. ASSUME NEW c \in Callers, Cancel(c) PROVE TypeOK'
    BY <1>1, <1>9 DEF TypeOK, Cancel, names, data, marks
  <1>10. ASSUME Halt,
                {file', synced'} \subseteq {file, synced},
                content' \in {content, flushed},
                flushed' = flushed
         PROVE  TypeOK'
    <2>1. NoJob \in Jobs
      BY DEF NoJob, Jobs, Registries
    <2>2. job' \in [Callers -> Jobs]
      BY <1>10, <2>1 DEF Halt
    <2>3. QED BY <1>1, <1>10, <2>2 DEF TypeOK, Halt, marks
  <1>11. CASE Kill
    BY <1>10, <1>11 DEF Kill, data
  <1>12. CASE PowerLoss
    BY <1>10, <1>12 DEF PowerLoss, data
  <1>13. CASE Start
    <2>1. Load(file, content) \in Contents
      BY <1>1 DEF TypeOK, Load, Contents, Registries
    <2>2. Load(file, content).ids \in Registries
      BY <2>1 DEF Contents, Whole, Empty, Garbled, Registries
    <2>3. QED BY <1>1, <1>13, <2>2 DEF TypeOK, Start, names, data, bounds
  <1>14. QED
    BY <1>1, <1>2, <1>3, <1>4, <1>5, <1>6, <1>7, <1>8, <1>9, <1>11, <1>12, <1>13, Steps

(* Types, and that the registry's lock is held only while a closure works for
   its holder: a save that ends, however it ends, has released it. *)
THEOREM TypeCorrect == Spec => []TypeOK
  BY TypeInit, TypeStep, PTL DEF Spec

-----------------------------------------------------------------------------
(* The inductive invariant *)

Busy(c) == job[c].at # "none"
Staging(c) == job[c].at \in {"write", "sync", "rename"}

(* A closure runs for the mutation that holds the lock or for a dropped one; of
   two, one has been overtaken. *)
Closures ==
    /\ \A c \in Callers :
         /\ Busy(c) <=> writer = c \/ c \in dropped
         /\ ~(writer = c /\ c \in dropped)
         /\ ~Busy(c) => job[c].inode = None
    /\ \A b, c \in Callers : Busy(b) /\ Busy(c) /\ b # c => b \in overtaken \/ c \in overtaken
    /\ up # "up" => \A c \in Callers : ~Busy(c)

(* A file that caller c alone opened is no file of the registry's, and holds
   what c wrote so far. *)
OwnFile(c) ==
    /\ job[c].inode \notin {file, synced}
    /\ ~OpenToOthers(c, job[c].inode)
    /\ job[c].at = "write" => content[job[c].inode] = Empty
    /\ job[c].at \in {"sync", "rename"} => content[job[c].inode] = Whole(job[c].value)
    /\ job[c].at = "rename" => flushed[job[c].inode] = content[job[c].inode]

(* The temporary file is new, and belongs to the closure that made it; if it is
   shared, to another one too. *)
Stages ==
    /\ tmp \in Inodes =>
         /\ tmp \notin {file, synced} \cup stale
         /\ \E c \in Callers : Staging(c) /\ job[c].inode = tmp
    /\ tmp \in shared =>
         \E b, c \in Callers :
           b # c /\ Staging(b) /\ Staging(c) /\ job[b].inode = tmp /\ job[c].inode = tmp
    /\ \A c \in Callers : Staging(c) =>
         /\ job[c].inode \in Inodes
         /\ job[c].inode = file => file \in stale
         /\ job[c].inode \notin shared => OwnFile(c)

(* What databases.toml refers to, in memory and on the disk, is whole and on
   the disk, if one closure alone wrote it. *)
FilesWhole ==
    \A i \in {file, synced} \ shared :
      Load(i, content).kind = "whole" /\ Load(i, flushed) = Load(i, content)

(* The file is the memory, or one change ahead of it for a dropped mutation. *)
AtMostAhead ==
    \/ Load(file, content) = Whole(live)
    \/ cancels > 0 /\ \E r \in OneWrite(live) : Load(file, content) = Whole(r)

Landed(c) == writer = c /\ job[c].at = "sync_dir"

(* A closure that was not overtaken saves one change of the registry in memory;
   the file holds that change from its rename until the memory follows. *)
Follows ==
    /\ \A c \in Callers : Busy(c) /\ c \notin overtaken => job[c].value \in OneWrite(live)
    /\ dropped # {} => cancels > 0
    /\ file \notin stale =>
         /\ \A c \in Callers :
              Landed(c) => file \notin shared /\ Load(file, content) = Whole(job[c].value)
         /\ up = "up" /\ (\A c \in Callers : ~Landed(c)) => AtMostAhead

FileInv == TypeOK /\ Closures /\ Stages /\ FilesWhole /\ Follows

LEMMA FileInit == Init => FileInv
  <1>1. SUFFICES ASSUME Init PROVE FileInv
    OBVIOUS
  <1>2. TypeOK
    BY <1>1, TypeInit
  <1>3. Load(file, content) = Whole(live)
    <2>1. CASE live = {} /\ file = None
      BY <2>1 DEF Load
    <2>2. CASE \E i \in Inodes :
                  /\ file = i
                  /\ content = [[j \in Inodes |-> Empty] EXCEPT ![i] = Whole(live)]
      BY <2>2, RegistryFileAssumption DEF Load
    <2>3. QED BY <1>1, <2>1, <2>2 DEF Init
  <1>4. Load(file, content).kind = "whole"
    BY <1>3 DEF Whole
  <1>5. \A c \in Callers : ~Busy(c) /\ ~Staging(c) /\ job[c].inode = None /\ ~Landed(c)
    BY <1>1 DEF Init, NoJob, Busy, Staging, Landed
  <1>6. Closures
    BY <1>1, <1>5, RegistryFileAssumption DEF Init, Closures
  <1>7. Stages
    BY <1>1, <1>5, RegistryFileAssumption DEF Init, Stages
  <1>8. FilesWhole
    BY <1>1, <1>4 DEF Init, FilesWhole, Load
  <1>9. Follows
    BY <1>1, <1>3, <1>5 DEF Init, Follows, AtMostAhead
  <1>10. QED BY <1>2, <1>6, <1>7, <1>8, <1>9 DEF FileInv

(* A step of a closure in its own file, or in one it shares, leaves the
   registry's files as they are known. *)
LEMMA FilesKept ==
    ASSUME TypeOK, FilesWhole, NEW i \in Inodes, NEW bytes, NEW disk,
           content' = [content EXCEPT ![i] = bytes] \/ content' = content,
           flushed' = [flushed EXCEPT ![i] = disk] \/ flushed' = flushed,
           UNCHANGED <<file, synced>>,
           i \in {file, synced} => i \in shared,
           i = file => i \in stale,
           \A f \in {file, synced} : /\ f \in shared' <=> f \in shared
                                     /\ f \in stale' <=> f \in stale
    PROVE  /\ file \notin stale => Load(file, content)' = Load(file, content)
           /\ Read(file, content)' = Read(file, content)
           /\ Read(synced, flushed)' = Read(synced, flushed)
           /\ FilesWhole'
  <1>1. \A f \in {file, synced} : f # i =>
          Load(f, content') = Load(f, content) /\ Load(f, flushed') = Load(f, flushed)
    BY RegistryFileAssumption DEF Load, TypeOK
  <1>2. file \notin stale => Load(file, content)' = Load(file, content)
    BY <1>1 DEF Load
  <1>3. Read(file, content)' = Read(file, content)
    BY <1>1 DEF Read, Load
  <1>4. Read(synced, flushed)' = Read(synced, flushed)
    BY <1>1 DEF Read, Load
  <1>5. FilesWhole'
    BY <1>1 DEF FilesWhole, Load
  <1>6. QED BY <1>2, <1>3, <1>4, <1>5

(* A closure that goes on leaves the closures as they are to each other. *)
LEMMA ClosuresKept ==
    ASSUME Closures, NEW c \in Callers, Busy(c), Busy(c)',
           \A b \in Callers \ {c} : job'[b] = job[b],
           UNCHANGED <<writer, dropped, overtaken, up>>
    PROVE  Closures'
  <1>1. \A b \in Callers : Busy(b)' <=> Busy(b)
    BY DEF Busy
  <1>2. \A b \in Callers : ~Busy(b)' => job'[b].inode = job[b].inode
    OBVIOUS
  <1>3. QED BY <1>1, <1>2 DEF Closures

(* A closure's step before the rename keeps the file and the memory as they are
   to each other. *)
LEMMA FollowsKept ==
    ASSUME FileInv, NEW c \in Callers, Busy(c), job[c].at # "sync_dir",
           job'[c].at # "sync_dir", job'[c].value = job[c].value,
           \A b \in Callers \ {c} : job'[b] = job[b],
           file \notin stale => Load(file, content)' = Load(file, content),
           file \in shared' <=> file \in shared,
           file \in stale' <=> file \in stale,
           UNCHANGED <<live, writer, dropped, overtaken, up, cancels, file>>
    PROVE  Follows'
  <1>1. \A b \in Callers : /\ Landed(b)' <=> Landed(b)
                           /\ job'[b].value = job[b].value
                           /\ Busy(b)' => Busy(b)
    BY DEF Busy, Landed
  <1>2. OneWrite(live)' = OneWrite(live)
    BY DEF OneWrite
  <1>3. file \notin stale => AtMostAhead' = AtMostAhead
    BY <1>2 DEF AtMostAhead
  <1>4. QED BY <1>1, <1>2, <1>3 DEF FileInv, Follows

LEMMA FileMutate ==
    ASSUME FileInv, NEW c \in Callers, Mutate(c), TypeOK'
    PROVE  FileInv'
  <1>1. PICK value \in OneWrite(live) :
          job' = [job EXCEPT ![c] = [at |-> "create", inode |-> None, value |-> value]]
    BY DEF Mutate
  <1>2. /\ job'[c] = [at |-> "create", inode |-> None, value |-> value]
        /\ \A b \in Callers \ {c} : job'[b] = job[b]
    BY <1>1 DEF FileInv, TypeOK
  <1>3. ~Busy(c) /\ job[c].inode = None /\ c \notin dropped /\ writer = None
    BY DEF FileInv, Closures, Mutate, Running, Busy
  <1>4. \A b \in Callers : Busy(b) => b \in overtaken'
    BY RegistryFileAssumption, <1>3 DEF FileInv, Closures, Mutate
  <1>5. Closures'
    <2>1. \A b \in Callers \ {c} : Busy(b)' <=> Busy(b)
      BY <1>2 DEF Busy
    <2>2. Busy(c)' /\ writer' = c /\ dropped' = dropped /\ up' = "up" /\ up = "up"
      BY <1>2 DEF Mutate, Busy, Running
    <2>3. QED BY <1>2, <1>3, <1>4, <2>1, <2>2, RegistryFileAssumption DEF FileInv, Closures
  <1>6. Stages'
    <2>1. UNCHANGED <<tmp, file, synced, content, flushed, shared, stale>>
      BY DEF Mutate, names, data, marks
    <2>2. ~Staging(c) /\ ~Staging(c)' /\ job'[c].inode = job[c].inode
      BY <1>2, <1>3 DEF Staging, Busy
    <2>3. \A b \in Callers : (Staging(b)' <=> Staging(b)) /\ job'[b].inode = job[b].inode
      BY <1>2, <2>2 DEF Staging
    <2>4. \A b \in Callers : Staging(b) /\ OwnFile(b) => OwnFile(b)'
      BY <1>2, <2>1, <2>2, <2>3 DEF OwnFile, OpenToOthers
    <2>5. QED BY <2>1, <2>3, <2>4 DEF FileInv, Stages
  <1>7. FilesWhole'
    BY DEF FileInv, FilesWhole, Mutate, names, data, marks, Load
  <1>8. Follows'
    <2>1. \A b \in Callers : ~Landed(b) /\ ~Landed(b)'
      BY <1>2, <1>3, RegistryFileAssumption DEF Landed, Mutate
    <2>2. AtMostAhead' = AtMostAhead
      BY DEF AtMostAhead, Mutate, names, data, Load, OneWrite
    <2>3. \A b \in Callers : Busy(b)' /\ b \notin overtaken' => job'[b].value \in OneWrite(live)
      BY <1>1, <1>2, <1>4 DEF Busy
    <2>4. UNCHANGED <<live, file, stale, dropped, cancels, up>>
      BY DEF Mutate, names, marks
    <2>5. OneWrite(live)' = OneWrite(live)
      BY <2>4 DEF OneWrite
    <2>6. QED BY <2>1, <2>2, <2>3, <2>4, <2>5 DEF FileInv, Follows
  <1>9. QED BY <1>5, <1>6, <1>7, <1>8 DEF FileInv

(* Making the temporary file touches no file of the registry's. *)
LEMMA CreateKeeps ==
    ASSUME FileInv, NEW c \in Callers, Create(c)
    PROVE  /\ file \notin stale => Load(file, content)' = Load(file, content)
           /\ Read(file, content)' = Read(file, content)
           /\ Read(synced, flushed)' = Read(synced, flushed)
           /\ FilesWhole'
           /\ file \in shared' <=> file \in shared
           /\ file \in stale' <=> file \in stale
  <1>1. PICK i \in Inodes :
          /\ i = tmp \/ i \notin {file, synced}
          /\ content' = [content EXCEPT ![i] = Empty]
          /\ flushed' = [flushed EXCEPT ![i] = Empty]
          /\ shared' \in {shared \cup {i}, shared \ {i}}
          /\ stale' = stale \ {i}
    BY DEF Create
  <1>2. i \notin {file, synced} /\ UNCHANGED <<file, synced>>
    BY <1>1 DEF FileInv, Stages, Create
  <1>3. \A f \in {file, synced} : /\ f \in shared' <=> f \in shared
                                  /\ f \in stale' <=> f \in stale
    BY <1>1, <1>2
  <1>4. QED BY <1>1, <1>2, <1>3, FilesKept DEF FileInv

LEMMA FileCreate ==
    ASSUME FileInv, NEW c \in Callers, Create(c), TypeOK'
    PROVE  FileInv'
  <1>1. PICK i \in Inodes :
          /\ i = tmp \/ (tmp = None /\ i \notin {file, synced} /\ ~OpenToOthers(c, i))
          /\ tmp' = i
          /\ content' = [content EXCEPT ![i] = Empty]
          /\ flushed' = [flushed EXCEPT ![i] = Empty]
          /\ job' = [job EXCEPT ![c].at = "write", ![c].inode = i]
          /\ shared' = IF OpenToOthers(c, i) THEN shared \cup {i} ELSE shared \ {i}
          /\ stale' = stale \ {i}
    BY DEF Create
  <1>2. /\ job'[c].at = "write" /\ job'[c].inode = i /\ job'[c].value = job[c].value
        /\ \A b \in Callers \ {c} : job'[b] = job[b]
    BY <1>1 DEF FileInv, TypeOK, Jobs
  <1>3. Busy(c) /\ Busy(c)' /\ ~Staging(c) /\ Staging(c)'
    BY <1>2 DEF Create, Running, Busy, Staging
  <1>4. i \notin {file, synced}
    BY <1>1 DEF FileInv, Stages
  <1>5. Closures'
    BY <1>2, <1>3, ClosuresKept DEF FileInv, Create
  <1>6. Stages'
    <2>1. UNCHANGED <<file, synced>>
      BY DEF Create
    <2>2. \A b \in Callers \ {c} : Staging(b)' <=> Staging(b)
      BY <1>2 DEF Staging
    <2>3. i \in shared' => \E b \in Callers \ {c} : Staging(b)' /\ job'[b].inode = i
      <3>1. SUFFICES ASSUME OpenToOthers(c, i)
                     PROVE  \E b \in Callers \ {c} : Staging(b)' /\ job'[b].inode = i
        BY <1>1
      <3>2. PICK b \in Callers : Staging(b) /\ job[b].inode = i
        BY <1>1, <3>1 DEF FileInv, Stages
      <3>3. QED BY <1>2, <1>3, <2>2, <3>2
    <2>4. ASSUME NEW b \in Callers \ {c}, Staging(b)', job'[b].inode \notin shared'
          PROVE  OwnFile(b)'
      <3>1. job'[b] = job[b] /\ Staging(b) /\ job[b].inode \in Inodes
        BY <1>2, <2>2, <2>4 DEF FileInv, Stages
      <3>2. job[b].inode # i
        BY <1>1, <2>4, <3>1 DEF OpenToOthers
      <3>3. OwnFile(b)
        BY <1>1, <2>4, <3>1, <3>2 DEF FileInv, Stages
      <3>4. ~OpenToOthers(b, job[b].inode)'
        BY <1>2, <3>1, <3>2, <3>3 DEF OwnFile, OpenToOthers
      <3>5. content'[job[b].inode] = content[job[b].inode]
            /\ flushed'[job[b].inode] = flushed[job[b].inode]
        BY <1>1, <3>1, <3>2 DEF FileInv, TypeOK
      <3>6. QED BY <2>1, <3>1, <3>3, <3>4, <3>5 DEF OwnFile
    <2>5. i \notin shared' => OwnFile(c)'
      <3>1. content'[i] = Empty
        BY <1>1 DEF FileInv, TypeOK
      <3>2. ~OpenToOthers(c, i) => ~OpenToOthers(c, job[c].inode)'
        BY <1>2 DEF OpenToOthers
      <3>3. QED BY <1>1, <1>2, <1>4, <2>1, <3>1, <3>2 DEF OwnFile
    <2>6. ASSUME NEW b \in Callers, Staging(b)'
          PROVE  /\ job'[b].inode \in Inodes
                 /\ job'[b].inode = file' => file' \in stale'
                 /\ job'[b].inode \notin shared' => OwnFile(b)'
      BY <1>1, <1>2, <1>4, <2>1, <2>2, <2>4, <2>5, <2>6 DEF FileInv, Stages
    <2>7. QED BY <1>1, <1>2, <1>3, <1>4, <2>1, <2>3, <2>6 DEF Stages
  <1>7. Follows'
    BY <1>2, <1>3, CreateKeeps, FollowsKept DEF Create, Running, bounds
  <1>8. QED BY <1>5, <1>6, <1>7, CreateKeeps DEF FileInv

(* Writing and flushing go to the closure's own file or to a shared one. *)
LEMMA StepKeeps ==
    ASSUME FileInv, NEW c \in Callers, Staging(c), NEW bytes, NEW disk,
           content' = [content EXCEPT ![job[c].inode] = bytes] \/ content' = content,
           flushed' = [flushed EXCEPT ![job[c].inode] = disk] \/ flushed' = flushed,
           UNCHANGED <<file, synced, marks>>
    PROVE  /\ file \notin stale => Load(file, content)' = Load(file, content)
           /\ Read(file, content)' = Read(file, content)
           /\ Read(synced, flushed)' = Read(synced, flushed)
           /\ FilesWhole'
  <1>1. /\ job[c].inode \in Inodes
        /\ job[c].inode = file => job[c].inode \in stale
        /\ job[c].inode \in {file, synced} => job[c].inode \in shared
    BY DEF FileInv, Stages, OwnFile
  <1>2. \A f \in {file, synced} : /\ f \in shared' <=> f \in shared
                                  /\ f \in stale' <=> f \in stale
    BY DEF marks
  <1>3. QED BY <1>1, <1>2, FilesKept DEF FileInv

(* They leave the other closures' files alone, and the closure's own is as it
   should be if it was not shared. *)
LEMMA StagesKept ==
    ASSUME FileInv, NEW c \in Callers, Staging(c), Staging(c)', NEW bytes, NEW disk,
           content' = [content EXCEPT ![job[c].inode] = bytes] \/ content' = content,
           flushed' = [flushed EXCEPT ![job[c].inode] = disk] \/ flushed' = flushed,
           job'[c].inode = job[c].inode,
           \A b \in Callers \ {c} : job'[b] = job[b],
           UNCHANGED <<names, marks>>,
           job[c].inode \notin shared =>
             /\ job'[c].at = "write" => content'[job[c].inode] = Empty
             /\ job'[c].at \in {"sync", "rename"} =>
                  content'[job[c].inode] = Whole(job'[c].value)
             /\ job'[c].at = "rename" => flushed'[job[c].inode] = content'[job[c].inode]
    PROVE  Stages'
  <1>1. \A b \in Callers : job'[b].inode = job[b].inode /\ (Staging(b)' <=> Staging(b))
    BY DEF Staging
  <1>2. UNCHANGED <<tmp, file, synced, shared, stale>>
    BY DEF names, marks
  <1>3. \A b \in Callers : OpenToOthers(b, job[b].inode)' <=> OpenToOthers(b, job[b].inode)
    BY <1>1 DEF OpenToOthers
  <1>4. ASSUME NEW b \in Callers \ {c}, Staging(b), job[b].inode \notin shared
        PROVE  OwnFile(b)'
    <2>1. OwnFile(b) /\ job[b].inode \in Inodes
      BY <1>4 DEF FileInv, Stages
    <2>2. job[b].inode # job[c].inode
      BY <2>1 DEF OwnFile, OpenToOthers
    <2>3. content'[job[b].inode] = content[job[b].inode]
          /\ flushed'[job[b].inode] = flushed[job[b].inode]
      BY <2>1, <2>2 DEF FileInv, TypeOK
    <2>4. QED BY <1>2, <1>3, <2>1, <2>3 DEF OwnFile
  <1>5. job[c].inode \notin shared => OwnFile(c)'
    BY <1>2, <1>3 DEF FileInv, Stages, OwnFile
  <1>6. QED BY <1>1, <1>2, <1>4, <1>5 DEF FileInv, Stages

LEMMA FileWrite ==
    ASSUME FileInv, NEW c \in Callers, Write(c), TypeOK'
    PROVE  FileInv'
  <1>1. PICK bytes \in {Whole(job[c].value), Garbled} :
          /\ bytes = Garbled => content[job[c].inode] \notin {Empty, Whole(job[c].value)}
          /\ content' = [content EXCEPT ![job[c].inode] = bytes]
    BY DEF Write
  <1>2. /\ job'[c].at = "sync" /\ job'[c].value = job[c].value
        /\ job'[c].inode = job[c].inode
        /\ \A b \in Callers \ {c} : job'[b] = job[b]
    BY DEF Write, FileInv, TypeOK, Jobs
  <1>3. Busy(c) /\ Busy(c)' /\ Staging(c) /\ Staging(c)' /\ job[c].at = "write"
    BY <1>2 DEF Write, Running, Busy, Staging
  <1>4. flushed' = flushed /\ UNCHANGED <<names, marks, file, synced>>
    BY DEF Write, names
  <1>5. /\ file \notin stale => Load(file, content)' = Load(file, content)
        /\ FilesWhole'
    BY <1>1, <1>3, <1>4, StepKeeps
  <1>6. Closures'
    BY <1>2, <1>3, ClosuresKept DEF FileInv, Write
  <1>7. Stages'
    <2>1. job[c].inode \notin shared => content'[job[c].inode] = Whole(job[c].value)
      BY <1>1, <1>3 DEF FileInv, TypeOK, Stages, OwnFile
    <2>2. QED BY <1>1, <1>2, <1>3, <1>4, <2>1, StagesKept
  <1>8. Follows'
    BY <1>2, <1>3, <1>5, FollowsKept DEF Write, bounds, names, marks
  <1>9. QED BY <1>5, <1>6, <1>7, <1>8 DEF FileInv

LEMMA FileSync ==
    ASSUME FileInv, NEW c \in Callers, Sync(c), TypeOK'
    PROVE  FileInv'
  <1>1. /\ flushed' = [flushed EXCEPT ![job[c].inode] = content[job[c].inode]]
        /\ content' = content
    BY DEF Sync
  <1>2. /\ job'[c].at = "rename" /\ job'[c].value = job[c].value
        /\ job'[c].inode = job[c].inode
        /\ \A b \in Callers \ {c} : job'[b] = job[b]
    BY DEF Sync, FileInv, TypeOK, Jobs
  <1>3. Busy(c) /\ Busy(c)' /\ Staging(c) /\ Staging(c)' /\ job[c].at = "sync"
    BY <1>2 DEF Sync, Running, Busy, Staging
  <1>4. UNCHANGED <<names, marks, file, synced>>
    BY DEF Sync, names
  <1>5. /\ file \notin stale => Load(file, content)' = Load(file, content)
        /\ FilesWhole'
    BY <1>1, <1>3, <1>4, StepKeeps
  <1>6. Closures'
    BY <1>2, <1>3, ClosuresKept DEF FileInv, Sync
  <1>7. Stages'
    <2>1. job[c].inode \notin shared =>
            /\ content'[job[c].inode] = Whole(job[c].value)
            /\ flushed'[job[c].inode] = content'[job[c].inode]
      BY <1>1, <1>3 DEF FileInv, TypeOK, Stages, OwnFile
    <2>2. QED BY <1>1, <1>2, <1>3, <1>4, <2>1, StagesKept
  <1>8. Follows'
    BY <1>2, <1>3, <1>5, FollowsKept DEF Sync, bounds, names, marks
  <1>9. QED BY <1>5, <1>6, <1>7, <1>8 DEF FileInv

(* What a rename puts in place is stale, or what its closure was to save. *)
LEMMA RenameLands ==
    ASSUME FileInv, NEW c \in Callers, Rename(c)
    PROVE  /\ tmp \in Inodes /\ tmp \notin {file, synced}
           /\ tmp \in stale' => overtaken # {}
           /\ tmp \notin shared' =>
                /\ tmp \notin shared
                /\ job[c].inode = tmp
                /\ content[tmp] = Whole(job[c].value) /\ flushed[tmp] = content[tmp]
           /\ tmp \notin stale' =>
                /\ tmp \notin shared' /\ tmp \notin stale
                /\ c \notin overtaken
                /\ job[c].value \in OneWrite(live)
  <1>1. tmp \in Inodes /\ tmp \notin {file, synced}
    BY RegistryFileAssumption DEF FileInv, TypeOK, Stages, Rename
  <1>2. Busy(c) /\ Staging(c) /\ job[c].at = "rename"
    BY DEF Rename, Running, Busy, Staging
  <1>3. PICK d \in Callers : Staging(d) /\ job[d].inode = tmp
    BY <1>1 DEF FileInv, Stages
  <1>4. tmp \notin shared' =>
          /\ tmp \notin shared
          /\ job[c].inode = tmp
          /\ content[tmp] = Whole(job[c].value) /\ flushed[tmp] = content[tmp]
    <2>1. SUFFICES ASSUME tmp \notin shared'
                   PROVE  /\ tmp \notin shared
                          /\ job[c].inode = tmp
                          /\ content[tmp] = Whole(job[c].value) /\ flushed[tmp] = content[tmp]
      OBVIOUS
    <2>2. tmp \notin shared /\ ~OpenToOthers(c, tmp)
      BY <2>1 DEF Rename
    <2>3. d = c
      BY <1>3, <2>2 DEF OpenToOthers
    <2>4. OwnFile(c)
      BY <1>2, <1>3, <2>2, <2>3 DEF FileInv, Stages
    <2>5. QED BY <1>2, <1>3, <2>2, <2>3, <2>4 DEF OwnFile
  <1>5. tmp \notin stale' => tmp \notin shared' /\ tmp \notin stale /\ c \notin overtaken
    BY DEF Rename
  <1>6. c \notin overtaken => job[c].value \in OneWrite(live)
    BY <1>2 DEF FileInv, Follows
  <1>7. tmp \in shared' => overtaken # {}
    <2>1. CASE tmp \in shared
      <3>1. PICK a, b \in Callers : a # b /\ Staging(a) /\ Staging(b)
        BY <2>1 DEF FileInv, Stages
      <3>2. Busy(a) /\ Busy(b)
        BY <3>1 DEF Staging, Busy
      <3>3. QED BY <3>1, <3>2 DEF FileInv, Closures
    <2>2. CASE OpenToOthers(c, tmp)
      <3>1. PICK b \in Callers \ {c} : job[b].inode = tmp
        BY <2>2 DEF OpenToOthers
      <3>2. Busy(b)
        BY <1>1, <3>1, RegistryFileAssumption DEF FileInv, Closures
      <3>3. QED BY <1>2, <3>1, <3>2 DEF FileInv, Closures
    <2>3. QED BY <2>1, <2>2 DEF Rename
  <1>8. tmp \in stale' => overtaken # {}
    <2>1. CASE c \in overtaken
      BY <2>1
    <2>2. CASE c \notin overtaken /\ tmp \notin shared'
      <3>1. stale' = stale
        BY <2>2 DEF Rename
      <3>2. tmp \notin stale
        BY <1>1 DEF FileInv, Stages
      <3>3. QED BY <3>1, <3>2
    <2>3. QED BY <1>7, <2>1, <2>2
  <1>9. QED BY <1>1, <1>4, <1>5, <1>6, <1>8

(* The rename puts a file in place that is whole and on the disk, or one that
   two closures wrote. *)
LEMMA FileRename ==
    ASSUME FileInv, NEW c \in Callers, Rename(c), TypeOK'
    PROVE  FileInv'
  <1>1. /\ job'[c].at = "sync_dir" /\ job'[c].inode = job[c].inode
        /\ job'[c].value = job[c].value
        /\ \A b \in Callers \ {c} : job'[b] = job[b]
    BY DEF Rename, FileInv, TypeOK, Jobs
  <1>2. Busy(c) /\ Busy(c)' /\ Staging(c) /\ ~Staging(c)'
    BY <1>1 DEF Rename, Running, Busy, Staging
  <1>3. /\ file' = tmp /\ tmp' = None /\ synced' = synced
        /\ UNCHANGED <<live, writer, dropped, content, flushed, up, cancels, overtaken>>
        /\ shared' \in {shared, shared \cup {tmp}}
        /\ OpenToOthers(c, tmp) => tmp \in shared'
        /\ tmp \in shared' => tmp \in stale'
        /\ stale' \in {stale, stale \cup {tmp}}
    BY DEF Rename, data, bounds
  <1>4. /\ Load(file, content)' = content[tmp]
        /\ Load(file, flushed)' = flushed[tmp]
    BY <1>3, RenameLands, RegistryFileAssumption DEF Load
  <1>5. Closures'
    BY <1>1, <1>2, <1>3, ClosuresKept DEF FileInv
  <1>6. Stages'
    <2>1. \A b \in Callers \ {c} : Staging(b)' <=> Staging(b)
      BY <1>1 DEF Staging
    <2>2. ASSUME NEW b \in Callers \ {c}, Staging(b)
          PROVE  /\ job[b].inode = tmp => tmp \in shared'
                 /\ job[b].inode \notin shared' => OwnFile(b)'
      <3>1. job[b].inode = tmp => tmp \in shared'
        BY <1>3, <2>2 DEF OpenToOthers
      <3>2. SUFFICES ASSUME job[b].inode \notin shared' PROVE OwnFile(b)'
        BY <3>1
      <3>3. OwnFile(b) /\ job[b].inode # tmp
        BY <1>3, <2>2, <3>1, <3>2 DEF FileInv, Stages
      <3>4. ~OpenToOthers(b, job[b].inode)'
        BY <1>1, <3>3 DEF OwnFile, OpenToOthers
      <3>5. QED BY <1>1, <1>3, <3>3, <3>4 DEF OwnFile
    <2>3. ASSUME NEW b \in Callers, Staging(b)'
          PROVE  /\ job'[b].inode \in Inodes
                 /\ job'[b].inode = file' => file' \in stale'
                 /\ job'[b].inode \notin shared' => OwnFile(b)'
      BY <1>1, <1>2, <1>3, <2>1, <2>2, <2>3 DEF FileInv, Stages
    <2>4. tmp' \notin Inodes /\ tmp' \notin shared'
      BY <1>3, RegistryFileAssumption DEF TypeOK
    <2>5. QED BY <2>3, <2>4 DEF Stages
  <1>7. FilesWhole'
    <2>1. ASSUME tmp \notin shared'
          PROVE  Load(file, content)'.kind = "whole" /\ Load(file, flushed)' = Load(file, content)'
      <3>1. content[tmp] = Whole(job[c].value) /\ flushed[tmp] = content[tmp]
        BY <2>1, RenameLands
      <3>2. QED BY <1>4, <3>1 DEF Whole
    <2>2. ASSUME synced \notin shared'
          PROVE  /\ Load(synced, content)'.kind = "whole"
                 /\ Load(synced, flushed)' = Load(synced, content)'
      BY <1>3, <2>2 DEF FileInv, FilesWhole, Load
    <2>3. QED BY <1>3, <2>1, <2>2 DEF FilesWhole, Load
  <1>8. Follows'
    <2>1. \A b \in Callers : job'[b].value = job[b].value /\ (Busy(b)' <=> Busy(b))
      BY <1>1, <1>2 DEF Busy
    <2>2. OneWrite(live)' = OneWrite(live)
      BY <1>3 DEF OneWrite
    <2>3. ASSUME file' \notin stale'
          PROVE  /\ c \notin overtaken
                 /\ file' \notin shared'
                 /\ Load(file, content)' = Whole(job[c].value)
                 /\ job[c].value \in OneWrite(live)
      BY <1>3, <1>4, <2>3, RenameLands
    <2>4. ASSUME file' \notin stale', NEW d \in Callers, Landed(d)'
          PROVE  d = c
      <3>1. Busy(d) /\ writer = d
        BY <1>3, <2>1, <2>4 DEF Landed, Busy
      <3>2. d \notin overtaken
        BY <3>1 DEF FileInv, TypeOK, Closures
      <3>3. QED BY <1>2, <2>3, <2>4, <3>1, <3>2 DEF FileInv, Closures
    <2>5. ASSUME file' \notin stale', ~Landed(c)' PROVE AtMostAhead'
      <3>1. c \in dropped
        BY <1>1, <1>2, <1>3, <2>5 DEF FileInv, Closures, Landed
      <3>2. cancels > 0
        BY <3>1 DEF FileInv, Follows
      <3>3. QED BY <1>3, <2>2, <2>3, <2>5, <3>2 DEF AtMostAhead
    <2>6. \A b \in Callers : Busy(b)' /\ b \notin overtaken' => job'[b].value \in OneWrite(live)'
      BY <1>3, <2>1, <2>2 DEF FileInv, Follows
    <2>7. dropped' # {} => cancels' > 0
      BY <1>3 DEF FileInv, Follows
    <2>8. QED BY <1>1, <2>3, <2>4, <2>5, <2>6, <2>7 DEF Follows
  <1>9. QED BY <1>5, <1>6, <1>7, <1>8 DEF FileInv

(* The end of a closure leaves the others as they are. *)
LEMMA AfterReturn ==
    ASSUME FileInv, NEW c \in Callers, Busy(c), Return(c), TypeOK', up' = up, up = "up"
    PROVE  /\ job'[c] = NoJob
           /\ \A b \in Callers \ {c} : job'[b] = job[b]
           /\ \A b \in Callers : /\ Busy(b)' <=> b # c /\ Busy(b)
                                 /\ Staging(b)' <=> b # c /\ Staging(b)
                                 /\ Landed(b)' <=> b # c /\ Landed(b)
           /\ Closures'
  <1>1. \A b \in Callers : job'[b] = IF b = c THEN NoJob ELSE job[b]
    BY DEF Return, FileInv, TypeOK
  <1>2. \A b \in Callers : /\ Busy(b)' <=> b # c /\ Busy(b)
                           /\ Staging(b)' <=> b # c /\ Staging(b)
    BY <1>1 DEF NoJob, Busy, Staging
  <1>3. \A b \in Callers : writer' = b <=> b # c /\ writer = b
    BY RegistryFileAssumption DEF Return
  <1>4. \A b \in Callers : Landed(b)' <=> b # c /\ Landed(b)
    BY <1>1, <1>3 DEF Landed, NoJob
  <1>5. \A b \in Callers : /\ b \in dropped' <=> b # c /\ b \in dropped
                           /\ b \in overtaken' <=> b # c /\ b \in overtaken
    BY DEF Return
  <1>6. Closures'
    <2>1. \A b \in Callers : ~Busy(b)' => job'[b].inode = None
      BY <1>1, <1>2 DEF FileInv, Closures, NoJob
    <2>2. QED BY <1>2, <1>3, <1>5, <2>1 DEF FileInv, Closures
  <1>7. QED BY <1>1, <1>2, <1>4, <1>6

(* It leaves the files of the others theirs. *)
LEMMA StagesAfterReturn ==
    ASSUME FileInv, NEW c \in Callers, Busy(c), Return(c), TypeOK', up' = up, up = "up",
           UNCHANGED <<file, data, marks>>, synced' \in {synced, file},
           tmp' = None \/ (tmp' = tmp /\ ~Staging(c))
    PROVE  Stages'
  <1>1. UNCHANGED <<content, flushed, shared, stale>>
    BY DEF data, marks
  <1>2. ASSUME NEW b \in Callers, Staging(b)'
        PROVE  /\ b # c /\ job'[b] = job[b] /\ Staging(b)
               /\ job'[b].inode \in Inodes
               /\ job'[b].inode = file' => file' \in stale'
               /\ job'[b].inode \notin shared' => OwnFile(b)'
    <2>1. b # c /\ job'[b] = job[b] /\ Staging(b)
      BY <1>2, AfterReturn
    <2>2. /\ job[b].inode \in Inodes
          /\ job[b].inode = file => file \in stale
          /\ job[b].inode \notin shared => OwnFile(b)
      BY <2>1 DEF FileInv, Stages
    <2>3. ~OpenToOthers(b, job[b].inode) => ~OpenToOthers(b, job[b].inode)'
      <3>1. \A a \in Callers : job'[a].inode \in {job[a].inode, None}
        BY AfterReturn DEF NoJob
      <3>2. QED BY <2>1, <2>2, <3>1, RegistryFileAssumption DEF OpenToOthers
    <2>4. QED BY <1>1, <2>1, <2>2, <2>3 DEF OwnFile
  <1>3. CASE tmp' = None
    <2>1. tmp' \notin Inodes /\ tmp' \notin shared'
      BY <1>3, RegistryFileAssumption DEF TypeOK
    <2>2. QED BY <1>2, <2>1 DEF Stages
  <1>4. CASE tmp' = tmp /\ ~Staging(c)
    <2>1. \A b \in Callers : Staging(b) => b # c /\ Staging(b)' /\ job'[b].inode = job[b].inode
      BY <1>4, AfterReturn
    <2>2. tmp \in Inodes => /\ tmp \notin {file', synced'} \cup stale'
                           /\ \E b \in Callers : Staging(b)' /\ job'[b].inode = tmp
      BY <1>1, <2>1 DEF FileInv, Stages
    <2>3. tmp \in shared =>
            \E a, b \in Callers :
              a # b /\ Staging(a)' /\ Staging(b)' /\ job'[a].inode = tmp /\ job'[b].inode = tmp
      BY <2>1 DEF FileInv, Stages
    <2>4. QED BY <1>1, <1>2, <1>4, <2>2, <2>3 DEF Stages
  <1>5. QED BY <1>3, <1>4

LEMMA FileSyncDir ==
    ASSUME FileInv, NEW c \in Callers, SyncDir(c), TypeOK'
    PROVE  FileInv'
  <1>1. /\ Busy(c) /\ ~Staging(c) /\ job[c].at = "sync_dir"
        /\ up = "up" /\ up' = up /\ Return(c)
    BY DEF SyncDir, Running, Busy, Staging
  <1>2. UNCHANGED <<file, content, flushed, shared, stale, cancels>>
    BY DEF SyncDir, data, marks, bounds
  <1>3. Closures'
    BY <1>1, AfterReturn
  <1>4. Stages'
    BY <1>1, StagesAfterReturn DEF SyncDir
  <1>5. FilesWhole'
    BY <1>2 DEF FileInv, FilesWhole, SyncDir, Load
  <1>6. Follows'
    <2>1. dropped' # {} => cancels' > 0
      BY <1>1, <1>2 DEF FileInv, Follows, Return
    <2>2. Load(file, content)' = Load(file, content)
      BY <1>2 DEF Load
    <2>3. CASE c \in dropped
      <3>1. live' = live
        BY <2>3 DEF SyncDir
      <3>2. ~Landed(c)
        BY <2>3 DEF FileInv, Closures, Landed
      <3>3. AtMostAhead' = AtMostAhead /\ OneWrite(live)' = OneWrite(live)
        BY <1>2, <2>2, <3>1 DEF AtMostAhead, OneWrite
      <3>4. \A b \in Callers : Busy(b)' /\ b \notin overtaken' =>
              job'[b].value \in OneWrite(live)'
        BY <1>1, <3>3, AfterReturn DEF FileInv, Follows, Return
      <3>5. QED BY <1>1, <1>2, <2>1, <2>2, <3>2, <3>3, <3>4, AfterReturn DEF FileInv, Follows
    <2>4. CASE c \notin dropped
      <3>1. writer = c /\ Landed(c) /\ live' = job[c].value
        BY <1>1, <2>4 DEF FileInv, Closures, Landed, SyncDir
      <3>2. \A b \in Callers : ~Landed(b)'
        BY <1>1, <3>1, AfterReturn DEF Landed
      <3>3. file \notin stale => AtMostAhead'
        BY <2>2, <3>1 DEF FileInv, Follows, AtMostAhead
      <3>4. \A b \in Callers : Busy(b)' => b \in overtaken'
        <4>1. c \notin overtaken
          BY <2>4 DEF FileInv, TypeOK
        <4>2. QED BY <1>1, <4>1, AfterReturn DEF FileInv, Closures, Return
      <3>5. QED BY <1>2, <2>1, <3>2, <3>3, <3>4 DEF Follows
    <2>5. QED BY <2>3, <2>4
  <1>7. QED BY <1>3, <1>4, <1>5, <1>6 DEF FileInv

LEMMA FileStageFails ==
    ASSUME FileInv, NEW c \in Callers, StageFails(c), TypeOK'
    PROVE  FileInv'
  <1>1. Busy(c) /\ ~Landed(c) /\ up = "up" /\ up' = up /\ Return(c)
    BY DEF StageFails, Running, Busy, Landed
  <1>2. UNCHANGED <<live, file, synced, content, flushed, shared, stale, cancels>>
    BY DEF StageFails, data, marks, bounds
  <1>3. Closures'
    BY <1>1, AfterReturn
  <1>4. Stages'
    BY <1>1, StagesAfterReturn DEF StageFails
  <1>5. FilesWhole'
    BY <1>2 DEF FileInv, FilesWhole, Load
  <1>6. Follows'
    <2>1. dropped' # {} => cancels' > 0
      BY <1>1, <1>2 DEF FileInv, Follows, Return
    <2>2. /\ Load(file, content)' = Load(file, content)
          /\ AtMostAhead' = AtMostAhead /\ OneWrite(live)' = OneWrite(live)
      BY <1>2 DEF Load, AtMostAhead, OneWrite
    <2>3. \A b \in Callers : Busy(b)' /\ b \notin overtaken' =>
            job'[b].value \in OneWrite(live)'
      BY <1>1, <2>2, AfterReturn DEF FileInv, Follows, Return
    <2>4. QED BY <1>1, <1>2, <2>1, <2>2, <2>3, AfterReturn DEF FileInv, Follows
  <1>7. QED BY <1>3, <1>4, <1>5, <1>6 DEF FileInv

LEMMA FileCancel ==
    ASSUME FileInv, NEW c \in Callers, Cancel(c), TypeOK'
    PROVE  FileInv'
  <1>1. /\ writer = c /\ writer' = None /\ dropped' = dropped \cup {c} /\ up = "up"
        /\ UNCHANGED <<job, live, tmp, file, synced, content, flushed, up, overtaken,
                       shared, stale>>
    BY DEF Cancel, names, data, marks
  <1>2. \A b \in Callers : (Busy(b)' <=> Busy(b)) /\ (Staging(b)' <=> Staging(b))
    BY <1>1 DEF Busy, Staging
  <1>3. Closures'
    BY <1>1, <1>2, RegistryFileAssumption DEF FileInv, Closures
  <1>4. Stages'
    <2>1. \A b \in Callers : OwnFile(b)' <=> OwnFile(b)
      BY <1>1 DEF OwnFile, OpenToOthers
    <2>2. QED BY <1>1, <1>2, <2>1 DEF FileInv, Stages
  <1>5. FilesWhole'
    BY <1>1 DEF FileInv, FilesWhole, Load
  <1>6. Follows'
    <2>1. cancels' > 0
      BY RegistryFileAssumption DEF FileInv, TypeOK, Cancel
    <2>2. OneWrite(live)' = OneWrite(live) /\ Load(file, content)' = Load(file, content)
      BY <1>1 DEF OneWrite, Load
    <2>3. \A b \in Callers : ~Landed(b)'
      BY <1>1, RegistryFileAssumption DEF Landed
    <2>4. ASSUME file \notin stale PROVE AtMostAhead'
      <3>1. CASE Landed(c)
        <4>1. Load(file, content) = Whole(job[c].value)
          BY <2>4, <3>1 DEF FileInv, Follows
        <4>2. Busy(c) /\ c \notin overtaken
          BY <1>1 DEF FileInv, TypeOK, Closures
        <4>3. job[c].value \in OneWrite(live)
          BY <4>2 DEF FileInv, Follows
        <4>4. QED BY <2>1, <2>2, <4>1, <4>3 DEF AtMostAhead
      <3>2. CASE ~Landed(c)
        <4>1. \A b \in Callers : ~Landed(b)
          BY <1>1, <3>2 DEF Landed
        <4>2. AtMostAhead
          BY <1>1, <2>4, <4>1 DEF FileInv, Follows
        <4>3. QED BY <1>1, <2>1, <2>2, <4>2 DEF AtMostAhead
      <3>3. QED BY <3>1, <3>2
    <2>5. \A b \in Callers : Busy(b)' /\ b \notin overtaken' =>
            job'[b].value \in OneWrite(live)'
      BY <1>1, <1>2, <2>2 DEF FileInv, Follows
    <2>6. QED BY <1>1, <2>1, <2>3, <2>4, <2>5 DEF Follows
  <1>7. QED BY <1>3, <1>4, <1>5, <1>6 DEF FileInv

(* A daemon that ends leaves no closure, and finds either file as it was. *)
LEMMA FileHalt ==
    ASSUME FileInv, Halt, TypeOK', file' \in {file, synced}, synced' \in {file, synced},
           flushed' = flushed, content' \in {content, flushed}
    PROVE  FileInv'
  <1>1. \A c \in Callers :
          job'[c].inode = None /\ ~Busy(c)' /\ ~Staging(c)' /\ ~Landed(c)'
    BY DEF Halt, NoJob, Busy, Staging, Landed
  <1>2. Closures'
    BY <1>1, RegistryFileAssumption DEF Closures, Halt
  <1>3. Stages'
    <2>1. tmp' \notin Inodes /\ tmp' \notin shared'
      BY RegistryFileAssumption DEF Halt, TypeOK
    <2>2. QED BY <1>1, <2>1 DEF Stages
  <1>4. FilesWhole'
    BY DEF FileInv, FilesWhole, Load, Halt, marks
  <1>5. Follows'
    BY <1>1 DEF Follows, Halt
  <1>6. QED BY <1>2, <1>3, <1>4, <1>5 DEF FileInv

LEMMA FileStart ==
    ASSUME FileInv, Start, TypeOK'
    PROVE  FileInv'
  <1>1. /\ UNCHANGED <<writer, job, dropped, tmp, file, synced, content, flushed, cancels,
                       overtaken, shared>>
        /\ stale' \subseteq stale
    BY DEF Start, names, data, bounds
  <1>2. \A c \in Callers : /\ ~Busy(c) /\ ~Staging(c) /\ ~Landed(c)
                           /\ ~Busy(c)' /\ ~Staging(c)' /\ ~Landed(c)'
    BY <1>1 DEF FileInv, Closures, Start, Busy, Staging, Landed
  <1>3. Closures'
    BY <1>1, <1>2 DEF FileInv, Closures
  <1>4. Stages'
    BY <1>1, <1>2 DEF FileInv, Stages
  <1>5. FilesWhole'
    BY <1>1 DEF FileInv, FilesWhole, Load
  <1>6. Follows'
    <2>1. ASSUME up' = "up" PROVE AtMostAhead'
      <3>1. Load(file, content).kind = "whole" /\ live' = Load(file, content).ids
        BY <2>1 DEF Start
      <3>2. Load(file, content) \in Contents
        BY DEF FileInv, TypeOK, Load, Contents, Registries
      <3>3. Load(file, content) = Whole(live')
        BY <3>1, <3>2 DEF Contents, Whole, Empty, Garbled
      <3>4. QED BY <1>1, <3>3 DEF AtMostAhead, Load
    <2>2. QED BY <1>1, <1>2, <2>1 DEF FileInv, Follows
  <1>7. QED BY <1>3, <1>4, <1>5, <1>6 DEF FileInv

LEMMA FileStep == FileInv /\ [Next]_vars => FileInv'
  <1>1. SUFFICES ASSUME FileInv, [Next]_vars PROVE FileInv'
    OBVIOUS
  <1>2. TypeOK'
    BY <1>1, TypeStep DEF FileInv
  <1>3. CASE UNCHANGED vars
    BY <1>1, <1>2, <1>3
    DEF FileInv, Closures, Stages, FilesWhole, Follows, Busy, Staging, OwnFile, OpenToOthers,
        Landed, AtMostAhead, Load, OneWrite, vars
  <1>4. CASE Kill
    BY <1>1, <1>2, <1>4, FileHalt DEF Kill, data
  <1>5. CASE PowerLoss
    BY <1>1, <1>2, <1>5, FileHalt DEF PowerLoss, data
  <1>6. CASE Next
    BY <1>1, <1>2, <1>4, <1>5, <1>6, Steps, FileMutate, FileCreate, FileWrite, FileSync,
       FileRename, FileSyncDir, FileStageFails, FileCancel, FileStart
  <1>7. QED BY <1>1, <1>3, <1>6

LEMMA FileInvariant == Spec => []FileInv
  BY FileInit, FileStep, PTL DEF Spec

-----------------------------------------------------------------------------
(* What follows *)

(* Whatever stops the daemon, and whatever closures of dropped mutations still
   run, a databases.toml that one closure alone wrote is whole: a start never
   finds it truncated or half written. *)
THEOREM FileNeverTorn == Spec => []OnlySharedTorn
  <1>1. FileInv => OnlySharedTorn
    BY DEF FileInv, FilesWhole, OnlySharedTorn
  <1>2. QED BY <1>1, FileInvariant, PTL

(* Between mutations the file and the registry in memory are the same, but for
   the one write of a dropped mutation, unless the closure of an overtaken one
   put that file in place or had a hand in it. *)
THEOREM FileFollowsMemory == Spec => []FileHoldsLive
  <1>1. FileInv => FileHoldsLive
    <2>1. SUFFICES ASSUME FileInv, up = "up", writer = None, file \notin stale
                   PROVE  AtMostAhead
      BY DEF FileHoldsLive, AtMostAhead
    <2>2. \A c \in Callers : ~Landed(c)
      BY <2>1, RegistryFileAssumption DEF Landed
    <2>3. QED BY <2>1, <2>2 DEF FileInv, Follows
  <1>2. QED BY <1>1, FileInvariant, PTL

LEMMA AtomicInit == Init => Atomic!Init
  <1>1. SUFFICES ASSUME Init PROVE Atomic!Init
    OBVIOUS
  <1>2. Load(file, content) = Whole(live) /\ flushed = content /\ synced = file
    <2>1. CASE live = {} /\ file = None
      BY <1>1, <2>1 DEF Init, Load
    <2>2. CASE \E i \in Inodes :
                  /\ file = i
                  /\ content = [[j \in Inodes |-> Empty] EXCEPT ![i] = Whole(live)]
      BY <1>1, <2>2, RegistryFileAssumption DEF Init, Load
    <2>3. QED BY <1>1, <2>1, <2>2 DEF Init
  <1>3. Read(file, content) = live /\ Read(synced, flushed) = live
    BY <1>1, <1>2 DEF Init, Read, Whole
  <1>4. (overtaken # {}) = FALSE
    BY <1>1 DEF Init
  <1>5. QED BY <1>1, <1>3, <1>4 DEF Init, Atomic!Init, Registries

(* On the disk, the registry's files are what a read finds, as far as known. *)
LEMMA ReadsAgree ==
    ASSUME FilesWhole, NEW i \in {file, synced}
    PROVE  Read(i, flushed) = Read(i, content)
  BY DEF FilesWhole, Read

(* A start, or a call that returns, where the file is known and where not. *)
LEMMA AtomicFollow ==
    ASSUME live' \in SUBSET Ids,
           Read(file, content) \in {None, live'},
           Read(file, content)' \in {Read(file, content), live'},
           Read(synced, flushed)' \in {Read(synced, flushed), Read(file, content)'}
    PROVE  Atomic!Follow \/ Atomic!Adopt
  BY DEF Atomic!Follow, Atomic!Adopt

(* A step that leaves what is known of the files and the memory alone. *)
LEMMA AtomicSame ==
    ASSUME Read(file, content)' = Read(file, content),
           Read(synced, flushed)' = Read(synced, flushed),
           live' = live
    PROVE  UNCHANGED Atomic!registers
  BY DEF Atomic!registers

LEMMA AtomicRename ==
    ASSUME FileInv, NEW c \in Callers, Rename(c)
    PROVE  Atomic!Land \/ Atomic!Cross
  <1>1. /\ file' = tmp /\ UNCHANGED <<live, synced, content, flushed>>
        /\ shared' \in {shared, shared \cup {tmp}}
        /\ stale' \in {stale, stale \cup {tmp}}
        /\ tmp \in Inodes /\ tmp # None
    BY RenameLands, RegistryFileAssumption DEF Rename, data
  <1>2. Read(synced, flushed)' = Read(synced, flushed)
    <2>1. synced # tmp
      BY RenameLands
    <2>2. synced \in shared' \cup stale' <=> synced \in shared \cup stale
      BY <1>1, <2>1
    <2>3. QED BY <1>1, <2>2 DEF Read, Load
  <1>3. CASE tmp \in stale'
    <2>1. Read(file, content)' = None /\ overtaken # {}
      BY <1>1, <1>3, RenameLands DEF Read
    <2>2. QED BY <1>1, <1>2, <2>1 DEF Atomic!Cross
  <1>4. CASE tmp \notin stale'
    <2>1. /\ tmp \notin shared' /\ content[tmp] = Whole(job[c].value)
          /\ job[c].value \in OneWrite(live)
      BY <1>4, RenameLands
    <2>2. Read(file, content)' = job[c].value
      BY <1>1, <1>4, <2>1 DEF Read, Load, Whole
    <2>3. QED BY <1>1, <1>2, <2>1, <2>2 DEF Atomic!Land, Atomic!OneWrite, OneWrite
  <1>5. QED BY <1>3, <1>4

LEMMA AtomicSyncDir ==
    ASSUME FileInv, TypeOK', NEW c \in Callers, SyncDir(c)
    PROVE  Atomic!Settle \/ Atomic!Follow \/ Atomic!Adopt \/ UNCHANGED Atomic!registers
  <1>1. UNCHANGED <<file, content, flushed, shared, stale>>
    BY DEF SyncDir, data, marks
  <1>2. Read(file, content)' = Read(file, content)
    BY <1>1 DEF Read, Load
  <1>3. Read(synced, flushed)' \in {Read(synced, flushed), Read(file, content)}
    <2>1. CASE synced' = synced
      BY <1>1, <2>1 DEF Read, Load
    <2>2. CASE synced' = file
      <3>1. Read(synced, flushed)' = Read(file, flushed)
        BY <1>1, <2>2 DEF Read, Load
      <3>2. QED BY <3>1, ReadsAgree DEF FileInv
    <2>3. QED BY <2>1, <2>2 DEF SyncDir
  <1>4. CASE c \in dropped
    BY <1>2, <1>3, <1>4, AtomicSame DEF SyncDir, Atomic!Settle
  <1>5. CASE c \notin dropped
    <2>1. Landed(c) /\ live' = job[c].value
      BY <1>5 DEF FileInv, Closures, Landed, SyncDir, Running, Busy
    <2>2. Read(file, content) \in {None, live'}
      <3>1. CASE file \in stale
        BY <3>1 DEF Read
      <3>2. CASE file \notin stale
        <4>1. file \notin shared /\ Load(file, content) = Whole(live')
          BY <2>1, <3>2 DEF FileInv, Follows
        <4>2. QED BY <3>2, <4>1 DEF Read, Whole
      <3>3. QED BY <3>1, <3>2
    <2>3. live' \in SUBSET Ids
      BY DEF TypeOK, Registries
    <2>4. QED BY <1>2, <1>3, <2>2, <2>3, AtomicFollow
  <1>6. QED BY <1>4, <1>5

LEMMA AtomicPowerLoss ==
    ASSUME FileInv, PowerLoss
    PROVE  Atomic!Settle \/ Atomic!LosePower
  <1>1. PICK f \in {file, synced} : file' = f /\ synced' = f
    BY DEF PowerLoss
  <1>2. /\ content' \in {content, flushed}
        /\ UNCHANGED <<flushed, live, shared, stale>>
    BY DEF PowerLoss, Halt, data, marks
  <1>3. Read(f, flushed) = Read(f, content)
    BY ReadsAgree DEF FileInv
  <1>4. Read(file, content)' = Read(f, content) /\ Read(synced, flushed)' = Read(f, content)
    BY <1>1, <1>2, <1>3 DEF Read, Load
  <1>5. CASE f = file
    BY <1>2, <1>4, <1>5 DEF Atomic!Settle
  <1>6. CASE f = synced
    BY <1>2, <1>3, <1>4, <1>6 DEF Atomic!LosePower
  <1>7. QED BY <1>5, <1>6

LEMMA AtomicStart ==
    ASSUME FileInv, TypeOK', Start
    PROVE  Atomic!Follow \/ Atomic!Adopt \/ UNCHANGED Atomic!registers
  <1>1. UNCHANGED <<file, synced, content, flushed, shared>>
    BY DEF Start, names, data
  <1>2. CASE Load(file, content).kind # "whole"
    <2>1. live' = live /\ stale' = stale
      BY <1>2 DEF Start
    <2>2. QED BY <1>1, <2>1, AtomicSame DEF Read, Load
  <1>3. CASE Load(file, content).kind = "whole"
    <2>1. live' = Load(file, content).ids /\ stale' = stale \ {file}
      BY <1>3 DEF Start
    <2>2. Read(file, content) \in {None, live'}
      BY <2>1 DEF Read
    <2>3. Read(file, content)' = IF file \in shared THEN None ELSE live'
      BY <1>1, <2>1 DEF Read, Load
    <2>4. Read(file, content)' \in {Read(file, content), live'}
      BY <2>3 DEF Read
    <2>5. Read(synced, flushed)' \in {Read(synced, flushed), Read(file, content)'}
      <3>1. CASE synced = file
        <4>1. file \notin shared => Load(file, flushed) = Load(file, content)
          BY DEF FileInv, FilesWhole
        <4>2. Read(synced, flushed)' = IF file \in shared THEN None ELSE live'
          BY <1>1, <2>1, <3>1, <4>1 DEF Read, Load
        <4>3. QED BY <2>3, <4>2
      <3>2. CASE synced # file
        <4>1. synced \in stale' <=> synced \in stale
          BY <2>1, <3>2
        <4>2. QED BY <1>1, <4>1 DEF Read, Load
      <3>3. QED BY <3>1, <3>2
    <2>6. live' \in SUBSET Ids
      BY DEF TypeOK, Registries
    <2>7. QED BY <2>2, <2>4, <2>5, <2>6, AtomicFollow
  <1>4. QED BY <1>2, <1>3

LEMMA AtomicStep ==
    ASSUME FileInv, [Next]_vars
    PROVE  [Atomic!Next]_(Atomic!vars)
  <1>1. TypeOK'
    BY TypeStep DEF FileInv
  <1>2. (overtaken # {})' \in BOOLEAN
    OBVIOUS
  <1>3. ASSUME UNCHANGED <<live, file, synced, content, flushed, shared, stale>>
        PROVE  UNCHANGED Atomic!registers
    BY <1>3, AtomicSame DEF Read, Load
  <1>4. ASSUME NEW c \in Callers, Create(c) PROVE UNCHANGED Atomic!registers
    BY <1>4, CreateKeeps, AtomicSame DEF Create
  <1>5. ASSUME NEW c \in Callers, Write(c) PROVE UNCHANGED Atomic!registers
    <2>1. Staging(c) /\ flushed' = flushed /\ UNCHANGED <<live, file, synced, marks>>
      BY <1>5 DEF Write, Running, Staging, names
    <2>2. PICK bytes : content' = [content EXCEPT ![job[c].inode] = bytes]
      BY <1>5 DEF Write
    <2>3. QED BY <2>1, <2>2, StepKeeps, AtomicSame
  <1>6. ASSUME NEW c \in Callers, Sync(c) PROVE UNCHANGED Atomic!registers
    <2>1. Staging(c) /\ content' = content /\ UNCHANGED <<live, file, synced, marks>>
      BY <1>6 DEF Sync, Running, Staging, names
    <2>2. PICK disk : flushed' = [flushed EXCEPT ![job[c].inode] = disk]
      BY <1>6 DEF Sync
    <2>3. QED BY <2>1, <2>2, StepKeeps, AtomicSame
  <1>7. ASSUME Kill PROVE UNCHANGED Atomic!registers
    BY <1>3, <1>7 DEF Kill, Halt, data, marks
  <1>8. ASSUME NEW c \in Callers, Mutate(c) \/ StageFails(c) \/ Cancel(c)
        PROVE  UNCHANGED Atomic!registers
    BY <1>3, <1>8 DEF Mutate, StageFails, Cancel, names, data, marks
  <1>9. CASE UNCHANGED vars
    BY <1>3, <1>9 DEF vars, Atomic!vars, Atomic!registers
  <1>10. CASE Next
    BY <1>1, <1>2, <1>4, <1>5, <1>6, <1>7, <1>8, <1>10, Steps, AtomicRename, AtomicSyncDir,
       AtomicPowerLoss, AtomicStart DEF Atomic!Next
  <1>11. QED BY <1>9, <1>10

(* The file and the memory of the registry behave as one atomic register, from
   any interleaving of writes, failures, dropped mutations, kills and losses of
   power; an unknown file replaces it only while a closure runs that another
   mutation has overtaken. *)
THEOREM RegistryIsAtomic == Spec => AtomicSpec
  <1>1. FileInv /\ [Next]_vars => [Atomic!Next]_(Atomic!vars)
    BY AtomicStep
  <1>2. QED BY <1>1, AtomicInit, FileInvariant, PTL DEF Spec, AtomicSpec, Atomic!Spec

=============================================================================
