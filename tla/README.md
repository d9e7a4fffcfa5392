# Formal models of NodeSpace

TLA+ modules for the parts of NodeSpace whose correctness depends on the order
in which things happen: tasks that share state, events that are lost or arrive
late, store calls that fail, restarts. Each module is written from the code; the
map in `PROJECT.json` names, for every definition, the lines it stands for.

## 1. The system

NodeSpace keeps a graph of typed nodes in one SQLite file per database. A daemon
(`packages/daemon`) opens databases and serves them over gRPC to a desktop
application, a command line and AI agents; the graph's logic is in
`packages/core`.

| Part | State it keeps | Operations | Talks to |
|---|---|---|---|
| Node service and store (`core/src/services/node_service`, `core/src/db/sqlite_store`) | nodes with versions, parent edges with fractional order, relationships, schemas | create, update (version-checked), move, delete a subtree, batch; events published after the commit | every other part, by calls and by a broadcast channel of events |
| Play engine (`core/src/playbook`) | cached run state of each play, trigger index, cron registry, execution queue | follow play and schema events, match, run, suspend, reload | node service (reads, writes, events) |
| Embedding pipeline (`core/src/services/embedding_*`) | stale flags and vectors in the store, wake-up channel, scheduler gate | queue a root, embed a batch, retry, archive, one model shared by all open databases | store, NLP engine |
| Database manager (`daemon/src/services/database_manager.rs`) | registry file, open databases, activity times, per-database locks | create, register, open, close, remove, evict when idle, shut down | store files, embedding pipeline, play engine |
| Local AI (`daemon/src/services/local_agent_service.rs`, `agent/src/local_agent`) | turn of each chat, cancellation tokens, confirmations | start a turn, cancel, confirm a deletion, unload the model when idle | node service, model |
| Agent sessions (`agent/src/pty`, `daemon/src/services/capture_service.rs`) | table of PTY sessions, captured output | start, write, resize, exit, capture | operating system |
| Daemon process (`daemon/src/main.rs`, `single_instance.rs`) | lock and socket | start, hand over, stop | operating system |
| Desktop application (`desktop-app/app-lib`, `desktop-app/src/lib`) | optimistic copy of nodes, pending operations, event stream | edit, persist, merge remote updates, reconnect | daemon |

Which of them are hard, and what makes each correct:

* **Play engine.** Three tasks and any number of writers; a lossy channel; the
  run state is a cache of nodes anyone may write. Correct when the cache agrees
  with the nodes once it has caught up, when no rule runs for a play that is out
  of service, when the index holds the running plays' rules and nothing else,
  when rules that trigger each other stop, and when scheduled work neither
  starves reactive work nor loses a node.
* **Embedding pipeline.** An edit during the embedding of the old text must leave
  the root stale; a permit must not be lost by a cancelled wait; the foreground
  database goes first and the background one is not blocked for ever; a wake-up
  must not be lost while rows are waiting.
* **Database manager.** One open instance per database; no instance survives its
  removal or the shutdown; an idle one is not closed under a running turn.
* **Node service.** A version-checked write never overwrites what it did not see;
  a move never makes a cycle; sibling order stays total; an invariant rule either
  holds or its write is rolled back.
* **Local AI, sessions, daemon, desktop store.** One turn per chat and none left
  behind by a cancellation; one daemon per profile; an optimistic update and a
  remote one end in the same node.

The full list of hazards, each at its line, is in `PROJECT.json`.

## 2. Plan

In the order of importance; (done) marks what this directory holds.

1. `PlayEngine`: the engine with its three tasks, the writers, faults and
   restarts (done), with `PlayEngineProofs` (types, index) and
   `PlayEngineCacheProofs` (the cache invariant) (done).
2. `DatabaseManager`: open, create, register, remove, edit, evict and shut down,
   with dropped requests, and `DatabaseManagerProofs` (done). `RegistryFile`: the registry's
   file, with `AtomicRegistry` as what it implements, and `RegistryFileProofs`
   (done).
3. `EmbeddingPipeline`: marks, debounce, batches, edits during inference, retries,
   and the permit the databases share, and `EmbeddingPipelineProofs` (done).
4. `NodeTree`: version-checked writes, moves, placements, deletes and order, with
   `Outline` as the abstract tree it implements, and `OutlineWindow`, a desktop
   window that follows the tree by its events, and `NodeTreeProofs` and
   `OutlineWindowProofs` (done).
5. `ChainDepth`: invariant rules and their repair, chain depth across devices.
6. `SharedNodeStore`: a window's own optimistic writes on top of `OutlineWindow`.
7. `ChatTurns`: the turns of a chat, their claim and recovery, cancellation, held
   deletes, titles, and `ChatTurnsProofs` (done). Then the model's loading and idle unload,
   the daemon's single instance, agent sessions, the windows of the cron runner.
8. Proofs: of the safety properties the runs look at, all are proved. What is added by
   5, 6 and 7 is to be proved with it.

## 3. PlayEngine

### State and steps

A step of the model ends where the code awaits a store call or releases the
lifecycle lock. `play`, `schema` are the store; `pending` the events of committed
writes that are not published yet; `channel` and `lagged` the engine's receiver of
the broadcast channel; `status`, `loaded`, `index` the lifecycle manager under its
lock; `queue` the execution queue; `sub`, `proc`, `cron` where the three tasks
stand, with the local variables they hold across an await. `unsure`, `late` and
`proc.failed` are history variables: they record a failed store call, an event
published out of order, and a play given cause for suspension; no action reads
them. `spent` counts the bounded inputs.

| Code | Model |
|---|---|
| writes through NodeService | `CreatePlay`, `SetEnabled`, `SaveRules`, `Touch`, `SetLife`, `DeletePlay`, `ChangeSchema`, `WriteData`; then `Publish` |
| `start`, `load_plays` | `Start`, `LoadQuery`, `LoadFails`, then `SyncPlay` per row, `WorkDone` |
| `sync_play` | `SyncPlay`, `ValidatePass`, `ValidateFail`, `ValidateInconclusive` |
| `handle_event` | `ReceivePlay`, `ReceiveGone`, `ReceiveSchema`, `ReceiveData`, `ReceiveLagged`, then `FetchPlay`/`FetchFails`, `FetchSchema`/`SuspendBroken`, `Enqueue`/`DropMatch` |
| `suspend_play`, `record_suspension`, `record_play_suspension` | `Suspend`, then `SubRecord`/`ProcRecord`, `SubPublish`/`ProcPublish`, or the failing variants |
| `rule_processor_loop` | `TakeItem`, `BreakCycle`, `BeginRule`, `RuleSkipped`, `RuleRan`, `RuleFailed`, `ItemDone` |
| `cron_runner` | `CronDue`, `CronEnqueue`, `CronStops` |
| shutdown, crash | `Shutdown`, `Drained`; `Crash` loses everything but the store |

### What is abstracted

* Rules are a set name and an index; `Valid` says which rules validate against
  which state of the schemas. All rules of a play match the same data events; a
  rule whose index is in `CronRules` is scheduled instead. `index` holds the
  trigger index and the cron registry together.
* The verdict of a validation and the indexing that follows it are one step, and
  so are, for schema drift, the gathering of the plays and their validation: no
  await separates the decision from the change in the first; the second is
  re-checked by `suspend_play`, and a play missed meanwhile has an event coming.
* A rule run publishes at most one event, at the end of the run. Writes by rules
  are data writes; a rule that edits a play is covered by the writers' actions.
* Users' updates read, check and write under the writer lock, so they are one step.
  Events held by an open batch are in `pending` like any other, and `Publish`
  takes them in any order.
* The engine holds the service that owns the channel, so the arm for a closed
  channel cannot run. The ancestry cache and the warning on seeded plays have no
  effect on the run state and are left out. Invariant rules and the repair of
  synced writes are planned as a module of their own.

### Properties

* `TypeOK`, `IndexMatches`.
* `SettledAgreement`: once every write is published and the subscriber idles with
  nothing left to read, a play runs exactly when its node says so, in the node's
  rules, which validate. A play is excused while its suspension is being
  recorded, after a store call about it failed, and when its deletion was
  published after its re-creation. Each excuse ends at the next event about the
  play or the next load. The last one (`Overtaken`) is a weakness of the code: a
  deletion event is trusted without reading the node, and events are published
  after the writer lock is released, so a deletion can be heard after the
  re-creation that followed it. The play then is enabled and valid and does not run.
* `CacheInv` is the inductive invariant behind it: every disagreement between the
  cache and a node has a cause still in flight.
* `OnlyLivePlaysRun`: no rule starts for a play out of service once the engine
  has caught up with that.
* `ChainsEnd`, `ScansComplete`.

### Finding

* `LaterRulesStop` (run LaterRules). `sync_play` indexes a row it read before an
  awaited validation. If the processor suspends the play meanwhile, the play is
  running again in memory, and the failed work item's next rule of that play
  runs, which the comment at `engine.rs:1269-1272` rules out. The state heals when
  the suspension's own event is handled.

## 4. DatabaseManager

A step ends at an await; `task[t].at` names the await task `t` is parked at, and the
rest of the record what its future holds there: the id, the path, the service set
in a local variable, the per-id mutex it has a clone of. `path`, `default` are the
registry in memory, `writer` the holder of its write lock; `open`, `activity`,
`opening` the manager's maps, `holder` the owners of the per-id mutexes, `creator`
the owner of `create_lock`. `files` is the disk; `home`, `phase`, `turns` the service
sets; `jobs` the rollbacks that a dropped create spawned.

| Code | Model |
|---|---|
| `get_or_open`, `cache_or_discard`, `touch` | `Request`, `Lookup`, `Lock`, `Recheck`, `Resolve`, `Build`/`BuildFails`, `Publish`, `Touch` |
| `create`, `CreateRollback`, `OpeningEntryGuard` | `CreateCall`, `CreateStart`, `CheckPaths`, `CreateFile`, `Seed`/`CreateFails`, `Cache`, `Unlink`; dropped: `UndoCreate`, `JobStop`, `JobEnds` |
| `register`, `remove`, `set_default`, `rename`, `set_extensions`, `mutate_and_save` | the calls, then `AwaitRegistry`, `Saved`/`SaveFails` |
| `close_without_notify`, `DatabaseServices::shutdown` | `Take`, `Forget`, `Stop`, `Rest`, `AfterClose` |
| `evict_idle_databases` | `Collect`, `Pick`, `Pending`, then the close, `SweepDone` |
| ai-chat turns, `shutdown_all` | `StartTurn`, `EndTurn`; `StopServing`, `ShutdownAll`, `ShutdownSet`, `ShutdownEnds` |
| a client that disconnects | `Cancel`: drops the guards, and what else the future's destructors do |

Abstractions: a save succeeds or fails (`RegistryFile` has the rest); building a
service set is one step that may fail and may leave the file; whether work is left to
embed, and which database is active, is any answer; `rename` and `set_extensions`
change nothing the module keeps; the default is read together with the candidates.
Ids, sets and mutexes are numbered in the order they are handed out. `abandoned` and
`met` are history variables that no action reads: the service sets that an open or a
remove had in hand when its client went away, and the paths that were registered while
a create, or its rollback, could still remove the file.

Properties: `OneServiceSet`, `OnlyDropsOrphan`, `RemovedIsClosed`, `RegistrySound`,
`RegisteredFilesStay`, `NoDeadlock` (some request that is not idle can always take
its next step), and `TypeOK`, which also says that a lock is held by a task that
stands where the code holds it.

Finding: `NoOrphans` (`OnlyDropsOrphan` without its excuse) fails as soon as a routed
request can be dropped (run Disconnect): `get_or_open` parks with a running service set
in a local variable. A
`remove` does the same between its save and its close. The Requests run lets clients
drop every operation and excuses the sets in `abandoned`, and no others.

Seen while modelling: `register` checks for duplicates under the registry's lock but
does not take `create_lock` (`database_manager.rs:707-735`). A create that has made its
file and not yet its entry is invisible to it, so both save an entry for one file, which
`register`'s comment (lines 700-706) says must not be; and if that create fails or is
dropped, its rollback unlinks the file of the registered entry. `RegistrySound` and
`RegisteredFilesStay` excuse the paths in `met`; without that TLC shows a client that
creates a path, another that registers it once the file is there, and both saves.

A turn may also begin between the reaper's question (`Pick`) and the close. What
becomes of it is in `ChatTurns`, where a service set is closed at any time.

## 5. RegistryFile

Files are inodes: `tmp`, `file` and `synced` are what the temporary name and the
registry's name refer to, in the file system and on the disk after a loss of power;
`content` is what a read finds, `flushed` what is on the disk. A mutation takes
the registry's lock and hands its candidate to a blocking closure (`Create`, `Write`,
`Sync`, `Rename`, `SyncDir`, or `StageFails`); a dropped mutation releases the lock and
the closure runs on. `Kill` and `PowerLoss` end the daemon anywhere; `Start` loads
the file or refuses it. A registry is the set of its databases.

`AtomicRegistry` is what callers rely on: a stored value that changes whole, one
mutation of the registry in memory at a time, with the memory following it. `Cross`
and `Adopt` are the exception: while a save runs that another mutation has
overtaken, the stored value may become `Unknown`; the next save makes it known
again, and so does a start, unless two saves wrote the file.

The code lets a mutation begin while the closure of a dropped one still runs, and
both closures stage under one name, which carries the process id only. Three history
variables, which no action's guard reads, record what comes of that:

* `overtaken`: the dropped callers whose closure still runs and past which another
  mutation has begun;
* `shared`: the inodes that two closures had open, or that one renamed while another
  had it open;
* `stale`: the inodes that an overtaken closure put in place, or that were shared when
  put in place. A start takes the file for what it is, so it is no longer stale.

`NeverTorn` is the promise of the comment on `Registry::save`, and the run Stray shows
it broken. `OnlySharedTorn` is what holds of it: only a shared file is ever torn.
`FileHoldsLive` relates the file to the memory, unless the file is stale; `AtomicSpec`
reads `stored` through `file` and `safe` through `synced`, and gives `Unknown` for a
shared or stale file. Without the exceptions TLC finds, besides the torn file:

* a closure that is overtaken by a mutation that saves and succeeds, and renames
  after it: the file loses the later change, so the memory is ahead of the file,
  where the comment (lines 275-289) admits only a memory that lags it;
* a closure that renames the file of the other one, whose own rename then fails: its
  caller is told that a change failed that is in the file.


## 6. EmbeddingPipeline

`nodes` and `rows` are what the store keeps of a root: its text (a version), whether
that is blank, whether the root is archived or gone; and its embedding rows, absent,
stale (with failures and an age) or fresh (with the version they embed). They alone
survive a crash. `tasks` are the marking tasks that edits spawn, `line` their order at
the writer, `proc` the processor of each open database, `trig` and `timers` its
trigger channel and delayed wakes; `active`, `gateQueue`, `note` the scheduler.

| Code | Model |
|---|---|
| writes that touch a root's tree; `queue_root_for_embedding_async` | `Edit`, `Archive`, `Unarchive`, `Delete`; then `QueueLook`, `QueueWrite`, or `RowsUnread`, `QueueFails` |
| `wire_database_embeddings_bg` | `SweepList`, `SweepPlant` |
| the task of `EmbeddingProcessor::new`, `process_until_empty` | `Wake`, `Acquire` .. `Grant`, `Fetch`/`FetchFails`, `EndBatch`, `Ask`/`AskFails`, `TimerFires` |
| `embed_root_node`, `upsert_embeddings`, `record_embedding_error` | `ReadAt`, `ReadRoot`, then `Store`, `Clear` or `Fail` |
| `EmbeddingScheduler::acquire` and the drop of its permit | `Acquire`, `Check`, `Notified`, `Grant`; `ReleaseTo` |
| `ActiveDbGuard` of `WatchNodes` | `OpenStream`, `CloseStream` |

Abstractions: one row stands for the chunks of a root, and the version of the text
for the vectors; the rows and the vector index change in one transaction, so the
index is the fresh rows. Timestamps are compared only between a mark and the read it
races with (`old`, `newer`) and against the debounce window (`age`, in ticks).
`Nudge` is the wake of an edit to a tree whose rows are not followed.

Properties: `FreshIsCurrent`, `ArchivedNotSearched`, `NeverForgotten`,
`GivenUpOnCurrentText` (what the rows say is true of the text, or will be put right);
`SleepIsTimed`, `DeferralEnds`, `EventuallyEmbedded` (nobody sleeps on work).

`lost` names the roots whose mark was lost: the task failed or died with the daemon,
and nothing repeats it before the next edit; or it found no rows, and by the time it
inserted its marker (`INSERT OR IGNORE`) a processor had stored rows of the text
before the edit. The last needs an archival, its reversal and an edit during one
inference; TLC reaches it with two marking tasks and four edits. `FreshIsCurrent`
and `GivenUpOnCurrentText` except these roots; the exception ends with a store of the current
text, or the next mark that a read under way does not make pointless (`Overtaken`: the read
began after the mark took its timestamp, so its vectors are stored over it).

## 7. NodeTree, Outline and OutlineWindow

A write of `NodeTree` takes three steps. `Ask..` is what it checks against pooled
readers; the action named for the operation is its transaction under the write
guard, where it checks again (`Allowed`, else `Refused`); `Publish` sends its events
after the guard is released, so `pending` may be published in any order. `call`
holds what a caller carries from one step to the next: the versions it read, the
subtree it was shown. Keys are the code's floating-point keys times `Unit`, and
`MinGap` is `MIN_GAP`: a gap below it is never halved, `respread_children` makes room.

| Code | Model |
|---|---|
| `update_node` | `AskEdit`, `Edit` |
| `move_node`, `move_node_unchecked`, `reorder_node` | `AskMove`, `Move`; `AskReorder`, `Reorder` |
| `move_children_to_parent` | `AskGather`, `Gather` |
| `create_placed_node`, `create_parent_edge` | `AskCreate`, `Create`; `AskRelink`, `Relink` |
| `create_relationship`, `delete_relationship` of has_child | `AskAttach`, `Attach`; `AskDetach`, `Detach` |
| `delete_node` with and without a subtree | `AskDeleteTree`, `DeleteTree` and its retries; `AskDeleteLeaf`, `DeleteLeaf` |
| `calculate_order`, `respread_children`, `move_node_in_tx` | `KeyFor`, `Respread`, `Place` |
| `emit_move_events`, `emit_former_parent_deleted` | the `note` of `Commit`, `Former`, `Spread` |
| `ReactiveStructureTree` behind `TauriSyncListener` | `Rekeyed`, `Added`, `Removed`, in `Tell` |

`Outline` is what a reader of the tree relies on: every parent has its children in a
strict order, nobody is below itself, and a write moves the nodes it names and leaves
the order of all others alone. It knows no keys. `OutlineSpec` says that `NodeTree`
implements it, with `kids` read off the edges and `before` off their keys; so a
re-spread does not show.

Other properties: `NoLoops`, `KeysDistinct`, `NoLostWrite` (no two writes that went
through worked from one version), `DeletesWhatWasShown`, `NoSilentRoots`,
`LandsWhereAsked`.

`OutlineWindow` adds a desktop window that loaded the tree and hears the events of
each write. `WindowAgrees`: it ends with the parents and keys of the store. It
leaves out nodes in `astray` (a write announced less than it did to them) and
histories in which writes were published in another order than they were committed
in (`crossed`): the code promises nothing then.

Finding: `WindowFollows` fails (run Moves). `emit_move_events` announces the new edge
of a move as an update, and `updateChildOrder` leaves a child alone that it does not
know under that parent; the deletion of the old edge follows, and the window has the
node nowhere until it loads the tree again. The comment on `emit_move_events` says a
consumer never sees the node parentless.

## 8. ChatTurns

`status`, `title` and `msgs` are what the store keeps of one chat; `target` is the
node deletes are asked for. `open` is the latest service set of the database;
`shut` its shutdown tokens, `claim` its `turn_tokens`, `watch` its event watcher and
`news` the events that wait for it. `task` is what each spawned task does: the
handler of an event, the turn, then the title.

| Code | Model |
|---|---|
| `handleSend`, `sendMessage` of the viewer | `Type`, `StoreMessage`, `AskTurn` |
| `start_event_watcher`, `recover_stuck_turns` | `Open`, `ScanQuery`, `ScanLook`, `ScanReset`, `ScanClaim`; `Deliver`, `Lagged` |
| `maybe_handle_ai_chat_node`, `begin_turn`, `end_turn` | `Fetch`, `Claim`, `Load`; `End` |
| `run_ai_chat_turn`, `append_assistant_message` | `Load`, `EndInference`, `Reply`, `Notice`, `Apology`, `Status`, `Settle`, `End` |
| `exec_delete_node`, `answer_deletion_confirmation`, `execute_confirmed`, `clear_pending_deletions` | `HoldDelete`; `Answer`, `Check`, `DeleteTarget`, `Clear` |
| `cancel_turn`; `shutdown`, by a close or the reaper | `Cancel`; `Close` |
| `maybe_generate_title`, `write_title_if_still_untitled` | `GenerateTitle`, `ReadTitle`, `PutTitle` |

Abstractions. A reply says nothing, a user's message is a yes, a no or another
request; one target stands for the list of a question. Several events of the chat
count as one, because the task spawned for each reads the chat itself. Some
steps are merged: the fetch of the chat with the look at the shutdown token, the look
at the last message with the load of the conversation (both run under the claim, and
only users' messages can come between, which either read treats alike), the shutdown
with its round over the turn tokens (`begin_turn` keeps its own gap: `Fetch`, then
`Claim`), the titler's wait with its second read. The retries of a status write
are one step: it succeeds, or fails and is a mishap.

Properties: `TypeOK` (with who is in `turn_tokens`), `AnsweredOnce`,
`DeletedAsShown`, `UserTitleKept`, `EventuallyIdle`. Two excuses are weaknesses of
the code, and history variables mark just these cases:

* `stranded`: a turn has written `idle` and still holds its claim, for the length of
  `clear_pending_deletions` or shorter; the request this `idle` lets in is
  refused by `begin_turn`, and nothing asks again. (A store call that failed and an
  event that was dropped strand a chat, too, until the next open.)
* `overlap`: a closed service set's turn settles while the next set recovers it, and
  answers a second time. The comments at `local_agent_service.rs:596-601` and
  `database_manager.rs:1337-1342` describe the danger; cancelling the turn makes it
  rarer, since a turn that is cancelled writes `idle` soon, but does not wait for it.

Finding: `NothingUnseenDeleted` fails (run Unseen). A confirmed delete compares the
node's version and the number of nodes below it with what the user was shown, then
deletes under the version. A node created below it after the comparison leaves the
version alone and is deleted with it; `delete_node` could be handed the set that
was counted.

Seen while modelling, and stated by no property: the message of a second window that
arrives during a turn has its request overwritten by that turn's `idle` and waits for
the next request; the apology of a failed turn and the writes of a cancelled one
leave no record of what the turn had written, which `chat_messages.rs:374-377` relies
on for replies; a service set that has been shut down can still begin a turn whose
`begin_turn` had read the token before.
## Runs and bounds

| Run | Instance | Result |
|---|---|---|
| RunState | 1 play, 2 rule sets, 2 schemas, 1 rule, depth 1, channel 2, queue 1, 3 writes, 1 fault, 2 starts | 2.3 million states |
| Scans | 2 plays, each with a scheduled and a reactive rule, depth 1, channel 2, queue 2 with 1 reserved, scan of 2 nodes, 1 write, liveness | 1.1 million states |
| LaterRules | 1 play, 2 rules, 2 writes | violated |
| Requests | 3 ids, 2 paths, 3 service sets, 3 mutexes, 2 requests at a time, 3 in all, any of them dropped, up to symmetry | 2.6 million states |
| Disconnect | 2 ids, 2 sets, 2 requests, opens may be dropped | violated |
| Saves | 2 databases, 4 inodes, 2 closures at a time, 3 mutations, 2 dropped, 2 kills or power losses, up to symmetry | 0.89 million states |
| Stray | 2 mutations, 1 of them dropped | violated |
| Batches | 2 databases, one with 2 roots, the other with a stream; 1 marking task, batches of 1, 2 retries, a window of 1 tick, 2 edits, 1 fault, liveness | 1.6 million states |
| Writes | 5 nodes, 1 of them yet to be created, 3 trees to start from, 2 callers with one or two writes in all, up to symmetry | 0.41 million states |
| Moves | the same with 1 caller and without the node that has two parents | violated |
| Turns | 2 clients, 2 messages, 2 tasks, 2 service sets, 1 mishap, liveness | 0.68 million states |
| Unseen | the same with 1 client | violated |

Why the bounds suffice. For RunState one play is enough because the engine treats
plays independently: it shares between them only the channel and the queue, and
both are small enough (2 and 1) that three writes overflow the channel and a
second work item finds the queue full. Three writes allow edit, re-edit and
reversal; two starts allow a crash or shutdown and a start on what it left; one
fault can hit any store call. The schema can break one of the two rule sets and
mend it again. The proofs cover every other instance. In Scans the two plays
feed each other, with a depth of one: the first hop is allowed and the second is cut;
and the scan is longer than the room it may take (2 against 1).

Requests: a hazard of the manager needs one request to be parked, a second one to
act on the same database and, for the per-id mutex, a third that comes later; the
reaper and the rollbacks are tasks of their own. Three ids let a create and a register of
one path meet beside a registered default, three sets let a database be opened, closed and opened again.
Saves: two callers are a save and the closure of a dropped one, which may meet at any
step; four inodes are the registry's, the one on the disk, the temporary one and one
that the other closure still has open; two dropped mutations let the second closure
stray as well, and two crashes let a crash hit a save after a start from a crash.

Batches: the races of one root are those of its mark with one processor, so one
marking task with two edits (edit and edit again, or archive and unarchive) during a
batch shows them; a batch of one root with two due makes a second batch follow
the first, two retries let a root fail, be tried again and be given up, and the
second database with its stream is what the first defers to. Writes: all races in
the tree are of two writes, each checked before the other commits, and every pair of
operations occurs; a placed node needs an old parent, a new one and two siblings
around a gap that is too small, and the trees supply them; `Attempts` of two lets a
deletion collect its subtree a second time and give up. Turns: at any time at most
one turn of the chat runs on a service set, so two tasks are a turn and what
interferes with it: the handler of the next event, the titler, or the turn of the
set before; two messages are a question of the model and its answer, or a message and
the one a second window sends while the first is answered. One mishap can hit any
step. (With one client and two mishaps the safety properties hold, too, in 3.7
million states.)

`CHECK_DEADLOCK` stays on for PlayEngine, DatabaseManager and EmbeddingPipeline: in
the first two the only state without a real next step is the stopped process with no
starts left (or the daemon that is down), where `StaysDown` stutters, and in the
third time always passes.
It is off for ChatTurns, whose clients send a bounded number of messages and then
owe nothing; for RegistryFile, which stops when its bounded inputs are used up or the
daemon refuses to start, and for OutlineWindow, which stops when the bounded writes
are done: callers of the store owe it nothing. `NoDeadlock` says for DatabaseManager what TLC's own check
cannot, because turns and the clock always have a step.

## Fairness

PlayEngine has two liveness properties. The tokio runtime schedules every task, and
every await the tasks make returns, with a result or an error; so `Publish`, the subscriber's steps, the processor's
steps, the enqueueing of a due scan (or its end) and the drain have weak fairness.
Users, the clock, shutdown and crashes have none: nobody has to act. No step has
strong fairness.

`EmbeddingPipeline` has one: marking tasks and processors have weak fairness, for
the same reason, and so has `Tick`, because time passes. A wake comes either from a
mark or from a delayed wake; the property asks for marks to go on coming (`Nudge`),
so the firing of delayed wakes needs no fairness. The permit is a fair semaphore
in the code and a queue in the model, so weak fairness is enough for it, too.
Streams owe nothing: that some other database stops claiming the foreground is a
premise of the property, since the code lets it hold background work back for as
long as it has batches to do.

`ChatTurns` has one: every spawned task and every event watcher has weak fairness.
A turn of the model ends because the model's call returns or fails. No step owes
anything to a client, a cancel, a close, a reopening or a crash, which is why
`EventuallyIdle` ends at a close.

## What is proved

`PlayEngineProofs` and `PlayEngineCacheProofs` prove, for every set of plays, rule
sets and schemas, every capacity and every bound (from `PlayEngineAssumption`
alone):

* `TypeCorrect`: `Spec => []TypeOK`. `TypeInv` strengthens it with what the tasks'
  local variables hold at each control point (the play in hand is a play while a
  record is being made, the depth in hand is below the limit while a rule runs).
* `IndexCorrect`: `Spec => []IndexMatches`. Inductive once types are known: every
  step that touches status, rules or index is one of the lifecycle manager's five
  operations, and each keeps the three together.
* `CacheInvariant`, `EngineSettles`, `OnlyLivePlays`: `CacheInv` is inductive on
  top of the two above. Its parts say: a running play is stored as runnable in the
  same rules, or is excused (news of its last change is coming, it is about to be
  decided again, a call about it failed, its deletion was overtaken); its rules
  validate, or a schema event is coming or being handled; a play that should run
  does, or is excused, or is having its suspension recorded; a load in progress
  forgets only plays that should not run or are heard of again; a row in hand is
  the stored one, or there is more to hear; and a deletion in the channel of a
  play that exists has news of the re-creation behind it. The last part is why the
  order of events matters at all: it is what makes trusting a deletion safe, and
  `late` marks the plays for which the publication order broke it. Steps of other
  tasks are handled once (`Outside`), then one lemma per step of the subscriber.
  `EngineSettles` follows because a settled engine leaves nothing in flight to
  excuse, and `OnlyLivePlays` because a rule begins only for a running play.

`RegistryFileProofs` proves, for every set of databases, callers and inodes and every
bound (from `RegistryFileAssumption`):

* `TypeCorrect`: `Spec => []TypeOK`.
* `FileNeverTorn` (`Spec => []OnlySharedTorn`), `FileFollowsMemory`
  (`Spec => []FileHoldsLive`) and `RegistryIsAtomic` (`Spec => AtomicSpec`), however
  many closures of dropped mutations run side by side. The inductive invariant
  `FileInv` says that a closure belongs to the lock's holder or to a dropped mutation,
  and that of any two one has been overtaken (`Closures`); that the temporary file is
  no file of the registry's and has an owner, two if it is shared, and that a file
  which one closure alone opened holds what its step implies (`Stages`, `OwnFile`);
  that what either name refers to is whole and flushed, unless shared (`FilesWhole`);
  and that the candidate of a closure not overtaken is one change of the memory, in
  the file from its rename on, unless the file is stale (`Follows`). The owner is what
  the rename needs: a closure renames whatever has the temporary name, and unless that
  is shared it is its own. The rename is the step that the atomic register takes;
  everything before it stutters.

`DatabaseManagerProofs` proves, for every set of ids, paths, clients, service sets and
mutexes (from `DatabaseManagerAssumption`) and whatever is dropped at whatever await:

* `TypeCorrect` (`Spec => []TypeOK`). `Base` strengthens the types by what each
  request can hold at each place it can stand, by what is known of an id before it
  is registered (an id minted by a create is its own until the save, which is why
  its mutex is fresh), and by who holds the locks: `create_lock`, a mutex or the
  registry's lock is held by exactly the task that stands past it.
* `RegistryStaysSound` (`RegistrySound`) and `FilesOfEntriesStay`
  (`RegisteredFilesStay`). `OwnPath`: an entry about to be saved has its path to
  itself, because one create at a time is past `create_lock` and one task at a time
  saves, and a register whose path is not in `met` is `Apart` from every create and
  rollback that may remove a file. `OwnFile`: the file a rollback will unlink is there
  and belongs to no entry, so no create can have taken its path.
* `LocksTakenInOrder` and `SomeRequestProceeds`: whoever holds a lock is under way and
  waits for none but a later one (`LocksInOrder`), and no request is under way
  when the shutdown holds the lock of the open set (`Quiet`). So of the requests under
  way the one that waits for the last lock in the order is not blocked. This is what
  `NoDeadlock` is about, without ENABLED.
* `OneSetServes` (`OneServiceSet`), `NoSetIsLost` (`OnlyDropsOrphan`) and
  `RemovedAreClosed` (`RemovedIsClosed`), each with an excuse for the sets in `abandoned`,
  which run Disconnect shows cannot be spared. `Guarded` says that the mutex recorded
  in `opening` is the one that every task of a registered database waits for or holds, in spite of
  pruning, and that what a task read under it (registered, not open) still holds when
  it uses it. `Placed` says that a service set that was never handed out is known to
  nobody, that a set stands where its database is, and that a running set is open or
  in hand. Two sets of one database in use would be one open and one about to be
  published, and `Guarded` excludes that. A dropped open or remove takes its set out of
  what `Kept`, the last part of `Placed`, speaks of; its mutex it leaves as every
  other request does, so the next request of the database begins with nothing in hand.

`ChatTurnsProofs` proves, for every set of clients and tasks and every bound (from
`NoneAssumption` and `BoundsAssumption`): `TypeCorrect`, `MessagesAnsweredOnce`
(`AnsweredOnce`), `DeletesAreConfirmed` (`DeletedAsShown`) and `UserTitlesKept`
(`UserTitleKept`). The inductive invariant `ChatInv` says

* which task a turn table names (`TurnTables`), that tasks and watchers are of a
  service set that is up or was shut down (`Serving`), and that turns are of the latest
  one unless one was opened over a turn of the last (`OneService`): so at most one
  turn is past its claim;
* that such a turn answers a message nobody answered (`Unanswered`). A turn
  looks at the last message under its claim; without the claim in the invariant the
  reply of another turn could come between;
* that a delete about to be carried out has its question directly before its answer,
  with the version it showed (`Confirmed`), and that a title about to be written was
  read as missing in the state it is written in (`Untitled`).

`EmbeddingPipelineProofs` proves, for every set of databases, roots and marking tasks
and every bound (from `SizeAssumption`, `HomeAssumption` and `DbsAssumption`):

* `TypeCorrect` (`Spec => []TypeOK`). That failures never exceed the retry limit needs
  `Types`: a root is in the hand of its own database's processor only, taken below the
  limit, and what a mark does to its rows meanwhile starts the count over.
* `FreshRowsAreCurrent` (`FreshIsCurrent`), `ArchivedStaysOut` (`ArchivedNotSearched`)
  and `LiveRootsKept` (`NeverForgotten`), which are inductive only together
  (`TextInv`). `StoresCurrent` says of a read under way that nothing marked since
  (`newer`) that its text is the tree's, or that a mark yet to land covers the edit, or
  that the root is excused; `Ordered` says that the marks waiting at the writer that
  took their timestamp before the read stand before those that took it after, so the last
  mark of a root is one that the store will notice.
* `GivenUpIsCurrent` (`GivenUpOnCurrentText`), for `MaxRetries > 1`, as the code has it (3,
  `models/embedding.rs:280`). `FailsCurrent` says that a failure about to
  be recorded for an older text is the first since the mark that told of the new one, so
  it gives nothing up. With one retry the property is false, as TLC
  shows: `record_embedding_error` does not look for newer rows, so the failure of an
  old text would give up the new one.
* `DeferralsEnd` (`DeferralEnds`) and `SleepersAreTimed` (`SleepIsTimed`), inductive on
  top of the types.

`NodeTreeProofs` proves, for every set of nodes and callers, every number of requests
and every `Unit` and `MinGap` from 2 up to it (`KeyAssumption`, `NameAssumption`,
`BoundAssumption`), starting from any finite tree that is sound: one edge for each pair,
keys distinct among siblings, no loop (`OutlineAssumption`).

* `TypeCorrect` (`TypeOK`), `TreeHasNoLoops` (`NoLoops`) and `KeysStayDistinct`
  (`KeysDistinct`), from the inductive invariant `TreeInv`. `Graph` is the tree;
  `Calls` says what a call under way names, that the versions it saw are no newer than
  the node's (`Sawn`) and that the id of a create is its own (`Fresh`); `Queue` says that
  `pending` holds each committed call once. The loop check reads the least closed set
  below a node, so `Grafted` needs no induction: a set of nodes in which everyone has a
  parent, after an edge from `dest` to `n` is added, would put `dest` below `n` or have
  been there before. For the keys, `KeyFits` says that the middle of a gap of at least
  `MinGap` is strictly inside it, and `SpreadingKeeps` that a re-spread keeps the order and
  leaves gaps of a whole `Unit`.
* `NoWriteIsLost` (`NoLostWrite`): once a write went through, the versions it saw are below
  the nodes' own, and the next write saw those.
* `DeletionsTakeWhatWasShown`, `NoRootsAppearSilently` and `PlacedNodesLand`: the action
  properties, from `TreeInv` and what each write does to parents and keys
  (`WritesLeaveParents`, `PlacedStands`).
* `ImplementsOutline`: `Spec => OutlineSpec`. A placement under another parent is
  `Outline`'s placement, one under the same parent its shift; gathering places
  several nodes at once, creating is `Grow`, deleting `Remove`, attaching and
  detaching have their own names; everything else, publication included, stutters. `RoomyAhead` says that a re-spread changes nobody's
  place.

`OutlineWindowProofs` proves, from the same assumptions,

* `WindowRunsTheTree` (`WindowSpec => Spec`): the window disturbs nothing, so what
  `NodeTreeProofs` says holds of the specification that run Writes explores.
* `WindowComesToAgree` (`WindowAgrees`), for any number of writes waiting to be published.
  The window agrees with the store only when nothing is pending, which no step keeps.
  `WindowInv` therefore speaks of the windows there will be: a sequence that begins with
  the one there is and goes on by hearing each pending write in order, the last
  of which agrees with the tree. A write adds one to it, a publication in order takes
  the first, and every other step leaves it. That a write's events suffice (`Announced`)
  is a lemma for each write: a placement announces its re-spread siblings
  (`PlaceAnnounced`), and the nodes for which a write announces too little are the
  ones in `astray`.
Only model-checked: `NoDeadlock`, which is about ENABLED (`SomeRequestProceeds` proves
what it says of the locks), and `ChainsEnd`,
`ScansComplete`, `EventuallyEmbedded` and `EventuallyIdle` (liveness): both kinds are
out of the prover's reach.

## Not modelled

SQL, the connection pool, text processing (markdown, prompts, CEL, full-text
search), the model runtimes, gRPC marshalling and the user interface: sequential
or external code, where tests reach further than a model would. The parts that
have concurrency and are not modelled yet are in the plan above.

Of the parts that are modelled: the structural rules of types, collections and
memberships (the root-only rule and the cycle check of member_of read outside the
write guard), date pages created on first use, bulk creation of edges, has_child edges
with a key of the caller's own; a window's own optimistic writes, its reload, and
events its stream loses; the chunking and searching of embeddings, two streams on one
database's claim, the shutdown of a processor; the arithmetic of cron windows; of a
chat's turn the rounds of tools, the streaming, the loading of models and the record
of what the turn wrote, and other chats, which share with it the model and the
channel only.
