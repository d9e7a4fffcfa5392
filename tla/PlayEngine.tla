------------------------------ MODULE PlayEngine ------------------------------
(***************************************************************************)
(* The play engine of packages/core/src/playbook: automation rules         *)
(* ("plays") stored as nodes, cached and indexed in memory by the engine   *)
(* and run against graph events.                                           *)
(*                                                                         *)
(* Four actors share the state:                                            *)
(*   - users (and other writers), who edit play nodes, schemas and data    *)
(*     through NodeService; every committed write publishes one event;     *)
(*   - the subscriber task (engine.rs start/handle_event), which keeps the *)
(*     lifecycle manager in line with the nodes and queues matched rules;  *)
(*   - the RuleProcessor task, the only consumer of the ExecutionQueue;    *)
(*   - the CronRunner task, a second producer of the ExecutionQueue.       *)
(*                                                                         *)
(* A step of the model ends where the code awaits a store call or releases *)
(* the lifecycle lock, so everything another task can do in between is an  *)
(* interleaving of the model.                                              *)
(***************************************************************************)
EXTENDS Integers, Sequences, FiniteSets

CONSTANTS
    Plays,          (* ids of the play nodes; ordered, as OrderedRuleRef is     *)
    NoPlay,         (* no play: filler where a record names none                *)
    RuleSets,       (* what the rules property of a play can hold               *)
    Schemas,        (* states of the schemas the rules refer to                 *)
    Valid,          (* the pairs <<rules, schema>> that parse and validate      *)
    NumRules,       (* rules of one play                                        *)
    CronRules,      (* indices of the scheduled rules; the others match events  *)
    MaxChainDepth,  (* MAX_CHAIN_DEPTH                                          *)
    ChannelCap,     (* DOMAIN_EVENT_CHANNEL_CAPACITY                            *)
    QueueCap,       (* EXECUTION_QUEUE_CAPACITY                                 *)
    Reserved,       (* slots a scheduled scan leaves free: an eighth            *)
    MaxEdits,       (* bound: writes by users                                   *)
    MaxFaults,      (* bound: store calls that fail                             *)
    MaxStarts,      (* bound: engine starts                                     *)
    MaxScans,       (* bound: cron scans that come due                          *)
    ScanSize        (* nodes a scan selects                                     *)

ASSUME PlayEngineAssumption ==
    /\ Plays \subseteq Nat
    /\ NoPlay \notin Plays
    /\ RuleSets # {}
    /\ NumRules \in Nat
    /\ CronRules \subseteq 1..NumRules
    /\ MaxChainDepth \in Nat
    /\ ChannelCap \in Nat \ {0}
    /\ QueueCap \in Nat \ {0}
    /\ Reserved \in 0..(QueueCap - 1)
    /\ {MaxEdits, MaxFaults, MaxStarts, MaxScans, ScanSize} \subseteq Nat

VARIABLES
    play,       (* play[p]: the row of play node p in the store              *)
    schema,     (* the schemas, in the store                                 *)
    pending,    (* committed writes whose event is not published yet         *)
    channel,    (* events the subscriber has not received yet                *)
    lagged,     (* the channel overflowed since the subscriber last looked   *)
    status,     (* status[p]: active_playbooks[p].status                     *)
    loaded,     (* loaded[p]: the rules the engine compiled for p            *)
    index,      (* trigger_index and cron_registry                           *)
    queue,      (* the ExecutionQueue                                        *)
    sub,        (* control state of the subscriber task                      *)
    proc,       (* control state of the RuleProcessor task                   *)
    cron,       (* control state of the CronRunner task                      *)
    unsure,     (* history: plays the engine could not read or write when it *)
                (* last tried; the code logs this and carries on             *)
    late,       (* history: plays whose deletion was published after the     *)
                (* event of their re-creation                                *)
    spent       (* the bounded inputs used so far                            *)

store     == <<play, schema, pending>>
lifecycle == <<status, loaded, index>>
vars      == <<play, schema, pending, channel, lagged, status, loaded, index, queue,
               sub, proc, cron, unsure, late, spent>>

-----------------------------------------------------------------------------
(* Rows, rules and events. *)

Row == [life : {"absent", "active", "archived"}, enabled : BOOLEAN,
        suspended : BOOLEAN, rules : RuleSets]

NoRow == [life |-> "absent", enabled |-> TRUE, suspended |-> FALSE,
          rules |-> CHOOSE r \in RuleSets : TRUE]

Status == {"unknown", "runnable", "archived", "disabled", "suspended"}

(* PlayStatus::of_node: participation, then the user's switch, then the
   suspension. "Runnable" still depends on the rules validating. *)
OfNode(row) ==
    CASE row.life = "absent"                -> "unknown"
      [] row.life = "archived"              -> "archived"
      [] row.life = "active" /\ ~row.enabled -> "disabled"
      [] row.life = "active" /\ row.enabled /\ row.suspended -> "suspended"
      [] OTHER                              -> "runnable"

Ref   == [play : Plays, rules : RuleSets, at : 1..NumRules]
Entry == [play : Plays, row : Row]
Item  == [refs : SUBSET Ref, depth : 0..MaxChainDepth]

PlayEvent(p)  == [kind |-> "play", play |-> p, depth |-> 0]
GoneEvent(p)  == [kind |-> "gone", play |-> p, depth |-> 0]
SchemaEvent   == [kind |-> "schema", play |-> NoPlay, depth |-> 0]
DataEvent(d)  == [kind |-> "data", play |-> NoPlay, depth |-> d]

Event == {PlayEvent(p) : p \in Plays} \cup {GoneEvent(p) : p \in Plays}
           \cup {SchemaEvent} \cup {DataEvent(d) : d \in 0..MaxChainDepth}

(* A committed write, told apart by its number. *)
Write == [event : Event, no : 1..MaxEdits]

RefsOf(p, r) == {[play |-> p, rules |-> r, at |-> i] : i \in 1..NumRules}

(* OrderedRuleRef's order: by play id, then by rule index. *)
Precedes(a, b) == a.play < b.play \/ (a.play = b.play /\ a.at <= b.at)

(* Mutant of Exceeds: the depth of the event in hand is compared, not the depth
   of the writes about to be made. *)
ExceedsByEvent(depth) == depth > MaxChainDepth

(* The next hop of a chain at this depth would exceed MAX_CHAIN_DEPTH. *)
Exceeds(depth) == depth + 1 > MaxChainDepth

(* A subscribed receiver of the broadcast channel: the sender never waits, and
   a full channel loses its oldest event and reports the loss (Lagged). *)
Emit(e) ==
    IF sub.pc = "down" THEN UNCHANGED <<channel, lagged>>
    ELSE /\ channel' = Append(IF Len(channel) < ChannelCap THEN channel
                              ELSE Tail(channel), e)
         /\ lagged' = (lagged \/ Len(channel) >= ChannelCap)

InChannel(e) == \E i \in DOMAIN channel : channel[i] = e

EmitMaybe(e) == Emit(e) \/ UNCHANGED <<channel, lagged>>

-----------------------------------------------------------------------------
(* The lifecycle manager. Each operation runs under its write lock. *)

Without(p) == {ref \in index : ref.play # p}

Park(p, s, r) ==
    /\ status' = [status EXCEPT ![p] = s]
    /\ loaded' = [loaded EXCEPT ![p] = r]
    /\ index' = Without(p)

Reindex(p, r) ==
    /\ status' = [status EXCEPT ![p] = "runnable"]
    /\ loaded' = [loaded EXCEPT ![p] = r]
    /\ index' = Without(p) \cup RefsOf(p, r)

(* Mutant of Suspend: only the status changes, the rules stay indexed. *)
SuspendStatusOnly(p) ==
    /\ status' = [status EXCEPT ![p] = "suspended"]
    /\ UNCHANGED <<loaded, index>>

(* suspend_play: a play that is not running is left alone. *)
Suspend(p) ==
    /\ status' = [status EXCEPT ![p] = "suspended"]
    /\ index' = Without(p)
    /\ UNCHANGED loaded

(* retain_plays and deactivate_play *)
Forget(gone) ==
    /\ status' = [p \in Plays |-> IF p \in gone THEN "unknown" ELSE status[p]]
    /\ index' = {ref \in index : ref.play \notin gone}
    /\ UNCHANGED loaded

IsRunning(p) == status[p] = "runnable"

-----------------------------------------------------------------------------
(* Control states. *)

Sub  == [pc : {"down", "query", "fetch", "schema", "work", "validate", "record",
               "publish", "match", "idle", "closed"},
         cur : [play : Plays \cup {NoPlay}, row : Row],
         batch : SUBSET Entry,      \* plays still to sync
         keep : SUBSET Plays,       \* plays to retain once the batch is done
         broken : SUBSET Plays,     \* plays still to suspend for schema drift
         refs : SUBSET Ref,         \* rules matched by the event in hand
         depth : 0..MaxChainDepth]

Resting == [pc |-> "idle", cur |-> [play |-> NoPlay, row |-> NoRow], batch |-> {},
            keep |-> Plays, broken |-> {}, refs |-> {}, depth |-> 0]

Proc == [pc : {"off", "idle", "cycle", "rules", "eval", "record", "publish"},
         todo : SUBSET Ref,         \* rules of the work item still to process
         play : Plays \cup {NoPlay}, \* the play of the rule in hand
         depth : 0..MaxChainDepth,
         failed : SUBSET Plays]     \* history: plays this item gave cause to suspend,
                                    \* less those a user cleared since

Waiting == [pc |-> "idle", todo |-> {}, play |-> NoPlay, depth |-> 0, failed |-> {}]

Cron == [refs : SUBSET Ref, left : 0..ScanSize]
NoScan == [refs |-> {}, left |-> 0]

Spent == [edits : 0..MaxEdits, faults : 0..MaxFaults, starts : 0..MaxStarts,
          scans : 0..MaxScans]

TypeOK ==
    /\ play \in [Plays -> Row]
    /\ schema \in Schemas
    /\ pending \subseteq Write
    /\ channel \in Seq(Event)
    /\ Len(channel) <= ChannelCap
    /\ lagged \in BOOLEAN
    /\ status \in [Plays -> Status]
    /\ loaded \in [Plays -> RuleSets]
    /\ index \subseteq Ref
    /\ queue \in Seq(Item)
    /\ Len(queue) <= QueueCap
    /\ sub \in Sub
    /\ proc \in Proc
    /\ cron \in Cron
    /\ unsure \subseteq Plays /\ late \subseteq Plays
    /\ spent \in Spent

(* The engine is not started; the plays may come from an earlier run, an
   earlier build or another device, so any row is possible. *)
Init ==
    /\ play \in [Plays -> {r \in Row : r.life = "absent" => r = NoRow}]
    /\ schema \in Schemas
    /\ pending = {}
    /\ channel = <<>>
    /\ lagged = FALSE
    /\ status = [p \in Plays |-> "unknown"]
    /\ loaded = [p \in Plays |-> NoRow.rules]
    /\ index = {}
    /\ queue = <<>>
    /\ sub = [Resting EXCEPT !.pc = "down"]
    /\ proc = [Waiting EXCEPT !.pc = "off"]
    /\ cron = NoScan
    /\ unsure = {} /\ late = {}
    /\ spent = [edits |-> 0, faults |-> 0, starts |-> 0, scans |-> 0]

Fault == /\ spent.faults < MaxFaults
         /\ spent' = [spent EXCEPT !.faults = @ + 1]

-----------------------------------------------------------------------------
(* Writers. A write commits under the store's writer lock and publishes its
   event after it, on its own task, so two writes may publish in the opposite
   order. A play action that writes a play node is a writer too. *)

Edit(e) ==
    /\ spent.edits < MaxEdits
    /\ spent' = [spent EXCEPT !.edits = @ + 1]
    /\ pending' = pending \cup {[event |-> e, no |-> spent.edits + 1]}

(* A write that clears the play's suspension makes what failed earlier in the
   current work item a matter of the past. *)
WriteRow(p, row, e, clears) ==
    /\ Edit(e)
    /\ play' = [play EXCEPT ![p] = row]
    /\ proc' = IF clears THEN [proc EXCEPT !.failed = @ \ {p}] ELSE proc
    /\ UNCHANGED <<schema, channel, lagged, lifecycle, queue, sub, cron, unsure, late>>

(* A new play carries no suspension and passes save-time validation. *)
CreatePlay(p, r) ==
    /\ play[p].life = "absent"
    /\ <<r, schema>> \in Valid
    /\ \E on \in BOOLEAN :
          WriteRow(p, [NoRow EXCEPT !.life = "active", !.enabled = on, !.rules = r],
                   PlayEvent(p), TRUE)

(* settle_play_update: enabling, even a play that is enabled, clears the
   suspension. *)
SetEnabled(p, on) ==
    /\ play[p].life # "absent"
    /\ WriteRow(p, [play[p] EXCEPT !.enabled = on,
                                   !.suspended = @ /\ ~on], PlayEvent(p), on)

(* Saving different rules validates them first, and clears the suspension. *)
SaveRules(p, r) ==
    /\ play[p].life # "absent"
    /\ r # play[p].rules
    /\ <<r, schema>> \in Valid
    /\ WriteRow(p, [play[p] EXCEPT !.rules = r, !.suspended = FALSE],
                PlayEvent(p), TRUE)

(* Any other edit of the node, such as its description. *)
Touch(p) ==
    /\ play[p].life # "absent"
    /\ WriteRow(p, play[p], PlayEvent(p), FALSE)

SetLife(p, life) ==
    /\ play[p].life \in {"active", "archived"} \ {life}
    /\ WriteRow(p, [play[p] EXCEPT !.life = life], PlayEvent(p), FALSE)

DeletePlay(p) ==
    /\ play[p].life # "absent"
    /\ WriteRow(p, NoRow, GoneEvent(p), FALSE)

ChangeSchema(s) ==
    /\ s # schema
    /\ schema' = s
    /\ Edit(SchemaEvent)
    /\ UNCHANGED <<play, channel, lagged, lifecycle, queue, sub, proc, cron, unsure, late>>

(* A user's edit of a node the rules trigger on starts a chain at 0. *)
WriteData ==
    /\ Edit(DataEvent(0))
    /\ UNCHANGED <<play, schema, channel, lagged, lifecycle, queue, sub, proc, cron, unsure, late>>

Unpublished(e) == \E w \in pending : w.event = e

(* publish_committed and emit_event, in whatever order the tasks get there. *)
Publish ==
    \E w \in pending :
       /\ pending' = pending \ {w}
       /\ Emit(w.event)
       /\ late' = {p \in Plays :
                     \/ p \in late /\ w.event # PlayEvent(p)
                     \/ /\ w.event = GoneEvent(p) /\ sub.pc # "down"
                        /\ play[p].life # "absent" /\ ~Unpublished(PlayEvent(p))}
       /\ UNCHANGED <<play, schema, lifecycle, queue, sub, proc, cron, unsure, spent>>

Writers ==
    \/ \E p \in Plays, r \in RuleSets : CreatePlay(p, r) \/ SaveRules(p, r)
    \/ \E p \in Plays, on \in BOOLEAN : SetEnabled(p, on)
    \/ \E p \in Plays, life \in {"active", "archived"} : SetLife(p, life)
    \/ \E p \in Plays : Touch(p) \/ DeletePlay(p)
    \/ \E s \in Schemas : ChangeSchema(s)
    \/ WriteData
    \/ Publish

-----------------------------------------------------------------------------
(* record_play_suspension, by whichever task suspended the play. The row's
   suspension is set with no version check; then the row is read back and
   NodeUpdated is published. Either part may meet a play that is gone by now, or
   fail, which is logged and nothing more. *)
RecordSuspension(p) ==
    /\ play[p].life # "absent"
    /\ play' = [play EXCEPT ![p].suspended = TRUE]
    /\ UNCHANGED <<unsure, spent>>

PublishSuspension(p) ==
    /\ play[p].life # "absent"
    /\ Emit(PlayEvent(p))
    /\ late' = late \ {p}
    /\ UNCHANGED <<unsure, spent>>

GoneBeforeRecord(p) == play[p].life = "absent" /\ UNCHANGED <<unsure, spent>>

RecordFails(p) == Fault /\ unsure' = unsure \cup {p}

-----------------------------------------------------------------------------
(* The subscriber task. *)

(* start: subscribe first, then load. *)
Start ==
    /\ sub.pc = "down"
    /\ spent.starts < MaxStarts
    /\ spent' = [spent EXCEPT !.starts = @ + 1]
    /\ sub' = [Resting EXCEPT !.pc = "query"]
    /\ unsure' = {}
    /\ UNCHANGED <<store, channel, lagged, lifecycle, queue, proc, cron, late>>

(* load_plays: one query for the plays that are not archived. *)
LoadQuery ==
    /\ sub.pc = "query"
    /\ LET rows == {[play |-> p, row |-> play[p]] :
                       p \in {q \in Plays : play[q].life = "active"}}
       IN sub' = [Resting EXCEPT !.pc = "work", !.batch = rows,
                                 !.keep = {b.play : b \in rows}]
    /\ unsure' = {}
    /\ late' = {p \in late : InChannel(GoneEvent(p))}
    /\ UNCHANGED <<store, channel, lagged, lifecycle, queue, proc, cron, spent>>

(* A failed query fails start; on a reload it is logged, and the engine runs on
   what it has. *)
LoadFails ==
    /\ sub.pc = "query"
    /\ Fault
    /\ unsure' = Plays
    /\ IF proc.pc = "off"
       THEN /\ sub' = [Resting EXCEPT !.pc = "down"]
            /\ channel' = <<>> /\ lagged' = FALSE /\ late' = {}
       ELSE /\ sub' = Resting
            /\ UNCHANGED <<channel, lagged, late>>
    /\ UNCHANGED <<store, lifecycle, queue, proc, cron>>

(* sync_play of the next row. A play that does not run is parked at once;
   otherwise its rules are validated, which awaits the store. *)
SyncPlay ==
    /\ sub.pc = "work"
    /\ \E b \in sub.batch :
          IF OfNode(b.row) = "runnable"
          THEN /\ sub' = [sub EXCEPT !.pc = "validate", !.cur = b, !.batch = @ \ {b}]
               /\ UNCHANGED lifecycle
          ELSE /\ Park(b.play, OfNode(b.row), b.row.rules)
               /\ sub' = [sub EXCEPT !.batch = @ \ {b}]
    /\ UNCHANGED <<store, channel, lagged, queue, proc, cron, unsure, late, spent>>

BackToWork == [sub EXCEPT !.pc = "work", !.cur = Resting.cur]

(* The verdict is in: index the play afresh from the row that was read. *)
ValidatePass ==
    /\ sub.pc = "validate"
    /\ <<sub.cur.row.rules, schema>> \in Valid
    /\ Reindex(sub.cur.play, sub.cur.row.rules)
    /\ sub' = BackToWork
    /\ UNCHANGED <<store, channel, lagged, queue, proc, cron, unsure, late, spent>>

(* suspend_unrunnable: parked, and then recorded on the node. *)
ValidateFail ==
    /\ sub.pc = "validate"
    /\ <<sub.cur.row.rules, schema>> \notin Valid
    /\ Park(sub.cur.play, "suspended", sub.cur.row.rules)
    /\ sub' = [sub EXCEPT !.pc = "record"]
    /\ UNCHANGED <<store, channel, lagged, queue, proc, cron, unsure, late, spent>>

(* Validation reached no verdict: the play is indexed anyway. *)
ValidateInconclusive ==
    /\ sub.pc = "validate"
    /\ Fault
    /\ Reindex(sub.cur.play, sub.cur.row.rules)
    /\ unsure' = unsure \cup {sub.cur.play}
    /\ sub' = BackToWork
    /\ UNCHANGED <<store, channel, lagged, queue, proc, cron, late>>

SubRecord ==
    /\ sub.pc = "record"
    /\ RecordSuspension(sub.cur.play)
    /\ sub' = [sub EXCEPT !.pc = "publish"]
    /\ UNCHANGED <<schema, pending, channel, lagged, lifecycle, queue, proc, cron, late>>

SubPublish ==
    /\ sub.pc = "publish"
    /\ PublishSuspension(sub.cur.play)
    /\ sub' = BackToWork
    /\ UNCHANGED <<store, lifecycle, queue, proc, cron>>

SubRecordFails ==
    /\ sub.pc \in {"record", "publish"}
    /\ GoneBeforeRecord(sub.cur.play) \/ RecordFails(sub.cur.play)
    /\ sub' = BackToWork
    /\ UNCHANGED <<store, channel, lagged, lifecycle, queue, proc, cron, late>>

(* suspend_play for the next play a schema change broke. *)
SuspendBroken ==
    /\ sub.pc = "work"
    /\ sub.batch = {}
    /\ \E p \in sub.broken :
          IF IsRunning(p)
          THEN /\ Suspend(p)
               /\ sub' = [sub EXCEPT !.pc = "record", !.broken = @ \ {p}, !.cur.play = p]
          ELSE /\ sub' = [sub EXCEPT !.broken = @ \ {p}]
               /\ UNCHANGED lifecycle
    /\ UNCHANGED <<store, channel, lagged, queue, proc, cron, unsure, late, spent>>

(* The batch is done: forget the plays a load did not see. The first load also
   ends start-up, which spawns the two other tasks. *)
WorkDone ==
    /\ sub.pc = "work"
    /\ sub.batch = {} /\ sub.broken = {}
    /\ Forget(Plays \ sub.keep)
    /\ sub' = Resting
    /\ proc' = IF proc.pc = "off" THEN Waiting ELSE proc
    /\ UNCHANGED <<store, channel, lagged, queue, cron, unsure, late, spent>>

(* Mutant of ReceiveLagged: the loss is logged and the loop goes on. *)
ReceiveLaggedIgnored ==
    /\ sub.pc = "idle"
    /\ lagged
    /\ lagged' = FALSE
    /\ UNCHANGED <<store, channel, lifecycle, queue, sub, proc, cron, unsure, late, spent>>

(* Lagged: a missed event may have been a play's own, so load again. *)
ReceiveLagged ==
    /\ sub.pc = "idle"
    /\ lagged
    /\ lagged' = FALSE
    /\ sub' = [Resting EXCEPT !.pc = "query"]
    /\ UNCHANGED <<store, channel, lifecycle, queue, proc, cron, unsure, late, spent>>

Receive(kind) ==
    /\ sub.pc = "idle"
    /\ ~lagged
    /\ channel # <<>>
    /\ Head(channel).kind = kind
    /\ channel' = Tail(channel)
    /\ UNCHANGED lagged

(* A play was created or updated: its node is read again. *)
ReceivePlay ==
    /\ Receive("play")
    /\ sub' = [Resting EXCEPT !.pc = "fetch", !.cur.play = Head(channel).play]
    /\ UNCHANGED <<store, lifecycle, queue, proc, cron, unsure, late, spent>>

ReceiveGone ==
    /\ Receive("gone")
    /\ Forget({Head(channel).play})
    /\ UNCHANGED <<store, queue, sub, proc, cron, unsure, late, spent>>

ReceiveSchema ==
    /\ Receive("schema")
    /\ sub' = [Resting EXCEPT !.pc = "schema"]
    /\ UNCHANGED <<store, lifecycle, queue, proc, cron, unsure, late, spent>>

(* lookup_rules for a data event; the trigger node is fetched next. *)
ReceiveData ==
    /\ Receive("data")
    /\ LET matched == {ref \in index : ref.at \notin CronRules}
       IN sub' = IF matched = {} THEN Resting
                 ELSE [Resting EXCEPT !.pc = "match", !.refs = matched,
                                      !.depth = Head(channel).depth]
    /\ UNCHANGED <<store, lifecycle, queue, proc, cron, unsure, late, spent>>

(* Mutant of FetchPlay: a play that is switched off is not synced. *)
FetchPlayEnabledOnly ==
    /\ sub.pc = "fetch"
    /\ LET p == sub.cur.play
       IN IF play[p].life = "absent" \/ ~play[p].enabled
          THEN sub' = Resting /\ UNCHANGED unsure
          ELSE /\ sub' = [Resting EXCEPT !.pc = "work",
                                         !.batch = {[play |-> p, row |-> play[p]]}]
               /\ unsure' = unsure \ {p}
    /\ UNCHANGED <<store, channel, lagged, lifecycle, queue, proc, cron, late, spent>>

(* handle_play_created, handle_play_updated *)
FetchPlay ==
    /\ sub.pc = "fetch"
    /\ LET p == sub.cur.play
       IN IF play[p].life = "absent"
          THEN sub' = Resting /\ UNCHANGED unsure
          ELSE /\ sub' = [Resting EXCEPT !.pc = "work",
                                         !.batch = {[play |-> p, row |-> play[p]]}]
               /\ unsure' = unsure \ {p}
    /\ UNCHANGED <<store, channel, lagged, lifecycle, queue, proc, cron, late, spent>>

FetchFails ==
    /\ sub.pc = "fetch"
    /\ Fault
    /\ unsure' = unsure \cup {sub.cur.play}
    /\ sub' = Resting
    /\ UNCHANGED <<store, channel, lagged, lifecycle, queue, proc, cron, late>>

(* handle_schema_updated: the running plays that refer to the schema are
   validated against it, and the broken ones suspended one by one. A play whose
   validation reaches no verdict is left running; if the schema node cannot be
   read that is all of them. *)
FetchSchema ==
    /\ sub.pc = "schema"
    /\ \E missed \in SUBSET Plays :
          /\ sub' = [Resting EXCEPT !.pc = "work",
                       !.broken = {p \in Plays \ missed :
                                      IsRunning(p) /\ <<loaded[p], schema>> \notin Valid}]
          /\ unsure' = unsure \cup missed
          /\ \/ missed # {} /\ Fault
             \/ missed = {} /\ UNCHANGED spent
    /\ UNCHANGED <<store, channel, lagged, lifecycle, queue, proc, cron, late>>

(* The trigger node was read: queue the work item with try_send. *)
Enqueue ==
    /\ sub.pc = "match"
    /\ Len(queue) < QueueCap
    /\ queue' = Append(queue, [refs |-> sub.refs, depth |-> sub.depth])
    /\ sub' = Resting
    /\ UNCHANGED <<store, channel, lagged, lifecycle, proc, cron, unsure, late, spent>>

(* The trigger node is gone, archived or unreadable, or the queue is full. *)
DropMatch ==
    /\ sub.pc = "match"
    /\ sub' = Resting
    /\ UNCHANGED <<store, channel, lagged, lifecycle, queue, proc, cron, unsure, late, spent>>

(* The loop leaves; the processor drains what is queued. *)
Shutdown ==
    /\ sub.pc = "idle"
    /\ sub' = [Resting EXCEPT !.pc = "closed"]
    /\ UNCHANGED <<store, channel, lagged, lifecycle, queue, proc, cron, unsure, late, spent>>

(* The process ends with nothing but the store left: on its own after the
   drain, or in a crash. *)
Stopped ==
    /\ sub' = [Resting EXCEPT !.pc = "down"]
    /\ channel' = <<>> /\ lagged' = FALSE
    /\ Forget(Plays)
    /\ queue' = <<>>
    /\ proc' = [Waiting EXCEPT !.pc = "off"]
    /\ cron' = NoScan
    /\ unsure' = {} /\ late' = {}
    /\ pending' = {}
    /\ UNCHANGED <<play, schema, spent>>

Crash == sub.pc # "down" /\ spent.starts < MaxStarts /\ Stopped

Drained ==
    /\ sub.pc = "closed"
    /\ proc.pc = "idle" /\ queue = <<>> /\ cron.left = 0
    /\ Stopped

-----------------------------------------------------------------------------
(* The RuleProcessor task. *)

TakeItem ==
    /\ proc.pc = "idle"
    /\ queue # <<>>
    /\ queue' = Tail(queue)
    /\ LET item == Head(queue)
       IN proc' = [Waiting EXCEPT !.pc = IF Exceeds(item.depth) THEN "cycle" ELSE "rules",
                                  !.todo = item.refs, !.depth = item.depth]
    /\ UNCHANGED <<store, channel, lagged, lifecycle, sub, cron, unsure, late, spent>>

IsNext(ref) == \A b \in proc.todo : Precedes(ref, b)

(* The processor with the rule in hand behind it. *)
Dropped(hand) == [hand EXCEPT !.pc = IF Exceeds(hand.depth) THEN "cycle" ELSE "rules",
                              !.play = NoPlay]

(* suspend_play for the play of the rule in hand, recorded if it was running;
   a play that was not running leaves nothing to record. *)
SuspendHeld(hand) ==
    IF IsRunning(hand.play)
    THEN Suspend(hand.play) /\ proc' = [hand EXCEPT !.pc = "record"]
    ELSE UNCHANGED lifecycle /\ proc' = Dropped(hand)

(* Too deep: no rule of the item runs, and every play in it is suspended. *)
BreakCycle ==
    /\ proc.pc = "cycle"
    /\ \E ref \in proc.todo :
          /\ IsNext(ref)
          /\ SuspendHeld([proc EXCEPT !.todo = @ \ {ref}, !.play = ref.play,
                                      !.failed = @ \cup {ref.play}])
    /\ UNCHANGED <<store, channel, lagged, queue, sub, cron, unsure, late, spent>>

(* Mutant of BeginRule: whatever was matched when the item was queued runs. *)
BeginRuleUnchecked ==
    /\ proc.pc = "rules"
    /\ \E ref \in proc.todo :
          /\ IsNext(ref)
          /\ proc' = [proc EXCEPT !.todo = @ \ {ref}, !.play = ref.play, !.pc = "eval"]
    /\ UNCHANGED <<store, channel, lagged, lifecycle, queue, sub, cron, unsure, late, spent>>

(* The running check at the top of the loop, under the read lock. *)
BeginRule ==
    /\ proc.pc = "rules"
    /\ \E ref \in proc.todo :
          /\ IsNext(ref)
          /\ LET hand == [proc EXCEPT !.todo = @ \ {ref}, !.play = ref.play]
             IN proc' = IF IsRunning(ref.play) THEN [hand EXCEPT !.pc = "eval"]
                        ELSE Dropped(hand)
    /\ UNCHANGED <<store, channel, lagged, lifecycle, queue, sub, cron, unsure, late, spent>>

(* The scope or a condition does not resolve, or a condition is false. *)
RuleSkipped ==
    /\ proc.pc = "eval"
    /\ proc' = Dropped(proc)
    /\ UNCHANGED <<store, channel, lagged, lifecycle, queue, sub, cron, unsure, late, spent>>

(* Mutant of RuleRan: the writes carry the depth of the event, not the next. *)
RuleRanSameDepth ==
    /\ proc.pc = "eval"
    /\ EmitMaybe(DataEvent(proc.depth))
    /\ proc' = Dropped(proc)
    /\ UNCHANGED <<store, lifecycle, queue, sub, cron, unsure, late, spent>>

(* The actions ran, or an invariant rule refused one of their writes: the play
   keeps running. Their writes carry the chain one hop further. *)
RuleRan ==
    /\ proc.pc = "eval"
    /\ EmitMaybe(DataEvent(proc.depth + 1))
    /\ proc' = Dropped(proc)
    /\ UNCHANGED <<store, lifecycle, queue, sub, cron, unsure, late, spent>>

(* An action failed, perhaps after earlier ones wrote: the play is suspended. *)
RuleFailed ==
    /\ proc.pc = "eval"
    /\ EmitMaybe(DataEvent(proc.depth + 1))
    /\ SuspendHeld([proc EXCEPT !.failed = @ \cup {proc.play}])
    /\ UNCHANGED <<store, queue, sub, cron, unsure, late, spent>>

ProcRecord ==
    /\ proc.pc = "record"
    /\ RecordSuspension(proc.play)
    /\ proc' = [proc EXCEPT !.pc = "publish"]
    /\ UNCHANGED <<schema, pending, channel, lagged, lifecycle, queue, sub, cron, late>>

ProcPublish ==
    /\ proc.pc = "publish"
    /\ PublishSuspension(proc.play)
    /\ proc' = Dropped(proc)
    /\ UNCHANGED <<store, lifecycle, queue, sub, cron>>

ProcRecordFails ==
    /\ proc.pc \in {"record", "publish"}
    /\ GoneBeforeRecord(proc.play) \/ RecordFails(proc.play)
    /\ proc' = Dropped(proc)
    /\ UNCHANGED <<store, channel, lagged, lifecycle, queue, sub, cron, late>>

ItemDone ==
    /\ proc.pc \in {"cycle", "rules"}
    /\ proc.todo = {}
    /\ proc' = Waiting
    /\ UNCHANGED <<store, channel, lagged, lifecycle, queue, sub, cron, unsure, late, spent>>

-----------------------------------------------------------------------------
(* The CronRunner task. *)

(* A schedule came due: the registry is cloned and the nodes are selected. *)
CronDue ==
    /\ proc.pc # "off" /\ sub.pc # "closed"
    /\ cron.left = 0
    /\ spent.scans < MaxScans
    /\ LET due == {ref \in index : ref.at \in CronRules}
       IN due # {} /\ cron' = [refs |-> due, left |-> ScanSize]
    /\ spent' = [spent EXCEPT !.scans = @ + 1]
    /\ UNCHANGED <<store, channel, lagged, lifecycle, queue, sub, proc, unsure, late>>

(* enqueue_scheduled: waits until more than the reserved slots are free. *)
CronEnqueue ==
    /\ cron.left > 0
    /\ sub.pc # "closed"
    /\ QueueCap - Len(queue) > Reserved
    /\ queue' = Append(queue, [refs |-> cron.refs, depth |-> 0])
    /\ cron' = IF cron.left = 1 THEN NoScan ELSE [cron EXCEPT !.left = @ - 1]
    /\ UNCHANGED <<store, channel, lagged, lifecycle, sub, proc, unsure, late, spent>>

(* Mutant of CronStops: the wait for a slot does not watch for shutdown. *)
CronStopsWithProcess ==
    /\ cron.left > 0
    /\ sub.pc = "down"
    /\ cron' = NoScan
    /\ UNCHANGED <<store, channel, lagged, lifecycle, queue, sub, proc, unsure, late, spent>>

CronStops ==
    /\ cron.left > 0
    /\ sub.pc = "closed"
    /\ cron' = NoScan
    /\ UNCHANGED <<store, channel, lagged, lifecycle, queue, sub, proc, unsure, late, spent>>

-----------------------------------------------------------------------------
Subscriber ==
    \/ LoadQuery \/ LoadFails \/ SyncPlay
    \/ ValidatePass \/ ValidateFail \/ ValidateInconclusive
    \/ SubRecord \/ SubPublish \/ SubRecordFails \/ SuspendBroken \/ WorkDone
    \/ ReceiveLagged \/ ReceivePlay \/ ReceiveGone \/ ReceiveSchema \/ ReceiveData
    \/ FetchPlay \/ FetchFails \/ FetchSchema
    \/ Enqueue \/ DropMatch

Processor ==
    \/ TakeItem \/ BreakCycle \/ BeginRule \/ RuleSkipped \/ RuleRan \/ RuleFailed
    \/ ProcRecord \/ ProcPublish \/ ProcRecordFails \/ ItemDone

CronRunner == CronDue \/ CronEnqueue \/ CronStops

(* The process may be down for good. *)
StaysDown == sub.pc = "down" /\ spent.starts = MaxStarts /\ UNCHANGED vars

Process == Start \/ Shutdown \/ Crash \/ Drained \/ StaysDown

Next == Writers \/ Subscriber \/ Processor \/ CronRunner \/ Process

(* The tasks are scheduled by tokio and every await they make returns; users,
   the clock, shutdown and crashes are under no obligation. *)
Fairness ==
    /\ WF_vars(Publish)
    /\ WF_vars(Subscriber)
    /\ WF_vars(Processor)
    /\ WF_vars(CronEnqueue \/ CronStops)
    /\ WF_vars(Drained)

Spec     == Init /\ [][Next]_vars
FairSpec == Spec /\ Fairness

-----------------------------------------------------------------------------
(* Safety. *)

(* The trigger index and the cron registry hold exactly the rules of the plays
   that run, in the form the engine last compiled them (PlayStatus: "Only a
   Runnable play has rules in the trigger index and the cron registry"). *)
IndexMatches ==
    index = UNION {RefsOf(p, loaded[p]) : p \in {q \in Plays : IsRunning(q)}}

ShouldRun(p) == OfNode(play[p]) = "runnable"

(* The run state is a cache of the nodes (start: "The run state is a cache of
   the nodes, so rebuild it from them rather than run on a stale one"). *)
Agrees(p) ==
    /\ IsRunning(p) <=> ShouldRun(p)
    /\ IsRunning(p) => /\ loaded[p] = play[p].rules
                       /\ <<loaded[p], schema>> \in Valid

CaughtUp == sub.pc = "idle" /\ pending = {} /\ channel = <<>> /\ ~lagged

Recording(p) == proc.pc \in {"record", "publish"} /\ proc.play = p
Overtaken(p) == p \in late /\ play[p].life # "absent"

(* Once every write is published and the subscriber has caught up, a play runs
   exactly when its node says so, in the node's rules, and they validate:
   whatever was edited, lost to lag, suspended or re-enabled, in whatever order.
   Excused are a play whose suspension is being recorded, one for which a store
   call failed, and one whose deletion was published after its re-creation
   (sync_play, load_plays, suspend_play and record_play_suspension together). *)
SettledAgreement ==
    CaughtUp => \A p \in Plays : Agrees(p) \/ Recording(p) \/ p \in unsure \/ Overtaken(p)

Begins(p) == proc.pc = "rules" /\ proc'.pc = "eval" /\ proc'.play = p

(* A rule left in the queue does not outlive its play: no rule starts for a play
   that was switched off, archived, suspended or deleted once the engine has
   caught up with that (rule_processor_loop: "A rule runs only while its play
   does"). *)
OnlyLivePlaysRun ==
    [][\A p \in Plays : Begins(p) /\ CaughtUp
                          => ShouldRun(p) \/ p \in unsure \/ Overtaken(p)]_vars

(* A play's later rules of a work item do not run once one of its actions has
   failed, unless a user cleared that since (rule_processor_loop: the running
   check "is also what stops a play's later rules in the same work item once one
   of its actions fails"). *)
LaterRulesStop ==
    proc.pc = "eval" => proc.play \notin proc.failed

-----------------------------------------------------------------------------
(* Why a settled cache agrees with the nodes: what ties the two together while
   events are still on their way. *)

Live == sub.pc \notin {"down", "closed"}
Busy == sub.pc \in {"work", "validate", "record", "publish"}

(* The event that makes the engine decide on the row p now has. *)
LastNews(p) == IF play[p].life = "absent" THEN GoneEvent(p) ELSE PlayEvent(p)

Publishing(p) ==
    \/ sub.pc = "publish" /\ sub.cur.play = p
    \/ proc.pc = "publish" /\ proc.play = p

Coming(e)  == Unpublished(e) \/ InChannel(e)
Told(p)    == \/ lagged \/ Coming(LastNews(p))
              \/ Publishing(p) /\ play[p].life # "absent"
SchemaTold == lagged \/ Coming(SchemaEvent)

(* The subscriber is about to decide afresh whether p runs. *)
Due(p) ==
    \/ sub.pc = "query"
    \/ sub.pc = "fetch" /\ sub.cur.play = p /\ play[p].life # "absent"
    \/ sub.pc = "validate" /\ sub.cur.play = p
    \/ \E b \in sub.batch : b.play = p
    \/ Busy /\ p \notin sub.keep

Excused(p) == Told(p) \/ p \in unsure \/ Overtaken(p) \/ Due(p)

Phases ==
    /\ ~Busy => sub.batch = {} /\ sub.broken = {}
    /\ sub.batch # {} \/ sub.pc = "validate" => sub.broken = {}
    /\ sub.pc = "validate" => OfNode(sub.cur.row) = "runnable"
    /\ sub.pc = "down" => channel = <<>>

(* A deletion in the channel of a play that is back has news of the re-creation
   behind it, unless it was published too late. *)
NewsFollows ==
    \A p \in Plays \ late : play[p].life # "absent" =>
        \A i \in 1..Len(channel) : channel[i] = GoneEvent(p) =>
            \/ \E j \in i..Len(channel) : channel[j] = PlayEvent(p)
            \/ Unpublished(PlayEvent(p))

(* A play the engine runs is one its node lets run, in the node's rules. *)
RunsAsStored(p) ==
    IsRunning(p) => (ShouldRun(p) /\ loaded[p] = play[p].rules) \/ Excused(p)

RunsValidRules(p) ==
    IsRunning(p) => \/ <<loaded[p], schema>> \in Valid
                    \/ SchemaTold \/ sub.pc = "schema" \/ p \in sub.broken
                    \/ Excused(p)

(* A play its node lets run does run, or is having its suspension recorded. *)
StoredRuns(p) ==
    ShouldRun(p) => \/ IsRunning(p) \/ Excused(p)
                    \/ sub.pc = "record" /\ sub.cur.play = p
                    \/ proc.pc = "record" /\ proc.play = p

(* A load forgets no play that should run without hearing of it again. *)
ForgetsRightly(p) == Busy /\ p \notin sub.keep => ~ShouldRun(p) \/ Told(p) \/ p \in unsure

(* A row in hand is the stored one, or there is more to hear. *)
FreshRow(b) == b.row = play[b.play] \/ Told(b.play) \/ b.play \in unsure

(* The cache invariant: inductive, and it implies SettledAgreement. It is what
   makes the order of start (subscribe, then load), the re-read on every play
   event and the reload after a lag sufficient. *)
CacheInv ==
    /\ Phases
    /\ NewsFollows
    /\ Live => /\ \A p \in Plays : RunsAsStored(p) /\ RunsValidRules(p)
                                   /\ StoredRuns(p) /\ ForgetsRightly(p)
               /\ \A b \in sub.batch : FreshRow(b)
               /\ sub.pc = "validate" => FreshRow(sub.cur)

-----------------------------------------------------------------------------
(* Liveness. *)

Quiet ==
    /\ sub.pc \in {"idle", "down", "closed"} /\ pending = {} /\ channel = <<>>
    /\ proc.pc \in {"idle", "off"} /\ queue = <<>> /\ cron.left = 0

(* However the rules trigger one another, the engine comes to rest once the
   users do: a chain is cut at MAX_CHAIN_DEPTH and its plays suspended
   (exceeds_max_chain_depth; "A distributed ping-pong ... terminates" is the
   same count carried between devices). *)
ChainsEnd == <>[]Quiet

(* A scan that came due is queued to its last node however reactive work fills
   the queue, or the engine stops (enqueue_scheduled: "a full queue means
   'wait', never 'discard'"). *)
ScansComplete == (cron.left > 0) ~> (cron.left = 0)

=============================================================================
