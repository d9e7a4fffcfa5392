--------------------------- MODULE PlayEngineProofs ---------------------------
(***************************************************************************)
(* Type correctness of PlayEngine and the exactness of the rule index, for *)
(* every value of the constants. TypeInv strengthens TypeOK with what the  *)
(* control states promise; IndexMatches is inductive together with it.     *)
(***************************************************************************)
EXTENDS PlayEngine, SequenceTheorems, TLAPS

(* The type invariant in the parts that the actions disturb together, with what
   the control states promise about the play or the rule in hand. *)
StoreType     == play \in [Plays -> Row] /\ schema \in Schemas /\ pending \subseteq Write
ChannelType   == channel \in Seq(Event) /\ Len(channel) <= ChannelCap
LagType       == lagged \in BOOLEAN
LifecycleType == /\ status \in [Plays -> Status]
                 /\ loaded \in [Plays -> RuleSets]
                 /\ index \subseteq Ref
QueueType     == queue \in Seq(Item) /\ Len(queue) <= QueueCap
SubType       == /\ sub \in Sub
                 /\ sub.pc \in {"fetch", "validate", "record", "publish"} => sub.cur.play \in Plays
ProcType      == /\ proc \in Proc
                 /\ proc.pc \in {"eval", "record", "publish"} => proc.play \in Plays
                 /\ proc.pc \in {"rules", "eval"} => ~Exceeds(proc.depth)
CronType      == cron \in Cron
HistoryType   == unsure \subseteq Plays /\ spent \in Spent
LateType      == late \subseteq Plays

TypeInv == /\ StoreType /\ ChannelType /\ LagType /\ LifecycleType /\ QueueType
           /\ SubType /\ ProcType /\ CronType /\ HistoryType /\ LateType

(* The strengthened type invariant gives the one the runs check. *)
LEMMA TypeInvTypeOK == TypeInv => TypeOK
BY DEF TypeInv, TypeOK, StoreType, ChannelType, LagType, LifecycleType, QueueType,
       SubType, ProcType, CronType, HistoryType, LateType

(* The resting records of the three tasks are values of their control states. *)
LEMMA Fillers ==
    /\ NoRow \in Row
    /\ Resting \in Sub
    /\ Resting.pc = "idle" /\ Resting.keep = Plays
    /\ Resting.batch = {} /\ Resting.broken = {} /\ Resting.refs = {}
    /\ Waiting \in Proc
    /\ Waiting.pc = "idle" /\ Waiting.todo = {}
    /\ NoScan \in Cron
<1>1. NoRow \in Row
  BY PlayEngineAssumption DEF NoRow, Row
<1>2. Resting \in Sub
  BY <1>1, PlayEngineAssumption DEF Resting, Sub
<1>3. Waiting \in Proc /\ NoScan \in Cron
  BY PlayEngineAssumption DEF Waiting, Proc, NoScan, Cron
<1> QED
  BY <1>1, <1>2, <1>3 DEF Resting, Waiting

(* What the writers and the rules publish are events. *)
LEMMA Events ==
    /\ \A p \in Plays : PlayEvent(p) \in Event /\ GoneEvent(p) \in Event
    /\ SchemaEvent \in Event
    /\ \A d \in 0..MaxChainDepth : DataEvent(d) \in Event
BY DEF Event

(* What the subscriber may conclude from the kind of an event it received. *)
LEMMA EventKinds ==
    ASSUME NEW e \in Event
    PROVE  /\ e.kind \in {"play", "gone"} => e.play \in Plays
           /\ e.depth \in 0..MaxChainDepth
BY PlayEngineAssumption DEF Event, PlayEvent, GoneEvent, SchemaEvent, DataEvent

(* Publishing into the broadcast channel (NodeService::emit_event) keeps it within
   its capacity: a full channel loses its oldest event. *)
LEMMA EmitType ==
    ASSUME ChannelType, LagType, NEW e \in Event, Emit(e)
    PROVE  ChannelType' /\ LagType'
<1>1. CASE sub.pc = "down"
  BY <1>1 DEF ChannelType, LagType, Emit
<1>2. CASE sub.pc # "down" /\ Len(channel) < ChannelCap
  <2>1. channel' = Append(channel, e) /\ lagged' = (lagged \/ Len(channel) >= ChannelCap)
    BY <1>2 DEF Emit
  <2> QED
    BY <1>2, <2>1, PlayEngineAssumption DEF ChannelType, LagType
<1>3. CASE sub.pc # "down" /\ Len(channel) >= ChannelCap
  <2>1. channel' = Append(Tail(channel), e) /\ lagged' = (lagged \/ Len(channel) >= ChannelCap)
    BY <1>3, PlayEngineAssumption DEF ChannelType, LagType, Emit
  <2>2. channel \in Seq(Event) /\ Len(channel) = ChannelCap /\ channel # <<>>
    BY <1>3, PlayEngineAssumption DEF ChannelType, LagType
  <2>3. Tail(channel) \in Seq(Event) /\ Len(Tail(channel)) = ChannelCap - 1
    BY <2>2, PlayEngineAssumption
  <2> QED
    BY <2>1, <2>3, PlayEngineAssumption DEF ChannelType, LagType
<1> QED
  BY <1>1, <1>2, <1>3, PlayEngineAssumption DEF ChannelType, LagType

(* The program starts in a well-typed state: engine down, nothing queued, no
   scan under way, and whatever rows the store holds (engine.rs start). *)
THEOREM TypeInit == Init => TypeInv
<1> SUFFICES ASSUME Init PROVE TypeInv
  OBVIOUS
<1> USE PlayEngineAssumption, Fillers
<1>1. play \in [Plays -> Row] /\ schema \in Schemas /\ pending \subseteq Write
  <2>1. play \in [Plays -> {r \in Row : r.life = "absent" => r = NoRow}]
    BY DEF Init
  <2> QED
    BY <2>1 DEF Init
<1>2. channel \in Seq(Event) /\ Len(channel) <= ChannelCap /\ lagged \in BOOLEAN
  <2>1. channel = <<>> /\ lagged = FALSE
    BY DEF Init
  <2>2. <<>> \in Seq(Event) /\ Len(<<>>) = 0
    OBVIOUS
  <2>3. channel \in Seq(Event)
    BY <2>1, <2>2
  <2>4. Len(channel) <= ChannelCap
    BY <2>1, <2>2
  <2>5. lagged \in BOOLEAN
    BY <2>1
  <2> QED
    BY <2>3, <2>4, <2>5
<1>3. status \in [Plays -> Status] /\ loaded \in [Plays -> RuleSets] /\ index \subseteq Ref
  BY DEF Init, Status, Row
<1>4. queue \in Seq(Item) /\ Len(queue) <= QueueCap
  BY DEF Init
<1>5. sub \in Sub /\ proc \in Proc /\ cron \in Cron
  BY DEF Init, Sub, Proc
<1>6. unsure \subseteq Plays /\ spent \in Spent /\ late \subseteq Plays
  BY DEF Init, Spent
<1>7. SubType /\ ProcType
  BY <1>5 DEF Init, SubType, ProcType, Sub, Proc
<1> QED
  BY <1>1, <1>2, <1>3, <1>4, <1>5, <1>6, <1>7
     DEF TypeInv, StoreType, ChannelType, LagType, LifecycleType, QueueType, CronType,
         HistoryType, LateType

(* Receiving an event keeps the channel well typed and yields an event. *)
LEMMA ReceiveType ==
    ASSUME ChannelType, LagType, NEW kind, Receive(kind)
    PROVE  /\ ChannelType' /\ LagType'
           /\ Head(channel) \in Event /\ Head(channel).kind = kind
<1>1. channel \in Seq(Event) /\ channel # <<>> /\ channel' = Tail(channel)
  BY DEF Receive, ChannelType
<1>2. Tail(channel) \in Seq(Event) /\ Len(Tail(channel)) = Len(channel) - 1
  BY <1>1
<1>3. ChannelType'
  BY <1>1, <1>2, PlayEngineAssumption DEF ChannelType
<1>4. LagType'
  BY DEF Receive, LagType
<1> QED
  BY <1>1, <1>3, <1>4 DEF Receive

(* park_play keeps the lifecycle manager well typed. *)
LEMMA ParkType ==
    ASSUME LifecycleType, NEW p \in Plays, NEW s \in Status, NEW r \in RuleSets,
           Park(p, s, r)
    PROVE  LifecycleType'
BY DEF LifecycleType, Park, Without

(* reindex_play keeps the lifecycle manager well typed. *)
LEMMA ReindexType ==
    ASSUME LifecycleType, NEW p \in Plays, NEW r \in RuleSets, Reindex(p, r)
    PROVE  LifecycleType'
BY DEF LifecycleType, Reindex, Without, RefsOf, Ref, Status

(* suspend_play keeps the lifecycle manager well typed. *)
LEMMA SuspendType ==
    ASSUME LifecycleType, NEW p \in Plays, Suspend(p)
    PROVE  LifecycleType'
BY DEF LifecycleType, Suspend, Without, Status

(* retain_plays and deactivate_play keep the lifecycle manager well typed. *)
LEMMA ForgetType ==
    ASSUME LifecycleType, NEW gone, Forget(gone)
    PROVE  LifecycleType'
BY DEF LifecycleType, Forget, Status

(* PlayStatus::of_node yields a status for every row. *)
LEMMA OfNodeType == ASSUME NEW row \in Row PROVE OfNode(row) \in Status
BY DEF OfNode, Status, Row

(* record_play_suspension, by either task, keeps the store, the channel and the
   history well typed. *)
LEMMA RecordType ==
    ASSUME TypeInv, NEW p \in Plays
    PROVE  /\ RecordSuspension(p) /\ UNCHANGED <<schema, pending>>
                 => StoreType' /\ HistoryType'
           /\ PublishSuspension(p) => ChannelType' /\ LagType' /\ HistoryType' /\ LateType'
           /\ GoneBeforeRecord(p) \/ RecordFails(p) => HistoryType'
<1> USE DEF TypeInv
<1>1. RecordSuspension(p) /\ UNCHANGED <<schema, pending>> => StoreType' /\ HistoryType'
  BY DEF RecordSuspension, StoreType, HistoryType, Row
<1>2. PublishSuspension(p) => ChannelType' /\ LagType' /\ HistoryType' /\ LateType'
  BY EmitType, Events DEF PublishSuspension, HistoryType, LateType
<1>3. GoneBeforeRecord(p) \/ RecordFails(p) => HistoryType'
  BY PlayEngineAssumption DEF GoneBeforeRecord, RecordFails, Fault, HistoryType, Spent
<1> QED
  BY <1>1, <1>2, <1>3

(* A part of the state that a step leaves alone keeps its type. *)
LEMMA StillTyped ==
    ASSUME TypeInv
    PROVE  /\ UNCHANGED store => StoreType'
           /\ UNCHANGED channel => ChannelType'
           /\ UNCHANGED lagged => LagType'
           /\ UNCHANGED lifecycle => LifecycleType'
           /\ UNCHANGED queue => QueueType'
           /\ UNCHANGED sub => SubType'
           /\ UNCHANGED proc => ProcType'
           /\ UNCHANGED cron => CronType'
           /\ UNCHANGED <<unsure, spent>> => HistoryType'
           /\ UNCHANGED late => LateType'
BY DEF TypeInv, StoreType, ChannelType, LagType, LifecycleType, QueueType, SubType,
       ProcType, CronType, HistoryType, LateType, store, lifecycle

(* Every step of the subscriber task (handle_event, load_plays, sync_play) keeps
   the state well typed. *)
LEMMA SubscriberType == ASSUME TypeInv, Subscriber PROVE TypeInv'
<1> USE PlayEngineAssumption, Fillers, StillTyped DEF TypeInv
<1>1. CASE LoadQuery
  <2>1. SubType'
    <3> DEFINE rows == {[play |-> p, row |-> play[p]] :
                           p \in {q \in Plays : play[q].life = "active"}}
    <3>1. rows \subseteq Entry /\ {b.play : b \in rows} \subseteq Plays
      BY DEF StoreType, Entry
    <3>2. sub' = [Resting EXCEPT !.pc = "work", !.batch = rows,
                                 !.keep = {b.play : b \in rows}]
      BY <1>1 DEF LoadQuery
    <3> HIDE DEF rows
    <3> QED
      BY <3>1, <3>2 DEF SubType, Sub
  <2>2. HistoryType' /\ LateType'
    BY <1>1 DEF LoadQuery, HistoryType, LateType
  <2> QED
    BY <1>1, <2>1, <2>2 DEF LoadQuery
<1>2. CASE LoadFails
  <2>0. /\ sub' \in {[Resting EXCEPT !.pc = "down"], Resting}
        /\ Fault /\ unsure' = Plays
    BY <1>2 DEF LoadFails
  <2>1. SubType'
    BY <2>0 DEF SubType, Sub
  <2>2. HistoryType'
    BY <2>0 DEF HistoryType, Fault, Spent
  <2>3. ChannelType'
    <3>1. CASE channel' = <<>>
      <4>1. <<>> \in Seq(Event) /\ Len(<<>>) = 0
        OBVIOUS
      <4> QED
        BY <3>1, <4>1 DEF ChannelType
    <3>2. CASE UNCHANGED channel
      BY <3>2
    <3> QED
      BY <1>2, <3>1, <3>2 DEF LoadFails
  <2>4. LagType' /\ LateType'
    BY <1>2 DEF LoadFails, LagType, LateType
  <2> QED
    BY <1>2, <2>1, <2>2, <2>3, <2>4 DEF LoadFails
<1>3. CASE SyncPlay
  <2>1. PICK b \in sub.batch : SyncPlay!2!(b)
    BY <1>3 DEF SyncPlay
  <2>2. b \in Entry /\ b.row \in Row /\ b.play \in Plays /\ b.row.rules \in RuleSets
    BY DEF SubType, Sub, Entry, Row
  <2>3. SubType'
    <3>1. sub.batch \ {b} \subseteq Entry
      BY DEF SubType, Sub
    <3>2. b \in [play : Plays \cup {NoPlay}, row : Row]
      BY <2>2 DEF Entry
    <3>3. sub' \in {[sub EXCEPT !.pc = "validate", !.cur = b, !.batch = @ \ {b}],
                    [sub EXCEPT !.batch = @ \ {b}]}
      BY <2>1
    <3> QED
      <4>1. CASE sub' = [sub EXCEPT !.pc = "validate", !.cur = b, !.batch = @ \ {b}]
        BY <4>1, <2>2, <3>1, <3>2 DEF SubType, Sub
      <4>2. CASE sub' = [sub EXCEPT !.batch = @ \ {b}]
        BY <4>2, <3>1 DEF SubType, Sub
      <4> QED
        BY <3>3, <4>1, <4>2
  <2>4. LifecycleType'
    BY <2>1, <2>2, ParkType, OfNodeType
  <2> QED
    BY <1>3, <2>3, <2>4 DEF SyncPlay
<1>4. CASE ValidatePass
  <2>1. sub.cur.play \in Plays /\ sub.cur.row.rules \in RuleSets
    BY <1>4 DEF ValidatePass, SubType, Sub, Row
  <2>2. LifecycleType'
    BY <1>4, <2>1, ReindexType DEF ValidatePass
  <2>3. SubType'
    BY <1>4 DEF ValidatePass, SubType, Sub, BackToWork
  <2> QED
    BY <1>4, <2>2, <2>3 DEF ValidatePass
<1>5. CASE ValidateFail
  <2>1. sub.cur.play \in Plays /\ sub.cur.row.rules \in RuleSets
    BY <1>5 DEF ValidateFail, SubType, Sub, Row
  <2>2. LifecycleType'
    BY <1>5, <2>1, ParkType DEF ValidateFail, Status
  <2>3. SubType'
    BY <1>5, <2>1 DEF ValidateFail, SubType, Sub
  <2> QED
    BY <1>5, <2>2, <2>3 DEF ValidateFail
<1>6. CASE ValidateInconclusive
  <2>1. sub.cur.play \in Plays /\ sub.cur.row.rules \in RuleSets
    BY <1>6 DEF ValidateInconclusive, SubType, Sub, Row
  <2>2. LifecycleType'
    BY <1>6, <2>1, ReindexType DEF ValidateInconclusive
  <2>3. SubType'
    BY <1>6 DEF ValidateInconclusive, SubType, Sub, BackToWork
  <2>4. HistoryType'
    BY <1>6, <2>1 DEF ValidateInconclusive, HistoryType, Fault, Spent
  <2> QED
    BY <1>6, <2>2, <2>3, <2>4 DEF ValidateInconclusive
<1>7. CASE SubRecord \/ SubPublish \/ SubRecordFails
  <2>1. sub.cur.play \in Plays
    BY <1>7 DEF SubRecord, SubPublish, SubRecordFails, SubType
  <2>2. CASE SubRecord
    <3>1. StoreType' /\ HistoryType'
      BY <2>1, <2>2, RecordType DEF SubRecord
    <3>2. SubType'
      BY <2>1, <2>2 DEF SubRecord, SubType, Sub
    <3> QED
      BY <2>2, <3>1, <3>2 DEF SubRecord
  <2>3. CASE SubPublish
    <3>1. ChannelType' /\ LagType' /\ HistoryType' /\ LateType'
      BY <2>1, <2>3, RecordType DEF SubPublish
    <3>2. SubType'
      BY <2>3 DEF SubPublish, SubType, Sub, BackToWork
    <3> QED
      BY <2>3, <3>1, <3>2 DEF SubPublish
  <2>4. CASE SubRecordFails
    <3>1. HistoryType'
      BY <2>1, <2>4, RecordType DEF SubRecordFails
    <3>2. SubType'
      BY <2>4 DEF SubRecordFails, SubType, Sub, BackToWork
    <3> QED
      BY <2>4, <3>1, <3>2 DEF SubRecordFails
  <2> QED
    BY <1>7, <2>2, <2>3, <2>4
<1>8. CASE SuspendBroken
  <2>1. PICK p \in sub.broken : SuspendBroken!3!(p)
    BY <1>8 DEF SuspendBroken
  <2>2. p \in Plays
    BY DEF SubType, Sub
  <2>3. LifecycleType'
    BY <2>1, <2>2, SuspendType
  <2>4. SubType'
    <3>1. [sub.cur EXCEPT !.play = p] \in [play : Plays \cup {NoPlay}, row : Row]
      BY <2>2 DEF SubType, Sub
    <3>2. sub' \in {[sub EXCEPT !.pc = "record", !.broken = @ \ {p},
                                !.cur = [sub.cur EXCEPT !.play = p]],
                    [sub EXCEPT !.broken = @ \ {p}]}
      BY <2>1 DEF SubType, Sub
    <3> QED
      <4>1. CASE sub' = [sub EXCEPT !.pc = "record", !.broken = @ \ {p},
                                    !.cur = [sub.cur EXCEPT !.play = p]]
        BY <4>1, <2>2, <3>1 DEF SubType, Sub
      <4>2. CASE sub' = [sub EXCEPT !.broken = @ \ {p}]
        BY <4>2 DEF SubType, Sub
      <4> QED
        BY <3>2, <4>1, <4>2
  <2> QED
    BY <1>8, <2>3, <2>4 DEF SuspendBroken
<1>9. CASE WorkDone
  <2>1. LifecycleType'
    BY <1>9, ForgetType DEF WorkDone
  <2>2. SubType' /\ ProcType'
    BY <1>9 DEF WorkDone, SubType, ProcType
  <2> QED
    BY <1>9, <2>1, <2>2 DEF WorkDone
<1>10. CASE ReceiveLagged
  <2>1. SubType'
    BY <1>10 DEF ReceiveLagged, SubType, Sub
  <2>2. LagType'
    BY <1>10 DEF ReceiveLagged, LagType
  <2> QED
    BY <1>10, <2>1, <2>2 DEF ReceiveLagged
<1>11. CASE ReceivePlay
  <2>1. ChannelType' /\ LagType' /\ Head(channel).play \in Plays
    BY <1>11, ReceiveType, EventKinds DEF ReceivePlay
  <2>2. SubType'
    BY <1>11, <2>1 DEF ReceivePlay, SubType, Sub
  <2> QED
    BY <1>11, <2>1, <2>2 DEF ReceivePlay
<1>12. CASE ReceiveGone
  <2>1. ChannelType' /\ LagType'
    BY <1>12, ReceiveType DEF ReceiveGone
  <2>2. LifecycleType'
    BY <1>12, ForgetType DEF ReceiveGone
  <2> QED
    BY <1>12, <2>1, <2>2 DEF ReceiveGone
<1>13. CASE ReceiveSchema
  <2>1. ChannelType' /\ LagType'
    BY <1>13, ReceiveType DEF ReceiveSchema
  <2>2. SubType'
    BY <1>13 DEF ReceiveSchema, SubType, Sub
  <2> QED
    BY <1>13, <2>1, <2>2 DEF ReceiveSchema
<1>14. CASE ReceiveData
  <2>1. ChannelType' /\ LagType' /\ Head(channel).depth \in 0..MaxChainDepth
    BY <1>14, ReceiveType, EventKinds DEF ReceiveData
  <2>2. {ref \in index : ref.at \notin CronRules} \subseteq Ref
    BY DEF LifecycleType
  <2>3. SubType'
    BY <1>14, <2>1, <2>2 DEF ReceiveData, SubType, Sub
  <2> QED
    BY <1>14, <2>1, <2>3 DEF ReceiveData
<1>15. CASE FetchPlay
  <2>1. sub.cur.play \in Plays
    BY <1>15 DEF FetchPlay, SubType
  <2>2. play[sub.cur.play] \in Row
    BY <2>1 DEF StoreType
  <2>3. [play |-> sub.cur.play, row |-> play[sub.cur.play]] \in Entry
    BY <2>1, <2>2 DEF Entry
  <2>5. \/ sub' = Resting
        \/ sub' = [Resting EXCEPT !.pc = "work",
                      !.batch = {[play |-> sub.cur.play, row |-> play[sub.cur.play]]}]
    BY <1>15 DEF FetchPlay
  <2>6. SubType'
    <3>1. CASE sub' = Resting
      BY <3>1 DEF SubType
    <3>2. CASE sub' = [Resting EXCEPT !.pc = "work",
                 !.batch = {[play |-> sub.cur.play, row |-> play[sub.cur.play]]}]
      BY <3>2, <2>3 DEF SubType, Sub
    <3> QED
      BY <2>5, <3>1, <3>2
  <2>4. HistoryType'
    BY <1>15 DEF FetchPlay, HistoryType
  <2> QED
    BY <1>15, <2>6, <2>4 DEF FetchPlay
<1>16. CASE FetchFails
  <2>1. HistoryType'
    BY <1>16 DEF FetchFails, HistoryType, Fault, Spent, SubType
  <2>2. SubType'
    BY <1>16 DEF FetchFails, SubType
  <2> QED
    BY <1>16, <2>1, <2>2 DEF FetchFails
<1>17. CASE FetchSchema
  <2>1. PICK missed \in SUBSET Plays :
           /\ sub' = [Resting EXCEPT !.pc = "work",
                        !.broken = {p \in Plays \ missed :
                                       IsRunning(p) /\ <<loaded[p], schema>> \notin Valid}]
           /\ unsure' = unsure \cup missed
           /\ Fault \/ UNCHANGED spent
    BY <1>17 DEF FetchSchema
  <2>2. SubType'
    BY <2>1 DEF SubType, Sub
  <2>3. HistoryType'
    BY <2>1 DEF HistoryType, Fault, Spent
  <2> QED
    BY <1>17, <2>2, <2>3 DEF FetchSchema
<1>18. CASE Enqueue
  <2>1. [refs |-> sub.refs, depth |-> sub.depth] \in Item
    BY DEF SubType, Sub, Item
  <2>2. QueueType'
    BY <1>18, <2>1 DEF Enqueue, QueueType
  <2>3. SubType'
    BY <1>18 DEF Enqueue, SubType
  <2> QED
    BY <1>18, <2>2, <2>3 DEF Enqueue
<1>19. CASE DropMatch
  <2>1. SubType'
    BY <1>19 DEF DropMatch, SubType
  <2> QED
    BY <1>19, <2>1 DEF DropMatch
<1> QED
  BY <1>1, <1>2, <1>3, <1>4, <1>5, <1>6, <1>7, <1>8, <1>9, <1>10, <1>11, <1>12, <1>13,
     <1>14, <1>15, <1>16, <1>17, <1>18, <1>19 DEF Subscriber

(* A write adds one committed event, within the bound on writes. *)
LEMMA EditType ==
    ASSUME TypeInv, NEW e \in Event, Edit(e)
    PROVE  /\ pending' \subseteq Write
           /\ UNCHANGED unsure => HistoryType'
<1>1. spent.edits \in 0..MaxEdits /\ spent.edits + 1 \in 1..MaxEdits
  BY PlayEngineAssumption DEF TypeInv, HistoryType, Spent, Edit
<1>2. [event |-> e, no |-> spent.edits + 1] \in Write
  BY <1>1 DEF Write
<1>3. pending' \subseteq Write
  BY <1>2 DEF TypeInv, StoreType, Edit
<1>4. UNCHANGED unsure => HistoryType'
  BY <1>1, PlayEngineAssumption DEF TypeInv, HistoryType, Spent, Edit
<1> QED
  BY <1>3, <1>4

(* A user's write of a play node keeps the state well typed. *)
LEMMA WriteRowType ==
    ASSUME TypeInv, NEW p \in Plays, NEW row \in Row, NEW e \in {PlayEvent(p), GoneEvent(p)},
           NEW clears, WriteRow(p, row, e, clears)
    PROVE  TypeInv'
<1>1. pending' \subseteq Write /\ HistoryType'
  BY EditType, Events DEF WriteRow
<1>2. StoreType'
  BY <1>1 DEF WriteRow, StoreType, TypeInv
<1>3. ProcType'
  BY DEF WriteRow, ProcType, Proc, TypeInv
<1> QED
  BY StillTyped, <1>1, <1>2, <1>3 DEF TypeInv, WriteRow

(* Every write by a user keeps the state well typed. *)
LEMMA WritersType == ASSUME TypeInv, Writers PROVE TypeInv'
<1> USE Fillers, Events
<1>0. \A p \in Plays : play[p] \in Row
  BY DEF TypeInv, StoreType
<1>1. ASSUME NEW p \in Plays, NEW r \in RuleSets, CreatePlay(p, r) PROVE TypeInv'
  <2>1. PICK on \in BOOLEAN :
           WriteRow(p, [NoRow EXCEPT !.life = "active", !.enabled = on, !.rules = r],
                    PlayEvent(p), TRUE)
    BY <1>1 DEF CreatePlay
  <2>2. [NoRow EXCEPT !.life = "active", !.enabled = on, !.rules = r] \in Row
    BY DEF Row
  <2> QED
    BY <2>1, <2>2, WriteRowType
<1>2. ASSUME NEW p \in Plays, NEW r \in RuleSets, SaveRules(p, r) PROVE TypeInv'
  <2>1. [play[p] EXCEPT !.rules = r, !.suspended = FALSE] \in Row
    BY <1>0 DEF Row
  <2> QED
    BY <1>2, <2>1, WriteRowType DEF SaveRules
<1>3. ASSUME NEW p \in Plays, NEW on \in BOOLEAN, SetEnabled(p, on) PROVE TypeInv'
  <2>1. [play[p] EXCEPT !.enabled = on, !.suspended = @ /\ ~on] \in Row
    BY <1>0, Zenon DEF Row
  <2> QED
    BY <1>3, <2>1, WriteRowType DEF SetEnabled
<1>4. ASSUME NEW p \in Plays, NEW life \in {"active", "archived"}, SetLife(p, life)
      PROVE  TypeInv'
  <2>1. [play[p] EXCEPT !.life = life] \in Row
    BY <1>0 DEF Row
  <2> QED
    BY <1>4, <2>1, WriteRowType DEF SetLife
<1>5. ASSUME NEW p \in Plays, Touch(p) \/ DeletePlay(p) PROVE TypeInv'
  BY <1>0, <1>5, WriteRowType DEF Touch, DeletePlay
<1>6. ASSUME NEW s \in Schemas, ChangeSchema(s) PROVE TypeInv'
  <2>1. StoreType' /\ HistoryType'
    BY <1>6, EditType, Events DEF ChangeSchema, TypeInv, StoreType
  <2> QED
    BY <1>6, <2>1, StillTyped DEF ChangeSchema, TypeInv
<1>7. CASE WriteData
  <2>1. StoreType' /\ HistoryType'
    BY <1>7, EditType, PlayEngineAssumption, Events DEF WriteData, TypeInv, StoreType
  <2> QED
    BY <1>7, <2>1, StillTyped DEF WriteData, TypeInv
<1>8. CASE Publish
  <2>1. PICK w \in pending : pending' = pending \ {w} /\ Emit(w.event)
    BY <1>8 DEF Publish
  <2>2. w.event \in Event
    BY DEF TypeInv, StoreType, Write
  <2>3. ChannelType' /\ LagType'
    BY <2>1, <2>2, EmitType DEF TypeInv
  <2>4. StoreType'
    BY <1>8, <2>1 DEF Publish, TypeInv, StoreType
  <2>5. LateType' /\ HistoryType'
    BY <1>8 DEF Publish, LateType, HistoryType, TypeInv
  <2> QED
    BY <1>8, <2>3, <2>4, <2>5, StillTyped DEF Publish, TypeInv
<1> QED
  BY <1>1, <1>2, <1>3, <1>4, <1>5, <1>6, <1>7, <1>8 DEF Writers

(* What the processor's steps rest on. *)
LEMMA DroppedType ==
    ASSUME NEW hand \in Proc
    PROVE  /\ Dropped(hand) \in Proc
           /\ Dropped(hand).pc \in {"cycle", "rules"}
           /\ Dropped(hand).pc = "rules" => ~Exceeds(Dropped(hand).depth)
           /\ Dropped(hand).depth = hand.depth
BY DEF Dropped, Proc

(* Suspending the play of the rule in hand keeps the lifecycle manager and the
   processor well typed. *)
LEMMA SuspendHeldType ==
    ASSUME TypeInv, NEW hand \in Proc, hand.play \in Plays, SuspendHeld(hand)
    PROVE  LifecycleType' /\ ProcType'
<1>1. CASE IsRunning(hand.play)
  <2>1. LifecycleType'
    BY <1>1, SuspendType DEF SuspendHeld, TypeInv
  <2>2. ProcType'
    BY <1>1 DEF SuspendHeld, ProcType, Proc
  <2> QED
    BY <2>1, <2>2
<1>2. CASE ~IsRunning(hand.play)
  <2>1. UNCHANGED lifecycle /\ proc' = Dropped(hand)
    BY <1>2 DEF SuspendHeld
  <2> QED
    BY <2>1, StillTyped, DroppedType DEF ProcType
<1> QED
  BY <1>1, <1>2

(* The writes of a rule that is within MAX_CHAIN_DEPTH publish an event that is
   still within it. *)
LEMMA RuleEmitType ==
    ASSUME TypeInv, proc.pc = "eval", EmitMaybe(DataEvent(proc.depth + 1))
    PROVE  ChannelType' /\ LagType'
<1>1. proc.depth + 1 \in 0..MaxChainDepth
  BY PlayEngineAssumption DEF TypeInv, ProcType, Proc, Exceeds
<1>2. DataEvent(proc.depth + 1) \in Event
  BY <1>1, Events
<1> QED
  BY <1>2, EmitType, StillTyped DEF EmitMaybe, TypeInv

(* Every step of the RuleProcessor (rule_processor_loop) keeps the state well
   typed; in particular no rule starts beyond MAX_CHAIN_DEPTH. *)
LEMMA ProcessorType == ASSUME TypeInv, Processor PROVE TypeInv'
<1> USE StillTyped DEF TypeInv
<1>0. proc \in Proc
  BY DEF ProcType
<1>1. CASE TakeItem
  <2>1. Head(queue) \in Item
    BY <1>1 DEF TakeItem, QueueType
  <2>2. QueueType'
    BY <1>1, PlayEngineAssumption DEF TakeItem, QueueType
  <2>3. ProcType'
    BY <1>1, <2>1, Fillers DEF TakeItem, ProcType, Proc, Item
  <2> QED
    BY <1>1, <2>2, <2>3 DEF TakeItem
<1>2. CASE BreakCycle
  <2>1. PICK ref \in proc.todo :
           SuspendHeld([proc EXCEPT !.todo = @ \ {ref}, !.play = ref.play,
                                    !.failed = @ \cup {ref.play}])
    BY <1>2 DEF BreakCycle
  <2> DEFINE hand == [proc EXCEPT !.todo = @ \ {ref}, !.play = ref.play,
                                  !.failed = @ \cup {ref.play}]
  <2>2. ref.play \in Plays
    BY <1>0 DEF Proc, Ref
  <2>3. hand \in Proc /\ hand.play = ref.play
    BY <1>0, <2>2 DEF Proc
  <2>5. LifecycleType' /\ ProcType'
    BY <2>1, <2>2, <2>3, SuspendHeldType
  <2> QED
    BY <1>2, <2>5 DEF BreakCycle
<1>3. CASE BeginRule
  <2>1. PICK ref \in proc.todo :
           LET hand == [proc EXCEPT !.todo = @ \ {ref}, !.play = ref.play]
           IN proc' = IF IsRunning(ref.play) THEN [hand EXCEPT !.pc = "eval"]
                      ELSE Dropped(hand)
    BY <1>3 DEF BeginRule
  <2>2. ref.play \in Plays
    BY <1>0 DEF Proc, Ref
  <2>3. [proc EXCEPT !.todo = @ \ {ref}, !.play = ref.play] \in Proc
    BY <1>0, <2>2 DEF Proc
  <2>4. ProcType'
    <3>1. CASE IsRunning(ref.play)
      BY <1>3, <2>1, <2>2, <3>1 DEF BeginRule, ProcType, Proc
    <3>2. CASE ~IsRunning(ref.play)
      BY <2>1, <2>3, <3>2, DroppedType DEF ProcType
    <3> QED
      BY <3>1, <3>2
  <2> QED
    BY <1>3, <2>4 DEF BeginRule
<1>4. CASE RuleSkipped
  <2>1. ProcType'
    BY <1>0, <1>4, DroppedType DEF RuleSkipped, ProcType
  <2> QED
    BY <1>4, <2>1 DEF RuleSkipped
<1>5. CASE RuleRan
  <2>1. ProcType'
    BY <1>0, <1>5, DroppedType DEF RuleRan, ProcType
  <2>2. ChannelType' /\ LagType'
    BY <1>5, RuleEmitType DEF RuleRan
  <2> QED
    BY <1>5, <2>1, <2>2 DEF RuleRan
<1>6. CASE RuleFailed
  <2>1. proc.play \in Plays
    BY <1>6 DEF RuleFailed, ProcType
  <2>2. [proc EXCEPT !.failed = @ \cup {proc.play}] \in Proc
    BY <1>0, <2>1 DEF Proc
  <2>3. [proc EXCEPT !.failed = @ \cup {proc.play}].play = proc.play
    BY <1>0 DEF Proc
  <2>4. LifecycleType' /\ ProcType'
    BY <1>6, <2>1, <2>2, <2>3, SuspendHeldType DEF RuleFailed
  <2>5. ChannelType' /\ LagType'
    BY <1>6, RuleEmitType DEF RuleFailed
  <2> QED
    BY <1>6, <2>4, <2>5 DEF RuleFailed
<1>7. CASE ProcRecord \/ ProcPublish \/ ProcRecordFails
  <2>1. proc.play \in Plays
    BY <1>7 DEF ProcRecord, ProcPublish, ProcRecordFails, ProcType
  <2>2. CASE ProcRecord
    <3>1. StoreType' /\ HistoryType'
      BY <2>1, <2>2, RecordType DEF ProcRecord
    <3>2. ProcType'
      BY <1>0, <2>1, <2>2 DEF ProcRecord, ProcType, Proc
    <3> QED
      BY <2>2, <3>1, <3>2 DEF ProcRecord
  <2>3. CASE ProcPublish
    <3>1. ChannelType' /\ LagType' /\ HistoryType' /\ LateType'
      BY <2>1, <2>3, RecordType DEF ProcPublish
    <3>2. ProcType'
      BY <1>0, <2>3, DroppedType DEF ProcPublish, ProcType
    <3> QED
      BY <2>3, <3>1, <3>2 DEF ProcPublish
  <2>4. CASE ProcRecordFails
    <3>1. HistoryType'
      BY <2>1, <2>4, RecordType DEF ProcRecordFails
    <3>2. ProcType'
      BY <1>0, <2>4, DroppedType DEF ProcRecordFails, ProcType
    <3> QED
      BY <2>4, <3>1, <3>2 DEF ProcRecordFails
  <2> QED
    BY <1>7, <2>2, <2>3, <2>4
<1>8. CASE ItemDone
  <2>1. ProcType'
    BY <1>8, Fillers DEF ItemDone, ProcType
  <2> QED
    BY <1>8, <2>1 DEF ItemDone
<1> QED
  BY <1>1, <1>2, <1>3, <1>4, <1>5, <1>6, <1>7, <1>8 DEF Processor

(* Every step of the CronRunner (check_and_enqueue_until, enqueue_scheduled)
   keeps the state well typed. *)
LEMMA CronRunnerType == ASSUME TypeInv, CronRunner PROVE TypeInv'
<1> USE StillTyped, PlayEngineAssumption DEF TypeInv
<1>1. CASE CronDue
  <2>1. CronType'
    <3>1. {ref \in index : ref.at \in CronRules} \subseteq Ref
      BY DEF LifecycleType
    <3> QED
      BY <1>1, <3>1 DEF CronDue, CronType, Cron
  <2>2. HistoryType'
    BY <1>1 DEF CronDue, HistoryType, Spent
  <2> QED
    BY <1>1, <2>1, <2>2 DEF CronDue
<1>2. CASE CronEnqueue
  <2>1. QueueType'
    <3>1. [refs |-> cron.refs, depth |-> 0] \in Item
      BY DEF CronType, Cron, Item
    <3> QED
      BY <1>2, <3>1 DEF CronEnqueue, QueueType
  <2>2. CronType'
    <3>1. cron.left \in 1..ScanSize
      BY <1>2 DEF CronEnqueue, CronType, Cron
    <3>2. CASE cron.left = 1
      BY <1>2, <3>2, Fillers DEF CronEnqueue, CronType
    <3>3. CASE cron.left # 1
      <4>1. cron.left - 1 \in 0..ScanSize
        BY <3>1, <3>3
      <4> QED
        BY <1>2, <3>3, <4>1 DEF CronEnqueue, CronType, Cron
    <3> QED
      BY <3>2, <3>3
  <2> QED
    BY <1>2, <2>1, <2>2 DEF CronEnqueue
<1>3. CASE CronStops
  BY <1>3, Fillers DEF CronStops, CronType
<1> QED
  BY <1>1, <1>2, <1>3 DEF CronRunner

(* The end of the process leaves a well-typed state. *)
LEMMA StoppedType == ASSUME TypeInv, Stopped PROVE TypeInv'
<1> USE Fillers, PlayEngineAssumption DEF TypeInv
<1>1. SubType' /\ ProcType' /\ CronType'
  BY DEF Stopped, SubType, Sub, ProcType, Proc, CronType
<1>2. LifecycleType'
  BY ForgetType DEF Stopped
<1>3. <<>> \in Seq(Event) /\ <<>> \in Seq(Item) /\ Len(<<>>) = 0
  OBVIOUS
<1>4. ChannelType' /\ QueueType'
  BY <1>3 DEF Stopped, ChannelType, QueueType
<1>5. LagType' /\ HistoryType' /\ LateType' /\ StoreType'
  BY DEF Stopped, LagType, HistoryType, LateType, StoreType
<1> QED
  BY <1>1, <1>2, <1>4, <1>5 DEF Stopped

(* Starting, stopping and crashing keep the state well typed. *)
LEMMA ProcessType == ASSUME TypeInv, Process PROVE TypeInv'
<1> USE StillTyped, Fillers DEF TypeInv
<1>1. CASE Start
  <2>1. SubType'
    BY <1>1 DEF Start, SubType, Sub
  <2>2. HistoryType'
    BY <1>1, PlayEngineAssumption DEF Start, HistoryType, Spent
  <2> QED
    BY <1>1, <2>1, <2>2 DEF Start
<1>2. CASE Shutdown
  <2>1. SubType'
    BY <1>2 DEF Shutdown, SubType, Sub
  <2> QED
    BY <1>2, <2>1 DEF Shutdown
<1>3. CASE Crash \/ Drained
  BY <1>3, StoppedType DEF Crash, Drained
<1>4. CASE StaysDown
  BY <1>4 DEF StaysDown, vars, store, lifecycle
<1> QED
  BY <1>1, <1>2, <1>3, <1>4 DEF Process

(* The type invariant is inductive. *)
LEMMA TypeStep == TypeInv /\ [Next]_vars => TypeInv'
<1> SUFFICES ASSUME TypeInv, [Next]_vars PROVE TypeInv'
  OBVIOUS
<1>1. CASE UNCHANGED vars
  BY <1>1, StillTyped DEF vars, store, lifecycle, TypeInv
<1>2. CASE Next
  BY <1>2, WritersType, SubscriberType, ProcessorType, CronRunnerType, ProcessType DEF Next
<1> QED
  BY <1>1, <1>2

(* Type correctness for every instance: the queue and the channel stay within
   their capacities (EXECUTION_QUEUE_CAPACITY, DOMAIN_EVENT_CHANNEL_CAPACITY), and
   no task holds a rule, a play or a depth outside what its state allows. *)
THEOREM TypeCorrect == Spec => []TypeOK
<1>1. Spec => []TypeInv
  BY TypeInit, TypeStep, PTL DEF Spec
<1> QED
  BY <1>1, TypeInvTypeOK, PTL

-----------------------------------------------------------------------------
(* The indexes. Every step reaches the lifecycle manager through one of its
   operations, and each of them keeps the indexes in line. *)

LifecycleStep ==
    \/ UNCHANGED lifecycle
    \/ \E p \in Plays, s \in Status \ {"runnable"}, r \in RuleSets : Park(p, s, r)
    \/ \E p \in Plays, r \in RuleSets : Reindex(p, r)
    \/ \E p \in Plays : Suspend(p)
    \/ \E gone \in SUBSET Plays : Forget(gone)

(* Every step changes the lifecycle manager by one of its own operations or not
   at all: no task reaches into the index on its own. *)
LEMMA StepsOfLifecycle == TypeInv /\ [Next]_vars => LifecycleStep
<1> SUFFICES ASSUME TypeInv, [Next]_vars PROVE LifecycleStep
  OBVIOUS
<1> USE DEF TypeInv
<1>1. CASE UNCHANGED vars
  BY <1>1 DEF vars, lifecycle, LifecycleStep
<1>2. CASE Writers
  BY <1>2 DEF Writers, CreatePlay, SetEnabled, SaveRules, Touch, SetLife, DeletePlay,
              WriteRow, ChangeSchema, WriteData, Publish, LifecycleStep
<1>3. CASE Subscriber
  <2>1. CASE SyncPlay
    <3>1. PICK b \in sub.batch : SyncPlay!2!(b)
      BY <2>1 DEF SyncPlay
    <3>2. b.play \in Plays /\ b.row \in Row /\ b.row.rules \in RuleSets
      BY DEF SubType, Sub, Entry, Row
    <3>3. CASE OfNode(b.row) = "runnable"
      BY <3>1, <3>3 DEF LifecycleStep
    <3>4. CASE OfNode(b.row) # "runnable"
      BY <3>1, <3>2, <3>4, OfNodeType DEF LifecycleStep
    <3> QED
      BY <3>3, <3>4
  <2>2. CASE ValidatePass \/ ValidateFail \/ ValidateInconclusive
    <3>1. sub.cur.play \in Plays /\ sub.cur.row.rules \in RuleSets
      BY <2>2 DEF ValidatePass, ValidateFail, ValidateInconclusive, SubType, Sub, Row
    <3>2. "suspended" \in Status \ {"runnable"}
      BY DEF Status
    <3> QED
      BY <2>2, <3>1, <3>2 DEF ValidatePass, ValidateFail, ValidateInconclusive, LifecycleStep
  <2>3. CASE SuspendBroken
    BY <2>3 DEF SuspendBroken, SubType, Sub, LifecycleStep
  <2>4. CASE WorkDone \/ ReceiveGone
    <3>1. CASE WorkDone
      BY <3>1 DEF WorkDone, LifecycleStep
    <3>2. CASE ReceiveGone
      <4>1. Head(channel).play \in Plays
        BY <3>2, ReceiveType, EventKinds DEF ReceiveGone
      <4> QED
        BY <3>2, <4>1 DEF ReceiveGone, LifecycleStep
    <3> QED
      BY <2>4, <3>1, <3>2
  <2>5. CASE LoadQuery \/ LoadFails \/ SubRecord \/ SubPublish \/ SubRecordFails \/ ReceiveLagged \/ ReceivePlay
             \/ ReceiveSchema \/ ReceiveData \/ FetchPlay \/ FetchFails \/ FetchSchema
             \/ Enqueue \/ DropMatch
    BY <2>5 DEF LoadQuery, LoadFails, SubRecord, SubPublish, SubRecordFails, ReceiveLagged, ReceivePlay, ReceiveSchema,
                ReceiveData, FetchPlay, FetchFails, FetchSchema, Enqueue, DropMatch,
                LifecycleStep
  <2> QED
    BY <1>3, <2>1, <2>2, <2>3, <2>4, <2>5 DEF Subscriber
<1>4. CASE Processor
  <2>1. ASSUME NEW hand, hand.play \in Plays, SuspendHeld(hand) PROVE LifecycleStep
    BY <2>1 DEF SuspendHeld, LifecycleStep
  <2>2. CASE BreakCycle
    <3>1. PICK ref \in proc.todo :
             SuspendHeld([proc EXCEPT !.todo = @ \ {ref}, !.play = ref.play,
                                      !.failed = @ \cup {ref.play}])
      BY <2>2 DEF BreakCycle
    <3>2. [proc EXCEPT !.todo = @ \ {ref}, !.play = ref.play,
                       !.failed = @ \cup {ref.play}].play \in Plays
      BY DEF ProcType, Proc, Ref
    <3> QED
      BY <2>1, <3>1, <3>2
  <2>3. CASE RuleFailed
    <3>1. [proc EXCEPT !.failed = @ \cup {proc.play}].play \in Plays
      BY <2>3 DEF RuleFailed, ProcType, Proc
    <3> QED
      BY <2>1, <2>3, <3>1 DEF RuleFailed
  <2>4. CASE TakeItem \/ BeginRule \/ RuleSkipped \/ RuleRan \/ ProcRecord \/ ProcPublish
             \/ ProcRecordFails \/ ItemDone
    BY <2>4 DEF TakeItem, BeginRule, RuleSkipped, RuleRan, ProcRecord, ProcPublish,
                ProcRecordFails, ItemDone,
                LifecycleStep
  <2> QED
    BY <1>4, <2>2, <2>3, <2>4 DEF Processor
<1>5. CASE CronRunner
  BY <1>5 DEF CronRunner, CronDue, CronEnqueue, CronStops, LifecycleStep
<1>6. CASE Process
  BY <1>6 DEF Process, Start, Shutdown, Crash, Drained, Stopped, StaysDown, vars, lifecycle,
              LifecycleStep
<1> QED
  BY <1>1, <1>2, <1>3, <1>4, <1>5, <1>6 DEF Next

(* IndexMatches, one rule at a time. *)
Indexed(ref) == IsRunning(ref.play) /\ ref.rules = loaded[ref.play]

(* The index, seen one rule at a time. *)
LEMMA IndexByRef ==
    LifecycleType => (IndexMatches <=> \A ref \in Ref : ref \in index <=> Indexed(ref))
<1> SUFFICES ASSUME LifecycleType
             PROVE  IndexMatches <=> \A ref \in Ref : ref \in index <=> Indexed(ref)
  OBVIOUS
<1> DEFINE held == UNION {RefsOf(p, loaded[p]) : p \in {q \in Plays : IsRunning(q)}}
<1>1. \A ref \in Ref : ref \in held <=> Indexed(ref)
  <2> SUFFICES ASSUME NEW ref \in Ref PROVE ref \in held <=> Indexed(ref)
    OBVIOUS
  <2>1. ref.play \in Plays /\ ref.at \in 1..NumRules
        /\ ref = [play |-> ref.play, rules |-> ref.rules, at |-> ref.at]
    BY DEF Ref
  <2>2. ASSUME Indexed(ref) PROVE ref \in held
    <3>1. ref \in RefsOf(ref.play, loaded[ref.play])
      BY <2>1, <2>2 DEF RefsOf, Indexed
    <3> QED
      BY <2>1, <2>2, <3>1 DEF Indexed
  <2>3. ASSUME ref \in held PROVE Indexed(ref)
    BY <2>3 DEF RefsOf, Indexed
  <2> QED
    BY <2>2, <2>3
<1>2. held \subseteq Ref
  BY DEF RefsOf, Ref, LifecycleType
<1>3. index \subseteq Ref
  BY DEF LifecycleType
<1>4. IndexMatches <=> index = held
  BY DEF IndexMatches
<1> HIDE DEF held
<1> QED
  BY <1>1, <1>2, <1>3, <1>4

(* The same in the next state. *)
LEMMA IndexByRefNext ==
    LifecycleType'
      => (IndexMatches' <=> \A ref \in Ref : ref \in index' <=> Indexed(ref)')
<1>1. (LifecycleType => (IndexMatches <=> \A ref \in Ref : ref \in index <=> Indexed(ref)))'
  BY IndexByRef, PTL
<1> QED
  BY <1>1

(* Every operation of the lifecycle manager keeps the index exact. *)
LEMMA IndexStep == TypeInv /\ IndexMatches /\ [Next]_vars => IndexMatches'
<1> SUFFICES ASSUME TypeInv, IndexMatches, [Next]_vars PROVE IndexMatches'
  OBVIOUS
<1>1. LifecycleType /\ LifecycleType'
  BY TypeStep DEF TypeInv
<1>2. \A ref \in Ref : ref \in index <=> Indexed(ref)
  BY <1>1, IndexByRef
<1> SUFFICES ASSUME NEW ref \in Ref PROVE ref \in index' <=> Indexed(ref)'
  BY <1>1, IndexByRefNext
<1>3. LifecycleStep
  BY StepsOfLifecycle
<1> USE DEF LifecycleType, Indexed, IsRunning, Ref
<1>4. CASE UNCHANGED lifecycle
  BY <1>2, <1>4 DEF lifecycle
<1>5. ASSUME NEW p \in Plays, NEW s \in Status \ {"runnable"}, NEW r \in RuleSets,
             Park(p, s, r)
      PROVE  ref \in index' <=> Indexed(ref)'
  BY <1>1, <1>2, <1>5 DEF Park, Without
<1>6. ASSUME NEW p \in Plays, NEW r \in RuleSets, Reindex(p, r)
      PROVE  ref \in index' <=> Indexed(ref)'
  <2>1. ref \in RefsOf(p, r) <=> ref.play = p /\ ref.rules = r
    BY DEF RefsOf
  <2> QED
    BY <1>1, <1>2, <1>6, <2>1 DEF Reindex, Without
<1>7. ASSUME NEW p \in Plays, Suspend(p) PROVE ref \in index' <=> Indexed(ref)'
  BY <1>1, <1>2, <1>7 DEF Suspend, Without
<1>8. ASSUME NEW gone \in SUBSET Plays, Forget(gone) PROVE ref \in index' <=> Indexed(ref)'
  BY <1>1, <1>2, <1>8 DEF Forget
<1> QED
  BY <1>3, <1>4, <1>5, <1>6, <1>7, <1>8 DEF LifecycleStep

(* In every instance the trigger index and the cron registry hold exactly the
   rules of the plays that run, as last compiled (PlayStatus; lifecycle.rs
   park_play, suspend_play, reindex_play, retain_plays, deactivate_play). *)
THEOREM IndexCorrect == Spec => []IndexMatches
<1>1. Init => IndexMatches
  BY DEF Init, IndexMatches, IsRunning
<1>2. Spec => [](TypeInv /\ IndexMatches)
  BY <1>1, TypeInit, TypeStep, IndexStep, PTL DEF Spec
<1> QED
  BY <1>2, PTL

=============================================================================
