------------------------ MODULE PlayEngineCacheProofs ------------------------
(* That the engine's run state settles on what the play nodes say: CacheInv is
   inductive, and SettledAgreement and OnlyLivePlaysRun follow from it. *)
EXTENDS PlayEngineProofs

(* What Emit does to the positions of the channel: k is 1 when the channel was
   full and lost its oldest event. *)
LEMMA EmitShift ==
    ASSUME TypeInv, NEW e \in Event, Emit(e), sub.pc # "down"
    PROVE  \E k \in {0, 1} :
              /\ Len(channel') = Len(channel) + 1 - k
              /\ k <= Len(channel)
              /\ k = 1 => lagged'
              /\ channel'[Len(channel')] = e
              /\ \A i \in 1..(Len(channel) - k) : channel'[i] = channel[i + k]
<1> USE PlayEngineAssumption DEF TypeInv, ChannelType
<1>1. CASE Len(channel) < ChannelCap
  <2>1. channel' = Append(channel, e)
    BY <1>1 DEF Emit
  <2> QED
    BY <2>1
<1>2. CASE Len(channel) >= ChannelCap
  <2>1. channel' = Append(Tail(channel), e)
    BY <1>2 DEF Emit
  <2>2. lagged'
    BY <1>2 DEF Emit
  <2>3. channel # <<>> /\ Len(channel) >= 1
    BY <1>2
  <2>4. /\ Tail(channel) \in Seq(Event) /\ Len(Tail(channel)) = Len(channel) - 1
        /\ \A i \in 1..(Len(channel) - 1) : Tail(channel)[i] = channel[i + 1]
    BY <2>3
  <2>5. /\ Len(channel') = Len(channel)
        /\ channel'[Len(channel)] = e
        /\ \A i \in 1..(Len(channel) - 1) : channel'[i] = channel[i + 1]
    BY <2>1, <2>3, <2>4
  <2> QED
    BY <2>2, <2>3, <2>5
<1> QED
  BY <1>1, <1>2

(* Nothing that was still to be told is lost by an emission: it stays in the
   channel, or the lag will be reported. *)
LEMMA EmitTells ==
    ASSUME TypeInv, NEW e \in Event, Emit(e), sub.pc # "down"
    PROVE  /\ lagged => lagged'
           /\ \A x : InChannel(x) => InChannel(x)' \/ lagged'
           /\ InChannel(e)'
<1> USE DEF TypeInv, ChannelType
<1>1. PICK k \in {0, 1} :
         /\ Len(channel') = Len(channel) + 1 - k
         /\ k <= Len(channel)
         /\ k = 1 => lagged'
         /\ channel'[Len(channel')] = e
         /\ \A i \in 1..(Len(channel) - k) : channel'[i] = channel[i + k]
  BY EmitShift
<1>2. channel \in Seq(Event) /\ channel' \in Seq(Event)
  BY EmitType
<1>3. InChannel(e)'
  BY <1>1, <1>2 DEF InChannel
<1>4. ASSUME NEW x, InChannel(x) PROVE InChannel(x)' \/ lagged'
  <2>1. PICK i \in 1..Len(channel) : channel[i] = x
    BY <1>2, <1>4 DEF InChannel
  <2>2. CASE k = 0
    BY <1>1, <1>2, <2>1, <2>2 DEF InChannel
  <2>3. CASE k = 1
    BY <1>1, <2>3
  <2> QED
    BY <2>2, <2>3
<1>5. lagged => lagged'
  BY DEF Emit
<1> QED
  BY <1>3, <1>4, <1>5

(* Receiving an event takes that one and no other. *)
LEMMA ReceiveTells ==
    ASSUME TypeInv, NEW kind, Receive(kind)
    PROVE  /\ ~lagged /\ ~lagged'
           /\ Head(channel) = channel[1] /\ 1 \in DOMAIN channel
           /\ Len(channel') = Len(channel) - 1
           /\ \A i \in 1..Len(channel') : channel'[i] = channel[i + 1]
           /\ \A x : InChannel(x) => InChannel(x)' \/ x = Head(channel)
<1> USE DEF TypeInv, ChannelType
<1>1. channel \in Seq(Event) /\ channel # <<>> /\ channel' = Tail(channel)
  BY DEF Receive
<1>2. Head(channel) = channel[1] /\ 1 \in DOMAIN channel
  BY <1>1
<1>3. /\ channel' \in Seq(Event) /\ Len(channel') = Len(channel) - 1
      /\ \A i \in 1..Len(channel') : channel'[i] = channel[i + 1]
  BY <1>1
<1>4. ASSUME NEW x, InChannel(x), x # Head(channel) PROVE InChannel(x)'
  <2>1. PICK i \in 1..Len(channel) : channel[i] = x
    BY <1>1, <1>4 DEF InChannel
  <2>2. i # 1
    BY <1>2, <1>4, <2>1
  <2>3. i - 1 \in 1..Len(channel') /\ channel'[i - 1] = x
    BY <1>1, <1>3, <2>1, <2>2
  <2> QED
    BY <1>3, <2>3 DEF InChannel
<1>5. ~lagged /\ ~lagged'
  BY DEF Receive
<1> QED
  BY <1>2, <1>3, <1>4, <1>5

(* The processor has switched p off and has still to record it. *)
Held(p) == proc.pc = "record" /\ proc.play = p

(* A step of anyone but the subscriber, as the invariant sees it: what it
   changes behind the subscriber's back, it tells. *)
Outside ==
    /\ UNCHANGED <<sub, loaded>>
    /\ unsure \subseteq unsure'
    /\ \A p \in Plays : Told(p) => Told(p)' \/ p \in unsure'
    /\ \A p \in Plays : Overtaken(p) => Overtaken(p)' \/ Told(p)'
    /\ SchemaTold => SchemaTold'
    /\ schema' = schema \/ SchemaTold'
    /\ \A p \in Plays : play'[p] = play[p] \/ Told(p)'
    /\ \A p \in Plays : IsRunning(p)' => IsRunning(p)
    /\ \A p \in Plays : IsRunning(p) => IsRunning(p)' \/ Held(p)'
    /\ \A p \in Plays : Held(p) =>
          Held(p)' \/ ~ShouldRun(p)' \/ Told(p)' \/ p \in unsure'

CacheParts == Live => /\ \A p \in Plays : RunsAsStored(p) /\ RunsValidRules(p)
                                          /\ StoredRuns(p) /\ ForgetsRightly(p)
                      /\ \A b \in sub.batch : FreshRow(b)
                      /\ sub.pc = "validate" => FreshRow(sub.cur)

(* Whether a play should run depends on its row alone. *)
LEMMA ShouldRunNext ==
    ASSUME NEW p, play'[p] = play[p]
    PROVE  ShouldRun(p)' <=> ShouldRun(p)
BY DEF ShouldRun

(* A step of another task that only edits rows it tells of, or stops plays,
   keeps the cache in line with the nodes. *)
LEMMA OutsideKeeps ==
    ASSUME TypeInv, CacheParts, Live, Outside
    PROVE  CacheParts'
<1> USE DEF TypeInv
<1>1. Live' /\ sub' = sub /\ loaded' = loaded
  BY DEF Outside, Live
<1>2. \A p \in Plays : Due(p) => Due(p)' \/ Told(p)'
  BY <1>1 DEF Due, Busy, Outside
<1>3. \A p \in Plays : Excused(p) => Excused(p)'
  BY <1>2 DEF Outside, Excused
<1>4. ASSUME NEW p \in Plays
      PROVE  (RunsAsStored(p) /\ RunsValidRules(p) /\ StoredRuns(p) /\ ForgetsRightly(p))'
  <2>0. RunsAsStored(p) /\ RunsValidRules(p) /\ StoredRuns(p) /\ ForgetsRightly(p)
    BY DEF CacheParts
  <2>1. RunsAsStored(p)'
    BY <1>1, <1>3, <2>0, ShouldRunNext DEF Outside, RunsAsStored, Excused
  <2>2. RunsValidRules(p)'
    BY <1>1, <1>3, <2>0 DEF Outside, RunsValidRules
  <2>3. StoredRuns(p)'
    BY <1>1, <1>3, <2>0, ShouldRunNext DEF Outside, StoredRuns, Excused, Held
  <2>4. ForgetsRightly(p)'
    BY <1>1, <2>0, ShouldRunNext DEF Outside, ForgetsRightly, Busy
  <2> QED
    BY <2>1, <2>2, <2>3, <2>4
<1>5. ASSUME NEW b, FreshRow(b), b.play \in Plays PROVE FreshRow(b)'
  BY <1>5 DEF Outside, FreshRow
<1>6. \A b \in sub.batch : b.play \in Plays
  BY DEF SubType, Sub, Entry
<1>7. sub.pc = "validate" => sub.cur.play \in Plays
  BY DEF SubType
<1> QED
  BY <1>1, <1>4, <1>5, <1>6, <1>7 DEF CacheParts

(* News on its way stays on its way: an event leaves the pending writes only for
   the channel, and the channel loses events only to a lag. *)
LEMMA ComingKept ==
    ASSUME TypeInv, sub.pc # "down",
           (\E e \in Event : Emit(e)) \/ UNCHANGED <<channel, lagged>>,
           \A x : Unpublished(x) => Unpublished(x)' \/ InChannel(x)'
    PROVE  /\ lagged => lagged'
           /\ \A x : Coming(x) => Coming(x)' \/ lagged'
<1>1. CASE \E e \in Event : Emit(e)
  BY <1>1, EmitTells DEF Coming
<1>2. CASE UNCHANGED <<channel, lagged>>
  BY <1>2 DEF Coming, InChannel
<1> QED
  BY <1>1, <1>2

(* So what is still to be told of a play stays so while the play lives on or
   stays gone and no publication of a suspension is given up. *)
LEMMA ToldKept ==
    ASSUME lagged => lagged',
           \A x : Coming(x) => Coming(x)' \/ lagged'
    PROVE  /\ SchemaTold => SchemaTold'
           /\ \A p : /\ Told(p)
                     /\ play'[p].life = "absent" <=> play[p].life = "absent"
                     /\ Publishing(p) /\ play[p].life # "absent"
                           => Publishing(p)' \/ Coming(PlayEvent(p))'
                     => Told(p)'
BY DEF Told, SchemaTold, LastNews

(* A step that leaves the store, the channel and the publications in hand alone
   leaves what is still to hear alone. *)
LEMMA KeptGrows ==
    ASSUME UNCHANGED <<play, pending, channel, lagged>>
    PROVE  /\ SchemaTold' <=> SchemaTold
           /\ \A p : (Publishing(p)' <=> Publishing(p)) => (Told(p)' <=> Told(p))
           /\ UNCHANGED late => \A p : Overtaken(p)' <=> Overtaken(p)
BY DEF Told, SchemaTold, Coming, InChannel, Unpublished, LastNews, Overtaken

(* The lifecycle half of a suspension by the processor. *)
LEMMA SuspendHeldOutside ==
    ASSUME TypeInv, NEW hand \in Proc, hand.play \in Plays, SuspendHeld(hand)
    PROVE  /\ loaded' = loaded
           /\ \A p \in Plays : IsRunning(p)' => IsRunning(p)
           /\ \A p \in Plays : IsRunning(p) => IsRunning(p)' \/ Held(p)'
           /\ proc'.pc # "publish"
<1> USE DEF TypeInv, LifecycleType, lifecycle, IsRunning
<1>1. CASE IsRunning(hand.play)
  BY <1>1 DEF SuspendHeld, Suspend, Held, Proc
<1>2. CASE ~IsRunning(hand.play)
  BY <1>2 DEF SuspendHeld, Dropped, Proc
<1> QED
  BY <1>1, <1>2

(* The writes of a rule only add to what is still to hear. *)
LEMMA RuleEmitGrows ==
    ASSUME TypeInv, Live, proc.pc = "eval", EmitMaybe(DataEvent(proc.depth + 1)),
           UNCHANGED <<store, late, sub>>
    PROVE  /\ SchemaTold => SchemaTold'
           /\ \A p : Told(p) => Told(p)'
           /\ \A p : Overtaken(p)' <=> Overtaken(p)
<1>1. proc.depth + 1 \in 0..MaxChainDepth
  BY PlayEngineAssumption DEF TypeInv, ProcType, Proc, Exceeds
<1>2. DataEvent(proc.depth + 1) \in Event
  BY <1>1, Events
<1>3. (lagged => lagged') /\ \A x : Coming(x) => Coming(x)' \/ lagged'
  BY <1>2, ComingKept DEF EmitMaybe, Live, store, Unpublished
<1>4. \A p : Publishing(p) => Publishing(p)'
  BY DEF Publishing
<1> QED
  BY <1>3, <1>4, ToldKept DEF store, Overtaken

(* A user's write of a play node has its event to publish. *)
LEMMA WriteRowOutside ==
    ASSUME TypeInv, Live, NEW p \in Plays, NEW row, NEW clears,
           NEW e, e = IF row.life = "absent" THEN GoneEvent(p) ELSE PlayEvent(p),
           WriteRow(p, row, e, clears)
    PROVE  Outside
<1>1. /\ play'[p] = row /\ \A q \in Plays \ {p} : play'[q] = play[q]
      /\ UNCHANGED <<sub, schema, loaded, status, channel, lagged, unsure, late>>
      /\ proc'.pc = proc.pc /\ proc'.play = proc.play
  BY DEF WriteRow, TypeInv, StoreType, lifecycle, ProcType, Proc
<1>2. \A x : Unpublished(x) => Unpublished(x)'
  BY DEF WriteRow, Edit, Unpublished
<1>3. (lagged => lagged') /\ \A x : Coming(x) => Coming(x)' \/ lagged'
  BY <1>1, <1>2 DEF Coming, InChannel
<1>4. Unpublished(e)'
  <2>1. [event |-> e, no |-> spent.edits + 1] \in pending'
    BY DEF WriteRow, Edit
  <2> QED
    BY <2>1 DEF Unpublished
<1>5. Told(p)'
  BY <1>1, <1>4 DEF Told, Coming, LastNews
<1>6. \A q : Publishing(q)' <=> Publishing(q)
  BY <1>1 DEF Publishing
<1>7. \A q \in Plays : Told(q) => Told(q)'
  BY <1>1, <1>3, <1>5, <1>6, ToldKept
<1>8. SchemaTold => SchemaTold'
  BY <1>3, ToldKept
<1>9. \A q \in Plays : /\ IsRunning(q)' <=> IsRunning(q)
                       /\ Held(q)' <=> Held(q)
                       /\ Overtaken(q) => Overtaken(q)' \/ Told(q)'
  BY <1>1, <1>5 DEF IsRunning, Held, Overtaken
<1> QED
  BY <1>1, <1>5, <1>7, <1>8, <1>9 DEF Outside

(* So has every other write, and publishing one takes its event to the channel. *)
LEMMA PublishOutside == ASSUME TypeInv, Live, Publish PROVE Outside
<1> USE DEF TypeInv
<1>1. PICK w \in pending : Publish!(w)
  BY DEF Publish
<1>2. /\ w.event \in Event /\ sub.pc # "down" /\ Emit(w.event)
      /\ UNCHANGED <<play, schema, loaded, status, sub, proc, unsure>>
  BY <1>1 DEF StoreType, Write, Live, lifecycle
<1>3. InChannel(w.event)'
  BY <1>2, EmitTells
<1>4. ASSUME NEW x, Unpublished(x) PROVE Unpublished(x)' \/ InChannel(x)'
  <2>1. PICK v \in pending : v.event = x
    BY <1>4 DEF Unpublished
  <2>2. v = w \/ v \in pending'
    BY <1>1
  <2> QED
    BY <1>3, <2>1, <2>2 DEF Unpublished
<1>5. (lagged => lagged') /\ \A x : Coming(x) => Coming(x)' \/ lagged'
  BY <1>2, <1>4, ComingKept
<1>6. \A q : Publishing(q)' <=> Publishing(q)
  BY <1>2 DEF Publishing
<1>7. (SchemaTold => SchemaTold') /\ \A q \in Plays : Told(q) => Told(q)'
  BY <1>2, <1>5, <1>6, ToldKept
<1>8. ASSUME NEW q \in Plays, Overtaken(q) PROVE Overtaken(q)' \/ Told(q)'
  <2>1. CASE w.event = PlayEvent(q)
    BY <1>2, <1>3, <1>8, <2>1 DEF Overtaken, Told, Coming, LastNews
  <2>2. CASE w.event # PlayEvent(q)
    BY <1>1, <1>2, <1>8, <2>2 DEF Overtaken
  <2> QED
    BY <2>1, <2>2
<1>9. \A q \in Plays : (IsRunning(q)' <=> IsRunning(q)) /\ (Held(q)' <=> Held(q))
  BY <1>2 DEF IsRunning, Held
<1> QED
  BY <1>2, <1>7, <1>8, <1>9 DEF Outside

(* A write of something other than a play node. *)
LEMMA EditOutside ==
    ASSUME TypeInv, Live, NEW e, Edit(e), schema' = schema \/ e = SchemaEvent,
           UNCHANGED <<play, channel, lagged, lifecycle, sub, proc, unsure, late>>
    PROVE  Outside
<1>1. \A x : Unpublished(x) => Unpublished(x)'
  BY DEF Edit, Unpublished
<1>2. (lagged => lagged') /\ \A x : Coming(x) => Coming(x)' \/ lagged'
  BY <1>1 DEF Coming, InChannel
<1>3. Unpublished(e)'
  <2>1. [event |-> e, no |-> spent.edits + 1] \in pending'
    BY DEF Edit
  <2> QED
    BY <2>1 DEF Unpublished
<1>4. \A q : Publishing(q)' <=> Publishing(q)
  BY DEF Publishing
<1>5. (SchemaTold => SchemaTold') /\ \A q \in Plays : Told(q) => Told(q)'
  BY <1>2, <1>4, ToldKept
<1>6. schema' = schema \/ SchemaTold'
  BY <1>3 DEF SchemaTold, Coming
<1>7. \A q \in Plays : /\ IsRunning(q)' <=> IsRunning(q)
                       /\ Held(q)' <=> Held(q)
                       /\ Overtaken(q)' <=> Overtaken(q)
  BY DEF IsRunning, Held, Overtaken, lifecycle
<1> QED
  BY <1>5, <1>6, <1>7 DEF Outside, lifecycle

(* The rows the users write are absent exactly when the write is a deletion. *)
LEMMA WritersOutside == ASSUME TypeInv, Live, Writers PROVE Outside
<1> USE Fillers DEF TypeInv
<1>0. \A p \in Plays : play[p] \in Row
  BY DEF StoreType
<1>1. ASSUME NEW p \in Plays, NEW r \in RuleSets, CreatePlay(p, r) PROVE Outside
  <2>1. PICK on \in BOOLEAN :
           WriteRow(p, [NoRow EXCEPT !.life = "active", !.enabled = on, !.rules = r],
                    PlayEvent(p), TRUE)
    BY <1>1 DEF CreatePlay
  <2>2. [NoRow EXCEPT !.life = "active", !.enabled = on, !.rules = r].life = "active"
    BY DEF Row
  <2> QED
    BY <2>1, <2>2, WriteRowOutside
<1>2. ASSUME NEW p \in Plays, NEW r \in RuleSets, SaveRules(p, r) PROVE Outside
  <2>1. [play[p] EXCEPT !.rules = r, !.suspended = FALSE].life # "absent"
    BY <1>0, <1>2 DEF Row, SaveRules
  <2> QED
    BY <1>2, <2>1, WriteRowOutside DEF SaveRules
<1>3. ASSUME NEW p \in Plays, NEW on \in BOOLEAN, SetEnabled(p, on) PROVE Outside
  <2>1. [play[p] EXCEPT !.enabled = on, !.suspended = @ /\ ~on].life # "absent"
    BY <1>0, <1>3 DEF Row, SetEnabled
  <2> QED
    BY <1>3, <2>1, WriteRowOutside DEF SetEnabled
<1>4. ASSUME NEW p \in Plays, NEW life \in {"active", "archived"}, SetLife(p, life)
      PROVE  Outside
  <2>1. [play[p] EXCEPT !.life = life].life = life
    BY <1>0 DEF Row
  <2> QED
    BY <1>4, <2>1, WriteRowOutside DEF SetLife
<1>5. ASSUME NEW p \in Plays, Touch(p) PROVE Outside
  BY <1>5, WriteRowOutside DEF Touch
<1>6. ASSUME NEW p \in Plays, DeletePlay(p) PROVE Outside
  <2>1. NoRow.life = "absent"
    BY DEF NoRow
  <2> QED
    BY <1>6, <2>1, WriteRowOutside DEF DeletePlay
<1>7. ASSUME NEW s \in Schemas, ChangeSchema(s) PROVE Outside
  BY <1>7, EditOutside DEF ChangeSchema
<1>8. CASE WriteData
  BY <1>8, EditOutside DEF WriteData
<1>9. CASE Publish
  BY <1>9, PublishOutside
<1> QED
  BY <1>1, <1>2, <1>3, <1>4, <1>5, <1>6, <1>7, <1>8, <1>9 DEF Writers

(* A processor step that leaves the store, the channel and the lifecycle alone
   and has nothing to record. *)
LEMMA IdleOutside ==
    ASSUME proc.pc \notin {"record", "publish"}, proc'.pc # "publish",
           UNCHANGED <<store, channel, lagged, sub, unsure, late, loaded, status>>
    PROVE  Outside
<1>1. \A p : /\ Publishing(p)' <=> Publishing(p)
             /\ IsRunning(p)' <=> IsRunning(p)
             /\ ~Held(p)
  BY DEF Publishing, IsRunning, Held
<1> QED
  BY <1>1, KeptGrows DEF Outside, store

(* So is every step of the RuleProcessor: it only ever stops plays, and records
   the ones it stops. *)
LEMMA ProcessorOutside == ASSUME TypeInv, Live, Processor PROVE Outside
<1> USE DEF TypeInv, store, lifecycle
<1>0. proc \in Proc
  BY DEF ProcType
<1>1. CASE TakeItem
  <2>1. proc'.pc \in {"cycle", "rules"}
    BY <1>1, Fillers DEF TakeItem, Proc
  <2> QED
    BY <1>1, <2>1, IdleOutside DEF TakeItem
<1>2. CASE BreakCycle
  <2>1. PICK ref \in proc.todo :
           SuspendHeld([proc EXCEPT !.todo = @ \ {ref}, !.play = ref.play,
                                    !.failed = @ \cup {ref.play}])
    BY <1>2 DEF BreakCycle
  <2>2. ref.play \in Plays
    BY <1>0 DEF Proc, Ref
  <2> DEFINE hand == [proc EXCEPT !.todo = @ \ {ref}, !.play = ref.play,
                                  !.failed = @ \cup {ref.play}]
  <2>3. hand \in Proc /\ hand.play = ref.play
    BY <1>0, <2>2 DEF Proc
  <2>4. /\ loaded' = loaded
        /\ \A p \in Plays : IsRunning(p)' => IsRunning(p)
        /\ \A p \in Plays : IsRunning(p) => IsRunning(p)' \/ Held(p)'
        /\ proc'.pc # "publish"
    BY <2>1, <2>2, <2>3, SuspendHeldOutside
  <2>5. \A p : ~Held(p) /\ (Publishing(p)' <=> Publishing(p))
    BY <1>2, <2>4 DEF BreakCycle, Held, Publishing
  <2> QED
    BY <1>2, <2>4, <2>5, KeptGrows DEF BreakCycle, Outside
<1>3. CASE BeginRule
  <2>1. PICK ref \in proc.todo : BeginRule!2!(ref)
    BY <1>3 DEF BeginRule
  <2>2. proc'.pc # "publish"
    BY <1>0, <2>1 DEF Dropped, Proc
  <2> QED
    BY <1>3, <2>2, IdleOutside DEF BeginRule
<1>4. CASE RuleSkipped
  <2>1. proc'.pc # "publish"
    BY <1>0, <1>4 DEF RuleSkipped, Dropped, Proc
  <2> QED
    BY <1>4, <2>1, IdleOutside DEF RuleSkipped
<1>5. CASE RuleRan
  <2>1. /\ SchemaTold => SchemaTold'
        /\ \A p : (Told(p) => Told(p)') /\ (Overtaken(p)' <=> Overtaken(p))
    BY <1>5, RuleEmitGrows DEF RuleRan
  <2> QED
    BY <1>5, <2>1 DEF RuleRan, Outside, IsRunning, Held
<1>6. CASE RuleFailed
  <2>1. /\ [proc EXCEPT !.failed = @ \cup {proc.play}] \in Proc
        /\ [proc EXCEPT !.failed = @ \cup {proc.play}].play \in Plays
    BY <1>0, <1>6 DEF RuleFailed, ProcType, Proc
  <2>2. /\ loaded' = loaded
        /\ \A p \in Plays : IsRunning(p)' => IsRunning(p)
        /\ \A p \in Plays : IsRunning(p) => IsRunning(p)' \/ Held(p)'
    BY <1>6, <2>1, SuspendHeldOutside DEF RuleFailed
  <2>3. /\ SchemaTold => SchemaTold'
        /\ \A p : (Told(p) => Told(p)') /\ (Overtaken(p)' <=> Overtaken(p))
    BY <1>6, RuleEmitGrows DEF RuleFailed
  <2>4. \A p \in Plays : ~Held(p)
    BY <1>6 DEF RuleFailed, Held
  <2> QED
    BY <1>6, <2>2, <2>3, <2>4 DEF RuleFailed, Outside
<1>7. CASE ProcRecord
  <2>1. PICK p \in Plays : p = proc.play
    BY <1>7 DEF ProcRecord, ProcType
  <2>2. /\ play[p].life # "absent" /\ play' = [play EXCEPT ![p].suspended = TRUE]
        /\ UNCHANGED <<schema, pending, channel, lagged, status, loaded, sub, unsure, late>>
        /\ proc'.pc = "publish" /\ proc'.play = p /\ proc.pc = "record"
    BY <1>0, <1>7, <2>1 DEF ProcRecord, RecordSuspension, Proc
  <2>3. \A q \in Plays : play'[q].life = play[q].life
    BY <2>2 DEF StoreType, Row
  <2>4. (lagged => lagged') /\ \A x : Coming(x) => Coming(x)' \/ lagged'
    BY <2>2 DEF Coming, Unpublished, InChannel
  <2>5. \A q : Publishing(q) => Publishing(q)'
    BY <2>2 DEF Publishing
  <2>6. (SchemaTold => SchemaTold') /\ \A q \in Plays : Told(q) => Told(q)'
    BY <2>3, <2>4, <2>5, ToldKept
  <2>7. Told(p)'
    BY <2>2, <2>3 DEF Told, Publishing
  <2>8. \A q \in Plays : play'[q] = play[q] \/ Told(q)'
    BY <2>2, <2>7 DEF StoreType
  <2>9. \A q \in Plays : /\ Held(q) => q = p
                         /\ IsRunning(q)' <=> IsRunning(q)
                         /\ Overtaken(q)' <=> Overtaken(q)
    BY <2>1, <2>2, <2>3 DEF Held, IsRunning, Overtaken
  <2> QED
    BY <2>2, <2>6, <2>7, <2>8, <2>9 DEF Outside
<1>8. CASE ProcPublish
  <2>1. PICK p \in Plays : p = proc.play
    BY <1>8 DEF ProcPublish, ProcType
  <2>2. /\ play[p].life # "absent" /\ Emit(PlayEvent(p)) /\ late' = late \ {p}
        /\ UNCHANGED <<play, schema, pending, status, loaded, sub, unsure>>
        /\ proc.pc = "publish" /\ proc.play = p /\ sub.pc # "down"
    BY <1>8, <2>1 DEF ProcPublish, PublishSuspension, Live
  <2>3. PlayEvent(p) \in Event /\ InChannel(PlayEvent(p))'
    BY <2>2, EmitTells, Events
  <2>4. (lagged => lagged') /\ \A x : Coming(x) => Coming(x)' \/ lagged'
    BY <2>2, <2>3, ComingKept DEF Unpublished
  <2>5. \A q : Publishing(q) => Publishing(q)' \/ Coming(PlayEvent(q))'
    BY <2>2, <2>3 DEF Publishing, Coming
  <2>6. (SchemaTold => SchemaTold') /\ \A q \in Plays : Told(q) => Told(q)'
    BY <2>2, <2>4, <2>5, ToldKept
  <2>7. \A q \in Plays : /\ ~Held(q)
                         /\ IsRunning(q)' <=> IsRunning(q)
                         /\ Overtaken(q) => Overtaken(q)' \/ Told(q)'
    BY <2>2, <2>3 DEF Held, IsRunning, Overtaken, Told, Coming, LastNews
  <2> QED
    BY <2>2, <2>6, <2>7 DEF Outside
<1>9. CASE ProcRecordFails
  <2>1. PICK p \in Plays : p = proc.play
    BY <1>9 DEF ProcRecordFails, ProcType
  <2>2. /\ play[p].life = "absent" \/ p \in unsure'
        /\ unsure \subseteq unsure'
        /\ UNCHANGED <<store, channel, lagged, status, loaded, sub, late>>
        /\ proc.pc \in {"record", "publish"} /\ proc.play = p
    BY <1>9, <2>1 DEF ProcRecordFails, GoneBeforeRecord, RecordFails
  <2>3. (lagged => lagged') /\ \A x : Coming(x) => Coming(x)' \/ lagged'
    BY <2>2 DEF Coming, Unpublished, InChannel
  <2>4. \A q : q # p => (Publishing(q) => Publishing(q)')
    BY <2>2 DEF Publishing
  <2>5. SchemaTold => SchemaTold'
    BY <2>3, ToldKept
  <2>6. \A q \in Plays : q # p => (Told(q) => Told(q)')
    BY <2>2, <2>3, <2>4, ToldKept
  <2>7. Told(p) => Told(p)' \/ p \in unsure'
    <3>1. CASE play[p].life = "absent"
      BY <2>2, <2>3, <3>1, ToldKept
    <3> QED
      BY <2>2, <3>1
  <2>8. \A q \in Plays : /\ Held(q) => q = p
                         /\ IsRunning(q)' <=> IsRunning(q)
                         /\ Overtaken(q)' <=> Overtaken(q)
    BY <2>2 DEF Held, IsRunning, Overtaken
  <2>9. ~ShouldRun(p)' \/ p \in unsure'
    BY <2>2 DEF ShouldRun, OfNode
  <2> QED
    BY <2>2, <2>5, <2>6, <2>7, <2>8, <2>9 DEF Outside
<1>10. CASE ItemDone
  <2>1. proc'.pc # "publish" /\ proc.pc \notin {"record", "publish"}
    BY <1>10, Fillers DEF ItemDone
  <2> QED
    BY <1>10, <2>1, IdleOutside DEF ItemDone
<1> QED
  BY <1>1, <1>2, <1>3, <1>4, <1>5, <1>6, <1>7, <1>8, <1>9, <1>10 DEF Processor

(* So is every step of the CronRunner. *)
LEMMA CronRunnerOutside == ASSUME TypeInv, CronRunner PROVE Outside
<1>1. UNCHANGED <<store, channel, lagged, lifecycle, sub, proc, unsure, late>>
  BY DEF CronRunner, CronDue, CronEnqueue, CronStops
<1>2. \A p : /\ Publishing(p)' <=> Publishing(p)
             /\ IsRunning(p)' <=> IsRunning(p)
             /\ Held(p)' <=> Held(p)
  BY <1>1 DEF Publishing, IsRunning, Held, lifecycle
<1> QED
  BY <1>1, <1>2, KeptGrows DEF Outside, store, lifecycle

-----------------------------------------------------------------------------
(* The subscriber's own steps. *)

(* Nothing is asked of an excused play. *)
LEMMA ExcusedFine ==
    ASSUME NEW p, Excused(p)'
    PROVE  RunsAsStored(p)' /\ RunsValidRules(p)' /\ StoredRuns(p)'
BY DEF RunsAsStored, RunsValidRules, StoredRuns

(* A step that leaves the store and the engine's run state alone, and after
   which every excuse that held still does. *)
LEMMA ExcusesKept ==
    ASSUME NEW p, RunsAsStored(p), StoredRuns(p), RunsValidRules(p),
           UNCHANGED <<play, schema, status, loaded>>,
           Excused(p) => Excused(p)',
           SchemaTold \/ sub.pc = "schema" \/ p \in sub.broken =>
               (SchemaTold \/ sub.pc = "schema" \/ p \in sub.broken)' \/ Excused(p)'
               \/ (IsRunning(p) => <<loaded[p], schema>> \in Valid),
           (sub.pc = "record" /\ sub.cur.play = p) => (sub.pc = "record" /\ sub.cur.play = p)',
           Held(p) => Held(p)'
    PROVE  RunsAsStored(p)' /\ RunsValidRules(p)' /\ StoredRuns(p)'
<1>1. (ShouldRun(p)' <=> ShouldRun(p)) /\ (IsRunning(p)' <=> IsRunning(p))
  BY DEF ShouldRun, IsRunning
<1>2. RunsAsStored(p)'
  BY <1>1 DEF RunsAsStored
<1>3. StoredRuns(p)'
  BY <1>1 DEF StoredRuns, Held
<1>4. RunsValidRules(p)'
  BY <1>1 DEF RunsValidRules
<1> QED
  BY <1>2, <1>3, <1>4

(* What a step of the subscriber on the lifecycle manager or its own control state
   alone leaves as it was. *)
LEMMA SubscriberGrows ==
    ASSUME UNCHANGED <<play, pending, channel, lagged, late, proc>>,
           sub.pc # "publish", sub'.pc # "publish"
    PROVE  /\ SchemaTold' <=> SchemaTold
           /\ \A p : /\ Told(p)' <=> Told(p)
                     /\ Overtaken(p)' <=> Overtaken(p)
                     /\ Held(p)' <=> Held(p)
                     /\ ShouldRun(p)' <=> ShouldRun(p)
<1>1. \A p : Publishing(p)' <=> Publishing(p)
  BY DEF Publishing
<1> QED
  BY <1>1, KeptGrows DEF Held, ShouldRun

(* load_plays' query: what it does not see is not running in the store, or its
   event comes after the subscription. *)
LEMMA LoadQueryKeeps ==
    ASSUME TypeInv, Phases, CacheParts, LoadQuery
    PROVE  CacheParts'
<1> DEFINE running == {q \in Plays : play[q].life = "active"}
           rows    == {[play |-> p, row |-> play[p]] : p \in running}
<1>1. sub'.pc = "work" /\ sub'.batch = rows /\ sub'.keep = {b.play : b \in rows}
  <2>1. sub' = [Resting EXCEPT !.pc = "work", !.batch = rows,
                               !.keep = {b.play : b \in rows}]
    BY DEF LoadQuery
  <2> HIDE DEF rows
  <2> QED
    BY <2>1, Fillers DEF Sub
<1>2. play' = play
  BY DEF LoadQuery, store
<1>3. ASSUME NEW p \in Plays
      PROVE  (RunsAsStored(p) /\ RunsValidRules(p) /\ StoredRuns(p) /\ ForgetsRightly(p))'
  <2>1. CASE p \in running
    <3>1. [play |-> p, row |-> play[p]] \in rows
      BY <2>1
    <3>2. Due(p)'
      BY <1>1, <3>1 DEF Due
    <3>3. p \in sub'.keep
      <4>1. PICK b \in rows : b.play = p
        BY <3>1
      <4> HIDE DEF rows
      <4> QED
        BY <1>1, <4>1
    <3> QED
      BY <3>2, <3>3, ExcusedFine DEF Excused, ForgetsRightly
  <2>2. CASE p \notin running
    <3>1. p \notin sub'.keep
      BY <1>1, <2>2
    <3>2. Due(p)'
      BY <1>1, <3>1 DEF Due, Busy
    <3>3. ~ShouldRun(p)
      BY <2>2 DEF ShouldRun, OfNode, TypeInv, StoreType, Row
    <3>4. ~ShouldRun(p)'
      BY <1>2, <3>3 DEF ShouldRun
    <3> QED
      BY <3>2, <3>4, ExcusedFine DEF Excused, ForgetsRightly
  <2> QED
    BY <2>1, <2>2
<1>4. \A b \in sub'.batch : FreshRow(b)'
  BY <1>1, <1>2 DEF FreshRow
<1> QED
  BY <1>1, <1>3, <1>4 DEF CacheParts

(* A failed reload leaves the cache as it was and every play excused. *)
LEMMA LoadFailsKeeps ==
    ASSUME TypeInv, Phases, CacheParts, LoadFails
    PROVE  CacheParts'
<1>1. CASE sub'.pc = "down"
  BY <1>1 DEF CacheParts, Live
<1>2. CASE sub' = Resting
  <2>1. \A p \in Plays : Excused(p)'
    BY DEF LoadFails, Excused
  <2> QED
    BY <1>2, <2>1, ExcusedFine, Fillers DEF CacheParts, ForgetsRightly, Busy
<1> QED
  BY <1>1, <1>2, Fillers DEF LoadFails, Sub

(* Parking a play that its node keeps from running. *)
LEMMA SyncPlayKeeps ==
    ASSUME TypeInv, Phases, CacheParts, SyncPlay
    PROVE  CacheParts'
<1> USE DEF TypeInv
<1>0. PICK b \in sub.batch : SyncPlay!2!(b)
  BY DEF SyncPlay
<1>1. /\ b.play \in Plays /\ b.row \in Row /\ FreshRow(b)
      /\ sub.pc = "work" /\ Live
      /\ UNCHANGED <<play, schema, pending, channel, lagged, unsure, late, proc>>
  BY DEF SyncPlay, SubType, Sub, Entry, CacheParts, Live, store
<1>3. /\ sub'.batch = sub.batch \ {b} /\ sub'.keep = sub.keep /\ sub'.broken = sub.broken
      /\ sub'.pc \in {"work", "validate"}
      /\ sub'.pc = "validate" => sub'.cur = b
      /\ sub'.pc = "work" => OfNode(b.row) # "runnable"
  BY <1>0, <1>1 DEF SubType, Sub
<1>2. /\ SchemaTold' <=> SchemaTold
      /\ \A p : /\ Told(p)' <=> Told(p)
                /\ Overtaken(p)' <=> Overtaken(p)
                /\ Held(p)' <=> Held(p)
                /\ ShouldRun(p)' <=> ShouldRun(p)
  BY <1>1, <1>3, SubscriberGrows
<1>4. \A x : FreshRow(x) => FreshRow(x)'
  BY <1>1, <1>2 DEF FreshRow
<1>7. ASSUME NEW p \in Plays
      PROVE  (RunsAsStored(p) /\ RunsValidRules(p) /\ StoredRuns(p) /\ ForgetsRightly(p))'
  <2>0. RunsAsStored(p) /\ RunsValidRules(p) /\ StoredRuns(p) /\ ForgetsRightly(p)
    BY <1>1 DEF CacheParts
  <2>1. ForgetsRightly(p)'
    BY <1>1, <1>2, <1>3, <2>0 DEF ForgetsRightly, Busy
  <2>2. CASE OfNode(b.row) = "runnable"
    <3>1. UNCHANGED <<status, loaded>> /\ sub'.pc = "validate" /\ sub'.cur = b
      BY <1>0, <2>2 DEF lifecycle, SubType, Sub
    <3>2. Due(p) => Due(p)'
      BY <1>1, <1>3, <3>1 DEF Due, Busy
    <3>3. Excused(p) => Excused(p)'
      BY <1>1, <1>2, <3>2 DEF Excused
    <3> QED
      BY <1>1, <1>2, <1>3, <2>0, <2>1, <3>1, <3>3, ExcusesKept
  <2>3. CASE OfNode(b.row) # "runnable"
    <3>1. Park(b.play, OfNode(b.row), b.row.rules) /\ sub'.pc = "work"
      BY <1>0, <1>1, <2>3 DEF SubType, Sub
    <3>2. CASE p = b.play
      <4>1. ~IsRunning(p)'
        BY <2>3, <3>1, <3>2, <1>1 DEF Park, IsRunning, LifecycleType
      <4>2. ShouldRun(p) => Told(p) \/ p \in unsure
        BY <1>1, <2>3, <3>2 DEF FreshRow, ShouldRun
      <4> QED
        BY <1>1, <1>2, <2>1, <4>1, <4>2
           DEF RunsAsStored, RunsValidRules, StoredRuns, Excused
    <3>3. CASE p # b.play
      <4>1. status'[p] = status[p] /\ loaded'[p] = loaded[p]
        BY <3>1, <3>3, <1>1 DEF Park, LifecycleType
      <4>2. Due(p) => Due(p)'
        BY <1>1, <1>3, <3>1, <3>3 DEF Due, Busy
      <4>3. Excused(p) => Excused(p)'
        BY <1>1, <1>2, <4>2 DEF Excused
      <4> QED
        BY <1>1, <1>2, <1>3, <2>0, <2>1, <4>1, <4>3
           DEF RunsAsStored, RunsValidRules, StoredRuns, IsRunning, Held
    <3> QED
      BY <3>2, <3>3
  <2> QED
    BY <2>2, <2>3
<1> QED
  BY <1>1, <1>3, <1>4, <1>7 DEF CacheParts

(* The three verdicts of validation, on a row that may be stale by now. *)
LEMMA ValidateKeeps ==
    ASSUME TypeInv, Phases, CacheParts, ValidatePass \/ ValidateFail \/ ValidateInconclusive
    PROVE  CacheParts'
<1> USE DEF TypeInv
<1> DEFINE here == sub.cur.play
<1>1. /\ here \in Plays /\ sub.cur.row \in Row /\ FreshRow(sub.cur)
      /\ sub.pc = "validate" /\ Live /\ OfNode(sub.cur.row) = "runnable"
      /\ UNCHANGED <<play, schema, pending, channel, lagged, late, proc>>
      /\ unsure \subseteq unsure'
  BY DEF ValidatePass, ValidateFail, ValidateInconclusive, SubType, Sub, CacheParts, Live,
         Phases, store
<1>3. /\ sub'.batch = sub.batch /\ sub'.keep = sub.keep /\ sub'.broken = sub.broken
      /\ sub'.pc \in {"work", "record"}
      /\ sub'.pc = "record" => sub'.cur = sub.cur
  BY DEF ValidatePass, ValidateFail, ValidateInconclusive, SubType, Sub, BackToWork
<1>2. /\ SchemaTold' <=> SchemaTold
      /\ \A p : /\ Told(p)' <=> Told(p)
                /\ Overtaken(p)' <=> Overtaken(p)
                /\ Held(p)' <=> Held(p)
                /\ ShouldRun(p)' <=> ShouldRun(p)
  BY <1>1, <1>3, SubscriberGrows
<1>4. \A x : FreshRow(x) => FreshRow(x)'
  BY <1>1, <1>2 DEF FreshRow
<1>6. ASSUME NEW p \in Plays
      PROVE  (RunsAsStored(p) /\ RunsValidRules(p) /\ StoredRuns(p) /\ ForgetsRightly(p))'
  <2>0. RunsAsStored(p) /\ RunsValidRules(p) /\ StoredRuns(p) /\ ForgetsRightly(p)
    BY <1>1 DEF CacheParts
  <2>1. ForgetsRightly(p)'
    BY <1>1, <1>2, <1>3, <2>0 DEF ForgetsRightly, Busy
  <2>2. CASE p # here
    <3>1. status'[p] = status[p] /\ loaded'[p] = loaded[p]
      BY <2>2, <1>1 DEF ValidatePass, ValidateFail, ValidateInconclusive, Reindex, Park,
                        LifecycleType
    <3>2. Due(p) => Due(p)'
      BY <1>1, <1>3, <2>2 DEF Due, Busy
    <3>3. Excused(p) => Excused(p)'
      BY <1>1, <1>2, <3>2 DEF Excused
    <3> QED
      BY <1>1, <1>2, <1>3, <2>0, <2>1, <3>1, <3>3
         DEF RunsAsStored, RunsValidRules, StoredRuns, IsRunning, Held
  <2>3. CASE p = here /\ ValidatePass
    <3>1. status'[p] = "runnable" /\ loaded'[p] = sub.cur.row.rules
      BY <2>3, <1>1 DEF ValidatePass, Reindex, LifecycleType
    <3>2. <<loaded'[p], schema'>> \in Valid
      BY <2>3, <1>1, <3>1 DEF ValidatePass
    <3>3. (ShouldRun(p) /\ sub.cur.row = play[p]) \/ Told(p) \/ p \in unsure
      BY <2>3, <1>1 DEF FreshRow, ShouldRun
    <3> QED
      BY <1>1, <1>2, <2>1, <3>1, <3>2, <3>3
         DEF RunsAsStored, RunsValidRules, StoredRuns, IsRunning, Excused
  <2>4. CASE p = here /\ ValidateFail
    <3>1. status'[p] = "suspended"
      BY <2>4, <1>1 DEF ValidateFail, Park, LifecycleType
    <3>2. sub'.pc = "record" /\ sub'.cur.play = p
      BY <2>4 DEF ValidateFail, SubType, Sub
    <3> QED
      BY <2>1, <3>1, <3>2 DEF RunsAsStored, RunsValidRules, StoredRuns, IsRunning
  <2>5. CASE p = here /\ ValidateInconclusive
    <3>1. Excused(p)'
      BY <2>5 DEF ValidateInconclusive, Excused
    <3> QED
      BY <2>1, <3>1, ExcusedFine
  <2> QED
    BY <2>2, <2>3, <2>4, <2>5
<1> QED
  BY <1>1, <1>3, <1>4, <1>6 DEF CacheParts

(* A step of the subscriber that records a suspension, publishes it or gives up
   keeps the cache in line if it tells what it changes. *)
LEMMA RecordingKeeps ==
    ASSUME TypeInv, CacheParts, sub.pc \in {"record", "publish"},
           sub'.pc \in {"publish", "work"},
           sub'.batch = sub.batch, sub'.keep = sub.keep, sub'.broken = sub.broken,
           UNCHANGED <<schema, status, loaded, proc>>,
           unsure \subseteq unsure', SchemaTold => SchemaTold',
           \A q \in Plays :
              /\ Told(q) => Told(q)' \/ q \in unsure'
              /\ Overtaken(q) => Overtaken(q)' \/ Told(q)'
              /\ play'[q] = play[q] \/ Told(q)'
              /\ sub.pc = "record" /\ sub.cur.play = q
                    => ~ShouldRun(q)' \/ Told(q)' \/ q \in unsure'
    PROVE  CacheParts'
<1> USE DEF TypeInv
<1>1. Live
  BY DEF Live
<1>2. ASSUME NEW p \in Plays
      PROVE  (RunsAsStored(p) /\ RunsValidRules(p) /\ StoredRuns(p) /\ ForgetsRightly(p))'
  <2>0. RunsAsStored(p) /\ RunsValidRules(p) /\ StoredRuns(p) /\ ForgetsRightly(p)
    BY <1>1 DEF CacheParts
  <2>1. (Held(p)' <=> Held(p)) /\ (IsRunning(p)' <=> IsRunning(p))
    BY DEF Held, IsRunning
  <2>2. Due(p) => Due(p)'
    BY DEF Due, Busy
  <2>3. Excused(p) => Excused(p)'
    BY <2>2 DEF Excused
  <2>4. Told(p)' \/ p \in unsure' => Excused(p)'
    BY DEF Excused
  <2>5. RunsAsStored(p)'
    BY <2>0, <2>1, <2>3, <2>4, ShouldRunNext DEF RunsAsStored
  <2>6. RunsValidRules(p)'
    BY <2>0, <2>1, <2>3 DEF RunsValidRules
  <2>7. StoredRuns(p)'
    BY <2>0, <2>1, <2>3, <2>4, ShouldRunNext DEF StoredRuns, Held
  <2>8. ForgetsRightly(p)'
    BY <2>0, ShouldRunNext DEF ForgetsRightly, Busy
  <2> QED
    BY <2>5, <2>6, <2>7, <2>8
<1>3. ASSUME NEW b \in sub.batch PROVE FreshRow(b)'
  <2>1. FreshRow(b) /\ b.play \in Plays
    BY <1>1 DEF CacheParts, SubType, Sub, Entry
  <2> QED
    BY <2>1 DEF FreshRow
<1> QED
  BY <1>2, <1>3 DEF CacheParts

(* The write of record_play_suspension, which its publication follows. *)
LEMMA SubRecordKeeps ==
    ASSUME TypeInv, CacheParts, SubRecord
    PROVE  CacheParts'
<1> USE DEF TypeInv
<1>1. PICK p \in Plays : p = sub.cur.play
  BY DEF SubRecord, SubType
<1>2. /\ play[p].life # "absent" /\ play' = [play EXCEPT ![p].suspended = TRUE]
      /\ UNCHANGED <<schema, pending, channel, lagged, status, loaded, proc, unsure, late>>
      /\ sub.pc = "record" /\ sub'.pc = "publish" /\ sub'.cur.play = p
      /\ sub'.batch = sub.batch /\ sub'.keep = sub.keep /\ sub'.broken = sub.broken
  BY <1>1 DEF SubRecord, RecordSuspension, SubType, Sub, lifecycle
<1>3. \A q \in Plays : play'[q].life = play[q].life
  BY <1>2 DEF StoreType, Row
<1>4. (lagged => lagged') /\ \A x : Coming(x) => Coming(x)' \/ lagged'
  BY <1>2 DEF Coming, Unpublished, InChannel
<1>5. \A q : Publishing(q) => Publishing(q)'
  BY <1>2 DEF Publishing
<1>6. (SchemaTold => SchemaTold') /\ \A q \in Plays : Told(q) => Told(q)'
  BY <1>3, <1>4, <1>5, ToldKept
<1>7. Told(p)'
  BY <1>2, <1>3 DEF Told, Publishing
<1>8. \A q \in Plays : play'[q] = play[q] \/ Told(q)'
  BY <1>2, <1>7 DEF StoreType
<1>9. \A q \in Plays : Overtaken(q)' <=> Overtaken(q)
  BY <1>2, <1>3 DEF Overtaken
<1> QED
  BY <1>1, <1>2, <1>6, <1>7, <1>8, <1>9, RecordingKeeps

(* Its publication. *)
LEMMA SubPublishKeeps ==
    ASSUME TypeInv, CacheParts, SubPublish
    PROVE  CacheParts'
<1> USE DEF TypeInv
<1>1. PICK p \in Plays : p = sub.cur.play
  BY DEF SubPublish, SubType
<1>2. /\ play[p].life # "absent" /\ Emit(PlayEvent(p)) /\ late' = late \ {p}
      /\ UNCHANGED <<play, schema, pending, status, loaded, proc, unsure>>
      /\ sub.pc = "publish" /\ sub'.pc = "work"
      /\ sub'.batch = sub.batch /\ sub'.keep = sub.keep /\ sub'.broken = sub.broken
  BY <1>1 DEF SubPublish, PublishSuspension, BackToWork, SubType, Sub, store, lifecycle
<1>3. PlayEvent(p) \in Event /\ InChannel(PlayEvent(p))'
  BY <1>2, EmitTells, Events
<1>4. (lagged => lagged') /\ \A x : Coming(x) => Coming(x)' \/ lagged'
  BY <1>2, <1>3, ComingKept DEF Unpublished
<1>5. \A q : Publishing(q) => Publishing(q)' \/ Coming(PlayEvent(q))'
  BY <1>1, <1>2, <1>3 DEF Publishing, Coming
<1>6. (SchemaTold => SchemaTold') /\ \A q \in Plays : Told(q) => Told(q)'
  BY <1>2, <1>4, <1>5, ToldKept
<1>7. \A q \in Plays : Overtaken(q) => Overtaken(q)' \/ Told(q)'
  BY <1>2, <1>3 DEF Overtaken, Told, Coming, LastNews
<1> QED
  BY <1>2, <1>6, <1>7, RecordingKeeps

(* A play that is gone needs no record; a failed one is only logged. *)
LEMMA SubRecordFailsKeeps ==
    ASSUME TypeInv, CacheParts, SubRecordFails
    PROVE  CacheParts'
<1> USE DEF TypeInv
<1>1. PICK p \in Plays : p = sub.cur.play
  BY DEF SubRecordFails, SubType
<1>2. /\ play[p].life = "absent" \/ p \in unsure'
      /\ unsure \subseteq unsure'
      /\ UNCHANGED <<play, schema, pending, channel, lagged, status, loaded, proc, late>>
      /\ sub.pc \in {"record", "publish"} /\ sub'.pc = "work"
      /\ sub'.batch = sub.batch /\ sub'.keep = sub.keep /\ sub'.broken = sub.broken
  BY <1>1 DEF SubRecordFails, GoneBeforeRecord, RecordFails, BackToWork, SubType, Sub, store,
              lifecycle
<1>3. (lagged => lagged') /\ \A x : Coming(x) => Coming(x)' \/ lagged'
  BY <1>2 DEF Coming, Unpublished, InChannel
<1>4. \A q : q # p => (Publishing(q) => Publishing(q)')
  BY <1>1, <1>2 DEF Publishing
<1>5. SchemaTold => SchemaTold'
  BY <1>3, ToldKept
<1>6. \A q \in Plays : q # p => (Told(q) => Told(q)')
  BY <1>2, <1>3, <1>4, ToldKept
<1>7. Told(p) => Told(p)' \/ p \in unsure'
  <2>1. CASE play[p].life = "absent"
    BY <1>2, <1>3, <2>1, ToldKept
  <2> QED
    BY <1>2, <2>1
<1>8. ~ShouldRun(p)' \/ p \in unsure'
  BY <1>2 DEF ShouldRun, OfNode
<1>9. \A q \in Plays : Overtaken(q)' <=> Overtaken(q)
  BY <1>2 DEF Overtaken
<1> QED
  BY <1>1, <1>2, <1>5, <1>6, <1>7, <1>8, <1>9, RecordingKeeps

(* Suspending a play that a schema change broke. *)
LEMMA SuspendBrokenKeeps ==
    ASSUME TypeInv, Phases, CacheParts, SuspendBroken
    PROVE  CacheParts'
<1> USE DEF TypeInv
<1>0. PICK here \in sub.broken : SuspendBroken!3!(here)
  BY DEF SuspendBroken
<1>1. /\ here \in Plays /\ sub.pc = "work" /\ sub.batch = {} /\ Live
      /\ UNCHANGED <<play, schema, pending, channel, lagged, unsure, late, proc>>
  BY DEF SuspendBroken, SubType, Sub, Live, store
<1>3. /\ sub'.batch = {} /\ sub'.keep = sub.keep /\ sub'.broken = sub.broken \ {here}
      /\ sub'.pc \in {"work", "record"}
  BY <1>0, <1>1 DEF SubType, Sub
<1>2. /\ SchemaTold' <=> SchemaTold
      /\ \A p : /\ Told(p)' <=> Told(p)
                /\ Overtaken(p)' <=> Overtaken(p)
                /\ Held(p)' <=> Held(p)
                /\ ShouldRun(p)' <=> ShouldRun(p)
  BY <1>1, <1>3, SubscriberGrows
<1>5. \A p : Due(p) => Due(p)'
  BY <1>1, <1>3 DEF Due, Busy
<1>6. \A p : Excused(p) => Excused(p)'
  BY <1>1, <1>2, <1>5 DEF Excused
<1>7. /\ \A p \in Plays \ {here} : status'[p] = status[p]
      /\ loaded' = loaded
      /\ ~IsRunning(here)'
      /\ IsRunning(here) => sub'.pc = "record" /\ sub'.cur.play = here
  <2>1. CASE IsRunning(here)
    <3>1. Suspend(here) /\ sub' = [sub EXCEPT !.pc = "record", !.broken = @ \ {here},
                                             !.cur.play = here]
      BY <1>0, <2>1
    <3>2. status' = [status EXCEPT ![here] = "suspended"] /\ loaded' = loaded
      BY <3>1 DEF Suspend
    <3>3. sub'.pc = "record" /\ sub'.cur.play = here
      BY <3>1 DEF SubType, Sub
    <3> QED
      BY <1>1, <3>2, <3>3 DEF LifecycleType, IsRunning
  <2>2. CASE ~IsRunning(here)
    BY <1>0, <1>1, <2>2 DEF lifecycle, IsRunning
  <2> QED
    BY <2>1, <2>2
<1>8. ASSUME NEW p \in Plays
      PROVE  (RunsAsStored(p) /\ RunsValidRules(p) /\ StoredRuns(p) /\ ForgetsRightly(p))'
  <2>0. RunsAsStored(p) /\ RunsValidRules(p) /\ StoredRuns(p) /\ ForgetsRightly(p)
    BY <1>1 DEF CacheParts
  <2>1. ForgetsRightly(p)'
    BY <1>1, <1>2, <1>3, <2>0 DEF ForgetsRightly, Busy
  <2>2. CASE p = here
    BY <1>1, <1>2, <1>6, <1>7, <2>0, <2>1, <2>2
       DEF RunsAsStored, RunsValidRules, StoredRuns, Held
  <2>3. CASE p # here
    <3>1. IsRunning(p)' <=> IsRunning(p)
      BY <1>7, <2>3 DEF IsRunning
    <3> QED
      BY <1>1, <1>2, <1>3, <1>6, <1>7, <2>0, <2>1, <2>3, <3>1
         DEF RunsAsStored, RunsValidRules, StoredRuns, Held
  <2> QED
    BY <2>2, <2>3
<1> QED
  BY <1>3, <1>8 DEF CacheParts

(* retain_plays at the end of a load forgets only plays that should not run or
   that are still to be heard of. *)
LEMMA WorkDoneKeeps ==
    ASSUME TypeInv, Phases, CacheParts, WorkDone
    PROVE  CacheParts'
<1> USE DEF TypeInv
<1>1. /\ sub.pc = "work" /\ sub.batch = {} /\ sub.broken = {} /\ Live /\ sub' = Resting
      /\ UNCHANGED <<play, schema, pending, channel, lagged, unsure, late, loaded>>
  BY DEF WorkDone, Live, store, Forget
<1>2. \A p : (Publishing(p)' <=> Publishing(p)) /\ (Held(p) => Held(p)')
  BY <1>1, Fillers DEF WorkDone, Publishing, Held
<1>3. /\ SchemaTold' <=> SchemaTold
      /\ \A p : /\ Told(p)' <=> Told(p)
                /\ Overtaken(p)' <=> Overtaken(p)
                /\ ShouldRun(p)' <=> ShouldRun(p)
  BY <1>1, <1>2, KeptGrows DEF ShouldRun
<1>4. ASSUME NEW p \in Plays
      PROVE  (RunsAsStored(p) /\ RunsValidRules(p) /\ StoredRuns(p))'
  <2>0. RunsAsStored(p) /\ RunsValidRules(p) /\ StoredRuns(p) /\ ForgetsRightly(p)
    BY <1>1 DEF CacheParts
  <2>1. CASE p \in sub.keep
    <3>1. Excused(p) => Excused(p)'
      BY <1>1, <1>3, <2>1 DEF Excused, Due, Busy
    <3>2. IsRunning(p)' <=> IsRunning(p)
      BY <2>1 DEF WorkDone, Forget, IsRunning
    <3> QED
      BY <1>1, <1>2, <1>3, <2>0, <3>1, <3>2
         DEF RunsAsStored, RunsValidRules, StoredRuns, Held
  <2>2. CASE p \notin sub.keep
    <3>1. ~IsRunning(p)'
      BY <2>2 DEF WorkDone, Forget, IsRunning
    <3>2. ~ShouldRun(p) \/ Told(p) \/ p \in unsure
      BY <1>1, <2>0, <2>2 DEF ForgetsRightly, Busy
    <3> QED
      BY <1>1, <1>3, <3>1, <3>2 DEF RunsAsStored, RunsValidRules, StoredRuns, Excused
  <2> QED
    BY <2>1, <2>2
<1> QED
  BY <1>1, <1>4, Fillers DEF CacheParts, ForgetsRightly, Busy

(* A lag leads to a load, which decides afresh on every play. *)
LEMMA ReceiveLaggedKeeps ==
    ASSUME TypeInv, Phases, CacheParts, ReceiveLagged
    PROVE  CacheParts'
<1>1. sub'.pc = "query" /\ sub'.batch = {}
  BY Fillers DEF ReceiveLagged, Sub
<1>2. \A p \in Plays : Excused(p)'
  BY <1>1 DEF Excused, Due
<1> QED
  BY <1>1, <1>2, ExcusedFine DEF CacheParts, ForgetsRightly, Busy

(* What is still to hear once an event has been taken from the channel. *)
LEMMA ReceiveLeaves ==
    ASSUME TypeInv, NEW kind, Receive(kind), UNCHANGED <<store, proc, late>>,
           sub'.pc # "publish"
    PROVE  /\ SchemaTold => SchemaTold' \/ Head(channel) = SchemaEvent
           /\ \A p : Told(p) => Told(p)' \/ Head(channel) = LastNews(p)
           /\ \A p : /\ Overtaken(p)' <=> Overtaken(p)
                     /\ Held(p)' <=> Held(p)
                     /\ ShouldRun(p)' <=> ShouldRun(p)
                     /\ LastNews(p)' = LastNews(p)
           /\ \A x : InChannel(x) => InChannel(x)' \/ x = Head(channel)
<1>1. /\ ~lagged
      /\ \A x : InChannel(x) => InChannel(x)' \/ x = Head(channel)
  BY ReceiveTells
<1>2. \A x : Coming(x) => Coming(x)' \/ x = Head(channel)
  BY <1>1 DEF Coming, Unpublished, store
<1>3. \A p : Publishing(p)' <=> Publishing(p)
  BY DEF Publishing, Receive
<1>4. \A p : LastNews(p)' = LastNews(p)
  BY DEF LastNews, store
<1>5. \A p : Told(p) => Told(p)' \/ Head(channel) = LastNews(p)
  BY <1>1, <1>2, <1>3, <1>4 DEF Told, store
<1> QED
  BY <1>1, <1>2, <1>4, <1>5 DEF SchemaTold, Overtaken, Held, ShouldRun, store

(* The events other than a deletion leave everything as it was, but for the play
   or the schema change now in hand. *)
LEMMA ReceiveOtherKeeps ==
    ASSUME TypeInv, Phases, CacheParts, ReceivePlay \/ ReceiveSchema \/ ReceiveData
    PROVE  CacheParts'
<1> USE DEF TypeInv
<1>1. PICK kind \in {"play", "schema", "data"} :
         /\ Receive(kind)
         /\ kind = "play" => sub'.pc = "fetch" /\ sub'.cur.play = Head(channel).play
         /\ kind = "schema" => sub'.pc = "schema"
         /\ kind = "data" => sub'.pc \in {"idle", "match"}
         /\ sub'.batch = {}
  <2>1. CASE ReceivePlay
    BY <2>1, Fillers DEF ReceivePlay, Sub
  <2>2. CASE ReceiveSchema
    BY <2>2, Fillers DEF ReceiveSchema, Sub
  <2>3. CASE ReceiveData
    BY <2>3, Fillers DEF ReceiveData, Sub
  <2> QED
    BY <2>1, <2>2, <2>3
<1>2. /\ sub.pc = "idle" /\ Live /\ sub.batch = {} /\ sub.broken = {}
      /\ UNCHANGED <<store, play, schema, status, loaded, proc, unsure, late>>
  BY DEF ReceivePlay, ReceiveSchema, ReceiveData, Receive, Live, Phases, Busy, store, lifecycle
<1>3. Head(channel).kind = kind
  BY <1>1, ReceiveType
<1>4. sub'.pc # "publish"
  BY <1>1
<1>5. /\ SchemaTold => SchemaTold' \/ Head(channel) = SchemaEvent
      /\ \A p : Told(p) => Told(p)' \/ Head(channel) = LastNews(p)
      /\ \A p : (Overtaken(p)' <=> Overtaken(p)) /\ (Held(p)' <=> Held(p))
  BY <1>1, <1>2, <1>4, ReceiveLeaves
<1>6. ASSUME NEW p, Told(p), ~Told(p)' PROVE Due(p)'
  <2>1. Head(channel) = LastNews(p)
    BY <1>5, <1>6
  <2>2. Head(channel) = PlayEvent(p) /\ play[p].life # "absent"
    BY <1>1, <1>3, <2>1 DEF LastNews, PlayEvent, GoneEvent
  <2> QED
    BY <1>1, <1>2, <1>3, <2>2 DEF Due, PlayEvent
<1>7. SchemaTold => SchemaTold' \/ sub'.pc = "schema"
  BY <1>1, <1>3, <1>5 DEF SchemaEvent
<1>8. ASSUME NEW p \in Plays
      PROVE  (RunsAsStored(p) /\ RunsValidRules(p) /\ StoredRuns(p))'
  <2>0. RunsAsStored(p) /\ RunsValidRules(p) /\ StoredRuns(p)
    BY <1>2 DEF CacheParts
  <2>1. ~Due(p)
    BY <1>2 DEF Due, Busy
  <2>2. Excused(p) => Excused(p)'
    BY <1>2, <1>5, <1>6, <2>1 DEF Excused
  <2> QED
    BY <1>2, <1>5, <1>7, <2>0, <2>2, ExcusesKept
<1> QED
  BY <1>1, <1>8 DEF CacheParts, ForgetsRightly, Busy

(* A deletion forgets the play. If its node is back, news of that is still to
   come, unless it overtook the deletion. *)
LEMMA ReceiveGoneKeeps ==
    ASSUME TypeInv, Phases, NewsFollows, CacheParts, ReceiveGone
    PROVE  CacheParts'
<1> USE DEF TypeInv
<1>1. Receive("gone") /\ Head(channel) \in Event /\ Head(channel).kind = "gone"
  BY ReceiveType DEF ReceiveGone
<1>2. PICK here \in Plays : Head(channel) = GoneEvent(here) /\ Head(channel).play = here
  BY <1>1 DEF Event, PlayEvent, GoneEvent, SchemaEvent, DataEvent
<1>3. /\ sub.pc = "idle" /\ Live /\ sub.batch = {} /\ sub' = sub
      /\ UNCHANGED <<store, play, schema, pending, loaded, proc, unsure, late>>
      /\ Forget({here})
  BY <1>2 DEF ReceiveGone, Receive, Live, Phases, Busy, store, Forget
<1>4. /\ SchemaTold => SchemaTold' \/ Head(channel) = SchemaEvent
      /\ \A p : Told(p) => Told(p)' \/ Head(channel) = LastNews(p)
      /\ \A p : /\ Overtaken(p)' <=> Overtaken(p)
                /\ Held(p)' <=> Held(p)
                /\ ShouldRun(p)' <=> ShouldRun(p)
                /\ LastNews(p)' = LastNews(p)
      /\ \A x : InChannel(x) => InChannel(x)' \/ x = Head(channel)
  BY <1>1, <1>3, ReceiveLeaves
<1>5. \A p \in Plays \ {here} : Told(p) => Told(p)'
  <2>1. \A p \in Plays \ {here} : GoneEvent(here) # LastNews(p)
    BY DEF LastNews, PlayEvent, GoneEvent
  <2> QED
    BY <1>2, <1>4, <2>1
<1>6. SchemaTold => SchemaTold'
  BY <1>2, <1>4 DEF GoneEvent, SchemaEvent
<1>7. ShouldRun(here) => Told(here)' \/ Overtaken(here)'
  <2> SUFFICES ASSUME ShouldRun(here), ~Overtaken(here) PROVE Told(here)'
    BY <1>4
  <2>1. play[here].life # "absent" /\ here \notin late
    BY DEF ShouldRun, OfNode, Overtaken
  <2>2. /\ channel \in Seq(Event) /\ 1 \in 1..Len(channel)
        /\ channel[1] = GoneEvent(here)
    BY <1>1, <1>2, ReceiveTells DEF ChannelType
  <2>3. \/ \E j \in 1..Len(channel) : channel[j] = PlayEvent(here)
        \/ Unpublished(PlayEvent(here))
    BY <2>1, <2>2 DEF NewsFollows
  <2>4. CASE \E j \in 1..Len(channel) : channel[j] = PlayEvent(here)
    <3>1. InChannel(PlayEvent(here))
      BY <2>2, <2>4 DEF InChannel
    <3>2. PlayEvent(here) # Head(channel)
      BY <1>2 DEF PlayEvent, GoneEvent
    <3> QED
      BY <1>3, <1>4, <2>1, <3>1, <3>2 DEF Told, Coming, LastNews
  <2>5. CASE Unpublished(PlayEvent(here))
    BY <1>3, <2>1, <2>5 DEF Told, Coming, LastNews, Unpublished
  <2> QED
    BY <2>3, <2>4, <2>5
<1>8. ASSUME NEW p \in Plays
      PROVE  (RunsAsStored(p) /\ RunsValidRules(p) /\ StoredRuns(p))'
  <2>0. RunsAsStored(p) /\ RunsValidRules(p) /\ StoredRuns(p)
    BY <1>3 DEF CacheParts
  <2>2. CASE p = here
    <3>1. ~IsRunning(p)'
      BY <1>3, <2>2 DEF Forget, IsRunning
    <3> QED
      BY <1>4, <1>7, <2>2, <3>1 DEF RunsAsStored, RunsValidRules, StoredRuns, Excused
  <2>3. CASE p # here
    <3>1. status'[p] = status[p]
      BY <1>3, <2>3 DEF Forget
    <3>2. Excused(p) => Excused(p)'
      BY <1>3, <1>4, <1>5, <2>3 DEF Excused, Due, Busy
    <3> QED
      BY <1>3, <1>4, <1>6, <2>0, <3>1, <3>2
         DEF RunsAsStored, RunsValidRules, StoredRuns, IsRunning, Held
  <2> QED
    BY <2>2, <2>3
<1> QED
  BY <1>3, <1>8 DEF CacheParts, ForgetsRightly, Busy

(* The row read for a play event is the stored one. *)
LEMMA FetchPlayKeeps ==
    ASSUME TypeInv, Phases, CacheParts, FetchPlay
    PROVE  CacheParts'
<1> USE DEF TypeInv
<1>1. PICK here \in Plays : here = sub.cur.play
  BY DEF FetchPlay, SubType
<1>2. /\ sub.pc = "fetch" /\ Live /\ sub.batch = {} /\ sub.broken = {}
      /\ UNCHANGED <<play, schema, pending, status, loaded, proc, channel, lagged, late>>
  BY DEF FetchPlay, Live, Phases, Busy, store, lifecycle
<1>3. /\ sub'.keep = Plays
      /\ sub'.batch \subseteq {[play |-> here, row |-> play[here]]}
      /\ sub'.pc \in {"idle", "work"}
      /\ play[here].life = "absent" => unsure' = unsure
      /\ play[here].life # "absent" =>
            /\ sub'.batch = {[play |-> here, row |-> play[here]]}
            /\ unsure' = unsure \ {here}
  BY <1>1, Fillers DEF FetchPlay, Sub
<1>4. /\ SchemaTold' <=> SchemaTold
      /\ \A p : /\ Told(p)' <=> Told(p)
                /\ Overtaken(p)' <=> Overtaken(p)
                /\ Held(p)' <=> Held(p)
  BY <1>2, <1>3, SubscriberGrows
<1>5. ASSUME NEW p \in Plays, p # here \/ play[p].life = "absent", Excused(p)
      PROVE  Excused(p)'
  <2>1. ~Due(p)
    BY <1>1, <1>2, <1>5 DEF Due, Busy
  <2>2. p \in unsure => p \in unsure'
    BY <1>3, <1>5
  <2> QED
    BY <1>4, <1>5, <2>1, <2>2 DEF Excused
<1>6. play[here].life # "absent" => Excused(here)'
  <2> SUFFICES ASSUME play[here].life # "absent" PROVE Excused(here)'
    OBVIOUS
  <2>1. sub'.batch = {[play |-> here, row |-> play[here]]}
    BY <1>3
  <2>2. \E b \in sub'.batch : b.play = here
    BY <2>1
  <2> QED
    BY <2>2 DEF Excused, Due
<1>7. ASSUME NEW p \in Plays PROVE RunsAsStored(p)' /\ RunsValidRules(p)' /\ StoredRuns(p)'
  <2>1. CASE p = here /\ play[here].life # "absent"
    BY <1>6, <2>1, ExcusedFine
  <2>2. CASE p # here \/ play[p].life = "absent"
    <3>1. RunsAsStored(p) /\ RunsValidRules(p) /\ StoredRuns(p)
      BY <1>2 DEF CacheParts
    <3> QED
      BY <1>2, <1>4, <1>5, <2>2, <3>1, ExcusesKept
  <2> QED
    BY <2>1, <2>2
<1>8. \A b \in sub'.batch : FreshRow(b)'
  BY <1>2, <1>3 DEF FreshRow
<1> QED
  BY <1>3, <1>7, <1>8 DEF CacheParts, ForgetsRightly

(* A failed read leaves the play as it was and excused. *)
LEMMA FetchFailsKeeps ==
    ASSUME TypeInv, Phases, CacheParts, FetchFails
    PROVE  CacheParts'
<1> USE DEF TypeInv
<1>1. /\ sub.pc = "fetch" /\ Live /\ sub.batch = {} /\ sub.broken = {}
      /\ UNCHANGED <<play, schema, pending, status, loaded, proc, channel, lagged, late>>
      /\ sub' = Resting
  BY DEF FetchFails, Live, Phases, Busy, store, lifecycle
<1>2. /\ SchemaTold' <=> SchemaTold
      /\ \A p : /\ Told(p)' <=> Told(p)
                /\ Overtaken(p)' <=> Overtaken(p)
                /\ Held(p)' <=> Held(p)
  BY <1>1, Fillers, SubscriberGrows
<1>3. ASSUME NEW p \in Plays PROVE RunsAsStored(p)' /\ RunsValidRules(p)' /\ StoredRuns(p)'
  <2>0. RunsAsStored(p) /\ RunsValidRules(p) /\ StoredRuns(p)
    BY <1>1 DEF CacheParts
  <2>1. CASE p \in unsure'
    BY <2>1, ExcusedFine DEF Excused
  <2>2. CASE p \notin unsure'
    <3>1. sub.pc = "fetch" /\ sub.cur.play # p /\ p \notin unsure
      BY <1>1, <2>2 DEF FetchFails
    <3>2. Excused(p) => Excused(p)'
      BY <1>1, <1>2, <3>1 DEF Excused, Due, Busy
    <3> QED
      BY <1>1, <1>2, <2>0, <3>1, <3>2, ExcusesKept
  <2> QED
    BY <2>1, <2>2
<1> QED
  BY <1>1, <1>3, Fillers DEF CacheParts, ForgetsRightly, Busy

(* A schema change marks every running play whose rules no longer validate,
   except those whose validation reached no verdict. *)
LEMMA FetchSchemaKeeps ==
    ASSUME TypeInv, Phases, CacheParts, FetchSchema
    PROVE  CacheParts'
<1> USE DEF TypeInv
<1>1. /\ sub.pc = "schema" /\ Live /\ sub.batch = {} /\ sub.broken = {}
      /\ UNCHANGED <<play, schema, pending, status, loaded, proc, channel, lagged, late>>
  BY DEF FetchSchema, Live, Phases, Busy, store, lifecycle
<1>2. PICK missed \in SUBSET Plays :
         /\ sub'.pc = "work" /\ sub'.batch = {} /\ sub'.keep = Plays
         /\ sub'.broken = {p \in Plays \ missed :
                              IsRunning(p) /\ <<loaded[p], schema>> \notin Valid}
         /\ unsure' = unsure \cup missed
  BY Fillers DEF FetchSchema, Sub
<1>3. /\ SchemaTold' <=> SchemaTold
      /\ \A p : /\ Told(p)' <=> Told(p)
                /\ Overtaken(p)' <=> Overtaken(p)
                /\ Held(p)' <=> Held(p)
  BY <1>1, <1>2, SubscriberGrows
<1>4. ASSUME NEW p \in Plays PROVE RunsAsStored(p)' /\ RunsValidRules(p)' /\ StoredRuns(p)'
  <2>0. RunsAsStored(p) /\ RunsValidRules(p) /\ StoredRuns(p)
    BY <1>1 DEF CacheParts
  <2>1. Excused(p) => Excused(p)'
    BY <1>1, <1>2, <1>3 DEF Excused, Due, Busy
  <2>2. IsRunning(p) => p \in sub'.broken \/ <<loaded[p], schema>> \in Valid \/ Excused(p)'
    BY <1>2 DEF Excused
  <2> QED
    BY <1>1, <1>3, <2>0, <2>1, <2>2, ExcusesKept
<1> QED
  BY <1>2, <1>4 DEF CacheParts, ForgetsRightly

(* Queueing a work item, or dropping it, does not touch the cache. *)
LEMMA MatchKeeps ==
    ASSUME TypeInv, Phases, CacheParts, Enqueue \/ DropMatch
    PROVE  CacheParts'
<1> USE DEF TypeInv
<1>1. /\ sub.pc = "match" /\ Live /\ sub.batch = {} /\ sub.broken = {} /\ sub' = Resting
      /\ UNCHANGED <<play, schema, pending, status, loaded, proc, channel, lagged, unsure,
                     late>>
  BY DEF Enqueue, DropMatch, Live, Phases, Busy, store, lifecycle
<1>2. /\ SchemaTold' <=> SchemaTold
      /\ \A p : /\ Told(p)' <=> Told(p)
                /\ Overtaken(p)' <=> Overtaken(p)
                /\ Held(p)' <=> Held(p)
  BY <1>1, Fillers, SubscriberGrows
<1>3. ASSUME NEW p \in Plays PROVE RunsAsStored(p)' /\ RunsValidRules(p)' /\ StoredRuns(p)'
  <2>0. RunsAsStored(p) /\ RunsValidRules(p) /\ StoredRuns(p)
    BY <1>1 DEF CacheParts
  <2>1. Excused(p) => Excused(p)'
    BY <1>1, <1>2 DEF Excused, Due, Busy
  <2> QED
    BY <1>1, <1>2, <2>0, <2>1, ExcusesKept
<1> QED
  BY <1>1, <1>3, Fillers DEF CacheParts, ForgetsRightly, Busy

-----------------------------------------------------------------------------
(* The control part of the invariant. *)

(* Nothing is published to an engine that is down. *)
LEMMA EmitWhileDown ==
    ASSUME NEW e, Emit(e) \/ UNCHANGED <<channel, lagged>>, sub.pc = "down", channel = <<>>
    PROVE  channel' = <<>>
BY DEF Emit

(* The other tasks leave the subscriber's control state alone. *)
LEMMA OthersKeepSub ==
    ASSUME TypeInv, Phases, Writers \/ Processor \/ CronRunner
    PROVE  sub' = sub /\ (sub.pc = "down" => channel' = <<>>)
<1>1. CASE Writers
  BY <1>1 DEF Writers, CreatePlay, SetEnabled, SaveRules, Touch, SetLife, DeletePlay,
              WriteRow, ChangeSchema, WriteData, Publish, Phases, Emit
<1>2. CASE Processor
  BY <1>2 DEF Processor, TakeItem, BreakCycle, BeginRule, RuleSkipped, RuleRan, RuleFailed,
              ProcRecord, ProcPublish, PublishSuspension, ProcRecordFails, ItemDone, EmitMaybe,
              Emit, Phases
<1>3. CASE CronRunner
  BY <1>3 DEF CronRunner, CronDue, CronEnqueue, CronStops, Phases
<1> QED
  BY <1>1, <1>2, <1>3

(* The subscriber's batch, its broken plays and the row in hand go with its
   control state. *)
LEMMA PhasesStep ==
    ASSUME TypeInv, Phases, [Next]_vars
    PROVE  Phases'
<1> USE DEF TypeInv
<1>1. CASE UNCHANGED vars
  BY <1>1 DEF vars, Phases, Busy
<1>2. CASE Writers \/ Processor \/ CronRunner
  <2>1. sub' = sub /\ (sub.pc = "down" => channel' = <<>>)
    BY <1>2, OthersKeepSub
  <2> QED
    BY <2>1 DEF Phases, Busy
<1>3. CASE Subscriber
  <2>1. CASE LoadQuery
    BY <2>1, Fillers DEF LoadQuery, Phases, Busy, Sub
  <2>2. CASE LoadFails
    BY <2>2, Fillers DEF LoadFails, Phases, Busy, Sub
  <2>3. CASE SyncPlay
    <3>1. PICK b \in sub.batch : SyncPlay!2!(b)
      BY <2>3 DEF SyncPlay
    <3>2. sub.pc = "work" /\ sub.broken = {}
      BY <2>3, <3>1 DEF SyncPlay, Phases
    <3>3. /\ sub'.pc \in {"work", "validate"} /\ sub'.broken = {}
          /\ sub'.pc = "validate" => sub'.cur = b /\ OfNode(b.row) = "runnable"
      BY <3>1, <3>2 DEF SubType, Sub
    <3> QED
      BY <3>3 DEF Phases, Busy
  <2>4. CASE ValidatePass \/ ValidateFail \/ ValidateInconclusive
    <3>1. sub'.pc \in {"work", "record"} /\ sub'.broken = {}
      BY <2>4 DEF ValidatePass, ValidateFail, ValidateInconclusive, BackToWork, SubType, Sub,
                  Phases
    <3> QED
      BY <3>1 DEF Phases, Busy
  <2>5. CASE SubRecord \/ SubPublish \/ SubRecordFails
    <3>1. /\ sub.pc \in {"record", "publish"} /\ sub'.pc \in {"publish", "work"}
          /\ sub'.batch = sub.batch /\ sub'.broken = sub.broken
      BY <2>5 DEF SubRecord, SubPublish, SubRecordFails, BackToWork, SubType, Sub
    <3> QED
      BY <3>1 DEF Phases, Busy
  <2>6. CASE SuspendBroken
    <3>1. PICK p \in sub.broken : SuspendBroken!3!(p)
      BY <2>6 DEF SuspendBroken
    <3>2. sub'.pc \in {"work", "record"} /\ sub'.batch = {}
      BY <2>6, <3>1 DEF SuspendBroken, SubType, Sub
    <3> QED
      BY <3>2 DEF Phases, Busy
  <2>7. CASE WorkDone \/ Enqueue \/ DropMatch \/ FetchFails
    BY <2>7, Fillers DEF WorkDone, Enqueue, DropMatch, FetchFails, Phases, Busy
  <2>8. CASE ReceiveLagged
    BY <2>8, Fillers DEF ReceiveLagged, Phases, Busy, Sub
  <2>9. CASE ReceivePlay
    BY <2>9, Fillers DEF ReceivePlay, Phases, Busy, Sub
  <2>10. CASE ReceiveGone
    BY <2>10 DEF ReceiveGone, Receive, Phases, Busy
  <2>11. CASE ReceiveSchema
    BY <2>11, Fillers DEF ReceiveSchema, Phases, Busy, Sub
  <2>12. CASE ReceiveData
    BY <2>12, Fillers DEF ReceiveData, Phases, Busy, Sub
  <2>13. CASE FetchPlay
    BY <2>13, Fillers DEF FetchPlay, Phases, Busy, Sub
  <2>14. CASE FetchSchema
    BY <2>14, Fillers DEF FetchSchema, Phases, Busy, Sub
  <2> QED
    BY <1>3, <2>1, <2>2, <2>3, <2>4, <2>5, <2>6, <2>7, <2>8, <2>9, <2>10, <2>11, <2>12,
       <2>13, <2>14 DEF Subscriber
<1>4. CASE Process
  <2>1. CASE Start
    BY <2>1, Fillers DEF Start, Phases, Busy, Sub
  <2>2. CASE Shutdown
    BY <2>2, Fillers DEF Shutdown, Phases, Busy, Sub
  <2>3. CASE Crash \/ Drained
    BY <2>3, Fillers DEF Crash, Drained, Stopped, Phases, Busy, Sub
  <2>4. CASE StaysDown
    BY <2>4 DEF StaysDown, vars, Phases, Busy
  <2> QED
    BY <1>4, <2>1, <2>2, <2>3, <2>4 DEF Process
<1> QED
  BY <1>1, <1>2, <1>3, <1>4 DEF Next

-----------------------------------------------------------------------------
(* The order of a play's events in the channel. *)

(* An emission keeps the re-creation of a play behind its deletion, if what it
   emits is news of the play as it now is, or other news is still to come. *)
LEMMA EmitNews ==
    ASSUME TypeInv, Phases, NewsFollows, NEW e \in Event, Emit(e),
           \A p \in Plays \ late' : play'[p].life # "absent" =>
              \/ e = PlayEvent(p)
              \/ /\ p \notin late /\ play[p].life # "absent"
                 /\ Unpublished(PlayEvent(p)) => Unpublished(PlayEvent(p))'
                 /\ e = GoneEvent(p) => Unpublished(PlayEvent(p))'
    PROVE  NewsFollows'
<1> USE DEF TypeInv, ChannelType
<1>1. CASE sub.pc = "down"
  <2>1. channel' = <<>>
    BY <1>1, EmitWhileDown DEF Phases
  <2> QED
    BY <2>1 DEF NewsFollows
<1>2. CASE sub.pc # "down"
  <2>1. PICK k \in {0, 1} :
           /\ Len(channel') = Len(channel) + 1 - k
           /\ k <= Len(channel)
           /\ channel'[Len(channel')] = e
           /\ \A i \in 1..(Len(channel) - k) : channel'[i] = channel[i + k]
    BY <1>2, EmitShift
  <2>2. channel \in Seq(Event) /\ channel' \in Seq(Event)
    BY EmitType
  <2> SUFFICES ASSUME NEW p \in Plays \ late', play'[p].life # "absent",
                      NEW i \in 1..Len(channel'), channel'[i] = GoneEvent(p)
               PROVE  \/ \E j \in i..Len(channel') : channel'[j] = PlayEvent(p)
                      \/ Unpublished(PlayEvent(p))'
    BY DEF NewsFollows
  <2>3. CASE e = PlayEvent(p)
    BY <2>1, <2>2, <2>3
  <2>4. CASE /\ p \notin late /\ play[p].life # "absent"
             /\ Unpublished(PlayEvent(p)) => Unpublished(PlayEvent(p))'
             /\ e = GoneEvent(p) => Unpublished(PlayEvent(p))'
    <3>1. CASE i = Len(channel')
      BY <2>1, <2>4, <3>1
    <3>2. CASE i # Len(channel')
      <4>1. i \in 1..(Len(channel) - k) /\ i + k \in 1..Len(channel)
        BY <2>1, <2>2, <3>2
      <4>2. channel[i + k] = GoneEvent(p)
        BY <2>1, <4>1
      <4>3. \/ \E j \in (i + k)..Len(channel) : channel[j] = PlayEvent(p)
            \/ Unpublished(PlayEvent(p))
        BY <2>4, <4>1, <4>2 DEF NewsFollows
      <4>4. ASSUME NEW j \in (i + k)..Len(channel), channel[j] = PlayEvent(p)
            PROVE  \E n \in i..Len(channel') : channel'[n] = PlayEvent(p)
        <5>1. j - k \in i..Len(channel') /\ j - k \in 1..(Len(channel) - k)
          BY <2>1, <2>2, <4>1
        <5>2. channel'[j - k] = channel[j]
          BY <2>1, <5>1
        <5> QED
          BY <4>4, <5>1, <5>2
      <4> QED
        BY <2>4, <4>3, <4>4
    <3> QED
      BY <3>1, <3>2
  <2> QED
    BY <2>3, <2>4
<1> QED
  BY <1>1, <1>2

(* So does a step that leaves the channel alone, unless it brings a play back
   untold. *)
LEMMA KeptNews ==
    ASSUME NewsFollows, UNCHANGED channel,
           \A p \in Plays \ late' : play'[p].life # "absent" =>
              \/ Unpublished(PlayEvent(p))'
              \/ /\ p \notin late /\ play[p].life # "absent"
                 /\ Unpublished(PlayEvent(p)) => Unpublished(PlayEvent(p))'
    PROVE  NewsFollows'
BY DEF NewsFollows

(* So does taking the oldest event from the channel. *)
LEMMA ReceiveNews ==
    ASSUME TypeInv, NewsFollows, NEW kind, Receive(kind), UNCHANGED <<store, late>>
    PROVE  NewsFollows'
<1> USE DEF TypeInv, ChannelType
<1>1. channel \in Seq(Event) /\ channel' \in Seq(Event)
  BY ReceiveType
<1>2. /\ Len(channel') = Len(channel) - 1
      /\ \A i \in 1..Len(channel') : channel'[i] = channel[i + 1]
  BY ReceiveTells
<1> SUFFICES ASSUME NEW p \in Plays \ late, play[p].life # "absent",
                    NEW i \in 1..Len(channel'), channel'[i] = GoneEvent(p)
             PROVE  \/ \E j \in i..Len(channel') : channel'[j] = PlayEvent(p)
                    \/ Unpublished(PlayEvent(p))
  BY DEF NewsFollows, store, Unpublished
<1>3. i + 1 \in 1..Len(channel) /\ channel[i + 1] = GoneEvent(p)
  BY <1>1, <1>2
<1>4. \/ \E j \in (i + 1)..Len(channel) : channel[j] = PlayEvent(p)
      \/ Unpublished(PlayEvent(p))
  BY <1>3 DEF NewsFollows
<1>5. ASSUME NEW j \in (i + 1)..Len(channel), channel[j] = PlayEvent(p)
      PROVE  \E n \in i..Len(channel') : channel'[n] = PlayEvent(p)
  <2>1. j - 1 \in i..Len(channel') /\ j - 1 \in 1..Len(channel') /\ (j - 1) + 1 = j
    BY <1>1, <1>2
  <2>2. channel'[j - 1] = channel[j]
    BY <1>2, <2>1
  <2> QED
    BY <1>5, <2>1, <2>2
<1> QED
  BY <1>4, <1>5

(* So does a user's write of a play node. *)
LEMMA WriteRowNews ==
    ASSUME TypeInv, NewsFollows, NEW p \in Plays, NEW row, NEW clears,
           NEW e, row.life # "absent" => e = PlayEvent(p),
           WriteRow(p, row, e, clears)
    PROVE  NewsFollows'
<1>1. /\ play'[p] = row /\ \A q \in Plays \ {p} : play'[q] = play[q]
      /\ UNCHANGED <<channel, late>>
  BY DEF WriteRow, TypeInv, StoreType
<1>2. \A x : Unpublished(x) => Unpublished(x)'
  BY DEF WriteRow, Edit, Unpublished
<1>3. Unpublished(e)'
  <2>1. [event |-> e, no |-> spent.edits + 1] \in pending'
    BY DEF WriteRow, Edit
  <2> QED
    BY <2>1 DEF Unpublished
<1> QED
  BY <1>1, <1>2, <1>3, KeptNews

(* So does publishing a write: a deletion that comes after its re-creation is
   noted as late. *)
LEMMA PublishNews ==
    ASSUME TypeInv, Phases, NewsFollows, Publish
    PROVE  NewsFollows'
<1> USE DEF TypeInv
<1>1. PICK w \in pending : Publish!(w)
  BY DEF Publish
<1>2. w.event \in Event /\ Emit(w.event) /\ play' = play
  BY <1>1 DEF StoreType, Write
<1>3. CASE sub.pc = "down"
  <2>1. channel' = <<>>
    BY <1>2, <1>3, EmitWhileDown DEF Phases
  <2> QED
    BY <2>1 DEF NewsFollows
<1>4. CASE sub.pc # "down"
  <2>1. ASSUME NEW p \in Plays \ late', play[p].life # "absent", w.event # PlayEvent(p)
        PROVE  /\ p \notin late
               /\ Unpublished(PlayEvent(p)) => Unpublished(PlayEvent(p))'
               /\ w.event = GoneEvent(p) => Unpublished(PlayEvent(p))'
    <3>1. p \notin late /\ (w.event = GoneEvent(p) => Unpublished(PlayEvent(p)))
      BY <1>1, <1>4, <2>1
    <3>2. Unpublished(PlayEvent(p)) => Unpublished(PlayEvent(p))'
      BY <1>1, <2>1 DEF Unpublished
    <3> QED
      BY <3>1, <3>2
  <2> QED
    BY <1>2, <2>1, EmitNews
<1> QED
  BY <1>3, <1>4

(* So does every user's write. *)
LEMMA WritersNews == ASSUME TypeInv, Phases, NewsFollows, Writers PROVE NewsFollows'
<1>1. ASSUME NEW p \in Plays, NEW r \in RuleSets, CreatePlay(p, r) \/ SaveRules(p, r)
      PROVE  NewsFollows'
  BY <1>1, WriteRowNews DEF CreatePlay, SaveRules
<1>2. ASSUME NEW p \in Plays, NEW on \in BOOLEAN, SetEnabled(p, on) PROVE NewsFollows'
  BY <1>2, WriteRowNews DEF SetEnabled
<1>3. ASSUME NEW p \in Plays, NEW life \in {"active", "archived"}, SetLife(p, life)
      PROVE  NewsFollows'
  BY <1>3, WriteRowNews DEF SetLife
<1>4. ASSUME NEW p \in Plays, Touch(p) PROVE NewsFollows'
  BY <1>4, WriteRowNews DEF Touch
<1>5. ASSUME NEW p \in Plays, DeletePlay(p) PROVE NewsFollows'
  <2>1. NoRow.life = "absent"
    BY DEF NoRow
  <2> QED
    BY <1>5, <2>1, WriteRowNews DEF DeletePlay
<1>6. ASSUME NEW s \in Schemas, ChangeSchema(s) PROVE NewsFollows'
  <2>1. UNCHANGED <<play, channel, late>>
    BY <1>6 DEF ChangeSchema
  <2>2. \A x : Unpublished(x) => Unpublished(x)'
    BY <1>6 DEF ChangeSchema, Edit, Unpublished
  <2> QED
    BY <2>1, <2>2, KeptNews
<1>7. CASE WriteData
  <2>1. UNCHANGED <<play, channel, late>>
    BY <1>7 DEF WriteData
  <2>2. \A x : Unpublished(x) => Unpublished(x)'
    BY <1>7 DEF WriteData, Edit, Unpublished
  <2> QED
    BY <2>1, <2>2, KeptNews
<1>8. CASE Publish
  BY <1>8, PublishNews
<1> QED
  BY <1>1, <1>2, <1>3, <1>4, <1>5, <1>6, <1>7, <1>8 DEF Writers

(* So does recording a suspension, which brings no play back. *)
LEMMA RecordNews ==
    ASSUME TypeInv, NewsFollows, NEW p \in Plays, RecordSuspension(p),
           UNCHANGED <<pending, channel, late>>
    PROVE  NewsFollows'
<1>1. \A q \in Plays : play'[q].life = play[q].life
  BY DEF RecordSuspension, TypeInv, StoreType, Row
<1>2. \A x : Unpublished(x) => Unpublished(x)'
  BY DEF Unpublished
<1> QED
  BY <1>1, <1>2, KeptNews

(* So does publishing it: that is news of the play as it now is. *)
LEMMA PublishSuspensionNews ==
    ASSUME TypeInv, Phases, NewsFollows, NEW p \in Plays, PublishSuspension(p),
           UNCHANGED store
    PROVE  NewsFollows'
<1>1. PlayEvent(p) \in Event /\ Emit(PlayEvent(p)) /\ late' = late \ {p}
  BY Events DEF PublishSuspension
<1>2. \A q \in Plays : PlayEvent(p) # GoneEvent(q)
  BY DEF PlayEvent, GoneEvent
<1>3. \A x : Unpublished(x) => Unpublished(x)'
  BY DEF store, Unpublished
<1> QED
  BY <1>1, <1>2, <1>3, EmitNews DEF store

(* So do the writes of a rule. *)
LEMMA RuleEmitNews ==
    ASSUME TypeInv, Phases, NewsFollows, proc.pc = "eval", UNCHANGED <<store, late>>,
           EmitMaybe(DataEvent(proc.depth + 1))
    PROVE  NewsFollows'
<1>1. PICK d \in 0..MaxChainDepth : d = proc.depth + 1
  BY PlayEngineAssumption DEF TypeInv, ProcType, Proc, Exceeds
<1>2. \A p \in Plays : DataEvent(d) # GoneEvent(p)
  BY DEF DataEvent, GoneEvent
<1>3. \A x : Unpublished(x) => Unpublished(x)'
  BY DEF store, Unpublished
<1>4. CASE Emit(DataEvent(d))
  <2>1. DataEvent(d) \in Event
    BY Events
  <2> QED
    BY <1>2, <1>3, <1>4, <2>1, EmitNews DEF store
<1>5. CASE UNCHANGED <<channel, lagged>>
  BY <1>3, <1>5, KeptNews DEF store
<1> QED
  BY <1>1, <1>4, <1>5 DEF EmitMaybe

(* So does a load, which sets the lateness of a deletion aside once it is out of
   the channel. *)
LEMMA LoadQueryNews == ASSUME NewsFollows, LoadQuery, TypeInv PROVE NewsFollows'
<1>1. /\ UNCHANGED <<play, pending, channel>>
      /\ late' = {p \in late : InChannel(GoneEvent(p))}
  BY DEF LoadQuery, store
<1>2. channel \in Seq(Event)
  BY DEF TypeInv, ChannelType
<1> QED
  BY <1>1, <1>2 DEF NewsFollows, InChannel, Unpublished

(* In the channel, a deletion is followed by news of the re-creation. *)
LEMMA NewsFollowsStep ==
    ASSUME TypeInv, Phases, NewsFollows, [Next]_vars
    PROVE  NewsFollows'
<1> USE DEF store
<1>1. CASE UNCHANGED <<play, pending, channel, late>>
  <2>1. \A x : Unpublished(x) => Unpublished(x)'
    BY <1>1 DEF Unpublished
  <2> QED
    BY <1>1, <2>1, KeptNews
<1>2. CASE Writers
  BY <1>2, WritersNews
<1>3. CASE SubRecord \/ ProcRecord
  <2>1. PICK p \in Plays : RecordSuspension(p)
    BY <1>3 DEF SubRecord, ProcRecord, TypeInv, SubType, ProcType
  <2> QED
    BY <1>3, <2>1, RecordNews DEF SubRecord, ProcRecord
<1>4. CASE SubPublish \/ ProcPublish
  <2>1. PICK p \in Plays : PublishSuspension(p)
    BY <1>4 DEF SubPublish, ProcPublish, TypeInv, SubType, ProcType
  <2> QED
    BY <1>4, <2>1, PublishSuspensionNews DEF SubPublish, ProcPublish
<1>5. CASE ReceivePlay \/ ReceiveGone \/ ReceiveSchema \/ ReceiveData
  <2>1. UNCHANGED <<store, late>> /\ \E kind : Receive(kind)
    BY <1>5 DEF ReceivePlay, ReceiveGone, ReceiveSchema, ReceiveData
  <2> QED
    BY <2>1, ReceiveNews
<1>6. CASE RuleRan \/ RuleFailed
  BY <1>6, RuleEmitNews DEF RuleRan, RuleFailed
<1>7. CASE channel' = <<>>
  BY <1>7 DEF NewsFollows
<1>8. CASE Subscriber
  BY <1>8, <1>1, <1>3, <1>4, <1>5, <1>7, LoadQueryNews
     DEF Subscriber, LoadFails, SyncPlay, ValidatePass, ValidateFail, ValidateInconclusive,
         SubRecordFails, SuspendBroken, WorkDone, ReceiveLagged, FetchPlay, FetchFails,
         FetchSchema, Enqueue, DropMatch
<1>9. CASE Processor
  BY <1>9, <1>1, <1>3, <1>4, <1>6
     DEF Processor, TakeItem, BreakCycle, BeginRule, RuleSkipped, ProcRecordFails, ItemDone
<1>10. CASE CronRunner
  BY <1>10, <1>1 DEF CronRunner, CronDue, CronEnqueue, CronStops
<1>11. CASE Process
  BY <1>11, <1>1, <1>7 DEF Process, Start, Shutdown, Crash, Drained, Stopped, StaysDown, vars
<1> QED
  BY <1>1, <1>2, <1>8, <1>9, <1>10, <1>11 DEF Next, vars

-----------------------------------------------------------------------------
(* The theorems. *)

(* Every step of the subscriber keeps the cache in line with the nodes. *)
LEMMA SubscriberKeeps ==
    ASSUME TypeInv, Phases, NewsFollows, CacheParts, Subscriber
    PROVE  CacheParts'
BY LoadQueryKeeps, LoadFailsKeeps, SyncPlayKeeps, ValidateKeeps, SubRecordKeeps,
   SubPublishKeeps, SubRecordFailsKeeps, SuspendBrokenKeeps, WorkDoneKeeps, ReceiveLaggedKeeps, ReceiveOtherKeeps,
   ReceiveGoneKeeps, FetchPlayKeeps, FetchFailsKeeps, FetchSchemaKeeps, MatchKeeps
   DEF Subscriber

(* Every step does. *)
LEMMA CachePartsStep ==
    ASSUME TypeInv, Phases, NewsFollows, CacheParts, [Next]_vars
    PROVE  CacheParts'
<1>1. CASE UNCHANGED vars
  BY <1>1 DEF vars, CacheParts, Live, RunsAsStored, RunsValidRules, StoredRuns,
              ForgetsRightly, FreshRow, Excused, Told, SchemaTold, Coming, InChannel,
              Unpublished, Publishing, Overtaken, LastNews, Due, Busy, ShouldRun, IsRunning
<1>2. CASE Live /\ (Writers \/ Processor \/ CronRunner)
  BY <1>2, WritersOutside, ProcessorOutside, CronRunnerOutside, OutsideKeeps
<1>3. CASE ~Live /\ (Writers \/ Processor \/ CronRunner)
  BY <1>3, OthersKeepSub DEF CacheParts, Live
<1>4. CASE Subscriber
  BY <1>4, SubscriberKeeps
<1>5. CASE Process
  <2>1. CASE Start
    <3>1. sub'.pc = "query" /\ sub'.batch = {}
      BY <2>1, Fillers DEF Start, Sub
    <3>2. \A p \in Plays : Excused(p)'
      BY <3>1 DEF Excused, Due
    <3> QED
      BY <3>1, <3>2, ExcusedFine DEF CacheParts, ForgetsRightly, Busy
  <2>2. CASE Shutdown \/ Crash \/ Drained
    BY <2>2, Fillers DEF Shutdown, Crash, Drained, Stopped, CacheParts, Live, Sub
  <2>3. CASE StaysDown
    BY <2>3, <1>1 DEF StaysDown
  <2> QED
    BY <1>5, <2>1, <2>2, <2>3 DEF Process
<1> QED
  BY <1>1, <1>2, <1>3, <1>4, <1>5 DEF Next

(* The cache invariant is inductive with the type invariant. *)
LEMMA CacheInvStep == TypeInv /\ CacheInv /\ [Next]_vars => CacheInv'
BY PhasesStep, NewsFollowsStep, CachePartsStep DEF CacheInv, CacheParts

(* It holds before the engine is started. *)
LEMMA CacheInvInit == Init => CacheInv
<1> SUFFICES ASSUME Init PROVE CacheInv
  OBVIOUS
<1>1. sub.pc = "down" /\ sub.batch = {} /\ sub.broken = {} /\ channel = <<>>
  BY Fillers DEF Init, Sub
<1> QED
  BY <1>1 DEF CacheInv, Phases, NewsFollows, Live, Busy

(* Both always hold. *)
LEMMA CacheAlways == Spec => [](TypeInv /\ CacheInv)
BY TypeInit, TypeStep, CacheInvInit, CacheInvStep, PTL DEF Spec

(* The only step that begins a rule, and for a play that runs. *)
LEMMA BeginsByRule ==
    ASSUME TypeInv, Next, NEW p \in Plays, Begins(p)
    PROVE  BeginRule
<1> USE DEF TypeInv, ProcType, Proc
<1>1. proc.pc = "rules" /\ proc'.pc = "eval"
  BY DEF Begins
<1>2. ~Writers
  BY <1>1 DEF Writers, CreatePlay, SetEnabled, SaveRules, Touch, SetLife, DeletePlay,
              WriteRow, ChangeSchema, WriteData, Publish
<1>3. ~Subscriber
  BY <1>1 DEF Subscriber, LoadQuery, LoadFails, SyncPlay, ValidatePass, ValidateFail,
              ValidateInconclusive, SubRecord, SubPublish, SubRecordFails, SuspendBroken,
              WorkDone, ReceiveLagged,
              ReceivePlay, ReceiveGone, ReceiveSchema, ReceiveData, FetchPlay, FetchFails,
              FetchSchema, Enqueue, DropMatch
<1>4. ~CronRunner /\ ~Process
  BY <1>1, Fillers DEF CronRunner, CronDue, CronEnqueue, CronStops, Process, Start, Shutdown,
              Crash, Drained, Stopped, StaysDown, vars
<1>5. ~(TakeItem \/ BreakCycle \/ RuleSkipped \/ RuleRan \/ RuleFailed \/ ProcRecord
        \/ ProcPublish \/ ProcRecordFails \/ ItemDone)
  BY <1>1 DEF TakeItem, BreakCycle, RuleSkipped, RuleRan, RuleFailed, ProcRecord, ProcPublish,
              ProcRecordFails, ItemDone, Waiting
<1> QED
  BY <1>2, <1>3, <1>4, <1>5 DEF Next, Processor

(* The running check at the top of the loop lets only rules of running plays
   begin. *)
LEMMA BeginsRunning ==
    ASSUME TypeInv, BeginRule, NEW p \in Plays, Begins(p)
    PROVE  IsRunning(p)
<1> USE DEF TypeInv, ProcType
<1>1. PICK ref \in proc.todo :
         LET hand == [proc EXCEPT !.todo = @ \ {ref}, !.play = ref.play]
         IN proc' = IF IsRunning(ref.play) THEN [hand EXCEPT !.pc = "eval"]
                    ELSE Dropped(hand)
  BY DEF BeginRule
<1>2. ref.play \in Plays
  BY DEF Proc, Ref
<1>3. [proc EXCEPT !.todo = @ \ {ref}, !.play = ref.play] \in Proc
  BY <1>2 DEF Proc
<1>4. IsRunning(ref.play)
  BY <1>1, <1>3, DroppedType DEF Begins
<1>5. proc'.play = ref.play
  BY <1>1, <1>4 DEF Proc
<1> QED
  BY <1>4, <1>5 DEF Begins

(* The invariant that ties the engine's run state to the play nodes, for any
   number of plays, any rules and schemas and any channel capacity. *)
THEOREM CacheInvariant == Spec => []CacheInv
BY CacheAlways, PTL

(* Once the subscriber has caught up, every play runs exactly when its node says
   so, in the node's rules, and those rules validate. *)
THEOREM EngineSettles == Spec => []SettledAgreement
<1>1. TypeInv /\ CacheInv => SettledAgreement
  <2> SUFFICES ASSUME TypeInv, CacheInv, CaughtUp, NEW p \in Plays
               PROVE  Agrees(p) \/ Recording(p) \/ p \in unsure \/ Overtaken(p)
    BY DEF SettledAgreement
  <2>1. Live /\ ~Busy /\ sub.batch = {} /\ sub.broken = {}
    BY DEF CaughtUp, Live, Busy, CacheInv, Phases
  <2>2. ~SchemaTold /\ (Told(p) => Recording(p))
    BY DEF CaughtUp, Told, SchemaTold, Coming, InChannel, Unpublished, Publishing, Recording
  <2>3. ~Due(p)
    BY <2>1 DEF Due, CaughtUp
  <2>4. RunsAsStored(p) /\ RunsValidRules(p) /\ StoredRuns(p)
    BY <2>1 DEF CacheInv
  <2> QED
    BY <2>1, <2>2, <2>3, <2>4
       DEF RunsAsStored, RunsValidRules, StoredRuns, Excused, Agrees, CaughtUp, Recording
<1> QED
  BY <1>1, CacheAlways, PTL

(* No rule starts for a play whose node no longer lets it run, once the engine
   has caught up with the node. *)
THEOREM OnlyLivePlays == Spec => OnlyLivePlaysRun
<1> DEFINE Step == \A p \in Plays : Begins(p) /\ CaughtUp
                              => ShouldRun(p) \/ p \in unsure \/ Overtaken(p)
<1>1. TypeInv /\ CacheInv /\ [Next]_vars => [Step]_vars
  <2> SUFFICES ASSUME TypeInv, CacheInv, Next, NEW p \in Plays, Begins(p), CaughtUp
               PROVE  ShouldRun(p) \/ p \in unsure \/ Overtaken(p)
    BY DEF Begins
  <2>1. BeginRule
    BY BeginsByRule
  <2>2. IsRunning(p)
    BY <2>1, BeginsRunning
  <2>3. Live /\ ~Busy /\ sub.batch = {}
    BY DEF CaughtUp, Live, Busy, CacheInv, Phases
  <2>4. ~Told(p) /\ ~Due(p)
    BY <2>3 DEF CaughtUp, Told, Coming, InChannel, Unpublished, Publishing, Due, Begins
  <2>5. RunsAsStored(p)
    BY <2>3 DEF CacheInv
  <2> QED
    BY <2>2, <2>4, <2>5 DEF RunsAsStored, Excused
<1> QED
  BY <1>1, CacheAlways, PTL DEF Spec, OnlyLivePlaysRun

=============================================================================
