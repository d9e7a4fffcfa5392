--------------------------- MODULE ChatTurnsProofs ---------------------------
(***************************************************************************)
(* Proofs about ChatTurns, for every set of clients and tasks and every    *)
(* bound: types and the turn tables, the titles a user gave, deletes that  *)
(* were shown first, and that a message is answered once.                  *)
(***************************************************************************)
EXTENDS ChatTurns, SequenceTheorems, TLAPS

Places == {"none", "fetch", "claim", "quiet", "title", "put"} \cup Claimed

Holds == [ver : Nat, kids : Nat]

TaskType == [pc : Places, gen : 0 .. MaxOpens, to : Nat, question : Nat, hold : Holds,
             cut : BOOLEAN, fresh : BOOLEAN]

Messages == [by : {"user", "assistant"}, says : {"ask", "yes", "no", "reply"},
             to : Nat, hold : Holds, held : BOOLEAN]

(* The types of all variables. *)
Types ==
    /\ status \in {"idle", "processing"} /\ title \in {"none", "user", "generated"}
    /\ msgs \in Seq(Messages)
    /\ target \in [there : BOOLEAN, ver : Nat, kids : Nat]
    /\ client \in [Clients -> {"idle", "typed", "stored"}]
    /\ open \in [gen : 0 .. MaxOpens, up : BOOLEAN]
    /\ open.up => open.gen # 0
    /\ shut \subseteq Opens
    /\ watch \in [Opens -> {"off", "scan", "look", "reset", "claim", "listen"}]
    /\ news \in [Opens -> BOOLEAN]
    /\ claim \in [Opens -> Tasks \cup {None}]
    /\ task \in [Tasks -> TaskType]
    /\ mishaps \in 0 .. MaxMishaps

(* The service starts with every record of its type: no store, no task, no message. *)
LEMMA TypesInit == Init => Types
  <1>1. NoTask \in TaskType
    BY BoundsAssumption DEF NoTask, NoHold, TaskType, Places, Holds
  <1>2. 0 \in 0 .. MaxOpens /\ 0 \in 0 .. MaxMishaps
    BY BoundsAssumption
  <1>. SUFFICES ASSUME Init PROVE Types
    OBVIOUS
  <1>3. msgs \in Seq(Messages) BY DEF Init
  <1>4. target \in [there : BOOLEAN, ver : Nat, kids : Nat] BY DEF Init
  <1>5. open \in [gen : 0 .. MaxOpens, up : BOOLEAN] /\ ~open.up BY <1>2 DEF Init
  <1>6. client \in [Clients -> {"idle", "typed", "stored"}] BY DEF Init
  <1>7.  claim \in [Opens -> Tasks \cup {None}] /\ task \in [Tasks -> TaskType] BY <1>1 DEF Init
  <1>8. QED BY <1>2, <1>3, <1>4, <1>5, <1>6, <1>7 DEF Init, Types

(* What a step that changes the state does, by action. *)
LEMMA Steps ==
    ASSUME Next
    PROVE  \/ \E t \in Tasks : Fetch(t)
           \/ \E t \in Tasks : Claim(t)
           \/ \E t \in Tasks : Load(t)
           \/ \E t \in Tasks : Check(t)
           \/ \E t \in Tasks : DeleteTarget(t)
           \/ \E t \in Tasks : Clear(t)
           \/ \E t \in Tasks : HoldDelete(t)
           \/ \E t \in Tasks : EndInference(t)
           \/ \E t \in Tasks : Reply(t) \/ Notice(t) \/ Apology(t)
           \/ \E t \in Tasks : Status(t) \/ Settle(t)
           \/ \E t \in Tasks : End(t)
           \/ \E t \in Tasks : GenerateTitle(t)
           \/ \E t \in Tasks : ReadTitle(t)
           \/ \E t \in Tasks : PutTitle(t)
           \/ \E g \in Opens : ScanQuery(g) \/ ScanLook(g)
           \/ \E g \in Opens : ScanReset(g)
           \/ \E g \in Opens, t \in Tasks : ScanClaim(g, t)
           \/ \E g \in Opens, t \in Tasks : Deliver(g, t)
           \/ \E g \in Opens : Lagged(g)
           \/ \E c \in Clients : Type(c)
           \/ \E c \in Clients : StoreMessage(c)
           \/ \E c \in Clients : AskTurn(c)
           \/ Cancel
           \/ Rename
           \/ ChangeTarget
           \/ Open
           \/ Close
           \/ Crash
  BY DEF Next, TurnStep, TitleStep, Watcher, Others

(* The updates of the task table keep its type. *)
LEMMA TaskTypes ==
    ASSUME Types, NEW t \in Tasks
    PROVE  /\ task \in [Tasks -> TaskType]
           /\ NoTask \in TaskType
           /\ \A pc \in Places : Goes(t, pc) \in [Tasks -> TaskType]
           /\ Cut(t) \in [Tasks -> TaskType]
  <1>1. task \in [Tasks -> TaskType]
    BY DEF Types
  <1>2. NoTask \in TaskType
    BY BoundsAssumption DEF NoTask, NoHold, TaskType, Places, Holds
  <1>3. ASSUME NEW pc \in Places PROVE Goes(t, pc) \in [Tasks -> TaskType]
    BY <1>1 DEF Goes, TaskType
  <1>4. Cut(t) \in [Tasks -> TaskType]
    <2>. DEFINE cut == task[t].pc \in {"load", "lapse", "infer"}
    <2>1. cut \in BOOLEAN
      OBVIOUS
    <2>. HIDE DEF cut
    <2>2. [task EXCEPT ![t].cut = cut] \in [Tasks -> TaskType]
      BY <1>1, <2>1 DEF TaskType
    <2>3. QED BY <2>2 DEF Cut, cut
  <1>5. QED BY <1>1, <1>2, <1>3, <1>4

(* A write of the chat keeps the types of what it changes. *)
LEMMA WroteTypes ==
    ASSUME Types, NEW g, NEW tasks \in [Tasks -> TaskType], Wrote(g, tasks)
    PROVE  news' \in [Opens -> BOOLEAN] /\ task' \in [Tasks -> TaskType]
  <1>1. news \in [Opens -> BOOLEAN]
    BY DEF Types
  <1>2. \A t \in Tasks : [tasks[t] EXCEPT !.fresh = FALSE] \in TaskType
    BY DEF TaskType
  <1>3. QED BY <1>1, <1>2 DEF Wrote

(* What a reply is made of. *)
LEMMA MessageTypes ==
    ASSUME Types
    PROVE  /\ NoHold \in Holds
           /\ Preview \in Holds
           /\ \A says \in {"ask", "yes", "no"} : FromUser(says) \in Messages
           /\ \A k \in TaskType : FromTurn(k) \in Messages /\ Excuse(k) \in Messages
  <1>1. NoHold \in Holds
    BY DEF NoHold, Holds
  <1>2. Preview \in Holds
    BY DEF Types, Preview, Holds
  <1>3. target.there \in BOOLEAN
    BY DEF Types
  <1>4. \A says \in {"ask", "yes", "no"} : FromUser(says) \in Messages
    BY <1>1 DEF FromUser, Messages
  <1>5. ASSUME NEW k \in TaskType PROVE FromTurn(k) \in Messages /\ Excuse(k) \in Messages
    <2>1. k.to \in Nat /\ k.hold \in Holds
      BY DEF TaskType
    <2>2. QED BY <1>1, <1>3, <2>1 DEF FromTurn, Excuse, Messages
  <1>6. QED BY <1>1, <1>2, <1>4, <1>5

(* Clearing what a message holds changes nothing else. *)
LEMMA HeldCleared ==
    ASSUME msgs \in Seq(Messages), NEW i \in Nat
    PROVE  LET cleared == [msgs EXCEPT ![i].held = FALSE] IN
           /\ cleared \in Seq(Messages)
           /\ Len(cleared) = Len(msgs)
           /\ \A j \in 1 .. Len(msgs) :
                 /\ \A f \in {"by", "says", "to", "hold"} : cleared[j][f] = msgs[j][f]
                 /\ cleared[j].held => msgs[j].held
  <1>. DEFINE m == [msgs[i] EXCEPT !.held = FALSE]
  <1>1. CASE i \in 1 .. Len(msgs)
    <2>1. msgs[i] \in Messages
      BY <1>1
    <2>2. m \in Messages /\ ~m.held /\ \A f \in {"by", "says", "to", "hold"} : m[f] = msgs[i][f]
      BY <2>1 DEF Messages
    <2>. HIDE DEF m
    <2>3. /\ [msgs EXCEPT ![i] = m] \in Seq(Messages)
          /\ Len([msgs EXCEPT ![i] = m]) = Len(msgs)
          /\ \A j \in 1 .. Len(msgs) :
                [msgs EXCEPT ![i] = m][j] = IF j = i THEN m ELSE msgs[j]
      BY <1>1, <2>2, ExceptSeq
    <2>4. [msgs EXCEPT ![i].held = FALSE] = [msgs EXCEPT ![i] = m]
      BY DEF m
    <2>5. QED BY <2>2, <2>3, <2>4
  <1>2. CASE i \notin 1 .. Len(msgs)
    <2>1. [msgs EXCEPT ![i].held = FALSE] = msgs
      BY <1>2
    <2>2. QED BY <2>1
  <1>3. QED BY <1>1, <1>2

(* Every step keeps the records of the sets, the tasks, the messages and the tables
   typed. *)
LEMMA TypesStep == Types /\ [Next]_vars => Types'
  <1>1. SUFFICES ASSUME Types, Next PROVE Types'
    BY DEF Types, vars, chatVars, serviceVars
  <1>2. mishaps \in 0 .. MaxMishaps /\ (Mishap \/ NoMishap => mishaps' \in 0 .. MaxMishaps)
    BY <1>1, BoundsAssumption DEF Types, Mishap, NoMishap
  <1>3. ASSUME NEW t \in Tasks, Fetch(t) PROVE Types'
    <2>1. task' \in [Tasks -> TaskType]
      BY <1>1, <1>3, TaskTypes DEF Fetch, Places, Claimed
    <2>2. QED BY <1>1, <1>2, <1>3, <2>1 DEF Types, Fetch, Stays, chatVars, serviceVars
  <1>4. ASSUME NEW t \in Tasks, Claim(t) PROVE Types'
    <2>1. task' \in [Tasks -> TaskType]
      BY <1>1, <1>4, TaskTypes DEF Claim, Places, Claimed
    <2>2. claim' \in [Opens -> Tasks \cup {None}]
      BY <1>1, <1>4 DEF Types, Claim
    <2>3. QED BY <1>1, <1>2, <1>4, <2>1, <2>2 DEF Types, Claim, KeepChat, KeepWatch, chatVars
  <1>5. ASSUME NEW t \in Tasks, Load(t) PROVE Types'
    <2>1. task' \in [Tasks -> TaskType]
      <3>1. CASE task' = Goes(t, Unanswerable)
        BY <1>1, <3>1, TaskTypes DEF Unanswerable, Places, Claimed
      <3>2. CASE /\ LastIsUser
                 /\ task' = [task EXCEPT ![t].pc = Answer,
                                  ![t].to = Len(msgs),
                                  ![t].question = IF Held THEN Len(msgs) - 1 ELSE 0,
                                  ![t].hold = IF Held THEN msgs[Len(msgs) - 1].hold ELSE NoHold]
        <4>. DEFINE question == IF Held THEN Len(msgs) - 1 ELSE 0
                    hold == IF Held THEN msgs[Len(msgs) - 1].hold ELSE NoHold
                    pc == Answer
        <4>1. Len(msgs) \in Nat /\ question \in Nat
          BY <1>1 DEF Types, Held
        <4>2. ASSUME Held PROVE msgs[Len(msgs) - 1].hold \in Holds
          <5>1. Len(msgs) - 1 \in 1 .. Len(msgs)
            BY <1>1, <4>2 DEF Types, Held
          <5>2. msgs[Len(msgs) - 1] \in Messages
            BY <1>1, <5>1 DEF Types
          <5>3. QED BY <5>2 DEF Messages
        <4>3. hold \in Holds
          BY <1>1, <4>2, MessageTypes
        <4>4. pc \in Places
          BY DEF Answer, Places, Claimed
        <4>5. task \in [Tasks -> TaskType]
          BY <1>1 DEF Types
        <4>. HIDE DEF question, hold, pc
        <4>6. [task EXCEPT ![t].pc = pc, ![t].to = Len(msgs),
                           ![t].question = question, ![t].hold = hold] \in [Tasks -> TaskType]
          <5>1. [task[t] EXCEPT !.pc = pc, !.to = Len(msgs),
                               !.question = question, !.hold = hold] \in TaskType
            BY <4>1, <4>3, <4>4, <4>5 DEF TaskType
          <5>2. QED BY <4>5, <5>1
        <4>7. QED BY <3>2, <4>6 DEF question, hold, pc
      <3>3. QED BY <1>5, <3>1, <3>2 DEF Load, Moves
    <2>2. QED BY <1>1, <1>2, <1>5, <2>1 DEF Types, Load, Moves, Stays, chatVars, serviceVars
  <1>6. ASSUME NEW t \in Tasks, Check(t) PROVE Types'
    <2>1. task' \in [Tasks -> TaskType]
      BY <1>1, <1>6, TaskTypes DEF Check, Moves, Places, Claimed
    <2>2. QED BY <1>1, <1>2, <1>6, <2>1 DEF Types, Check, Moves, Stays, chatVars, serviceVars
  <1>7. ASSUME NEW t \in Tasks, DeleteTarget(t) PROVE Types'
    <2>1. task' \in [Tasks -> TaskType]
      BY <1>1, <1>7, TaskTypes DEF DeleteTarget, Places, Claimed
    <2>2. target' \in [there : BOOLEAN, ver : Nat, kids : Nat]
      BY <1>1, <1>7 DEF Types, DeleteTarget
    <2>3. QED BY <1>1, <1>2, <1>7, <2>1, <2>2 DEF Types, DeleteTarget, chatVars, serviceVars
  <1>8. ASSUME NEW t \in Tasks, Clear(t) PROVE Types'
    <2>1. task' \in [Tasks -> TaskType]
      <3>1. CASE task' = Goes(t, "end")
        BY <1>1, <3>1, TaskTypes DEF Places, Claimed
      <3>2. CASE task' = [task EXCEPT ![t].pc = "infer", ![t].question = 0, ![t].hold = NoHold]
        <4>1. NoHold \in Holds /\ task \in [Tasks -> TaskType]
          BY <1>1, MessageTypes, TaskTypes
        <4>2. "infer" \in Places
          BY DEF Places, Claimed
        <4>3. QED BY <3>2, <4>1, <4>2 DEF TaskType
      <3>3. QED BY <1>8, <3>1, <3>2 DEF Clear
    <2>2. msgs' \in Seq(Messages)
      <3>1. msgs \in Seq(Messages) /\ task[t].question \in Nat
        BY <1>1 DEF Types, TaskType
      <3>2. QED BY <1>8, <3>1, HeldCleared DEF Clear
    <2>3. QED BY <1>1, <1>2, <1>8, <2>1, <2>2 DEF Types, Clear, serviceVars
  <1>9. ASSUME NEW t \in Tasks, HoldDelete(t) PROVE Types'
    <2>1. task' \in [Tasks -> TaskType]
      BY <1>1, <1>9, TaskTypes, MessageTypes DEF HoldDelete, TaskType
    <2>2. QED BY <1>1, <1>2, <1>9, <2>1 DEF Types, HoldDelete, Stays, chatVars, serviceVars
  <1>10. ASSUME NEW t \in Tasks, EndInference(t) PROVE Types'
    <2>1. PICK pc \in {"reply", "apology", "settle"} :
             task' = [task EXCEPT ![t].pc = pc, ![t].cut = FALSE,
                                  ![t].hold = IF pc = "reply" THEN @ ELSE NoHold]
      BY <1>10 DEF EndInference
    <2>2. task' \in [Tasks -> TaskType]
      <3>1. pc \in Places /\ NoHold \in Holds /\ task \in [Tasks -> TaskType]
        BY <1>1, MessageTypes, TaskTypes DEF Places, Claimed
      <3>2. QED BY <2>1, <3>1 DEF TaskType
    <2>3. Mishap \/ NoMishap
      BY <1>10 DEF EndInference
    <2>4. QED BY <1>1, <1>2, <1>10, <2>2, <2>3 DEF Types, EndInference, Stays, chatVars, serviceVars
  <1>11. ASSUME NEW t \in Tasks, Reply(t) \/ Notice(t) \/ Apology(t) PROVE Types'
    <2>1. PICK m \in Messages, failed \in Places : Stores(t, m, failed)
      <3>1. task[t] \in TaskType
        BY <1>1 DEF Types
      <3>2. QED BY <1>1, <1>11, <3>1, MessageTypes DEF Reply, Notice, Apology, Places, Claimed
    <2>2. task' \in [Tasks -> TaskType]
      <3>1. "status" \in Places /\ NoHold \in Holds /\ task \in [Tasks -> TaskType]
        BY <1>1, MessageTypes, TaskTypes DEF Places, Claimed
      <3>2. \A pc \in Places :
              [task EXCEPT ![t].pc = pc, ![t].hold = NoHold] \in [Tasks -> TaskType]
        BY <3>1 DEF TaskType
      <3>3. QED BY <2>1, <3>1, <3>2 DEF Stores
    <2>3. msgs' \in Seq(Messages)
      <3>1. msgs \in Seq(Messages) /\ Append(msgs, m) \in Seq(Messages)
        BY <1>1 DEF Types
      <3>2. QED BY <2>1, <3>1 DEF Stores
    <2>4. QED BY <1>1, <1>2, <2>1, <2>2, <2>3 DEF Types, Stores, serviceVars
  <1>12. ASSUME NEW t \in Tasks, Status(t) \/ Settle(t) PROVE Types'
    <2>1. PICK done \in Places, failed \in Places : WritesIdle(t, done, failed)
      BY <1>12 DEF Status, Settle, AfterIdle, Places, Claimed
    <2>2. Goes(t, done) \in [Tasks -> TaskType] /\ Goes(t, failed) \in [Tasks -> TaskType]
      BY <1>1, TaskTypes
    <2>3. status' \in {"idle", "processing"} /\ news' \in [Opens -> BOOLEAN]
          /\ task' \in [Tasks -> TaskType]
      BY <1>1, <2>1, <2>2, WroteTypes DEF WritesIdle, Types
    <2>4. QED BY <1>1, <1>2, <2>1, <2>3 DEF Types, WritesIdle, serviceVars
  <1>13. ASSUME NEW t \in Tasks, End(t) PROVE Types'
    <2>1. task' \in [Tasks -> TaskType]
      <3>1. [NoTask EXCEPT !.pc = "quiet", !.gen = task[t].gen] \in TaskType
        BY <1>1, TaskTypes DEF TaskType, Places
      <3>2. QED BY <1>1, <1>13, <3>1, TaskTypes DEF End
    <2>2. claim' \in [Opens -> Tasks \cup {None}]
      BY <1>1, <1>13 DEF Types, End, Released
    <2>3. QED BY <1>1, <1>2, <1>13, <2>1, <2>2 DEF Types, End, KeepChat, KeepWatch, chatVars
  <1>14. ASSUME NEW t \in Tasks, GenerateTitle(t) PROVE Types'
    <2>1. task' \in [Tasks -> TaskType]
      BY <1>1, <1>14, TaskTypes DEF GenerateTitle, Places
    <2>2. QED BY <1>1, <1>2, <1>14, <2>1 DEF Types, GenerateTitle, Stays, chatVars, serviceVars
  <1>15. ASSUME NEW t \in Tasks, ReadTitle(t) PROVE Types'
    <2>1. task' \in [Tasks -> TaskType]
      BY <1>1, <1>15, TaskTypes DEF ReadTitle, TaskType, Places
    <2>2. QED BY <1>1, <1>2, <1>15, <2>1 DEF Types, ReadTitle, Stays, chatVars, serviceVars
  <1>16. ASSUME NEW t \in Tasks, PutTitle(t) PROVE Types'
    <2>1. [task EXCEPT ![t] = NoTask] \in [Tasks -> TaskType] /\ Goes(t, "title") \in [Tasks -> TaskType]
      BY <1>1, TaskTypes DEF Places
    <2>2. news' \in [Opens -> BOOLEAN] /\ task' \in [Tasks -> TaskType]
          /\ title' \in {"none", "user", "generated"}
      BY <1>1, <1>16, <2>1, WroteTypes DEF PutTitle, Types
    <2>3. QED BY <1>1, <1>2, <1>16, <2>2 DEF Types, PutTitle, serviceVars
  <1>17. ASSUME NEW g \in Opens, ScanQuery(g) \/ ScanLook(g) PROVE Types'
    <2>1. watch' \in [Opens -> {"off", "scan", "look", "reset", "claim", "listen"}]
      BY <1>1, <1>17 DEF Types, ScanQuery, ScanLook, WatchGoes, Listens
    <2>2. UNCHANGED <<chatVars, target, client, open, shut, claim, news, task>>
      BY <1>17 DEF ScanQuery, ScanLook, KeepService
    <2>3. mishaps' \in 0 .. MaxMishaps
      BY <1>2, <1>17 DEF ScanQuery, ScanLook
    <2>4. QED BY <1>1, <2>1, <2>2, <2>3 DEF Types, chatVars
  <1>18. ASSUME NEW g \in Opens, ScanReset(g) PROVE Types'
    <2>1. watch' \in [Opens -> {"off", "scan", "look", "reset", "claim", "listen"}]
      BY <1>1, <1>18 DEF Types, ScanReset, WatchGoes, Listens
    <2>2. task \in [Tasks -> TaskType]
      BY <1>1 DEF Types
    <2>3. news' \in [Opens -> BOOLEAN] /\ task' \in [Tasks -> TaskType]
          /\ status' \in {"idle", "processing"}
      BY <1>1, <1>18, <2>2, WroteTypes DEF Types, ScanReset
    <2>4. mishaps' \in 0 .. MaxMishaps
      BY <1>2, <1>18 DEF ScanReset
    <2>5. QED BY <1>1, <1>18, <2>1, <2>3, <2>4 DEF Types, ScanReset, KeepService
  <1>19. ASSUME NEW g \in Opens, NEW t \in Tasks, ScanClaim(g, t) PROVE Types'
    <2>1. watch' \in [Opens -> {"off", "scan", "look", "reset", "claim", "listen"}]
      BY <1>1, <1>19 DEF Types, ScanClaim, WatchGoes, Listens
    <2>2. task' \in [Tasks -> TaskType]
      <3>1. g \in 0 .. MaxOpens
        BY DEF Opens
      <3>2. [NoTask EXCEPT !.pc = "load", !.gen = g] \in TaskType
        BY <1>1, <3>1, TaskTypes DEF TaskType, Places, Claimed
      <3>3. QED BY <1>1, <1>19, <3>2, TaskTypes DEF ScanClaim
    <2>3. claim' \in [Opens -> Tasks \cup {None}]
      BY <1>1, <1>19 DEF Types, ScanClaim
    <2>4. QED BY <1>1, <1>19, <2>1, <2>2, <2>3 DEF Types, ScanClaim, KeepService, chatVars
  <1>20. ASSUME NEW g \in Opens, NEW t \in Tasks, Deliver(g, t) PROVE Types'
    <2>1. task' \in [Tasks -> TaskType]
      <3>1. g \in 0 .. MaxOpens
        BY DEF Opens
      <3>2. [NoTask EXCEPT !.pc = "fetch", !.gen = g] \in TaskType
        BY <1>1, <3>1, TaskTypes DEF TaskType, Places
      <3>3. QED BY <1>1, <1>20, <3>2, TaskTypes DEF Deliver
    <2>2. news' \in [Opens -> BOOLEAN]
      BY <1>1, <1>20 DEF Types, Deliver
    <2>3. QED BY <1>1, <1>20, <2>1, <2>2 DEF Types, Deliver, chatVars, serviceVars
  <1>21. ASSUME NEW g \in Opens, Lagged(g) PROVE Types'
    <2>1. news' \in [Opens -> BOOLEAN]
      BY <1>1, <1>21 DEF Types, Lagged
    <2>2. QED BY <1>1, <1>2, <1>21, <2>1 DEF Types, Lagged, chatVars, serviceVars
  <1>22. ASSUME NEW c \in Clients, Type(c) PROVE Types'
    <2>1. client' \in [Clients -> {"idle", "typed", "stored"}]
      BY <1>1, <1>22 DEF Types, Type
    <2>2. QED BY <1>1, <1>22, <2>1 DEF Types, Type, chatVars, serviceVars
  <1>23. ASSUME NEW c \in Clients, StoreMessage(c) PROVE Types'
    <2>1. client' \in [Clients -> {"idle", "typed", "stored"}]
      BY <1>1, <1>23 DEF Types, StoreMessage
    <2>2. PICK says \in {"ask", "yes", "no"} : msgs' = Append(msgs, FromUser(says))
      BY <1>23 DEF StoreMessage
    <2>3. FromUser(says) \in Messages /\ msgs \in Seq(Messages)
      BY <1>1, MessageTypes DEF Types
    <2>4. msgs' \in Seq(Messages)
      BY <2>2, <2>3
    <2>5. QED BY <1>1, <1>23, <2>1, <2>4 DEF Types, StoreMessage, serviceVars
  <1>24. ASSUME NEW c \in Clients, AskTurn(c) PROVE Types'
    <2>1. client' \in [Clients -> {"idle", "typed", "stored"}]
      BY <1>1, <1>24 DEF Types, AskTurn
    <2>2. task \in [Tasks -> TaskType]
      BY <1>1 DEF Types
    <2>3. news' \in [Opens -> BOOLEAN] /\ task' \in [Tasks -> TaskType]
      BY <1>1, <1>24, <2>2, WroteTypes DEF AskTurn
    <2>4. QED BY <1>1, <1>24, <2>1, <2>3 DEF Types, AskTurn, serviceVars
  <1>25. CASE Cancel
    <2>1. claim[open.gen] \in Tasks
      BY <1>1, <1>25 DEF Types, Cancel, IsUp, Opens
    <2>2. task' \in [Tasks -> TaskType]
      BY <1>1, <1>25, <2>1, TaskTypes DEF Cancel
    <2>3. QED BY <1>1, <1>25, <2>2 DEF Types, Cancel, chatVars, serviceVars
  <1>26. CASE Rename
    <2>1. task \in [Tasks -> TaskType]
      BY <1>1 DEF Types
    <2>2. news' \in [Opens -> BOOLEAN] /\ task' \in [Tasks -> TaskType]
      BY <1>1, <1>26, <2>1, WroteTypes DEF Rename
    <2>3. QED BY <1>1, <1>26, <2>2 DEF Types, Rename, serviceVars
  <1>27. CASE ChangeTarget
    <2>1. target' \in [there : BOOLEAN, ver : Nat, kids : Nat]
      BY <1>1, <1>27 DEF Types, ChangeTarget
    <2>2. QED BY <1>1, <1>2, <1>27, <2>1 DEF Types, ChangeTarget, chatVars, serviceVars
  <1>28. CASE Open
    <2>1. open.gen + 1 \in 1 .. MaxOpens
      BY <1>1, <1>28, BoundsAssumption DEF Types, Open
    <2>2. open' \in [gen : 0 .. MaxOpens, up : BOOLEAN] /\ open'.gen # 0
      BY <1>28, <2>1 DEF Open
    <2>3. watch' \in [Opens -> {"off", "scan", "look", "reset", "claim", "listen"}]
      BY <1>1, <1>28 DEF Types, Open
    <2>4. QED BY <1>1, <1>28, <2>2, <2>3 DEF Types, Open, chatVars
  <1>29. CASE Close
    <2>1. open.gen \in Opens
      BY <1>1, <1>29 DEF Types, Close, IsUp, Opens
    <2>2. open' \in [gen : 0 .. MaxOpens, up : BOOLEAN] /\ ~open'.up
      BY <1>1, <1>29 DEF Types, Close
    <2>3. watch' \in [Opens -> {"off", "scan", "look", "reset", "claim", "listen"}]
      BY <1>1, <1>29 DEF Types, Close
    <2>4. news' \in [Opens -> BOOLEAN] /\ shut' \subseteq Opens
      BY <1>1, <1>29, <2>1 DEF Types, Close
    <2>5. task' \in [Tasks -> TaskType]
      BY <1>1, <1>29, <2>1, TaskTypes DEF Types, Close
    <2>6. QED BY <1>1, <1>2, <1>29, <2>2, <2>3, <2>4, <2>5 DEF Types, Close, chatVars
  <1>30. CASE Crash
    <2>1. open' \in [gen : 0 .. MaxOpens, up : BOOLEAN] /\ ~open'.up
      BY <1>1, <1>30 DEF Types, Crash
    <2>2. task' \in [Tasks -> TaskType]
      <3>1. NoTask \in TaskType
        BY BoundsAssumption DEF NoTask, NoHold, TaskType, Places, Holds
      <3>2. QED BY <1>30, <3>1 DEF Crash
    <2>3. /\ watch' \in [Opens -> {"off", "scan", "look", "reset", "claim", "listen"}]
          /\ news' \in [Opens -> BOOLEAN]
          /\ claim' \in [Opens -> Tasks \cup {None}]
      BY <1>30 DEF Crash
    <2>4. QED BY <1>1, <1>2, <1>30, <2>1, <2>2, <2>3 DEF Types, Crash, chatVars
  <1>31. QED
    BY <1>1, <1>3, <1>4, <1>5, <1>6, <1>7, <1>8, <1>9, <1>10, <1>11, <1>12, <1>13, <1>14,
       <1>15, <1>16, <1>17, <1>18, <1>19, <1>20, <1>21, <1>22, <1>23, <1>24, <1>25, <1>26,
       <1>27, <1>28, <1>29, <1>30, Steps

-----------------------------------------------------------------------------
(* What a step does to the tasks *)

(* Task u keeps all but the token of its turn and the freshness of its read. *)
Same(u) ==
    /\ task'[u].pc = task[u].pc /\ task'[u].gen = task[u].gen
    /\ task'[u].to = task[u].to /\ task'[u].question = task[u].question
    /\ task'[u].hold = task[u].hold

(* The steps of a turn between its claim and its release. *)
Inside(t) ==
    \/ Load(t) \/ Check(t) \/ DeleteTarget(t) \/ Clear(t) \/ HoldDelete(t) \/ EndInference(t)
    \/ Reply(t) \/ Notice(t) \/ Apology(t) \/ Status(t) \/ Settle(t)

(* The steps of a task that has no chat claimed, before and after. *)
Outside(t) ==
    \/ Fetch(t) \/ GenerateTitle(t) \/ ReadTitle(t) \/ PutTitle(t)
    \/ \E g \in Opens : Deliver(g, t)

(* The steps that move no task. *)
Aside ==
    \/ \E g \in Opens : ScanQuery(g) \/ ScanLook(g) \/ ScanReset(g) \/ Lagged(g)
    \/ \E c \in Clients : Type(c) \/ StoreMessage(c) \/ AskTurn(c)
    \/ Cancel \/ Rename \/ ChangeTarget \/ Open \/ Close

(* Every step is one of a turn's inside its claim or outside it, a claim, its end,
   a claim by the recovery scan, a step of no turn, or a crash. *)
LEMMA Grouped ==
    ASSUME Next
    PROVE  \/ \E t \in Tasks : Inside(t) \/ Outside(t) \/ Claim(t) \/ End(t)
           \/ \E g \in Opens, t \in Tasks : ScanClaim(g, t)
           \/ Aside
           \/ Crash
  BY DEF Next, TurnStep, TitleStep, Watcher, Others, Inside, Outside, Aside

(* A write of the chat moves no task but the writer. *)
LEMMA WroteSame ==
    ASSUME Types, NEW g, NEW t \in Tasks, NEW tasks \in [Tasks -> TaskType], Wrote(g, tasks)
    PROVE  \A u \in Tasks :
              /\ ~task'[u].fresh
              /\ tasks[u] = task[u] => Same(u)
              /\ \A f \in {"pc", "gen", "to", "question", "hold", "cut"} : task'[u][f] = tasks[u][f]
  BY DEF Wrote, TaskType, Same

(* A step taken under a claim leaves the claim, the other turns and the service
   sets alone. *)
LEMMA InsideStays ==
    ASSUME Types, NEW t \in Tasks, Inside(t)
    PROVE  /\ task[t].pc \in Claimed /\ task'[t].pc \in Claimed
           /\ task'[t].gen = task[t].gen
           /\ \A u \in Tasks \ {t} : Same(u)
           /\ UNCHANGED <<serviceVars, title, overlap>>
           /\ \A u \in Tasks : task'[u].fresh => task[u].fresh
  <1>. task \in [Tasks -> TaskType]
    BY DEF Types
  <1>. USE DEF Claimed, At, Same
  <1>1. CASE Load(t)
    <2>1. Answer \in Claimed
      BY DEF Answer
    <2>2. QED BY <1>1, <2>1 DEF Load, Moves, Stays, Goes, Unanswerable, chatVars, TaskType
  <1>2. CASE Check(t)
    BY <1>2 DEF Check, Moves, Stays, Goes, chatVars, TaskType
  <1>3. CASE DeleteTarget(t)
    BY <1>3 DEF DeleteTarget, Goes, chatVars, TaskType
  <1>4. CASE Clear(t)
    BY <1>4 DEF Clear, Goes, TaskType
  <1>5. CASE HoldDelete(t)
    BY <1>5 DEF HoldDelete, Stays, chatVars, TaskType
  <1>6. CASE EndInference(t)
    BY <1>6 DEF EndInference, Stays, chatVars, TaskType
  <1>7. CASE Reply(t) \/ Notice(t) \/ Apology(t)
    <2>1. PICK m \in {FromTurn(task[t]), Excuse(task[t])}, failed \in Claimed :
             Stores(t, m, failed)
      BY <1>7 DEF Reply, Notice, Apology
    <2>2. At(t, "reply") \/ At(t, "notice") \/ At(t, "apology")
      BY <1>7 DEF Reply, Notice, Apology
    <2>3. QED BY <2>1, <2>2 DEF Stores, TaskType
  <1>8. CASE Status(t) \/ Settle(t)
    <2>1. PICK done \in Claimed, failed \in Claimed : WritesIdle(t, done, failed)
      BY <1>8 DEF Status, Settle, AfterIdle
    <2>2. task[t].pc \in Claimed
      BY <1>8 DEF Status, Settle
    <2>3. CASE task' = Goes(t, failed)
      BY <2>1, <2>2, <2>3 DEF WritesIdle, Goes, TaskType
    <2>4. CASE Wrote(task[t].gen, Goes(t, done))
      <3>1. done \in Places
        BY DEF Places
      <3>2. Goes(t, done) \in [Tasks -> TaskType]
        BY <3>1, TaskTypes
      <3>3. Goes(t, done)[t].pc = done /\ Goes(t, done)[t].gen = task[t].gen
            /\ \A u \in Tasks \ {t} : Goes(t, done)[u] = task[u]
        BY DEF Goes, TaskType
      <3>4. QED BY <2>1, <2>2, <2>4, <3>2, <3>3, WroteSame DEF WritesIdle
    <2>5. QED BY <2>1, <2>3, <2>4 DEF WritesIdle
  <1>9. QED BY <1>1, <1>2, <1>3, <1>4, <1>5, <1>6, <1>7, <1>8 DEF Inside

(* A step taken without a claim takes none, and leaves the messages, the other turns
   and the service sets alone. *)
LEMMA OutsideStays ==
    ASSUME Types, NEW t \in Tasks, Outside(t)
    PROVE  /\ task[t].pc \notin Claimed /\ task'[t].pc \notin Claimed
           /\ task'[t].pc # "claim" \/ task[t].gen \notin shut
           /\ task'[t].pc = "none" \/ (task'[t].gen = task[t].gen /\ task[t].pc # "none")
              \/ \E g \in Opens : Deliver(g, t) /\ task'[t].gen = g /\ task'[t].pc = "fetch"
           /\ \A u \in Tasks \ {t} : Same(u)
           /\ UNCHANGED <<serviceVars, msgs, overlap>>
  <1>. task \in [Tasks -> TaskType]
    BY DEF Types
  <1>. USE DEF Claimed, At, Same, NoTask
  <1>1. CASE Fetch(t)
    BY <1>1 DEF Fetch, Stays, Goes, chatVars, TaskType
  <1>2. CASE GenerateTitle(t)
    BY <1>2 DEF GenerateTitle, Stays, Goes, chatVars, TaskType
  <1>3. CASE ReadTitle(t)
    BY <1>3 DEF ReadTitle, Stays, chatVars, TaskType
  <1>4. CASE PutTitle(t)
    <2>1. CASE Wrote(task[t].gen, [task EXCEPT ![t] = NoTask])
      <3>1. [task EXCEPT ![t] = NoTask] \in [Tasks -> TaskType]
        BY TaskTypes
      <3>2. task'[t].pc = "none" /\ \A u \in Tasks \ {t} : Same(u)
        BY <2>1, <3>1, WroteSame
      <3>3. QED BY <1>4, <3>2 DEF PutTitle
    <2>2. CASE task' = Goes(t, "title") \/ task' = [task EXCEPT ![t] = NoTask]
      BY <1>4, <2>2 DEF PutTitle, Goes, TaskType
    <2>3. QED BY <1>4, <2>1, <2>2 DEF PutTitle
  <1>5. ASSUME NEW g \in Opens, Deliver(g, t)
        PROVE  /\ task[t].pc = "none" /\ task'[t].pc = "fetch" /\ task'[t].gen = g
               /\ \A u \in Tasks \ {t} : Same(u)
               /\ UNCHANGED <<serviceVars, msgs, overlap>>
    BY <1>5 DEF Deliver, IsFree, chatVars
  <1>6. QED BY <1>1, <1>2, <1>3, <1>4, <1>5 DEF Outside

(* The steps of opens, shutdowns, users and renames leave every turn alone, but for
   its token and the freshness of its read. *)
LEMMA AsideStays ==
    ASSUME Types, Aside
    PROVE  \A u \in Tasks : Same(u)
  <1>. task \in [Tasks -> TaskType]
    BY DEF Types
  <1>1. CASE UNCHANGED task
    BY <1>1 DEF Same
  <1>2. ASSUME NEW g, Wrote(g, task) PROVE \A u \in Tasks : Same(u)
    BY <1>2, WroteSame
  <1>3. ASSUME NEW t \in Tasks, task' = Cut(t) PROVE \A u \in Tasks : Same(u)
    BY <1>3 DEF Cut, Same, TaskType
  <1>4. ASSUME NEW g \in Opens, ScanQuery(g) \/ ScanLook(g) \/ ScanReset(g) \/ Lagged(g)
        PROVE  \A u \in Tasks : Same(u)
    BY <1>1, <1>2, <1>4 DEF ScanQuery, ScanLook, ScanReset, Lagged
  <1>5. ASSUME NEW c \in Clients, Type(c) \/ StoreMessage(c) \/ AskTurn(c)
        PROVE  \A u \in Tasks : Same(u)
    BY <1>1, <1>2, <1>5 DEF Type, StoreMessage, AskTurn
  <1>6. CASE Cancel \/ Close
    <2>1. open.gen \in Opens /\ claim[open.gen] \in Tasks \cup {None}
      BY <1>6 DEF Types, Cancel, Close, IsUp, Opens
    <2>2. QED BY <1>1, <1>3, <1>6, <2>1 DEF Cancel, Close
  <1>7. CASE Rename \/ ChangeTarget \/ Open
    BY <1>1, <1>2, <1>7 DEF Rename, ChangeTarget, Open
  <1>8. QED BY <1>4, <1>5, <1>6, <1>7 DEF Aside

-----------------------------------------------------------------------------
(* The inductive invariant *)

(* A service set's turn table names a task just while that task's turn runs. *)
TurnTables ==
    \A g \in Opens, t \in Tasks : claim[g] = t <=> task[t].gen = g /\ task[t].pc \in Claimed

(* Tasks and watchers are of the service set that is up, or of one that was shut
   down: a crash leaves none. *)
Serving ==
    /\ \A t \in Tasks : task[t].pc # "none" =>
          /\ task[t].gen \in Opens
          /\ task[t].gen \in shut \/ (open.up /\ task[t].gen = open.gen)
    /\ \A g \in Opens : watch[g] # "off" => g \in shut \/ (open.up /\ g = open.gen)

(* Unless a service set was opened over a turn of the last, turns that are under
   way, or about to be, are of the latest service set. *)
OneService ==
    ~overlap => /\ \A t \in Tasks : task[t].pc \in Claimed \cup {"claim"} => task[t].gen = open.gen
                /\ \A g \in Opens : watch[g] = "claim" => g = open.gen

(* A title is written only over the absence of one that the task just read. *)
Untitled == \A t \in Tasks : task[t].fresh => title = "none"

(* Messages answer earlier ones, and tasks answer messages there are. *)
Addressed ==
    /\ \A i \in 1 .. Len(msgs) : msgs[i].to < i /\ (msgs[i].held => msgs[i].hold # NoHold)
    /\ \A t \in Tasks : task[t].to <= Len(msgs)

(* A delete about to be carried out has the yes of the message being answered, to
   the question before it, and is the delete that question showed. *)
Confirmed ==
    \A t \in Tasks : task[t].pc \in {"check", "delete"} =>
        /\ task[t].to \in 2 .. Len(msgs)
        /\ msgs[task[t].to].says = "yes"
        /\ msgs[task[t].to - 1].hold = task[t].hold

(* Where a turn has loaded the chat and not yet stored its reply. *)
Pending == {"check", "delete", "lapse", "infer", "reply", "apology", "notice"}

(* A turn that may still store a reply answers a message nobody answered. *)
Unanswered ==
    ~overlap =>
        \A t \in Tasks : task[t].pc \in Pending =>
            task[t].to # 0 /\ \A i \in 1 .. Len(msgs) : msgs[i].to # task[t].to

ChatInv ==
    /\ Types /\ TurnTables /\ Serving /\ OneService /\ Untitled /\ Addressed
    /\ Confirmed /\ Unanswered /\ AnsweredOnce

(* The service starts in a state of the invariant. *)
LEMMA ChatInit == Init => ChatInv
  <1>1. SUFFICES ASSUME Init PROVE ChatInv
    OBVIOUS
  <1>2. Types
    BY <1>1, TypesInit
  <1>3. task = [t \in Tasks |-> NoTask] /\ msgs = <<>> /\ Len(msgs) = 0
        /\ claim = [g \in Opens |-> None] /\ watch = [g \in Opens |-> "off"]
    BY <1>1 DEF Init
  <1>4. \A t \in Tasks : task[t].pc = "none" /\ ~task[t].fresh /\ task[t].to = 0
    BY <1>3 DEF NoTask
  <1>5. "none" \notin Claimed \cup {"claim", "check", "delete"} \cup Pending
    BY DEF Claimed, Pending
  <1>6. TurnTables
    BY <1>3, <1>4, <1>5, NoneAssumption DEF TurnTables
  <1>7. Serving /\ OneService /\ Untitled
    BY <1>3, <1>4, <1>5 DEF Serving, OneService, Untitled
  <1>8. Addressed /\ Confirmed /\ Unanswered
    BY <1>3, <1>4, <1>5 DEF Addressed, Confirmed, Unanswered
  <1>9. AnsweredOnce
    BY <1>3 DEF AnsweredOnce
  <1>10. QED BY <1>2, <1>6, <1>7, <1>8, <1>9 DEF ChatInv

(* The claimed turns stay the ones the tables of their service sets hold
   (local_agent_service.rs begin_turn, end_turn). *)
LEMMA TurnTablesStep ==
    ASSUME Types, TurnTables, Next
    PROVE  TurnTables'
  <1>. task \in [Tasks -> TaskType] /\ claim \in [Opens -> Tasks \cup {None}]
    BY DEF Types
  <1>. USE NoneAssumption
  <1>1. "none" \notin Claimed /\ "claim" \notin Claimed /\ "quiet" \notin Claimed
        /\ "load" \in Claimed /\ "end" \in Claimed
    BY DEF Claimed
  <1>2. ASSUME NEW t \in Tasks, Inside(t) PROVE TurnTables'
    BY <1>2, InsideStays DEF TurnTables, Same, serviceVars
  <1>3. ASSUME NEW t \in Tasks, Outside(t) PROVE TurnTables'
    BY <1>3, OutsideStays DEF TurnTables, Same, serviceVars
  <1>4. ASSUME NEW t \in Tasks, Claim(t) PROVE TurnTables'
    <2>1. CASE claim[task[t].gen] = None
      <3>1. task'[t].pc = "load" /\ task'[t].gen = task[t].gen
            /\ \A u \in Tasks \ {t} : task'[u] = task[u]
        BY <1>4, <2>1 DEF Claim, Goes, TaskType
      <3>2. claim' = [claim EXCEPT ![task[t].gen] = t]
        BY <1>4, <2>1 DEF Claim
      <3>3. task[t].pc = "claim"
        BY <1>4 DEF Claim, At
      <3>4. QED BY <1>1, <2>1, <3>1, <3>2, <3>3 DEF TurnTables
    <2>2. CASE claim[task[t].gen] # None
      <3>1. task'[t].pc = "none" /\ \A u \in Tasks \ {t} : task'[u] = task[u]
        BY <1>4, <2>2 DEF Claim, NoTask
      <3>2. claim' = claim /\ task[t].pc = "claim"
        BY <1>4, <2>2 DEF Claim, At
      <3>3. QED BY <1>1, <3>1, <3>2 DEF TurnTables
    <2>3. QED BY <2>1, <2>2
  <1>5. ASSUME NEW t \in Tasks, End(t) PROVE TurnTables'
    <2>1. task'[t].pc \in {"none", "quiet"} /\ \A u \in Tasks \ {t} : task'[u] = task[u]
      BY <1>5 DEF End, NoTask
    <2>2. claim' = [claim EXCEPT ![task[t].gen] = None] /\ task[t].pc = "end"
      BY <1>5 DEF End, Released, At
    <2>3. QED BY <1>1, <2>1, <2>2 DEF TurnTables
  <1>6. ASSUME NEW g \in Opens, NEW t \in Tasks, ScanClaim(g, t) PROVE TurnTables'
    <2>1. CASE claim[g] = None
      <3>1. task'[t].pc = "load" /\ task'[t].gen = g
            /\ \A u \in Tasks \ {t} : task'[u] = task[u]
        BY <1>6, <2>1 DEF ScanClaim, NoTask
      <3>2. claim' = [claim EXCEPT ![g] = t] /\ task[t].pc = "none"
        BY <1>6, <2>1 DEF ScanClaim, IsFree
      <3>3. QED BY <1>1, <2>1, <3>1, <3>2 DEF TurnTables
    <2>2. CASE claim[g] # None
      BY <1>6, <2>2 DEF ScanClaim, TurnTables
    <2>3. QED BY <2>1, <2>2
  <1>7. CASE Aside
    <2>1. claim' = claim
      BY <1>7 DEF Aside, ScanQuery, ScanLook, ScanReset, Lagged, Type, StoreMessage, AskTurn,
            Cancel, Rename, ChangeTarget, Open, Close, serviceVars
    <2>2. QED BY <1>7, <2>1, AsideStays DEF TurnTables, Same
  <1>8. CASE Crash
    BY <1>1, <1>8 DEF Crash, TurnTables, NoTask
  <1>9. QED BY <1>2, <1>3, <1>4, <1>5, <1>6, <1>7, <1>8, Grouped

(* A turn under way belongs to the service set that is up, or to one that was shut
   down. *)
LEMMA ServingStep ==
    ASSUME Types, Serving, Next
    PROVE  Serving'
  <1>. task \in [Tasks -> TaskType] /\ watch \in [Opens -> {"off", "scan", "look", "reset", "claim", "listen"}]
    BY DEF Types
  <1>1. ASSUME NEW t \in Tasks, Inside(t) PROVE Serving'
    <2>1. task[t].pc # "none"
      BY <1>1, InsideStays DEF Claimed
    <2>2. QED BY <1>1, <2>1, InsideStays DEF Serving, Same, serviceVars
  <1>2. ASSUME NEW t \in Tasks, Outside(t) PROVE Serving'
    <2>1. UNCHANGED <<open, shut, watch>>
      BY <1>2, OutsideStays DEF serviceVars
    <2>2. ASSUME NEW g \in Opens, Deliver(g, t) PROVE g \in shut \/ (open.up /\ g = open.gen)
      BY <2>2 DEF Deliver, Serving
    <2>3. QED BY <1>2, <2>1, <2>2, OutsideStays DEF Serving, Same
  <1>3. ASSUME NEW t \in Tasks, Claim(t) \/ End(t) PROVE Serving'
    <2>1. /\ task[t].pc # "none"
          /\ task'[t].pc = "none" \/ task'[t].gen = task[t].gen
          /\ \A u \in Tasks \ {t} : task'[u] = task[u]
      <3>1. CASE Claim(t)
        BY <3>1 DEF Claim, At, Goes, NoTask, TaskType
      <3>2. CASE End(t)
        BY <3>2 DEF End, At, NoTask
      <3>3. QED BY <1>3, <3>1, <3>2
    <2>2. UNCHANGED <<open, shut, watch>>
      BY <1>3 DEF Claim, End, KeepWatch
    <2>3. QED BY <2>1, <2>2 DEF Serving
  <1>4. ASSUME NEW g \in Opens, NEW t \in Tasks, ScanClaim(g, t) PROVE Serving'
    <2>1. g \in shut \/ (open.up /\ g = open.gen)
      BY <1>4 DEF ScanClaim, Serving
    <2>2. /\ task'[t].gen = g \/ task' = task
          /\ \A u \in Tasks \ {t} : task'[u] = task[u]
      BY <1>4 DEF ScanClaim, NoTask
    <2>3. UNCHANGED <<open, shut>> /\ \A h \in Opens \ {g} : watch'[h] = watch[h]
      BY <1>4 DEF ScanClaim, KeepService, WatchGoes
    <2>4. QED BY <2>1, <2>2, <2>3 DEF Serving
  <1>5. CASE Aside
    <2>1. \A u \in Tasks : Same(u)
      BY <1>5, AsideStays
    <2>2. ASSUME NEW g \in Opens, ScanQuery(g) \/ ScanLook(g) \/ ScanReset(g) \/ Lagged(g)
          PROVE  Serving'
      <3>1. UNCHANGED <<open, shut>>
        BY <2>2 DEF ScanQuery, ScanLook, ScanReset, Lagged, KeepService, serviceVars
      <3>2. watch[g] # "off" /\ \A h \in Opens \ {g} : watch'[h] = watch[h]
        BY <2>2 DEF ScanQuery, ScanLook, ScanReset, Lagged, WatchGoes, serviceVars
      <3>3. QED BY <2>1, <3>1, <3>2 DEF Serving, Same
    <2>3. CASE UNCHANGED <<open, shut, watch>>
      BY <2>1, <2>3 DEF Serving, Same
    <2>4. CASE Open
      <3>1. open.gen + 1 \in Opens /\ ~open.up
        BY <2>4, BoundsAssumption DEF Types, Open, IsUp, Opens
      <3>2. open'.gen = open.gen + 1 /\ open'.up /\ shut' = shut
            /\ \A h \in Opens \ {open.gen + 1} : watch'[h] = watch[h]
        BY <2>4 DEF Open
      <3>3. QED BY <2>1, <3>1, <3>2 DEF Serving, Same
    <2>5. CASE Close
      <3>1. open.up /\ shut' = shut \cup {open.gen}
        BY <2>5 DEF Close, IsUp
      <3>2. \A h \in Opens : watch'[h] # "off" => watch[h] # "off"
        BY <2>5 DEF Close
      <3>3. QED BY <2>1, <3>1, <3>2 DEF Serving, Same
    <2>6. QED
      BY <1>5, <2>2, <2>3, <2>4, <2>5
      DEF Aside, Type, StoreMessage, AskTurn, Cancel, Rename, ChangeTarget, serviceVars
  <1>6. CASE Crash
    BY <1>6 DEF Crash, Serving, NoTask
  <1>7. QED BY <1>1, <1>2, <1>3, <1>4, <1>5, <1>6, Grouped

(* Once two service sets have overlapped the history says so for good. *)
LEMMA OverlapStays ==
    ASSUME Next, overlap
    PROVE  overlap'
  BY DEF Next, TurnStep, TitleStep, Watcher, Others, Fetch, Claim, Load, Check, DeleteTarget,
       Clear, HoldDelete, EndInference, Reply, Notice, Apology, Stores, Status, Settle,
       WritesIdle, End, GenerateTitle, ReadTitle, PutTitle, Stays, Moves, ScanQuery, ScanLook,
       ScanReset, ScanClaim, Deliver, Lagged, Type, StoreMessage, AskTurn, Cancel, Rename,
       ChangeTarget, Open, Close, Crash

(* Short of an overlap, turns are of the latest service set. *)
LEMMA OneServiceStep ==
    ASSUME Types, Serving, OneService, Next
    PROVE  OneService'
  <1>. task \in [Tasks -> TaskType] /\ watch \in [Opens -> {"off", "scan", "look", "reset", "claim", "listen"}]
    BY DEF Types
  <1>2. SUFFICES ASSUME ~overlap, ~overlap' PROVE OneService'
    BY OverlapStays DEF OneService
  <1>3. ASSUME NEW t \in Tasks, Inside(t) PROVE OneService'
    BY <1>2, <1>3, InsideStays DEF OneService, Same, serviceVars
  <1>4. ASSUME NEW t \in Tasks, Outside(t) PROVE OneService'
    <2>1. UNCHANGED <<open, shut, watch>>
      BY <1>4, OutsideStays DEF serviceVars
    <2>2. task'[t].pc \in Claimed \cup {"claim"} => task'[t].gen = open.gen
      BY <1>4, OutsideStays DEF Serving, Claimed
    <2>3. QED BY <1>2, <1>4, <2>1, <2>2, OutsideStays DEF OneService, Same
  <1>5. ASSUME NEW t \in Tasks, Claim(t) \/ End(t) PROVE OneService'
    <2>1. /\ task[t].pc \in Claimed \cup {"claim"}
          /\ task'[t].pc \in {"none", "quiet"} \/ task'[t].gen = task[t].gen
          /\ \A u \in Tasks \ {t} : task'[u] = task[u]
      <3>1. CASE Claim(t)
        BY <3>1 DEF Claim, At, Goes, NoTask, TaskType
      <3>2. CASE End(t)
        BY <3>2 DEF End, At, NoTask, Claimed
      <3>3. QED BY <1>5, <3>1, <3>2
    <2>2. UNCHANGED <<open, watch>>
      BY <1>5 DEF Claim, End, KeepWatch
    <2>3. QED BY <1>2, <2>1, <2>2 DEF OneService, Claimed
  <1>6. ASSUME NEW g \in Opens, NEW t \in Tasks, ScanClaim(g, t) PROVE OneService'
    <2>1. g = open.gen
      BY <1>2, <1>6 DEF ScanClaim, OneService
    <2>2. /\ task'[t].gen = g \/ task' = task
          /\ \A u \in Tasks \ {t} : task'[u] = task[u]
      BY <1>6 DEF ScanClaim, NoTask
    <2>3. open' = open /\ \A h \in Opens : watch'[h] = "claim" => watch[h] = "claim"
      BY <1>6 DEF ScanClaim, KeepService, WatchGoes, Listens
    <2>4. QED BY <1>2, <2>1, <2>2, <2>3 DEF OneService
  <1>7. CASE Aside
    <2>1. \A u \in Tasks : Same(u)
      BY <1>7, AsideStays
    <2>2. ASSUME NEW g \in Opens, ScanQuery(g) \/ ScanLook(g) \/ ScanReset(g) \/ Lagged(g)
          PROVE  OneService'
      <3>1. open' = open
        BY <2>2 DEF ScanQuery, ScanLook, ScanReset, Lagged, KeepService, serviceVars
      <3>2. \A h \in Opens : watch'[h] = "claim" => watch[h] = "claim" \/ h = open.gen
        BY <2>2 DEF Serving, ScanQuery, ScanLook, ScanReset, Lagged, WatchGoes, Listens, serviceVars
      <3>3. QED BY <1>2, <2>1, <3>1, <3>2 DEF OneService, Same
    <2>3. CASE UNCHANGED <<open, watch>>
      BY <1>2, <2>1, <2>3 DEF OneService, Same
    <2>4. CASE Open
      <3>1. \A u \in Tasks : task[u].pc \notin Claimed \cup {"claim"}
        BY <1>2, <2>4 DEF Open
      <3>2. \A h \in Opens : watch[h] # "claim"
        BY <1>2, <2>4 DEF Open
      <3>3. \A h \in Opens : watch'[h] # "claim"
        BY <2>4, <3>2 DEF Open
      <3>4. QED BY <2>1, <3>1, <3>3 DEF OneService, Same
    <2>5. CASE Close
      <3>1. open'.gen = open.gen
        BY <2>5 DEF Types, Close
      <3>2. \A h \in Opens : watch'[h] = "claim" => watch[h] = "claim"
        BY <2>5 DEF Close
      <3>3. QED BY <1>2, <2>1, <3>1, <3>2 DEF OneService, Same
    <2>6. QED
      BY <1>7, <2>2, <2>3, <2>4, <2>5
      DEF Aside, Type, StoreMessage, AskTurn, Cancel, Rename, ChangeTarget, serviceVars
  <1>8. CASE Crash
    BY <1>8 DEF Crash, OneService, NoTask, Claimed
  <1>9. QED BY <1>3, <1>4, <1>5, <1>6, <1>7, <1>8, Grouped

(* The title changes only where no task keeps a fresh read of it. *)
LEMMA UntitledStep ==
    ASSUME Types, Untitled, Next
    PROVE  Untitled'
  <1>. task \in [Tasks -> TaskType]
    BY DEF Types
  <1>1. ASSUME NEW t \in Tasks, Inside(t) PROVE Untitled'
    BY <1>1, InsideStays DEF Untitled
  <1>2. ASSUME NEW t \in Tasks, Fetch(t) \/ GenerateTitle(t) \/ Claim(t) \/ End(t)
        PROVE  Untitled'
    <2>1. title' = title
      BY <1>2 DEF Fetch, GenerateTitle, Claim, End, Stays, KeepChat, chatVars
    <2>2. \A u \in Tasks : task'[u].fresh => task[u].fresh
      <3>1. CASE Fetch(t)
        BY <3>1 DEF Fetch, Goes, NoTask, TaskType
      <3>2. CASE GenerateTitle(t)
        BY <3>2 DEF GenerateTitle, Goes, NoTask, TaskType
      <3>3. CASE Claim(t)
        BY <3>3 DEF Claim, Goes, NoTask, TaskType
      <3>4. CASE End(t)
        BY <3>4 DEF End, NoTask
      <3>5. QED BY <1>2, <3>1, <3>2, <3>3, <3>4
    <2>3. QED BY <2>1, <2>2 DEF Untitled
  <1>3. ASSUME NEW t \in Tasks, ReadTitle(t) PROVE Untitled'
    <2>1. title' = title /\ \A u \in Tasks : task'[u].fresh => task[u].fresh \/ title = "none"
      BY <1>3 DEF ReadTitle, Stays, chatVars, NoTask
    <2>2. QED BY <2>1 DEF Untitled
  <1>4. ASSUME NEW t \in Tasks, PutTitle(t) PROVE Untitled'
    <2>1. CASE Wrote(task[t].gen, [task EXCEPT ![t] = NoTask])
      <3>1. [task EXCEPT ![t] = NoTask] \in [Tasks -> TaskType]
        BY TaskTypes
      <3>2. QED BY <2>1, <3>1, WroteSame DEF Untitled
    <2>2. CASE title' = title /\ (task' = Goes(t, "title") \/ task' = [task EXCEPT ![t] = NoTask])
      <3>1. \A u \in Tasks : task'[u].fresh => task[u].fresh
        BY <2>2 DEF Goes, NoTask, TaskType
      <3>2. QED BY <2>2, <3>1 DEF Untitled
    <2>3. QED BY <1>4, <2>1, <2>2 DEF PutTitle
  <1>5. ASSUME NEW g \in Opens, NEW t \in Tasks, ScanClaim(g, t) \/ Deliver(g, t)
        PROVE  Untitled'
    <2>1. title' = title /\ \A u \in Tasks : task'[u].fresh => task[u].fresh
      BY <1>5 DEF ScanClaim, Deliver, chatVars, NoTask
    <2>2. QED BY <2>1 DEF Untitled
  <1>6. CASE Aside
    <2>1. ASSUME NEW g, Wrote(g, task) PROVE Untitled'
      BY <2>1, WroteSame DEF Untitled
    <2>2. ASSUME NEW u \in Tasks, task' = Cut(u), title' = title PROVE Untitled'
      BY <2>2 DEF Cut, Untitled, TaskType
    <2>3. CASE UNCHANGED <<title, task>>
      BY <2>3 DEF Untitled
    <2>4. CASE Cancel \/ Close
      <3>1. claim[open.gen] \in Tasks \cup {None} /\ title' = title
        BY <2>4 DEF Types, Cancel, Close, IsUp, Opens, chatVars
      <3>2. QED BY <2>2, <2>3, <2>4, <3>1 DEF Cancel, Close
    <2>5. QED
      BY <1>6, <2>1, <2>3, <2>4
      DEF Aside, ScanQuery, ScanLook, ScanReset, Lagged, Type, StoreMessage, AskTurn, Rename,
          ChangeTarget, Open, chatVars
  <1>7. CASE Crash
    BY <1>7 DEF Crash, Untitled, NoTask
  <1>8. QED BY <1>1, <1>2, <1>3, <1>4, <1>5, <1>6, <1>7, Grouped DEF Outside

(* The messages there are keep what they say, whom they answer and what they
   showed, and hold nothing anew. *)
Kept ==
    /\ Len(msgs) \in Nat /\ Len(msgs') \in Nat /\ Len(msgs) <= Len(msgs')
    /\ \A i \in 1 .. Len(msgs) :
          /\ msgs'[i].to = msgs[i].to /\ msgs'[i].says = msgs[i].says
          /\ msgs'[i].hold = msgs[i].hold
          /\ msgs'[i].held => msgs[i].held

(* A message is added: the user's, or the reply of a turn, which has answered. *)
Added ==
    /\ Len(msgs') = Len(msgs) + 1
    /\ LET m == msgs'[Len(msgs) + 1] IN
       /\ m.held => m.hold # NoHold
       /\ \/ m.to = 0 /\ UNCHANGED <<task, overlap>>
          \/ \E t \in Tasks :
                /\ Inside(t)
                /\ task[t].pc \in Pending /\ task'[t].pc \notin Pending
                /\ m.to = task[t].to

(* An appended message is the last, and the ones before it stay what they were. *)
LEMMA AppendKept ==
    ASSUME Types, NEW m \in Messages, msgs' = Append(msgs, m)
    PROVE  Kept /\ Len(msgs') = Len(msgs) + 1 /\ msgs'[Len(msgs) + 1] = m
  <1>1. msgs \in Seq(Messages)
    BY DEF Types
  <1>2. /\ Len(msgs) \in Nat /\ Len(msgs') = Len(msgs) + 1
        /\ msgs'[Len(msgs) + 1] = m
        /\ \A i \in 1 .. Len(msgs) : msgs'[i] = msgs[i]
    BY <1>1
  <1>3. QED BY <1>2 DEF Kept

(* No step takes a message away or rewords it, and a step adds one message at the most. *)
LEMMA MessageSteps ==
    ASSUME Types, Next
    PROVE  Kept /\ (Len(msgs') = Len(msgs) \/ Added)
  <1>. msgs \in Seq(Messages) /\ task \in [Tasks -> TaskType]
    BY DEF Types
  <1>1. CASE msgs' = msgs
    BY <1>1 DEF Kept
  <1>2. ASSUME NEW c \in Clients, StoreMessage(c) PROVE Kept /\ Added
    <2>1. PICK says \in {"ask", "yes", "no"} : msgs' = Append(msgs, FromUser(says))
      BY <1>2 DEF StoreMessage
    <2>2. FromUser(says) \in Messages /\ FromUser(says).to = 0 /\ ~FromUser(says).held
      BY MessageTypes DEF FromUser
    <2>3. Kept /\ Len(msgs') = Len(msgs) + 1 /\ msgs'[Len(msgs) + 1] = FromUser(says)
      BY <2>1, <2>2, AppendKept
    <2>4. QED BY <1>2, <2>2, <2>3 DEF Added, StoreMessage
  <1>3. ASSUME NEW t \in Tasks, Reply(t) \/ Notice(t) \/ Apology(t)
        PROVE  Kept /\ (Len(msgs') = Len(msgs) \/ Added)
    <2>1. PICK m \in {FromTurn(task[t]), Excuse(task[t])}, failed \in Claimed :
             Stores(t, m, failed)
      BY <1>3 DEF Reply, Notice, Apology, Claimed
    <2>2. task[t].pc \in Pending
      BY <1>3 DEF Reply, Notice, Apology, At, Pending
    <2>3. m \in Messages /\ m.to = task[t].to /\ (m.held => m.hold # NoHold)
      <3>1. CASE m = FromTurn(task[t])
        BY <3>1, MessageTypes DEF FromTurn
      <3>2. CASE m = Excuse(task[t])
        BY <3>2, MessageTypes DEF Excuse
      <3>3. QED BY <2>1, <3>1, <3>2
    <2>4. CASE msgs' = Append(msgs, m) /\ task' = [task EXCEPT ![t].pc = "status", ![t].hold = NoHold]
      <3>1. task'[t].pc \notin Pending
        BY <2>4 DEF Pending, TaskType
      <3>2. Kept /\ Len(msgs') = Len(msgs) + 1 /\ msgs'[Len(msgs) + 1] = m
        BY <2>3, <2>4, AppendKept
      <3>3. QED BY <1>3, <2>2, <2>3, <3>1, <3>2 DEF Added, Inside
    <2>5. QED BY <1>1, <2>1, <2>4 DEF Stores
  <1>4. ASSUME NEW t \in Tasks, Clear(t) PROVE Kept /\ Len(msgs') = Len(msgs)
    <2>1. CASE msgs' = [msgs EXCEPT ![task[t].question].held = FALSE]
      <3>1. task[t].question \in Nat
        BY DEF TaskType
      <3>2. /\ Len(msgs') = Len(msgs)
            /\ \A j \in 1 .. Len(msgs) :
                 /\ \A f \in {"by", "says", "to", "hold"} : msgs'[j][f] = msgs[j][f]
                 /\ msgs'[j].held => msgs[j].held
        BY <2>1, <3>1, HeldCleared
      <3>3. QED BY <3>2 DEF Kept
    <2>2. QED BY <1>1, <1>4, <2>1 DEF Clear
  <1>5. QED
    BY <1>1, <1>2, <1>3, <1>4
    DEF Next, TurnStep, TitleStep, Watcher, Others, Fetch, Claim, Load, Check, DeleteTarget,
        HoldDelete, EndInference, Status, Settle, WritesIdle, End, GenerateTitle, ReadTitle,
        PutTitle, Stays, Moves, ScanQuery, ScanLook, ScanReset, ScanClaim, Deliver, Lagged,
        Type, AskTurn, Cancel, Rename, ChangeTarget, Open, Close, Crash, KeepChat, chatVars

(* A turn loads the message it answers. *)
Loads(t) ==
    /\ At(t, "load") /\ LastIsUser /\ UNCHANGED chatVars
    /\ task' = [task EXCEPT ![t].pc = Answer,
                            ![t].to = Len(msgs),
                            ![t].question = IF Held THEN Len(msgs) - 1 ELSE 0,
                            ![t].hold = IF Held THEN msgs[Len(msgs) - 1].hold ELSE NoHold]

(* Otherwise what it answers stays, and it comes to a delete by the check. *)
LEMMA InsideTo ==
    ASSUME Types, NEW t \in Tasks, Inside(t)
    PROVE  \/ Loads(t)
           \/ /\ task'[t].to = task[t].to
              /\ task'[t].pc \in Pending => task[t].pc \in Pending
              /\ task'[t].pc # "check"
              /\ task'[t].pc = "delete" => task[t].pc = "check" /\ task'[t].hold = task[t].hold
  <1>. task \in [Tasks -> TaskType]
    BY DEF Types
  <1>. USE DEF Pending, At
  <1>1. CASE Load(t)
    <2>1. Loads(t) \/ task' = Goes(t, "settle")
      BY <1>1 DEF Load, Loads, Moves, Stays, Unanswerable
    <2>2. CASE task' = Goes(t, "settle")
      BY <2>2 DEF Goes, TaskType
    <2>3. QED BY <2>1, <2>2
  <1>2. CASE Check(t)
    BY <1>2 DEF Check, Moves, Goes, TaskType
  <1>3. CASE DeleteTarget(t)
    BY <1>3 DEF DeleteTarget, Goes, TaskType
  <1>4. CASE Clear(t)
    BY <1>4 DEF Clear, Goes, TaskType
  <1>5. CASE HoldDelete(t)
    BY <1>5 DEF HoldDelete, TaskType
  <1>6. CASE EndInference(t)
    BY <1>6 DEF EndInference, TaskType
  <1>7. CASE Reply(t) \/ Notice(t) \/ Apology(t)
    <2>1. PICK m \in {FromTurn(task[t]), Excuse(task[t])}, failed \in {"notice", "settle"} :
             Stores(t, m, failed)
      BY <1>7 DEF Reply, Notice, Apology
    <2>2. task[t].pc \in {"reply", "notice", "apology"}
      BY <1>7 DEF Reply, Notice, Apology
    <2>3. QED BY <2>1, <2>2 DEF Stores, TaskType
  <1>8. CASE Status(t) \/ Settle(t)
    <2>1. PICK done \in {"end", "clear"}, failed \in {"end", "clear", "settle"} :
             WritesIdle(t, done, failed)
      BY <1>8 DEF Status, Settle, AfterIdle
    <2>2. CASE task' = Goes(t, failed)
      BY <2>1, <2>2 DEF Goes, TaskType
    <2>3. CASE Wrote(task[t].gen, Goes(t, done))
      <3>1. done \in Places
        BY DEF Places, Claimed
      <3>2. Goes(t, done) \in [Tasks -> TaskType]
        BY <3>1, TaskTypes
      <3>3. Goes(t, done)[t].pc = done /\ Goes(t, done)[t].to = task[t].to
        BY DEF Goes, TaskType
      <3>4. QED BY <2>1, <2>3, <3>2, <3>3, WroteSame
    <2>4. QED BY <2>1, <2>2, <2>3 DEF WritesIdle
  <1>9. QED BY <1>1, <1>2, <1>3, <1>4, <1>5, <1>6, <1>7, <1>8 DEF Inside

(* Whom a task answers, and where it is, after any step. *)
LEMMA TaskSteps ==
    ASSUME Types, Next, NEW u \in Tasks
    PROVE  \/ Loads(u) /\ Inside(u)
           \/ /\ task'[u].to \in {task[u].to, 0}
              /\ task'[u].pc \notin Pending
           \/ /\ task'[u].to = task[u].to
              /\ task'[u].pc \in Pending => task[u].pc \in Pending
              /\ task'[u].pc \in {"check", "delete"} =>
                    task[u].pc \in {"check", "delete"} /\ task'[u].hold = task[u].hold
  <1>. task \in [Tasks -> TaskType]
    BY DEF Types
  <1>1. CASE Same(u)
    BY <1>1 DEF Same
  <1>2. CASE Inside(u)
    BY <1>2, InsideTo DEF Pending
  <1>3. CASE Outside(u)
    <2>1. task'[u].pc \notin Pending
      BY <1>3, OutsideStays DEF Pending, Claimed
    <2>2. task'[u].to \in {task[u].to, 0}
      <3>1. CASE Fetch(u) \/ GenerateTitle(u) \/ ReadTitle(u)
        <4>1. CASE task' = Goes(u, "claim") \/ task' = Goes(u, "title")
          BY <4>1 DEF Goes, TaskType
        <4>2. CASE task' = [task EXCEPT ![u] = NoTask]
          BY <4>2 DEF NoTask
        <4>3. CASE task' = [task EXCEPT ![u].pc = "put", ![u].fresh = TRUE]
          BY <4>3 DEF TaskType
        <4>4. QED BY <3>1, <4>1, <4>2, <4>3 DEF Fetch, GenerateTitle, ReadTitle
      <3>2. CASE PutTitle(u)
        <4>1. CASE Wrote(task[u].gen, [task EXCEPT ![u] = NoTask])
          <5>1. [task EXCEPT ![u] = NoTask] \in [Tasks -> TaskType]
            BY TaskTypes
          <5>2. [task EXCEPT ![u] = NoTask][u].to = 0
            BY DEF NoTask
          <5>3. QED BY <4>1, <5>1, <5>2, WroteSame
        <4>2. CASE task' = Goes(u, "title") \/ task' = [task EXCEPT ![u] = NoTask]
          BY <4>2 DEF Goes, NoTask, TaskType
        <4>3. QED BY <3>2, <4>1, <4>2 DEF PutTitle
      <3>3. CASE \E g \in Opens : Deliver(g, u)
        BY <3>3 DEF Deliver, NoTask
      <3>4. QED BY <1>3, <3>1, <3>2, <3>3 DEF Outside
    <2>3. QED BY <2>1, <2>2
  <1>4. CASE Claim(u)
    BY <1>4 DEF Claim, Goes, NoTask, Pending, TaskType
  <1>5. CASE End(u)
    BY <1>5 DEF End, NoTask, Pending
  <1>6. CASE \E g \in Opens : ScanClaim(g, u)
    BY <1>1, <1>6 DEF ScanClaim, NoTask, Pending, Same
  <1>7. CASE Crash
    BY <1>7 DEF Crash, NoTask, Pending
  <1>8. ASSUME NEW t \in Tasks, t # u, Claim(t) \/ End(t) \/ \E g \in Opens : ScanClaim(g, t)
        PROVE  Same(u)
    BY <1>8 DEF Claim, End, ScanClaim, Goes, Same
  <1>9. QED
    BY <1>1, <1>2, <1>3, <1>4, <1>5, <1>6, <1>7, <1>8, Grouped, InsideStays, OutsideStays, AsideStays

(* Messages keep answering earlier ones, and turns messages there are. *)
LEMMA AddressedStep ==
    ASSUME Types, Types', Addressed, Next
    PROVE  Addressed'
  <1>1. Kept /\ (Len(msgs') = Len(msgs) \/ Added)
    BY MessageSteps
  <1>2. \A t \in Tasks : task[t].to \in Nat /\ task[t].to <= Len(msgs)
    BY DEF Types, TaskType, Addressed
  <1>3. ASSUME NEW t \in Tasks PROVE task'[t].to <= Len(msgs')
    <2>1. CASE Loads(t)
      BY <1>1, <2>1 DEF Loads, chatVars, Types, TaskType, Kept
    <2>2. CASE task'[t].to \in {task[t].to, 0}
      BY <1>1, <1>2, <2>2 DEF Kept
    <2>3. QED BY <2>1, <2>2, TaskSteps
  <1>4. ASSUME NEW i \in 1 .. Len(msgs')
        PROVE  msgs'[i].to < i /\ (msgs'[i].held => msgs'[i].hold # NoHold)
    <2>1. CASE i \in 1 .. Len(msgs)
      BY <1>1, <2>1 DEF Addressed, Kept
    <2>2. CASE i \notin 1 .. Len(msgs)
      <3>1. i = Len(msgs) + 1 /\ Added
        BY <1>1, <2>2 DEF Kept, Added
      <3>2. msgs'[i].held => msgs'[i].hold # NoHold
        BY <3>1 DEF Added
      <3>3. msgs'[i].to < i
        BY <1>1, <1>2, <3>1 DEF Added, Kept
      <3>4. QED BY <3>2, <3>3
    <2>3. QED BY <2>1, <2>2
  <1>5. QED BY <1>3, <1>4 DEF Addressed

(* A delete about to be carried out stays the one that was shown and agreed to. *)
LEMMA ConfirmedStep ==
    ASSUME Types, Confirmed, Next
    PROVE  Confirmed'
  <1>1. Kept
    BY MessageSteps
  <1>2. SUFFICES ASSUME NEW t \in Tasks, task'[t].pc \in {"check", "delete"}
                 PROVE  /\ task'[t].to \in 2 .. Len(msgs')
                        /\ msgs'[task'[t].to].says = "yes"
                        /\ msgs'[task'[t].to - 1].hold = task'[t].hold
    BY DEF Confirmed
  <1>3. CASE Loads(t)
    <2>1. /\ task'[t].pc = Answer /\ task'[t].to = Len(msgs)
          /\ task'[t].hold = IF Held THEN msgs[Len(msgs) - 1].hold ELSE NoHold
      BY <1>3 DEF Loads, Types, TaskType
    <2>2. Held /\ Last(msgs).says = "yes"
      BY <1>2, <2>1 DEF Answer
    <2>3. Len(msgs) \in Nat /\ Len(msgs) > 1 /\ msgs[Len(msgs)].says = "yes"
      BY <1>1, <2>2 DEF Held, Last, Kept
    <2>4. msgs' = msgs
      BY <1>3 DEF Loads, chatVars
    <2>5. QED BY <2>1, <2>2, <2>3, <2>4
  <1>4. CASE /\ task'[t].to = task[t].to /\ task[t].pc \in {"check", "delete"}
             /\ task'[t].hold = task[t].hold
    <2>1. /\ task[t].to \in 2 .. Len(msgs)
          /\ msgs[task[t].to].says = "yes" /\ msgs[task[t].to - 1].hold = task[t].hold
      BY <1>4 DEF Confirmed
    <2>2. task[t].to \in 1 .. Len(msgs) /\ task[t].to - 1 \in 1 .. Len(msgs)
          /\ task[t].to \in 2 .. Len(msgs')
      BY <1>1, <2>1 DEF Kept
    <2>3. QED BY <1>1, <1>4, <2>1, <2>2 DEF Kept
  <1>5. QED BY <1>2, <1>3, <1>4, TaskSteps DEF Pending

(* Turns under way at the same time are one, or a service set was opened over one. *)
LEMMA OneTurn ==
    ASSUME Types, TurnTables, Serving, OneService, ~overlap,
           NEW t \in Tasks, NEW u \in Tasks, task[t].pc \in Claimed, task[u].pc \in Claimed
    PROVE  t = u
  <1>1. task[t].gen = open.gen /\ task[u].gen = open.gen
    BY DEF OneService
  <1>2. open.gen \in Opens
    BY <1>1 DEF Serving, Claimed
  <1>3. claim[open.gen] = t /\ claim[open.gen] = u
    BY <1>1, <1>2 DEF TurnTables
  <1>4. QED BY <1>3

(* Short of an overlap the message a turn is at work on has no answer yet, so that no
   message gets a second. *)
LEMMA AnsweredStep ==
    ASSUME Types, TurnTables, Serving, OneService, Addressed, Unanswered, AnsweredOnce, Next
    PROVE  Unanswered' /\ AnsweredOnce'
  <1>1. SUFFICES ASSUME ~overlap, ~overlap' PROVE Unanswered' /\ AnsweredOnce'
    <2>1. CASE overlap
      BY <2>1, OverlapStays DEF Unanswered, AnsweredOnce
    <2>2. QED BY <2>1, <1>1 DEF Unanswered, AnsweredOnce
  <1>2. Kept /\ (Len(msgs') = Len(msgs) \/ Added)
    BY MessageSteps
  <1>3. DOMAIN msgs = 1 .. Len(msgs) /\ DOMAIN msgs' = 1 .. Len(msgs')
    BY TypesStep, LenProperties DEF Types
  <1>4. \A t \in Tasks : task[t].pc \in Pending =>
            task[t].to # 0 /\ \A i \in 1 .. Len(msgs) : msgs[i].to # task[t].to
    BY <1>1 DEF Unanswered
  <1>5. \A i, j \in 1 .. Len(msgs) : i # j /\ msgs[i].to # 0 => msgs[i].to # msgs[j].to
    BY <1>1, <1>3 DEF AnsweredOnce
  <1>6. AnsweredOnce'
    <2>1. ASSUME NEW i \in 1 .. Len(msgs'), NEW j \in 1 .. Len(msgs'), i < j,
                 msgs'[i].to # 0, msgs'[i].to = msgs'[j].to
          PROVE  FALSE
      <3>1. i \in 1 .. Len(msgs)
        BY <1>2, <2>1 DEF Kept, Added
      <3>2. CASE j \in 1 .. Len(msgs)
        BY <1>2, <1>5, <2>1, <3>1, <3>2 DEF Kept
      <3>3. CASE j \notin 1 .. Len(msgs)
        <4>1. Added /\ j = Len(msgs) + 1
          BY <1>2, <2>1, <3>3 DEF Kept, Added
        <4>2. PICK t \in Tasks : task[t].pc \in Pending /\ msgs'[j].to = task[t].to
          BY <2>1, <4>1 DEF Added
        <4>3. msgs'[i].to = msgs[i].to
          BY <1>2, <3>1 DEF Kept
        <4>4. QED BY <1>4, <2>1, <3>1, <4>2, <4>3
      <3>4. QED BY <3>2, <3>3
    <2>2. SUFFICES ASSUME NEW i \in 1 .. Len(msgs'), NEW j \in 1 .. Len(msgs'), i # j,
                          msgs'[i].to # 0, msgs'[i].to = msgs'[j].to
                   PROVE  FALSE
      BY <1>3 DEF AnsweredOnce
    <2>3. i < j \/ j < i
      BY <1>2, <2>2 DEF Kept
    <2>4. QED BY <2>1, <2>2, <2>3
  <1>7. ASSUME NEW u \in Tasks, task'[u].pc \in Pending
        PROVE  task'[u].to # 0 /\ \A i \in 1 .. Len(msgs') : msgs'[i].to # task'[u].to
    <2>1. CASE Loads(u)
      <3>1. task'[u].to = Len(msgs) /\ msgs' = msgs /\ msgs # <<>>
        BY <2>1 DEF Loads, LastIsUser, chatVars, Types, TaskType
      <3>2. Len(msgs) \in Nat \ {0}
        BY <3>1, EmptySeq DEF Types
      <3>3. ASSUME NEW i \in 1 .. Len(msgs) PROVE msgs[i].to < i /\ msgs[i].to \in Nat
        <4>1. msgs[i] \in Messages
          BY DEF Types
        <4>2. QED BY <4>1 DEF Addressed, Messages
      <3>4. QED BY <3>1, <3>2, <3>3
    <2>2. CASE task'[u].to = task[u].to /\ task[u].pc \in Pending
      <3>1. task[u].to # 0 /\ \A i \in 1 .. Len(msgs) : msgs'[i].to # task[u].to
        BY <1>2, <1>4, <2>2 DEF Kept
      <3>2. CASE Len(msgs') = Len(msgs)
        BY <2>2, <3>1, <3>2
      <3>3. CASE Added
        <4>1. msgs'[Len(msgs) + 1].to # task[u].to
          <5>1. CASE msgs'[Len(msgs) + 1].to = 0
            BY <3>1, <5>1
          <5>2. ASSUME NEW t \in Tasks, Inside(t), task[t].pc \in Pending, task'[t].pc \notin Pending
                PROVE  FALSE
            <6>1. task[t].pc \in Claimed /\ task[u].pc \in Claimed
              BY <2>2, <5>2 DEF Pending, Claimed
            <6>2. t = u
              BY <1>1, <6>1, OneTurn
            <6>3. QED BY <1>7, <5>2, <6>2
          <5>3. QED BY <3>3, <5>1, <5>2 DEF Added
        <4>2. QED BY <1>2, <2>2, <3>1, <3>3, <4>1 DEF Kept, Added
      <3>4. QED BY <1>2, <3>2, <3>3
    <2>3. QED BY <1>7, <2>1, <2>2, TaskSteps
  <1>8. QED BY <1>6, <1>7 DEF Unanswered

(* Every step keeps the invariant. *)
LEMMA ChatStep == ChatInv /\ [Next]_vars => ChatInv'
  <1>1. CASE Next
    BY <1>1, TypesStep, TurnTablesStep, ServingStep, OneServiceStep, UntitledStep, AddressedStep,
       ConfirmedStep, AnsweredStep DEF ChatInv
  <1>2. CASE UNCHANGED vars
    BY <1>2 DEF vars, chatVars, serviceVars, ChatInv, Types, TurnTables, Serving, OneService,
       Untitled, Addressed, Confirmed, Unanswered, AnsweredOnce
  <1>3. QED BY <1>1, <1>2

(* Every state of the service satisfies the invariant. *)
LEMMA ChatCorrect == Spec => []ChatInv
  BY ChatInit, ChatStep, PTL DEF Spec

-----------------------------------------------------------------------------
(* The theorems *)

(* Types, and that a service set's turn table names a task just while the turn of
   that task runs there, through closes, crashes and the next service set. *)
THEOREM TypeCorrect == Spec => []TypeOK
  <1>1. ChatInv => TypeOK
    <2>1. SUFFICES ASSUME ChatInv PROVE TypeOK
      OBVIOUS
    <2>2. \A i \in DOMAIN msgs : msgs[i].to \in 0 .. i - 1 /\ (msgs[i].held => msgs[i].hold # NoHold)
      <3>1. SUFFICES ASSUME NEW i \in 1 .. Len(msgs)
                     PROVE  msgs[i].to \in 0 .. i - 1 /\ (msgs[i].held => msgs[i].hold # NoHold)
        BY <2>1, LenProperties DEF ChatInv, Types
      <3>2. msgs[i] \in Messages
        BY <2>1 DEF ChatInv, Types
      <3>3. QED BY <2>1, <3>2 DEF ChatInv, Addressed, Messages
    <2>3. open.gen \in 0 .. MaxOpens /\ open.up \in BOOLEAN
      BY <2>1 DEF ChatInv, Types
    <2>4. QED BY <2>1, <2>2, <2>3 DEF ChatInv, Types, TurnTables, TypeOK
  <1>2. QED BY <1>1, ChatCorrect, PTL

(* A user message is answered once: the event watcher and the recovery scan never
   both do, and a turn that is recovered does not find its reply stored. *)
THEOREM MessagesAnsweredOnce == Spec => []AnsweredOnce
  <1>1. ChatInv => AnsweredOnce
    BY DEF ChatInv
  <1>2. QED BY <1>1, ChatCorrect, PTL

(* The target goes only in the step of a turn whose user said yes, to the question
   directly before, which showed the version that is deleted. *)
THEOREM DeletesAreConfirmed == Spec => DeletedAsShown
  <1>1. ChatInv /\ [Next]_vars =>
            [target.there /\ ~target'.there
               => \E t \in Tasks :
                    LET said == task[t].to IN
                    /\ At(t, "delete")
                    /\ msgs[said].says = "yes"
                    /\ msgs[said - 1].hold.ver = target.ver]_vars
    <2>1. SUFFICES ASSUME ChatInv, Next, target.there, ~target'.there
                   PROVE  \E t \in Tasks :
                            /\ At(t, "delete")
                            /\ msgs[task[t].to].says = "yes"
                            /\ msgs[task[t].to - 1].hold.ver = target.ver
      BY DEF vars
    <2>2. target' = target \/ ChangeTarget \/ \E t \in Tasks : DeleteTarget(t)
      BY <2>1 DEF Next, TurnStep, TitleStep, Watcher, Others, Fetch, Claim, Load, Check,
         Clear, HoldDelete, EndInference, Reply, Notice, Apology, Stores, Status, Settle,
         WritesIdle, End, GenerateTitle, ReadTitle, PutTitle, Stays, Moves, ScanQuery, ScanLook,
         ScanReset, ScanClaim, Deliver, Lagged, Type, StoreMessage, AskTurn, Cancel, Rename,
         Open, Close, Crash
    <2>3. ChangeTarget => target'.there = target.there
      BY <2>1 DEF ChangeTarget, ChatInv, Types
    <2>4. PICK t \in Tasks : DeleteTarget(t) /\ target' # target
      BY <2>1, <2>2, <2>3
    <2>5. At(t, "delete") /\ target.ver = task[t].hold.ver
      BY <2>1, <2>4 DEF DeleteTarget, AtShownVersion, ChatInv, Types
    <2>6. msgs[task[t].to].says = "yes" /\ msgs[task[t].to - 1].hold = task[t].hold
      BY <2>1, <2>5 DEF ChatInv, Confirmed, At
    <2>7. QED BY <2>5, <2>6
  <1>2. QED BY <1>1, ChatCorrect, PTL DEF Spec, DeletedAsShown

(* A generated title is written only where no title is, whoever renames the chat
   while the title is generated or written. *)
THEOREM UserTitlesKept == Spec => UserTitleKept
  <1>1. ChatInv /\ [Next]_vars => [title = "user" => title' = "user"]_vars
    <2>1. SUFFICES ASSUME ChatInv, Next, title = "user" PROVE title' = "user"
      BY DEF vars
    <2>2. ASSUME NEW t \in Tasks, PutTitle(t) PROVE title' = title
      BY <2>1, <2>2 DEF PutTitle, AtReadVersion, ChatInv, Untitled
    <2>3. title' = title \/ Rename
      BY <2>1, <2>2 DEF Next, TurnStep, TitleStep, Watcher, Others, Fetch, Claim, Load, Check,
         DeleteTarget, Clear, HoldDelete, EndInference, Reply, Notice, Apology, Stores, Status,
         Settle, WritesIdle, End, GenerateTitle, ReadTitle, Stays, Moves, ScanQuery, ScanLook,
         ScanReset, ScanClaim, Deliver, Lagged, Type, StoreMessage, AskTurn, Cancel,
         ChangeTarget, Open, Close, Crash, KeepChat, chatVars
    <2>4. QED BY <2>1, <2>3 DEF Rename
  <1>2. QED BY <1>1, ChatCorrect, PTL DEF Spec, UserTitleKept

=============================================================================
