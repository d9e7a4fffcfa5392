----------------------------- MODULE ChatTurns -----------------------------
(* Turns of one native ai-chat. A client stores the user's message and then
   writes the chat's status `processing`; the event watcher of the open service
   set hears of it, and a task of its own claims the chat, runs the model on the
   conversation, stores the reply and writes the status back to `idle`. A new
   service set first looks for a turn its predecessor left behind.

   Meanwhile other clients send, cancel and rename, a user or the idle reaper
   closes the service set under its tasks and a request opens the next one, a
   background job titles the chat, and the daemon crashes. A delete the model asked for is
   held on the reply that asks the user, and carried out on a yes.

   Left out: other chats (they share nothing but the model and the channel), the
   rounds of one turn, streaming, loading models, a chat that is itself deleted. *)
EXTENDS Integers, FiniteSets, Sequences, SequencesExt

CONSTANTS
    Clients, Tasks,
    MaxOpens,       \* bound: service sets built for the database
    MaxSends,       \* bound: user messages
    MaxMishaps,     \* bound: closes, crashes, store calls that fail, events lost and changes
                    \* by others to the node a delete is held for, together
    None

ASSUME NoneAssumption == None \notin Tasks
ASSUME BoundsAssumption == {MaxOpens, MaxSends, MaxMishaps} \subseteq Nat

Opens == 1 .. MaxOpens

VARIABLES
    status,     \* turn_status of the chat
    title,      \* the chat's title: untitled, of the user, or generated
    msgs,       \* its messages
    target,     \* the node deletes are asked for
    client,     \* client -> where its send stands
    open,       \* the latest service set, and whether it is up
    shut,       \* the service sets whose shutdown token is cancelled
    watch,      \* service set -> where its event watcher stands
    news,       \* service set -> events of the chat wait for its watcher: they count
                \* as one, as the task spawned for any of them reads the chat itself
    claim,      \* service set -> the task the chat is claimed for (turn_tokens)
    task,       \* task -> the handler, turn or title job it runs
    mishaps,    \* how many of the bounded mishaps there were
    stranded,   \* history: a fault or a claim held too long cost a request its turn
    overlap     \* history: a service set was opened over a turn of the last one

chatVars == <<status, title, msgs>>
serviceVars == <<open, shut, watch, claim>>
vars == <<chatVars, target, client, serviceVars, news, task, mishaps, stranded, overlap>>

----------------------------------------------------------------------------
(* Messages and tasks *)

NoHold == [ver |-> 0, kids |-> 0]

(* What preview_deletion shows of the target. *)
Preview == [ver |-> target.ver, kids |-> target.kids]

FromUser(says) ==
    [by |-> "user", says |-> says, to |-> 0, hold |-> NoHold, held |-> FALSE]

(* The reply of a turn, and what the delete it holds was shown as. The edge to a
   target that is gone is left out. *)
FromTurn(k) ==
    [by |-> "assistant", says |-> "reply", to |-> k.to,
     hold |-> IF k.question = 0 THEN k.hold ELSE NoHold,
     held |-> k.question = 0 /\ k.hold # NoHold /\ target.there]

(* What is stored in place of a reply: it holds nothing. *)
Excuse(k) ==
    [by |-> "assistant", says |-> "reply", to |-> k.to, hold |-> NoHold, held |-> FALSE]

NoTask == [pc |-> "none", gen |-> 0, to |-> 0, question |-> 0, hold |-> NoHold,
           cut |-> FALSE, fresh |-> FALSE]

(* Where a turn's token still matters. *)
Cut(t) == [task EXCEPT ![t].cut = task[t].pc \in {"load", "lapse", "infer"}]

Goes(t, pc) == [task EXCEPT ![t].pc = pc]

(* Tasks that have the chat claimed, by their place in run_ai_chat_turn. *)
Claimed == {"load", "check", "delete", "lapse", "infer", "reply",
            "apology", "notice", "status", "settle", "clear", "end"}

(* Tasks whose turn shows in the idle gate. *)
Live == Claimed \ {"load"}

LastIsUser == msgs # <<>> /\ Last(msgs).by = "user"

----------------------------------------------------------------------------
Init ==
    /\ status = "idle" /\ title = "none" /\ msgs = <<>>
    /\ target = [there |-> TRUE, ver |-> 1, kids |-> 0]
    /\ client = [c \in Clients |-> "idle"]
    /\ open = [gen |-> 0, up |-> FALSE]
    /\ shut = {}
    /\ watch = [g \in Opens |-> "off"]
    /\ news = [g \in Opens |-> FALSE]
    /\ claim = [g \in Opens |-> None]
    /\ task = [t \in Tasks |-> NoTask]
    /\ mishaps = 0
    /\ stranded = FALSE /\ overlap = FALSE

----------------------------------------------------------------------------
(* Writes of the chat node through service set g *)

(* A committed update of the chat is heard by g's watcher, if it has one, and
   makes a title that is about to be written start over. *)
Wrote(g, tasks) ==
    /\ news' = IF watch[g] = "off" THEN news ELSE [news EXCEPT ![g] = TRUE]
    /\ task' = [t \in Tasks |-> [tasks[t] EXCEPT !.fresh = FALSE]]

Mishap ==
    /\ mishaps < MaxMishaps
    /\ mishaps' = mishaps + 1

NoMishap == UNCHANGED mishaps

----------------------------------------------------------------------------
(* Clients: handleSend and sendMessage of the chat viewer, and everybody else *)

IsUp == open.up

Sends == Len(SelectSeq(msgs, LAMBDA m : m.by = "user"))
                + Cardinality({c \in Clients : client[c] = "typed"})

(* A send begins while the chat is idle; the model may be loaded first. *)
Type(c) ==
    /\ IsUp /\ client[c] = "idle" /\ status = "idle" /\ Sends < MaxSends
    /\ client' = [client EXCEPT ![c] = "typed"]
    /\ UNCHANGED <<chatVars, target, serviceVars, news, task, mishaps, stranded, overlap>>

(* The message is stored; only a reply to a question can be a yes or a no. *)
StoreMessage(c) ==
    /\ IsUp /\ client[c] = "typed"
    /\ \E says \in IF msgs # <<>> /\ Last(msgs).held THEN {"ask", "yes", "no"}
                   ELSE {"ask"} :
           msgs' = Append(msgs, FromUser(says))
    /\ client' = [client EXCEPT ![c] = "stored"]
    /\ UNCHANGED <<status, title, target, serviceVars, news, task, mishaps, stranded, overlap>>

AskTurn(c) ==
    /\ IsUp /\ client[c] = "stored"
    /\ status' = "processing"
    /\ client' = [client EXCEPT ![c] = "idle"]
    /\ Wrote(open.gen, task)
    /\ UNCHANGED <<title, msgs, target, serviceVars, mishaps, stranded, overlap>>

(* cancel_turn *)
Cancel ==
    /\ IsUp /\ status = "processing"
    /\ claim[open.gen] # None
    /\ task' = Cut(claim[open.gen])
    /\ UNCHANGED <<chatVars, target, client, serviceVars, news, mishaps, stranded, overlap>>

Rename ==
    /\ IsUp /\ title # "user"
    /\ title' = "user"
    /\ Wrote(open.gen, task)
    /\ UNCHANGED <<status, msgs, target, client, serviceVars, mishaps, stranded, overlap>>

(* Others edit the target or create a node below it; the second leaves its
   version alone. *)
ChangeTarget ==
    /\ target.there /\ Mishap
    /\ \/ target' = [target EXCEPT !.ver = @ + 1]
       \/ target' = [target EXCEPT !.kids = @ + 1]
    /\ UNCHANGED <<chatVars, client, serviceVars, news, task, stranded, overlap>>

----------------------------------------------------------------------------
(* Service sets: get_or_open, evict_idle_databases, shutdown *)

(* The next service set: its watcher subscribes, then looks for stuck turns. *)
Open ==
    /\ ~IsUp /\ open.gen < MaxOpens
    /\ open' = [gen |-> open.gen + 1, up |-> TRUE]
    /\ watch' = [watch EXCEPT ![open.gen + 1] = "scan"]
    /\ overlap' = \/ overlap
                  \/ \E t \in Tasks : task[t].pc \in Claimed \cup {"claim"}
                  \/ \E g \in Opens : watch[g] = "claim"
    /\ UNCHANGED <<chatVars, target, client, shut, news, claim, task, mishaps, stranded>>

(* A user closes the database, or the reaper that asked has_active_turns a while
   ago does; shutdown cancels its own token, then those of the turns there are. *)
Close ==
    /\ IsUp /\ Mishap
    /\ open' = [open EXCEPT !.up = FALSE]
    /\ shut' = shut \cup {open.gen}
    /\ watch' = [watch EXCEPT ![open.gen] = IF @ = "listen" THEN "off" ELSE @]
    /\ news' = [news EXCEPT ![open.gen] = FALSE]
    /\ task' = IF claim[open.gen] = None THEN task ELSE Cut(claim[open.gen])
    /\ UNCHANGED <<chatVars, target, client, claim, stranded, overlap>>

(* The daemon dies: nothing but the store is left. *)
Crash ==
    /\ IsUp /\ Mishap
    /\ open' = [open EXCEPT !.up = FALSE]
    /\ watch' = [g \in Opens |-> "off"]
    /\ news' = [g \in Opens |-> FALSE]
    /\ claim' = [g \in Opens |-> None]
    /\ task' = [t \in Tasks |-> NoTask]
    /\ UNCHANGED <<chatVars, target, client, shut, stranded, overlap>>

----------------------------------------------------------------------------
(* start_event_watcher: recover_stuck_turns, then one task for every event *)

(* A task yet to be spawned; which one makes no difference. *)
IsFree(t) == task[t].pc = "none" /\ t = CHOOSE u \in Tasks : task[u].pc = "none"

(* After the scan: a watcher that has been shut down spawns no task that would do
   anything (begin_turn refuses it), and stops. *)
Listens(g) == IF g \in shut THEN "off" ELSE "listen"

WatchGoes(g, pc) == watch' = [watch EXCEPT ![g] = pc]
KeepService == UNCHANGED <<open, shut>>

(* The query; it may fail, which ends the scan. *)
ScanQuery(g) ==
    /\ watch[g] = "scan"
    /\ \/ /\ NoMishap /\ UNCHANGED stranded
          /\ WatchGoes(g, IF status = "processing" THEN "look" ELSE Listens(g))
       \/ Mishap /\ WatchGoes(g, Listens(g)) /\ stranded' = TRUE
    /\ UNCHANGED <<chatVars, target, client, claim, news, task, overlap>> /\ KeepService

(* The last message, then the first half of begin_turn *)
ScanLook(g) ==
    /\ watch[g] = "look"
    /\ WatchGoes(g, IF ~LastIsUser THEN "reset"
                    ELSE IF g \in shut THEN "off" ELSE "claim")
    /\ UNCHANGED <<chatVars, target, client, claim, news, task, mishaps, stranded, overlap>>
    /\ KeepService

(* No message to answer: the status is reset, without a claim. *)
ScanReset(g) ==
    /\ watch[g] = "reset"
    /\ \E fails \in BOOLEAN :
          /\ IF fails THEN Mishap ELSE NoMishap
          /\ stranded' = (stranded \/ fails)
          /\ IF fails THEN UNCHANGED <<status, news, task>> ELSE status' = "idle" /\ Wrote(g, task)
    /\ WatchGoes(g, Listens(g))
    /\ UNCHANGED <<title, msgs, target, client, claim, overlap>> /\ KeepService

(* The second half, and the turn in a task of its own *)
ScanClaim(g, t) ==
    /\ watch[g] = "claim" /\ IsFree(t)
    /\ IF claim[g] = None
       THEN /\ claim' = [claim EXCEPT ![g] = t]
            /\ task' = [task EXCEPT ![t] = [NoTask EXCEPT !.pc = "load", !.gen = g]]
       ELSE UNCHANGED <<claim, task>>
    /\ WatchGoes(g, Listens(g))
    /\ UNCHANGED <<chatVars, target, client, news, mishaps, stranded, overlap>> /\ KeepService

(* An event of the chat is received and a task spawned for it. *)
Deliver(g, t) ==
    /\ watch[g] = "listen" /\ news[g] /\ IsFree(t)
    /\ news' = [news EXCEPT ![g] = FALSE]
    /\ task' = [task EXCEPT ![t] = [NoTask EXCEPT !.pc = "fetch", !.gen = g]]
    /\ UNCHANGED <<chatVars, target, client, serviceVars, mishaps, stranded, overlap>>

(* The receiver lagged: an event is gone. *)
Lagged(g) ==
    /\ watch[g] = "listen" /\ news[g] /\ Mishap
    /\ news' = [news EXCEPT ![g] = FALSE]
    /\ stranded' = TRUE
    /\ UNCHANGED <<chatVars, target, client, serviceVars, task, overlap>>

----------------------------------------------------------------------------
(* maybe_handle_ai_chat_node *)

KeepWatch == UNCHANGED <<open, shut, watch>>
KeepChat == UNCHANGED chatVars

(* Steps of t that change nothing but t, its place at most. *)
Stays == UNCHANGED <<chatVars, target, client, serviceVars, news, overlap>>
Moves(t, pc) == task' = Goes(t, pc) /\ Stays

At(t, pc) == task[t].pc = pc

(* The chat is read; begin_turn looks at the shutdown token and only then awaits
   the turn table. *)
Fetch(t) ==
    /\ At(t, "fetch") /\ Stays
    /\ \/ /\ NoMishap /\ UNCHANGED stranded
          /\ task' = IF status = "processing" /\ task[t].gen \notin shut THEN Goes(t, "claim")
                     ELSE [task EXCEPT ![t] = NoTask]
       \/ Mishap /\ task' = [task EXCEPT ![t] = NoTask] /\ stranded' = TRUE

(* Mutant of Claim: a chat that is claimed already is claimed again. *)
MutClaimTaken(t) ==
    /\ At(t, "claim") /\ NoMishap
    /\ claim' = [claim EXCEPT ![task[t].gen] = t]
    /\ task' = Goes(t, "load")
    /\ KeepChat /\ KeepWatch /\ UNCHANGED <<target, client, news, stranded, overlap>>

(* A refusal is final: where the turn that still holds the chat has written its
   `idle` already, nothing is left to take the request up. *)
Claim(t) ==
    /\ At(t, "claim") /\ NoMishap
    /\ LET g == task[t].gen IN
       IF claim[g] = None
       THEN /\ claim' = [claim EXCEPT ![g] = t]
            /\ task' = Goes(t, "load")
            /\ UNCHANGED stranded
       ELSE /\ task' = [task EXCEPT ![t] = NoTask]
            /\ stranded' = (stranded \/ task[claim[g]].pc \in {"clear", "end"})
            /\ UNCHANGED claim
    /\ KeepChat /\ KeepWatch /\ UNCHANGED <<target, client, news, overlap>>

(* write_ai_chat_turn_status: t writes `idle` and goes on, or the write fails. *)
WritesIdle(t, done, failed) ==
    /\ \/ NoMishap /\ status' = "idle" /\ Wrote(task[t].gen, Goes(t, done))
       \/ Mishap /\ task' = Goes(t, failed) /\ UNCHANGED <<status, news>>
    /\ UNCHANGED <<title, msgs, target, client, serviceVars, overlap>>

----------------------------------------------------------------------------
(* run_ai_chat_turn: the answer to a held delete *)

(* The delete the last but one message holds, which the last one answers. *)
Held == Len(msgs) > 1 /\ msgs[Len(msgs) - 1].held /\ target.there

Answer == IF ~Held THEN "infer"
          ELSE CASE Last(msgs).says = "yes" -> "check"
                 [] Last(msgs).says = "no"  -> "reply"
                 [] OTHER -> "lapse"

(* Mutant of Unanswerable: a chat with nothing to answer is let go as it is. *)
MutLetGo == "end"

(* Where a turn goes that finds no message of the user to answer. *)
Unanswerable == "settle"

(* The look at the last message before a turn and the load at its start are one
   step: a chat with nothing to answer, or one that cannot be read, is reset. *)
Load(t) ==
    /\ At(t, "load") /\ UNCHANGED stranded
    /\ \/ /\ NoMishap /\ LastIsUser /\ Stays
          /\ task' = [task EXCEPT ![t].pc = Answer,
                                  ![t].to = Len(msgs),
                                  ![t].question = IF Held THEN Len(msgs) - 1 ELSE 0,
                                  ![t].hold = IF Held THEN msgs[Len(msgs) - 1].hold ELSE NoHold]
       \/ NoMishap /\ ~LastIsUser /\ Moves(t, Unanswerable)
       \/ Mishap /\ Moves(t, Unanswerable)

(* execute_confirmed: the target is compared with what was shown, then deleted
   under the version that was shown. *)
Check(t) ==
    /\ At(t, "check") /\ UNCHANGED stranded
    /\ \/ NoMishap /\ Moves(t, IF target.there /\ task[t].hold = Preview THEN "delete" ELSE "reply")
       \/ Mishap /\ Moves(t, "reply")

(* Mutant of AtShownVersion: the delete trusts the check before it. *)
MutAnyVersion(k) == TRUE

AtShownVersion(k) == target.ver = k.hold.ver

DeleteTarget(t) ==
    /\ At(t, "delete") /\ UNCHANGED stranded
    /\ \/ /\ NoMishap
          /\ target' = [target EXCEPT !.there = @ /\ ~AtShownVersion(task[t])]
       \/ Mishap /\ UNCHANGED target
    /\ task' = Goes(t, "reply")
    /\ UNCHANGED <<chatVars, client, serviceVars, news, overlap>>

(* clear_pending_deletions, at the end of an answer or before the model runs *)
Clear(t) ==
    /\ task[t].pc \in {"clear", "lapse"} /\ UNCHANGED stranded
    /\ \/ NoMishap /\ msgs' = [msgs EXCEPT ![task[t].question].held = FALSE]
       \/ Mishap /\ UNCHANGED msgs
    /\ task' = IF At(t, "clear") THEN Goes(t, "end")
               ELSE [task EXCEPT ![t].pc = "infer", ![t].question = 0, ![t].hold = NoHold]
    /\ UNCHANGED <<status, title, target, client, serviceVars, news, overlap>>

----------------------------------------------------------------------------
(* run_ai_chat_turn: the model, the reply, the status *)

(* A tool asks to delete the target and is held: preview_deletion. Bound: nothing is
   asked that no message is left to answer. *)
HoldDelete(t) ==
    /\ At(t, "infer") /\ NoMishap /\ UNCHANGED stranded /\ Stays
    /\ target.there /\ task[t].hold = NoHold /\ Sends < MaxSends
    /\ task' = [task EXCEPT ![t].hold = Preview]

(* The model is done, it fails, or the turn's token is cancelled. *)
EndInference(t) ==
    /\ At(t, "infer") /\ UNCHANGED stranded /\ Stays
    /\ \E pc \in {"reply", "apology"} \cup (IF task[t].cut THEN {"settle"} ELSE {}) :
           /\ task' = [task EXCEPT ![t].pc = pc, ![t].cut = FALSE,
                                   ![t].hold = IF pc = "reply" THEN @ ELSE NoHold]
           /\ IF pc = "apology" THEN Mishap ELSE NoMishap

(* append_message; what follows when it stores nothing depends on the message. *)
Stores(t, m, failed) ==
    /\ UNCHANGED stranded
    /\ \/ NoMishap /\ msgs' = Append(msgs, m) /\ task' = [task EXCEPT ![t].pc = "status",
                                                                    ![t].hold = NoHold]
       \/ Mishap /\ UNCHANGED msgs /\ task' = [task EXCEPT ![t].pc = failed, ![t].hold = NoHold]
    /\ UNCHANGED <<status, title, target, client, serviceVars, news, overlap>>

Reply(t) == At(t, "reply") /\ Stores(t, FromTurn(task[t]), "notice")
Notice(t) == At(t, "notice") /\ Stores(t, Excuse(task[t]), "settle")
Apology(t) == At(t, "apology") /\ Stores(t, Excuse(task[t]), "settle")

AfterIdle(t) == IF task[t].question = 0 THEN "end" ELSE "clear"

Status(t) == At(t, "status") /\ WritesIdle(t, AfterIdle(t), "settle") /\ UNCHANGED stranded

Settle(t) ==
    /\ At(t, "settle") /\ WritesIdle(t, AfterIdle(t), AfterIdle(t))
    /\ stranded' = (stranded \/ mishaps' # mishaps)

(* Mutant of Released: end_turn is left out. *)
MutKept(t) == claim

Released(t) == [claim EXCEPT ![task[t].gen] = None]

(* end_turn; a turn of the model is followed by a look at the title. *)
End(t) ==
    /\ At(t, "end") /\ NoMishap
    /\ claim' = Released(t)
    /\ task' = IF task[t].to # 0 /\ task[t].question = 0 /\ title = "none"
               THEN [task EXCEPT ![t] = [NoTask EXCEPT !.pc = "quiet", !.gen = task[t].gen]]
               ELSE [task EXCEPT ![t] = NoTask]
    /\ KeepChat /\ KeepWatch /\ UNCHANGED <<target, client, news, stranded, overlap>>

----------------------------------------------------------------------------
(* maybe_generate_title *)

TITLE_MESSAGE_THRESHOLD == 3

(* No turn is live, and none begins for a while, or a shutdown ends the wait; the
   chat is read again, and the model may give no title. *)
GenerateTitle(t) ==
    /\ At(t, "quiet") /\ NoMishap /\ UNCHANGED stranded /\ Stays
    /\ (\A u \in Tasks : task[u].pc \notin Live) \/ task[t].gen \in shut
    /\ \/ /\ task' = Goes(t, "title")
          /\ \A u \in Tasks : task[u].pc \notin Live
          /\ title = "none" /\ Len(msgs) >= TITLE_MESSAGE_THRESHOLD
       \/ task' = [task EXCEPT ![t] = NoTask]

(* write_title_if_still_untitled: a read, and a write at the version read. *)
ReadTitle(t) ==
    /\ At(t, "title") /\ NoMishap /\ UNCHANGED stranded /\ Stays
    /\ task' = IF title = "none" THEN [task EXCEPT ![t].pc = "put", ![t].fresh = TRUE]
               ELSE [task EXCEPT ![t] = NoTask]

(* Mutant of AtReadVersion: the title is written whatever the version. *)
MutAnyTitle(t) == TRUE

AtReadVersion(t) == task[t].fresh

(* A lost race is read again, or given up after the third. *)
PutTitle(t) ==
    /\ At(t, "put") /\ NoMishap
    /\ \/ /\ AtReadVersion(t)
          /\ title' = "generated"
          /\ Wrote(task[t].gen, [task EXCEPT ![t] = NoTask])
       \/ /\ ~AtReadVersion(t)
          /\ task' = Goes(t, "title") \/ task' = [task EXCEPT ![t] = NoTask]
          /\ UNCHANGED <<title, news>>
    /\ UNCHANGED <<status, msgs, target, client, serviceVars, stranded, overlap>>

----------------------------------------------------------------------------
TurnStep(t) ==
    \/ Fetch(t) \/ Claim(t)
    \/ Load(t) \/ Check(t) \/ DeleteTarget(t) \/ Clear(t)
    \/ HoldDelete(t) \/ EndInference(t)
    \/ Reply(t) \/ Notice(t) \/ Apology(t) \/ Status(t) \/ Settle(t) \/ End(t)

TitleStep(t) == GenerateTitle(t) \/ ReadTitle(t) \/ PutTitle(t)

Watcher(g) ==
    \/ ScanQuery(g) \/ ScanLook(g) \/ ScanReset(g)
    \/ Lagged(g)
    \/ \E t \in Tasks : ScanClaim(g, t) \/ Deliver(g, t)

Others ==
    \/ \E c \in Clients : Type(c) \/ StoreMessage(c) \/ AskTurn(c)
    \/ Cancel \/ Rename \/ ChangeTarget
    \/ Open \/ Close \/ Crash

Next ==
    \/ \E t \in Tasks : TurnStep(t) \/ TitleStep(t)
    \/ \E g \in Opens : Watcher(g)
    \/ Others

Spec == Init /\ [][Next]_vars

(* The runtime keeps running the spawned tasks and the watchers. Nobody owes a
   message, a cancel, a close, a reopening or a crash. *)
Fairness ==
    /\ \A t \in Tasks : WF_vars(TurnStep(t)) /\ WF_vars(TitleStep(t))
    /\ \A g \in Opens : WF_vars(Watcher(g))

FairSpec == Spec /\ Fairness

----------------------------------------------------------------------------
(* Properties *)

(* The fields take their values, and a service set's turn table names a task just
   while that task's turn runs there (begin_turn to end_turn). *)
TypeOK ==
    /\ status \in {"idle", "processing"} /\ title \in {"none", "user", "generated"}
    /\ \A i \in DOMAIN msgs : msgs[i].to \in 0 .. i - 1 /\ (msgs[i].held => msgs[i].hold # NoHold)
    /\ client \in [Clients -> {"idle", "typed", "stored"}]
    /\ open.gen \in 0 .. MaxOpens /\ open.up \in BOOLEAN
    /\ shut \subseteq Opens
    /\ news \in [Opens -> BOOLEAN]
    /\ claim \in [Opens -> Tasks \cup {None}]
    /\ \A g \in Opens, t \in Tasks : claim[g] = t <=> task[t].gen = g /\ task[t].pc \in Claimed
    /\ mishaps \in 0 .. MaxMishaps

(* A user message is answered once: not by the event and the recovery scan both,
   not by the events of two writes, and not again after a crash that found the
   reply stored and the chat still `processing` (begin_turn, recover_stuck_turns,
   run_ai_chat_turn). Excepted are service sets opened over a turn of the last. *)
AnsweredOnce ==
    \A i, j \in DOMAIN msgs :
        i # j /\ msgs[i].to # 0 /\ msgs[i].to = msgs[j].to => overlap

(* A node the model asked to delete goes only by a yes to the question that
   directly precedes it, at the version that question showed, whoever edits the
   node meanwhile and whatever became of other questions (pending_deletion_answer,
   execute_confirmed). *)
DeletedAsShown ==
    [][target.there /\ ~target'.there
         => \E t \in Tasks :
              LET said == task[t].to IN
              /\ At(t, "delete")
              /\ msgs[said].says = "yes"
              /\ msgs[said - 1].hold.ver = target.ver]_vars

(* A title the user gave is never replaced by a generated one
   (write_title_if_still_untitled). *)
UserTitleKept == [][title = "user" => title' = "user"]_vars

(* A chat that asks for a turn is unlocked again, if the service set stays up:
   by the event, by the recovery scan of a set opened over it, or by the reset of
   a chat with nothing to answer. Excepted are a store call that failed, an event
   lost, and a claim refused by a turn that was past its last write. *)
EventuallyIdle ==
    status = "processing" /\ IsUp ~> (status = "idle" \/ ~IsUp \/ stranded)

(* execute_confirmed promises that nothing the user did not see is removed: the
   nodes below the target are as many as the question showed. *)
NothingUnseenDeleted ==
    [][target.there /\ ~target'.there
         => \E t \in Tasks : At(t, "delete") /\ task[t].hold.kids = target.kids]_vars

=============================================================================
