--------------------------- MODULE OutlineWindow ---------------------------
(* The node tree together with one desktop window that writes nothing itself:
   it loaded the tree once and follows it by the relationship events of other
   callers' writes (ReactiveStructureTree behind TauriSyncListener). The events
   of one write are heard in order and, here, in one step.

   Left out: the window's own writes and their optimistic keys, loading the
   tree again, and events the stream loses. *)
EXTENDS NodeTree

VARIABLES
    window,     \* the edges of the window's structure tree
    crossed,    \* history: some write was published before an older one
    astray      \* history: nodes that some write was not fully announced for

windowVars == <<window, crossed, astray>>
allVars == <<vars, windowVars>>

----------------------------------------------------------------------------
(* What the window does with the events of a write *)

(* updateChildOrder: a child that is not under that parent is left alone. *)
Rekeyed(w, updated) ==
    {IF \E u \in updated : u.parent = e.parent /\ u.child = e.child
     THEN CHOOSE u \in updated : u.parent = e.parent /\ u.child = e.child
     ELSE e : e \in w}

(* addChild: a child known under another parent is taken away from there. *)
Added(w, created) == {e \in w : \A x \in created : e.child # x.child} \cup created

(* removeChild *)
Removed(w, deleted) == {e \in w : <<e.parent, e.child>> \notin deleted}

Heard(w, note) == Removed(Added(Rekeyed(w, note.updated), note.created), note.deleted)

----------------------------------------------------------------------------
(* Writes that are not fully announced *)

(* A node moved to another parent, by an event that says it was updated *)
Reparented(c) ==
    IF call[c].op \in {"move", "gather"} /\ call[c].dest # Top
    THEN {n \in Range(call[c].ns) : Parents(edges, n) # {call[c].dest}} ELSE {}

(* An edge that was there already, announced with the key it did not get *)
Ignored(c) ==
    IF call[c].op = "attach" /\ call[c].dest \in Parents(edges, Node(c)) THEN {Node(c)} ELSE {}

(* An edge deleted by a call that had not seen it *)
Unseen(c) ==
    IF call[c].op = "detach" /\ call[c].seen = {} THEN {Node(c)} ELSE {}

(* A node with two parents, which the window has no place for *)
Doubled == {n \in nodes' : Cardinality(Parents(edges', n)) > 1}

----------------------------------------------------------------------------
(* The window has followed the tree so far; of two parents it knows one. *)
WindowInit ==
    /\ Init
    /\ \E w \in SUBSET edges :
          /\ \A e, f \in w : e.child = f.child => e = f
          /\ Children(w) = Children(edges)
          /\ window = w
    /\ crossed = FALSE
    /\ astray = {n \in nodes : Cardinality(Parents(edges, n)) > 1}

Write(c) ==
    /\ Writes(c)
    /\ astray' = astray \cup Reparented(c) \cup Ignored(c) \cup Unseen(c) \cup Doubled
    /\ UNCHANGED <<window, crossed>>

Tell(c) ==
    /\ Publish(c)
    /\ window' = Heard(window, call[c].note)
    /\ crossed' = (crossed \/ Head(pending) # c)
    /\ UNCHANGED astray

WindowNext ==
    \E c \in Callers :
        \/ Asks(c) /\ UNCHANGED windowVars
        \/ Unwritten(c) /\ UNCHANGED windowVars
        \/ Write(c)
        \/ Tell(c)

WindowSpec == WindowInit /\ [][WindowNext]_allVars

----------------------------------------------------------------------------
(* Properties of the window *)

Settled == pending = <<>> /\ ~crossed

(* Unless writes were published crosswise, the window has every node where the
   store has it once all is published: under its parents, with the store's key for
   every edge the two share, so the re-spread siblings of a placement were announced
   with it. Excepted are nodes that some write was not fully announced for. *)
WindowAgrees ==
    Settled =>
        /\ \A n \in nodes \ astray : Parents(window, n) \cap nodes = Parents(edges, n)
        /\ \A e \in edges, w \in window :
              e.child \notin astray /\ w.parent = e.parent /\ w.child = e.child => w = e

(* "so a consumer that inserts-then-deletes never sees the node parentless
   mid-move" (emit_move_events): once a move is published, the window has the
   node under its parent. *)
WindowFollows ==
    Settled =>
        \A n \in nodes :
            Cardinality(Parents(edges, n)) = 1 => Parents(window, n) = Parents(edges, n)

=============================================================================
