------------------------------ MODULE NodeTree ------------------------------
(* The node tree of one database: nodes with a version, and has_child edges
   that carry a fractional order key. Callers (windows, the CLI, plays) create,
   edit, move, reorder, attach, detach and delete nodes at the same time.

   Every write has three steps. It is checked against pooled readers, it is
   checked again and committed in one transaction under the write guard, and
   after the guard is released what it did is published, so two writes may be
   published in the other order than they were committed in.

   Keys are the code's floating-point numbers scaled to integers: Unit stands
   for 1.0 and MinGap for MIN_GAP. Left out: the structural rules of types,
   collections and their memberships, titles, date pages that are created on
   first use, and has_child edges with a key of the caller's own. *)
EXTENDS Integers, FiniteSets, Sequences, FiniteSetsExt, Functions

CONSTANTS
    Nodes,          \* ids
    Spare,          \* the ids of nodes yet to be created
    Top,            \* no parent: where a root is
    First, Last,    \* InsertPosition: Beginning and End; After(n) is n itself
    Callers,
    Unit, MinGap,
    Attempts,       \* SUBTREE_DELETE_ATTEMPTS
    Outlines,       \* the trees a run may start from, as sets of edges
    MaxRequests     \* bound: writes that are asked for

Edges == [parent : Nodes, child : Nodes, key : Int]

ASSUME KeyAssumption == Unit \in Nat /\ MinGap \in 2 .. Unit
ASSUME NameAssumption == {Top, First, Last} \cap Nodes = {} /\ First # Last
ASSUME BoundAssumption == Attempts \in Nat \ {0} /\ MaxRequests \in Nat

VARIABLES
    nodes,      \* the nodes that exist
    version,    \* node -> its version, 0 before it is created
    edges,      \* the has_child edges
    call,       \* caller -> its write under way
    pending,    \* callers whose write is committed and not published, oldest first
    issued      \* writes asked for so far

vars == <<nodes, version, edges, call, pending, issued>>

----------------------------------------------------------------------------
(* Reading the tree *)

Parents(es, n) == {e.parent : e \in {e \in es : e.child = n}}
Kids(es, p) == {e.child : e \in {e \in es : e.parent = p}}

(* get_parent_id: LIMIT 1 picks one of several parents. *)
OneParent(es, n) == IF Parents(es, n) = {} THEN {Top} ELSE Parents(es, n)

(* HAS_CHILD_CYCLE_SQL and SUBTREE_DESCENDANTS_SQL: the least set that holds
   the children of n and is closed under children. *)
Children(es) == {e.child : e \in es}
Below(es, n) ==
    {m \in Children(es) : \A S \in SUBSET Children(es) :
        (\A e \in es : e.parent \in S \cup {n} => e.child \in S) => m \in S}
Subtree(es, n) == {n} \cup Below(es, n)

(* idx_rel_unique: two nodes have at most one between them. *)
Single(es) == \A e, f \in es : e.parent = f.parent /\ e.child = f.child => e = f

KeysApart(es) == \A e, f \in es : e.parent = f.parent /\ e.key = f.key => e = f

Loopless(es) == \A S \in SUBSET Nodes \ {{}} : \E n \in S : Parents(es, n) \cap S = {}

(* A run starts from a database whose tree is sound. *)
ASSUME OutlineAssumption ==
    \A es \in Outlines :
        /\ es \subseteq Edges /\ IsFiniteSet(es)
        /\ \A e \in es : {e.parent, e.child} \cap Spare = {}
        /\ Single(es) /\ KeysApart(es) /\ Loopless(es)

----------------------------------------------------------------------------
(* Order keys *)

Siblings(es, p, n) == {e \in es : e.parent = p /\ e.child # n}
KeysOf(E) == {e.key : e \in E}

(* calculate_order with one neighbour or none. *)
KeyFirst(E) == IF E = {} THEN Unit ELSE Min(KeysOf(E)) - Unit
KeyLast(E) == IF E = {} THEN Unit ELSE Max(KeysOf(E)) + Unit

AnchorKey(E, s) == (CHOOSE e \in E : e.child = s).key
KeysAfter(E, s) == {k \in KeysOf(E) : k > AnchorKey(E, s)}

(* Mutant of Crowded: the gap is bisected however small it is. *)
CrowdedNever(E, pos) == FALSE

(* The gap behind the anchor is too small to be bisected. *)
Crowded(E, pos) ==
    /\ pos \in {e.child : e \in E}
    /\ KeysAfter(E, pos) # {} /\ Min(KeysAfter(E, pos)) - AnchorKey(E, pos) < MinGap

(* respread_children: the keys of p's children become 1.0, 2.0, ... *)
Respread(es, p) ==
    {IF e.parent # p THEN e
     ELSE [e EXCEPT !.key = Unit * Cardinality({f \in es : f.parent = p /\ f.key <= e.key})] :
        e \in es}

(* What a placement of n under p leaves of the keys before it writes its own. *)
Roomy(es, n, p, pos) == IF Crowded(Siblings(es, p, n), pos) THEN Respread(es, p) ELSE es

(* The key the placement writes; a sibling that is not there means last. *)
KeyFor(es, n, p, pos) ==
    LET E == Siblings(es, p, n) IN
    IF pos = First THEN KeyFirst(E)
    ELSE IF pos \notin {e.child : e \in E} \/ KeysAfter(E, pos) = {} THEN
        IF pos \in {e.child : e \in E} THEN AnchorKey(E, pos) + Unit ELSE KeyLast(E)
    ELSE (AnchorKey(E, pos) + Min(KeysAfter(E, pos))) \div 2

EdgeFor(es, n, p, pos) ==
    [parent |-> p, child |-> n, key |-> KeyFor(Roomy(es, n, p, pos), n, p, pos)]

(* Mutant of Place: the edge to the old parent is left in place. *)
PlaceBeside(es, n, p, pos, old) ==
    IF p = Top THEN {e \in es : e.child # n}
    ELSE {e \in Roomy(es, n, p, pos) : e.child # n \/ e.parent # p}
             \cup {EdgeFor(es, n, p, pos)}

(* move_node_in_tx: the edges once n, found under old, is placed under p. *)
Place(es, n, p, pos, old) ==
    IF p = Top THEN {e \in es : e.child # n}
    ELSE {e \in Roomy(es, n, p, pos) : e.child # n \/ (old = p /\ e.parent # p)}
             \cup {EdgeFor(es, n, p, pos)}

(* ChildPlacement::respread: the other children whose key was rewritten. *)
Spread(es, n, p, pos) ==
    IF p = Top THEN {} ELSE {e \in Roomy(es, n, p, pos) \ es : e.child # n}

----------------------------------------------------------------------------
(* Calls *)

Silent == [updated |-> {}, created |-> {}, deleted |-> {}]

Idle == [op |-> "idle", step |-> "idle", ns |-> <<>>, dest |-> Top, pos |-> First,
         saw |-> <<>>, seen |-> {}, tries |-> 0, note |-> Silent]

Ready(c, op) == call[c].step = "ready" /\ call[c].op = op
Node(c) == call[c].ns[1]

(* The versions a write works from: those of S, of no node if it has none. *)
Versions(S) == [n \in S |-> version[n]]

Init ==
    /\ edges \in Outlines
    /\ nodes = Nodes \ Spare
    /\ version = [n \in Nodes |-> IF n \in nodes THEN 1 ELSE 0]
    /\ call = [c \in Callers |-> Idle]
    /\ pending = <<>>
    /\ issued = 0

----------------------------------------------------------------------------
(* The checks before the transaction. One that refuses changes nothing, so only
   the calls they let through are steps; the version a client names is then the
   one the check has just read. *)

Ask(c, k) ==
    /\ call[c].step = "idle" /\ issued < MaxRequests
    /\ issued' = issued + 1
    /\ call' = [call EXCEPT ![c] = [k EXCEPT !.step = "ready"]]
    /\ UNCHANGED <<nodes, version, edges, pending>>

(* The positions among the children of p; a root has none. *)
Positions(n, p) == IF p = Top THEN {First} ELSE {First, Last} \cup (nodes \ {n})

AskEdit(c, n) ==
    /\ n \in nodes
    /\ Ask(c, [Idle EXCEPT !.op = "edit", !.ns = <<n>>, !.saw = Versions({n})])

(* move_node and, without versions, move_node_unchecked *)
AskMove(c, n) ==
    /\ n \in nodes
    /\ \E p \in {Top} \cup (nodes \ Subtree(edges, n)), S \in {{n}, {}} :
          \E pos \in Positions(n, p) :
             Ask(c, [Idle EXCEPT !.op = "move", !.ns = <<n>>, !.dest = p, !.pos = pos,
                                 !.saw = Versions(S)])

AskReorder(c, n) ==
    /\ n \in nodes
    /\ \E p \in Parents(edges, n) :
          \E pos \in {First, Last} \cup (Kids(edges, p) \ {n}) :
             Ask(c, [Idle EXCEPT !.op = "reorder", !.ns = <<n>>, !.pos = pos,
                                 !.saw = Versions({n})])

(* move_children_to_parent: children of any parents, in the order to be *)
AskGather(c, ns) ==
    /\ \A n \in Range(ns) : Parents(edges, n) # {}
    /\ \E p \in nodes \ UNION {Subtree(edges, n) : n \in Range(ns)} :
          Ask(c, [Idle EXCEPT !.op = "gather", !.ns = ns, !.dest = p,
                              !.saw = Versions(Range(ns))])

(* create_placed_node: ids are fresh, and a stale sibling means last. *)
AskCreate(c, n) ==
    /\ version[n] = 0
    /\ \A d \in Callers : call[d].op = "create" => Node(d) # n
    /\ \E p \in {Top} \cup nodes :
          \E pos \in Positions(n, p) :
             Ask(c, [Idle EXCEPT !.op = "create", !.ns = <<n>>, !.dest = p,
                                 !.pos = IF pos \in nodes \ Kids(edges, p) THEN Last ELSE pos])

(* create_parent_edge: at the end of the parent it has, there is nothing to do. *)
AskRelink(c, n) ==
    \E p \in nodes :
        \E pos \in Positions(n, p) :
            /\ pos = Last => OneParent(edges, n) # {p}
            /\ Ask(c, [Idle EXCEPT !.op = "relink", !.ns = <<n>>, !.dest = p, !.pos = pos])

(* create_relationship(p, has_child, n): a second parent is refused here only. *)
AskAttach(c, n) ==
    /\ n \in nodes /\ Parents(edges, n) = {}
    /\ \E p \in nodes : Ask(c, [Idle EXCEPT !.op = "attach", !.ns = <<n>>, !.dest = p])

(* delete_relationship(p, has_child, n): whether the edge was there is read now. *)
AskDetach(c, n) ==
    \E p \in nodes : Ask(c, [Idle EXCEPT !.op = "detach", !.ns = <<n>>, !.dest = p,
                                         !.seen = {p} \cap Parents(edges, n)])

(* delete_node: the subtree that is checked for access and then deleted *)
AskDeleteTree(c, n) ==
    /\ n \in nodes
    /\ Ask(c, [Idle EXCEPT !.op = "tree", !.ns = <<n>>, !.seen = Subtree(edges, n),
                           !.saw = Versions({n})])

AskDeleteLeaf(c, n) ==
    /\ n \in nodes
    /\ Ask(c, [Idle EXCEPT !.op = "leaf", !.ns = <<n>>, !.saw = Versions({n})])

----------------------------------------------------------------------------
(* The checks inside the transaction *)

(* Mutant of Current: the version is not looked at again. *)
CurrentUnchecked(k) == DOMAIN k.saw \subseteq nodes

Current(k) == \A n \in DOMAIN k.saw : n \in nodes /\ version[n] = k.saw[n]

(* Mutant of NoCycle: the check before the transaction is enough. *)
NoCycleUnchecked(k) == TRUE

(* validate_no_cycle_in_tx; a child gathered earlier in the same call is below
   the new parent, never above it, so the tree before the call decides. *)
NoCycle(k) == \A n \in Range(k.ns) : k.dest \notin Subtree(edges, n)

(* Mutant of NewHome: the parent may have been deleted meanwhile. *)
NewHomeUnchecked(k) == TRUE

NewHome(k) == k.dest \in nodes \cup {Top}

(* Mutant of LeafStill: a child attached since is not looked for. *)
LeafStillUnchecked(k) == TRUE

LeafStill(k) == Kids(edges, k.ns[1]) = {}

Allowed(k) ==
    /\ Current(k)
    /\ \/ k.op \in {"edit", "detach", "tree"}
       \/ k.op \in {"move", "relink", "attach"} /\ k.ns[1] \in nodes /\ NewHome(k) /\ NoCycle(k)
       \/ k.op = "reorder" /\ Parents(edges, k.ns[1]) # {}
       \/ k.op = "gather" /\ NewHome(k) /\ NoCycle(k)
                          /\ \A n \in Range(k.ns) : Parents(edges, n) # {}
       \/ k.op = "create" /\ NewHome(k)
       \/ k.op = "leaf" /\ LeafStill(k)

(* The transaction fails, or finds nothing to delete. *)
Refused(c) ==
    /\ call[c].step = "ready" /\ ~Allowed(call[c])
    /\ call' = [call EXCEPT ![c] = Idle]
    /\ UNCHANGED <<nodes, version, edges, pending, issued>>

----------------------------------------------------------------------------
(* The transactions *)

(* The call commits: the edges are es, and note is what it will publish. *)
Commit(c, es, note) ==
    /\ Allowed(call[c])
    /\ edges' = es
    /\ call' = [call EXCEPT ![c] = [Idle EXCEPT !.step = "done", !.saw = call[c].saw,
                                                !.note = note]]
    /\ pending' = Append(pending, c)
    /\ UNCHANGED issued

(* update_node_with_version_bump_in_tx for the nodes the call is versioned on *)
Bump(c) ==
    version' = [n \in Nodes |-> IF n \in DOMAIN call[c].saw THEN version[n] + 1 ELSE version[n]]

Edit(c) ==
    /\ Ready(c, "edit")
    /\ Commit(c, edges, Silent) /\ Bump(c) /\ UNCHANGED nodes

(* Mutant of Former: the replaced edge is announced for a new parent only. *)
FormerOfReparented(n, p, old) == IF old = Top \/ p = Top THEN {} ELSE {<<old, n>>} \ {<<p, n>>}

(* emit_former_parent_deleted *)
Former(n, p, old) == IF old = Top THEN {} ELSE {<<old, n>>} \ {<<p, n>>}

(* move_existing_node, announced by emit_move_events *)
Move(c) ==
    LET n == Node(c)
        p == call[c].dest
        pos == call[c].pos
    IN
    /\ Ready(c, "move")
    /\ \E old \in OneParent(edges, n) :
          Commit(c, Place(edges, n, p, pos, old),
                 [updated |-> Spread(edges, n, p, pos)
                                  \cup (IF p = Top THEN {} ELSE {EdgeFor(edges, n, p, pos)}),
                  created |-> {}, deleted |-> Former(n, p, old)])
    /\ Bump(c) /\ UNCHANGED nodes

(* reorder_node: within whichever parent the node has by now *)
Reorder(c) ==
    LET n == Node(c)
        pos == call[c].pos
    IN
    /\ Ready(c, "reorder")
    /\ \E p \in Parents(edges, n) :
          Commit(c, Place(edges, n, p, pos, p),
                 [Silent EXCEPT !.updated = Spread(edges, n, p, pos)
                                                \cup {EdgeFor(edges, n, p, pos)}])
    /\ Bump(c) /\ UNCHANGED nodes

(* Mutant of GatherBase: the new parent is taken for empty. *)
GatherBaseEmpty(es, p) == 0

(* The key the gathered children come after. *)
GatherBase(es, p) == KeyLast({e \in es : e.parent = p}) - Unit

(* move_children_to_parent: the children, in order, behind those of dest *)
Gather(c) ==
    LET ns == call[c].ns
        p == call[c].dest
        new == {[parent |-> p, child |-> ns[i], key |-> GatherBase(edges, p) + i * Unit] :
                   i \in DOMAIN ns}
    IN
    /\ Ready(c, "gather")
    /\ Commit(c, {e \in edges : e.child \notin Range(ns)} \cup new,
              [Silent EXCEPT !.updated = new])
    /\ Bump(c) /\ UNCHANGED nodes

(* create_placed_node: the node and its edge in one transaction *)
Create(c) ==
    LET n == Node(c)
        p == call[c].dest
        pos == call[c].pos
    IN
    /\ Ready(c, "create")
    /\ nodes' = nodes \cup {n}
    /\ version' = [version EXCEPT ![n] = 1]
    /\ Commit(c, Place(edges, n, p, pos, Top),
              [Silent EXCEPT !.updated = Spread(edges, n, p, pos),
                             !.created = IF p = Top THEN {} ELSE {EdgeFor(edges, n, p, pos)}])

(* create_parent_edge; a move may have put the node there by now. *)
Relink(c) ==
    LET n == Node(c)
        p == call[c].dest
        pos == call[c].pos
    IN
    /\ Ready(c, "relink")
    /\ \E old \in OneParent(edges, n) :
          IF pos = Last /\ old = p THEN Commit(c, edges, Silent)
          ELSE Commit(c, Place(edges, n, p, pos, old),
                      [updated |-> Spread(edges, n, p, pos),
                       created |-> {EdgeFor(edges, n, p, pos)},
                       deleted |-> Former(n, p, old)])
    /\ UNCHANGED <<nodes, version>>

(* append_child_edge: INSERT OR IGNORE, announced with its key all the same *)
Attach(c) ==
    LET n == Node(c)
        p == call[c].dest
        new == [parent |-> p, child |-> n, key |-> KeyLast({e \in edges : e.parent = p})]
    IN
    /\ Ready(c, "attach")
    /\ Commit(c, IF p \in Parents(edges, n) THEN edges ELSE edges \cup {new},
              [Silent EXCEPT !.created = {new}])
    /\ UNCHANGED <<nodes, version>>

(* delete_generic_relationship, announced if the edge was there when asked *)
Detach(c) ==
    LET n == Node(c)
        p == call[c].dest
    IN
    /\ Ready(c, "detach")
    /\ Commit(c, {e \in edges : e.child # n \/ e.parent # p},
              [Silent EXCEPT !.deleted = call[c].seen \X {n}])
    /\ UNCHANGED <<nodes, version>>

(* The rows of S are deleted; the foreign keys take their edges along. *)
Delete(c, S) ==
    /\ nodes' = nodes \ S
    /\ Commit(c, {e \in edges : e.parent \notin S /\ e.child \notin S}, Silent)
    /\ UNCHANGED version

(* Mutant of SeenStill: what was collected is deleted without another walk. *)
SeenStillUnchecked(k) == TRUE

SeenStill(k) == k.seen = Subtree(edges, k.ns[1])

(* delete_subtree_atomic *)
DeleteTree(c) == Ready(c, "tree") /\ SeenStill(call[c]) /\ Delete(c, call[c].seen)

(* SubtreeChanged: nothing is deleted, and the call tries again or gives up. *)
SubtreeChanged(c) ==
    /\ Ready(c, "tree") /\ Allowed(call[c]) /\ ~SeenStill(call[c])
    /\ call' = [call EXCEPT ![c] = IF call[c].tries + 1 < Attempts
                                   THEN [call[c] EXCEPT !.step = "again",
                                                        !.tries = call[c].tries + 1]
                                   ELSE Idle]
    /\ UNCHANGED <<nodes, version, edges, pending, issued>>

(* delete_node collects the subtree anew and has it checked for access again. *)
Recollect(c) ==
    /\ call[c].step = "again"
    /\ call' = [call EXCEPT ![c] = [call[c] EXCEPT !.step = "ready",
                                                   !.seen = Subtree(edges, Node(c))]]
    /\ UNCHANGED <<nodes, version, edges, pending, issued>>

(* delete_leaf_atomic *)
DeleteLeaf(c) == Ready(c, "leaf") /\ Delete(c, {Node(c)})

(* publish_committed, after the guard is released; then the call returns. *)
Publish(c) ==
    /\ call[c].step = "done"
    /\ call' = [call EXCEPT ![c] = Idle]
    /\ \E i \in DOMAIN pending :
          /\ pending[i] = c
          /\ pending' = [j \in 1 .. Len(pending) - 1 |->
                            IF j < i THEN pending[j] ELSE pending[j + 1]]
    /\ UNCHANGED <<nodes, version, edges, issued>>

----------------------------------------------------------------------------
Asks(c) ==
    \/ \E n \in nodes :
          \/ AskEdit(c, n) \/ AskMove(c, n) \/ AskReorder(c, n) \/ AskRelink(c, n)
          \/ AskAttach(c, n) \/ AskDetach(c, n) \/ AskDeleteTree(c, n) \/ AskDeleteLeaf(c, n)
    \/ \E n, m \in nodes : AskGather(c, IF n = m THEN <<n>> ELSE <<n, m>>)
    \/ \E n \in Nodes \ nodes : AskCreate(c, n)

Writes(c) ==
    \/ Edit(c) \/ Move(c) \/ Reorder(c) \/ Gather(c) \/ Create(c) \/ Relink(c)
    \/ Attach(c) \/ Detach(c) \/ DeleteTree(c) \/ DeleteLeaf(c)

Unwritten(c) == Refused(c) \/ SubtreeChanged(c) \/ Recollect(c)

Next == \E c \in Callers : Asks(c) \/ Writes(c) \/ Unwritten(c) \/ Publish(c)

Spec == Init /\ [][Next]_vars

----------------------------------------------------------------------------
(* Properties *)

(* Types: edges join nodes that exist, of which each pair has one, and only
   nodes that were once created have a version. *)
TypeOK ==
    /\ nodes \subseteq Nodes /\ version \in [Nodes -> Nat]
    /\ edges \subseteq Edges /\ \A e \in edges : {e.parent, e.child} \subseteq nodes
    /\ Single(edges)
    /\ \A n \in nodes : version[n] > 0
    /\ issued \in 0 .. MaxRequests
    /\ \A c \in Callers :
          /\ call[c].step \in {"idle", "ready", "again", "done"}
          /\ DOMAIN call[c].saw \subseteq Nodes /\ call[c].tries < Attempts
          /\ call[c].step = "done" <=> c \in Range(pending)

(* Moves that cross never close a loop (ADR-069: validate_no_cycle_in_tx reads
   the state it writes): any group of nodes has one without a parent in it. *)
NoLoops == Loopless(edges)

(* No two children of a parent ever share an order key, whatever inserts, moves
   and re-spreads meet, so "after this sibling" always has one meaning. *)
KeysDistinct == KeysApart(edges)

(* Of two writes that both went through, no two worked from the same version of
   a node (update_node_with_version_bump_in_tx, delete_subtree_atomic): one of
   them would have overwritten the other unseen. *)
NoLostWrite ==
    \A c, d \in Callers :
        c # d /\ call[c].step = "done" /\ call[d].step = "done" =>
            \A n \in DOMAIN call[c].saw \cap DOMAIN call[d].saw :
                call[c].saw[n] # call[d].saw[n]

Committing(c) == call[c].step = "ready" /\ call'[c].step = "done"

(* A deletion takes what the call was shown and had checked for access, and
   that is the node and all that is below it when it goes ("computed once and
   shared so the two never see different sets"). *)
DeletesWhatWasShown ==
    [][\A c \in Callers : Committing(c) /\ nodes' # nodes /\ call[c].op \in {"tree", "leaf"} =>
          /\ nodes \ nodes' = Subtree(edges, Node(c))
          /\ call[c].op = "tree" => nodes \ nodes' = call[c].seen]_vars

(* No node loses its last parent but by a write that asks for it: not to the
   deletion of a parent it was just moved to, and not half way through a move
   ("a silently-orphaned root", move_node). *)
NoSilentRoots ==
    [][\A n \in nodes \cap nodes' :
          Parents(edges, n) # {} /\ Parents(edges', n) = {} =>
              \E c \in Callers :
                  /\ Committing(c) /\ Node(c) = n
                  /\ \/ call[c].op = "move" /\ call[c].dest = Top
                     \/ call[c].op = "detach" /\ Parents(edges, n) = {call[c].dest}]_vars

(* n is where pos asks among the children of p. *)
Stands(es, n, p, pos) ==
    LET key == (CHOOSE e \in es : e.parent = p /\ e.child = n).key
        others == KeysOf(Siblings(es, p, n))
    IN
    IF pos = First THEN \A k \in others : key < k
    ELSE IF pos \in Kids(es, p) \ {n} THEN
        LET anchor == AnchorKey(Siblings(es, p, n), pos) IN
        anchor < key /\ \A k \in others : k <= anchor \/ key < k
    ELSE \A k \in others : k < key

(* Where the node that c places is in es, the list as the write leaves it *)
Landed(c, es) ==
    LET k == call[c] IN
    CASE k.op \in {"move", "create", "relink"} -> Stands(es, Node(c), k.dest, k.pos)
      [] k.op = "reorder" -> \E p \in Parents(es, Node(c)) : Stands(es, Node(c), p, k.pos)
      [] k.op = "gather" ->
            \A i \in DOMAIN k.ns :
                Stands({e \in es : e.child \notin {k.ns[j] : j \in i + 1 .. Len(k.ns)}},
                       k.ns[i], k.dest, Last)
      [] OTHER -> TRUE

(* A node that is placed stands where the call asked, in the list as it is by
   then, through any number of insertions at one spot; gathered children stand
   last in the order they were given. *)
LandsWhereAsked ==
    [][\A c \in Callers :
          Committing(c) /\ edges' # edges /\ (call[c].op = "reorder" \/ call[c].dest # Top)
              => Landed(c, edges')]_vars

(* Every write does to the lists of children what Outline lets it do. *)
O == INSTANCE Outline WITH
        kids <- {<<e.parent, e.child>> : e \in edges},
        before <- {<<x[1].parent, x[1].child, x[2].child>> :
                      x \in {x \in edges \X edges :
                                x[1].parent = x[2].parent /\ x[1].key < x[2].key}}

OutlineSpec == O!Spec

=============================================================================
