------------------------ MODULE OutlineWindowProofs ------------------------
(***************************************************************************)
(* Proofs about OutlineWindow, for every sound tree to start from, any     *)
(* number of callers and writes, and any number of writes that are not yet *)
(* published: a window that hears of the writes in the order they were     *)
(* committed in comes to have the tree of the store.                       *)
(***************************************************************************)
EXTENDS OutlineWindow, NodeTreeProofs

-----------------------------------------------------------------------------
(* What a window does with the events of a write *)

(* The children it has then: those it had and those it was told of, less those it was
   told were gone. *)
LEMMA HeardKids ==
    ASSUME NEW w, NEW note, NEW p, NEW n
    PROVE  IsKid(Heard(w, note), p, n) <=>
               /\ \/ IsKid(w, p, n) /\ \A x \in note.created : x.child # n
                  \/ IsKid(note.created, p, n)
               /\ <<p, n>> \notin note.deleted
  <1> DEFINE R == Rekeyed(w, note.updated)
             A == Added(R, note.created)
  <1>1. IsKid(R, p, n) <=> IsKid(w, p, n)
    <2> DEFINE To(e) == IF \E u \in note.updated : u.parent = e.parent /\ u.child = e.child
                        THEN CHOOSE u \in note.updated : u.parent = e.parent /\ u.child = e.child
                        ELSE e
    <2>1. \A e \in w : To(e).parent = e.parent /\ To(e).child = e.child
      OBVIOUS
    <2>2. R = {To(e) : e \in w}
      BY DEF Rekeyed
    <2> HIDE DEF To, R
    <2>3. QED BY <2>1, <2>2 DEF IsKid
  <1> HIDE DEF R
  <1>2. IsKid(A, p, n) <=> \/ IsKid(R, p, n) /\ \A x \in note.created : x.child # n
                           \/ IsKid(note.created, p, n)
    BY DEF Added, IsKid
  <1> HIDE DEF A
  <1>3. IsKid(Removed(A, note.deleted), p, n) <=> IsKid(A, p, n) /\ <<p, n>> \notin note.deleted
    BY DEF Removed, IsKid
  <1>4. Heard(w, note) = Removed(A, note.deleted)
    BY DEF Heard, A, R
  <1>5. QED BY <1>1, <1>2, <1>3, <1>4

(* Where the edges it has then are from *)
LEMMA HeardEdges ==
    ASSUME NEW w, NEW note, NEW x \in Heard(w, note)
    PROVE  \/ x \in note.created
           \/ /\ IsKid(w, x.parent, x.child) /\ \A y \in note.created : y.child # x.child
              /\ x \in note.updated \/ (x \in w /\ ~IsKid(note.updated, x.parent, x.child))
  <1> DEFINE R == Rekeyed(w, note.updated)
  <1>1. x \in Added(R, note.created)
    BY DEF Heard, Removed
  <1>2. CASE x \in note.created
    BY <1>2
  <1>3. CASE x \notin note.created
    <2>1. x \in R /\ \A y \in note.created : y.child # x.child
      <3> HIDE DEF R
      <3>1. QED BY <1>1, <1>3 DEF Added
    <2> DEFINE To(e) == IF \E u \in note.updated : u.parent = e.parent /\ u.child = e.child
                        THEN CHOOSE u \in note.updated : u.parent = e.parent /\ u.child = e.child
                        ELSE e
    <2>2. PICK e \in w : x = To(e)
      BY <2>1 DEF Rekeyed
    <2>3. CASE \E u \in note.updated : u.parent = e.parent /\ u.child = e.child
      <3>1. x \in note.updated /\ x.parent = e.parent /\ x.child = e.child
        BY <2>2, <2>3
      <3>2. QED BY <2>1, <3>1 DEF IsKid
    <2>4. CASE ~\E u \in note.updated : u.parent = e.parent /\ u.child = e.child
      <3>1. x = e
        BY <2>2, <2>4
      <3>2. QED BY <2>1, <2>4, <3>1 DEF IsKid
    <2>5. QED BY <2>3, <2>4
  <1>4. QED BY <1>2, <1>3

-----------------------------------------------------------------------------
(* A window w agrees with the nodes ns, of versions vs, and their edges es, but for the
   children in lost. *)
Agrees(w, ns, vs, es, lost) ==
    /\ \A x \in w : {x.parent, x.child} \subseteq {n \in Nodes : vs[n] > 0}
    /\ \A n \in ns \ lost, p \in ns : IsKid(w, p, n) <=> IsKid(es, p, n)
    /\ \A e \in es, x \in w :
          e.child \notin lost /\ x.parent = e.parent /\ x.child = e.child => x = e

(* The events of a write that leaves the nodes ns with the edges fs, of es, tell a window
   all that it must know of the children that are not in lost. *)
Announced(note, ns, vs, es, fs, lost) ==
    /\ note.updated \subseteq fs
    /\ \A x \in note.created : /\ {x.parent, x.child} \subseteq {n \in Nodes : vs[n] > 0}
                               /\ x \in fs \/ x.child \in lost
    /\ \A n \in ns \ lost, p \in ns :
          IsKid(fs, p, n) <=>
              /\ \/ IsKid(es, p, n) /\ \A x \in note.created : x.child # n
                 \/ IsKid(note.created, p, n)
              /\ <<p, n>> \notin note.deleted
    /\ \A f \in fs : f.child \notin lost => f \in note.updated \cup note.created \cup es

(* A window that agreed before a write that is announced agrees when it has heard of it. *)
LEMMA HeardAgrees ==
    ASSUME NEW w, NEW ns, NEW ns2, NEW vs, NEW vs2, NEW es, NEW fs, NEW lost, NEW lost2,
           NEW note, Agrees(w, ns, vs, es, lost), Announced(note, ns2, vs2, es, fs, lost2),
           Tree(fs), lost \subseteq lost2, \A n \in Nodes : vs[n] > 0 => vs2[n] > 0,
           \A n \in ns2 : n \in ns \/ ~(vs[n] > 0),
           \A e \in es : e.parent \in ns /\ e.child \in ns,
           \A f \in fs : {f.parent, f.child} \subseteq {n \in Nodes : vs2[n] > 0}
    PROVE  Agrees(Heard(w, note), ns2, vs2, fs, lost2)
  <1> DEFINE v == Heard(w, note)
             Known == {n \in Nodes : vs2[n] > 0}
  <1>1. \A x \in v : \/ x \in note.created
                     \/ /\ IsKid(w, x.parent, x.child) /\ \A y \in note.created : y.child # x.child
                        /\ \/ x \in note.updated
                           \/ x \in w /\ ~IsKid(note.updated, x.parent, x.child)
    BY HeardEdges
  <1>2. \A p, n : IsKid(v, p, n) <=>
            /\ \/ IsKid(w, p, n) /\ \A x \in note.created : x.child # n
               \/ IsKid(note.created, p, n)
            /\ <<p, n>> \notin note.deleted
    BY HeardKids
  <1> HIDE DEF v
  <1>3. \A x \in v : {x.parent, x.child} \subseteq Known
    <2> SUFFICES ASSUME NEW x \in v
                 PROVE  {x.parent, x.child} \subseteq Known
      OBVIOUS
    <2>1. CASE x \in note.created
      BY <2>1 DEF Announced
    <2>2. CASE x \in note.updated
      <3>1. x \in fs
        BY <2>2 DEF Announced
      <3>2. QED BY <3>1
    <2>3. CASE x \in w
      <3>1. {x.parent, x.child} \subseteq {n \in Nodes : vs[n] > 0}
        BY <2>3 DEF Agrees
      <3>2. QED BY <3>1
    <2>4. QED BY <1>1, <2>1, <2>2, <2>3
  <1>4. ASSUME NEW n \in ns2 \ lost2, NEW p \in ns2
        PROVE  IsKid(v, p, n) <=> IsKid(fs, p, n)
    <2>1. IsKid(w, p, n) <=> IsKid(es, p, n)
      <3>1. CASE n \in ns /\ p \in ns
        BY <3>1 DEF Agrees
      <3>2. CASE ~(n \in ns /\ p \in ns)
        <4>1. ~(vs[n] > 0) \/ ~(vs[p] > 0)
          BY <3>2
        <4>2. ~IsKid(w, p, n)
          BY <4>1 DEF Agrees, IsKid
        <4>3. ~IsKid(es, p, n)
          BY <3>2 DEF IsKid
        <4>4. QED BY <4>2, <4>3
      <3>3. QED BY <3>1, <3>2
    <2>2. IsKid(fs, p, n) <=>
              /\ \/ IsKid(es, p, n) /\ \A x \in note.created : x.child # n
                 \/ IsKid(note.created, p, n)
              /\ <<p, n>> \notin note.deleted
      BY DEF Announced
    <2>3. QED BY <1>2, <2>1, <2>2
  <1>5. ASSUME NEW f \in fs, NEW x \in v, f.child \notin lost2,
               x.parent = f.parent, x.child = f.child
        PROVE  x = f
    <2>1. x \in fs => x = f
      BY <1>5 DEF Tree, Single
    <2>2. CASE x \in note.created
      BY <1>5, <2>1, <2>2 DEF Announced
    <2>3. CASE x \in note.updated
      BY <2>1, <2>3 DEF Announced
    <2>4. CASE x \notin note.created /\ x \notin note.updated
      <3>1. /\ x \in w /\ \A y \in note.created : y.child # x.child
            /\ ~IsKid(note.updated, x.parent, x.child)
        BY <1>1, <2>4
      <3>2. f \notin note.created /\ f \notin note.updated
        BY <1>5, <3>1 DEF IsKid
      <3>3. f \in es
        BY <1>5, <3>2 DEF Announced
      <3>4. QED BY <1>5, <3>1, <3>3 DEF Agrees
    <2>5. QED BY <2>2, <2>3, <2>4
  <1>6. Agrees(v, ns2, vs2, fs, lost2)
    BY <1>3, <1>4, <1>5 DEF Agrees
  <1>7. QED BY <1>6 DEF v

-----------------------------------------------------------------------------
(* What each write is announced by *)

(* No child that is followed has two parents. *)
Lone(es, lost) ==
    \A e, f \in es : e.child = f.child /\ e.child \notin lost => e.parent = f.parent

(* The edges a placement leaves: old ones, those it spread, and the one it wrote. *)
LEMMA PlacedSources ==
    ASSUME NEW es, Tree(es), NEW n \in Nodes, NEW p \in Nodes \cup {Top}, NEW pos, NEW old
    PROVE  /\ Spread(es, n, p, pos) \subseteq Place(es, n, p, pos, old)
           /\ p = Top => Place(es, n, p, pos, old) \subseteq es
           /\ p # Top => /\ EdgeFor(es, n, p, pos) \in Place(es, n, p, pos, old)
                         /\ EdgeFor(es, n, p, pos).parent = p /\ EdgeFor(es, n, p, pos).child = n
                         /\ \A f \in Place(es, n, p, pos, old) :
                               \/ f \in es \/ f \in Spread(es, n, p, pos)
                               \/ f = EdgeFor(es, n, p, pos)
  <1>1. CASE p = Top
    BY <1>1 DEF Place, Spread
  <1>2. CASE p # Top
    <2> DEFINE R == Roomy(es, n, p, pos)
               new == EdgeFor(es, n, p, pos)
               fs == Place(es, n, p, pos, old)
    <2>1. /\ new \in fs /\ new.parent = p /\ new.child = n
          /\ \A f \in fs : f = new \/ (f \in R /\ (f.child # n \/ (old = p /\ f.parent # p)))
          /\ \A f \in R : f.child # n \/ (old = p /\ f.parent # p) => f \in fs
      BY <1>2, PlacedTree DEF Placed
    <2>2. Spread(es, n, p, pos) = {e \in R \ es : e.child # n}
      BY <1>2 DEF Spread
    <2>3. \A f \in R : f.parent # p => f \in es
      <3>1. CASE R = es
        BY <3>1
      <3>2. CASE R = Respread(es, p)
        BY <3>2, RespreadEdges
      <3>3. QED BY <3>1, <3>2 DEF Roomy
    <2> HIDE DEF R, new, fs
    <2>4. \A f \in fs : f \in es \/ f \in Spread(es, n, p, pos) \/ f = new
      BY <2>1, <2>2, <2>3
    <2>5. Spread(es, n, p, pos) \subseteq fs
      BY <2>1, <2>2
    <2>6. QED BY <1>2, <2>1, <2>4, <2>5 DEF new, fs
  <1>3. QED BY <1>1, <1>2

(* A write is announced by the note it commits with. *)
LEMMA NoteIs ==
    ASSUME TreeInv, NEW c \in Callers, NEW es, NEW note, Commit(c, es, note)
    PROVE  edges' = es /\ call'[c].note = note
  <1>1. DOMAIN call = Callers
    BY DEF TreeInv, Calls
  <1>2. call'[c] = [Idle EXCEPT !.step = "done", !.saw = call[c].saw, !.note = note]
    BY <1>1 DEF Commit
  <1>3. QED BY <1>2 DEF Commit, Idle

LEMMA SilentIs == Silent.updated = {} /\ Silent.created = {} /\ Silent.deleted = {}
  BY DEF Silent

(* Nothing need be told of nodes that go with their edges. *)
LEMMA SilentAnnounced ==
    ASSUME NEW ns, NEW vs, NEW es, NEW fs \in SUBSET es, NEW lost,
           \A e \in es : e.parent \in ns /\ e.child \in ns => e \in fs
    PROVE  Announced(Silent, ns, vs, es, fs, lost)
  <1>1. \A n \in ns, p \in ns : IsKid(fs, p, n) <=> IsKid(es, p, n)
    BY DEF IsKid
  <1>2. ~\E p, n : IsKid({}, p, n)
    BY DEF IsKid
  <1>3. QED BY <1>1, <1>2, SilentIs DEF Announced

LEMMA WriteFacts ==
    ASSUME TreeInv, TreeInv', NEW c \in Callers, Write(c)
    PROVE  /\ Tree(edges) /\ Tree(edges')
           /\ \A x \in edges' : {x.parent, x.child} \subseteq {n \in Nodes : version'[n] > 0}
           /\ astray' = astray \cup Reparented(c) \cup Ignored(c) \cup Unseen(c) \cup Doubled
  BY DEF TreeInv, Graph, Write

(* The children fs a placement of n under p leaves, with what is told of it *)
Told(note, n, p, pos, ns, es, fs, lost) ==
    /\ note.updated \cup note.created =
           Spread(es, n, p, pos) \cup (IF p = Top THEN {} ELSE {EdgeFor(es, n, p, pos)})
    /\ \A x \in note.created : x.child = n
    /\ \A q, m : <<q, m>> \in note.deleted => m = n
    /\ n \notin lost => \A q \in ns :
           IsKid(fs, q, n) <=>
               /\ \/ IsKid(es, q, n) /\ note.created = {}
                  \/ IsKid(note.created, q, n)
               /\ <<q, n>> \notin note.deleted

(* It is enough that the window is told of n itself: the siblings follow. *)
LEMMA PlaceAnnounced ==
    ASSUME TreeInv, TreeInv', NEW n \in Nodes, NEW p \in Nodes \cup {Top}, NEW pos, NEW old,
           edges' = Place(edges, n, p, pos, old), NEW note,
           Told(note, n, p, pos, nodes', edges, edges', astray')
    PROVE  Announced(note, nodes', version', edges, edges', astray')
  <1>1. Tree(edges) /\ Tree(edges')
    BY DEF TreeInv, Graph
  <1>2. \A x \in edges' : {x.parent, x.child} \subseteq {m \in Nodes : version'[m] > 0}
    BY DEF TreeInv, Graph
  <1>3. /\ Spread(edges, n, p, pos) \subseteq edges'
        /\ p = Top => edges' \subseteq edges
        /\ p # Top => /\ EdgeFor(edges, n, p, pos) \in edges'
                      /\ \A f \in edges' : \/ f \in edges \/ f \in Spread(edges, n, p, pos)
                                           \/ f = EdgeFor(edges, n, p, pos)
    BY <1>1, PlacedSources
  <1>4. note.updated \subseteq edges' /\ note.created \subseteq edges'
    BY <1>3 DEF Told
  <1>5. \A f \in edges' : f \in note.updated \cup note.created \cup edges
    BY <1>3 DEF Told
  <1>6. PutUnder(edges, edges', n, p, old)
    BY <1>1, PlacedLists
  <1>7. ASSUME NEW m \in nodes' \ astray', NEW q \in nodes'
        PROVE  IsKid(edges', q, m) <=>
                   /\ \/ IsKid(edges, q, m) /\ \A x \in note.created : x.child # m
                      \/ IsKid(note.created, q, m)
                   /\ <<q, m>> \notin note.deleted
    <2>1. CASE m = n
      <3>1. IsKid(edges', q, n) <=>
                /\ \/ IsKid(edges, q, n) /\ note.created = {}
                   \/ IsKid(note.created, q, n)
                /\ <<q, n>> \notin note.deleted
        BY <2>1 DEF Told
      <3>2. note.created = {} <=> \A x \in note.created : x.child # n
        BY DEF Told
      <3>3. QED BY <2>1, <3>1, <3>2
    <2>2. CASE m # n
      <3>1. IsKid(edges', q, m) <=> IsKid(edges, q, m)
        BY <1>6, <2>2 DEF PutUnder
      <3>2. ~IsKid(note.created, q, m) /\ \A x \in note.created : x.child # m
        BY <2>2 DEF IsKid, Told
      <3>3. <<q, m>> \notin note.deleted
        BY <2>2 DEF Told
      <3>4. QED BY <3>1, <3>2, <3>3
    <2>3. QED BY <2>1, <2>2
  <1>8. QED BY <1>2, <1>4, <1>5, <1>7 DEF Announced

LEMMA FormerIs ==
    ASSUME NEW n, NEW p, NEW old, NEW q, NEW m
    PROVE  <<q, m>> \in Former(n, p, old) <=> old # Top /\ q = old /\ m = n /\ old # p
  BY DEF Former

LEMMA MoveAnnounced ==
    ASSUME TreeInv, TreeInv', NEW c \in Callers, Write(c), Move(c), Lone(edges, astray)
    PROVE  Announced(call'[c].note, nodes', version', edges, edges', astray')
  <1> PICK n : n = Node(c)
    OBVIOUS
  <1> PICK p : p = call[c].dest
    OBVIOUS
  <1> PICK pos : pos = call[c].pos
    OBVIOUS
  <1>1. Ready(c, "move")
    BY DEF Move
  <1>2. /\ n \in Nodes /\ p \in Nodes \cup {Top} /\ call[c].op = "move"
        /\ Range(call[c].ns) = {n} /\ Top \notin Nodes
    <2>1. "move" # "idle" /\ "move" # "gather"
      OBVIOUS
    <2>2. /\ call[c].op = "move" /\ Asked(call[c]) /\ n \in Nodes
          /\ Range(call[c].ns) = {n}
      BY <1>1, <2>1, ReadyCall
    <2>3. p \in Nodes \cup {Top}
      BY <2>2 DEF Asked
    <2>4. QED BY <2>2, <2>3, NameAssumption
  <1>3. PICK old \in OneParent(edges, n) :
            Commit(c, Place(edges, n, p, pos, old),
                   [updated |-> Spread(edges, n, p, pos)
                                    \cup (IF p = Top THEN {} ELSE {EdgeFor(edges, n, p, pos)}),
                    created |-> {}, deleted |-> Former(n, p, old)])
    BY DEF Move
  <1> PICK note : note = [updated |-> Spread(edges, n, p, pos)
                                      \cup (IF p = Top THEN {} ELSE {EdgeFor(edges, n, p, pos)}),
                      created |-> {}, deleted |-> Former(n, p, old)]
    OBVIOUS
  <1>4. /\ note.updated = Spread(edges, n, p, pos)
                              \cup (IF p = Top THEN {} ELSE {EdgeFor(edges, n, p, pos)})
        /\ note.created = {} /\ note.deleted = Former(n, p, old)
    OBVIOUS
  <1>5. edges' = Place(edges, n, p, pos, old) /\ call'[c].note = note
    BY <1>3, NoteIs
  <1>6. Tree(edges) /\ PutUnder(edges, edges', n, p, old)
    BY <1>2, <1>5, WriteFacts, PlacedLists
  <1>7. ASSUME n \notin astray', NEW q \in nodes'
        PROVE  IsKid(edges', q, n) <=> IsKid(edges, q, n) /\ <<q, n>> \notin Former(n, p, old)
    <2>1. n \notin astray
      BY <1>7, WriteFacts
    <2>2. \A e \in edges : e.parent \in Nodes
      BY <1>6 DEF Tree, Edges
    <2>3. IsKid(edges', q, n) <=>
              (p # Top /\ q = p) \/ (IsKid(edges, q, n) /\ p # Top /\ old = p)
      BY <1>6 DEF PutUnder
    <2>4. CASE p = Top
      <3>1. IsKid(edges, q, n) => old # Top /\ q = old
        <4>1. SUFFICES ASSUME NEW e \in edges, e.parent = q, e.child = n
                       PROVE  old # Top /\ q = old
          BY DEF IsKid
        <4>2. old \in Parents(edges, n)
          BY <4>1 DEF OneParent, Parents
        <4>3. PICK f \in edges : f.child = n /\ f.parent = old
          BY <4>2 DEF Parents
        <4>4. QED BY <1>2, <2>1, <2>2, <4>1, <4>3 DEF Lone
      <3>2. QED BY <2>3, <2>4, <3>1, FormerIs
    <2>5. CASE p # Top
      <3>1. Parents(edges, n) = {p}
        <4>1. n \notin Reparented(c)
          BY <1>7, WriteFacts
        <4>2. QED BY <1>2, <2>5, <4>1 DEF Reparented
      <3>2. old = p
        BY <3>1 DEF OneParent
      <3>3. IsKid(edges, q, n) <=> q = p
        BY <3>1 DEF IsKid, Parents
      <3>4. QED BY <2>3, <2>5, <3>2, <3>3, FormerIs
    <2>6. QED BY <2>4, <2>5
  <1>8. \A q : ~IsKid(note.created, q, n)
    BY <1>4 DEF IsKid
  <1>9. Told(note, n, p, pos, nodes', edges, edges', astray')
    BY <1>4, <1>7, <1>8, FormerIs DEF Told
  <1>10. QED BY <1>2, <1>5, <1>9, PlaceAnnounced

LEMMA ReorderAnnounced ==
    ASSUME TreeInv, TreeInv', NEW c \in Callers, Write(c), Reorder(c)
    PROVE  Announced(call'[c].note, nodes', version', edges, edges', astray')
  <1> PICK n : n = Node(c)
    OBVIOUS
  <1> PICK pos : pos = call[c].pos
    OBVIOUS
  <1>1. Ready(c, "reorder")
    BY DEF Reorder
  <1>2. n \in Nodes /\ Top \notin Nodes /\ Tree(edges)
    BY <1>1, ReadyCall, NameAssumption, WriteFacts
  <1>3. PICK p \in Parents(edges, n) :
            Commit(c, Place(edges, n, p, pos, p),
                   [Silent EXCEPT !.updated = Spread(edges, n, p, pos)
                                                  \cup {EdgeFor(edges, n, p, pos)}])
    BY DEF Reorder
  <1> PICK note : note = [Silent EXCEPT !.updated = Spread(edges, n, p, pos)
                                                        \cup {EdgeFor(edges, n, p, pos)}]
    OBVIOUS
  <1>4. /\ note.updated = Spread(edges, n, p, pos) \cup {EdgeFor(edges, n, p, pos)}
        /\ note.created = {} /\ note.deleted = {}
    BY DEF Silent
  <1>5. edges' = Place(edges, n, p, pos, p) /\ call'[c].note = note
    BY <1>3, NoteIs
  <1>6. p \in Nodes /\ p # Top
    BY <1>2 DEF Parents, Tree, Edges
  <1>7. PutUnder(edges, edges', n, p, p)
    BY <1>2, <1>5, <1>6, PlacedLists
  <1>8. \A q : IsKid(edges', q, n) <=> IsKid(edges, q, n)
    <2>1. IsKid(edges, p, n)
      BY DEF Parents, IsKid
    <2>2. QED BY <1>6, <1>7, <2>1 DEF PutUnder
  <1>9. \A q : ~IsKid(note.created, q, n)
    BY <1>4 DEF IsKid
  <1>10. Told(note, n, p, pos, nodes', edges, edges', astray')
    BY <1>4, <1>6, <1>8, <1>9 DEF Told
  <1>11. QED BY <1>2, <1>5, <1>6, <1>10, PlaceAnnounced

LEMMA CreateAnnounced ==
    ASSUME TreeInv, TreeInv', NEW c \in Callers, Write(c), Create(c)
    PROVE  Announced(call'[c].note, nodes', version', edges, edges', astray')
  <1> PICK n : n = Node(c)
    OBVIOUS
  <1> PICK p : p = call[c].dest
    OBVIOUS
  <1> PICK pos : pos = call[c].pos
    OBVIOUS
  <1>1. Ready(c, "create")
    BY DEF Create
  <1>2. n \in Nodes /\ version[n] = 0 /\ p \in Nodes \cup {Top} /\ Tree(edges)
    BY <1>1, ReadyCall, WriteFacts DEF TreeInv, Calls, Fresh, Node, Asked
  <1> PICK note : note = [Silent EXCEPT !.updated = Spread(edges, n, p, pos),
                             !.created = IF p = Top THEN {} ELSE {EdgeFor(edges, n, p, pos)}]
    OBVIOUS
  <1>3. /\ note.updated = Spread(edges, n, p, pos) /\ note.deleted = {}
        /\ note.created = IF p = Top THEN {} ELSE {EdgeFor(edges, n, p, pos)}
    BY DEF Silent
  <1>4. edges' = Place(edges, n, p, pos, Top) /\ call'[c].note = note
    <2>1. Commit(c, Place(edges, n, p, pos, Top), note)
      BY DEF Create
    <2>2. QED BY <2>1, NoteIs
  <1>5. PutUnder(edges, edges', n, p, Top)
    BY <1>2, <1>4, PlacedLists
  <1>6. \A q : ~IsKid(edges, q, n)
    BY <1>2 DEF IsKid, TreeInv, Graph
  <1>7. \A q : IsKid(edges', q, n) <=> p # Top /\ q = p
    BY <1>5, <1>6 DEF PutUnder
  <1>8. p # Top => EdgeFor(edges, n, p, pos).parent = p /\ EdgeFor(edges, n, p, pos).child = n
    BY <1>2, PlacedSources
  <1>9. \A q : IsKid(note.created, q, n) <=> p # Top /\ q = p
    BY <1>3, <1>8 DEF IsKid
  <1>10. \A x \in note.created : x.child = n
    BY <1>3, <1>8
  <1>11. Told(note, n, p, pos, nodes', edges, edges', astray')
    BY <1>3, <1>6, <1>7, <1>9, <1>10 DEF Told
  <1>12. QED BY <1>2, <1>4, <1>11, PlaceAnnounced

LEMMA RelinkAnnounced ==
    ASSUME TreeInv, TreeInv', NEW c \in Callers, Write(c), Relink(c), Lone(edges, astray)
    PROVE  Announced(call'[c].note, nodes', version', edges, edges', astray')
  <1> PICK n : n = Node(c)
    OBVIOUS
  <1> PICK p : p = call[c].dest
    OBVIOUS
  <1> PICK pos : pos = call[c].pos
    OBVIOUS
  <1>1. Ready(c, "relink")
    BY DEF Relink
  <1>2. n \in Nodes /\ p \in Nodes /\ p # Top /\ Tree(edges) /\ Top \notin Nodes
    BY <1>1, ReadyCall, WriteFacts, NameAssumption DEF Asked
  <1>3. PICK old \in OneParent(edges, n) :
            IF pos = Last /\ old = p THEN Commit(c, edges, Silent)
            ELSE Commit(c, Place(edges, n, p, pos, old),
                        [updated |-> Spread(edges, n, p, pos),
                         created |-> {EdgeFor(edges, n, p, pos)},
                         deleted |-> Former(n, p, old)])
    BY DEF Relink
  <1>4. CASE Commit(c, edges, Silent)
    <2>1. edges' = edges /\ call'[c].note = Silent
      BY <1>4, NoteIs
    <2>2. Announced(Silent, nodes', version', edges, edges', astray')
      BY <2>1, SilentAnnounced
    <2>3. QED BY <2>1, <2>2
  <1>5. CASE Commit(c, Place(edges, n, p, pos, old),
                    [updated |-> Spread(edges, n, p, pos),
                     created |-> {EdgeFor(edges, n, p, pos)},
                     deleted |-> Former(n, p, old)])
    <2> PICK note : note = [updated |-> Spread(edges, n, p, pos),
                            created |-> {EdgeFor(edges, n, p, pos)},
                            deleted |-> Former(n, p, old)]
      OBVIOUS
    <2>1. /\ note.updated = Spread(edges, n, p, pos) /\ note.deleted = Former(n, p, old)
          /\ note.created = {EdgeFor(edges, n, p, pos)}
      OBVIOUS
    <2>2. edges' = Place(edges, n, p, pos, old) /\ call'[c].note = note
      BY <1>5, NoteIs
    <2>3. PutUnder(edges, edges', n, p, old)
      BY <1>2, <2>2, PlacedLists
    <2>4. EdgeFor(edges, n, p, pos).parent = p /\ EdgeFor(edges, n, p, pos).child = n
      BY DEF EdgeFor
    <2>5. \A q : IsKid(note.created, q, n) <=> q = p
      BY <2>1, <2>4 DEF IsKid
    <2>6. n \notin astray' => \A q : IsKid(edges', q, n) <=> q = p
      <3>1. SUFFICES ASSUME n \notin astray', NEW q, old = p, IsKid(edges, q, n)
                     PROVE  q = p
        BY <1>2, <2>3 DEF PutUnder
      <3>2. n \notin astray
        BY <3>1, WriteFacts
      <3>3. PICK e \in edges : e.parent = q /\ e.child = n
        BY <3>1 DEF IsKid
      <3>4. old \in Parents(edges, n)
        BY <1>2, <3>1 DEF OneParent
      <3>5. PICK f \in edges : f.parent = p /\ f.child = n
        BY <3>1, <3>4 DEF Parents
      <3>6. QED BY <3>2, <3>3, <3>5 DEF Lone
    <2>7. \A x \in note.created : x.child = n
      BY <2>1, <2>4
    <2>8. Told(note, n, p, pos, nodes', edges, edges', astray')
      <3>1. \A q, m : <<q, m>> \in note.deleted => m = n
        BY <2>1, FormerIs
      <3>2. <<p, n>> \notin note.deleted
        BY <2>1, FormerIs
      <3>3. note.created # {}
        BY <2>1
      <3>4. note.updated \cup note.created =
                Spread(edges, n, p, pos) \cup (IF p = Top THEN {} ELSE {EdgeFor(edges, n, p, pos)})
        BY <1>2, <2>1
      <3>5. QED BY <2>5, <2>6, <2>7, <3>1, <3>2, <3>3, <3>4 DEF Told
    <2>9. QED BY <1>2, <2>2, <2>8, PlaceAnnounced
  <1>6. QED BY <1>3, <1>4, <1>5

LEMMA QuietAnnounced ==
    ASSUME TreeInv, TreeInv', NEW c \in Callers, Write(c),
           Edit(c) \/ DeleteTree(c) \/ DeleteLeaf(c)
    PROVE  Announced(call'[c].note, nodes', version', edges, edges', astray')
  <1>1. CASE Edit(c)
    <2>1. edges' = edges /\ call'[c].note = Silent
      BY <1>1, NoteIs DEF Edit
    <2>2. Announced(Silent, nodes', version', edges, edges', astray')
      BY <2>1, SilentAnnounced
    <2>3. QED BY <2>1, <2>2
  <1>2. CASE DeleteTree(c) \/ DeleteLeaf(c)
    <2>1. PICK S : Delete(c, S)
      BY <1>2 DEF DeleteTree, DeleteLeaf
    <2>2. /\ nodes' = nodes \ S /\ call'[c].note = Silent
          /\ edges' = {e \in edges : e.parent \notin S /\ e.child \notin S}
      BY <2>1, NoteIs DEF Delete
    <2>3. edges' \in SUBSET edges
      BY <2>2
    <2>4. \A e \in edges : e.parent \in nodes' /\ e.child \in nodes' => e \in edges'
      BY <2>2
    <2>5. Announced(Silent, nodes', version', edges, edges', astray')
      BY <2>3, <2>4, SilentAnnounced
    <2>6. QED BY <2>2, <2>5
  <1>3. QED BY <1>1, <1>2

LEMMA GatherAnnounced ==
    ASSUME TreeInv, TreeInv', NEW c \in Callers, Write(c), Gather(c)
    PROVE  Announced(call'[c].note, nodes', version', edges, edges', astray')
  <1> PICK ns : ns = call[c].ns
    OBVIOUS
  <1> PICK p : p = call[c].dest
    OBVIOUS
  <1> PICK S : S = Range(ns)
    OBVIOUS
  <1> PICK G : G = GatheredEdges(edges, p, ns)
    OBVIOUS
  <1>1. Ready(c, "gather")
    BY DEF Gather
  <1>2. p \in Nodes /\ call[c].op = "gather" /\ Top \notin Nodes
    BY <1>1, ReadyCall, NameAssumption DEF Asked
  <1> PICK note : note = [Silent EXCEPT !.updated = G]
    OBVIOUS
  <1>3. note.updated = G /\ note.created = {} /\ note.deleted = {}
    BY DEF Silent
  <1>4. edges' = {e \in edges : e.child \notin S} \cup G /\ call'[c].note = note
    <2>1. Commit(c, {e \in edges : e.child \notin S} \cup G, note)
      BY DEF Gather, GatheredEdges
    <2>2. QED BY <2>1, NoteIs
  <1>5. \A f \in G : f.parent = p /\ f.child \in S
    BY DEF GatheredEdges, Range
  <1>6. \A m \in S : \E f \in G : f.parent = p /\ f.child = m
    <2>1. SUFFICES ASSUME NEW m \in S
                   PROVE  \E f \in G : f.parent = p /\ f.child = m
      OBVIOUS
    <2>2. PICK i \in DOMAIN ns : ns[i] = m
      BY DEF Range
    <2> DEFINE f == [parent |-> p, child |-> ns[i], key |-> GatherBase(edges, p) + i * Unit]
    <2>3. f.parent = p /\ f.child = m
      BY <2>2
    <2>4. f \in G
      BY DEF GatheredEdges
    <2> HIDE DEF f
    <2>5. QED BY <2>3, <2>4
  <1>7. \A q, n : ~IsKid(note.created, q, n)
    BY <1>3 DEF IsKid
  <1>8. ASSUME NEW n \in nodes' \ astray', NEW q \in nodes'
        PROVE  IsKid(edges', q, n) <=> IsKid(edges, q, n)
    <2>1. CASE n \notin S
      BY <1>4, <1>5, <2>1 DEF IsKid
    <2>2. CASE n \in S
      <3>1. n \notin Reparented(c)
        BY WriteFacts
      <3>2. Parents(edges, n) = {p}
        BY <1>2, <2>2, <3>1 DEF Reparented
      <3>3. IsKid(edges, q, n) <=> q = p
        BY <3>2 DEF IsKid, Parents
      <3>4. IsKid(edges', q, n) => q = p
        BY <1>4, <1>5, <2>2 DEF IsKid
      <3>5. IsKid(edges', p, n)
        <4>1. PICK f \in G : f.parent = p /\ f.child = n
          BY <1>6, <2>2
        <4>2. f \in edges'
          BY <1>4
        <4>3. QED BY <4>1, <4>2 DEF IsKid
      <3>6. QED BY <3>3, <3>4, <3>5
    <2>3. QED BY <2>1, <2>2
  <1>9. note.updated \subseteq edges' /\ \A f \in edges' : f \in note.updated \cup note.created \cup edges
    BY <1>3, <1>4
  <1>10. Announced(note, nodes', version', edges, edges', astray')
    BY <1>3, <1>7, <1>8, <1>9 DEF Announced
  <1>11. QED BY <1>4, <1>10

(* Parents that are not two are one. *)
LEMMA NotDoubled ==
    ASSUME TreeInv', NEW e \in edges', NEW f \in edges', e.child = f.child, e.child \notin Doubled
    PROVE  e.parent = f.parent
  <1> PICK n : n = e.child
    OBVIOUS
  <1> DEFINE P == Parents(edges', n)
  <1>1. IsFiniteSet(edges') /\ n \in nodes'
    BY DEF TreeInv, Graph, Tree
  <1>2. IsFiniteSet(P)
    <2> DEFINE E == {d \in edges' : d.child = n}
    <2>1. IsFiniteSet(E)
      <3>1. E \subseteq edges'
        OBVIOUS
      <3>2. QED BY <1>1, <3>1, FS_Subset
    <2> DEFINE up == [d \in E |-> d.parent]
    <2>2. P = {up[d] : d \in E}
      BY DEF Parents
    <2> HIDE DEF E, P
    <2>3. IsFiniteSet({up[d] : d \in E})
      <3>1. up \in Surjection(E, {up[d] : d \in E})
        BY DEF Surjection
      <3>2. QED BY <2>1, <3>1, FS_Surjection
    <2>4. QED BY <2>2, <2>3
  <1>3. e.parent \in P /\ f.parent \in P
    BY DEF Parents
  <1>4. ~(Cardinality(P) > 1)
    BY <1>1 DEF Doubled
  <1> HIDE DEF P
  <1>5. SUFFICES ASSUME e.parent # f.parent
                 PROVE  FALSE
    OBVIOUS
  <1> DEFINE Q == {e.parent, f.parent}
  <1>6. Q \subseteq P /\ Cardinality(Q) = 2 /\ IsFiniteSet(Q)
    <2>1. IsFiniteSet({e.parent}) /\ Cardinality({e.parent}) = 1
      BY FS_Singleton
    <2>2. /\ IsFiniteSet({e.parent} \cup {f.parent})
          /\ Cardinality({e.parent} \cup {f.parent}) = Cardinality({e.parent}) + 1
      BY <1>5, <2>1, FS_AddElement
    <2>3. Q = {e.parent} \cup {f.parent}
      OBVIOUS
    <2>4. QED BY <1>3, <2>1, <2>2, <2>3
  <1> HIDE DEF Q
  <1>7. Cardinality(Q) <= Cardinality(P) /\ Cardinality(P) \in Nat
    BY <1>2, <1>6, FS_Subset, FS_CardinalityType
  <1>8. QED BY <1>4, <1>6, <1>7

LEMMA AttachAnnounced ==
    ASSUME TreeInv, TreeInv', NEW c \in Callers, Write(c), Attach(c)
    PROVE  Announced(call'[c].note, nodes', version', edges, edges', astray')
  <1> PICK n : n = Node(c)
    OBVIOUS
  <1> PICK p : p = call[c].dest
    OBVIOUS
  <1> PICK new : new = [parent |-> p, child |-> n, key |-> KeyLast({e \in edges : e.parent = p})]
    OBVIOUS
  <1> PICK note : note = [Silent EXCEPT !.created = {new}]
    OBVIOUS
  <1>1. Ready(c, "attach")
    BY DEF Attach
  <1>2. /\ Allowed(call[c]) /\ call[c].op = "attach" /\ p \in Nodes /\ p # Top
        /\ nodes' = nodes /\ version' = version
    BY <1>1, ReadyCall, NameAssumption DEF Attach, Commit, Asked
  <1>3. n \in nodes /\ p \in nodes
    BY <1>2 DEF Allowed, NewHome, Node
  <1>4. new.parent = p /\ new.child = n
    OBVIOUS
  <1>5. note.updated = {} /\ note.created = {new} /\ note.deleted = {}
    BY DEF Silent
  <1>6. edges' = (IF p \in Parents(edges, n) THEN edges ELSE edges \cup {new}) /\ call'[c].note = note
    <2>1. Commit(c, IF p \in Parents(edges, n) THEN edges ELSE edges \cup {new}, note)
      BY DEF Attach
    <2>2. QED BY <2>1, NoteIs
  <1>7. \A q, m : IsKid(note.created, q, m) <=> q = p /\ m = n
    BY <1>4, <1>5 DEF IsKid
  <1>8. p \in Parents(edges, n) => n \in astray'
    BY <1>2, WriteFacts DEF Ignored
  <1>9. ASSUME NEW m \in nodes' \ astray', NEW q \in nodes'
        PROVE  IsKid(edges', q, m) <=>
                   (IsKid(edges, q, m) /\ \A x \in note.created : x.child # m)
                      \/ IsKid(note.created, q, m)
    <2>1. CASE m # n
      <3>1. IsKid(edges', q, m) <=> IsKid(edges, q, m)
        BY <1>4, <1>6, <2>1 DEF IsKid
      <3>2. QED BY <1>4, <1>5, <1>7, <2>1, <3>1
    <2>2. CASE m = n
      <3>1. edges' = edges \cup {new}
        BY <1>6, <1>8, <2>2
      <3>2. IsKid(edges', q, n) => q = p
        <4>1. SUFFICES ASSUME NEW e \in edges', e.parent = q, e.child = n
                       PROVE  q = p
          BY DEF IsKid
        <4>2. n \notin Doubled
          BY <2>2, WriteFacts
        <4>3. QED BY <1>4, <3>1, <4>1, <4>2, NotDoubled
      <3>3. IsKid(edges', p, n)
        BY <1>4, <3>1 DEF IsKid
      <3>4. \E x \in note.created : x.child = n
        BY <1>4, <1>5
      <3>5. QED BY <1>7, <2>2, <3>2, <3>3, <3>4
    <2>3. QED BY <2>1, <2>2
  <1>10. {new.parent, new.child} \subseteq {m \in Nodes : version'[m] > 0}
    BY <1>2, <1>3, <1>4 DEF TreeInv, Graph
  <1>11. new \in edges' \/ new.child \in astray'
    BY <1>4, <1>6, <1>8
  <1>12. \A f \in edges' : f \in note.created \cup edges
    BY <1>5, <1>6
  <1>13. Announced(note, nodes', version', edges, edges', astray')
    BY <1>5, <1>9, <1>10, <1>11, <1>12 DEF Announced
  <1>14. QED BY <1>6, <1>13

LEMMA DetachAnnounced ==
    ASSUME TreeInv, TreeInv', NEW c \in Callers, Write(c), Detach(c)
    PROVE  Announced(call'[c].note, nodes', version', edges, edges', astray')
  <1> PICK n : n = Node(c)
    OBVIOUS
  <1> PICK p : p = call[c].dest
    OBVIOUS
  <1> PICK note : note = [Silent EXCEPT !.deleted = call[c].seen \X {n}]
    OBVIOUS
  <1>1. Ready(c, "detach")
    BY DEF Detach
  <1>2. call[c].op = "detach" /\ call[c].seen \subseteq {p}
    BY <1>1, ReadyCall DEF Asked
  <1>3. note.updated = {} /\ note.created = {} /\ note.deleted = call[c].seen \X {n}
    BY DEF Silent
  <1>4. edges' = {e \in edges : e.child # n \/ e.parent # p} /\ call'[c].note = note
    <2>1. Commit(c, {e \in edges : e.child # n \/ e.parent # p}, note)
      BY DEF Detach
    <2>2. QED BY <2>1, NoteIs
  <1>5. n \notin astray' => call[c].seen = {p}
    <2>1. n \notin astray' => n \notin Unseen(c)
      BY WriteFacts
    <2>2. n \notin astray' => call[c].seen # {}
      BY <1>2, <2>1 DEF Unseen
    <2>3. QED BY <1>2, <2>2
  <1>6. \A q, m : IsKid(edges', q, m) <=> IsKid(edges, q, m) /\ (m # n \/ q # p)
    BY <1>4 DEF IsKid
  <1>7. \A q, m : ~IsKid(note.created, q, m)
    BY <1>3 DEF IsKid
  <1>8. ASSUME NEW m \in nodes' \ astray', NEW q \in nodes'
        PROVE  IsKid(edges', q, m) <=> IsKid(edges, q, m) /\ <<q, m>> \notin note.deleted
    <2>1. CASE m # n
      BY <1>3, <1>6, <2>1
    <2>2. CASE m = n
      BY <1>3, <1>5, <1>6, <2>2
    <2>3. QED BY <2>1, <2>2
  <1>9. Announced(note, nodes', version', edges, edges', astray')
    BY <1>3, <1>4, <1>7, <1>8 DEF Announced
  <1>10. QED BY <1>4, <1>9

-----------------------------------------------------------------------------
(* The invariant *)

(* ws are the windows there will be: the one there is, and after it one for each write
   that is yet to be published. *)
Following(ws) ==
    /\ ws[1] = window
    /\ \A i \in 1 .. Len(pending) : ws[i + 1] = Heard(ws[i], call[pending[i]].note)

(* The last of them agrees with the tree, unless writes were published crosswise. *)
WindowInv ==
    /\ Lone(edges, astray)
    /\ ~crossed => \E ws : /\ Following(ws)
                           /\ Agrees(ws[Len(pending) + 1], nodes, version, edges, astray)

LEMMA WindowInvInit == TreeInv /\ WindowInit => WindowInv
  <1> SUFFICES ASSUME TreeInv, WindowInit
               PROVE  WindowInv
    OBVIOUS
  <1>1. PICK w \in SUBSET edges : /\ \A e, f \in w : e.child = f.child => e = f
                                  /\ Children(w) = Children(edges) /\ window = w
    BY DEF WindowInit
  <1>2. Tree(edges) /\ pending = <<>> /\ nodes \subseteq Nodes
    BY DEF WindowInit, Init, TreeInv, Graph
  <1>3. Lone(edges, astray)
    <2>1. SUFFICES ASSUME NEW e \in edges, NEW f \in edges, e.child = f.child,
                          e.child \notin astray, e.parent # f.parent
                   PROVE  FALSE
      BY DEF Lone
    <2> PICK n : n = e.child
      OBVIOUS
    <2> DEFINE P == Parents(edges, n)
               Q == {e.parent, f.parent}
    <2>2. n \in nodes /\ ~(Cardinality(P) > 1)
      BY <2>1 DEF WindowInit, TreeInv, Graph
    <2>3. IsFiniteSet(P)
      <3> DEFINE E == {d \in edges : d.child = n}
      <3>1. IsFiniteSet(E)
        <4>1. E \subseteq edges
          OBVIOUS
        <4>2. QED BY <1>2, <4>1, FS_Subset DEF Tree
      <3> DEFINE up == [d \in E |-> d.parent]
      <3>2. P = {up[d] : d \in E}
        BY DEF Parents
      <3> HIDE DEF E, P
      <3>3. IsFiniteSet({up[d] : d \in E})
        <4>1. up \in Surjection(E, {up[d] : d \in E})
          BY DEF Surjection
        <4>2. QED BY <3>1, <4>1, FS_Surjection
      <3>4. QED BY <3>2, <3>3
    <2>4. e.parent \in P /\ f.parent \in P
      BY <2>1 DEF Parents
    <2> HIDE DEF P
    <2>5. Q \subseteq P /\ Cardinality(Q) = 2
      <3>1. IsFiniteSet({e.parent}) /\ Cardinality({e.parent}) = 1
        BY FS_Singleton
      <3>2. Cardinality({e.parent} \cup {f.parent}) = Cardinality({e.parent}) + 1
        BY <2>1, <3>1, FS_AddElement
      <3>3. Q = {e.parent} \cup {f.parent}
        OBVIOUS
      <3>4. QED BY <2>4, <3>1, <3>2, <3>3
    <2> HIDE DEF Q
    <2>6. Cardinality(Q) <= Cardinality(P) /\ Cardinality(P) \in Nat
      BY <2>3, <2>5, FS_Subset, FS_CardinalityType
    <2>7. QED BY <2>2, <2>5, <2>6
  <1>4. Agrees(w, nodes, version, edges, astray)
    <2>1. \A x \in w : {x.parent, x.child} \subseteq {n \in Nodes : version[n] > 0}
      BY <1>1 DEF TreeInv, Graph
    <2>2. ASSUME NEW n \in nodes \ astray, NEW p \in nodes
          PROVE  IsKid(w, p, n) <=> IsKid(edges, p, n)
      <3>1. ASSUME IsKid(edges, p, n)
            PROVE  IsKid(w, p, n)
        <4>1. PICK e \in edges : e.parent = p /\ e.child = n
          BY <3>1 DEF IsKid
        <4>2. n \in Children(w)
          BY <1>1, <4>1 DEF Children
        <4>3. PICK f \in w : f.child = n
          BY <4>2 DEF Children
        <4>4. f.parent = p
          BY <1>3, <4>1, <4>3 DEF Lone
        <4>5. QED BY <4>3, <4>4 DEF IsKid
      <3>2. QED BY <3>1 DEF IsKid
    <2>3. \A e \in edges, x \in w : x.parent = e.parent /\ x.child = e.child => x = e
      BY <1>2 DEF Tree, Single
    <2>4. QED BY <2>1, <2>2, <2>3 DEF Agrees
  <1> DEFINE ws == [i \in {1} |-> w]
  <1>5. Following(ws) /\ ws[Len(pending) + 1] = w
    BY <1>1, <1>2 DEF Following
  <1> HIDE DEF ws
  <1>6. QED BY <1>3, <1>4, <1>5 DEF WindowInv

(* A write makes no version 0 again, and no node but a new one. *)
LEMMA WriteKeepsVersions ==
    ASSUME TreeInv, NEW c \in Callers, Writes(c)
    PROVE  /\ \A n \in Nodes : version[n] > 0 => version'[n] > 0
           /\ \A n \in nodes' : n \in nodes \/ ~(version[n] > 0)
  <1>1. version \in [Nodes -> Nat]
    BY DEF TreeInv, Graph
  <1>2. CASE Edit(c) \/ Move(c) \/ Reorder(c) \/ Gather(c)
    <2>1. nodes' = nodes /\ Bump(c)
      BY <1>2 DEF Edit, Move, Reorder, Gather
    <2>2. \A n \in Nodes : version'[n] \in {version[n], version[n] + 1}
      BY <2>1 DEF Bump
    <2>3. QED BY <1>1, <2>1, <2>2
  <1>3. CASE Create(c)
    <2>1. Ready(c, "create")
      BY <1>3 DEF Create
    <2>2. Node(c) \in Nodes /\ version[Node(c)] = 0
      BY <2>1, ReadyCall DEF TreeInv, Calls, Fresh, Node
    <2>3. nodes' = nodes \cup {Node(c)} /\ version' = [version EXCEPT ![Node(c)] = 1]
      BY <1>3 DEF Create
    <2>4. QED BY <1>1, <2>2, <2>3
  <1>4. CASE Relink(c) \/ Attach(c) \/ Detach(c) \/ DeleteTree(c) \/ DeleteLeaf(c)
    <2>1. nodes' \subseteq nodes /\ version' = version
      BY <1>4 DEF Relink, Attach, Detach, DeleteTree, DeleteLeaf, Delete
    <2>2. QED BY <2>1
  <1>5. QED BY <1>2, <1>3, <1>4 DEF Writes

(* Whatever a write does, a window that followed until then agrees with the tree again
   when it has heard of it. *)
LEMMA WriteIsFollowed ==
    ASSUME TreeInv, TreeInv', NEW c \in Callers, Write(c), Lone(edges, astray), NEW w,
           Agrees(w, nodes, version, edges, astray)
    PROVE  Agrees(Heard(w, call'[c].note), nodes', version', edges', astray')
  <1>1. Announced(call'[c].note, nodes', version', edges, edges', astray')
    BY MoveAnnounced, ReorderAnnounced, CreateAnnounced, RelinkAnnounced, QuietAnnounced,
       GatherAnnounced, AttachAnnounced, DetachAnnounced DEF Write, Writes
  <1>2. /\ Tree(edges') /\ astray \subseteq astray'
        /\ \A f \in edges' : {f.parent, f.child} \subseteq {n \in Nodes : version'[n] > 0}
    BY WriteFacts
  <1>3. \A e \in edges : e.parent \in nodes /\ e.child \in nodes
    BY DEF TreeInv, Graph
  <1>4. /\ \A n \in Nodes : version[n] > 0 => version'[n] > 0
        /\ \A n \in nodes' : n \in nodes \/ ~(version[n] > 0)
    BY WriteKeepsVersions DEF Write
  <1>5. QED BY <1>1, <1>2, <1>3, <1>4, HeardAgrees

LEMMA WritesQueue ==
    ASSUME NEW c \in Callers, Writes(c)
    PROVE  pending' = Append(pending, c)
  <1>1. \E es, note : Commit(c, es, note)
    <2>1. CASE Relink(c)
      <3>1. \E old \in OneParent(edges, Node(c)) : \E es, note : Commit(c, es, note)
        BY <2>1 DEF Relink
      <3>2. QED BY <3>1
    <2>2. CASE Edit(c) \/ Move(c) \/ Reorder(c) \/ Gather(c) \/ Create(c)
      BY <2>2 DEF Edit, Move, Reorder, Gather, Create
    <2>3. CASE Attach(c) \/ Detach(c) \/ DeleteTree(c) \/ DeleteLeaf(c)
      BY <2>3 DEF Attach, Detach, DeleteTree, DeleteLeaf, Delete
    <2>4. QED BY <2>1, <2>2, <2>3 DEF Writes
  <1>2. QED BY <1>1 DEF Commit

(* Of the windows there will be, a write adds one. *)
LEMMA WriteKeeps ==
    ASSUME TreeInv, TreeInv', NEW c \in Callers, Write(c), WindowInv
    PROVE  WindowInv'
  <1>1. Writes(c) /\ UNCHANGED <<window, crossed>>
    BY DEF Write
  <1>2. /\ call[c].step = "ready" /\ \A d \in Callers \ {c} : call'[d] = call[d]
        /\ pending' = Append(pending, c)
    BY <1>1, WriteCommits, WritesQueue
  <1> PICK L : L = Len(pending)
    OBVIOUS
  <1>3. /\ L \in Nat /\ Len(pending') = L + 1 /\ pending'[L + 1] = c
        /\ \A i \in 1 .. L : pending'[i] = pending[i] /\ pending[i] \in Callers \ {c}
    <2>1. pending \in Seq(Callers) /\ \A i \in 1 .. L : pending[i] # c
      BY <1>2 DEF TreeInv, Queue
    <2>2. QED BY <1>2, <2>1
  <1>4. Lone(edges', astray')
    <2>1. Doubled \subseteq astray'
      BY WriteFacts
    <2>2. QED BY <2>1, NotDoubled DEF Lone
  <1>5. ASSUME ~crossed
        PROVE  \E ws : /\ Following(ws)'
                       /\ Agrees(ws[Len(pending') + 1], nodes', version', edges', astray')
    <2>1. PICK ws : Following(ws) /\ Agrees(ws[L + 1], nodes, version, edges, astray)
      BY <1>5 DEF WindowInv
    <2>2. ws[1] = window /\ \A i \in 1 .. L : ws[i + 1] = Heard(ws[i], call[pending[i]].note)
      BY <2>1 DEF Following
    <2> PICK last : last = Heard(ws[L + 1], call'[c].note)
      OBVIOUS
    <2> DEFINE xs == [i \in 1 .. L + 2 |-> IF i <= L + 1 THEN ws[i] ELSE last]
    <2>3. xs[L + 2] = last /\ \A i \in 1 .. L + 1 : xs[i] = ws[i]
      BY <1>3
    <2> HIDE DEF xs
    <2>4. Agrees(last, nodes', version', edges', astray')
      BY <2>1, WriteIsFollowed DEF WindowInv
    <2>5. xs[1] = window'
      BY <1>1, <1>3, <2>2, <2>3
    <2>6. ASSUME NEW i \in 1 .. L + 1
          PROVE  xs[i + 1] = Heard(xs[i], call'[pending'[i]].note)
      <3>1. CASE i = L + 1
        <4>1. i + 1 = L + 2 /\ pending'[i] = c /\ xs[i] = ws[L + 1]
          BY <1>3, <2>3, <3>1
        <4>2. QED BY <2>3, <4>1
      <3>2. CASE i # L + 1
        <4>1. i \in 1 .. L /\ i + 1 \in 1 .. L + 1
          BY <1>3, <3>2
        <4>2. pending'[i] = pending[i] /\ call'[pending[i]] = call[pending[i]]
          BY <1>2, <1>3, <4>1
        <4>3. xs[i] = ws[i] /\ xs[i + 1] = ws[i + 1]
          BY <2>3, <4>1
        <4>4. QED BY <2>2, <4>1, <4>2, <4>3
      <3>3. QED BY <3>1, <3>2
    <2>7. Following(xs)'
      BY <1>3, <2>5, <2>6 DEF Following
    <2>8. Len(pending') + 1 = L + 2
      BY <1>3
    <2>9. QED BY <2>3, <2>4, <2>7, <2>8
  <1>6. QED BY <1>1, <1>4, <1>5 DEF WindowInv

(* A step that neither writes nor publishes changes no window to come. *)
LEMMA OthersKeep ==
    ASSUME TreeInv, NEW c \in Callers, Asks(c) \/ Unwritten(c), UNCHANGED windowVars, WindowInv
    PROVE  WindowInv'
  <1>1. /\ \A d \in Callers \ {c} : call'[d] = call[d]
        /\ UNCHANGED <<nodes, version, edges>>
    BY OthersCommitNothing
  <1>2. call[c].step # "done" /\ pending' = pending
    <2>1. CASE Asks(c)
      <3>1. PICK k : Ask(c, k)
        BY <2>1 DEF Asks, AskEdit, AskMove, AskReorder, AskGather, AskCreate, AskRelink, AskAttach,
                    AskDetach, AskDeleteTree, AskDeleteLeaf
      <3>2. QED BY <3>1 DEF Ask
    <2>2. CASE Unwritten(c)
      BY <2>2 DEF Unwritten, Refused, SubtreeChanged, Recollect, Ready
    <2>3. QED BY <2>1, <2>2
  <1>3. \A i \in 1 .. Len(pending) : call'[pending[i]] = call[pending[i]]
    <2>1. \A i \in 1 .. Len(pending) : pending[i] \in Callers /\ pending[i] # c
      BY <1>2 DEF TreeInv, Queue
    <2>2. QED BY <1>1, <2>1
  <1>4. UNCHANGED <<window, crossed, astray>>
    BY DEF windowVars
  <1>5. \A ws : Following(ws) => Following(ws)'
    BY <1>2, <1>3, <1>4 DEF Following
  <1>6. QED BY <1>1, <1>2, <1>4, <1>5 DEF WindowInv

(* The oldest write is published: the window becomes the first of those that there would
   be. *)
LEMMA TellKeeps ==
    ASSUME TreeInv, NEW c \in Callers, Tell(c), WindowInv
    PROVE  WindowInv'
  <1>1. /\ Publish(c) /\ window' = Heard(window, call[c].note)
        /\ crossed' = (crossed \/ Head(pending) # c) /\ astray' = astray
    BY DEF Tell
  <1>2. /\ \A d \in Callers \ {c} : call'[d] = call[d]
        /\ UNCHANGED <<nodes, version, edges>>
    BY <1>1, OthersCommitNothing
  <1>3. Lone(edges', astray')
    BY <1>1, <1>2 DEF WindowInv
  <1>4. ASSUME ~crossed'
        PROVE  \E ws : /\ Following(ws)'
                       /\ Agrees(ws[Len(pending') + 1], nodes', version', edges', astray')
    <2> PICK L : L = Len(pending)
      OBVIOUS
    <2>1. ~crossed /\ Head(pending) = c
      BY <1>1, <1>4
    <2>2. /\ pending \in Seq(Callers) /\ L \in Nat /\ DOMAIN pending = 1 .. L
          /\ \A i, j \in 1 .. L : pending[i] = pending[j] => i = j
      BY DEF TreeInv, Queue
    <2>3. PICK i \in 1 .. L :
              /\ pending[i] = c
              /\ pending' = [j \in 1 .. L - 1 |-> IF j < i THEN pending[j] ELSE pending[j + 1]]
      BY <1>1, <2>2 DEF Publish
    <2>4. i = 1 /\ pending[1] = c /\ L >= 1
      <3>1. L >= 1 /\ 1 \in 1 .. L
        BY <2>2, <2>3
      <3>2. pending # <<>>
        BY <2>2, <3>1
      <3>3. Head(pending) = pending[1]
        BY <2>2, <3>2
      <3>4. QED BY <2>1, <2>2, <2>3, <3>1, <3>3
    <2>5. Len(pending') = L - 1 /\ \A j \in 1 .. L - 1 : pending'[j] = pending[j + 1]
      <3>1. pending' = [j \in 1 .. L - 1 |-> pending[j + 1]]
        BY <2>2, <2>3, <2>4
      <3>2. L - 1 \in Nat
        BY <2>2, <2>4
      <3>3. \A j \in 1 .. L - 1 : pending[j + 1] \in Callers
        BY <2>2
      <3>4. QED BY <3>1, <3>2, <3>3
    <2>6. \A j \in 1 .. L - 1 : pending[j + 1] \in Callers \ {c}
      BY <2>2, <2>4
    <2>7. PICK ws : Following(ws) /\ Agrees(ws[L + 1], nodes, version, edges, astray)
      BY <2>1 DEF WindowInv
    <2>8. ws[1] = window /\ \A j \in 1 .. L : ws[j + 1] = Heard(ws[j], call[pending[j]].note)
      BY <2>7 DEF Following
    <2> DEFINE xs == [j \in 1 .. L |-> ws[j + 1]]
    <2>9. \A j \in 1 .. L : xs[j] = ws[j + 1]
      OBVIOUS
    <2> HIDE DEF xs
    <2>10. xs[1] = window'
      <3>1. 1 \in 1 .. L /\ 1 + 1 = 2
        BY <2>2, <2>4
      <3>2. ws[2] = Heard(ws[1], call[pending[1]].note)
        BY <2>8, <3>1
      <3>3. xs[1] = ws[2]
        BY <2>9, <3>1
      <3>4. QED BY <1>1, <2>4, <2>8, <3>2, <3>3
    <2>11. ASSUME NEW j \in 1 .. L - 1
           PROVE  xs[j + 1] = Heard(xs[j], call'[pending'[j]].note)
      <3>1. j \in 1 .. L /\ j + 1 \in 1 .. L
        BY <2>2
      <3>2. xs[j] = ws[j + 1] /\ xs[j + 1] = ws[(j + 1) + 1]
        BY <2>9, <3>1
      <3>3. ws[(j + 1) + 1] = Heard(ws[j + 1], call[pending[j + 1]].note)
        BY <2>8, <3>1
      <3>4. pending'[j] = pending[j + 1] /\ call'[pending[j + 1]] = call[pending[j + 1]]
        BY <1>2, <2>5, <2>6
      <3>5. QED BY <3>2, <3>3, <3>4
    <2>12. Following(xs)'
      BY <2>5, <2>10, <2>11 DEF Following
    <2>13. xs[Len(pending') + 1] = ws[L + 1]
      BY <2>2, <2>4, <2>5, <2>9
    <2>14. QED BY <1>1, <1>2, <2>7, <2>12, <2>13
  <1>5. QED BY <1>3, <1>4 DEF WindowInv

-----------------------------------------------------------------------------
(* The steps of the tree, with the window *)

LEMMA WindowStep == [WindowNext]_allVars => [Next]_vars
  <1> SUFFICES ASSUME [WindowNext]_allVars
               PROVE  [Next]_vars
    OBVIOUS
  <1>1. CASE WindowNext
    BY <1>1 DEF WindowNext, Next, Write, Tell
  <1>2. CASE UNCHANGED allVars
    BY <1>2 DEF allVars, vars
  <1>3. QED BY <1>1, <1>2

LEMMA WindowInvStep ==
    TreeInv /\ TreeInv' /\ WindowInv /\ [WindowNext]_allVars => WindowInv'
  <1> SUFFICES ASSUME TreeInv, TreeInv', WindowInv, [WindowNext]_allVars
               PROVE  WindowInv'
    OBVIOUS
  <1>1. CASE UNCHANGED allVars
    BY <1>1 DEF allVars, vars, windowVars, WindowInv, Following
  <1>2. CASE WindowNext
    <2>1. PICK c \in Callers : \/ (Asks(c) \/ Unwritten(c)) /\ UNCHANGED windowVars
                               \/ Write(c)
                               \/ Tell(c)
      BY <1>2 DEF WindowNext
    <2>2. QED BY <2>1, OthersKeep, WriteKeeps, TellKeeps
  <1>3. QED BY <1>1, <1>2

(* With nothing left to be published, the window that agrees is the one there is. *)
LEMMA WindowInvImplies == TreeInv /\ WindowInv => WindowAgrees
  <1> SUFFICES ASSUME TreeInv, WindowInv, Settled
               PROVE  /\ \A n \in nodes \ astray : Parents(window, n) \cap nodes = Parents(edges, n)
                      /\ \A e \in edges, w \in window :
                            e.child \notin astray /\ w.parent = e.parent /\ w.child = e.child
                                => w = e
    BY DEF WindowAgrees
  <1>1. pending = <<>> /\ ~crossed
    BY DEF Settled
  <1>2. PICK ws : Following(ws) /\ Agrees(ws[Len(pending) + 1], nodes, version, edges, astray)
    BY <1>1 DEF WindowInv
  <1>3. Len(pending) + 1 = 1 /\ ws[1] = window
    BY <1>1, <1>2 DEF Following
  <1>4. Agrees(window, nodes, version, edges, astray)
    BY <1>2, <1>3
  <1>5. ASSUME NEW n \in nodes \ astray
        PROVE  Parents(window, n) \cap nodes = Parents(edges, n)
    <2>1. \A p \in nodes : IsKid(window, p, n) <=> IsKid(edges, p, n)
      BY <1>4 DEF Agrees
    <2>2. Parents(edges, n) \subseteq nodes
      BY DEF TreeInv, Graph, Parents
    <2>3. \A p : p \in Parents(window, n) <=> IsKid(window, p, n)
      BY DEF Parents, IsKid
    <2>4. \A p : p \in Parents(edges, n) <=> IsKid(edges, p, n)
      BY DEF Parents, IsKid
    <2>5. QED BY <2>1, <2>2, <2>3, <2>4
  <1>6. QED BY <1>4, <1>5 DEF Agrees

(* The window only listens: the tree beside it does what it does without one, so what is
   proved of the tree holds of the two. *)
THEOREM WindowRunsTheTree == WindowSpec => Spec
  <1>1. WindowInit => Init
    BY DEF WindowInit
  <1>2. QED BY <1>1, WindowStep, PTL DEF WindowSpec, Spec

(* Whatever writes overtake each other before they are committed, a window that hears of
   them in that order has the tree of the store once it has heard of all: the parents of
   every node, and the keys, those of re-spread siblings too. Only nodes that some write
   was not fully announced for are excepted. *)
THEOREM WindowComesToAgree == WindowSpec => []WindowAgrees
  <1>1. WindowSpec => []TreeInv
    BY WindowRunsTheTree, InvAlways, PTL
  <1>2. QED BY <1>1, WindowInvInit, WindowInvStep, WindowInvImplies, PTL DEF WindowSpec

=============================================================================
