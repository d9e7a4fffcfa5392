--------------------------- MODULE NodeTreeProofs ---------------------------
(***************************************************************************)
(* Proofs about NodeTree, for every set of nodes and callers, every sound  *)
(* tree to start from, every key unit and least gap: types, no loops,      *)
(* distinct keys, no lost write, what deletions take, that no node loses   *)
(* its parents unasked, where placements land, and that the tree           *)
(* implements Outline.                                                     *)
(***************************************************************************)
EXTENDS NodeTree, FiniteSetTheorems, TLAPS

-----------------------------------------------------------------------------
(* Subtrees *)

(* What is below a node of the subtree of n is in it. *)
LEMMA SubtreeClosed ==
    ASSUME NEW es, NEW n, NEW e \in es, e.parent \in Subtree(es, n)
    PROVE  e.child \in Subtree(es, n)
  <1>1. SUFFICES ASSUME NEW S \in SUBSET Children(es),
                        \A f \in es : f.parent \in S \cup {n} => f.child \in S
                 PROVE  e.child \in S
    BY DEF Subtree, Below, Children
  <1>2. e.parent \in S \cup {n}
    BY <1>1 DEF Subtree, Below
  <1>3. QED BY <1>1, <1>2

(* A node without children is its own subtree. *)
LEMMA LeafSubtree ==
    ASSUME NEW es, NEW n, Kids(es, n) = {}
    PROVE  Subtree(es, n) = {n}
  <1>1. \A e \in es : e.parent \in {} \cup {n} => e.child \in {}
    BY DEF Kids
  <1>2. Below(es, n) = {}
    BY <1>1 DEF Below
  <1>3. QED BY <1>2 DEF Subtree

(* Edges from p to nodes that p is not below, put in the place of others, close no
   loop. *)
LEMMA Grafted ==
    ASSUME NEW es, NEW fs, NEW M, NEW p \in Nodes, Loopless(es),
           \A n \in M : p \notin Subtree(es, n),
           \A f \in fs : \/ f.child \in M /\ f.parent = p
                         \/ f.child \in Children(es) /\ f.parent \in Parents(es, f.child)
    PROVE  Loopless(fs)
  <1>1. SUFFICES ASSUME NEW S \in SUBSET Nodes \ {{}},
                        \A n \in S : Parents(fs, n) \cap S # {}
                 PROVE  FALSE
    BY DEF Loopless
  <1> DEFINE T == {n \in S : \A m \in M : n \notin Subtree(es, m)}
  <1>2. \A n \in S : Parents(es, n) \cap S # {} \/ (n \in M /\ p \in S)
    BY <1>1 DEF Parents
  <1>3. CASE p \notin S
    BY <1>1, <1>2, <1>3 DEF Loopless
  <1>4. CASE p \in S
    <2>1. p \in T
      BY <1>4
    <2>2. PICK n \in T : Parents(es, n) \cap T = {}
      BY <2>1, <1>1 DEF Loopless
    <2>3. n \notin M
      BY <2>2 DEF Subtree
    <2>4. PICK q \in S : q \in Parents(es, n)
      BY <1>2, <2>2, <2>3
    <2>5. PICK m \in M : q \in Subtree(es, m)
      BY <2>2, <2>4
    <2>6. n \in Subtree(es, m)
      BY <2>4, <2>5, SubtreeClosed DEF Parents
    <2>7. QED BY <2>2, <2>6
  <1>5. QED BY <1>3, <1>4

-----------------------------------------------------------------------------
(* Finite sets of keys *)

(* A finite set of integers that is not empty has a greatest and a least element: a
   least set without one would, without any of its elements, still have one. *)
LEMMA Extremes ==
    ASSUME NEW K \in SUBSET Int, IsFiniteSet(K), K # {}
    PROVE  /\ Max(K) \in K /\ \A k \in K : k <= Max(K)
           /\ Min(K) \in K /\ \A k \in K : Min(K) <= k
  <1> DEFINE Bounded(S) == /\ \E m \in S : \A k \in S : k <= m
                           /\ \E m \in S : \A k \in S : m <= k
             F == {S \in SUBSET K : S # {} /\ ~Bounded(S)}
  <1>1. F = {}
    <2>1. SUFFICES ASSUME F # {} PROVE FALSE
      OBVIOUS
    <2>2. IsWellFoundedOn(StrictSubsetOrdering(K), FiniteSubsetsOf(K))
      BY FS_StrictSubsetOrderingWellFounded
    <2>3. F \subseteq FiniteSubsetsOf(K)
      BY FS_Subset DEF FiniteSubsetsOf
    <2>4. \E S \in F : \A T \in F : ~(<<T, S>> \in StrictSubsetOrdering(K))
      <3>. HIDE DEF F
      <3>. QED BY <2>1, <2>2, <2>3, WFMin, Zenon
    <2>5. PICK S \in F : \A T \in F : ~(<<T, S>> \in StrictSubsetOrdering(K))
      BY <2>4, Zenon
    <2>6. PICK k \in S : TRUE
      OBVIOUS
    <2> DEFINE R == S \ {k}
    <2>7. R \notin F
      BY <2>5, <2>6 DEF StrictSubsetOrdering
    <2>8. CASE R = {}
      BY <2>6, <2>8
    <2>9. CASE R # {}
      <3>1. PICK m \in R : \A j \in R : j <= m
        BY <2>7, <2>9
      <3>2. PICK l \in R : \A j \in R : l <= j
        BY <2>7, <2>9
      <3>3. k \in Int /\ m \in Int /\ l \in Int /\ S \subseteq Int
        BY <2>6
      <3>4. \E x \in S : \A j \in S : j <= x
        <4>1. CASE k <= m
          BY <3>1, <3>3, <4>1
        <4>2. CASE m <= k
          BY <3>1, <3>3, <4>2
        <4>3. QED BY <3>3, <4>1, <4>2
      <3>5. \E x \in S : \A j \in S : x <= j
        <4>1. CASE l <= k
          BY <3>2, <3>3, <4>1
        <4>2. CASE k <= l
          BY <3>2, <3>3, <4>2
        <4>3. QED BY <3>3, <4>1, <4>2
      <3>6. QED BY <3>4, <3>5
    <2>10. QED BY <2>8, <2>9
  <1>2. Bounded(K)
    BY <1>1
  <1>3. PICK m \in K : \A k \in K : k <= m
    BY <1>2
  <1>4. PICK l \in K : \A k \in K : l <= k
    BY <1>2
  <1>5. Max(K) \in K /\ \A k \in K : Max(K) >= k
    BY <1>3 DEF Max
  <1>6. Min(K) \in K /\ \A k \in K : Min(K) <= k
    BY <1>4 DEF Min
  <1>7. QED BY <1>5, <1>6

(* The keys of finitely many edges are finitely many. *)
LEMMA KeysFinite ==
    ASSUME NEW E \in SUBSET Edges, IsFiniteSet(E)
    PROVE  KeysOf(E) \in SUBSET Int /\ IsFiniteSet(KeysOf(E))
  <1> DEFINE f == [e \in E |-> e.key]
  <1>1. f \in Surjection(E, KeysOf(E))
    BY DEF Surjection, KeysOf
  <1>2. KeysOf(E) \in SUBSET Int
    BY DEF KeysOf, Edges
  <1>3. QED BY <1>1, <1>2, FS_Surjection

-----------------------------------------------------------------------------
(* Spreading the keys of a list *)

Tree(es) == es \subseteq Edges /\ IsFiniteSet(es) /\ Single(es) /\ KeysApart(es)

UpTo(es, p, e) == {f \in es : f.parent = p /\ f.key <= e.key}

(* An edge as it is after the children of p are spread. *)
Spreading(es, p, e) ==
    IF e.parent # p THEN e ELSE [e EXCEPT !.key = Unit * Cardinality(UpTo(es, p, e))]

LEMMA RespreadIs == \A es, p : Respread(es, p) = {Spreading(es, p, e) : e \in es}
  BY DEF Respread, Spreading, UpTo

LEMMA Times ==
    ASSUME NEW u \in Nat, NEW a \in Nat, NEW b \in Nat
    PROVE  u * a \in Int /\ (a < b => u * a + u <= u * b)
  <1>1. u * a \in Int /\ u * b \in Int
    OBVIOUS
  <1>2. ASSUME a < b PROVE u * a + u <= u * b
    <2> DEFINE d == b - a - 1
    <2>1. d \in Nat /\ b = a + 1 + d
      BY <1>2
    <2>2. u * b = u * a + u + u * d
      BY <2>1
    <2>3. u * d \in Nat
      BY <2>1
    <2>4. QED BY <1>1, <2>2, <2>3
  <1>3. QED BY <1>1, <1>2

(* Spreading keeps the ends of an edge and the order of a list, and leaves a gap of one
   unit between neighbours. *)
LEMMA SpreadingKeeps ==
    ASSUME NEW es \in SUBSET Edges, IsFiniteSet(es), NEW p, NEW e \in es
    PROVE  /\ Spreading(es, p, e) \in Edges
           /\ Spreading(es, p, e).parent = e.parent /\ Spreading(es, p, e).child = e.child
           /\ e.parent # p => Spreading(es, p, e) = e
           /\ e.parent = p => \A f \in es : f.parent = p /\ e.key < f.key =>
                  Spreading(es, p, e).key + Unit <= Spreading(es, p, f).key
  <1>1. e \in Edges /\ Unit \in Nat
    BY KeyAssumption
  <1>2. CASE e.parent # p
    BY <1>1, <1>2 DEF Spreading
  <1>3. CASE e.parent = p
    <2>1. \A f \in es : IsFiniteSet(UpTo(es, p, f)) /\ Cardinality(UpTo(es, p, f)) \in Nat
      <3>1. \A f \in es : UpTo(es, p, f) \in SUBSET es
        BY DEF UpTo
      <3>2. QED BY <3>1, FS_Subset, FS_CardinalityType
    <2>2. Unit * Cardinality(UpTo(es, p, e)) \in Int
      BY <1>1, <2>1, Times
    <2>3. /\ Spreading(es, p, e) \in Edges
          /\ Spreading(es, p, e).parent = e.parent /\ Spreading(es, p, e).child = e.child
      <3>. DEFINE k == Unit * Cardinality(UpTo(es, p, e))
      <3>1. k \in Int /\ Spreading(es, p, e) = [e EXCEPT !.key = k]
        BY <2>2, <1>3 DEF Spreading
      <3>. HIDE DEF k
      <3>2. QED BY <3>1, <1>1 DEF Edges
    <2>4. ASSUME NEW f \in es, f.parent = p, e.key < f.key
          PROVE  Spreading(es, p, e).key + Unit <= Spreading(es, p, f).key
      <3>1. e.key \in Int /\ f.key \in Int /\ \A g \in es : g.key \in Int
        BY DEF Edges
      <3>2. UpTo(es, p, e) \in SUBSET UpTo(es, p, f)
        BY <3>1, <2>4 DEF UpTo
      <3>3. f \in UpTo(es, p, f) /\ f \notin UpTo(es, p, e)
        BY <3>1, <2>4 DEF UpTo
      <3>4. Cardinality(UpTo(es, p, e)) < Cardinality(UpTo(es, p, f))
        BY <2>1, <3>2, <3>3, FS_Subset
      <3>5. Unit * Cardinality(UpTo(es, p, e)) + Unit <= Unit * Cardinality(UpTo(es, p, f))
        BY <3>4, <2>1, <1>1, Times
      <3>6. /\ Spreading(es, p, e).key = Unit * Cardinality(UpTo(es, p, e))
            /\ Spreading(es, p, f).key = Unit * Cardinality(UpTo(es, p, f))
        <4>. DEFINE a == Unit * Cardinality(UpTo(es, p, e))
                    b == Unit * Cardinality(UpTo(es, p, f))
        <4>1. /\ Spreading(es, p, e) = [e EXCEPT !.key = a]
              /\ Spreading(es, p, f) = [f EXCEPT !.key = b]
          BY <1>3, <2>4 DEF Spreading
        <4>. HIDE DEF a, b
        <4>2. e \in Edges /\ f \in Edges
          BY <2>4
        <4>3. [e EXCEPT !.key = a].key = a /\ [f EXCEPT !.key = b].key = b
          BY <4>2 DEF Edges
        <4>4. Spreading(es, p, e).key = a /\ Spreading(es, p, f).key = b
          BY <4>1, <4>3
        <4>5. QED BY <4>4 DEF a, b
      <3>7. QED BY <3>5, <3>6
    <2>5. QED BY <1>3, <2>3, <2>4
  <1>4. QED BY <1>2, <1>3

(* Spread lists are again lists: as many edges, and no two keys the same. *)
LEMMA RespreadTree ==
    ASSUME NEW es, Tree(es), NEW p
    PROVE  Tree(Respread(es, p))
  <1> DEFINE S(e) == Spreading(es, p, e)
             fs == Respread(es, p)
  <1>1. fs = {S(e) : e \in es}
    BY RespreadIs
  <1>2. \A e \in es : /\ S(e) \in Edges /\ S(e).parent = e.parent /\ S(e).child = e.child
                      /\ e.parent # p => S(e) = e
    BY SpreadingKeeps DEF Tree
  <1>3. \A e, f \in es : e.parent = p /\ f.parent = p /\ e.key < f.key => S(e).key + Unit <= S(f).key
    BY SpreadingKeeps DEF Tree
  <1>4. IsFiniteSet(fs)
    <2> DEFINE g == [e \in es |-> S(e)]
    <2>1. g \in Surjection(es, fs)
      BY <1>1 DEF Surjection
    <2>2. QED BY <2>1, FS_Surjection DEF Tree
  <1>. HIDE DEF S, fs
  <1>5. Single(fs)
    BY <1>1, <1>2 DEF Tree, Single
  <1>6. KeysApart(fs)
    <2>1. SUFFICES ASSUME NEW e \in es, NEW f \in es, S(e).parent = S(f).parent,
                          S(e).key = S(f).key
                   PROVE  S(e) = S(f)
      BY <1>1 DEF KeysApart
    <2>2. e.parent = f.parent /\ e.key \in Int /\ f.key \in Int
      BY <1>2, <2>1 DEF Tree, Edges
    <2>3. CASE e.parent # p
      BY <1>2, <2>1, <2>2, <2>3 DEF Tree, KeysApart
    <2>4. CASE e.parent = p
      <3>1. S(e).key \in Int /\ S(f).key \in Int /\ Unit \in Nat /\ Unit > 0
        BY <1>2, KeyAssumption DEF Edges
      <3>2. e.key = f.key
        <4>1. CASE e.key < f.key
          <5>1. S(e).key + Unit <= S(f).key
            BY <2>2, <2>4, <1>3, <4>1
          <5>2. QED BY <3>1, <2>1, <5>1
        <4>2. CASE f.key < e.key
          <5>1. S(f).key + Unit <= S(e).key
            BY <2>2, <2>4, <1>3, <4>2
          <5>2. QED BY <3>1, <2>1, <5>1
        <4>3. QED BY <4>1, <4>2, <2>2
      <3>3. QED BY <3>2, <2>2 DEF Tree, KeysApart
    <2>5. QED BY <2>3, <2>4
  <1>7. QED BY <1>1, <1>2, <1>4, <1>5, <1>6 DEF Tree, fs

(* The edges of a spread list are those of the list, in the same order. *)
LEMMA RespreadEdges ==
    ASSUME NEW es, Tree(es), NEW p
    PROVE  /\ \A e \in es : /\ Spreading(es, p, e) \in Respread(es, p)
                            /\ Spreading(es, p, e).parent = e.parent
                            /\ Spreading(es, p, e).child = e.child
                            /\ e.parent # p => Spreading(es, p, e) = e
           /\ \A f \in Respread(es, p) : \E e \in es : f = Spreading(es, p, e)
           /\ \A e, f \in es : e.parent = p /\ f.parent = p =>
                  (e.key < f.key <=> Spreading(es, p, e).key < Spreading(es, p, f).key)
           /\ \A e, f \in Respread(es, p) : e.parent = p /\ f.parent = p /\ e.key < f.key =>
                  e.key + Unit <= f.key
  <1> DEFINE S(e) == Spreading(es, p, e)
  <1>1. Respread(es, p) = {S(e) : e \in es}
    BY RespreadIs
  <1>2. \A e \in es : /\ S(e) \in Edges /\ S(e).parent = e.parent /\ S(e).child = e.child
                      /\ e.parent # p => S(e) = e
    BY SpreadingKeeps DEF Tree
  <1>3. \A e, f \in es : e.parent = p /\ f.parent = p /\ e.key < f.key => S(e).key + Unit <= S(f).key
    BY SpreadingKeeps DEF Tree
  <1>. HIDE DEF S
  <1>4. \A e \in es : e.key \in Int /\ S(e).key \in Int
    BY <1>2 DEF Tree, Edges
  <1>5. Unit \in Nat /\ Unit > 0
    BY KeyAssumption
  <1>6. ASSUME NEW e \in es, NEW f \in es, e.parent = p, f.parent = p
        PROVE  e.key < f.key <=> S(e).key < S(f).key
    <2>0. e.key \in Int /\ f.key \in Int /\ S(e).key \in Int /\ S(f).key \in Int
      BY <1>4
    <2>1. CASE e.key < f.key
      <3>1. S(e).key + Unit <= S(f).key
        BY <1>3, <1>6, <2>1
      <3>2. QED BY <2>0, <1>5, <2>1, <3>1
    <2>2. CASE f.key < e.key
      <3>1. S(f).key + Unit <= S(e).key
        BY <1>3, <1>6, <2>2
      <3>2. QED BY <2>0, <1>5, <2>2, <3>1
    <2>3. CASE e.key = f.key
      <3>1. e = f
        BY <1>6, <2>3 DEF Tree, KeysApart
      <3>2. QED BY <3>1, <2>0
    <2>4. QED BY <2>0, <2>1, <2>2, <2>3
  <1>7. ASSUME NEW e \in es, NEW f \in es, S(e).parent = p, S(f).parent = p, S(e).key < S(f).key
        PROVE  S(e).key + Unit <= S(f).key
    <2>1. e.parent = p /\ f.parent = p
      BY <1>2, <1>7
    <2>2. e.key < f.key
      BY <1>6, <1>7, <2>1
    <2>3. QED BY <1>3, <2>1, <2>2
  <1>8. QED
    <2>1. \A e, f \in Respread(es, p) : e.parent = p /\ f.parent = p /\ e.key < f.key =>
              e.key + Unit <= f.key
      BY <1>1, <1>7
    <2>2. QED BY <1>1, <1>2, <1>6, <2>1 DEF S

-----------------------------------------------------------------------------
(* Keys for a child that is placed *)

(* A list that is spread, or has room, is not crowded where the child goes. *)
LEMMA RoomyIsTree ==
    ASSUME NEW es, Tree(es), NEW n, NEW p, NEW pos
    PROVE  /\ Tree(Roomy(es, n, p, pos))
           /\ ~Crowded(Siblings(Roomy(es, n, p, pos), p, n), pos)
  <1>1. CASE ~Crowded(Siblings(es, p, n), pos)
    BY <1>1 DEF Roomy
  <1>2. CASE Crowded(Siblings(es, p, n), pos)
    <2> DEFINE R == Respread(es, p)
               E == Siblings(R, p, n)
    <2>1. Roomy(es, n, p, pos) = R
      BY <1>2 DEF Roomy
    <2>2. Tree(R)
      BY RespreadTree
    <2>3. SUFFICES ASSUME Crowded(E, pos) PROVE FALSE
      BY <2>1, <2>2
    <2>4. E \subseteq R /\ E \subseteq Edges /\ IsFiniteSet(E)
      BY <2>2, FS_Subset DEF Siblings, Tree
    <2>5. PICK a \in E : a.child = pos /\ AnchorKey(E, pos) = a.key
      BY <2>3 DEF Crowded, AnchorKey
    <2>6. KeysAfter(E, pos) \in SUBSET KeysOf(E) /\ KeysAfter(E, pos) # {}
      BY <2>3 DEF Crowded, KeysAfter
    <2>7. Min(KeysAfter(E, pos)) \in KeysAfter(E, pos)
      BY <2>4, <2>6, KeysFinite, FS_Subset, Extremes
    <2>8. PICK b \in E : b.key = Min(KeysAfter(E, pos)) /\ b.key > a.key
      BY <2>5, <2>7 DEF KeysAfter, KeysOf
    <2>9. a.key + Unit <= b.key
      <3>1. a.parent = p /\ b.parent = p /\ a \in R /\ b \in R
        BY <2>4 DEF Siblings
      <3>2. a.key < b.key
        BY <2>4, <2>8 DEF Edges
      <3>. HIDE DEF R, E
      <3>3. QED BY <3>1, <3>2, RespreadEdges DEF R
    <2>10. b.key - a.key < MinGap
      BY <2>3, <2>5, <2>8 DEF Crowded
    <2>11. a.key \in Int /\ b.key \in Int /\ Unit \in Nat /\ MinGap \in Int /\ MinGap <= Unit
      BY <2>4, KeyAssumption DEF Edges
    <2>. HIDE DEF E
    <2>12. QED BY <2>9, <2>10, <2>11
  <1>3. QED BY <1>1, <1>2

(* The key for a child among siblings with room is where it was asked to be, and no
   sibling has it. *)
LEMMA KeyFits ==
    ASSUME NEW E \in SUBSET Edges, IsFiniteSet(E), NEW p, NEW n, NEW pos, NEW R,
           E = Siblings(R, p, n), ~Crowded(E, pos), NEW k, k = KeyFor(R, n, p, pos)
    PROVE  /\ k \in Int
           /\ pos = First => \A j \in KeysOf(E) : k < j
           /\ pos # First /\ pos \in {e.child : e \in E} =>
                  AnchorKey(E, pos) < k /\ \A j \in KeysOf(E) : j <= AnchorKey(E, pos) \/ k < j
           /\ pos # First /\ pos \notin {e.child : e \in E} => \A j \in KeysOf(E) : j < k
  <1> DEFINE K == KeysOf(E)
             C == {e.child : e \in E}
             A == KeysAfter(E, pos)
             a == AnchorKey(E, pos)
  <1>1. K \in SUBSET Int /\ IsFiniteSet(K)
    BY KeysFinite
  <1>2. E # {} => /\ Max(K) \in K /\ \A j \in K : j <= Max(K)
                  /\ Min(K) \in K /\ \A j \in K : Min(K) <= j
    <2>1. E # {} => K # {}
      BY DEF KeysOf
    <2>2. QED BY <1>1, <2>1, Extremes
  <1>3. Unit \in Nat /\ Unit > 0 /\ MinGap \in Int /\ MinGap >= 2
    BY KeyAssumption
  <1>4. E = {} => K = {}
    BY DEF KeysOf
  <1>5. CASE pos = First
    <2>1. k = KeyFirst(E)
      BY <1>5 DEF KeyFor
    <2>2. CASE E = {}
      BY <2>1, <2>2, <1>3, <1>4, <1>5 DEF KeyFirst
    <2>3. CASE E # {}
      <3>1. k = Min(K) - Unit
        BY <2>1, <2>3 DEF KeyFirst
      <3>. HIDE DEF K
      <3>2. Min(K) \in Int /\ \A j \in K : j \in Int /\ Min(K) <= j
        BY <2>3, <1>1, <1>2
      <3>3. k \in Int /\ \A j \in K : k < j
        BY <3>1, <3>2, <1>3
      <3>4. QED BY <3>3, <1>5 DEF K
    <2>4. QED BY <2>2, <2>3
  <1>6. CASE pos # First /\ pos \notin C
    <2>1. k = KeyLast(E)
      BY <1>6 DEF KeyFor
    <2>2. CASE E = {}
      BY <2>1, <2>2, <1>3, <1>4, <1>6 DEF KeyLast
    <2>3. CASE E # {}
      <3>1. k = Max(K) + Unit
        BY <2>1, <2>3 DEF KeyLast
      <3>. HIDE DEF K
      <3>2. Max(K) \in Int /\ \A j \in K : j \in Int /\ j <= Max(K)
        BY <2>3, <1>1, <1>2
      <3>3. k \in Int /\ \A j \in K : j < k
        BY <3>1, <3>2, <1>3
      <3>4. QED BY <3>3, <1>6 DEF K
    <2>4. QED BY <2>2, <2>3
  <1>7. CASE pos # First /\ pos \in C
    <2>1. a \in Int
      <3>1. PICK e \in E : e.child = pos
        BY <1>7
      <3>2. (CHOOSE f \in E : f.child = pos) \in E
        BY <3>1
      <3>3. QED BY <3>2 DEF AnchorKey, Edges
    <2>2. A \in SUBSET K /\ \A j \in K : j \in A <=> j > a
      BY DEF KeysAfter
    <2>3. CASE A = {}
      <3>1. k = a + Unit
        BY <1>7, <2>3 DEF KeyFor
      <3>. HIDE DEF K, A, C, a
      <3>2. \A j \in K : j <= a
        BY <1>1, <2>1, <2>2, <2>3
      <3>3. QED BY <3>1, <3>2, <2>1, <1>1, <1>3, <1>7 DEF C, K, a
    <2>4. CASE A # {}
      <3>1. k = (a + Min(A)) \div 2
        BY <1>7, <2>4 DEF KeyFor
      <3>2. Min(A) \in A /\ \A j \in A : Min(A) <= j
        BY <1>1, <2>2, <2>4, FS_Subset, Extremes
      <3>3. Min(A) - a >= MinGap
        <4>1. ~(Min(A) - a < MinGap)
          BY <1>7, <2>4 DEF Crowded
        <4>2. Min(A) \in Int
          BY <3>2, <2>2, <1>1
        <4>. HIDE DEF A, a
        <4>3. QED BY <4>1, <4>2, <2>1, <1>3
      <3>. HIDE DEF K, A, C, a
      <3>4. PICK m \in Int : m = Min(A)
        BY <3>2, <2>2, <1>1
      <3>5. a < k /\ k < m /\ k \in Int
        BY <3>1, <3>3, <3>4, <2>1, <1>3
      <3>6. \A j \in K : j <= a \/ k < j
        BY <3>2, <3>4, <3>5, <2>1, <2>2, <1>1
      <3>7. QED BY <3>5, <3>6, <1>7 DEF C, K, a
    <2>5. QED BY <2>3, <2>4
  <1>8. QED BY <1>5, <1>6, <1>7

(* The key behind all others *)
LEMMA KeyLastFits ==
    ASSUME NEW E \in SUBSET Edges, IsFiniteSet(E)
    PROVE  /\ KeyLast(E) \in Int /\ \A j \in KeysOf(E) : j < KeyLast(E)
           /\ E = {} => KeyLast(E) = Unit
  <1>1. Unit \in Nat /\ Unit > 0
    BY KeyAssumption
  <1>2. CASE E = {}
    BY <1>1, <1>2 DEF KeyLast, KeysOf
  <1>3. CASE E # {}
    <2> DEFINE K == KeysOf(E)
    <2>1. K # {} /\ K \in SUBSET Int /\ IsFiniteSet(K)
      BY <1>3, KeysFinite DEF KeysOf
    <2>2. KeyLast(E) = Max(K) + Unit
      BY <1>3 DEF KeyLast
    <2>3. Max(K) \in Int /\ \A j \in K : j \in Int /\ j <= Max(K)
      BY <2>1, Extremes
    <2>. HIDE DEF K
    <2>4. KeyLast(E) \in Int /\ \A j \in K : j < KeyLast(E)
      BY <2>2, <2>3, <1>1
    <2>5. QED BY <2>4, <1>3 DEF K
  <1>4. QED BY <1>2, <1>3

-----------------------------------------------------------------------------
(* What the writes leave of the tree *)

LEMMA SubTree ==
    ASSUME NEW es, Tree(es), NEW fs \in SUBSET es
    PROVE  Tree(fs)
  BY FS_Subset DEF Tree, Single, KeysApart

LEMMA OneMoreEdge ==
    ASSUME NEW es, Tree(es), NEW new \in Edges,
           \A e \in es : e.parent = new.parent => e.child # new.child /\ e.key # new.key
    PROVE  Tree(es \cup {new})
  BY FS_AddElement DEF Tree, Single, KeysApart

(* Who is a child of whom stays as it is when a list is spread. *)
LEMMA RoomyEdges ==
    ASSUME NEW es, Tree(es), NEW n, NEW p, NEW pos
    PROVE  /\ \A f \in Roomy(es, n, p, pos) :
                 f.child \in Children(es) /\ f.parent \in Parents(es, f.child)
           /\ \A e \in es : e.parent \in Parents(Roomy(es, n, p, pos), e.child)
  <1>1. CASE Roomy(es, n, p, pos) = es
    BY <1>1 DEF Children, Parents
  <1>2. CASE Roomy(es, n, p, pos) = Respread(es, p)
    <2>1. \A e \in es : \E f \in Respread(es, p) : f.parent = e.parent /\ f.child = e.child
      BY RespreadEdges
    <2>2. \A f \in Respread(es, p) : \E e \in es : f.parent = e.parent /\ f.child = e.child
      BY RespreadEdges
    <2>3. QED BY <1>2, <2>1, <2>2 DEF Children, Parents
  <1>3. QED BY <1>1, <1>2 DEF Roomy

(* How a node n stands once it is placed under p *)
Placed(es, n, p, pos, old) ==
    LET R == Roomy(es, n, p, pos)
        new == EdgeFor(es, n, p, pos)
        fs == Place(es, n, p, pos, old)
    IN  /\ Tree(fs) /\ new \in fs
        /\ new.parent = p /\ new.child = n /\ new.key = KeyFor(R, n, p, pos)
        /\ new \in Edges
        /\ \A f \in fs : f = new \/ (f \in R /\ (f.child # n \/ (old = p /\ f.parent # p)))
        /\ \A f \in R : f.child # n \/ (old = p /\ f.parent # p) => f \in fs
        /\ Siblings(fs, p, n) = Siblings(R, p, n)

(* A node that is placed under p has one edge to it, with a key of its own. *)
LEMMA PlacedTree ==
    ASSUME NEW es, Tree(es), NEW n \in Nodes, NEW p \in Nodes, NEW pos, NEW old
    PROVE  Placed(es, n, p, pos, old)
  <1> DEFINE R == Roomy(es, n, p, pos)
             new == EdgeFor(es, n, p, pos)
             fs == Place(es, n, p, pos, old)
             k == KeyFor(R, n, p, pos)
             E == Siblings(R, p, n)
  <1>1. Tree(R) /\ ~Crowded(E, pos)
    BY RoomyIsTree
  <1>2. E \in SUBSET Edges /\ IsFiniteSet(E)
    BY <1>1, FS_Subset DEF Siblings, Tree
  <1>3. k \in Int /\ k \notin KeysOf(E)
    <2>1. KeysOf(E) \in SUBSET Int
      BY <1>2, KeysFinite
    <2>2. /\ k \in Int
          /\ pos = First => \A j \in KeysOf(E) : k < j
          /\ pos # First /\ pos \in {e.child : e \in E} =>
                 AnchorKey(E, pos) < k /\ \A j \in KeysOf(E) : j <= AnchorKey(E, pos) \/ k < j
          /\ pos # First /\ pos \notin {e.child : e \in E} => \A j \in KeysOf(E) : j < k
      <3>. HIDE DEF k, E, R
      <3>1. E = Siblings(R, p, n) /\ k = KeyFor(R, n, p, pos)
        BY DEF E, k
      <3>2. QED BY <1>1, <1>2, <3>1, KeyFits
    <2>3. pos \in {e.child : e \in E} => AnchorKey(E, pos) \in Int
      <3>1. SUFFICES ASSUME NEW f \in E, f.child = pos PROVE AnchorKey(E, pos) \in Int
        OBVIOUS
      <3>2. (CHOOSE e \in E : e.child = pos) \in E
        BY <3>1
      <3>3. QED BY <3>2, <1>2 DEF AnchorKey, Edges
    <2>4. QED
      <3>. HIDE DEF k, E
      <3>1. CASE pos = First
        BY <2>1, <2>2, <3>1
      <3>2. CASE pos # First /\ pos \in {e.child : e \in E}
        BY <2>1, <2>2, <2>3, <3>2
      <3>3. CASE pos # First /\ pos \notin {e.child : e \in E}
        BY <2>1, <2>2, <3>3
      <3>4. QED BY <3>1, <3>2, <3>3
  <1>4. new = [parent |-> p, child |-> n, key |-> k]
    BY DEF EdgeFor
  <1>5. p # Top
    BY NameAssumption
  <1> DEFINE rest == {e \in R : e.child # n \/ (old = p /\ e.parent # p)}
  <1>6. fs = rest \cup {new}
    BY <1>5 DEF Place
  <1>. HIDE DEF k, R, fs, new, E
  <1>7. new \in Edges /\ new.parent = p /\ new.child = n /\ new.key = k
    BY <1>3, <1>4 DEF Edges
  <1>8. Tree(rest)
    BY <1>1, SubTree
  <1>9. \A e \in rest : e.parent = p => e.child # n /\ e \in E /\ e.key # k
    BY <1>3 DEF E, Siblings, KeysOf
  <1>10. Tree(fs)
    BY <1>6, <1>7, <1>8, <1>9, OneMoreEdge
  <1>11. Siblings(fs, p, n) = E
    BY <1>6, <1>7 DEF Siblings, E
  <1>12. QED BY <1>6, <1>7, <1>10, <1>11 DEF Placed, fs, new, k, R, E

(* What stays of who is a child of whom when n is placed under p *)
LEMMA PlacedEdges ==
    ASSUME NEW es, Tree(es), NEW n \in Nodes, NEW p \in Nodes \cup {Top}, NEW pos, NEW old
    PROVE  LET fs == Place(es, n, p, pos, old)
           IN  /\ Tree(fs)
               /\ p # Top => p \in Parents(fs, n)
               /\ \A f \in fs : \/ p # Top /\ f.child = n /\ f.parent = p
                                \/ f.child \in Children(es) /\ f.parent \in Parents(es, f.child)
               /\ \A f \in fs : f.child = n => p # Top /\ (f.parent = p \/ (old = p /\ f.parent \in Parents(es, n)))
               /\ \A e \in es : e.child # n \/ (old = p /\ p # Top) => e.parent \in Parents(fs, e.child)
  <1> DEFINE fs == Place(es, n, p, pos, old)
  <1>1. CASE p = Top
    <2>1. fs = {e \in es : e.child # n}
      BY <1>1 DEF Place
    <2>2. Tree(fs)
      BY <2>1, SubTree
    <2>3. QED BY <1>1, <2>1, <2>2 DEF Children, Parents
  <1>2. CASE p # Top
    <2> DEFINE R == Roomy(es, n, p, pos)
               new == EdgeFor(es, n, p, pos)
    <2>0. p \in Nodes
      BY <1>2
    <2>1. /\ Tree(fs) /\ new \in fs /\ new.parent = p /\ new.child = n
          /\ \A f \in fs : f = new \/ (f \in R /\ (f.child # n \/ (old = p /\ f.parent # p)))
          /\ \A f \in R : f.child # n \/ (old = p /\ f.parent # p) => f \in fs
      <3>1. Placed(es, n, p, pos, old)
        BY <2>0, PlacedTree
      <3>2. QED BY <3>1, Zenon DEF Placed
    <2>2. /\ \A f \in R : f.child \in Children(es) /\ f.parent \in Parents(es, f.child)
          /\ \A e \in es : e.parent \in Parents(R, e.child)
      BY RoomyEdges
    <2>. HIDE DEF fs, R, new
    <2>3. p \in Parents(fs, n)
      BY <2>1 DEF Parents
    <2>4. \A f \in fs : \/ f.child = n /\ f.parent = p
                        \/ f.child \in Children(es) /\ f.parent \in Parents(es, f.child)
      BY <2>1, <2>2
    <2>5. \A f \in fs : f.child = n => f.parent = p \/ (old = p /\ f.parent \in Parents(es, n))
      BY <2>1, <2>2
    <2>6. \A e \in es : e.child # n \/ old = p => e.parent \in Parents(fs, e.child)
      <3>1. SUFFICES ASSUME NEW e \in es, e.child # n \/ old = p
                     PROVE  e.parent \in Parents(fs, e.child)
        OBVIOUS
      <3>2. PICK f \in R : f.child = e.child /\ f.parent = e.parent
        BY <2>2 DEF Parents
      <3>3. CASE f.child = n /\ f.parent = p
        BY <2>3, <3>2, <3>3
      <3>4. CASE f.child # n \/ (old = p /\ f.parent # p)
        BY <2>1, <3>2, <3>4 DEF Parents
      <3>5. QED BY <3>1, <3>2, <3>3, <3>4
    <2>7. QED BY <1>2, <2>1, <2>3, <2>4, <2>5, <2>6 DEF fs
  <1>3. QED BY <1>1, <1>2

-----------------------------------------------------------------------------
(* The invariant *)

Graph ==
    /\ nodes \subseteq Nodes /\ version \in [Nodes -> Nat] /\ \A n \in nodes : version[n] > 0
    /\ Tree(edges) /\ Loopless(edges)
    /\ \A e \in edges : e.parent \in nodes /\ e.child \in nodes

(* What a write that was asked for works on *)
Asked(k) ==
    /\ k.op \in {"edit", "move", "reorder", "gather", "create", "relink", "attach", "detach",
                 "tree", "leaf"}
    /\ k.ns \in Seq(Nodes) /\ Len(k.ns) > 0
    /\ k.op # "gather" => Len(k.ns) = 1
    /\ \A i, j \in 1 .. Len(k.ns) : k.ns[i] = k.ns[j] => i = j
    /\ k.dest \in Nodes \cup {Top}
    /\ k.op \in {"gather", "relink", "attach", "detach"} => k.dest \in Nodes
    /\ k.op \in {"tree", "leaf"} => DOMAIN k.saw = {k.ns[1]}
    /\ k.op \in {"create", "relink", "attach", "detach"} => DOMAIN k.saw = {}
    /\ k.op = "detach" => k.seen \subseteq {k.dest}

(* The versions a write works from are versions that there were, and older than what
   is there once it is written. *)
Sawn(k) ==
    /\ \A n \in DOMAIN k.saw :
          n \in Nodes /\ version[n] > 0 /\ k.saw[n] \in Nat /\ k.saw[n] <= version[n]
    /\ k.step = "done" => \A n \in DOMAIN k.saw : n \in nodes => k.saw[n] < version[n]

CallOK(k) ==
    /\ DOMAIN k = DOMAIN Idle
    /\ k.step \in {"idle", "ready", "again", "done"}
    /\ k.tries \in 0 .. Attempts - 1
    /\ k.step \in {"idle", "done"} => k.op = "idle"
    /\ k.step = "again" => k.op = "tree"
    /\ k.op # "idle" => Asked(k)

(* An id that is about to be created is new and nobody else's. *)
Fresh ==
    \A c, d \in Callers :
        call[c].op = "create" =>
            /\ version[call[c].ns[1]] = 0
            /\ call[d].op = "create" /\ call[d].ns[1] = call[c].ns[1] => c = d

Calls ==
    /\ DOMAIN call = Callers
    /\ \A c \in Callers : CallOK(call[c]) /\ Sawn(call[c])
    /\ Fresh

Queue ==
    /\ pending \in Seq(Callers)
    /\ \A i, j \in 1 .. Len(pending) : pending[i] = pending[j] => i = j
    /\ \A c \in Callers : call[c].step = "done" <=> \E i \in 1 .. Len(pending) : pending[i] = c

TreeInv == Graph /\ Calls /\ Queue /\ issued \in 0 .. MaxRequests

(* The invariant is what the runs look at, with what it rests on. *)
LEMMA InvImplies == TreeInv => TypeOK /\ NoLoops /\ KeysDistinct
  <1>. SUFFICES ASSUME TreeInv PROVE TypeOK /\ NoLoops /\ KeysDistinct
    OBVIOUS
  <1>1. NoLoops /\ KeysDistinct
    BY DEF TreeInv, Graph, Tree, NoLoops, KeysDistinct
  <1>2. /\ nodes \subseteq Nodes /\ version \in [Nodes -> Nat]
        /\ edges \subseteq Edges /\ \A e \in edges : {e.parent, e.child} \subseteq nodes
        /\ Single(edges)
        /\ \A n \in nodes : version[n] > 0
        /\ issued \in 0 .. MaxRequests
    BY DEF TreeInv, Graph, Tree
  <1>3. ASSUME NEW c \in Callers
        PROVE  /\ call[c].step \in {"idle", "ready", "again", "done"}
               /\ DOMAIN call[c].saw \subseteq Nodes /\ call[c].tries < Attempts
               /\ call[c].step = "done" <=> c \in Range(pending)
    <2>1. CallOK(call[c]) /\ Sawn(call[c])
      BY DEF TreeInv, Calls
    <2>2. call[c].step = "done" <=> c \in Range(pending)
      BY DEF TreeInv, Queue, Range
    <2>3. call[c].tries < Attempts
      BY <2>1, BoundAssumption DEF CallOK
    <2>4. QED BY <2>1, <2>2, <2>3 DEF CallOK, Sawn
  <1>4. QED BY <1>1, <1>2, <1>3 DEF TypeOK

LEMMA InvInit == Init => TreeInv
  <1>. SUFFICES ASSUME Init PROVE TreeInv
    OBVIOUS
  <1>1. Graph
    <2>1. /\ edges \subseteq Edges /\ IsFiniteSet(edges) /\ Single(edges) /\ KeysApart(edges)
          /\ Loopless(edges) /\ \A e \in edges : {e.parent, e.child} \cap Spare = {}
      BY OutlineAssumption DEF Init
    <2>2. \A e \in edges : e.parent \in nodes /\ e.child \in nodes
      BY <2>1 DEF Init, Edges
    <2>3. QED BY <2>1, <2>2 DEF Init, Graph, Tree
  <1>2. \A c \in Callers : CallOK(call[c]) /\ Sawn(call[c])
    BY BoundAssumption DEF Init, CallOK, Sawn, Idle
  <1>3. Calls
    BY <1>2 DEF Calls, Fresh, Init, Idle
  <1>4. Queue
    BY DEF Queue, Init, Idle
  <1>5. QED BY <1>1, <1>3, <1>4, BoundAssumption DEF TreeInv, Init

-----------------------------------------------------------------------------
(* Asking *)

(* A call that asks for a write says what that is of, and works from versions there
   are; a create names a new id. *)
LEMMA AskKeeps ==
    ASSUME TreeInv, NEW c \in Callers, NEW k, Ask(c, k),
           DOMAIN k = DOMAIN Idle, k.tries = 0, Asked(k),
           \A n \in DOMAIN k.saw : n \in nodes /\ k.saw[n] = version[n],
           k.op = "create" => version[k.ns[1]] = 0 /\ \A d \in Callers :
               call[d].op = "create" => call[d].ns[1] # k.ns[1]
    PROVE  TreeInv'
  <1> DEFINE r == [k EXCEPT !.step = "ready"]
  <1>1. /\ call[c].step = "idle" /\ call' = [call EXCEPT ![c] = r]
        /\ issued < MaxRequests /\ issued' = issued + 1
        /\ UNCHANGED <<nodes, version, edges, pending>>
    BY DEF Ask
  <1>2. DOMAIN call = Callers
    BY DEF TreeInv, Calls
  <1>3. call'[c] = r /\ \A d \in Callers \ {c} : call'[d] = call[d]
    BY <1>1, <1>2
  <1>4. /\ DOMAIN r = DOMAIN Idle /\ r.step = "ready" /\ r.tries = 0 /\ r.saw = k.saw
        /\ r.op = k.op /\ r.ns = k.ns /\ r.dest = k.dest /\ r.seen = k.seen
    BY DEF Idle
  <1>. HIDE DEF r
  <1>5. Asked(r)
    BY <1>4 DEF Asked
  <1>6. CallOK(r)
    BY <1>4, <1>5, BoundAssumption DEF CallOK
  <1>7. \A n \in DOMAIN r.saw : n \in Nodes /\ version[n] > 0 /\ r.saw[n] \in Nat /\ r.saw[n] <= version[n]
    BY <1>4 DEF TreeInv, Graph
  <1>8. Calls'
    <2>1. DOMAIN call' = Callers
      BY <1>1, <1>2
    <2>2. \A d \in Callers : CallOK(call'[d]) /\ Sawn(call[d])'
      <3>1. CallOK(call'[c]) /\ Sawn(call[c])'
        BY <1>1, <1>3, <1>4, <1>6, <1>7 DEF Sawn
      <3>2. ASSUME NEW d \in Callers \ {c} PROVE CallOK(call'[d]) /\ Sawn(call[d])'
        BY <1>1, <1>3 DEF TreeInv, Calls, Sawn
      <3>3. QED BY <3>1, <3>2
    <2>3. Fresh'
      BY <1>1, <1>3, <1>4 DEF TreeInv, Calls, Fresh
    <2>4. QED BY <2>1, <2>2, <2>3 DEF Calls, CallOK, Asked
  <1>9. Queue'
    BY <1>1, <1>3, <1>4 DEF TreeInv, Queue
  <1>10. Graph'
    BY <1>1 DEF TreeInv, Graph
  <1>11. issued' \in 0 .. MaxRequests
    BY <1>1, BoundAssumption DEF TreeInv
  <1>12. QED BY <1>8, <1>9, <1>10, <1>11 DEF TreeInv

(* The same for the writes that name one node, from the versions of S *)
LEMMA AskOneKeeps ==
    ASSUME TreeInv, NEW c \in Callers, NEW n \in Nodes, NEW S \in SUBSET (nodes \cap {n}), NEW k,
           Ask(c, k), DOMAIN k = DOMAIN Idle, k.tries = 0, k.ns = <<n>>,
           k.op \in {"edit", "move", "reorder", "create", "relink", "attach", "detach",
                     "tree", "leaf"},
           k.dest \in Nodes \cup {Top},
           k.op \in {"relink", "attach", "detach"} => k.dest \in Nodes,
           k.op \in {"tree", "leaf"} => S = {n},
           k.op \in {"create", "relink", "attach", "detach"} => S = {},
           k.op = "detach" => k.seen \subseteq {k.dest},
           k.saw = Versions(S) \/ (S = {} /\ k.saw = <<>>),
           k.op = "create" => version[n] = 0 /\ \A d \in Callers :
               call[d].op = "create" => call[d].ns[1] # n
    PROVE  TreeInv'
  <1>1. DOMAIN k.saw = S /\ \A m \in S : k.saw[m] = version[m]
    <2>1. CASE k.saw = Versions(S)
      <3>1. DOMAIN Versions(S) = S /\ \A m \in S : Versions(S)[m] = version[m]
        BY DEF Versions
      <3>2. QED BY <2>1, <3>1
    <2>2. CASE S = {} /\ k.saw = <<>>
      <3>1. DOMAIN <<>> = {}
        OBVIOUS
      <3>2. QED BY <2>2, <3>1, Zenon
    <2>3. QED BY <2>1, <2>2
  <1>2. k.ns \in Seq(Nodes) /\ Len(k.ns) = 1 /\ k.ns[1] = n
    OBVIOUS
  <1>3. Asked(k)
    <2>1. \A i, j \in 1 .. Len(k.ns) : k.ns[i] = k.ns[j] => i = j
      BY <1>2
    <2>2. k.op \in {"tree", "leaf"} => DOMAIN k.saw = {k.ns[1]}
      BY <1>1, <1>2
    <2>3. k.op # "gather" /\ k.op # "idle"
      OBVIOUS
    <2>4. QED BY <1>1, <1>2, <2>1, <2>2, <2>3 DEF Asked
  <1>4. k.op = "create" => version[k.ns[1]] = 0 /\ \A d \in Callers :
            call[d].op = "create" => call[d].ns[1] # k.ns[1]
    BY <1>2
  <1>5. QED BY <1>1, <1>3, <1>4, AskKeeps

LEMMA AsksKeep ==
    ASSUME TreeInv, NEW c \in Callers, Asks(c)
    PROVE  TreeInv'
  <1>1. nodes \subseteq Nodes /\ \A n \in Nodes : Parents(edges, n) \subseteq nodes
    BY DEF TreeInv, Graph, Parents
  <1>2. ASSUME NEW n \in nodes, AskEdit(c, n) PROVE TreeInv'
    <2> DEFINE k == [Idle EXCEPT !.op = "edit", !.ns = <<n>>, !.saw = Versions({n})]
    <2>1. Ask(c, k)
      BY <1>2 DEF AskEdit
    <2>2. /\ DOMAIN k = DOMAIN Idle /\ k.tries = 0 /\ k.ns = <<n>> /\ k.op = "edit"
          /\ k.dest = Top /\ k.saw = Versions({n})
      BY DEF Idle
    <2>. HIDE DEF k
    <2>3. QED BY <1>1, <2>1, <2>2, AskOneKeeps
  <1>3. ASSUME NEW n \in nodes, AskMove(c, n) PROVE TreeInv'
    <2>1. PICK p \in {Top} \cup (nodes \ Subtree(edges, n)), S \in {{n}, {}} :
             \E pos \in Positions(n, p) :
                Ask(c, [Idle EXCEPT !.op = "move", !.ns = <<n>>, !.dest = p, !.pos = pos,
                                    !.saw = Versions(S)])
      BY <1>3 DEF AskMove
    <2>2. PICK pos \in Positions(n, p) :
                Ask(c, [Idle EXCEPT !.op = "move", !.ns = <<n>>, !.dest = p, !.pos = pos,
                                    !.saw = Versions(S)])
      BY <2>1
    <2> DEFINE k == [Idle EXCEPT !.op = "move", !.ns = <<n>>, !.dest = p, !.pos = pos,
                                 !.saw = Versions(S)]
    <2>3. /\ DOMAIN k = DOMAIN Idle /\ k.tries = 0 /\ k.ns = <<n>> /\ k.op = "move"
          /\ k.dest = p /\ k.saw = Versions(S)
      BY DEF Idle
    <2>4. Ask(c, k)
      BY <2>2
    <2>. HIDE DEF k
    <2>5. S \in SUBSET (nodes \cap {n}) /\ p \in Nodes \cup {Top}
      BY <1>1
    <2>6. QED BY <1>1, <2>3, <2>4, <2>5, AskOneKeeps
  <1>4. ASSUME NEW n \in nodes, AskReorder(c, n) PROVE TreeInv'
    <2>1. PICK p \in Parents(edges, n) : \E pos \in {First, Last} \cup (Kids(edges, p) \ {n}) :
                Ask(c, [Idle EXCEPT !.op = "reorder", !.ns = <<n>>, !.pos = pos,
                                    !.saw = Versions({n})])
      BY <1>4 DEF AskReorder
    <2>2. PICK pos \in {First, Last} \cup (Kids(edges, p) \ {n}) :
                Ask(c, [Idle EXCEPT !.op = "reorder", !.ns = <<n>>, !.pos = pos,
                                    !.saw = Versions({n})])
      BY <2>1
    <2> DEFINE k == [Idle EXCEPT !.op = "reorder", !.ns = <<n>>, !.pos = pos,
                                 !.saw = Versions({n})]
    <2>3. /\ DOMAIN k = DOMAIN Idle /\ k.tries = 0 /\ k.ns = <<n>> /\ k.op = "reorder"
          /\ k.dest = Top /\ k.saw = Versions({n})
      BY DEF Idle
    <2>4. Ask(c, k)
      BY <2>2
    <2>. HIDE DEF k
    <2>5. QED BY <1>1, <2>3, <2>4, AskOneKeeps
  <1>5. ASSUME NEW n \in nodes, NEW m \in nodes, AskGather(c, IF n = m THEN <<n>> ELSE <<n, m>>)
        PROVE  TreeInv'
    <2> DEFINE ns == IF n = m THEN <<n>> ELSE <<n, m>>
    <2>1. PICK p \in nodes :
             Ask(c, [Idle EXCEPT !.op = "gather", !.ns = ns, !.dest = p, !.saw = Versions(Range(ns))])
      BY <1>5 DEF AskGather
    <2> DEFINE k == [Idle EXCEPT !.op = "gather", !.ns = ns, !.dest = p, !.saw = Versions(Range(ns))]
    <2>2. /\ DOMAIN k = DOMAIN Idle /\ k.tries = 0 /\ k.ns = ns /\ k.op = "gather"
          /\ k.dest = p /\ k.saw = Versions(Range(ns))
      BY DEF Idle
    <2>3. /\ ns \in Seq(Nodes) /\ Len(ns) > 0
          /\ \A i, j \in 1 .. Len(ns) : ns[i] = ns[j] => i = j
      <3>1. n \in Nodes /\ m \in Nodes
        BY <1>1
      <3>2. CASE n = m
        BY <3>1, <3>2
      <3>3. CASE n # m
        BY <3>1, <3>3
      <3>4. QED BY <3>2, <3>3
    <2>4. Range(ns) \subseteq nodes
      <3>1. CASE n = m
        BY <3>1 DEF Range
      <3>2. CASE n # m
        BY <3>2 DEF Range
      <3>3. QED BY <3>1, <3>2
    <2>5. Ask(c, k)
      BY <2>1
    <2>. HIDE DEF k, ns
    <2>6. DOMAIN k.saw = Range(ns) /\ \A x \in Range(ns) : k.saw[x] = version[x]
      BY <2>2 DEF Versions
    <2>7. Asked(k)
      BY <1>1, <2>2, <2>3 DEF Asked
    <2>8. QED BY <2>2, <2>4, <2>5, <2>6, <2>7, AskKeeps
  <1>6. ASSUME NEW n \in Nodes \ nodes, AskCreate(c, n) PROVE TreeInv'
    <2>1. version[n] = 0 /\ \A d \in Callers : call[d].op = "create" => call[d].ns[1] # n
      BY <1>6 DEF AskCreate, Node
    <2>2. PICK p \in {Top} \cup nodes : \E pos \in Positions(n, p) :
             Ask(c, [Idle EXCEPT !.op = "create", !.ns = <<n>>, !.dest = p,
                                 !.pos = IF pos \in nodes \ Kids(edges, p) THEN Last ELSE pos])
      BY <1>6 DEF AskCreate
    <2>3. PICK pos \in Positions(n, p) :
             Ask(c, [Idle EXCEPT !.op = "create", !.ns = <<n>>, !.dest = p,
                                 !.pos = IF pos \in nodes \ Kids(edges, p) THEN Last ELSE pos])
      BY <2>2
    <2> DEFINE k == [Idle EXCEPT !.op = "create", !.ns = <<n>>, !.dest = p,
                                 !.pos = IF pos \in nodes \ Kids(edges, p) THEN Last ELSE pos]
    <2>4. /\ DOMAIN k = DOMAIN Idle /\ k.tries = 0 /\ k.ns = <<n>> /\ k.op = "create"
          /\ k.dest = p /\ k.saw = <<>>
      BY DEF Idle
    <2>5. Ask(c, k)
      BY <2>3
    <2>. HIDE DEF k
    <2>6. QED BY <1>1, <2>1, <2>4, <2>5, AskOneKeeps
  <1>7. ASSUME NEW n \in nodes, AskRelink(c, n) PROVE TreeInv'
    <2>1. PICK p \in nodes : \E pos \in Positions(n, p) :
             Ask(c, [Idle EXCEPT !.op = "relink", !.ns = <<n>>, !.dest = p, !.pos = pos])
      BY <1>7 DEF AskRelink
    <2>2. PICK pos \in Positions(n, p) :
             Ask(c, [Idle EXCEPT !.op = "relink", !.ns = <<n>>, !.dest = p, !.pos = pos])
      BY <2>1
    <2> DEFINE k == [Idle EXCEPT !.op = "relink", !.ns = <<n>>, !.dest = p, !.pos = pos]
    <2>3. /\ DOMAIN k = DOMAIN Idle /\ k.tries = 0 /\ k.ns = <<n>> /\ k.op = "relink"
          /\ k.dest = p /\ k.saw = <<>>
      BY DEF Idle
    <2>4. Ask(c, k)
      BY <2>2
    <2>. HIDE DEF k
    <2>5. QED BY <1>1, <2>3, <2>4, AskOneKeeps
  <1>8. ASSUME NEW n \in nodes, AskAttach(c, n) PROVE TreeInv'
    <2>1. PICK p \in nodes : Ask(c, [Idle EXCEPT !.op = "attach", !.ns = <<n>>, !.dest = p])
      BY <1>8 DEF AskAttach
    <2> DEFINE k == [Idle EXCEPT !.op = "attach", !.ns = <<n>>, !.dest = p]
    <2>2. /\ DOMAIN k = DOMAIN Idle /\ k.tries = 0 /\ k.ns = <<n>> /\ k.op = "attach"
          /\ k.dest = p /\ k.saw = <<>>
      BY DEF Idle
    <2>3. Ask(c, k)
      BY <2>1
    <2>. HIDE DEF k
    <2>4. QED BY <1>1, <2>2, <2>3, AskOneKeeps
  <1>9. ASSUME NEW n \in nodes, AskDetach(c, n) PROVE TreeInv'
    <2>1. PICK p \in nodes : Ask(c, [Idle EXCEPT !.op = "detach", !.ns = <<n>>, !.dest = p,
                                                 !.seen = {p} \cap Parents(edges, n)])
      BY <1>9 DEF AskDetach
    <2> DEFINE k == [Idle EXCEPT !.op = "detach", !.ns = <<n>>, !.dest = p,
                                 !.seen = {p} \cap Parents(edges, n)]
    <2>2. /\ DOMAIN k = DOMAIN Idle /\ k.tries = 0 /\ k.ns = <<n>> /\ k.op = "detach"
          /\ k.dest = p /\ k.saw = <<>> /\ k.seen \subseteq {p}
      BY DEF Idle
    <2>3. Ask(c, k)
      BY <2>1
    <2>. HIDE DEF k
    <2>4. QED BY <1>1, <2>2, <2>3, AskOneKeeps
  <1>10. ASSUME NEW n \in nodes, AskDeleteTree(c, n) PROVE TreeInv'
    <2> DEFINE k == [Idle EXCEPT !.op = "tree", !.ns = <<n>>, !.seen = Subtree(edges, n),
                                 !.saw = Versions({n})]
    <2>1. Ask(c, k)
      BY <1>10 DEF AskDeleteTree
    <2>2. /\ DOMAIN k = DOMAIN Idle /\ k.tries = 0 /\ k.ns = <<n>> /\ k.op = "tree"
          /\ k.dest = Top /\ k.saw = Versions({n})
      BY DEF Idle
    <2>. HIDE DEF k
    <2>3. QED BY <1>1, <2>1, <2>2, AskOneKeeps
  <1>11. ASSUME NEW n \in nodes, AskDeleteLeaf(c, n) PROVE TreeInv'
    <2> DEFINE k == [Idle EXCEPT !.op = "leaf", !.ns = <<n>>, !.saw = Versions({n})]
    <2>1. Ask(c, k)
      BY <1>11 DEF AskDeleteLeaf
    <2>2. /\ DOMAIN k = DOMAIN Idle /\ k.tries = 0 /\ k.ns = <<n>> /\ k.op = "leaf"
          /\ k.dest = Top /\ k.saw = Versions({n})
      BY DEF Idle
    <2>. HIDE DEF k
    <2>3. QED BY <1>1, <2>1, <2>2, AskOneKeeps
  <1>12. QED
    BY <1>2, <1>3, <1>4, <1>5, <1>6, <1>7, <1>8, <1>9, <1>10, <1>11 DEF Asks

-----------------------------------------------------------------------------
(* Committing *)

(* What a call that is about to commit has *)
LEMMA ReadyCall ==
    ASSUME TreeInv, NEW c \in Callers, NEW op, Ready(c, op), op # "idle"
    PROVE  /\ call[c].step = "ready" /\ call[c].op = op /\ Asked(call[c]) /\ Sawn(call[c])
           /\ CallOK(call[c]) /\ Node(c) \in Nodes
           /\ op # "gather" => Range(call[c].ns) = {Node(c)}
  <1>1. CallOK(call[c]) /\ Sawn(call[c]) /\ call[c].step = "ready" /\ call[c].op = op
    BY DEF TreeInv, Calls, Ready
  <1>2. Asked(call[c])
    BY <1>1 DEF CallOK
  <1> DEFINE ns == call[c].ns
  <1>3. ns \in Seq(Nodes) /\ Len(ns) > 0 /\ (op # "gather" => Len(ns) = 1)
    BY <1>1, <1>2 DEF Asked
  <1>. HIDE DEF ns
  <1>4. Len(ns) \in Nat /\ DOMAIN ns = 1 .. Len(ns) /\ ns[1] \in Nodes
    BY <1>3
  <1>5. op # "gather" => Range(ns) = {ns[1]}
    BY <1>3, <1>4 DEF Range
  <1>6. QED BY <1>1, <1>2, <1>4, <1>5 DEF Node, ns

(* Once the tree is known to be sound, committing keeps the rest: nobody's versions go
   back, and the versions the write worked from are past. *)
LEMMA CommitKeeps ==
    ASSUME TreeInv, NEW c \in Callers, call[c].step = "ready", NEW es, NEW note,
           Commit(c, es, note), Graph',
           \A n \in Nodes : version[n] <= version'[n],
           \A n \in Nodes : version[n] = 0 /\ version'[n] # 0 =>
               call[c].op = "create" /\ n = call[c].ns[1],
           \A n \in nodes' : n \in nodes \/ version[n] = 0,
           \A n \in DOMAIN call[c].saw : n \in nodes' => call[c].saw[n] < version'[n]
    PROVE  TreeInv'
  <1> DEFINE r == [Idle EXCEPT !.step = "done", !.saw = call[c].saw, !.note = note]
  <1>1. /\ call' = [call EXCEPT ![c] = r] /\ pending' = Append(pending, c) /\ issued' = issued
    BY DEF Commit
  <1>2. DOMAIN call = Callers /\ \A d \in Callers : CallOK(call[d]) /\ Sawn(call[d])
    BY DEF TreeInv, Calls
  <1>3. call'[c] = r /\ \A d \in Callers \ {c} : call'[d] = call[d]
    BY <1>1, <1>2
  <1>4. /\ DOMAIN r = DOMAIN Idle /\ r.step = "done" /\ r.tries = 0 /\ r.saw = call[c].saw
        /\ r.op = "idle"
    BY DEF Idle
  <1>. HIDE DEF r
  <1>5. version \in [Nodes -> Nat] /\ version' \in [Nodes -> Nat]
    BY DEF TreeInv, Graph
  <1>6. Calls'
    <2>1. DOMAIN call' = Callers
      BY <1>1, <1>2
    <2>2. CallOK(call'[c])
      BY <1>3, <1>4, BoundAssumption DEF CallOK
    <2>3. Sawn(call[c])'
      <3>1. \A n \in DOMAIN r.saw : /\ n \in Nodes /\ version'[n] > 0
                                    /\ r.saw[n] \in Nat /\ r.saw[n] <= version'[n]
        BY <1>2, <1>4, <1>5 DEF Sawn
      <3>2. \A n \in DOMAIN r.saw : n \in nodes' => r.saw[n] < version'[n]
        BY <1>4
      <3>3. QED BY <1>3, <3>1, <3>2 DEF Sawn
    <2>4. ASSUME NEW d \in Callers \ {c} PROVE CallOK(call'[d]) /\ Sawn(call[d])'
      <3>1. CallOK(call'[d])
        BY <1>2, <1>3
      <3>2. \A n \in DOMAIN call[d].saw :
               /\ n \in Nodes /\ version'[n] > 0 /\ call[d].saw[n] \in Nat
               /\ call[d].saw[n] <= version'[n]
        BY <1>2, <1>5 DEF Sawn
      <3>3. ASSUME call[d].step = "done", NEW n \in DOMAIN call[d].saw, n \in nodes'
            PROVE  call[d].saw[n] < version'[n]
        <4>1. n \in Nodes /\ version[n] > 0 /\ call[d].saw[n] \in Nat
          BY <1>2 DEF Sawn
        <4>2. n \in nodes
          BY <3>3, <4>1
        <4>3. call[d].saw[n] < version[n]
          BY <3>3, <4>2, <1>2 DEF Sawn
        <4>4. QED BY <4>1, <4>3, <1>5
      <3>4. QED BY <1>3, <3>1, <3>2, <3>3 DEF Sawn
    <2>5. Fresh'
      <3>1. SUFFICES ASSUME NEW b \in Callers, NEW d \in Callers, call'[b].op = "create"
                     PROVE  /\ version'[call'[b].ns[1]] = 0
                            /\ call'[d].op = "create" /\ call'[d].ns[1] = call'[b].ns[1] => b = d
        BY DEF Fresh
      <3>2. b # c /\ call'[b] = call[b] /\ (d # c => call'[d] = call[d]) /\ call'[c].op = "idle"
        BY <1>3, <1>4, <3>1
      <3>3. /\ version[call[b].ns[1]] = 0
            /\ call[d].op = "create" /\ call[d].ns[1] = call[b].ns[1] => b = d
        BY <3>1, <3>2 DEF TreeInv, Calls, Fresh
      <3>4. call[b].ns[1] \in Nodes
        <4>1. Asked(call[b])
          BY <1>2, <3>1, <3>2 DEF CallOK
        <4>2. QED BY <4>1 DEF Asked
      <3>5. call[c].op = "create" => call[c].ns[1] # call[b].ns[1]
        BY <3>1, <3>2 DEF TreeInv, Calls, Fresh
      <3>6. version'[call[b].ns[1]] = 0
        BY <3>3, <3>4, <3>5
      <3>7. QED BY <3>2, <3>3, <3>6
    <2>6. QED BY <2>1, <2>2, <2>3, <2>4, <2>5 DEF Calls, CallOK, Asked
  <1>7. Queue'
    <2>1. /\ pending \in Seq(Callers)
          /\ \A i, j \in 1 .. Len(pending) : pending[i] = pending[j] => i = j
          /\ \A d \in Callers : call[d].step = "done" <=> \E i \in 1 .. Len(pending) : pending[i] = d
      BY DEF TreeInv, Queue
    <2>2. /\ pending' \in Seq(Callers) /\ Len(pending') = Len(pending) + 1
          /\ \A i \in 1 .. Len(pending) : pending'[i] = pending[i]
          /\ pending'[Len(pending) + 1] = c /\ Len(pending) \in Nat
      BY <1>1, <2>1
    <2>3. \A i \in 1 .. Len(pending) : pending[i] # c
      BY <2>1
    <2>4. \A i, j \in 1 .. Len(pending') : pending'[i] = pending'[j] => i = j
      BY <2>1, <2>2, <2>3
    <2>5. call'[c].step = "done" /\ \E i \in 1 .. Len(pending') : pending'[i] = c
      BY <1>3, <1>4, <2>2
    <2>6. ASSUME NEW d \in Callers \ {c}
          PROVE  call'[d].step = "done" <=> \E i \in 1 .. Len(pending') : pending'[i] = d
      BY <1>3, <2>1, <2>2
    <2>7. QED BY <2>2, <2>4, <2>5, <2>6 DEF Queue
  <1>8. QED BY <1>1, <1>6, <1>7 DEF TreeInv

(* Nobody is left with an older version, and the call's own are past, when exactly the
   nodes that it works from are bumped. *)
LEMMA BumpKeeps ==
    ASSUME TreeInv, NEW c \in Callers, Allowed(call[c]), Bump(c)
    PROVE  /\ version' \in [Nodes -> Nat] /\ \A n \in Nodes : version[n] <= version'[n]
           /\ \A n \in Nodes : version[n] = 0 => version'[n] = 0
           /\ \A n \in DOMAIN call[c].saw : call[c].saw[n] < version'[n]
  <1>1. Sawn(call[c]) /\ version \in [Nodes -> Nat]
    BY DEF TreeInv, Calls, Graph
  <1>2. \A n \in DOMAIN call[c].saw : n \in Nodes /\ version[n] > 0 /\ version[n] = call[c].saw[n]
    BY <1>1 DEF Allowed, Current, Sawn
  <1>3. version' = [n \in Nodes |-> IF n \in DOMAIN call[c].saw THEN version[n] + 1 ELSE version[n]]
    BY DEF Bump
  <1> DEFINE D == DOMAIN call[c].saw
  <1>4. \A n \in D : n \in Nodes /\ version[n] > 0 /\ version[n] = call[c].saw[n]
    BY <1>2
  <1>5. version' = [n \in Nodes |-> IF n \in D THEN version[n] + 1 ELSE version[n]]
    BY <1>3
  <1>. HIDE DEF D
  <1>6. /\ version' \in [Nodes -> Nat] /\ \A n \in Nodes : version[n] <= version'[n]
        /\ \A n \in Nodes : version[n] = 0 => version'[n] = 0
    BY <1>1, <1>4, <1>5
  <1>7. \A n \in D : call[c].saw[n] < version'[n]
    BY <1>1, <1>4, <1>5
  <1>8. QED BY <1>6, <1>7 DEF D

-----------------------------------------------------------------------------
(* The writes *)

LEMMA SubLoopless ==
    ASSUME NEW es, NEW fs, Loopless(es),
           \A f \in fs : f.child \in Children(es) /\ f.parent \in Parents(es, f.child)
    PROVE  Loopless(fs)
  <1>1. \A n : Parents(fs, n) \subseteq Parents(es, n)
    BY DEF Parents
  <1>2. QED BY <1>1 DEF Loopless

(* A node placed under a node of the tree that is its parent already, or not below it,
   leaves a sound tree. *)
LEMMA PlaceSound ==
    ASSUME Graph, NEW n \in Nodes, NEW p \in nodes \cup {Top}, NEW pos, NEW old,
           p # Top => p \notin Subtree(edges, n) \/ p \in Parents(edges, n)
    PROVE  /\ Tree(Place(edges, n, p, pos, old)) /\ Loopless(Place(edges, n, p, pos, old))
           /\ \A f \in Place(edges, n, p, pos, old) :
                 f.parent \in nodes /\ (f.child \in nodes \/ f.child = n)
  <1> DEFINE fs == Place(edges, n, p, pos, old)
  <1>0. /\ Tree(edges) /\ Loopless(edges) /\ nodes \subseteq Nodes
        /\ \A e \in edges : e.parent \in nodes /\ e.child \in nodes
    BY DEF Graph
  <1>1. /\ Tree(fs)
        /\ \A f \in fs : \/ p # Top /\ f.child = n /\ f.parent = p
                         \/ f.child \in Children(edges) /\ f.parent \in Parents(edges, f.child)
    BY <1>0, PlacedEdges
  <1>. HIDE DEF fs
  <1>2. \A f \in fs : f.parent \in nodes /\ (f.child \in nodes \/ f.child = n)
    BY <1>0, <1>1 DEF Children, Parents
  <1>3. Loopless(fs)
    <2>1. CASE p = Top
      BY <1>0, <1>1, <2>1, SubLoopless
    <2>2. CASE p \in Parents(edges, n)
      <3>1. n \in Children(edges)
        BY <2>2 DEF Parents, Children
      <3>2. \A f \in fs : f.child \in Children(edges) /\ f.parent \in Parents(edges, f.child)
        BY <1>1, <2>2, <3>1
      <3>3. QED BY <1>0, <3>2, SubLoopless
    <2>3. CASE p # Top /\ p \notin Subtree(edges, n)
      <3> DEFINE M == {n}
      <3>1. \A f \in fs : \/ f.child \in M /\ f.parent = p
                          \/ f.child \in Children(edges) /\ f.parent \in Parents(edges, f.child)
        BY <1>1
      <3>2. p \in Nodes /\ \A m \in M : p \notin Subtree(edges, m)
        BY <1>0, <2>3
      <3>. HIDE DEF M
      <3>3. QED BY <1>0, <3>1, <3>2, Grafted
    <2>4. QED BY <2>1, <2>2, <2>3
  <1>4. QED BY <1>1, <1>2, <1>3 DEF fs

LEMMA EditKeeps ==
    ASSUME TreeInv, NEW c \in Callers, Edit(c)
    PROVE  TreeInv'
  <1>1. Ready(c, "edit") /\ Commit(c, edges, Silent) /\ Bump(c) /\ nodes' = nodes
    BY DEF Edit
  <1>2. call[c].step = "ready" /\ Allowed(call[c]) /\ edges' = edges
    BY <1>1 DEF Ready, Commit
  <1>3. /\ version' \in [Nodes -> Nat] /\ \A n \in Nodes : version[n] <= version'[n]
        /\ \A n \in Nodes : version[n] = 0 => version'[n] = 0
        /\ \A n \in DOMAIN call[c].saw : call[c].saw[n] < version'[n]
    BY <1>1, <1>2, BumpKeeps
  <1>4. Graph'
    BY <1>1, <1>2, <1>3 DEF TreeInv, Graph
  <1>5. QED BY <1>1, <1>2, <1>3, <1>4, CommitKeeps

(* What is needed of a placement that bumps the node *)
LEMMA PlaceKeeps ==
    ASSUME TreeInv, NEW c \in Callers, call[c].step = "ready", NEW n \in nodes,
           NEW p \in nodes \cup {Top}, NEW pos, NEW old, NEW note,
           p # Top => p \notin Subtree(edges, n) \/ p \in Parents(edges, n),
           Commit(c, Place(edges, n, p, pos, old), note), nodes' = nodes,
           Bump(c) \/ (version' = version /\ DOMAIN call[c].saw = {})
    PROVE  TreeInv'
  <1>1. Allowed(call[c]) /\ edges' = Place(edges, n, p, pos, old)
    BY DEF Commit
  <1>2. /\ version' \in [Nodes -> Nat] /\ \A m \in Nodes : version[m] <= version'[m]
        /\ \A m \in Nodes : version[m] = 0 => version'[m] = 0
        /\ \A m \in DOMAIN call[c].saw : call[c].saw[m] < version'[m]
    <2>1. CASE Bump(c)
      BY <1>1, <2>1, BumpKeeps
    <2>2. CASE version' = version /\ DOMAIN call[c].saw = {}
      BY <2>2 DEF TreeInv, Graph
    <2>3. QED BY <2>1, <2>2
  <1>3. Graph /\ n \in Nodes
    BY DEF TreeInv, Graph
  <1>4. /\ Tree(edges') /\ Loopless(edges')
        /\ \A f \in edges' : f.parent \in nodes /\ (f.child \in nodes \/ f.child = n)
    BY <1>1, <1>3, PlaceSound
  <1>5. Graph'
    <2>1. Tree(edges)' /\ Loopless(edges)'
      BY <1>4 DEF Tree, Single, KeysApart, Loopless, Parents
    <2>2. \A f \in edges' : f.parent \in nodes' /\ f.child \in nodes'
      BY <1>4
    <2>3. nodes' \subseteq Nodes /\ \A m \in nodes' : version'[m] > 0
      <3>1. nodes \subseteq Nodes /\ version \in [Nodes -> Nat] /\ \A m \in nodes : version[m] > 0
        BY <1>3 DEF Graph
      <3>2. ASSUME NEW m \in nodes PROVE version'[m] > 0
        BY <1>2, <3>1
      <3>3. QED BY <3>1, <3>2
    <2>4. QED BY <1>2, <2>1, <2>2, <2>3 DEF Graph
  <1>6. QED BY <1>2, <1>5, CommitKeeps

LEMMA MoveKeeps ==
    ASSUME TreeInv, NEW c \in Callers, Move(c)
    PROVE  TreeInv'
  <1> DEFINE n == Node(c)
             p == call[c].dest
             pos == call[c].pos
             note(old) == [updated |-> Spread(edges, n, p, pos)
                                  \cup (IF p = Top THEN {} ELSE {EdgeFor(edges, n, p, pos)}),
                           created |-> {}, deleted |-> Former(n, p, old)]
  <1>1. Ready(c, "move") /\ Bump(c) /\ nodes' = nodes
    BY DEF Move
  <1>2. PICK old \in OneParent(edges, n) : Commit(c, Place(edges, n, p, pos, old), note(old))
    BY DEF Move
  <1>3. call[c].step = "ready" /\ call[c].op = "move" /\ Range(call[c].ns) = {n}
    BY <1>1, ReadyCall
  <1>4. n \in nodes /\ p \in nodes \cup {Top} /\ p \notin Subtree(edges, n)
    BY <1>2, <1>3 DEF Commit, Allowed, NewHome, NoCycle, Node
  <1>. HIDE DEF n, p, pos, note
  <1>5. QED BY <1>1, <1>2, <1>3, <1>4, PlaceKeeps

LEMMA ReorderKeeps ==
    ASSUME TreeInv, NEW c \in Callers, Reorder(c)
    PROVE  TreeInv'
  <1> DEFINE n == Node(c)
             pos == call[c].pos
             note(p) == [Silent EXCEPT !.updated = Spread(edges, n, p, pos)
                                                \cup {EdgeFor(edges, n, p, pos)}]
  <1>1. Ready(c, "reorder") /\ Bump(c) /\ nodes' = nodes
    BY DEF Reorder
  <1>2. PICK p \in Parents(edges, n) : Commit(c, Place(edges, n, p, pos, p), note(p))
    BY DEF Reorder
  <1>3. call[c].step = "ready"
    BY <1>1, ReadyCall
  <1>4. n \in nodes /\ p \in nodes
    BY <1>2 DEF TreeInv, Graph, Parents
  <1>. HIDE DEF n, pos, note
  <1>5. QED BY <1>1, <1>2, <1>3, <1>4, PlaceKeeps

LEMMA RelinkKeeps ==
    ASSUME TreeInv, NEW c \in Callers, Relink(c)
    PROVE  TreeInv'
  <1> DEFINE n == Node(c)
             p == call[c].dest
             pos == call[c].pos
             note(old) == [updated |-> Spread(edges, n, p, pos),
                           created |-> {EdgeFor(edges, n, p, pos)},
                           deleted |-> Former(n, p, old)]
  <1>1. Ready(c, "relink") /\ nodes' = nodes /\ version' = version
    BY DEF Relink
  <1>2. PICK old \in OneParent(edges, n) :
            IF pos = Last /\ old = p THEN Commit(c, edges, Silent)
            ELSE Commit(c, Place(edges, n, p, pos, old), note(old))
    BY DEF Relink
  <1>3. call[c].step = "ready" /\ call[c].op = "relink" /\ Range(call[c].ns) = {n} /\ Asked(call[c])
    BY <1>1, ReadyCall
  <1>4. Allowed(call[c])
    BY <1>2 DEF Commit
  <1>5. n \in nodes /\ p \in nodes \cup {Top} /\ p \notin Subtree(edges, n)
    BY <1>3, <1>4 DEF Allowed, NewHome, NoCycle, Node
  <1>6. DOMAIN call[c].saw = {}
    BY <1>3 DEF Asked
  <1>7. CASE pos = Last /\ old = p
    <2>1. edges' = edges
      BY <1>2, <1>7 DEF Commit
    <2>2. Graph'
      BY <1>1, <2>1 DEF TreeInv, Graph
    <2>3. \A m \in Nodes : version[m] <= version[m]
      BY DEF TreeInv, Graph
    <2>4. QED BY <1>1, <1>2, <1>3, <1>6, <1>7, <2>2, <2>3, CommitKeeps
  <1>8. CASE ~(pos = Last /\ old = p)
    <2>1. Commit(c, Place(edges, n, p, pos, old), note(old))
      BY <1>2, <1>8
    <2>. HIDE DEF n, p, pos, note
    <2>2. QED BY <1>1, <1>3, <1>5, <1>6, <2>1, PlaceKeeps
  <1>9. QED BY <1>7, <1>8

LEMMA CreateKeeps ==
    ASSUME TreeInv, NEW c \in Callers, Create(c)
    PROVE  TreeInv'
  <1> DEFINE n == Node(c)
             p == call[c].dest
             pos == call[c].pos
             es == Place(edges, n, p, pos, Top)
             note == [Silent EXCEPT !.updated = Spread(edges, n, p, pos),
                             !.created = IF p = Top THEN {} ELSE {EdgeFor(edges, n, p, pos)}]
  <1>1. Ready(c, "create") /\ Commit(c, es, note)
        /\ nodes' = nodes \cup {n} /\ version' = [version EXCEPT ![n] = 1]
    BY DEF Create
  <1>2. call[c].step = "ready" /\ call[c].op = "create" /\ Asked(call[c]) /\ n \in Nodes
    BY <1>1, ReadyCall
  <1>3. p \in nodes \cup {Top} /\ edges' = es
    BY <1>1, <1>2 DEF Commit, Allowed, NewHome
  <1>4. version[n] = 0 /\ version \in [Nodes -> Nat] /\ nodes \subseteq Nodes
        /\ \A m \in nodes : version[m] > 0
    BY <1>2 DEF TreeInv, Calls, Fresh, Graph, Node
  <1>5. n \notin nodes
    BY <1>4
  <1>6. Kids(edges, n) = {}
    BY <1>5 DEF TreeInv, Graph, Kids
  <1>7. p # Top => p \notin Subtree(edges, n)
    BY <1>3, <1>5, <1>6, LeafSubtree
  <1>8. DOMAIN call[c].saw = {} /\ call[c].ns[1] = n
    BY <1>2 DEF Asked, Node
  <1>. HIDE DEF n, p, pos, es, note
  <1>9. /\ Tree(es) /\ Loopless(es)
        /\ \A f \in es : f.parent \in nodes /\ (f.child \in nodes \/ f.child = n)
    BY <1>2, <1>3, <1>7, PlaceSound DEF TreeInv, es
  <1>10. Graph'
    <2>1. version' \in [Nodes -> Nat] /\ \A m \in nodes' : version'[m] > 0
      BY <1>1, <1>2, <1>4
    <2>2. \A f \in edges' : f.parent \in nodes' /\ f.child \in nodes'
      BY <1>1, <1>3, <1>9
    <2>3. Tree(edges)' /\ Loopless(edges)'
      BY <1>3, <1>9 DEF Tree, Single, KeysApart, Loopless, Parents
    <2>4. QED BY <1>1, <1>2, <1>4, <2>1, <2>2, <2>3 DEF Graph
  <1>11. \A m \in Nodes : version[m] <= version'[m]
    BY <1>1, <1>2, <1>4
  <1>12. \A m \in Nodes : version[m] = 0 /\ version'[m] # 0 => m = call[c].ns[1]
    BY <1>1, <1>2, <1>4, <1>8
  <1>13. \A m \in nodes' : m \in nodes \/ version[m] = 0
    BY <1>1, <1>4
  <1>14. QED BY <1>1, <1>2, <1>8, <1>10, <1>11, <1>12, <1>13, CommitKeeps

(* The edges of the children ns gathered behind those of p *)
GatheredEdges(es, p, ns) ==
    {[parent |-> p, child |-> ns[i], key |-> GatherBase(es, p) + i * Unit] : i \in DOMAIN ns}

(* They come after all others and have keys of their own. *)
LEMMA GatheredKeys ==
    ASSUME NEW es, Tree(es), NEW p \in Nodes, NEW ns \in Seq(Nodes)
    PROVE  /\ GatherBase(es, p) \in Int
           /\ \A i \in 1 .. Len(ns) : GatherBase(es, p) + i * Unit \in Int
           /\ \A i \in 1 .. Len(ns), e \in es : e.parent = p => e.key < GatherBase(es, p) + i * Unit
           /\ \A i, j \in 1 .. Len(ns) :
                 i < j => GatherBase(es, p) + i * Unit < GatherBase(es, p) + j * Unit
  <1> DEFINE E == {e \in es : e.parent = p}
             base == GatherBase(es, p)
  <1>1. E \in SUBSET Edges /\ IsFiniteSet(E)
    BY FS_Subset DEF Tree
  <1>2. KeyLast(E) \in Int /\ \A j \in KeysOf(E) : j < KeyLast(E)
    BY <1>1, KeyLastFits
  <1>3. Unit \in Nat /\ Unit > 0 /\ base = KeyLast(E) - Unit
    BY KeyAssumption DEF GatherBase
  <1>4. \A e \in es : e.parent = p => e.key \in Int /\ e.key < KeyLast(E)
    BY <1>1, <1>2 DEF KeysOf, Edges
  <1>. HIDE DEF base, E
  <1>5. ASSUME NEW i \in 1 .. Len(ns)
        PROVE  i * Unit \in Int /\ i * Unit >= Unit /\ base + i * Unit \in Int
               /\ base + i * Unit >= KeyLast(E)
    <2>1. i \in Nat /\ i >= 1
      OBVIOUS
    <2>2. Unit * i \in Int /\ (0 < i => Unit * 0 + Unit <= Unit * i)
      BY <1>3, <2>1, Times
    <2>3. Unit * i = i * Unit /\ Unit * 0 = 0
      BY <1>3, <2>1
    <2>4. i * Unit \in Int /\ i * Unit >= Unit
      BY <2>1, <2>2, <2>3, <1>3
    <2>5. QED BY <2>4, <1>2, <1>3
  <1>6. ASSUME NEW i \in 1 .. Len(ns), NEW j \in 1 .. Len(ns), i < j
        PROVE  base + i * Unit < base + j * Unit
    <2>1. i \in Nat /\ j \in Nat
      OBVIOUS
    <2>2. Unit * i + Unit <= Unit * j
      BY <1>3, <1>6, <2>1, Times
    <2>3. Unit * i = i * Unit /\ Unit * j = j * Unit
      BY <1>3, <2>1
    <2>4. i * Unit + Unit <= j * Unit
      BY <2>2, <2>3
    <2>5. QED BY <2>4, <1>2, <1>3, <1>5
  <1>7. base \in Int
    BY <1>2, <1>3
  <1>8. ASSUME NEW i \in 1 .. Len(ns), NEW e \in es, e.parent = p PROVE e.key < base + i * Unit
    <2>1. e.key \in Int /\ e.key < KeyLast(E)
      BY <1>4, <1>8
    <2>2. base + i * Unit \in Int /\ base + i * Unit >= KeyLast(E)
      BY <1>5
    <2>3. QED BY <1>2, <2>1, <2>2
  <1>9. QED BY <1>5, <1>6, <1>7, <1>8 DEF base

LEMMA GatheredTree ==
    ASSUME NEW es, Tree(es), NEW p \in Nodes, NEW ns \in Seq(Nodes),
           \A i, j \in 1 .. Len(ns) : ns[i] = ns[j] => i = j
    PROVE  Tree({e \in es : e.child \notin Range(ns)} \cup GatheredEdges(es, p, ns))
  <1> DEFINE rest == {e \in es : e.child \notin Range(ns)}
             new == GatheredEdges(es, p, ns)
             base == GatherBase(es, p)
             edge(i) == [parent |-> p, child |-> ns[i], key |-> base + i * Unit]
  <1>0. DOMAIN ns = 1 .. Len(ns) /\ Len(ns) \in Nat /\ \A i \in 1 .. Len(ns) : ns[i] \in Nodes
    OBVIOUS
  <1>1. /\ \A i \in 1 .. Len(ns) : base + i * Unit \in Int
        /\ \A i \in 1 .. Len(ns), e \in es : e.parent = p => e.key < base + i * Unit
        /\ \A i, j \in 1 .. Len(ns) : i < j => base + i * Unit < base + j * Unit
    BY GatheredKeys
  <1>2. new = {edge(i) : i \in 1 .. Len(ns)}
    BY <1>0 DEF GatheredEdges
  <1>3. \A i \in 1 .. Len(ns) : /\ edge(i) \in Edges /\ edge(i).parent = p
                                /\ edge(i).child = ns[i] /\ edge(i).key = base + i * Unit
    BY <1>0, <1>1 DEF Edges
  <1>4. Tree(rest)
    BY SubTree
  <1>5. IsFiniteSet(new)
    <2> DEFINE f == [i \in 1 .. Len(ns) |-> edge(i)]
    <2>1. f \in Surjection(1 .. Len(ns), new)
      BY <1>2 DEF Surjection
    <2>2. IsFiniteSet(1 .. Len(ns))
      BY <1>0, FS_Interval
    <2>3. QED BY <2>1, <2>2, FS_Surjection
  <1>. HIDE DEF new, edge, base
  <1>6. new \subseteq Edges
    BY <1>2, <1>3
  <1>7. \A e \in rest, f \in new : e.parent = f.parent => e.child # f.child /\ e.key # f.key
    <2>1. SUFFICES ASSUME NEW e \in rest, NEW i \in 1 .. Len(ns), e.parent = p
                   PROVE  e.child # ns[i] /\ e.key # base + i * Unit
      BY <1>2, <1>3
    <2>2. e.child # ns[i]
      BY <1>0 DEF Range
    <2>3. e.key < base + i * Unit /\ e.key \in Int /\ base + i * Unit \in Int
      BY <1>1, <2>1 DEF Tree, Edges
    <2>4. QED BY <2>2, <2>3
  <1>8. \A e, f \in new : e.child = f.child \/ e.key = f.key => e = f
    <2>1. SUFFICES ASSUME NEW i \in 1 .. Len(ns), NEW j \in 1 .. Len(ns),
                          ns[i] = ns[j] \/ base + i * Unit = base + j * Unit
                   PROVE  i = j
      BY <1>2, <1>3
    <2>2. base + i * Unit \in Int /\ base + j * Unit \in Int
      BY <1>1
    <2>3. CASE i < j
      <3>1. base + i * Unit < base + j * Unit
        BY <1>1, <2>3
      <3>2. QED BY <2>1, <2>2, <2>3, <3>1
    <2>4. CASE j < i
      <3>1. base + j * Unit < base + i * Unit
        BY <1>1, <2>4
      <3>2. QED BY <2>1, <2>2, <2>4, <3>1
    <2>5. QED BY <1>0, <2>3, <2>4
  <1>9. IsFiniteSet(rest \cup new)
    BY <1>4, <1>5, FS_Union DEF Tree
  <1>10. rest \cup new \subseteq Edges
    BY <1>4, <1>6 DEF Tree
  <1>11. Single(rest \cup new)
    BY <1>4, <1>7, <1>8 DEF Tree, Single
  <1>12. KeysApart(rest \cup new)
    BY <1>4, <1>7, <1>8 DEF Tree, KeysApart
  <1>13. QED BY <1>9, <1>10, <1>11, <1>12 DEF Tree, new

LEMMA GatherKeeps ==
    ASSUME TreeInv, NEW c \in Callers, Gather(c)
    PROVE  TreeInv'
  <1> DEFINE ns == call[c].ns
             p == call[c].dest
             new == GatheredEdges(edges, p, ns)
             es == {e \in edges : e.child \notin Range(ns)} \cup new
  <1>1. Ready(c, "gather") /\ Commit(c, es, [Silent EXCEPT !.updated = new])
        /\ Bump(c) /\ nodes' = nodes
    BY DEF Gather, GatheredEdges
  <1>2. call[c].step = "ready" /\ call[c].op = "gather" /\ Asked(call[c])
    BY <1>1, ReadyCall
  <1>3. ns \in Seq(Nodes) /\ p \in Nodes /\ \A i, j \in 1 .. Len(ns) : ns[i] = ns[j] => i = j
    BY <1>2 DEF Asked
  <1>4. edges' = es /\ Allowed(call[c])
    BY <1>1 DEF Commit
  <1>5. /\ p \in nodes /\ \A n \in Range(ns) : p \notin Subtree(edges, n)
        /\ \A n \in Range(ns) : Parents(edges, n) # {}
    BY <1>2, <1>3, <1>4, NameAssumption DEF Allowed, NewHome, NoCycle
  <1>6. Tree(edges) /\ Loopless(edges) /\ \A e \in edges : e.parent \in nodes /\ e.child \in nodes
    BY DEF TreeInv, Graph
  <1>. HIDE DEF p, ns
  <1>7. Tree(es)
    BY <1>3, <1>6, GatheredTree
  <1>8. \A f \in new : f.parent = p /\ f.child \in Range(ns)
    BY DEF GatheredEdges, Range
  <1>9. \A f \in es : \/ f.child \in Range(ns) /\ f.parent = p
                      \/ f.child \in Children(edges) /\ f.parent \in Parents(edges, f.child)
    <2>. HIDE DEF new
    <2>1. QED BY <1>8 DEF Children, Parents
  <1>10. \A n \in Range(ns) : n \in nodes
    BY <1>5, <1>6 DEF Parents
  <1>. HIDE DEF es, new
  <1>11. Loopless(es)
    <2> DEFINE M == Range(ns)
    <2>1. /\ \A n \in M : p \notin Subtree(edges, n)
          /\ \A f \in es : \/ f.child \in M /\ f.parent = p
                           \/ f.child \in Children(edges) /\ f.parent \in Parents(edges, f.child)
      BY <1>5, <1>9
    <2>. HIDE DEF M
    <2>2. QED BY <1>3, <1>6, <2>1, Grafted
  <1>12. \A f \in es : f.parent \in nodes /\ f.child \in nodes
    BY <1>5, <1>6, <1>9, <1>10 DEF Children, Parents
  <1>13. /\ version' \in [Nodes -> Nat] /\ \A n \in Nodes : version[n] <= version'[n]
         /\ \A n \in Nodes : version[n] = 0 => version'[n] = 0
         /\ \A n \in DOMAIN call[c].saw : call[c].saw[n] < version'[n]
    BY <1>1, <1>4, BumpKeeps
  <1>14. Graph'
    <2>1. Tree(edges)' /\ Loopless(edges)'
      BY <1>4, <1>7, <1>11 DEF Tree, Single, KeysApart, Loopless, Parents
    <2>2. nodes \subseteq Nodes /\ version \in [Nodes -> Nat] /\ \A m \in nodes : version[m] > 0
      BY DEF TreeInv, Graph
    <2>3. \A m \in nodes : version'[m] > 0
      BY <1>13, <2>2
    <2>4. QED BY <1>1, <1>4, <1>12, <1>13, <2>1, <2>2, <2>3 DEF Graph
  <1>15. QED BY <1>1, <1>2, <1>13, <1>14, CommitKeeps

LEMMA AttachKeeps ==
    ASSUME TreeInv, NEW c \in Callers, Attach(c)
    PROVE  TreeInv'
  <1> DEFINE n == Node(c)
             p == call[c].dest
             E == {e \in edges : e.parent = p}
             new == [parent |-> p, child |-> n, key |-> KeyLast(E)]
             es == IF p \in Parents(edges, n) THEN edges ELSE edges \cup {new}
  <1>1. Ready(c, "attach") /\ Commit(c, es, [Silent EXCEPT !.created = {new}])
        /\ nodes' = nodes /\ version' = version
    BY DEF Attach
  <1>2. /\ call[c].step = "ready" /\ call[c].op = "attach" /\ Asked(call[c])
        /\ Range(call[c].ns) = {n}
    BY <1>1, ReadyCall
  <1>3. edges' = es /\ Allowed(call[c])
    BY <1>1 DEF Commit
  <1>4. n \in nodes /\ p \in nodes \cup {Top} /\ p \notin Subtree(edges, n)
    BY <1>2, <1>3 DEF Allowed, NewHome, NoCycle, Node
  <1>5. p \in Nodes /\ DOMAIN call[c].saw = {}
    BY <1>2 DEF Asked
  <1>6. Tree(edges) /\ Loopless(edges) /\ \A e \in edges : e.parent \in nodes /\ e.child \in nodes
    BY DEF TreeInv, Graph
  <1>7. p \in nodes /\ n \in Nodes
    BY <1>4, <1>5, NameAssumption DEF TreeInv, Graph
  <1>8. E \in SUBSET Edges /\ IsFiniteSet(E)
    BY <1>6, FS_Subset DEF Tree
  <1>9. KeyLast(E) \in Int /\ \A j \in KeysOf(E) : j < KeyLast(E)
    BY <1>8, KeyLastFits
  <1>10. new \in Edges /\ new.parent = p /\ new.child = n /\ new.key = KeyLast(E)
    BY <1>5, <1>7, <1>9 DEF Edges
  <1>11. \A e \in edges : e.parent = p => e.key \in Int /\ e.key < KeyLast(E)
    BY <1>8, <1>9 DEF KeysOf, Edges
  <1>. HIDE DEF n, p, E, new
  <1>12. Tree(es) /\ Loopless(es) /\ \A e \in es : e.parent \in nodes /\ e.child \in nodes
    <2>1. CASE p \in Parents(edges, n)
      BY <1>6, <2>1
    <2>2. CASE p \notin Parents(edges, n)
      <3>1. es = edges \cup {new}
        BY <2>2
      <3>. HIDE DEF es
      <3>2. \A e \in edges : e.parent = new.parent => e.child # new.child /\ e.key # new.key
        BY <1>9, <1>10, <1>11, <2>2 DEF Parents
      <3>3. Tree(es)
        BY <1>6, <1>10, <3>1, <3>2, OneMoreEdge
      <3>4. Loopless(es)
        <4> DEFINE M == {n}
        <4>1. /\ \A m \in M : p \notin Subtree(edges, m)
              /\ \A f \in es : \/ f.child \in M /\ f.parent = p
                               \/ f.child \in Children(edges) /\ f.parent \in Parents(edges, f.child)
          BY <1>4, <1>10, <3>1 DEF Children, Parents
        <4>. HIDE DEF M
        <4>2. QED BY <1>5, <1>6, <4>1, Grafted
      <3>5. QED BY <1>4, <1>6, <1>7, <1>10, <3>1, <3>3, <3>4
    <2>3. QED BY <2>1, <2>2
  <1>. HIDE DEF es
  <1>13. Graph'
    <2>1. Tree(edges)' /\ Loopless(edges)'
      BY <1>3, <1>12 DEF Tree, Single, KeysApart, Loopless, Parents
    <2>2. QED BY <1>1, <1>3, <1>12, <2>1 DEF TreeInv, Graph
  <1>14. \A m \in Nodes : version[m] <= version[m]
    BY DEF TreeInv, Graph
  <1>15. QED BY <1>1, <1>2, <1>5, <1>13, <1>14, CommitKeeps

(* Edges and nodes go, and what is left is sound. *)
LEMMA LessKeeps ==
    ASSUME TreeInv, NEW c \in Callers, call[c].step = "ready", NEW es \in SUBSET edges, NEW note,
           Commit(c, es, note), nodes' \subseteq nodes, version' = version,
           \A e \in es : e.parent \in nodes' /\ e.child \in nodes',
           DOMAIN call[c].saw \cap nodes' = {}
    PROVE  TreeInv'
  <1>1. edges' = es
    BY DEF Commit
  <1>2. /\ Tree(edges) /\ Loopless(edges) /\ nodes \subseteq Nodes /\ version \in [Nodes -> Nat]
        /\ \A m \in nodes : version[m] > 0
    BY DEF TreeInv, Graph
  <1>3. Tree(es)
    BY <1>2, SubTree
  <1>4. \A f \in es : f.child \in Children(edges) /\ f.parent \in Parents(edges, f.child)
    BY DEF Children, Parents
  <1>5. Loopless(es)
    BY <1>2, <1>4, SubLoopless
  <1>6. Graph'
    <2>1. Tree(edges)' /\ Loopless(edges)'
      BY <1>1, <1>3, <1>5 DEF Tree, Single, KeysApart, Loopless, Parents
    <2>2. QED BY <1>1, <1>2, <2>1 DEF Graph
  <1>7. \A m \in Nodes : version[m] <= version[m]
    BY <1>2
  <1>8. QED BY <1>6, <1>7, CommitKeeps

LEMMA DetachKeeps ==
    ASSUME TreeInv, NEW c \in Callers, Detach(c)
    PROVE  TreeInv'
  <1> DEFINE n == Node(c)
             p == call[c].dest
             es == {e \in edges : e.child # n \/ e.parent # p}
  <1>1. Ready(c, "detach") /\ Commit(c, es, [Silent EXCEPT !.deleted = call[c].seen \X {n}])
        /\ nodes' = nodes /\ version' = version
    BY DEF Detach
  <1>2. call[c].step = "ready" /\ call[c].op = "detach" /\ Asked(call[c])
    BY <1>1, ReadyCall
  <1>3. DOMAIN call[c].saw = {}
    BY <1>2 DEF Asked
  <1>4. es \in SUBSET edges /\ \A e \in es : e.parent \in nodes' /\ e.child \in nodes'
    BY <1>1 DEF TreeInv, Graph
  <1>. HIDE DEF es
  <1>5. QED BY <1>1, <1>2, <1>3, <1>4, LessKeeps

LEMMA DeleteTreeKeeps ==
    ASSUME TreeInv, NEW c \in Callers, DeleteTree(c)
    PROVE  TreeInv'
  <1> DEFINE S == call[c].seen
             es == {e \in edges : e.parent \notin S /\ e.child \notin S}
  <1>1. Ready(c, "tree") /\ SeenStill(call[c]) /\ Commit(c, es, Silent)
        /\ nodes' = nodes \ S /\ version' = version
    BY DEF DeleteTree, Delete
  <1>2. call[c].step = "ready" /\ call[c].op = "tree" /\ Asked(call[c])
    BY <1>1, ReadyCall
  <1>3. DOMAIN call[c].saw = {call[c].ns[1]} /\ call[c].ns[1] \in S
    BY <1>1, <1>2 DEF Asked, SeenStill, Subtree
  <1>4. es \in SUBSET edges /\ \A e \in es : e.parent \in nodes' /\ e.child \in nodes'
    BY <1>1 DEF TreeInv, Graph
  <1>5. DOMAIN call[c].saw \cap nodes' = {} /\ nodes' \subseteq nodes
    BY <1>1, <1>3
  <1>. HIDE DEF es
  <1>6. QED BY <1>1, <1>2, <1>4, <1>5, LessKeeps

LEMMA DeleteLeafKeeps ==
    ASSUME TreeInv, NEW c \in Callers, DeleteLeaf(c)
    PROVE  TreeInv'
  <1> DEFINE S == {Node(c)}
             es == {e \in edges : e.parent \notin S /\ e.child \notin S}
  <1>1. Ready(c, "leaf") /\ Commit(c, es, Silent) /\ nodes' = nodes \ S /\ version' = version
    BY DEF DeleteLeaf, Delete
  <1>2. call[c].step = "ready" /\ call[c].op = "leaf" /\ Asked(call[c])
    BY <1>1, ReadyCall
  <1>3. DOMAIN call[c].saw = S
    BY <1>2 DEF Asked, Node
  <1>4. es \in SUBSET edges /\ \A e \in es : e.parent \in nodes' /\ e.child \in nodes'
    BY <1>1 DEF TreeInv, Graph
  <1>5. DOMAIN call[c].saw \cap nodes' = {} /\ nodes' \subseteq nodes
    BY <1>1, <1>3
  <1>. HIDE DEF es
  <1>6. QED BY <1>1, <1>2, <1>4, <1>5, LessKeeps

-----------------------------------------------------------------------------
(* Steps that write nothing *)

(* The call of one caller changes, without entering or leaving the queue. *)
LEMMA CallKeeps ==
    ASSUME TreeInv, NEW c \in Callers, NEW r, call' = [call EXCEPT ![c] = r],
           UNCHANGED <<nodes, version, edges, pending, issued>>,
           call[c].step # "done", r.step # "done", CallOK(r), Sawn(r), r.op # "create"
    PROVE  TreeInv'
  <1>1. DOMAIN call = Callers
    BY DEF TreeInv, Calls
  <1>2. call'[c] = r /\ \A d \in Callers \ {c} : call'[d] = call[d]
    BY <1>1
  <1>3. Calls'
    <2>1. \A d \in Callers : CallOK(call'[d]) /\ Sawn(call[d])'
      <3>1. CallOK(call'[c]) /\ Sawn(call[c])'
        BY <1>2 DEF Sawn
      <3>2. ASSUME NEW d \in Callers \ {c} PROVE CallOK(call'[d]) /\ Sawn(call[d])'
        BY <1>2 DEF TreeInv, Calls, Sawn
      <3>3. QED BY <3>1, <3>2
    <2>2. Fresh'
      BY <1>2 DEF TreeInv, Calls, Fresh
    <2>3. DOMAIN call' = Callers
      BY <1>1
    <2>4. QED BY <2>1, <2>2, <2>3 DEF Calls, CallOK, Asked
  <1>4. Queue'
    BY <1>2 DEF TreeInv, Queue
  <1>5. Graph'
    BY DEF TreeInv, Graph
  <1>6. QED BY <1>3, <1>4, <1>5 DEF TreeInv

LEMMA IdleIsOK == CallOK(Idle) /\ Sawn(Idle) /\ Idle.step = "idle" /\ Idle.op = "idle"
  BY BoundAssumption DEF CallOK, Sawn, Idle

LEMMA UnwrittenKeeps ==
    ASSUME TreeInv, NEW c \in Callers, Unwritten(c)
    PROVE  TreeInv'
  <1>1. CallOK(call[c]) /\ Sawn(call[c])
    BY DEF TreeInv, Calls
  <1>2. CASE Refused(c)
    BY <1>2, IdleIsOK, CallKeeps DEF Refused
  <1>3. CASE SubtreeChanged(c)
    <2>1. /\ call[c].step = "ready" /\ call[c].op = "tree"
          /\ UNCHANGED <<nodes, version, edges, pending, issued>>
      BY <1>3 DEF SubtreeChanged, Ready
    <2>2. CASE call[c].tries + 1 < Attempts
      <3> DEFINE r == [call[c] EXCEPT !.step = "again", !.tries = call[c].tries + 1]
      <3>1. call' = [call EXCEPT ![c] = r]
        BY <1>3, <2>2 DEF SubtreeChanged
      <3>2. /\ DOMAIN r = DOMAIN Idle /\ r.step = "again" /\ r.tries = call[c].tries + 1
            /\ r.op = call[c].op /\ r.ns = call[c].ns /\ r.dest = call[c].dest
            /\ r.saw = call[c].saw
        BY <1>1 DEF CallOK, Idle
      <3>. HIDE DEF r
      <3>3. Asked(r)
        BY <1>1, <2>1, <3>2 DEF CallOK, Asked
      <3>4. r.tries \in 0 .. Attempts - 1
        BY <1>1, <2>2, <3>2, BoundAssumption DEF CallOK
      <3>5. CallOK(r) /\ Sawn(r)
        BY <1>1, <2>1, <3>2, <3>3, <3>4 DEF CallOK, Sawn
      <3>6. QED BY <2>1, <3>1, <3>2, <3>5, CallKeeps
    <2>3. CASE ~(call[c].tries + 1 < Attempts)
      <3>1. call' = [call EXCEPT ![c] = Idle]
        BY <1>3, <2>3 DEF SubtreeChanged
      <3>2. QED BY <2>1, <3>1, IdleIsOK, CallKeeps
    <2>4. QED BY <2>2, <2>3
  <1>4. CASE Recollect(c)
    <2> DEFINE r == [call[c] EXCEPT !.step = "ready", !.seen = Subtree(edges, Node(c))]
    <2>1. /\ call[c].step = "again" /\ call' = [call EXCEPT ![c] = r]
          /\ UNCHANGED <<nodes, version, edges, pending, issued>>
      BY <1>4 DEF Recollect
    <2>2. /\ DOMAIN r = DOMAIN Idle /\ r.step = "ready" /\ r.tries = call[c].tries
          /\ r.op = call[c].op /\ r.ns = call[c].ns /\ r.dest = call[c].dest
          /\ r.saw = call[c].saw
      BY <1>1 DEF CallOK, Idle
    <2>. HIDE DEF r
    <2>3. Asked(r) /\ r.op = "tree"
      BY <1>1, <2>1, <2>2 DEF CallOK, Asked
    <2>4. CallOK(r) /\ Sawn(r)
      BY <1>1, <2>1, <2>2, <2>3 DEF CallOK, Sawn
    <2>5. QED BY <2>1, <2>2, <2>3, <2>4, CallKeeps
  <1>5. QED BY <1>2, <1>3, <1>4 DEF Unwritten

LEMMA PublishKeeps ==
    ASSUME TreeInv, NEW c \in Callers, Publish(c)
    PROVE  TreeInv'
  <1>1. /\ call[c].step = "done" /\ call' = [call EXCEPT ![c] = Idle]
        /\ UNCHANGED <<nodes, version, edges, issued>>
    BY DEF Publish
  <1>2. /\ pending \in Seq(Callers)
        /\ \A i, j \in 1 .. Len(pending) : pending[i] = pending[j] => i = j
        /\ \A d \in Callers : call[d].step = "done" <=> \E i \in 1 .. Len(pending) : pending[i] = d
    BY DEF TreeInv, Queue
  <1>3. PICK i \in 1 .. Len(pending) :
            /\ pending[i] = c
            /\ pending' = [j \in 1 .. Len(pending) - 1 |-> IF j < i THEN pending[j] ELSE pending[j + 1]]
    <2>1. DOMAIN pending = 1 .. Len(pending)
      BY <1>2
    <2>2. QED BY <2>1 DEF Publish
  <1>4. /\ pending' \in Seq(Callers) /\ Len(pending') = Len(pending) - 1
        /\ \A j \in 1 .. Len(pending') :
              pending'[j] = IF j < i THEN pending[j] ELSE pending[j + 1]
    <2>1. /\ Len(pending) \in Nat /\ i \in Nat /\ i >= 1 /\ i <= Len(pending)
          /\ \A j \in 1 .. Len(pending) : pending[j] \in Callers
      BY <1>2
    <2>2. \A j \in 1 .. Len(pending) - 1 :
             (IF j < i THEN pending[j] ELSE pending[j + 1]) \in Callers
      BY <2>1
    <2>3. QED BY <1>3, <2>1, <2>2
  <1>5. DOMAIN call = Callers
    BY DEF TreeInv, Calls
  <1>6. call'[c] = Idle /\ \A d \in Callers \ {c} : call'[d] = call[d]
    BY <1>1, <1>5
  <1>7. Calls'
    <2>1. \A d \in Callers : CallOK(call'[d]) /\ Sawn(call[d])'
      <3>1. CallOK(call'[c]) /\ Sawn(call[c])'
        BY <1>1, <1>6, IdleIsOK DEF Sawn
      <3>2. ASSUME NEW d \in Callers \ {c} PROVE CallOK(call'[d]) /\ Sawn(call[d])'
        BY <1>1, <1>6 DEF TreeInv, Calls, Sawn
      <3>3. QED BY <3>1, <3>2
    <2>2. Fresh'
      BY <1>1, <1>6, IdleIsOK DEF TreeInv, Calls, Fresh
    <2>3. DOMAIN call' = Callers
      BY <1>1, <1>5
    <2>4. QED BY <2>1, <2>2, <2>3 DEF Calls, CallOK, Asked
  <1>8. Queue'
    <2> DEFINE L == Len(pending)
    <2>1. L \in Nat /\ i \in Nat /\ i <= L /\ Len(pending') = L - 1
      BY <1>2, <1>4
    <2>2. \A j \in 1 .. L - 1 : pending'[j] # c
      <3>1. SUFFICES ASSUME NEW j \in 1 .. L - 1 PROVE pending'[j] # c
        OBVIOUS
      <3>2. PICK x \in 1 .. L : pending'[j] = pending[x] /\ x = IF j < i THEN j ELSE j + 1
        BY <1>4, <2>1
      <3>3. x # i
        BY <2>1, <3>2
      <3>4. QED BY <1>2, <1>3, <3>2, <3>3
    <2>3. \A j, k \in 1 .. L - 1 : pending'[j] = pending'[k] => j = k
      <3>1. SUFFICES ASSUME NEW j \in 1 .. L - 1, NEW k \in 1 .. L - 1, pending'[j] = pending'[k]
                     PROVE  j = k
        OBVIOUS
      <3>2. PICK x \in 1 .. L : pending'[j] = pending[x] /\ x = IF j < i THEN j ELSE j + 1
        BY <1>4, <2>1
      <3>3. PICK y \in 1 .. L : pending'[k] = pending[y] /\ y = IF k < i THEN k ELSE k + 1
        BY <1>4, <2>1
      <3>4. x = y
        BY <1>2, <3>1, <3>2, <3>3
      <3>5. QED BY <2>1, <3>2, <3>3, <3>4
    <2>4. ASSUME NEW d \in Callers \ {c}, NEW k \in 1 .. L, pending[k] = d
          PROVE  \E j \in 1 .. L - 1 : pending'[j] = d
      <3>1. k # i
        BY <1>3, <2>4
      <3>2. CASE k < i
        BY <1>4, <2>1, <2>4, <3>2
      <3>3. CASE k > i
        <4>1. k - 1 \in 1 .. L - 1 /\ ~(k - 1 < i) /\ (k - 1) + 1 = k
          BY <2>1, <3>3
        <4>2. pending'[k - 1] = pending[k]
          BY <1>4, <2>1, <4>1
        <4>3. QED BY <2>4, <4>1, <4>2
      <3>4. QED BY <2>1, <3>1, <3>2, <3>3
    <2>5. ASSUME NEW d \in Callers \ {c}, NEW j \in 1 .. L - 1, pending'[j] = d
          PROVE  \E k \in 1 .. L : pending[k] = d
      BY <1>4, <2>1, <2>5
    <2>6. ASSUME NEW d \in Callers
          PROVE  call'[d].step = "done" <=> \E j \in 1 .. L - 1 : pending'[j] = d
      <3>1. CASE d = c
        BY <1>6, <2>2, <3>1, IdleIsOK
      <3>2. CASE d # c
        <4>1. call'[d] = call[d]
          BY <1>6, <3>2
        <4>2. QED BY <1>2, <2>4, <2>5, <3>2, <4>1
      <3>3. QED BY <3>1, <3>2
    <2>7. QED BY <1>4, <2>1, <2>3, <2>6 DEF Queue
  <1>9. Graph'
    BY <1>1 DEF TreeInv, Graph
  <1>10. QED BY <1>1, <1>7, <1>8, <1>9 DEF TreeInv

LEMMA WritesKeep ==
    ASSUME TreeInv, NEW c \in Callers, Writes(c)
    PROVE  TreeInv'
  BY EditKeeps, MoveKeeps, ReorderKeeps, GatherKeeps, CreateKeeps, RelinkKeeps, AttachKeeps,
     DetachKeeps, DeleteTreeKeeps, DeleteLeafKeeps DEF Writes

LEMMA InvStep == TreeInv /\ [Next]_vars => TreeInv'
  <1>. SUFFICES ASSUME TreeInv, [Next]_vars PROVE TreeInv'
    OBVIOUS
  <1>1. CASE Next
    BY <1>1, AsksKeep, WritesKeep, UnwrittenKeeps, PublishKeeps DEF Next
  <1>2. CASE UNCHANGED vars
    <2>1. Graph'
      BY <1>2 DEF vars, TreeInv, Graph
    <2>2. Calls'
      BY <1>2 DEF vars, TreeInv, Calls, CallOK, Asked, Sawn, Fresh
    <2>3. QED BY <1>2, <2>1, <2>2 DEF vars, TreeInv, Queue
  <1>3. QED BY <1>1, <1>2

LEMMA InvAlways == Spec => []TreeInv
  BY InvInit, InvStep, PTL DEF Spec

(* Every variable keeps its type, edges join nodes that exist and are one for each pair,
   and the calls in the queue are those that have committed. *)
THEOREM TypeCorrect == Spec => []TypeOK
  BY InvAlways, InvImplies, PTL

(* However moves, attachments and gatherings cross, no group of nodes is closed under
   parents: the cycle check in the transaction sees the tree it writes. *)
THEOREM TreeHasNoLoops == Spec => []NoLoops
  BY InvAlways, InvImplies, PTL

(* No two children of a parent ever have the same key: a key is the middle of a gap that
   is wide enough, or beyond the last or first key there is. *)
THEOREM KeysStayDistinct == Spec => []KeysDistinct
  BY InvAlways, InvImplies, PTL

-----------------------------------------------------------------------------
(* Writes that went through *)

LEMMA CommitIs ==
    ASSUME TreeInv, NEW c \in Callers, NEW es, NEW note, Commit(c, es, note)
    PROVE  /\ Allowed(call[c]) /\ edges' = es
           /\ call'[c].step = "done" /\ call'[c].saw = call[c].saw /\ call'[c].op = "idle"
           /\ \A d \in Callers \ {c} : call'[d] = call[d]
  <1>1. DOMAIN call = Callers
    BY DEF TreeInv, Calls
  <1>2. /\ call' = [call EXCEPT ![c] = [Idle EXCEPT !.step = "done", !.saw = call[c].saw,
                                                    !.note = note]]
        /\ Allowed(call[c]) /\ edges' = es
    BY DEF Commit
  <1>3. call'[c] = [Idle EXCEPT !.step = "done", !.saw = call[c].saw, !.note = note]
    BY <1>1, <1>2
  <1>4. QED BY <1>1, <1>2, <1>3 DEF Idle

(* What all writes have in common *)
LEMMA WriteCommits ==
    ASSUME TreeInv, NEW c \in Callers, Writes(c)
    PROVE  /\ call[c].step = "ready" /\ Allowed(call[c])
           /\ call'[c].step = "done" /\ call'[c].saw = call[c].saw
           /\ \A d \in Callers \ {c} : call'[d] = call[d]
  <1>1. PICK es, note : Commit(c, es, note) /\ call[c].step = "ready"
    <2>1. CASE Edit(c)
      BY <2>1 DEF Edit, Ready
    <2>2. CASE Move(c)
      BY <2>2 DEF Move, Ready
    <2>3. CASE Reorder(c)
      BY <2>3 DEF Reorder, Ready
    <2>4. CASE Gather(c)
      BY <2>4 DEF Gather, Ready
    <2>5. CASE Create(c)
      BY <2>5 DEF Create, Ready
    <2>6. CASE Relink(c)
      <3>1. \E old \in OneParent(edges, Node(c)) : \E es, note : Commit(c, es, note)
        BY <2>6 DEF Relink
      <3>2. QED BY <2>6, <3>1 DEF Relink, Ready
    <2>7. CASE Attach(c)
      BY <2>7 DEF Attach, Ready
    <2>8. CASE Detach(c)
      BY <2>8 DEF Detach, Ready
    <2>9. CASE DeleteTree(c)
      BY <2>9 DEF DeleteTree, Delete, Ready
    <2>10. CASE DeleteLeaf(c)
      BY <2>10 DEF DeleteLeaf, Delete, Ready
    <2>11. QED BY <2>1, <2>2, <2>3, <2>4, <2>5, <2>6, <2>7, <2>8, <2>9, <2>10 DEF Writes
  <1>2. QED BY <1>1, CommitIs

(* A step that is no write makes no call done. *)
LEMMA OthersCommitNothing ==
    ASSUME TreeInv, NEW c \in Callers, Asks(c) \/ Unwritten(c) \/ Publish(c)
    PROVE  /\ call'[c].step # "done" /\ \A d \in Callers \ {c} : call'[d] = call[d]
           /\ UNCHANGED <<nodes, version, edges>>
  <1>1. DOMAIN call = Callers /\ CallOK(call[c])
    BY DEF TreeInv, Calls
  <1>2. CASE Asks(c)
    <2>1. PICK k : Ask(c, k)
      BY <1>2 DEF Asks, AskEdit, AskMove, AskReorder, AskGather, AskCreate, AskRelink, AskAttach,
                  AskDetach, AskDeleteTree, AskDeleteLeaf
    <2>2. call' = [call EXCEPT ![c] = [k EXCEPT !.step = "ready"]] /\ UNCHANGED <<nodes, version, edges>>
      BY <2>1 DEF Ask
    <2>3. call'[c] = [k EXCEPT !.step = "ready"]
      BY <1>1, <2>2
    <2>4. QED BY <1>1, <2>2, <2>3
  <1>3. CASE Unwritten(c)
    <2>1. CASE Refused(c)
      BY <1>1, <2>1, IdleIsOK DEF Refused
    <2>2. CASE SubtreeChanged(c)
      BY <1>1, <2>2, IdleIsOK DEF SubtreeChanged, CallOK, Idle
    <2>3. CASE Recollect(c)
      BY <1>1, <2>3 DEF Recollect, CallOK, Idle
    <2>4. QED BY <1>3, <2>1, <2>2, <2>3 DEF Unwritten
  <1>4. CASE Publish(c)
    BY <1>1, <1>4, IdleIsOK DEF Publish
  <1>5. QED BY <1>2, <1>3, <1>4

LEMMA NoLostStep == TreeInv /\ NoLostWrite /\ [Next]_vars => NoLostWrite'
  <1>. SUFFICES ASSUME TreeInv, NoLostWrite, [Next]_vars PROVE NoLostWrite'
    OBVIOUS
  <1>1. CASE UNCHANGED vars
    BY <1>1 DEF vars, NoLostWrite
  <1>2. ASSUME NEW c \in Callers, Asks(c) \/ Unwritten(c) \/ Publish(c) PROVE NoLostWrite'
    BY <1>2, OthersCommitNothing DEF NoLostWrite
  <1>3. ASSUME NEW c \in Callers, Writes(c) PROVE NoLostWrite'
    <2>1. /\ Allowed(call[c]) /\ call'[c].step = "done" /\ call'[c].saw = call[c].saw
          /\ \A d \in Callers \ {c} : call'[d] = call[d]
      BY <1>3, WriteCommits
    <2>2. ASSUME NEW d \in Callers \ {c}, call[d].step = "done",
                 NEW n \in DOMAIN call[c].saw \cap DOMAIN call[d].saw
          PROVE  call[c].saw[n] # call[d].saw[n]
      <3>1. n \in nodes /\ version[n] = call[c].saw[n]
        BY <2>1 DEF Allowed, Current
      <3>2. call[d].saw[n] < version[n] /\ call[d].saw[n] \in Nat /\ version[n] \in Nat
        BY <2>2, <3>1 DEF TreeInv, Calls, Sawn, Graph
      <3>3. QED BY <3>1, <3>2
    <2>3. QED BY <2>1, <2>2 DEF NoLostWrite
  <1>4. QED BY <1>1, <1>2, <1>3 DEF Next

(* Two writes that both went through never worked from one version of a node. *)
THEOREM NoWriteIsLost == Spec => []NoLostWrite
  <1>1. Init => NoLostWrite
    BY DEF Init, NoLostWrite, Idle
  <1>2. QED BY <1>1, InvAlways, NoLostStep, PTL DEF Spec

(* The subtree of a node that exists is of nodes that do. *)
LEMMA SubtreeExists ==
    ASSUME Graph, NEW n \in nodes
    PROVE  Subtree(edges, n) \subseteq nodes
  BY DEF Graph, Subtree, Below, Children

(* A deletion takes the node and all that is below it when it goes, and that is what it
   was shown. *)
THEOREM DeletionsTakeWhatWasShown == Spec => DeletesWhatWasShown
  <1>1. TreeInv /\ [Next]_vars =>
            [\A c \in Callers : Committing(c) /\ nodes' # nodes /\ call[c].op \in {"tree", "leaf"} =>
                /\ nodes \ nodes' = Subtree(edges, Node(c))
                /\ call[c].op = "tree" => nodes \ nodes' = call[c].seen]_vars
    <2>1. SUFFICES ASSUME TreeInv, Next, NEW c \in Callers, Committing(c), nodes' # nodes,
                          call[c].op \in {"tree", "leaf"}
                   PROVE  /\ nodes \ nodes' = Subtree(edges, Node(c))
                          /\ call[c].op = "tree" => nodes \ nodes' = call[c].seen
      OBVIOUS
    <2>2. call[c].step = "ready" /\ call'[c].step = "done"
      BY <2>1 DEF Committing
    <2>3. PICK b \in Callers : Asks(b) \/ Unwritten(b) \/ Publish(b) \/ Writes(b)
      BY <2>1 DEF Next
    <2>4. Writes(b) /\ b = c
      BY <2>1, <2>2, <2>3, OthersCommitNothing, WriteCommits
    <2>5. CallOK(call[c]) /\ Asked(call[c]) /\ Allowed(call[c])
      BY <2>1, <2>4, WriteCommits DEF TreeInv, Calls, CallOK
    <2>6. Node(c) \in nodes
      BY <2>1, <2>5 DEF Asked, Allowed, Current, Node
    <2>7. Subtree(edges, Node(c)) \subseteq nodes
      BY <2>1, <2>6, SubtreeExists DEF TreeInv
    <2>8. DeleteTree(c) \/ DeleteLeaf(c)
      BY <2>1, <2>4 DEF Writes, Ready, Edit, Move, Reorder, Gather, Create, Relink, Attach, Detach
    <2>9. CASE DeleteTree(c)
      <3>1. call[c].seen = Subtree(edges, Node(c)) /\ nodes' = nodes \ call[c].seen
        BY <2>9 DEF DeleteTree, Delete, SeenStill, Node
      <3>2. QED BY <2>7, <3>1
    <2>10. CASE DeleteLeaf(c)
      <3>1. nodes' = nodes \ {Node(c)} /\ call[c].op = "leaf"
        BY <2>10 DEF DeleteLeaf, Delete, Ready
      <3>2. Kids(edges, Node(c)) = {}
        BY <2>5, <3>1 DEF Allowed, LeafStill, Node
      <3>3. Subtree(edges, Node(c)) = {Node(c)}
        BY <3>2, LeafSubtree
      <3>4. QED BY <2>7, <3>1, <3>3
    <2>11. QED BY <2>8, <2>9, <2>10
  <1>2. QED BY <1>1, InvAlways, PTL DEF Spec, DeletesWhatWasShown

(* A placement under p leaves no other node without a parent, and neither the node
   itself unless it becomes a root. *)
LEMMA PlaceLeavesParents ==
    ASSUME NEW es, Tree(es), NEW m \in Nodes, NEW p \in Nodes \cup {Top}, NEW pos, NEW old,
           NEW n, Parents(es, n) # {}, n # m \/ p # Top
    PROVE  Parents(Place(es, m, p, pos, old), n) # {}
  <1> DEFINE fs == Place(es, m, p, pos, old)
  <1>1. /\ p # Top => p \in Parents(fs, m)
        /\ \A e \in es : e.child # m \/ (old = p /\ p # Top) => e.parent \in Parents(fs, e.child)
    BY PlacedEdges
  <1> HIDE DEF fs
  <1>2. PICK e \in es : e.child = n
    BY DEF Parents
  <1>3. Parents(fs, n) # {}
    BY <1>1, <1>2
  <1>4. QED BY <1>3 DEF fs

(* The write by which a node may lose its last parent *)
Unrooting(c, n) ==
    /\ Node(c) = n
    /\ \/ call[c].op = "move" /\ call[c].dest = Top
       \/ call[c].op = "detach" /\ Parents(edges, n) = {call[c].dest}

LEMMA WritesLeaveParents ==
    ASSUME TreeInv, NEW c \in Callers, Writes(c), NEW n \in nodes \cap nodes',
           Parents(edges, n) # {}, Parents(edges', n) = {}
    PROVE  Unrooting(c, n)
  <1>1. Tree(edges) /\ Graph
    BY DEF TreeInv, Graph
  <1>2. PICK e \in edges : e.child = n
    BY DEF Parents
  <1>3. e \notin edges'
    BY <1>2 DEF Parents
  <1>4. \A f \in edges' : f.child # n
    BY DEF Parents
  <1>5. CASE Edit(c)
    BY <1>3, <1>5 DEF Edit, Commit
  <1>6. CASE Move(c)
    <2>1. Ready(c, "move")
      BY <1>6 DEF Move
    <2>2. Node(c) \in Nodes /\ call[c].dest \in Nodes \cup {Top} /\ call[c].op = "move"
      BY <2>1, ReadyCall DEF Asked
    <2>3. PICK old : edges' = Place(edges, Node(c), call[c].dest, call[c].pos, old)
      BY <1>6 DEF Move, Commit
    <2>4. n = Node(c) /\ call[c].dest = Top
      BY <1>1, <2>2, <2>3, PlaceLeavesParents
    <2>5. QED BY <2>2, <2>4 DEF Unrooting
  <1>7. CASE Reorder(c)
    <2>1. Ready(c, "reorder")
      BY <1>7 DEF Reorder
    <2>2. Node(c) \in Nodes
      BY <2>1, ReadyCall
    <2>3. PICK p \in Parents(edges, Node(c)) : edges' = Place(edges, Node(c), p, call[c].pos, p)
      BY <1>7 DEF Reorder, Commit
    <2>4. p \in Nodes /\ p # Top
      BY <1>1, <2>3, NameAssumption DEF Parents, Tree, Edges
    <2>5. QED BY <1>1, <2>2, <2>3, <2>4, PlaceLeavesParents
  <1>8. CASE Gather(c)
    <2> DEFINE new == GatheredEdges(edges, call[c].dest, call[c].ns)
    <2>1. edges' = {f \in edges : f.child \notin Range(call[c].ns)} \cup new
      BY <1>8 DEF Gather, Commit, GatheredEdges
    <2>2. n \in Range(call[c].ns)
      BY <1>2, <1>3, <2>1
    <2>3. PICK i \in DOMAIN call[c].ns : call[c].ns[i] = n
      BY <2>2 DEF Range
    <2> DEFINE f == [parent |-> call[c].dest, child |-> call[c].ns[i],
                     key |-> GatherBase(edges, call[c].dest) + i * Unit]
    <2>4. f.child = n
      BY <2>3
    <2>5. f \in new
      BY DEF GatheredEdges
    <2> HIDE DEF f, new
    <2>6. f \in edges'
      BY <2>1, <2>5
    <2>7. QED BY <1>4, <2>4, <2>6
  <1>9. CASE Create(c)
    <2>1. Ready(c, "create")
      BY <1>9 DEF Create
    <2>2. Node(c) \in Nodes /\ call[c].dest \in Nodes \cup {Top} /\ version[Node(c)] = 0
      BY <2>1, ReadyCall DEF Asked, TreeInv, Calls, Fresh, Node
    <2>3. edges' = Place(edges, Node(c), call[c].dest, call[c].pos, Top)
      BY <1>9 DEF Create, Commit
    <2>4. n # Node(c)
      BY <1>1, <2>2 DEF Graph
    <2>5. QED BY <1>1, <2>2, <2>3, <2>4, PlaceLeavesParents
  <1>10. CASE Relink(c)
    <2>1. Ready(c, "relink")
      BY <1>10 DEF Relink
    <2>2. Node(c) \in Nodes /\ call[c].dest \in Nodes /\ call[c].dest # Top
      BY <2>1, ReadyCall, NameAssumption DEF Asked
    <2>3. edges' # edges
      BY <1>2, <1>3
    <2>4. PICK old : edges' = Place(edges, Node(c), call[c].dest, call[c].pos, old)
      BY <1>10, <2>3 DEF Relink, Commit
    <2>5. QED BY <1>1, <2>2, <2>4, PlaceLeavesParents
  <1>11. CASE Attach(c)
    BY <1>2, <1>3, <1>11 DEF Attach, Commit
  <1>12. CASE Detach(c)
    <2>1. Ready(c, "detach") /\ edges' = {f \in edges : f.child # Node(c) \/ f.parent # call[c].dest}
      BY <1>12 DEF Detach, Commit
    <2>2. \A f \in edges : f.child = n => n = Node(c) /\ f.parent = call[c].dest
      BY <1>4, <2>1
    <2>3. n = Node(c) /\ Parents(edges, n) = {call[c].dest}
      BY <1>2, <2>2 DEF Parents
    <2>4. QED BY <2>1, <2>3 DEF Unrooting, Ready
  <1>13. CASE DeleteTree(c)
    <2> DEFINE S == Subtree(edges, Node(c))
    <2>1. nodes' = nodes \ S /\ edges' = {f \in edges : f.parent \notin S /\ f.child \notin S}
      BY <1>13 DEF DeleteTree, Delete, SeenStill, Node, Commit
    <2>2. e.parent \in S => e.child \in S
      BY SubtreeClosed
    <2>3. QED BY <1>2, <1>3, <2>1, <2>2
  <1>14. CASE DeleteLeaf(c)
    <2>1. /\ nodes' = nodes \ {Node(c)} /\ call[c].op = "leaf"
          /\ edges' = {f \in edges : f.parent \notin {Node(c)} /\ f.child \notin {Node(c)}}
          /\ Allowed(call[c])
      BY <1>14 DEF DeleteLeaf, Delete, Ready, Commit
    <2>2. Kids(edges, Node(c)) = {}
      BY <2>1 DEF Allowed, LeafStill, Node
    <2>3. e.parent # Node(c)
      BY <2>2 DEF Kids
    <2>4. QED BY <1>2, <1>3, <2>1, <2>3
  <1>15. QED BY <1>5, <1>6, <1>7, <1>8, <1>9, <1>10, <1>11, <1>12, <1>13, <1>14 DEF Writes

(* No node that stays loses its last parent but by a write that asks for it. *)
THEOREM NoRootsAppearSilently == Spec => NoSilentRoots
  <1>1. TreeInv /\ [Next]_vars =>
            [\A n \in nodes \cap nodes' :
                Parents(edges, n) # {} /\ Parents(edges', n) = {} =>
                    \E c \in Callers :
                        /\ Committing(c) /\ Node(c) = n
                        /\ \/ call[c].op = "move" /\ call[c].dest = Top
                           \/ call[c].op = "detach" /\ Parents(edges, n) = {call[c].dest}]_vars
    <2>1. SUFFICES ASSUME TreeInv, Next, NEW n \in nodes \cap nodes',
                          Parents(edges, n) # {}, Parents(edges', n) = {}
                   PROVE  \E c \in Callers :
                              /\ Committing(c) /\ Node(c) = n
                              /\ \/ call[c].op = "move" /\ call[c].dest = Top
                                 \/ call[c].op = "detach" /\ Parents(edges, n) = {call[c].dest}
      OBVIOUS
    <2>2. PICK c \in Callers : Asks(c) \/ Unwritten(c) \/ Publish(c) \/ Writes(c)
      BY <2>1 DEF Next
    <2>3. edges' # edges
      BY <2>1
    <2>4. Writes(c)
      BY <2>1, <2>2, <2>3, OthersCommitNothing
    <2>5. Committing(c)
      BY <2>1, <2>4, WriteCommits DEF Committing
    <2>6. Unrooting(c, n)
      BY <2>1, <2>4, WritesLeaveParents
    <2>7. QED BY <2>5, <2>6 DEF Unrooting
  <1>2. QED BY <1>1, InvAlways, PTL DEF Spec, NoSilentRoots

(* The key of the only edge from p to n *)
LEMMA KeyInPlace ==
    ASSUME NEW es, Single(es), NEW e \in es
    PROVE  (CHOOSE f \in es : f.parent = e.parent /\ f.child = e.child) = e
  <1> DEFINE P(f) == f \in es /\ f.parent = e.parent /\ f.child = e.child
             g == CHOOSE f \in es : f.parent = e.parent /\ f.child = e.child
  <1>1. g \in es /\ g.parent = e.parent /\ g.child = e.child
    OBVIOUS
  <1>2. g = e
    BY <1>1 DEF Single
  <1>3. QED BY <1>2

(* A node that is placed stands where it was asked to. *)
LEMMA PlacedStands ==
    ASSUME NEW es, Tree(es), NEW n \in Nodes, NEW p \in Nodes, NEW pos, NEW old
    PROVE  Stands(Place(es, n, p, pos, old), n, p, pos)
  <1> DEFINE R == Roomy(es, n, p, pos)
             new == EdgeFor(es, n, p, pos)
             fs == Place(es, n, p, pos, old)
             E == Siblings(R, p, n)
  <1>1. /\ Tree(fs) /\ new \in fs /\ new.parent = p /\ new.child = n
        /\ new.key = KeyFor(R, n, p, pos) /\ Siblings(fs, p, n) = E
    BY PlacedTree DEF Placed
  <1>2. Tree(R) /\ ~Crowded(E, pos)
    BY RoomyIsTree
  <1> HIDE DEF R, new, fs
  <1>3. E \in SUBSET Edges /\ IsFiniteSet(E)
    <2>1. E \subseteq R
      BY DEF Siblings
    <2>2. QED BY <1>2, <2>1, FS_Subset DEF Tree
  <1> HIDE DEF E
  <1>4. E = Siblings(R, p, n)
    BY DEF E
  <1>5. (CHOOSE f \in fs : f.parent = p /\ f.child = n) = new
    <2>1. (CHOOSE f \in fs : f.parent = new.parent /\ f.child = new.child) = new
      BY <1>1, KeyInPlace DEF Tree
    <2>2. QED BY <1>1, <2>1
  <1>6. Kids(fs, p) \ {n} = {e.child : e \in E}
    <2>1. E = {e \in fs : e.parent = p /\ e.child # n}
      BY <1>1 DEF Siblings
    <2>2. QED BY <2>1 DEF Kids
  <1> DEFINE key == KeyFor(R, n, p, pos)
  <1>7. /\ pos = First => \A j \in KeysOf(E) : key < j
        /\ pos # First /\ pos \in {e.child : e \in E} =>
              AnchorKey(E, pos) < key /\ \A j \in KeysOf(E) : j <= AnchorKey(E, pos) \/ key < j
        /\ pos # First /\ pos \notin {e.child : e \in E} => \A j \in KeysOf(E) : j < key
    BY <1>2, <1>3, <1>4, KeyFits
  <1> HIDE DEF key
  <1>8. (CHOOSE f \in fs : f.parent = p /\ f.child = n).key = key
    BY <1>1, <1>5 DEF key
  <1>9. Stands(fs, n, p, pos)
    BY <1>1, <1>6, <1>7, <1>8 DEF Stands
  <1>10. QED BY <1>9 DEF fs

Gathered(es, p, ns) == {e \in es : e.child \notin Range(ns)} \cup GatheredEdges(es, p, ns)

(* The edges without those of the children that were gathered after the i-th *)
AsOf(es, ns, i) == {e \in es : e.child \notin {ns[j] : j \in i + 1 .. Len(ns)}}

(* Gathered children stand behind the others and behind those that came before them. *)
LEMMA GatheredStand ==
    ASSUME NEW es, Tree(es), NEW p \in Nodes, NEW ns \in Seq(Nodes),
           \A i, j \in 1 .. Len(ns) : ns[i] = ns[j] => i = j, NEW i \in 1 .. Len(ns)
    PROVE  Stands(AsOf(Gathered(es, p, ns), ns, i), ns[i], p, Last)
  <1> DEFINE fs == Gathered(es, p, ns)
             gs == {e \in fs : e.child \notin {ns[j] : j \in i + 1 .. Len(ns)}}
             Key(j) == GatherBase(es, p) + j * Unit
             new == [parent |-> p, child |-> ns[i], key |-> Key(i)]
  <1>1. /\ \A j \in 1 .. Len(ns) : Key(j) \in Int
        /\ \A j \in 1 .. Len(ns), e \in es : e.parent = p => e.key < Key(j)
        /\ \A j, k \in 1 .. Len(ns) : j < k => Key(j) < Key(k)
    BY GatheredKeys
  <1>2. Tree(fs)
    BY GatheredTree DEF Gathered
  <1>3. Single(gs)
    BY <1>2 DEF Tree, Single
  <1>4. DOMAIN ns = 1 .. Len(ns)
    OBVIOUS
  <1> HIDE DEF Key
  <1>5. new \in gs
    <2>1. new \in GatheredEdges(es, p, ns)
      BY <1>4 DEF GatheredEdges, Key
    <2>2. ns[i] \notin {ns[j] : j \in i + 1 .. Len(ns)}
      OBVIOUS
    <2>3. QED BY <2>1, <2>2 DEF Gathered
  <1>6. new.parent = p /\ new.child = ns[i] /\ new.key = Key(i)
    OBVIOUS
  <1>7. \A k \in KeysOf(Siblings(gs, p, ns[i])) : k < Key(i)
    <2>1. SUFFICES ASSUME NEW e \in gs, e.parent = p, e.child # ns[i]
                   PROVE  e.key < Key(i)
      BY DEF KeysOf, Siblings
    <2>2. CASE e \in es
      BY <1>1, <2>1, <2>2
    <2>3. CASE e \in GatheredEdges(es, p, ns)
      <3>1. PICK j \in 1 .. Len(ns) : e = [parent |-> p, child |-> ns[j], key |-> Key(j)]
        BY <1>4, <2>3 DEF GatheredEdges, Key
      <3>2. e.child = ns[j] /\ e.key = Key(j)
        BY <3>1
      <3>3. j # i /\ j \notin i + 1 .. Len(ns)
        BY <2>1, <3>2
      <3>4. j < i
        BY <3>3
      <3>5. QED BY <1>1, <3>2, <3>4
    <2>4. QED BY <2>1, <2>2, <2>3 DEF Gathered
  <1> HIDE DEF new
  <1>8. (CHOOSE f \in gs : f.parent = p /\ f.child = ns[i]) = new
    <2> HIDE DEF gs
    <2>1. (CHOOSE f \in gs : f.parent = new.parent /\ f.child = new.child) = new
      BY <1>3, <1>5, KeyInPlace
    <2>2. QED BY <1>6, <2>1
  <1>9. Last # First /\ Last \notin Kids(gs, p)
    <2>1. \A e \in gs : e.child \in Nodes
      BY <1>2 DEF Tree, Edges
    <2>2. QED BY <2>1, NameAssumption DEF Kids
  <1> HIDE DEF gs
  <1>10. Stands(gs, ns[i], p, Last)
    BY <1>6, <1>7, <1>8, <1>9 DEF Stands
  <1>11. QED BY <1>10 DEF gs, AsOf

LEMMA WritesLand ==
    ASSUME TreeInv, NEW c \in Callers, Writes(c), edges' # edges,
           call[c].op = "reorder" \/ call[c].dest # Top
    PROVE  Landed(c, edges')
  <1>1. Tree(edges)
    BY DEF TreeInv, Graph
  <1>2. CASE Edit(c)
    BY <1>2 DEF Edit, Commit
  <1>3. CASE Move(c)
    <2>1. Ready(c, "move")
      BY <1>3 DEF Move
    <2>2. Node(c) \in Nodes /\ call[c].dest \in Nodes /\ call[c].op = "move"
      BY <2>1, ReadyCall DEF Asked
    <2>3. PICK old : edges' = Place(edges, Node(c), call[c].dest, call[c].pos, old)
      BY <1>3 DEF Move, Commit
    <2>4. Stands(edges', Node(c), call[c].dest, call[c].pos)
      BY <1>1, <2>2, <2>3, PlacedStands
    <2>5. QED BY <2>2, <2>4 DEF Landed
  <1>4. CASE Reorder(c)
    <2>1. Ready(c, "reorder")
      BY <1>4 DEF Reorder
    <2>2. Node(c) \in Nodes /\ call[c].op = "reorder"
      BY <2>1, ReadyCall
    <2>3. PICK p \in Parents(edges, Node(c)) : edges' = Place(edges, Node(c), p, call[c].pos, p)
      BY <1>4 DEF Reorder, Commit
    <2>4. p \in Nodes /\ p # Top
      BY <1>1, NameAssumption DEF Parents, Tree, Edges
    <2>5. Stands(edges', Node(c), p, call[c].pos)
      BY <1>1, <2>2, <2>3, <2>4, PlacedStands
    <2>6. p \in Parents(edges', Node(c))
      BY <1>1, <2>2, <2>3, <2>4, PlacedEdges
    <2>7. QED BY <2>2, <2>5, <2>6 DEF Landed
  <1>5. CASE Gather(c)
    <2> DEFINE ns == call[c].ns
               p == call[c].dest
    <2>1. Ready(c, "gather")
      BY <1>5 DEF Gather
    <2>2. /\ ns \in Seq(Nodes) /\ p \in Nodes /\ call[c].op = "gather"
          /\ \A i, j \in 1 .. Len(ns) : ns[i] = ns[j] => i = j
      BY <2>1, ReadyCall DEF Asked
    <2>3. edges' = Gathered(edges, p, ns)
      BY <1>5 DEF Gather, Commit, Gathered, GatheredEdges
    <2>4. DOMAIN ns = 1 .. Len(ns)
      BY <2>2
    <2>5. ASSUME NEW i \in DOMAIN ns
          PROVE  Stands({e \in edges' : e.child \notin {ns[j] : j \in i + 1 .. Len(ns)}},
                        ns[i], p, Last)
      <3> HIDE DEF ns, p
      <3>1. Stands(AsOf(edges', ns, i), ns[i], p, Last)
        BY <1>1, <2>2, <2>3, <2>4, GatheredStand
      <3>2. QED BY <3>1 DEF AsOf
    <2>6. \A i \in DOMAIN call[c].ns :
              Stands({e \in edges' : e.child \notin {call[c].ns[j] : j \in i + 1 .. Len(call[c].ns)}},
                     call[c].ns[i], call[c].dest, Last)
      BY <2>5
    <2>7. call[c].op = "gather"
      BY <2>2
    <2> HIDE DEF ns, p
    <2>8. QED BY <2>6, <2>7, Zenon DEF Landed
  <1>6. CASE Create(c)
    <2>1. Ready(c, "create")
      BY <1>6 DEF Create
    <2>2. Node(c) \in Nodes /\ call[c].dest \in Nodes /\ call[c].op = "create"
      BY <2>1, ReadyCall DEF Asked
    <2>3. edges' = Place(edges, Node(c), call[c].dest, call[c].pos, Top)
      BY <1>6 DEF Create, Commit
    <2>4. Stands(edges', Node(c), call[c].dest, call[c].pos)
      BY <1>1, <2>2, <2>3, PlacedStands
    <2>5. QED BY <2>2, <2>4 DEF Landed
  <1>7. CASE Relink(c)
    <2>1. Ready(c, "relink")
      BY <1>7 DEF Relink
    <2>2. Node(c) \in Nodes /\ call[c].dest \in Nodes /\ call[c].op = "relink"
      BY <2>1, ReadyCall DEF Asked
    <2>3. PICK old : edges' = Place(edges, Node(c), call[c].dest, call[c].pos, old)
      BY <1>7 DEF Relink, Commit
    <2>4. Stands(edges', Node(c), call[c].dest, call[c].pos)
      BY <1>1, <2>2, <2>3, PlacedStands
    <2>5. QED BY <2>2, <2>4 DEF Landed
  <1>8. CASE Attach(c) \/ Detach(c) \/ DeleteTree(c) \/ DeleteLeaf(c)
    <2>1. call[c].op \in {"attach", "detach", "tree", "leaf"}
      BY <1>8 DEF Attach, Detach, DeleteTree, DeleteLeaf, Ready
    <2>2. QED BY <2>1 DEF Landed
  <1>9. QED BY <1>2, <1>3, <1>4, <1>5, <1>6, <1>7, <1>8 DEF Writes

(* A node that is placed stands where the call asked, in the list as it is by then. *)
THEOREM PlacedNodesLand == Spec => LandsWhereAsked
  <1>1. TreeInv /\ [Next]_vars =>
            [\A c \in Callers :
                Committing(c) /\ edges' # edges /\ (call[c].op = "reorder" \/ call[c].dest # Top)
                    => Landed(c, edges')]_vars
    <2>1. SUFFICES ASSUME TreeInv, Next, NEW c \in Callers, Committing(c), edges' # edges,
                          call[c].op = "reorder" \/ call[c].dest # Top
                   PROVE  Landed(c, edges')
      OBVIOUS
    <2>2. PICK b \in Callers : Asks(b) \/ Unwritten(b) \/ Publish(b) \/ Writes(b)
      BY <2>1 DEF Next
    <2>3. Writes(b) /\ b = c
      BY <2>1, <2>2, OthersCommitNothing, WriteCommits DEF Committing
    <2>4. QED BY <2>1, <2>3, WritesLand
  <1>2. QED BY <1>1, InvAlways, PTL DEF Spec, LandsWhereAsked

----------------------------------------------------------------------------
(* The lists of children, and the refinement of Outline *)

Pairs(es) == {<<e.parent, e.child>> : e \in es}
Triples(es) ==
    {<<x[1].parent, x[1].child, x[2].child>> :
        x \in {x \in es \X es : x[1].parent = x[2].parent /\ x[1].key < x[2].key}}

(* n is a child of p; m stands before n among the children of p. *)
IsKid(es, p, n) == \E e \in es : e.parent = p /\ e.child = n
Ahead(es, p, m, n) ==
    \E e, f \in es :
        e.parent = p /\ f.parent = p /\ e.child = m /\ f.child = n /\ e.key < f.key

LEMMA InPairs ==
    ASSUME NEW es
    PROVE  /\ \A p, n : <<p, n>> \in Pairs(es) <=> IsKid(es, p, n)
           /\ \A x \in Pairs(es) : x = <<x[1], x[2]>> /\ IsKid(es, x[1], x[2])
  BY DEF Pairs, IsKid

LEMMA InTriples ==
    ASSUME NEW es
    PROVE  /\ \A p, m, n : <<p, m, n>> \in Triples(es) <=> Ahead(es, p, m, n)
           /\ \A t \in Triples(es) : t = <<t[1], t[2], t[3]>> /\ Ahead(es, t[1], t[2], t[3])
  <1>1. ASSUME NEW t \in Triples(es)
        PROVE  t = <<t[1], t[2], t[3]>> /\ Ahead(es, t[1], t[2], t[3])
    <2>1. PICK x \in es \X es : /\ x[1].parent = x[2].parent /\ x[1].key < x[2].key
                                /\ t = <<x[1].parent, x[1].child, x[2].child>>
      BY DEF Triples
    <2>2. x[1] \in es /\ x[2] \in es
      OBVIOUS
    <2>3. t = <<t[1], t[2], t[3]>> /\ t[1] = x[1].parent /\ t[2] = x[1].child /\ t[3] = x[2].child
      BY <2>1
    <2>4. QED BY <2>1, <2>2, <2>3 DEF Ahead
  <1>2. ASSUME NEW p, NEW m, NEW n, Ahead(es, p, m, n)
        PROVE  <<p, m, n>> \in Triples(es)
    <2>1. PICK e, f \in es :
              e.parent = p /\ f.parent = p /\ e.child = m /\ f.child = n /\ e.key < f.key
      BY <1>2 DEF Ahead
    <2> DEFINE x == <<e, f>>
    <2>2. x \in es \X es /\ x[1] = e /\ x[2] = f
      OBVIOUS
    <2>3. <<x[1].parent, x[1].child, x[2].child>> = <<p, m, n>>
      BY <2>1
    <2> HIDE DEF x
    <2>4. QED BY <2>1, <2>2, <2>3 DEF Triples
  <1>3. ASSUME NEW p, NEW m, NEW n, <<p, m, n>> \in Triples(es)
        PROVE  Ahead(es, p, m, n)
    <2> DEFINE t == <<p, m, n>>
    <2>1. t[1] = p /\ t[2] = m /\ t[3] = n
      OBVIOUS
    <2>2. Ahead(es, t[1], t[2], t[3])
      BY <1>1, <1>3
    <2>3. QED BY <2>1, <2>2
  <1>4. QED BY <1>1, <1>2, <1>3

(* Each pair of nodes has at most one edge, and each list no equal keys: who stands
   before whom is decided by any two edges. *)
LEMMA AheadBy ==
    ASSUME NEW es, Tree(es), NEW e \in es, NEW f \in es, e.parent = f.parent
    PROVE  Ahead(es, e.parent, e.child, f.child) <=> e.key < f.key
  <1>1. ASSUME Ahead(es, e.parent, e.child, f.child)
        PROVE  e.key < f.key
    <2>1. PICK d, g \in es : /\ d.parent = e.parent /\ g.parent = e.parent
                             /\ d.child = e.child /\ g.child = f.child /\ d.key < g.key
      BY <1>1 DEF Ahead
    <2>2. d = e /\ g = f
      BY <2>1 DEF Tree, Single
    <2>3. QED BY <2>1, <2>2
  <1>2. QED BY <1>1 DEF Ahead

(* The lists of a sound tree are what Outline calls well-formed. *)
LEMMA GraphWellFormed == Graph => O!WellFormed
  <1> SUFFICES ASSUME Graph
               PROVE  O!WellFormed
    OBVIOUS
  <1>1. Tree(edges)
    BY DEF Graph
  <1>2. Pairs(edges) \subseteq nodes \X nodes
    BY DEF Graph, Pairs
  <1>3. \A t \in Triples(edges) :
            {<<t[1], t[2]>>, <<t[1], t[3]>>} \subseteq Pairs(edges) /\ t[2] # t[3]
    <2> SUFFICES ASSUME NEW t \in Triples(edges)
                 PROVE  {<<t[1], t[2]>>, <<t[1], t[3]>>} \subseteq Pairs(edges) /\ t[2] # t[3]
      BY Zenon
    <2>1. PICK e, f \in edges : /\ e.parent = t[1] /\ f.parent = t[1]
                                /\ e.child = t[2] /\ f.child = t[3] /\ e.key < f.key
      BY InTriples DEF Ahead
    <2>2. IsKid(edges, t[1], t[2]) /\ IsKid(edges, t[1], t[3])
      BY <2>1 DEF IsKid
    <2>3. e.key \in Int /\ f.key \in Int
      BY <1>1 DEF Tree, Edges
    <2>4. t[2] # t[3]
      <3>1. e # f
        BY <2>1, <2>3
      <3>2. QED BY <1>1, <2>1, <3>1 DEF Tree, Single
    <2>5. QED BY <2>2, <2>4, InPairs
  <1>4. \A x, y \in Pairs(edges) : x[1] = y[1] /\ x[2] # y[2] =>
            (<<x[1], x[2], y[2]>> \in Triples(edges)) # (<<x[1], y[2], x[2]>> \in Triples(edges))
    <2>1. SUFFICES ASSUME NEW x \in Pairs(edges), NEW y \in Pairs(edges),
                          x[1] = y[1], x[2] # y[2]
                   PROVE  ~(Ahead(edges, x[1], x[2], y[2]) <=> Ahead(edges, x[1], y[2], x[2]))
      BY InTriples
    <2>2. PICK e \in edges : e.parent = x[1] /\ e.child = x[2]
      BY InPairs DEF IsKid
    <2>3. PICK f \in edges : f.parent = y[1] /\ f.child = y[2]
      BY InPairs DEF IsKid
    <2>4. /\ Ahead(edges, x[1], x[2], y[2]) <=> e.key < f.key
          /\ Ahead(edges, x[1], y[2], x[2]) <=> f.key < e.key
      <3>1. /\ Ahead(edges, e.parent, e.child, f.child) <=> e.key < f.key
            /\ Ahead(edges, f.parent, f.child, e.child) <=> f.key < e.key
        BY <1>1, <2>1, <2>2, <2>3, AheadBy
      <3>2. QED BY <2>1, <2>2, <2>3, <3>1
    <2>5. e.key # f.key /\ e.key \in Int /\ f.key \in Int
      BY <1>1, <2>1, <2>2, <2>3 DEF Tree, KeysApart, Edges
    <2>6. QED BY <2>4, <2>5
  <1>5. \A s, t \in Triples(edges) :
            s[1] = t[1] /\ s[3] = t[2] => <<s[1], s[2], t[3]>> \in Triples(edges)
    <2>1. SUFFICES ASSUME NEW s \in Triples(edges), NEW t \in Triples(edges),
                          s[1] = t[1], s[3] = t[2]
                   PROVE  Ahead(edges, s[1], s[2], t[3])
      BY InTriples
    <2>2. PICK e, f \in edges : /\ e.parent = s[1] /\ f.parent = s[1]
                                /\ e.child = s[2] /\ f.child = s[3] /\ e.key < f.key
      BY InTriples DEF Ahead
    <2>3. PICK g, h \in edges : /\ g.parent = t[1] /\ h.parent = t[1]
                                /\ g.child = t[2] /\ h.child = t[3] /\ g.key < h.key
      BY InTriples DEF Ahead
    <2>4. f = g
      BY <1>1, <2>1, <2>2, <2>3 DEF Tree, Single
    <2>5. e.key \in Int /\ g.key \in Int /\ h.key \in Int
      BY <1>1 DEF Tree, Edges
    <2>6. e.key < h.key
      BY <2>2, <2>3, <2>4, <2>5
    <2>7. QED BY <2>1, <2>2, <2>3, <2>6 DEF Ahead
  <1>6. \A S \in SUBSET Nodes \ {{}} : \E n \in S : \A p \in S : <<p, n>> \notin Pairs(edges)
    <2> TAKE S \in SUBSET Nodes \ {{}}
    <2>1. PICK n \in S : Parents(edges, n) \cap S = {}
      BY DEF Graph, Loopless
    <2>2. ASSUME NEW p \in S, <<p, n>> \in Pairs(edges)
          PROVE  FALSE
      <3>1. IsKid(edges, p, n)
        BY <2>2, InPairs
      <3>2. p \in Parents(edges, n)
        BY <3>1 DEF IsKid, Parents
      <3>3. QED BY <2>1, <3>2
    <2>3. QED BY <2>2
  <1>7. QED BY <1>2, <1>3, <1>4, <1>5, <1>6
           DEF O!WellFormed, O!Ordered, O!NoLoops, Pairs, Triples

(* The order among all but the nodes of S is the one it was, triple by triple. *)
LEMMA UndisturbedBy ==
    ASSUME NEW es, NEW fs, NEW S,
           \A p, m, n : m \notin S /\ n \notin S => (Ahead(fs, p, m, n) <=> Ahead(es, p, m, n))
    PROVE  {t \in Triples(fs) : t[2] \notin S /\ t[3] \notin S} =
               {t \in Triples(es) : t[2] \notin S /\ t[3] \notin S}
  <1>1. ASSUME NEW t \in Triples(fs), t[2] \notin S, t[3] \notin S
        PROVE  t \in Triples(es)
    <2>1. t = <<t[1], t[2], t[3]>> /\ Ahead(es, t[1], t[2], t[3])
      BY <1>1, InTriples
    <2>2. <<t[1], t[2], t[3]>> \in Triples(es)
      BY <2>1, InTriples
    <2>3. QED BY <2>1, <2>2
  <1>2. ASSUME NEW t \in Triples(es), t[2] \notin S, t[3] \notin S
        PROVE  t \in Triples(fs)
    <2>1. t = <<t[1], t[2], t[3]>> /\ Ahead(fs, t[1], t[2], t[3])
      BY <1>2, InTriples
    <2>2. <<t[1], t[2], t[3]>> \in Triples(fs)
      BY <2>1, InTriples
    <2>3. QED BY <2>1, <2>2
  <1>3. QED BY <1>1, <1>2

(* When the other edges of a list stay or are spread, nobody else is disturbed. *)
LEMMA RoomyAhead ==
    ASSUME NEW es, Tree(es), NEW n, NEW p, NEW pos, NEW q, NEW a, NEW b
    PROVE  Ahead(Roomy(es, n, p, pos), q, a, b) <=> Ahead(es, q, a, b)
  <1> DEFINE R == Roomy(es, n, p, pos)
  <1>1. CASE R = es
    BY <1>1
  <1>2. CASE R = Respread(es, p)
    <2>1. /\ \A e \in es : /\ Spreading(es, p, e) \in R
                           /\ Spreading(es, p, e).parent = e.parent
                           /\ Spreading(es, p, e).child = e.child
                           /\ e.parent # p => Spreading(es, p, e) = e
          /\ \A f \in R : \E e \in es : f = Spreading(es, p, e)
          /\ \A e, f \in es : e.parent = p /\ f.parent = p =>
                 (e.key < f.key <=> Spreading(es, p, e).key < Spreading(es, p, f).key)
      BY <1>2, RespreadEdges
    <2>2. ASSUME NEW e \in es, NEW f \in es, e.parent = f.parent
          PROVE  e.key < f.key <=> Spreading(es, p, e).key < Spreading(es, p, f).key
      BY <2>1, <2>2
    <2> HIDE DEF R
    <2>3. ASSUME Ahead(es, q, a, b)
          PROVE  Ahead(R, q, a, b)
      <3>1. PICK e, f \in es :
                e.parent = q /\ f.parent = q /\ e.child = a /\ f.child = b /\ e.key < f.key
        BY <2>3 DEF Ahead
      <3> DEFINE d == Spreading(es, p, e)
                 g == Spreading(es, p, f)
      <3>2. /\ d \in R /\ d.parent = q /\ d.child = a
            /\ g \in R /\ g.parent = q /\ g.child = b /\ d.key < g.key
        BY <2>1, <2>2, <3>1
      <3> HIDE DEF d, g
      <3>3. QED BY <3>2 DEF Ahead
    <2>4. ASSUME Ahead(R, q, a, b)
          PROVE  Ahead(es, q, a, b)
      <3>1. PICK d, g \in R :
                d.parent = q /\ g.parent = q /\ d.child = a /\ g.child = b /\ d.key < g.key
        BY <2>4 DEF Ahead
      <3>2. PICK e \in es : d = Spreading(es, p, e)
        BY <2>1
      <3>3. PICK f \in es : g = Spreading(es, p, f)
        BY <2>1
      <3>4. e.parent = q /\ f.parent = q /\ e.child = a /\ f.child = b
        BY <2>1, <3>1, <3>2, <3>3
      <3>5. e.key < f.key
        BY <2>2, <3>1, <3>2, <3>3, <3>4
      <3>6. QED BY <3>4, <3>5 DEF Ahead
    <2>5. QED BY <2>3, <2>4 DEF R
  <1>3. QED BY <1>1, <1>2 DEF Roomy

(* What Roomy does to the pairs: nothing. *)
LEMMA RoomyKids ==
    ASSUME NEW es, Tree(es), NEW n, NEW p, NEW pos, NEW q, NEW a
    PROVE  IsKid(Roomy(es, n, p, pos), q, a) <=> IsKid(es, q, a)
  <1>1. CASE IsKid(es, q, a)
    BY <1>1, RoomyEdges DEF IsKid, Parents
  <1>2. CASE IsKid(Roomy(es, n, p, pos), q, a)
    BY <1>2, RoomyEdges DEF IsKid, Parents
  <1>3. QED BY <1>1, <1>2

(* fs is es but for the place of n, which is under p. *)
PutUnder(es, fs, n, p, old) ==
    /\ \A q, a : IsKid(fs, q, a) <=>
           \/ p # Top /\ q = p /\ a = n
           \/ IsKid(es, q, a) /\ (a # n \/ (p # Top /\ old = p))
    /\ \A q, a, b : a # n /\ b # n => (Ahead(fs, q, a, b) <=> Ahead(es, q, a, b))
    /\ p # Top /\ old = p => \A q, a, b : q # p => (Ahead(fs, q, a, b) <=> Ahead(es, q, a, b))

(* A placement of n under p as the lists show it *)
LEMMA PlacedLists ==
    ASSUME NEW es, Tree(es), NEW n \in Nodes, NEW p \in Nodes \cup {Top}, NEW pos, NEW old
    PROVE  PutUnder(es, Place(es, n, p, pos, old), n, p, old)
  <1> DEFINE fs == Place(es, n, p, pos, old)
             R == Roomy(es, n, p, pos)
             new == EdgeFor(es, n, p, pos)
  <1>1. CASE p = Top
    <2>1. fs = {e \in es : e.child # n}
      BY <1>1 DEF Place
    <2>2. QED BY <1>1, <2>1 DEF IsKid, Ahead, PutUnder
  <1>2. CASE p # Top
    <2>1. /\ new \in fs /\ new.parent = p /\ new.child = n
          /\ \A f \in fs : f = new \/ (f \in R /\ (f.child # n \/ (old = p /\ f.parent # p)))
          /\ \A f \in R : f.child # n \/ (old = p /\ f.parent # p) => f \in fs
      BY <1>2, PlacedTree DEF Placed
    <2>2. \A q, a : IsKid(R, q, a) <=> IsKid(es, q, a)
      BY RoomyKids
    <2>3. \A q, a, b : Ahead(R, q, a, b) <=> Ahead(es, q, a, b)
      BY RoomyAhead
    <2> HIDE DEF fs, R, new
    <2>4. \A q, a : IsKid(fs, q, a) <=>
              (q = p /\ a = n) \/ (IsKid(R, q, a) /\ (a # n \/ old = p))
      BY <2>1 DEF IsKid
    <2>5. \A q, a, b : a # n /\ b # n => (Ahead(fs, q, a, b) <=> Ahead(R, q, a, b))
      BY <2>1 DEF Ahead
    <2>6. old = p => \A q, a, b : q # p => (Ahead(fs, q, a, b) <=> Ahead(R, q, a, b))
      BY <2>1 DEF Ahead
    <2>7. QED BY <1>2, <2>2, <2>3, <2>4, <2>5, <2>6 DEF fs, PutUnder
  <1>3. QED BY <1>1, <1>2

LEMMA GraphStaysWellFormed == Graph' => O!WellFormed'
  BY GraphWellFormed, PTL

LEMMA PlaceRefines ==
    ASSUME Graph, NEW n \in nodes, NEW p \in nodes \cup {Top}, NEW pos, NEW old,
           p # Top /\ old = p => p \in Parents(edges, n),
           edges' = Place(edges, n, p, pos, old), nodes' = nodes
    PROVE  IF p # Top /\ old = p THEN O!Shift(n, p) ELSE O!Place({n}, p)
  <1>1. Tree(edges) /\ n \in Nodes /\ p \in Nodes \cup {Top}
    BY DEF Graph
  <1>2. /\ \A q, a : IsKid(edges', q, a) <=>
               \/ p # Top /\ q = p /\ a = n
               \/ IsKid(edges, q, a) /\ (a # n \/ (p # Top /\ old = p))
        /\ \A q, a, b : a # n /\ b # n => (Ahead(edges', q, a, b) <=> Ahead(edges, q, a, b))
        /\ p # Top /\ old = p =>
               \A q, a, b : q # p => (Ahead(edges', q, a, b) <=> Ahead(edges, q, a, b))
    <2>1. PutUnder(edges, edges', n, p, old)
      BY <1>1, PlacedLists
    <2>2. QED BY <2>1 DEF PutUnder
  <1>3. {t \in Triples(edges') : t[2] \notin {n} /\ t[3] \notin {n}} =
            {t \in Triples(edges) : t[2] \notin {n} /\ t[3] \notin {n}}
    <2> DEFINE S == {n}
    <2>1. \A q, a, b : a \notin S /\ b \notin S => (Ahead(edges', q, a, b) <=> Ahead(edges, q, a, b))
      BY <1>2
    <2> HIDE DEF S
    <2>2. {t \in Triples(edges') : t[2] \notin S /\ t[3] \notin S} =
              {t \in Triples(edges) : t[2] \notin S /\ t[3] \notin S}
      BY <2>1, UndisturbedBy
    <2>3. QED BY <2>2 DEF S
  <1>4. O!Undisturbed({n})
    BY <1>3 DEF O!Undisturbed, Triples
  <1>5. CASE p # Top /\ old = p
    <2>1. IsKid(edges, p, n)
      BY <1>5 DEF Parents, IsKid
    <2>2. Pairs(edges') = Pairs(edges)
      <3>1. \A q, a : <<q, a>> \in Pairs(edges') <=> <<q, a>> \in Pairs(edges)
        BY <1>2, <1>5, <2>1, InPairs
      <3>2. QED BY <3>1, InPairs
    <2>3. {t \in Triples(edges') : t[1] # p} = {t \in Triples(edges) : t[1] # p}
      <3>1. \A q, a, b : q # p => (<<q, a, b>> \in Triples(edges') <=> <<q, a, b>> \in Triples(edges))
        BY <1>2, <1>5, InTriples
      <3>2. \A t \in Triples(edges) \cup Triples(edges') : t = <<t[1], t[2], t[3]>>
        BY InTriples
      <3>3. QED BY <3>1, <3>2
    <2>4. O!Shift(n, p)
      BY <1>4, <2>2, <2>3 DEF O!Shift, Pairs, Triples
    <2>5. QED BY <1>5, <2>4
  <1>6. CASE ~(p # Top /\ old = p)
    <2> DEFINE new == {<<p, m>> : m \in IF p = Top THEN {} ELSE {n}}
    <2>1. \A x : x \in new <=> p # Top /\ x = <<p, n>>
      OBVIOUS
    <2> HIDE DEF new
    <2>2. Pairs(edges') = {x \in Pairs(edges) : x[2] \notin {n}} \cup new
      <3>1. \A q, a : <<q, a>> \in Pairs(edges') <=>
                (p # Top /\ q = p /\ a = n) \/ (<<q, a>> \in Pairs(edges) /\ a # n)
        BY <1>2, <1>6, InPairs
      <3>2. \A x \in Pairs(edges') : x = <<x[1], x[2]>>
        BY InPairs
      <3>3. \A x \in Pairs(edges) : x = <<x[1], x[2]>>
        BY InPairs
      <3>4. Pairs(edges') \subseteq {x \in Pairs(edges) : x[2] \notin {n}} \cup new
        BY <2>1, <3>1, <3>2
      <3>5. {x \in Pairs(edges) : x[2] \notin {n}} \cup new \subseteq Pairs(edges')
        BY <2>1, <3>1, <3>3
      <3>6. QED BY <3>4, <3>5
    <2>3. O!Place({n}, p)
      BY <1>4, <2>2 DEF O!Place, Pairs, new
    <2>4. QED BY <1>6, <2>3
  <1>7. QED BY <1>5, <1>6

LEMMA MoveRefines ==
    ASSUME TreeInv, NEW c \in Callers, Move(c) \/ Reorder(c) \/ (Relink(c) /\ edges' # edges)
    PROVE  \E n \in nodes, p \in nodes \cup {Top} :
               O!Place({n}, p) \/ (p \in nodes /\ O!Shift(n, p))
  <1> PICK n : n = Node(c)
    OBVIOUS
  <1> PICK p : p = call[c].dest
    OBVIOUS
  <1> PICK pos : pos = call[c].pos
    OBVIOUS
  <1>1. Graph /\ Top \notin nodes
    BY NameAssumption DEF TreeInv, Graph
  <1>2. CASE Move(c) \/ (Relink(c) /\ edges' # edges)
    <2>1. Ready(c, "move") \/ Ready(c, "relink")
      BY <1>2 DEF Move, Relink
    <2>2. Allowed(call[c]) /\ call[c].op \in {"move", "relink"} /\ nodes' = nodes
      BY <1>2, <2>1 DEF Move, Relink, Commit, Ready
    <2>3. n \in nodes /\ p \in nodes \cup {Top}
      BY <2>2 DEF Allowed, NewHome, Node
    <2>4. PICK old \in OneParent(edges, n) : edges' = Place(edges, n, p, pos, old)
      BY <1>2 DEF Move, Relink, Commit
    <2>5. p # Top /\ old = p => p \in Parents(edges, n)
      BY DEF OneParent
    <2>6. IF p # Top /\ old = p THEN O!Shift(n, p) ELSE O!Place({n}, p)
      BY <1>1, <2>2, <2>3, <2>4, <2>5, PlaceRefines
    <2>7. QED BY <2>3, <2>6
  <1>3. CASE Reorder(c)
    <2>1. Ready(c, "reorder") /\ nodes' = nodes
      BY <1>3 DEF Reorder
    <2>2. PICK q \in Parents(edges, n) : edges' = Place(edges, n, q, pos, q)
      BY <1>3 DEF Reorder, Commit
    <2>3. n \in nodes /\ q \in nodes /\ q # Top
      BY <1>1, <2>2 DEF Graph, Parents
    <2>4. PICK old : old = q
      OBVIOUS
    <2>5. edges' = Place(edges, n, q, pos, old)
      BY <2>2, <2>4
    <2>6. IF q # Top /\ old = q THEN O!Shift(n, q) ELSE O!Place({n}, q)
      BY <1>1, <2>1, <2>2, <2>3, <2>5, PlaceRefines
    <2>7. QED BY <2>3, <2>4, <2>6
  <1>4. QED BY <1>2, <1>3

LEMMA GatherRefines ==
    ASSUME TreeInv, NEW c \in Callers, Gather(c)
    PROVE  \E S \in SUBSET nodes, p \in nodes \cup {Top} : O!Place(S, p)
  <1> PICK ns : ns = call[c].ns
    OBVIOUS
  <1> PICK p : p = call[c].dest
    OBVIOUS
  <1> PICK S : S = Range(ns)
    OBVIOUS
  <1> DEFINE new == {<<p, m>> : m \in IF p = Top THEN {} ELSE S}
  <1>1. Graph /\ Tree(edges)
    BY DEF TreeInv, Graph
  <1>2. Ready(c, "gather")
    BY DEF Gather
  <1>3. Allowed(call[c]) /\ call[c].op = "gather" /\ p \in Nodes /\ ns \in Seq(Nodes) /\ nodes' = nodes
    BY <1>2, ReadyCall DEF Gather, Commit, Asked
  <1>4. /\ p \in nodes /\ p # Top
        /\ \A n \in S : Parents(edges, n) # {}
    BY <1>3, NameAssumption DEF Allowed, NewHome
  <1>5. S \in SUBSET nodes
    BY <1>1, <1>4 DEF Graph, Parents
  <1>6. edges' = {e \in edges : e.child \notin S} \cup GatheredEdges(edges, p, ns)
    BY DEF Gather, Commit, GatheredEdges
  <1>7. \A f \in GatheredEdges(edges, p, ns) : f.parent = p /\ f.child \in S
    BY DEF GatheredEdges, Range
  <1>8. \A m \in S : \E f \in GatheredEdges(edges, p, ns) : f.parent = p /\ f.child = m
    <2>1. SUFFICES ASSUME NEW m \in S
                   PROVE  \E f \in GatheredEdges(edges, p, ns) : f.parent = p /\ f.child = m
      OBVIOUS
    <2>2. PICK i \in DOMAIN ns : ns[i] = m
      BY DEF Range
    <2> DEFINE f == [parent |-> p, child |-> ns[i], key |-> GatherBase(edges, p) + i * Unit]
    <2>3. f.parent = p /\ f.child = m
      BY <2>2
    <2>4. f \in GatheredEdges(edges, p, ns)
      BY DEF GatheredEdges
    <2> HIDE DEF f
    <2>5. QED BY <2>3, <2>4
  <1>9. \A x : x \in new <=> \E m \in S : x = <<p, m>>
    BY <1>4
  <1> HIDE DEF new
  <1>10. Pairs(edges') = {x \in Pairs(edges) : x[2] \notin S} \cup new
    <2> DEFINE G == GatheredEdges(edges, p, ns)
    <2> HIDE DEF G
    <2>1. /\ \A e \in edges' : (e \in edges /\ e.child \notin S) \/ e \in G
          /\ \A e \in edges : e.child \notin S => e \in edges'
          /\ \A f \in G : f.parent = p /\ f.child \in S
          /\ \A m \in S : \E f \in G : f \in edges' /\ f.parent = p /\ f.child = m
      BY <1>6, <1>7, <1>8 DEF G
    <2>2. \A q, a : <<q, a>> \in Pairs(edges') <=>
              (q = p /\ a \in S) \/ (<<q, a>> \in Pairs(edges) /\ a \notin S)
      <3>1. ASSUME NEW q, NEW a, IsKid(edges', q, a)
            PROVE  (q = p /\ a \in S) \/ (IsKid(edges, q, a) /\ a \notin S)
        BY <2>1, <3>1 DEF IsKid
      <3>2. ASSUME NEW a \in S
            PROVE  IsKid(edges', p, a)
        BY <2>1 DEF IsKid
      <3>3. ASSUME NEW q, NEW a, IsKid(edges, q, a), a \notin S
            PROVE  IsKid(edges', q, a)
        BY <2>1, <3>3 DEF IsKid
      <3>4. QED BY <3>1, <3>2, <3>3, InPairs, Zenon
    <2>3. \A x \in Pairs(edges') : x = <<x[1], x[2]>>
      BY InPairs
    <2>4. \A x \in Pairs(edges) : x = <<x[1], x[2]>>
      BY InPairs
    <2>5. Pairs(edges') \subseteq {x \in Pairs(edges) : x[2] \notin S} \cup new
      BY <1>9, <2>2, <2>3
    <2>6. {x \in Pairs(edges) : x[2] \notin S} \cup new \subseteq Pairs(edges')
      BY <1>9, <2>2, <2>4
    <2>7. QED BY <2>5, <2>6
  <1>11. {t \in Triples(edges') : t[2] \notin S /\ t[3] \notin S} =
             {t \in Triples(edges) : t[2] \notin S /\ t[3] \notin S}
    <2>1. \A q, a, b : a \notin S /\ b \notin S =>
              (Ahead(edges', q, a, b) <=> Ahead(edges, q, a, b))
      BY <1>6, <1>7 DEF Ahead
    <2>2. QED BY <2>1, UndisturbedBy
  <1>12. O!Place(S, p)
    BY <1>3, <1>10, <1>11 DEF O!Place, O!Undisturbed, Pairs, Triples, new
  <1>13. QED BY <1>4, <1>5, <1>12

LEMMA CreateRefines ==
    ASSUME TreeInv, NEW c \in Callers, Create(c)
    PROVE  \E n \in Nodes \ nodes, p \in nodes \cup {Top} : O!Grow(n, p)
  <1> PICK n : n = Node(c)
    OBVIOUS
  <1> PICK p : p = call[c].dest
    OBVIOUS
  <1> DEFINE new == IF p = Top THEN {} ELSE {<<p, n>>}
  <1>1. Graph /\ Tree(edges) /\ Top \notin Nodes
    BY NameAssumption DEF TreeInv, Graph
  <1>2. Ready(c, "create")
    BY DEF Create
  <1>3. n \in Nodes /\ version[n] = 0 /\ call[c].op = "create"
    BY <1>2, ReadyCall DEF TreeInv, Calls, Fresh, Node
  <1>4. n \notin nodes
    BY <1>1, <1>3 DEF Graph
  <1>5. p \in nodes \cup {Top}
    BY <1>3 DEF Create, Commit, Allowed, NewHome
  <1>6. edges' = Place(edges, n, p, call[c].pos, Top) /\ nodes' = nodes \cup {n}
    BY DEF Create, Commit
  <1>7. PutUnder(edges, edges', n, p, Top)
    BY <1>1, <1>3, <1>5, <1>6, PlacedLists DEF Graph
  <1>8. \A q : ~IsKid(edges, q, n)
    BY <1>1, <1>4 DEF IsKid, Graph
  <1>9. \A x : x \in new <=> p # Top /\ x = <<p, n>>
    OBVIOUS
  <1> HIDE DEF new
  <1>10. Pairs(edges') = Pairs(edges) \cup new
    <2>1. \A q, a : IsKid(edges', q, a) <=> (p # Top /\ q = p /\ a = n) \/ IsKid(edges, q, a)
      BY <1>7, <1>8 DEF PutUnder
    <2>2. \A q, a : <<q, a>> \in Pairs(edges') <=>
              (p # Top /\ q = p /\ a = n) \/ <<q, a>> \in Pairs(edges)
      BY <2>1, InPairs, Zenon
    <2>3. \A x \in Pairs(edges') : x = <<x[1], x[2]>>
      BY InPairs
    <2>4. \A x \in Pairs(edges) : x = <<x[1], x[2]>>
      BY InPairs
    <2>5. Pairs(edges') \subseteq Pairs(edges) \cup new
      BY <1>9, <2>2, <2>3
    <2>6. Pairs(edges) \cup new \subseteq Pairs(edges')
      BY <1>9, <2>2, <2>4
    <2>7. QED BY <2>5, <2>6
  <1>11. {t \in Triples(edges') : t[2] \notin {n} /\ t[3] \notin {n}} =
             {t \in Triples(edges) : t[2] \notin {n} /\ t[3] \notin {n}}
    <2> DEFINE S == {n}
    <2>1. \A q, a, b : a \notin S /\ b \notin S =>
              (Ahead(edges', q, a, b) <=> Ahead(edges, q, a, b))
      BY <1>7 DEF PutUnder
    <2> HIDE DEF S
    <2>2. {t \in Triples(edges') : t[2] \notin S /\ t[3] \notin S} =
              {t \in Triples(edges) : t[2] \notin S /\ t[3] \notin S}
      BY <2>1, UndisturbedBy
    <2>3. QED BY <2>2 DEF S
  <1>12. O!Grow(n, p)
    BY <1>4, <1>6, <1>10, <1>11 DEF O!Grow, O!Undisturbed, Pairs, Triples, new
  <1>13. QED BY <1>3, <1>4, <1>5, <1>12

LEMMA AttachRefines ==
    ASSUME TreeInv, NEW c \in Callers, Attach(c), edges' # edges
    PROVE  \E n, p \in nodes : O!Attach(n, p)
  <1> PICK n : n = Node(c)
    OBVIOUS
  <1> PICK p : p = call[c].dest
    OBVIOUS
  <1> DEFINE E == {e \in edges : e.parent = p}
  <1> PICK new : new = [parent |-> p, child |-> n, key |-> KeyLast(E)]
    OBVIOUS
  <1>1. Graph /\ Tree(edges)
    BY DEF TreeInv, Graph
  <1>2. Ready(c, "attach")
    BY DEF Attach
  <1>3. Allowed(call[c]) /\ call[c].op = "attach" /\ p \in Nodes /\ nodes' = nodes
    BY <1>2, ReadyCall DEF Attach, Commit, Asked
  <1>4. n \in nodes /\ p \in nodes
    BY <1>3, NameAssumption DEF Allowed, NewHome, Node
  <1>5. edges' = edges \cup {new}
    BY DEF Attach, Commit
  <1>6. E \in SUBSET Edges /\ IsFiniteSet(E)
    <2>1. E \subseteq edges
      OBVIOUS
    <2>2. QED BY <1>1, <2>1, FS_Subset DEF Tree
  <1>7. new.parent = p /\ new.child = n /\ new.key = KeyLast(E)
    OBVIOUS
  <1>8. \A e \in edges : e.parent = p => e.key < new.key
    <2> HIDE DEF E
    <2>1. \A j \in KeysOf(E) : j < new.key
      BY <1>6, <1>7, KeyLastFits
    <2>2. QED BY <2>1 DEF KeysOf, E
  <1>9. new.key \in Int /\ \A e \in edges : e.key \in Int
    <2>1. KeyLast(E) \in Int
      BY <1>6, KeyLastFits
    <2>2. QED BY <1>1, <1>7, <2>1 DEF Tree, Edges
  <1> HIDE DEF E
  <1>10. \A q, a : IsKid(edges', q, a) <=> IsKid(edges, q, a) \/ (q = p /\ a = n)
    BY <1>5, <1>7 DEF IsKid
  <1>11. Pairs(edges') = Pairs(edges) \cup {<<p, n>>}
    <2>1. \A q, a : <<q, a>> \in Pairs(edges') <=>
              <<q, a>> \in Pairs(edges) \/ (q = p /\ a = n)
      BY <1>10, InPairs, Zenon
    <2>2. \A x \in Pairs(edges') \cup Pairs(edges) : x = <<x[1], x[2]>>
      BY InPairs
    <2>3. QED BY <2>1, <2>2
  <1>12. ASSUME NEW q, NEW a, NEW b
         PROVE  Ahead(edges', q, a, b) <=>
                    Ahead(edges, q, a, b) \/ (q = p /\ b = n /\ IsKid(edges, p, a))
    <2>1. ASSUME Ahead(edges', q, a, b), ~Ahead(edges, q, a, b)
          PROVE  q = p /\ b = n /\ IsKid(edges, p, a)
      <3>1. PICK e, f \in edges' :
                e.parent = q /\ f.parent = q /\ e.child = a /\ f.child = b /\ e.key < f.key
        BY <2>1 DEF Ahead
      <3>2. e = new \/ f = new
        BY <1>5, <2>1, <3>1 DEF Ahead
      <3>3. e # new
        <4>1. SUFFICES ASSUME e = new
                       PROVE  FALSE
          OBVIOUS
        <4>2. f # new
          BY <1>9, <3>1, <4>1
        <4>3. f \in edges /\ f.parent = p
          BY <1>5, <1>7, <3>1, <4>1, <4>2
        <4>4. f.key < new.key /\ f.key \in Int
          BY <1>8, <1>9, <4>3
        <4>5. QED BY <1>9, <3>1, <4>1, <4>4
      <3>4. f = new /\ e \in edges
        BY <1>5, <3>2, <3>3
      <3>5. QED BY <1>7, <3>1, <3>4 DEF IsKid
    <2>2. ASSUME Ahead(edges, q, a, b)
          PROVE  Ahead(edges', q, a, b)
      BY <1>5, <2>2 DEF Ahead
    <2>3. ASSUME IsKid(edges, p, a)
          PROVE  Ahead(edges', p, a, n)
      <3>1. PICK e \in edges : e.parent = p /\ e.child = a
        BY <2>3 DEF IsKid
      <3>2. e.key < new.key
        BY <1>8, <3>1
      <3>3. QED BY <1>5, <1>7, <3>1, <3>2 DEF Ahead
    <2>4. QED BY <2>1, <2>2, <2>3
  <1>13. Triples(edges') = Triples(edges) \cup {<<p, x[2], n>> : x \in {x \in Pairs(edges) : x[1] = p}}
    <2> DEFINE more == {<<p, x[2], n>> : x \in {x \in Pairs(edges) : x[1] = p}}
    <2>1. \A a : IsKid(edges, p, a) => <<p, a, n>> \in more
      <3>1. SUFFICES ASSUME NEW a, IsKid(edges, p, a)
                     PROVE  <<p, a, n>> \in more
        OBVIOUS
      <3>2. PICK x : x = <<p, a>>
        OBVIOUS
      <3>3. x \in Pairs(edges) /\ x[1] = p /\ x[2] = a
        BY <3>1, <3>2, InPairs
      <3>4. QED BY <3>3
    <2>2. \A t \in more : \E a : IsKid(edges, p, a) /\ t = <<p, a, n>>
      BY InPairs
    <2> HIDE DEF more
    <2>3. \A t \in Triples(edges') : t \in Triples(edges) \cup more
      <3>1. SUFFICES ASSUME NEW t \in Triples(edges'), t \notin Triples(edges)
                     PROVE  t \in more
        OBVIOUS
      <3>2. t = <<t[1], t[2], t[3]>> /\ Ahead(edges', t[1], t[2], t[3])
        BY InTriples
      <3>3. ~Ahead(edges, t[1], t[2], t[3])
        BY <3>1, <3>2, InTriples
      <3>4. t[1] = p /\ t[3] = n /\ IsKid(edges, p, t[2])
        BY <1>12, <3>2, <3>3
      <3>5. QED BY <2>1, <3>2, <3>4
    <2>4. \A t \in Triples(edges) : t \in Triples(edges')
      <3>1. SUFFICES ASSUME NEW t \in Triples(edges)
                     PROVE  t \in Triples(edges')
        OBVIOUS
      <3>2. t = <<t[1], t[2], t[3]>> /\ Ahead(edges', t[1], t[2], t[3])
        BY <1>12, InTriples
      <3>3. <<t[1], t[2], t[3]>> \in Triples(edges')
        BY <3>2, InTriples
      <3>4. QED BY <3>2, <3>3
    <2>5. \A t \in more : t \in Triples(edges')
      BY <1>12, <2>2, InTriples
    <2>6. QED BY <2>3, <2>4, <2>5 DEF more
  <1>14. O!Attach(n, p)
    BY <1>3, <1>11, <1>13 DEF O!Attach, Pairs, Triples
  <1>15. QED BY <1>4, <1>14

LEMMA DetachRefines ==
    ASSUME TreeInv, NEW c \in Callers, Detach(c), edges' # edges
    PROVE  \E n, p \in nodes : O!Detach(n, p)
  <1> PICK n : n = Node(c)
    OBVIOUS
  <1> PICK p : p = call[c].dest
    OBVIOUS
  <1>1. Graph /\ Tree(edges)
    BY DEF TreeInv, Graph
  <1>2. edges' = {e \in edges : e.child # n \/ e.parent # p} /\ nodes' = nodes
    BY DEF Detach, Commit
  <1>3. n \in nodes /\ p \in nodes
    <2>1. PICK e \in edges : e.child = n /\ e.parent = p
      BY <1>2
    <2>2. QED BY <1>1, <2>1 DEF Graph
  <1>4. Pairs(edges') = Pairs(edges) \ {<<p, n>>}
    <2>1. \A q, a : IsKid(edges', q, a) <=> IsKid(edges, q, a) /\ (a # n \/ q # p)
      BY <1>2 DEF IsKid
    <2>2. \A q, a : <<q, a>> \in Pairs(edges') <=> <<q, a>> \in Pairs(edges) /\ (a # n \/ q # p)
      BY <2>1, InPairs, Zenon
    <2>3. \A x \in Pairs(edges') \cup Pairs(edges) : x = <<x[1], x[2]>>
      BY InPairs
    <2>4. QED BY <2>2, <2>3
  <1>5. Triples(edges') = {t \in Triples(edges) : t[1] # p \/ (t[2] # n /\ t[3] # n)}
    <2>1. \A q, a, b : Ahead(edges', q, a, b) <=>
              Ahead(edges, q, a, b) /\ (q # p \/ (a # n /\ b # n))
      BY <1>2 DEF Ahead
    <2>2. \A q, a, b : <<q, a, b>> \in Triples(edges') <=>
              <<q, a, b>> \in Triples(edges) /\ (q # p \/ (a # n /\ b # n))
      BY <2>1, InTriples, Zenon
    <2>3. \A t \in Triples(edges') \cup Triples(edges) : t = <<t[1], t[2], t[3]>>
      BY InTriples
    <2>4. QED BY <2>2, <2>3
  <1>6. O!Detach(n, p)
    BY <1>2, <1>4, <1>5 DEF O!Detach, Pairs, Triples
  <1>7. QED BY <1>3, <1>6

LEMMA DeleteRefines ==
    ASSUME TreeInv, NEW c \in Callers, DeleteTree(c) \/ DeleteLeaf(c)
    PROVE  \E S \in SUBSET nodes : O!Remove(S)
  <1> DEFINE n == Node(c)
  <1> PICK S : S = Subtree(edges, n)
    OBVIOUS
  <1>1. Graph
    BY DEF TreeInv
  <1>2. call[c].op \in {"tree", "leaf"} /\ Asked(call[c]) /\ Allowed(call[c])
    <2>1. Ready(c, "tree") \/ Ready(c, "leaf")
      BY DEF DeleteTree, DeleteLeaf
    <2>2. QED BY <2>1, ReadyCall DEF Ready, DeleteTree, DeleteLeaf, Delete, Commit
  <1>3. n \in nodes
    BY <1>2 DEF Asked, Allowed, Current, Node
  <1>4. S \subseteq nodes
    BY <1>1, <1>3, SubtreeExists
  <1>5. nodes' = nodes \ S /\ edges' = {e \in edges : e.parent \notin S /\ e.child \notin S}
    <2>1. CASE DeleteTree(c)
      BY <2>1 DEF DeleteTree, Delete, SeenStill, Node, Commit
    <2>2. CASE DeleteLeaf(c)
      <3> DEFINE T == {n}
      <3>1. nodes' = nodes \ T /\ edges' = {e \in edges : e.parent \notin T /\ e.child \notin T}
        BY <2>2 DEF DeleteLeaf, Delete, Commit
      <3>2. call[c].op = "leaf"
        BY <2>2 DEF DeleteLeaf, Ready
      <3>3. Kids(edges, n) = {}
        BY <1>2, <3>2 DEF Allowed, LeafStill, Node
      <3>4. S = T
        BY <3>3, LeafSubtree
      <3> HIDE DEF T
      <3>5. QED BY <3>1, <3>4
    <2>3. QED BY <2>1, <2>2
  <1>6. \A e \in edges : e.parent \in S => e.child \in S
    BY SubtreeClosed
  <1>7. \A x \in Pairs(edges) : x[1] \in S => x[2] \in S
    BY <1>6, InPairs DEF IsKid
  <1>8. Pairs(edges') = {x \in Pairs(edges) : x[1] \notin S /\ x[2] \notin S}
    <2>1. \A q, a : IsKid(edges', q, a) <=> IsKid(edges, q, a) /\ q \notin S /\ a \notin S
      BY <1>5 DEF IsKid
    <2>2. \A q, a : <<q, a>> \in Pairs(edges') <=>
              <<q, a>> \in Pairs(edges) /\ q \notin S /\ a \notin S
      BY <2>1, InPairs, Zenon
    <2>3. \A x \in Pairs(edges') \cup Pairs(edges) : x = <<x[1], x[2]>>
      BY InPairs
    <2>4. QED BY <2>2, <2>3
  <1>9. Triples(edges') = {t \in Triples(edges) : t[1] \notin S /\ t[2] \notin S /\ t[3] \notin S}
    <2>1. \A q, a, b : Ahead(edges', q, a, b) <=>
              Ahead(edges, q, a, b) /\ q \notin S /\ a \notin S /\ b \notin S
      BY <1>5 DEF Ahead
    <2>2. \A q, a, b : <<q, a, b>> \in Triples(edges') <=>
              <<q, a, b>> \in Triples(edges) /\ q \notin S /\ a \notin S /\ b \notin S
      BY <2>1, InTriples, Zenon
    <2>3. \A t \in Triples(edges') \cup Triples(edges) : t = <<t[1], t[2], t[3]>>
      BY InTriples
    <2>4. QED BY <2>2, <2>3
  <1>10. O!Remove(S)
    BY <1>5, <1>7, <1>8, <1>9 DEF O!Remove, Pairs, Triples
  <1>11. QED BY <1>4, <1>10

(* What a step does to the lists is one of the things Outline lets it do, or nothing. *)
LEMMA StepRefines == TreeInv /\ TreeInv' /\ [Next]_vars => [O!Next]_(O!vars)
  <1> SUFFICES ASSUME TreeInv, TreeInv', [Next]_vars
               PROVE  O!Next \/ UNCHANGED O!vars
    OBVIOUS
  <1>1. O!WellFormed'
    BY GraphStaysWellFormed DEF TreeInv
  <1>2. ASSUME UNCHANGED <<nodes, edges>>
        PROVE  UNCHANGED O!vars
    BY <1>2 DEF O!vars
  <1>3. CASE UNCHANGED vars
    BY <1>2, <1>3 DEF vars
  <1>4. CASE Next
    <2>1. PICK c \in Callers : Asks(c) \/ Unwritten(c) \/ Publish(c) \/ Writes(c)
      BY <1>4 DEF Next
    <2>2. CASE Asks(c) \/ Unwritten(c) \/ Publish(c)
      <3>1. UNCHANGED <<nodes, edges>>
        BY <2>2, OthersCommitNothing
      <3>2. QED BY <1>2, <3>1
    <2>3. CASE Edit(c)
      <3>1. UNCHANGED <<nodes, edges>>
        BY <2>3 DEF Edit, Commit
      <3>2. QED BY <1>2, <3>1
    <2>4. CASE Move(c) \/ Reorder(c) \/ (Relink(c) /\ edges' # edges)
      <3>1. PICK n \in nodes, p \in nodes \cup {Top} :
                O!Place({n}, p) \/ (p \in nodes /\ O!Shift(n, p))
        BY <2>4, MoveRefines
      <3>2. CASE O!Place({n}, p)
        <4>1. PICK S : S = {n}
          OBVIOUS
        <4>2. S \in SUBSET nodes /\ O!Place(S, p)
          BY <3>2, <4>1
        <4>3. QED BY <1>1, <4>2 DEF O!Next
      <3>3. CASE p \in nodes /\ O!Shift(n, p)
        BY <1>1, <3>3 DEF O!Next
      <3>4. QED BY <3>1, <3>2, <3>3
    <2>5. CASE Gather(c)
      <3>1. \E S \in SUBSET nodes, p \in nodes \cup {Top} : O!Place(S, p)
        BY <2>5, GatherRefines
      <3>2. QED BY <1>1, <3>1 DEF O!Next
    <2>6. CASE Create(c)
      <3>1. \E n \in Nodes \ nodes, p \in nodes \cup {Top} : O!Grow(n, p)
        BY <2>6, CreateRefines
      <3>2. QED BY <1>1, <3>1 DEF O!Next
    <2>7. CASE Relink(c) /\ edges' = edges
      <3>1. UNCHANGED <<nodes, edges>>
        BY <2>7 DEF Relink
      <3>2. QED BY <1>2, <3>1
    <2>8. CASE Attach(c)
      <3>1. CASE edges' = edges
        BY <1>2, <2>8, <3>1 DEF Attach
      <3>2. CASE edges' # edges
        <4>1. \E n, p \in nodes : O!Attach(n, p)
          BY <2>8, <3>2, AttachRefines
        <4>2. QED BY <1>1, <4>1 DEF O!Next
      <3>3. QED BY <3>1, <3>2
    <2>9. CASE Detach(c)
      <3>1. CASE edges' = edges
        BY <1>2, <2>9, <3>1 DEF Detach
      <3>2. CASE edges' # edges
        <4>1. \E n, p \in nodes : O!Detach(n, p)
          BY <2>9, <3>2, DetachRefines
        <4>2. QED BY <1>1, <4>1 DEF O!Next
      <3>3. QED BY <3>1, <3>2
    <2>10. CASE DeleteTree(c) \/ DeleteLeaf(c)
      <3>1. \E S \in SUBSET nodes : O!Remove(S)
        BY <2>10, DeleteRefines
      <3>2. QED BY <1>1, <3>1 DEF O!Next
    <2>11. QED BY <2>1, <2>2, <2>3, <2>4, <2>5, <2>6, <2>7, <2>8, <2>9, <2>10 DEF Writes
  <1>5. QED BY <1>3, <1>4

(* The tree keeps the promise of Outline: each step leaves well-formed lists, and moves
   the nodes the write names and nobody else. *)
THEOREM ImplementsOutline == Spec => OutlineSpec
  <1>1. Init => O!Init
    <2>1. ASSUME Init
          PROVE  O!Init
      <3>1. Graph
        BY <2>1, InvInit DEF TreeInv
      <3>2. QED BY <3>1, GraphWellFormed DEF O!Init, Graph
    <2>2. QED BY <2>1
  <1>2. QED BY <1>1, InvAlways, StepRefines, PTL DEF Spec, OutlineSpec, O!Spec

=============================================================================
