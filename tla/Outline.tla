------------------------------ MODULE Outline ------------------------------
(* What the node tree promises to whoever reads it: every parent has a list of
   children in some order, there are no loops, and a write moves the nodes it
   names and nobody else. How an order is kept (fractional keys that are spread
   out again when they get too close) does not show here. *)
EXTENDS FiniteSets

CONSTANTS
    Nodes,      \* every node there may ever be
    Top         \* the place of a root: the list of nobody

VARIABLES
    nodes,      \* the nodes there are
    kids,       \* the pairs <<p, n>>: n is in the list of p
    before      \* the triples <<p, a, b>>: a comes before b in the list of p

vars == <<nodes, kids, before>>

(* Every list is in a strict total order. *)
Ordered ==
    /\ \A t \in before : {<<t[1], t[2]>>, <<t[1], t[3]>>} \subseteq kids /\ t[2] # t[3]
    /\ \A x, y \in kids : x[1] = y[1] /\ x[2] # y[2] =>
          (<<x[1], x[2], y[2]>> \in before) # (<<x[1], y[2], x[2]>> \in before)
    /\ \A s, t \in before : s[1] = t[1] /\ s[3] = t[2] => <<s[1], s[2], t[3]>> \in before

(* Nobody is below itself: in any group of nodes one has no parent among them. *)
NoLoops ==
    \A S \in SUBSET Nodes \ {{}} : \E n \in S : \A p \in S : <<p, n>> \notin kids

WellFormed == kids \subseteq nodes \X nodes /\ Ordered /\ NoLoops

Init == nodes \subseteq Nodes /\ WellFormed

(* Everybody outside S keeps its place among the others. *)
Undisturbed(S) ==
    {t \in before' : t[2] \notin S /\ t[3] \notin S} =
        {t \in before : t[2] \notin S /\ t[3] \notin S}

(* The nodes of S leave every list they are in and enter that of p. *)
Place(S, p) ==
    /\ nodes' = nodes
    /\ kids' = {x \in kids : x[2] \notin S} \cup {<<p, n>> : n \in IF p = Top THEN {} ELSE S}
    /\ Undisturbed(S)

(* n changes its place in the list of p and keeps any other. *)
Shift(n, p) ==
    /\ nodes' = nodes /\ kids' = kids
    /\ {t \in before' : t[1] # p} = {t \in before : t[1] # p}
    /\ Undisturbed({n})

(* n also enters the list of p, at its end. *)
Attach(n, p) ==
    /\ nodes' = nodes
    /\ kids' = kids \cup {<<p, n>>}
    /\ before' = before \cup {<<p, x[2], n>> : x \in {x \in kids : x[1] = p}}

Detach(n, p) ==
    /\ nodes' = nodes
    /\ kids' = kids \ {<<p, n>>}
    /\ before' = {t \in before : t[1] # p \/ (t[2] # n /\ t[3] # n)}

(* A new node enters the list of p, or becomes a root. *)
Grow(n, p) ==
    /\ n \notin nodes
    /\ nodes' = nodes \cup {n}
    /\ kids' = kids \cup (IF p = Top THEN {} ELSE {<<p, n>>})
    /\ Undisturbed({n})

(* The nodes of S are deleted, with everything that is below one of them. *)
Remove(S) ==
    /\ \A x \in kids : x[1] \in S => x[2] \in S
    /\ nodes' = nodes \ S
    /\ kids' = {x \in kids : x[1] \notin S /\ x[2] \notin S}
    /\ before' = {t \in before : t[1] \notin S /\ t[2] \notin S /\ t[3] \notin S}

Next ==
    /\ \/ \E S \in SUBSET nodes, p \in nodes \cup {Top} : Place(S, p)
       \/ \E n, p \in nodes : Shift(n, p) \/ Attach(n, p) \/ Detach(n, p)
       \/ \E n \in Nodes \ nodes, p \in nodes \cup {Top} : Grow(n, p)
       \/ \E S \in SUBSET nodes : Remove(S)
    /\ WellFormed'

Spec == Init /\ [][Next]_vars

=============================================================================
