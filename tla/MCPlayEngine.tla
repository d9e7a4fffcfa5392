---------------------------- MODULE MCPlayEngine ----------------------------
(* Small instances of PlayEngine: one schema change can break a play whose
   rules are "fragile"; "steady" rules survive it. *)
EXTENDS PlayEngine

MCValid == {<<"steady", "s1">>, <<"steady", "s2">>, <<"fragile", "s1">>}

=============================================================================
