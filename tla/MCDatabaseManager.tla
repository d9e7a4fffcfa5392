------------------------- MODULE MCDatabaseManager -------------------------
(* Small instances of DatabaseManager. Requests are interchangeable, and so are
   paths; ids, sets and mutexes are numbers because the code hands them out in an
   order. *)
EXTENDS DatabaseManager, TLC

Symmetric == Permutations(Clients) \cup Permutations(Paths)

=============================================================================
