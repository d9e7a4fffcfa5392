--------------------------- MODULE MCRegistryFile ---------------------------
(* Small instances of RegistryFile. *)
EXTENDS RegistryFile, TLC

(* Callers, inodes and databases are interchangeable; every property checked
   is a safety property. *)
Symmetry == Permutations(Callers) \cup Permutations(Inodes) \cup Permutations(Ids)

=============================================================================
