--------------------------- MODULE AtomicRegistry ---------------------------
(***************************************************************************)
(* What the registry's file promises (Registry::save and ::load): a value  *)
(* that changes whole, one write at a time, and that the registry in       *)
(* memory follows. Only a save that another mutation has overtaken may     *)
(* leave something else, until the next save. RegistryFile implements it.  *)
(***************************************************************************)
CONSTANTS Ids, Unknown

VARIABLES
    live,       (* the registry in memory                                      *)
    stored,     (* the registry a load finds, or Unknown                       *)
    safe,       (* the one that survives a loss of power, or Unknown           *)
    overlap     (* whether a save runs that another mutation has overtaken     *)

registers == <<live, stored, safe>>
vars      == <<live, stored, safe, overlap>>

(* What one mutation makes of registry r. *)
OneWrite(r) == {r \cup {id} : id \in Ids} \cup {r \ {id} : id \in Ids}

Init == stored \in SUBSET Ids /\ live = stored /\ safe = stored /\ overlap = FALSE

(* A save computed from the registry in memory replaces the file. *)
Land == stored' \in OneWrite(live) /\ UNCHANGED <<live, safe>>

(* An overtaken save replaces it, or a save takes the file of another. *)
Cross == overlap /\ stored' = Unknown /\ UNCHANGED <<live, safe>>

Settle == safe' = stored /\ UNCHANGED <<live, stored>>

(* The call returns, or the daemon starts. *)
Follow ==
    /\ stored # Unknown
    /\ live' = stored
    /\ safe' \in {safe, stored}
    /\ UNCHANGED stored

(* The same where the file is not known: a start tells what it holds, unless
   two saves wrote it. *)
Adopt ==
    /\ stored = Unknown
    /\ live' \in SUBSET Ids
    /\ stored' \in {Unknown, live'}
    /\ safe' \in {safe, stored'}

LosePower == stored' = safe /\ UNCHANGED <<live, safe>>

Next ==
    /\ overlap' \in BOOLEAN
    /\ \/ Land \/ Cross \/ Settle \/ Follow \/ Adopt \/ LosePower
       \/ UNCHANGED registers

Spec == Init /\ [][Next]_vars

=============================================================================
