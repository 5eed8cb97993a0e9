--------------------------- MODULE RevocationSet ---------------------------
(***************************************************************************)
(* What the revocation filter promises: a set of ids it answers TRUE for.  *)
(* An id is added with all ids that the filter cannot tell from it.  When  *)
(* the filter says that the id was added, nothing is lost.  When it is     *)
(* full and refuses the id, that costs one id and those like it, which may *)
(* be the new one or any other.  Restoring a saved filter brings back the  *)
(* set of the time of saving.                                              *)
(***************************************************************************)
CONSTANTS
  Ids,
  Alike(_),      \* Alike(k): the ids that cannot be told from k, k included
  Nobody

VARIABLES
  positives,     \* the ids the filter answers TRUE for
  reliable,      \* the ids it said were added, but for those lost since
  adding,        \* the id that is being added, or Nobody
  archive        \* both sets, as last saved

setVars == <<positives, reliable, adding, archive>>

SetInit ==
  /\ positives = {}
  /\ reliable = {}
  /\ adding = Nobody
  /\ archive = <<{}, {}>>

Add(k) ==
  /\ adding = Nobody
  /\ positives' = positives \cup Alike(k)
  /\ \/ adding' = k /\ UNCHANGED reliable
     \/ UNCHANGED adding /\ reliable' = reliable \cup {k}
  /\ UNCHANGED archive

Added ==
  /\ adding /= Nobody
  /\ adding' = Nobody
  /\ reliable' = reliable \cup {adding}
  /\ UNCHANGED <<positives, archive>>

Refused ==
  /\ adding /= Nobody
  /\ adding' = Nobody
  /\ \E victim \in Ids :
       /\ positives' \in {positives, positives \ Alike(victim)}
       /\ reliable' = reliable \ Alike(victim)
  /\ UNCHANGED archive

Save ==
  /\ adding = Nobody
  /\ archive' = <<positives, reliable>>
  /\ UNCHANGED <<positives, reliable, adding>>

Restore ==
  /\ adding = Nobody
  /\ positives' = archive[1]
  /\ reliable' = archive[2]
  /\ UNCHANGED <<adding, archive>>

SetNext == (\E k \in Ids : Add(k)) \/ Added \/ Refused \/ Save \/ Restore

SetSpec == SetInit /\ [][SetNext]_setVars

=============================================================================
