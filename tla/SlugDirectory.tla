---------------------------- MODULE SlugDirectory ----------------------------
(***************************************************************************)
(* What the administration of categories promises about slugs: a directory  *)
(* in which a slug belongs to one category at most, a category has one slug *)
(* at most, gives it up only for another or for good, and a slug that was   *)
(* given up is free at once.                                                *)
(***************************************************************************)
CONSTANTS
    Rows,           \* categories
    Slugs,          \* canonical slugs
    Nil

VARIABLES
    slugOf,         \* the slug of each category that has one
    retired         \* the categories that gave theirs up

vars == <<slugOf, retired>>

Free(s) == \A i \in Rows : slugOf[i] # s

Claim(i, s) ==
    /\ i \notin retired
    /\ slugOf[i] = Nil
    /\ Free(s)
    /\ slugOf' = [slugOf EXCEPT ![i] = s]
    /\ UNCHANGED retired

Move(i, s) ==
    /\ slugOf[i] # Nil
    /\ Free(s)
    /\ slugOf' = [slugOf EXCEPT ![i] = s]
    /\ UNCHANGED retired

Release(i) ==
    /\ slugOf[i] # Nil
    /\ slugOf' = [slugOf EXCEPT ![i] = Nil]
    /\ retired' = retired \cup {i}

Init ==
    /\ slugOf = [i \in Rows |-> Nil]
    /\ retired = {}

Next ==
    \E i \in Rows :
        \/ \E s \in Slugs : Claim(i, s) \/ Move(i, s)
        \/ Release(i)

Spec == Init /\ [][Next]_vars
=============================================================================
