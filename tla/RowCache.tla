------------------------------ MODULE RowCache ------------------------------
(***************************************************************************)
(* What row quarantine relies on from the cache of its {Row->QR} table: a  *)
(* row that is put in is there, and at most one other row of its set, in a *)
(* full set only, has to leave for it.                                     *)
(***************************************************************************)
EXTENDS Naturals, FiniteSets

CONSTANTS Rows,   \* the rows that may be cached
          Home,   \* Home[r]: the set that r belongs to
          Room    \* the rows a set can hold

VARIABLE cached

Mates(r) == {q \in cached : Home[q] = Home[r]}

Init == cached = {}

Insert(r) ==
    /\ r \notin cached
    /\ \/ Cardinality(Mates(r)) < Room /\ cached' = cached \cup {r}
       \/ Cardinality(Mates(r)) = Room
             /\ \E v \in Mates(r) : cached' = (cached \ {v}) \cup {r}

Remove(r) == r \in cached /\ cached' = cached \ {r}

Next == \E r \in Rows : Insert(r) \/ Remove(r)

Spec == Init /\ [][Next]_cached
=============================================================================
