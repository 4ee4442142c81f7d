------------------------------- MODULE MCGenIBLT -------------------------------
(* Instances of GenIBLT: four keys, every choice of hash functions. *)
EXTENDS GenIBLT

CONSTANTS k1, k2, k3, k4

MCFour == {k1, k2, k3, k4}

\* The table that the constructor makes for three entries and three hash functions.
MCSize == TableSize(3, 3)

\* Hash counts that depend on the key, as MET_IBLT has; k4 has more than cells.
MCMixed == [k \in Key |-> CASE k = k1 -> 1 [] k = k4 -> 6 [] OTHER -> 2]

MCHashRange == [k \in Key |-> IF k = k4 THEN 1 ELSE 2]

\* A key twice in a table, or erased without having been inserted.
MCBags == [t \in Tables |-> IF t = "theirs" THEN {-1, 0, 1, 2} ELSE {0, 1}]
=============================================================================
