---------------------------- MODULE MCIBLTMultiset -----------------------------
(* Instances of IBLTMultiset: three keys, one of them 0, every choice of hashes. *)
EXTENDS IBLTMultiset

CONSTANTS k0, k1, k2

MCKey == {k0, k1, k2}

\* Up to two copies on each side, and a copy erased that was not inserted.
MCNets ==
    [t \in Tables |-> [k \in Key |->
        CASE k = k0 -> IF t = "theirs" THEN {0, 1} ELSE {0}
          [] k = k1 -> {0, 1, 2}
          [] k = k2 -> IF t = "theirs" THEN {0, 1} ELSE {-1, 0, 1}]]
=============================================================================
