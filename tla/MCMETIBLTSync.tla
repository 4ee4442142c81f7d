----------------------------- MODULE MCMETIBLTSync -----------------------------
(* Instances of METIBLTSync: three elements in three tables of three cells. *)
EXTENDS METIBLTClaims, TLC

CONSTANTS e_a, e_b, e_c

MCElem == {e_a, e_b, e_c}

Placement(a, b, c) == (e_a :> a) @@ (e_b :> b) @@ (e_c :> c)

\* One or two cells for each element: what shares a cell with what.
Apart == Placement({1}, {2}, {3})

MCPlaces ==
    { <<p, q, Apart>> :
        p \in { Placement({1}, {1}, {2}), Placement({1, 2}, {1, 2}, {1}) },
        q \in { Placement({2}, {1}, {2}), Placement({1}, {1}, {1}),
                Placement({1}, {1, 2}, {1}) } }
=============================================================================
