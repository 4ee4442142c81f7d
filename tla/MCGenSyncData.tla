---------------------------- MODULE MCGenSyncData ----------------------------
(* An instance of GenSyncData: a CPISync whose hashes are 0..7 in a field of 11 *)
(* elements, and elements of two values of which one has several copies. *)
EXTENDS GenSyncData, TLC

CONSTANTS a1, a2, a3, a4, a5, b

MCObject == {a1, a2, a3, a4, a5, b}
MCval == [o \in MCObject |-> IF o = b THEN 2 ELSE 7]
MCFirstKinds == <<"IBLT", "CPI">>
MCLaterKinds == {"Full", "Cuckoo", "CPI", "CPIplain"}

\* Elements of the same value are interchangeable.
Copy == Permutations({a1, a2, a3, a4, a5})
=============================================================================
