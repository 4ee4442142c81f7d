---------------------------- MODULE MCIBLTSetOfSets ----------------------------
(* Instances of IBLTSetOfSets: child sets of three elements. *)
EXTENDS IBLTSetOfSets

CONSTANTS x, y, z

MCItem == {x, y, z}
MCChild == {{x}, {x, y}, {y, z}, {x, y, z}}

\* No difference that holds both y and z can be listed.
MCStuck == {{y, z}}
MCSizes == {"t1", "t2"}
=============================================================================
