----------------------------- MODULE METIBLTClaims -----------------------------
(* What SyncMethod.h says of a synchronization, as a property of METIBLTSync. *)
EXTENDS METIBLTSync

\* "otherMinusSelf: elements that the other SyncMethod has that I do not" (SyncServer,
\* which in MET_IBLTSync always returns true): also where both hosts lack elements,
\* in tables never used before.
SidesRight ==
    (pc["server"] = "post" /\ Regular) => Support(oms["server"]) = Lacks("server")
=============================================================================
