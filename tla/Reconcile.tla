------------------------------ MODULE Reconcile ------------------------------
(***************************************************************************)
(* What a pairwise set reconciliation promises, whatever the SyncMethod.   *)
(*                                                                         *)
(* Two GenSync hosts, "client" (clientSyncBegin) and "server"              *)
(* (serverSyncBegin), run the sessions 1..Sessions in order, one per       *)
(* communicant.  A session is decided once: "ok", every difference was     *)
(* found, or "fail", none is reported.  A host finishes a session only     *)
(* after the decision, and merges what the peer held when the session was  *)
(* decided.  In a one-way session only the server learns.  A host may die  *)
(* (error_and_quit, a kill) at any moment and does not come back.          *)
(***************************************************************************)
EXTENDS Naturals

CONSTANTS Elem, Sessions

Hosts == {"client", "server"}
Other(h) == IF h = "client" THEN "server" ELSE "client"

VARIABLES
    set,        \* set[h]: the elements of host h
    base,       \* base[i]: both sets when session i was decided
    verdict,    \* verdict[i]: "none", "ok" or "fail"
    done,       \* done[h]: how many sessions host h has finished
    alive,      \* alive[h]
    oneWay      \* the sessions are one-way (only the server learns)

absVars == <<set, base, verdict, done, alive, oneWay>>

Undecided == [h \in Hosts |-> {}]

Init ==
    /\ set \in [Hosts -> SUBSET Elem]
    /\ base = [i \in 1..Sessions |-> Undecided]
    /\ verdict = [i \in 1..Sessions |-> "none"]
    /\ done = [h \in Hosts |-> 0]
    /\ alive = [h \in Hosts |-> TRUE]
    /\ oneWay \in BOOLEAN

\* The server decides session i, on the sets both hosts hold at that moment.
Decide(i, v) ==
    /\ verdict[i] = "none"
    /\ alive["server"]
    /\ done["server"] = i - 1
    /\ oneWay \/ done["client"] = i - 1
    /\ verdict' = [verdict EXCEPT ![i] = v]
    /\ base' = [base EXCEPT ![i] = set]
    /\ UNCHANGED <<set, done, alive, oneWay>>

\* What host h holds after session i: the union, if it learns and all went well.
Merged(h, i) ==
    IF verdict[i] = "ok" /\ (oneWay => h = "server")
    THEN set[h] \cup base[i][Other(h)]
    ELSE set[h]

Finish(h, i) ==
    /\ alive[h]
    /\ done[h] = i - 1
    /\ \/ verdict[i] # "none"
       \/ oneWay /\ h = "client"
    /\ done' = [done EXCEPT ![h] = i]
    /\ set' = [set EXCEPT ![h] = Merged(h, i)]
    /\ UNCHANGED <<base, verdict, alive, oneWay>>

Die(h) ==
    /\ alive[h]
    /\ alive' = [alive EXCEPT ![h] = FALSE]
    /\ UNCHANGED <<set, base, verdict, done, oneWay>>

Next ==
    \/ \E i \in 1..Sessions, v \in {"ok", "fail"} : Decide(i, v)
    \/ \E h \in Hosts, i \in 1..Sessions : Finish(h, i)
    \/ \E h \in Hosts : Die(h)

Spec == Init /\ [][Next]_absVars

(***************************************************************************)
(* A consequence of the promise.                                           *)
(***************************************************************************)

\* Once both hosts have finished a two-way session that was decided "ok", and
\* neither has finished a later one, they hold the same set.
Converged ==
    \A i \in 1..Sessions :
        (verdict[i] = "ok" /\ ~oneWay /\ done = [h \in Hosts |-> i])
            => set["client"] = set["server"]
=============================================================================
