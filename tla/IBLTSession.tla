----------------------------- MODULE IBLTSession -----------------------------
(***************************************************************************)
(* IBLTSync's SyncClient and SyncServer on two GenSync hosts.              *)
(*                                                                         *)
(* A table on the wire is the set of elements it was filled with, and      *)
(* listEntries lists what theorem PeelingIsExact of GenIBLTProofs says:    *)
(* every difference but those of the core.  place[e] is the set of cells   *)
(* that the hash functions give e; it is chosen once, the hash functions   *)
(* are the same on both hosts and in every session.                        *)
(***************************************************************************)
EXTENDS GenSyncHosts

CONSTANTS
    Tokens,    \* values of (size, eltSize), which the handshake compares
    Pairings,  \* the agents (client and server) that may meet
    Cells,     \* cells of a table
    Places     \* the placements of the elements in the cells

AgentType == [size : Tokens, oneWay : BOOLEAN]

ASSUME IBLTAssumption ==
    /\ Pairings \subseteq [Hosts -> AgentType]
    /\ Places \subseteq [Elem -> (SUBSET Cells) \ {{}}]

VARIABLES
    agent,  \* agent[h]: the parameters of the IBLTSync object
    place   \* place[e]

agentVars == <<agent, place>>
vars == <<hostVars, agentVars>>

ClientWaits == {"connecting", "awaitFlag", "awaitOthers", "awaitMine"}
ServerWaits == {"recvParams", "recvTable"}
ClientPC == ClientWaits \cup {"begin", "post"} \cup Ended
ServerPC == ServerWaits \cup {"begin", "listening", "post"} \cup Ended

Message ==
    [type : {"params"}, token : Tokens]
    \cup [type : {"flag"}, ok : BOOLEAN]
    \cup [type : {"table", "list"}, set : SUBSET Elem]

TypeOK ==
    /\ HostsTypeOK(ClientPC, ServerPC, Message)
    /\ agent \in Pairings
    /\ place \in Places

Init ==
    /\ HostsInit
    /\ agent \in Pairings
    /\ place \in Places
    /\ open = [i \in Rounds |-> [h \in Hosts |-> FALSE]]

(***************************************************************************)
(* What listEntries leaves unlisted of a set of differences.               *)
(***************************************************************************)
In(S, c) == {e \in S : c \in place[e]}
Stuck(S) == \A c \in Cells : Cardinality(In(S, c)) # 1
Core(D) == UNION {S \in SUBSET D : Stuck(S)}

SymDiff(S, T) == (S \ T) \cup (T \ S)

(***************************************************************************)
(* Client.                                                                 *)
(***************************************************************************)
Begin(h) ==
    /\ pc[h] = "begin"
    /\ oms' = [oms EXCEPT ![h] = {}]
    /\ result' = [result EXCEPT ![h] = TRUE]
    /\ Goto(h, IF h = "client" THEN "connecting" ELSE "listening")
    /\ UNCHANGED <<data, comm, chan, open, success, history, agentVars>>

Table(h) == [type |-> "table", set |-> data[h]]

\* commConnect succeeds on a listening server; a one-way client sends its table
\* after its parameters, without an answer, and is done.
ClientConnect ==
    LET h == "client"
        s == "server"
        params == [type |-> "params", token |-> agent[h].size]
    IN
    /\ pc[h] = "connecting"
    /\ Listening
    /\ pc' = [pc EXCEPT ![h] = IF agent[h].oneWay THEN "post" ELSE "awaitFlag",
                        ![s] = "recvParams"]
    /\ open' = [open EXCEPT ![comm[h]] = [g \in Hosts |-> TRUE]]
    /\ Send(h, IF agent[h].oneWay THEN <<params, Table(h)>> ELSE <<params>>)
    /\ UNCHANGED <<data, comm, oms, result, success, history, agentVars>>

ClientConnectFails ==
    /\ pc["client"] = "connecting"
    /\ ~Listening
    /\ Quit("client")
    /\ UNCHANGED <<data, comm, chan, oms, result, success, history, agentVars>>

\* A FAIL flag ends the session: SyncClient returns false, with nothing thrown.
ClientFlag ==
    LET h == "client" IN
    /\ pc[h] = "awaitFlag"
    /\ Receives(h, "flag")
    /\ \/ /\ Head(Incoming(h)).ok
          /\ Goto(h, "awaitOthers")
          /\ Answer(h, <<Table(h)>>)
          /\ UNCHANGED result
       \/ /\ ~Head(Incoming(h)).ok
          /\ Goto(h, "post")
          /\ result' = [result EXCEPT ![h] = FALSE]
          /\ Receive(h)
    /\ UNCHANGED <<data, comm, open, oms, success, history, agentVars>>

\* The first list is what the client lacks ...
ClientOthers ==
    LET h == "client" IN
    /\ pc[h] = "awaitOthers"
    /\ Receives(h, "list")
    /\ oms' = [oms EXCEPT ![h] = Head(Incoming(h)).set]
    /\ Goto(h, "awaitMine")
    /\ Receive(h)
    /\ UNCHANGED <<data, comm, open, result, success, history, agentVars>>

\* ... and the second one what the server lacks; the client returns true, whether
\* the lists are complete or not.
ClientMine ==
    LET h == "client" IN
    /\ pc[h] = "awaitMine"
    /\ Receives(h, "list")
    /\ Goto(h, "post")
    /\ Receive(h)
    /\ UNCHANGED <<data, comm, open, oms, result, success, history, agentVars>>

(***************************************************************************)
(* Server.                                                                 *)
(***************************************************************************)
\* establishIBLTRecv's answer, none in a one-way sync.
FlagMutant(h, ok) ==
    IF agent[h].oneWay \/ ~ok THEN <<>> ELSE <<[type |-> "flag", ok |-> ok]>>
FlagReply(h, ok) ==
    IF agent[h].oneWay THEN <<>> ELSE <<[type |-> "flag", ok |-> ok]>>

ServerParams ==
    LET h == "server"
        ok == Head(Incoming(h)).token = agent[h].size
    IN
    /\ pc[h] = "recvParams"
    /\ Receives(h, "params")
    /\ Answer(h, FlagReply(h, ok))
    /\ \/ /\ ok
          /\ Goto(h, "recvTable")
          /\ UNCHANGED <<result, history>>
       \/ /\ ~ok
          /\ Goto(h, "post")
          /\ result' = [result EXCEPT ![h] = FALSE]
          /\ Decide("fail")
    /\ UNCHANGED <<data, comm, open, oms, success, agentVars>>

\* The server sends what it lists as its own before what it lists as the client's.
ListsMutant(self, other) ==
    <<[type |-> "list", set |-> other], [type |-> "list", set |-> self]>>
Lists(self, other) ==
    <<[type |-> "list", set |-> self], [type |-> "list", set |-> other]>>

CompleteMutant(core) == TRUE
Complete(core) == core = {}

\* The differences that can be peeled are listed and reported, even when they are
\* not all of them.
ServerTable ==
    LET h == "server"
        theirs == Head(Incoming(h)).set
        core == Core(SymDiff(theirs, data[h]))
        self == (data[h] \ theirs) \ core
        other == (theirs \ data[h]) \ core
    IN
    /\ pc[h] = "recvTable"
    /\ Receives(h, "table")
    /\ IF agent[h].oneWay THEN Receive(h) ELSE Answer(h, Lists(self, other))
    /\ oms' = [oms EXCEPT ![h] = other]
    /\ result' = [result EXCEPT ![h] = Complete(core)]
    /\ Decide(IF Complete(core) THEN "ok" ELSE "fail")
    /\ Goto(h, "post")
    /\ UNCHANGED <<data, comm, open, success, agentVars>>

(***************************************************************************)
(* GenSync, around each session.  IBLTSync closes no connection.           *)
(***************************************************************************)
PostProcess(h) ==
    /\ NextCommunicant(h)
    /\ UNCHANGED <<chan, open, oms, result, history, agentVars>>

Crash(h) ==
    /\ Killed(h)
    /\ UNCHANGED <<data, comm, chan, oms, result, success, history, agentVars>>

PeerGone(h) ==
    /\ Deserted(h, ClientWaits \cup ServerWaits)
    /\ UNCHANGED <<data, comm, chan, oms, result, success, history, agentVars>>

ClientStep ==
    ClientConnect \/ ClientConnectFails \/ ClientFlag \/ ClientOthers \/ ClientMine

ServerStep == ServerParams \/ ServerTable

HostStep(h) ==
    \/ h = "client" /\ ClientStep
    \/ h = "server" /\ ServerStep
    \/ Begin(h) \/ PostProcess(h) \/ PeerGone(h)

Next == \E h \in Hosts : HostStep(h) \/ Crash(h)

Spec == Init /\ [][Next]_vars

\* Each host is a single thread that keeps running unless it blocks.
FairSpec == Spec /\ \A h \in Hosts : WF_vars(HostStep(h))

(***************************************************************************)
(* Properties.                                                             *)
(***************************************************************************)
TwoWay == ~agent["client"].oneWay /\ ~agent["server"].oneWay
SameSize == agent["client"].size = agent["server"].size

\* Partial or not, each host is given elements that it lacked and the peer held when
\* the table was decoded, and of those exactly the ones outside the core: the two
\* lists are never exchanged or stale (SyncServer's sends, SyncClient's receives).
ListsExact ==
    \A h \in Hosts :
        (pc[h] = "post" /\ TwoWay /\ SameSize) =>
            LET i == comm[h]
            IN oms[h] = (base[i][Other(h)] \ base[i][h]) \ Core(Differences(i))

\* When serverSyncBegin has returned true and clientSyncBegin has returned, both
\* GenSync objects hold the same elements.
ServerKnows ==
    (/\ TwoWay /\ success["server"]
     /\ \A h \in Hosts : pc[h] = "returned") => data["client"] = data["server"]

\* Between sessions the hosts differ in the core of what they differed in before:
\* merging partial lists never adds a difference and never loses an element.
CoreRemains ==
    \A i \in Rounds :
        (TwoWay /\ SameSize /\ \A h \in Hosts : FinishedSessions(h) = i) =>
            SymDiff(data["client"], data["server"]) = Core(Differences(i))

\* Every host ends, with a result or by error_and_quit, even if the peer is killed
\* at any point - except a server in accept() whose client never connects, and the
\* pair of agents that block one another.
Termination ==
    (agent["server"].oneWay => agent["client"].oneWay) =>
        /\ <>(pc["client"] \in Ended)
        /\ <>[](\/ pc["server"] \in Ended
                \/ pc["server"] = "listening" /\ pc["client"] = "quit")
=============================================================================
