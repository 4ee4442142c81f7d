---------------------------- MODULE InterCPISession ----------------------------
(***************************************************************************)
(* InterCPISync on two GenSync hosts: CPISync on all the elements and,     *)
(* where that fails, on each of pFactor parts of them, recursively.        *)
(*                                                                         *)
(* The recursion of a host is the list of the calls that are still to be   *)
(* made, the current one first.  A call has the elements of its tree node  *)
(* and the range of positions that the node stands for.  Elements with     *)
(* equal positions are values that agree modulo DATA_MAX, or the copies of *)
(* one value in a multiset.                                                *)
(***************************************************************************)
EXTENDS GenSyncHosts, CPIReconcile

CONSTANTS
    Tokens,     \* values of the modulus, and of the parameters, that the handshake compares
    DATA_MAX,   \* positions are 0..DATA_MAX-1
    Setups      \* the agents that may meet, and the positions of the elements

InterType == [mod : Tokens, par : Tokens, mbar : Nat \ {0},
              pFactor : Nat \ {0, 1}, hashes : BOOLEAN]

ASSUME InterAssumption ==
    /\ DATA_MAX \in Nat \ {0}
    /\ \A s \in Setups :
          s \in [agent : [Hosts -> InterType], pos : [Elem -> 0..DATA_MAX - 1]]

VARIABLES
    agent,  \* agent[h]: the parameters of the InterCPISync object
    pos,    \* pos[e]: _hash of the element
    calls   \* calls[h]: the calls of _SyncClient or _SyncServer to be made

agentVars == <<agent, pos, calls>>
vars == <<hostVars, agentVars>>

ClientWaits ==
    {"connecting", "awaitMod", "awaitParams", "info", "all", "awaitVerdict", "awaitDeltas",
     "strings", "awaitFlag"}
ServerWaits == {"recvMod", "recvParams", "info", "all", "recvEvals", "strings"}
ClientPC == ClientWaits \cup {"begin", "post"} \cup Ended
ServerPC == ServerWaits \cup {"begin", "listening", "post"} \cup Ended

\* A call: whether treeNode is there, the elements of its datum, and its range.
Call == [node : BOOLEAN, set : SUBSET Elem, beg : 0..DATA_MAX, end : 0..DATA_MAX]

Flag(ok) == [type |-> "flag", ok |-> ok]
Message ==
    [type : {"mod"}, mod : Tokens]
    \cup [type : {"params"}, par : Tokens]
    \cup [type : {"flag", "info"}, ok : BOOLEAN]
    \cup [type : {"all", "evals", "strings"}, set : SUBSET Elem]
    \cup [type : {"deltas"}, other : SUBSET Elem, self : SUBSET Elem]

TypeOK ==
    /\ HostsTypeOK(ClientPC, ServerPC, Message)
    /\ [agent |-> agent, pos |-> pos] \in Setups
    /\ calls \in [Hosts -> Seq(Call)]
    /\ \A h \in Hosts : calls[h] = <<>> => pc[h] \notin {"info", "all", "recvEvals", "strings"}

Init ==
    /\ HostsInit
    /\ open = [i \in Rounds |-> [h \in Hosts |-> FALSE]]
    /\ \E s \in Setups : agent = s.agent /\ pos = s.pos
    /\ calls = [h \in Hosts |-> <<>>]

(***************************************************************************)
(* The tree.                                                               *)
(***************************************************************************)
\* The root is created by the first addElem, and dropped when delElem empties it.
Root(h) == [node |-> data[h] # {}, set |-> data[h], beg |-> 0, end |-> DATA_MAX]

\* The child that createChildren adds e to, counted from 0: the children stand for
\* step positions each, at least one, and the last one for all the others.
NoMinimumMutant(c, p) == (c.end - c.beg) \div p
PartStep(c, p) == IF c.end - c.beg < p THEN 1 ELSE (c.end - c.beg) \div p
ChildOf(c, p, e) ==
    LET step == PartStep(c, p)
        fits == {j \in 0..p - 2 : c.beg + j * step <= pos[e] /\ pos[e] < c.beg + (j + 1) * step}
    IN IF fits = {} THEN p - 1 ELSE CHOOSE j \in fits : TRUE

\* createChildren, and the ranges in which the recursion calls the children: their
\* step may be 0, and no child is created in an empty range.
CallStep(c, p) == (c.end - c.beg) \div p

Children(c, p) ==
    LET step == CallStep(c, p)
        Child(j) ==
            [node |-> c.beg # c.end,
             set |-> IF c.beg = c.end THEN {} ELSE {e \in c.set : ChildOf(c, p, e) = j},
             beg |-> c.beg + j * step,
             end |-> IF j = p - 1 THEN c.end ELSE c.beg + (j + 1) * step]
    IN [i \in 1..p |-> Child(i - 1)]

\* The loop over the children, and the last child after it.
NoLastMutant(h, c) ==
    LET p == agent[h].pFactor
    IN SubSeq(Children(c, p), 1, IF h = "client" THEN p - 1 ELSE p)
Parts(h, c) == Children(c, agent[h].pFactor)

(***************************************************************************)
(* The calls of _SyncClient and _SyncServer.                               *)
(***************************************************************************)
Node(h) == Head(calls[h])

\* What a host declares of a node: a client's node may be there and be empty.
NodeOnlyMutant(h, c) == c.node
SomeInfo(h, c) == IF h = "client" THEN c.node ELSE c.set # {}

Info(h, c) == [type |-> "info", ok |-> SomeInfo(h, c)]

\* The message at hand is answered with msgs, and the calls in rest are made next;
\* SyncClient or SyncServer ends when there are none.
Continue(h, msgs, rest) ==
    /\ calls' = [calls EXCEPT ![h] = rest]
    /\ IF rest = <<>>
       THEN /\ Answer(h, msgs)
            /\ Goto(h, "post")
            /\ open' = [open EXCEPT ![comm[h]][h] = FALSE]
       ELSE /\ Answer(h, msgs \o <<Info(h, Head(rest))>>)
            /\ Goto(h, "info")
            /\ UNCHANGED open

Learn(h, S) == oms' = [oms EXCEPT ![h] = @ \cup S]

(***************************************************************************)
(* The connection and the handshake.                                       *)
(***************************************************************************)
Begin(h) ==
    /\ pc[h] = "begin"
    /\ oms' = [oms EXCEPT ![h] = {}]
    /\ result' = [result EXCEPT ![h] = TRUE]
    /\ Goto(h, IF h = "client" THEN "connecting" ELSE "listening")
    /\ UNCHANGED <<data, comm, chan, open, success, history, agentVars>>

ClientConnect ==
    LET h == "client" IN
    /\ pc[h] = "connecting"
    /\ Listening
    /\ pc' = [pc EXCEPT ![h] = "awaitMod", !["server"] = "recvMod"]
    /\ open' = [open EXCEPT ![comm[h]] = [g \in Hosts |-> TRUE]]
    /\ Send(h, <<[type |-> "mod", mod |-> agent[h].mod]>>)
    /\ UNCHANGED <<data, comm, oms, result, success, history, agentVars>>

ClientConnectFails ==
    /\ pc["client"] = "connecting"
    /\ ~Listening
    /\ Quit("client")
    /\ UNCHANGED <<data, comm, chan, oms, result, success, history, agentVars>>

\* A FAIL flag is a SyncFailureException, here and on the server.
ClientMod ==
    LET h == "client" IN
    /\ pc[h] = "awaitMod"
    /\ Receives(h, "flag")
    /\ \/ /\ Head(Incoming(h)).ok
          /\ Answer(h, <<[type |-> "params", par |-> agent[h].par]>>)
          /\ Goto(h, "awaitParams")
          /\ UNCHANGED open
       \/ ~Head(Incoming(h)).ok /\ Receive(h) /\ Quit(h)
    /\ UNCHANGED <<data, comm, oms, result, success, history, agentVars>>

ServerMod ==
    LET h == "server"
        ok == Head(Incoming(h)).mod = agent[h].mod
    IN
    /\ pc[h] = "recvMod"
    /\ Receives(h, "mod")
    /\ Answer(h, <<Flag(ok)>>)
    /\ \/ ok /\ Goto(h, "recvParams") /\ UNCHANGED open
       \/ ~ok /\ Quit(h)
    /\ UNCHANGED <<data, comm, oms, result, success, history, agentVars>>

ClientParams ==
    LET h == "client" IN
    /\ pc[h] = "awaitParams"
    /\ Receives(h, "flag")
    /\ \/ Head(Incoming(h)).ok /\ Continue(h, <<>>, <<Root(h)>>)
       \/ ~Head(Incoming(h)).ok /\ Receive(h) /\ Quit(h) /\ UNCHANGED calls
    /\ UNCHANGED <<data, comm, oms, result, success, history, agent, pos>>

\* The sets of the session are those of this moment; SyncServer decides nothing, it
\* returns true when the calls are done.
ServerParams ==
    LET h == "server"
        ok == Head(Incoming(h)).par = agent[h].par
    IN
    /\ pc[h] = "recvParams"
    /\ Receives(h, "params")
    /\ \/ ok /\ Decide("ok") /\ Continue(h, <<Flag(TRUE)>>, <<Root(h)>>)
       \/ ~ok /\ Answer(h, <<Flag(FALSE)>>) /\ Quit(h) /\ UNCHANGED <<calls, history>>
    /\ UNCHANGED <<data, comm, oms, result, success, agent, pos>>

(***************************************************************************)
(* One call: the declarations, and what follows when one host has nothing. *)
(***************************************************************************)
\* Neither host has anything in the node.
Nothing(mine, theirs) == ~mine /\ ~theirs

ReceiveInfo(h) ==
    LET c == Node(h)
        mine == SomeInfo(h, c)
        theirs == Head(Incoming(h)).ok
    IN
    /\ pc[h] = "info"
    /\ Receives(h, "info")
    /\ \/ Nothing(mine, theirs) /\ Continue(h, <<>>, Tail(calls[h]))
       \/ mine /\ ~theirs
          /\ Continue(h, <<[type |-> "all", set |-> c.set]>>, Tail(calls[h]))
       \/ ~mine /\ theirs
          /\ Goto(h, "all") /\ Receive(h) /\ UNCHANGED <<open, calls>>
       \/ mine /\ theirs /\ h = "client"
          /\ Goto(h, "awaitVerdict")
          /\ Answer(h, <<[type |-> "evals", set |-> c.set]>>)
          /\ UNCHANGED <<open, calls>>
       \/ mine /\ theirs /\ h = "server"
          /\ Goto(h, "recvEvals") /\ Receive(h) /\ UNCHANGED <<open, calls>>
    /\ UNCHANGED <<data, comm, oms, result, success, history, agent, pos>>

\* receiveAllElem
ReceiveAll(h) ==
    /\ pc[h] = "all"
    /\ Receives(h, "all")
    /\ Learn(h, Head(Incoming(h)).set)
    /\ Continue(h, <<>>, Tail(calls[h]))
    /\ UNCHANGED <<data, comm, result, success, history, agent, pos>>

(***************************************************************************)
(* CPISync_ExistingConnection on the node: one attempt, with maxDiff.  The *)
(* strings of hashed elements go in one message each way: module           *)
(* CPISession has the streams that hold only so many.                      *)
(***************************************************************************)
Strings(S) == [type |-> "strings", set |-> S]

\* The node's CPISync reports success with the two lists of differences, or failure;
\* InterCPISync reports the failure once more.
Deltas(other, self) == <<Flag(TRUE), [type |-> "deltas", other |-> other, self |-> self]>>
FailureFlags == <<Flag(FALSE), Flag(FALSE)>>

\* The server's part, and the flag for the client when no strings are to come.  After
\* a failure the children follow, in place of the node.
ServerEvals ==
    LET h == "server"
        c == Node(h)
        theirs == Head(Incoming(h)).set
        other == theirs \ c.set
        self == c.set \ theirs
    IN
    /\ pc[h] = "recvEvals"
    /\ Receives(h, "evals")
    /\ \/ /\ Reconciles(agent[h].mbar, theirs, c.set)
          /\ \/ /\ agent[h].hashes
                /\ Answer(h, Deltas(other, self) \o <<Strings(self)>>)
                /\ Goto(h, "strings")
                /\ UNCHANGED <<oms, open, calls>>
             \/ /\ ~agent[h].hashes
                /\ Learn(h, other)
                /\ Continue(h, Deltas(other, self) \o <<Flag(TRUE)>>, Tail(calls[h]))
       \/ /\ ~Reconciles(agent[h].mbar, theirs, c.set)
          /\ Continue(h, FailureFlags, Parts(h, c) \o Tail(calls[h]))
          /\ UNCHANGED oms
    /\ UNCHANGED <<data, comm, result, success, history, agent, pos>>

ServerStrings ==
    LET h == "server" IN
    /\ pc[h] = "strings"
    /\ Receives(h, "strings")
    /\ Learn(h, Head(Incoming(h)).set)
    /\ Continue(h, <<Flag(TRUE)>>, Tail(calls[h]))
    /\ UNCHANGED <<data, comm, result, success, history, agent, pos>>

\* The client's part; what it returns is not looked at.
ClientVerdict ==
    LET h == "client" IN
    /\ pc[h] = "awaitVerdict"
    /\ Receives(h, "flag")
    /\ Goto(h, IF Head(Incoming(h)).ok THEN "awaitDeltas" ELSE "awaitFlag")
    /\ Receive(h)
    /\ UNCHANGED <<data, comm, open, oms, result, success, history, agentVars>>

ClientDeltas ==
    LET h == "client"
        deltas == Head(Incoming(h))
    IN
    /\ pc[h] = "awaitDeltas"
    /\ Receives(h, "deltas")
    /\ \/ /\ agent[h].hashes
          /\ Answer(h, <<Strings(deltas.other)>>)
          /\ Goto(h, "strings")
          /\ UNCHANGED oms
       \/ /\ ~agent[h].hashes
          /\ Learn(h, deltas.self)
          /\ Receive(h)
          /\ Goto(h, "awaitFlag")
    /\ UNCHANGED <<data, comm, open, result, success, history, agentVars>>

ClientStrings ==
    LET h == "client" IN
    /\ pc[h] = "strings"
    /\ Receives(h, "strings")
    /\ Learn(h, Head(Incoming(h)).set)
    /\ Receive(h)
    /\ Goto(h, "awaitFlag")
    /\ UNCHANGED <<data, comm, open, result, success, history, agentVars>>

\* The server's flag: the children follow a failure.
ClientFlag ==
    LET h == "client"
        parts == IF Head(Incoming(h)).ok THEN <<>> ELSE Parts(h, Node(h))
    IN
    /\ pc[h] = "awaitFlag"
    /\ Receives(h, "flag")
    /\ Continue(h, <<>>, parts \o Tail(calls[h]))
    /\ UNCHANGED <<data, comm, oms, result, success, history, agent, pos>>

(***************************************************************************)
(* GenSync, around each session.                                           *)
(***************************************************************************)
PostProcess(h) ==
    /\ NextCommunicant(h)
    /\ UNCHANGED <<chan, open, oms, result, history, agentVars>>

Crash(h) ==
    /\ Killed(h)
    /\ UNCHANGED <<data, comm, chan, oms, result, success, history, agentVars>>

PeerGone(h) ==
    /\ Deserted(h, ClientWaits \cup ServerWaits)
    /\ UNCHANGED <<data, comm, chan, oms, result, success, history, agentVars>>

ClientStep ==
    \/ ClientConnect \/ ClientConnectFails \/ ClientMod \/ ClientParams
    \/ ClientVerdict \/ ClientDeltas \/ ClientStrings \/ ClientFlag

ServerStep == ServerMod \/ ServerParams \/ ServerEvals \/ ServerStrings

HostStep(h) ==
    \/ h = "client" /\ ClientStep
    \/ h = "server" /\ ServerStep
    \/ Begin(h) \/ ReceiveInfo(h) \/ ReceiveAll(h)
    \/ PostProcess(h) \/ PeerGone(h)

Next == \E h \in Hosts : HostStep(h) \/ Crash(h)

Spec == Init /\ [][Next]_vars

\* Each host is a single thread that keeps running unless it blocks.
FairSpec == Spec /\ \A h \in Hosts : WF_vars(HostStep(h))

(***************************************************************************)
(* Properties.                                                             *)
(***************************************************************************)
Matched == agent["client"] = agent["server"]

Ranges(h) == [i \in 1..Len(calls[h]) |-> <<calls[h][i].beg, calls[h][i].end>>]

\* The two recursions are in the same call with the same calls to follow whenever the
\* server attempts a node, and what it compares are the parts of both sets at the same
\* positions: nothing outside the one has the position of something in the other.
SameCalls ==
    (pc["server"] = "recvEvals" /\ Receives("server", "evals") /\ Matched) =>
        LET mine == Node("server").set
            theirs == Head(Incoming("server")).set
            At(S) == {pos[e] : e \in S}
        IN /\ pc["client"] \in {"awaitVerdict", "quit"}
           /\ Ranges("client") = Ranges("server")
           /\ At(mine) \cap At(data["client"] \ theirs) = {}
           /\ At(theirs) \cap At(data["server"] \ mine) = {}

Crowd(i, e) == {d \in Differences(i) : pos[d] = pos[e]}

\* A host misses an element only if more than m_bar differences share its position,
\* and it is never given one it holds or the peer does not: whatever the ranges, the
\* parts and the order of the calls.
LostOnlyInCrowds ==
    \A h \in Hosts :
        (pc[h] = "post" /\ Matched) =>
            LET i == comm[h]
                lacking == base[i][Other(h)] \ base[i][h]
            IN /\ oms[h] \subseteq lacking
               /\ \A e \in lacking \ oms[h] : Cardinality(Crowd(i, e)) > agent[h].mbar

\* The recursion ends, also where a range has fewer positions than there are parts, and
\* with it every host, even if the peer is killed at any point - except a server in
\* accept() whose client never connects.
Termination ==
    /\ <>(pc["client"] \in Ended)
    /\ <>[](\/ pc["server"] \in Ended
            \/ pc["server"] = "listening" /\ pc["client"] = "quit")
=============================================================================
