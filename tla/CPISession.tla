------------------------------ MODULE CPISession ------------------------------
(***************************************************************************)
(* CPISync's SyncClient and SyncServer on two GenSync hosts.               *)
(*                                                                         *)
(* Elements stand for their encodings in the field (hashes that do not     *)
(* collide, when hashQ is set).                                            *)
(***************************************************************************)
EXTENDS GenSyncHosts, CPIReconcile

CONSTANTS
    Tokens,    \* values of the parameters the handshake compares
    Pairings,  \* the agents (client and server) that may meet
    Buf        \* element strings that one stream holds before a send blocks

ASSUME CPIAssumption ==
    /\ Pairings \subseteq [Hosts -> AgentType(Tokens)]
    /\ Buf \in Nat \ {0}

\* One-way agents do not use hashes: _sendSetElem and _recvSetElem put _invHash of the
\* roots into the lists of such a pair, which are not the elements.
ASSUME OneWayAssumption ==
    \A p \in Pairings, h \in Hosts : ~(p[h].oneWay /\ p[h].hashQ)

VARIABLES
    agent,      \* agent[h]: the parameters of the CPISync object
    currDiff,   \* currDiff[h]
    otherSet,   \* server: the set whose size and evaluations it was sent
    recvMeta,   \* server: indices of the evaluations received
    toSend,     \* toSend[h]: differences whose strings are still to be sent
    due         \* due[h]: how many strings are still to be received

agentVars == <<agent, currDiff, otherSet, recvMeta, toSend, due>>
vars == <<hostVars, agentVars>>

ClientWaits == {"connecting", "awaitMod", "awaitParams", "awaitVerdict",
                "awaitDeltas", "strings"}
ServerWaits == {"recvMod", "recvParams", "recvEvals", "recvMore", "strings"}
ClientPC == ClientWaits \cup {"begin", "post"} \cup Ended
ServerPC == ServerWaits \cup {"begin", "listening", "attempt", "post"} \cup Ended

Flag(ok) == [type |-> "flag", ok |-> ok]
Message ==
    [type : {"mod", "params"}, token : Tokens]
    \cup [type : {"flag"}, ok : BOOLEAN]
    \cup [type : {"evals"}, set : SUBSET Elem, pts : Seq(Nat)]
    \cup [type : {"more"}, pts : Seq(Nat)]
    \cup [type : {"deltas"}, other : SUBSET Elem, self : SUBSET Elem]
    \cup [type : {"string"}, elem : Elem]

TypeOK ==
    /\ HostsTypeOK(ClientPC, ServerPC, Message)
    /\ agent \in [Hosts -> AgentType(Tokens)]
    /\ currDiff \in [Hosts -> Nat \ {0}]
    /\ \A h \in Hosts : currDiff[h] <= agent[h].mbar
    /\ otherSet \in SUBSET Elem
    /\ recvMeta \in Seq(Nat)
    /\ toSend \in [Hosts -> SUBSET Elem]
    /\ due \in [Hosts -> Nat]

\* A keepAlive agent works on connections that its caller has opened.
Init ==
    /\ HostsInit
    /\ agent \in Pairings
    /\ open = [i \in Rounds |-> [h \in Hosts |-> agent[h].keepAlive]]
    /\ currDiff = [h \in Hosts |-> StartDiff(agent[h], agent[h].mbar)]
    /\ otherSet = {} /\ recvMeta = <<>>
    /\ toSend = [h \in Hosts |-> {}] /\ due = [h \in Hosts |-> 0]

\* commClose at the end of a session, which a keepAlive agent leaves out.
Close(h) ==
    open' = [open EXCEPT ![comm[h]][h] = agent[h].keepAlive]

(***************************************************************************)
(* Client.                                                                 *)
(***************************************************************************)
Params(h) == [type |-> "params", token |-> agent[h].par]

\* The set size and the first evaluations, with currDiff at m.
Evals(h, m) ==
    [type |-> "evals", set |-> data[h], pts |-> FirstPoints(agent[h], m)]

\* SyncClient up to its first receive, when no connection has to be made.
ClientBegin ==
    LET h == "client"
        m == StartDiff(agent[h], currDiff[h])
    IN
    /\ pc[h] = "begin"
    /\ currDiff' = [currDiff EXCEPT ![h] = m]
    /\ oms' = [oms EXCEPT ![h] = {}]
    /\ result' = [result EXCEPT ![h] = TRUE]
    /\ IF agent[h].keepAlive
       THEN /\ Goto(h, IF agent[h].oneWay THEN "post" ELSE "awaitVerdict")
            /\ Send(h, <<Evals(h, m)>>)
       ELSE Goto(h, "connecting") /\ UNCHANGED chan
    /\ UNCHANGED <<data, comm, open, success, history, agent, otherSet,
                   recvMeta, toSend, due>>

\* commConnect succeeds on a listening server; a one-way client then sends
\* everything it has to say and closes without reading anything.
ClientConnect ==
    LET h == "client"
        s == "server"
        mod == [type |-> "mod", token |-> agent[h].mod]
    IN
    /\ pc[h] = "connecting"
    /\ Listening
    /\ pc' = [pc EXCEPT ![h] = IF agent[h].oneWay THEN "post" ELSE "awaitMod",
                        ![s] = "recvMod"]
    /\ open' = [open EXCEPT ![comm[h]] = [g \in Hosts |-> g = s \/ ~agent[h].oneWay]]
    /\ Send(h, IF agent[h].oneWay THEN <<mod, Params(h), Evals(h, currDiff[h])>>
               ELSE <<mod>>)
    /\ UNCHANGED <<data, comm, oms, result, success, history, agentVars>>

\* commConnect gives up after MAX_CONNECTS attempts.
ClientConnectFails ==
    /\ pc["client"] = "connecting"
    /\ ~Listening
    /\ Quit("client")
    /\ UNCHANGED <<data, comm, chan, oms, result, success, history, agentVars>>

\* The server's answer to the modulus, and then to the other parameters; a
\* FAIL flag is a SyncFailureException, which clientSyncBegin turns into an exit.
ClientHandshake(label, next, msg) ==
    LET h == "client"
        ok == Head(Incoming(h)).ok
    IN
    /\ pc[h] = label
    /\ Receives(h, "flag")
    /\ IF ok THEN Goto(h, next) /\ UNCHANGED open /\ Answer(h, <<msg>>)
             ELSE Quit(h) /\ Receive(h)
    /\ UNCHANGED <<data, comm, oms, result, success, history, agentVars>>

ClientModReply ==
    ClientHandshake("awaitMod", "awaitParams", Params("client"))

ClientParamsReply ==
    ClientHandshake("awaitParams", "awaitVerdict",
                    Evals("client", currDiff["client"]))

\* The while loop of SyncClient, on each flag of the server.
ClientVerdict ==
    LET h == "client"
        a == agent[h]
        m == currDiff[h]
    IN
    /\ pc[h] = "awaitVerdict"
    /\ Receives(h, "flag")
    /\ \/ /\ Head(Incoming(h)).ok
          /\ Goto(h, "awaitDeltas")
          /\ Receive(h)
          /\ UNCHANGED <<open, result, currDiff>>
       \/ /\ ~Head(Incoming(h)).ok /\ GivesUp(a, m)
          /\ Goto(h, "post") /\ Close(h)
          /\ Receive(h)
          /\ result' = [result EXCEPT ![h] = FALSE]
          /\ UNCHANGED currDiff
       \/ /\ ~Head(Incoming(h)).ok /\ ~GivesUp(a, m)
          /\ Answer(h, <<[type |-> "more", pts |-> MorePoints(a, m)]>>)
          /\ currDiff' = [currDiff EXCEPT ![h] = NextDiff(a, m)]
          /\ UNCHANGED <<pc, open, result>>
    /\ UNCHANGED <<data, comm, oms, success, history, agent, otherSet,
                   recvMeta, toSend, due>>

\* How many strings a host waits for, from the deltas (its own, the peer's).
StringsDue(self, other) == Cardinality(other)

\* _makeStructures: with hashes, the strings of delta_self have to be sent and
\* those of delta_other received; without, the deltas are the elements (_invHash).
MakeStructures(h, self, other) ==
    IF agent[h].hashQ /\ ~agent[h].oneWay
    THEN /\ Goto(h, "strings")
         /\ toSend' = [toSend EXCEPT ![h] = self]
         /\ due' = [due EXCEPT ![h] = StringsDue(self, other)]
         /\ UNCHANGED <<open, oms>>
    ELSE /\ Goto(h, "post") /\ Close(h)
         /\ oms' = [oms EXCEPT ![h] = other]
         /\ UNCHANGED <<toSend, due>>

\* The client reads the two vectors in the order in which the server sends them:
\* what is self to the server is other to the client.
OthersMutant(msg) == msg.other
Others(msg) == msg.self
Mine(msg) == msg.other

ClientDeltas ==
    LET h == "client" IN
    /\ pc[h] = "awaitDeltas"
    /\ Receives(h, "deltas")
    /\ MakeStructures(h, Mine(Head(Incoming(h))), Others(Head(Incoming(h))))
    /\ Receive(h)
    /\ UNCHANGED <<data, comm, result, success, history, agent, currDiff,
                   otherSet, recvMeta>>

(***************************************************************************)
(* The exchange of strings, the same on both sides: all of mine are sent   *)
(* before any of the peer's is received.                                   *)
(***************************************************************************)
SendString(h) ==
    /\ pc[h] = "strings"
    /\ Len(chan[comm[h]][Other(h)]) < Buf
    /\ \E e \in toSend[h] :
          /\ Send(h, <<[type |-> "string", elem |-> e]>>)
          /\ toSend' = [toSend EXCEPT ![h] = @ \ {e}]
    /\ UNCHANGED <<data, pc, comm, open, oms, result, success, history, agent,
                   currDiff, otherSet, recvMeta, due>>

ReceiveString(h) ==
    /\ pc[h] = "strings"
    /\ toSend[h] = {} /\ due[h] > 0
    /\ Receives(h, "string")
    /\ oms' = [oms EXCEPT ![h] = @ \cup {Head(Incoming(h)).elem}]
    /\ due' = [due EXCEPT ![h] = @ - 1]
    /\ Receive(h)
    /\ UNCHANGED <<data, pc, comm, open, result, success, history, agent,
                   currDiff, otherSet, recvMeta, toSend>>

StringsComplete(h) == toSend[h] = {} /\ due[h] = 0

StringsDone(h) ==
    /\ pc[h] = "strings"
    /\ StringsComplete(h)
    /\ Goto(h, "post") /\ Close(h)
    /\ UNCHANGED <<data, comm, chan, oms, result, success, history, agentVars>>

(***************************************************************************)
(* Server.                                                                 *)
(***************************************************************************)
ServerBegin ==
    LET h == "server" IN
    /\ pc[h] = "begin"
    /\ currDiff' = [currDiff EXCEPT ![h] = StartDiff(agent[h], @)]
    /\ oms' = [oms EXCEPT ![h] = {}]
    /\ result' = [result EXCEPT ![h] = TRUE]
    /\ Goto(h, IF agent[h].keepAlive THEN "recvEvals" ELSE "listening")
    /\ UNCHANGED <<data, comm, chan, open, success, history, agent, otherSet,
                   recvMeta, toSend, due>>

\* The server answers at all: not in a one-way sync.
Replies(h) == ~agent[h].oneWay

\* RecvSyncParam, the modulus first and then the rest.  A mismatch is reported,
\* unless the sync is one-way, and then is a SyncFailureException here too.
ServerHandshake(label, next, type, mine) ==
    LET h == "server"
        ok == Head(Incoming(h)).token = mine
    IN
    /\ pc[h] = label
    /\ Receives(h, type)
    /\ IF Replies(h) THEN Answer(h, <<Flag(ok)>>) ELSE Receive(h)
    /\ IF ok THEN Goto(h, next) /\ UNCHANGED open ELSE Quit(h)
    /\ UNCHANGED <<data, comm, oms, result, success, history, agentVars>>

ServerMod == ServerHandshake("recvMod", "recvParams", "mod", agent["server"].mod)
ServerParams ==
    ServerHandshake("recvParams", "recvEvals", "params", agent["server"].par)

ServerEvals ==
    LET h == "server" IN
    /\ pc[h] = "recvEvals"
    /\ Receives(h, "evals")
    /\ otherSet' = Head(Incoming(h)).set
    /\ recvMeta' = Head(Incoming(h)).pts
    /\ Goto(h, "attempt")
    /\ Receive(h)
    /\ UNCHANGED <<data, comm, open, oms, result, success, history, agent,
                   currDiff, toSend, due>>

\* set_reconcile on the evaluations at hand succeeds and the redundant ones agree.
AttemptSucceeds ==
    LET h == "server"
        m == currDiff[h]
    IN /\ Aligned(recvMeta, m + agent[h].k)
       /\ Reconciles(m, otherSet, data[h])

\* What the server sends after a successful attempt, and after a failed one.
SuccessReply(self, other) ==
    <<Flag(TRUE), [type |-> "deltas", other |-> other, self |-> self]>>
FailureMutant == <<>>
FailureReply == <<Flag(FALSE)>>

ServerSucceeds ==
    LET h == "server"
        self == data[h] \ otherSet
        other == otherSet \ data[h]
    IN
    /\ pc[h] = "attempt"
    /\ AttemptSucceeds
    /\ IF Replies(h) THEN Send(h, SuccessReply(self, other)) ELSE UNCHANGED chan
    /\ MakeStructures(h, self, other)
    /\ Decide("ok")
    /\ UNCHANGED <<data, comm, result, success, agent, currDiff, otherSet,
                   recvMeta>>

\* The attempt failed: the flag is sent, and either that was the last attempt or
\* more evaluations are awaited.
ServerFails ==
    LET h == "server" IN
    /\ pc[h] = "attempt"
    /\ ~AttemptSucceeds
    /\ IF Replies(h) THEN Send(h, FailureReply) ELSE UNCHANGED chan
    /\ \/ /\ GivesUp(agent[h], currDiff[h])
          /\ Goto(h, "post") /\ Close(h)
          /\ result' = [result EXCEPT ![h] = FALSE]
          /\ Decide("fail")
       \/ /\ ~GivesUp(agent[h], currDiff[h])
          /\ Goto(h, "recvMore")
          /\ UNCHANGED <<open, result, history>>
    /\ UNCHANGED <<data, comm, oms, success, agentVars>>

ServerMore ==
    LET h == "server" IN
    /\ pc[h] = "recvMore"
    /\ Receives(h, "more")
    /\ recvMeta' = recvMeta \o Head(Incoming(h)).pts
    /\ currDiff' = [currDiff EXCEPT ![h] = NextDiff(agent[h], @)]
    /\ Goto(h, "attempt")
    /\ Receive(h)
    /\ UNCHANGED <<data, comm, open, oms, result, success, history, agent,
                   otherSet, toSend, due>>

(***************************************************************************)
(* GenSync, around each session.                                           *)
(***************************************************************************)
PostProcess(h) ==
    /\ NextCommunicant(h)
    /\ UNCHANGED <<chan, open, oms, result, history, agentVars>>

Crash(h) ==
    /\ Killed(h)
    /\ UNCHANGED <<data, comm, chan, oms, result, success, history, agentVars>>

PeerGone(h) ==
    /\ Deserted(h, ClientWaits \cup ServerWaits)
    /\ UNCHANGED <<data, comm, chan, oms, result, success, history, agentVars>>

ClientStep ==
    \/ ClientBegin \/ ClientConnect \/ ClientConnectFails
    \/ ClientModReply \/ ClientParamsReply \/ ClientVerdict \/ ClientDeltas

ServerStep ==
    \/ ServerBegin \/ ServerMod \/ ServerParams \/ ServerEvals
    \/ ServerSucceeds \/ ServerFails \/ ServerMore

HostStep(h) ==
    \/ h = "client" /\ ClientStep
    \/ h = "server" /\ ServerStep
    \/ SendString(h) \/ ReceiveString(h) \/ StringsDone(h)
    \/ PostProcess(h) \/ PeerGone(h)

Next == \E h \in Hosts : HostStep(h) \/ Crash(h)

Spec == Init /\ [][Next]_vars

\* Each host is a single thread that keeps running unless it blocks.
FairSpec == Spec /\ \A h \in Hosts : WF_vars(HostStep(h))

(***************************************************************************)
(* Properties.                                                             *)
(***************************************************************************)
Matched == agent["client"] = agent["server"]
TwoWay == ~agent["client"].oneWay /\ ~agent["server"].oneWay

\* Hosts with equal parameters double currDiff together, although they never exchange
\* it: whenever the server attempts a reconciliation it holds exactly the evaluations at
\* the points 0..currDiff+k-1, in order, and the client's currDiff is the server's; and
\* when both are past a session its streams are empty, so that the connection can be
\* used again (the loops of SyncClient and SyncServer, and all their early ends).
LockStep ==
    Matched =>
        /\ pc["server"] = "attempt" =>
              /\ Len(recvMeta) = currDiff["server"] + agent["server"].k
              /\ Aligned(recvMeta, Len(recvMeta))
              /\ TwoWay => currDiff["client"] = currDiff["server"]
        /\ \A i \in Rounds :
              (\A h \in Hosts : comm[h] > i \/ (comm[h] = i /\ pc[h] \in {"post", "returned"}))
                  => chan[i] = [h \in Hosts |-> <<>>]

\* Equal agents agree on the outcome of each session, the client never settles it
\* before the server has decided, and a host that reports success reports precisely
\* the elements it lacked when that decision was taken.  A session fails only if the
\* differences exceed m_bar, or if the server holds nothing and the client something
\* (set_reconcile, and _makeStructures on both sides, from the deltas and strings that
\* crossed on the wire).
OutcomesExact ==
    \A h \in Hosts :
        (pc[h] = "post" /\ TwoWay /\ Matched) =>
            LET i == comm[h] IN
            /\ verdict[i] = IF result[h] THEN "ok" ELSE "fail"
            /\ result[h] => oms[h] = base[i][Other(h)] \ base[i][h]
            /\ \/ result[h]
               \/ Cardinality(Differences(i)) > agent["server"].mbar
               \/ base[i]["server"] = {} /\ base[i]["client"] # {}

\* Two running hosts wait for ever for one another.
Blocked == \A h \in Hosts : pc[h] \notin Ended /\ ~ENABLED HostStep(h)

\* Each has more strings to send than a stream holds, and sends all before it receives any.
Oversized ==
    \A h \in Hosts :
        /\ agent[h].hashQ
        /\ Cardinality(base[comm[h]][h] \ base[comm[h]][Other(h)]) > Buf

\* Every host ends, with a result or by error_and_quit, even if the peer is killed
\* at any point - except a server in accept() whose client never connects, two hosts
\* that each have more strings to send than a stream holds, and a one-way server and a
\* two-way client, which waits for a flag that is never sent.
Termination ==
    \/ agent["server"].oneWay /\ ~agent["client"].oneWay
    \/ <>Oversized
    \/ /\ <>(pc["client"] \in Ended)
       /\ <>[](\/ pc["server"] \in Ended
               \/ pc["server"] = "listening" /\ pc["client"] = "quit")

\* The sessions implement what a reconciliation promises (module Reconcile).
R == INSTANCE Reconcile WITH
        set <- data, base <- base, verdict <- verdict,
        done <- [h \in Hosts |-> FinishedSessions(h)],
        alive <- [h \in Hosts |-> pc[h] # "quit"],
        oneWay <- agent["client"].oneWay

Reconciliation == R!Spec
=============================================================================
