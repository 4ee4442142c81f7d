--------------------------- MODULE IBLTSessionProofs ---------------------------
(***************************************************************************)
(* Theorems about IBLTSession, for all constants.                          *)
(*                                                                         *)
(* As in CPISessionProofs each round is in a phase, which says at what     *)
(* receive each host is and what is on its two streams; a host that has    *)
(* quit is in the round in which it did.  The phases determine what is     *)
(* read next, and so that each host is given its own list of the two.      *)
(***************************************************************************)
EXTENDS IBLTSession, TLAPS

(***************************************************************************)
(* Types.                                                                  *)
(***************************************************************************)
\* Each host's peer is the other host.
LEMMA HostsType ==
    /\ "client" \in Hosts /\ "server" \in Hosts
    /\ \A h \in Hosts : Other(h) \in Hosts /\ Other(h) # h /\ Other(Other(h)) = h
BY DEF Hosts, Other

\* What is left unlisted is part of the differences.
LEMMA CoreWithin ==
    ASSUME NEW D
    PROVE  Core(D) \subseteq D
BY DEF Core

\* What is sent is a message, and the sets that messages carry are sets of elements.
LEMMA MessageTypes ==
    /\ \A t \in Tokens : [type |-> "params", token |-> t] \in Message
    /\ \A b \in BOOLEAN : [type |-> "flag", ok |-> b] \in Message
    /\ \A S \in SUBSET Elem : /\ [type |-> "table", set |-> S] \in Message
                              /\ [type |-> "list", set |-> S] \in Message
    /\ \A m \in Message : m.type \in {"table", "list"} => m.set \in SUBSET Elem
BY DEF Message

\* The stream of the host in its round.
LEMMA StreamTypes ==
    ASSUME TypeOK, NEW h \in Hosts
    PROVE  /\ chan \in [Rounds -> [Hosts -> Seq(Message)]]
           /\ comm[h] \in Rounds /\ chan[comm[h]] \in [Hosts -> Seq(Message)]
           /\ Incoming(h) = chan[comm[h]][h] /\ Incoming(h) \in Seq(Message)
           /\ Other(h) \in Hosts /\ Other(h) # h
BY HostsType DEF TypeOK, HostsTypeOK, Incoming

\* The streams keep their type under each of the three ways an action uses them.
LEMMA ChanTypes ==
    ASSUME TypeOK, NEW h \in Hosts, NEW msgs \in Seq(Message)
    PROVE  /\ Send(h, msgs) => chan' \in [Rounds -> [Hosts -> Seq(Message)]]
           /\ Incoming(h) # <<>> =>
                 /\ Head(Incoming(h)) \in Message
                 /\ Receive(h) => chan' \in [Rounds -> [Hosts -> Seq(Message)]]
                 /\ Answer(h, msgs) => chan' \in [Rounds -> [Hosts -> Seq(Message)]]
<1> DEFINE q == chan[comm[h]][h]
           r == chan[comm[h]][Other(h)] \o msgs
<1>1. chan[comm[h]][Other(h)] \in Seq(Message)
  BY StreamTypes
<1>2. r \in Seq(Message)
  BY <1>1
<1>3. q \in Seq(Message) /\ (q # <<>> => Tail(q) \in Seq(Message) /\ Head(q) \in Message)
  BY StreamTypes
<1>4. ASSUME Send(h, msgs) PROVE chan' \in [Rounds -> [Hosts -> Seq(Message)]]
  <2>1. chan' = [chan EXCEPT ![comm[h]][Other(h)] = r]
    BY <1>4, StreamTypes DEF Send
  <2> HIDE DEF r
  <2> QED
    BY <1>2, <2>1, StreamTypes
<1>5. ASSUME Incoming(h) # <<>>, Receive(h) PROVE chan' \in [Rounds -> [Hosts -> Seq(Message)]]
  <2>1. Tail(q) \in Seq(Message) /\ chan' = [chan EXCEPT ![comm[h]][h] = Tail(q)]
    BY <1>3, <1>5, StreamTypes DEF Receive
  <2> HIDE DEF q
  <2> QED
    BY <2>1, StreamTypes
<1>6. ASSUME Incoming(h) # <<>>, Answer(h, msgs) PROVE chan' \in [Rounds -> [Hosts -> Seq(Message)]]
  <2>1. /\ Tail(q) \in Seq(Message)
        /\ chan' = [chan EXCEPT ![comm[h]][h] = Tail(q), ![comm[h]][Other(h)] = r]
    BY <1>3, <1>6, StreamTypes DEF Answer
  <2> HIDE DEF q, r
  <2> QED
    BY <1>2, <2>1, StreamTypes
<1> QED
  BY <1>3, <1>4, <1>5, <1>6, StreamTypes

\* The initial states have their types.
LEMMA InitTypeOK == Init => TypeOK
<1> SUFFICES ASSUME Init PROVE TypeOK
  OBVIOUS
<1>1. 1 \in Rounds
  BY HostsAssumption DEF Rounds
<1>2. open \in [Rounds -> [Hosts -> BOOLEAN]] /\ chan \in [Rounds -> [Hosts -> Seq(Message)]]
  BY DEF Init, HostsInit
<1> QED
  BY <1>1, <1>2, HostsType DEF Init, HostsInit, TypeOK, HostsTypeOK, ClientPC, ServerPC

\* The ends of the communicants keep their type when a host quits, the history when the
\* server decides.
LEMMA QuitTypes ==
    ASSUME TypeOK, NEW h \in Hosts, Quit(h),
           UNCHANGED <<data, comm, chan, oms, result, success, history, agentVars>>
    PROVE  TypeOK'
<1>1. open' \in [Rounds -> [Hosts -> BOOLEAN]]
  BY DEF TypeOK, HostsTypeOK, Quit
<1>2. pc' = [pc EXCEPT ![h] = "quit"]
  BY DEF Quit, Goto
<1> QED
  BY <1>1, <1>2, HostsType
  DEF TypeOK, HostsTypeOK, history, agentVars, ClientPC, ServerPC, Ended

\* The history keeps its type when the server decides.
LEMMA DecideTypes ==
    ASSUME TypeOK, NEW v \in {"ok", "fail"}, Decide(v)
    PROVE  /\ verdict' \in [Rounds -> {"none", "ok", "fail"}]
           /\ base' \in [Rounds -> [Hosts -> SUBSET Elem]]
BY HostsType DEF TypeOK, HostsTypeOK, Decide

\* Types, over the client's steps in a session.
LEMMA ClientTypes ==
    ASSUME TypeOK, ClientStep
    PROVE  TypeOK'
<1> PICK h \in Hosts, s \in Hosts : h = "client" /\ s = "server"
  BY HostsType
<1>1. agent[h] \in AgentType /\ agent[h].size \in Tokens /\ data[h] \in SUBSET Elem
  BY IBLTAssumption DEF TypeOK, HostsTypeOK, AgentType
<1>2. Table(h) \in Message /\ [type |-> "params", token |-> agent[h].size] \in Message
  BY <1>1, MessageTypes DEF Table
<1>3. CASE ClientConnect
  <2> DEFINE params == [type |-> "params", token |-> agent[h].size]
             msgs == IF agent[h].oneWay THEN <<params, Table(h)>> ELSE <<params>>
  <2>1. msgs \in Seq(Message)
    BY <1>2
  <2>2. Send(h, msgs)
    BY <1>3 DEF ClientConnect
  <2>3. chan' \in [Rounds -> [Hosts -> Seq(Message)]]
    BY <2>1, <2>2, ChanTypes
  <2>4. open' \in [Rounds -> [Hosts -> BOOLEAN]]
    BY <1>3, StreamTypes DEF ClientConnect, TypeOK, HostsTypeOK
  <2>5. \E label \in {"post", "awaitFlag"} : pc' = [pc EXCEPT ![h] = label, ![s] = "recvParams"]
    BY <1>3 DEF ClientConnect
  <2> QED
    BY <1>3, <2>3, <2>4, <2>5, HostsType
    DEF ClientConnect, TypeOK, HostsTypeOK, history, agentVars, ClientPC, ServerPC, ClientWaits,
        ServerWaits
<1>4. CASE ClientConnectFails
  BY <1>4, QuitTypes DEF ClientConnectFails
<1>5. CASE ClientFlag
  <2>1. <<Table(h)>> \in Seq(Message)
    BY <1>2
  <2>2. Incoming(h) # <<>> /\ (Receive(h) \/ Answer(h, <<Table(h)>>))
    BY <1>5 DEF ClientFlag, Receives
  <2>3. chan' \in [Rounds -> [Hosts -> Seq(Message)]]
    BY <2>1, <2>2, ChanTypes
  <2>4. /\ \E label \in {"post", "awaitOthers"} : pc' = [pc EXCEPT ![h] = label]
        /\ result' = result \/ result' = [result EXCEPT ![h] = FALSE]
    BY <1>5 DEF ClientFlag, Goto
  <2> QED
    BY <1>5, <2>3, <2>4, HostsType
    DEF ClientFlag, TypeOK, HostsTypeOK, history, agentVars, ClientPC, ServerPC, ClientWaits
<1>6. CASE ClientOthers
  <2>1. Incoming(h) # <<>> /\ Receive(h) /\ Head(Incoming(h)).type = "list"
    BY <1>6 DEF ClientOthers, Receives
  <2>2. /\ chan' \in [Rounds -> [Hosts -> Seq(Message)]]
        /\ Head(Incoming(h)).set \in SUBSET Elem
    <3>1. <<>> \in Seq(Message)
      OBVIOUS
    <3> QED
      BY <2>1, <3>1, ChanTypes, MessageTypes
  <2>3. /\ pc' = [pc EXCEPT ![h] = "awaitMine"]
        /\ oms' = [oms EXCEPT ![h] = Head(Incoming(h)).set]
    BY <1>6 DEF ClientOthers, Goto
  <2> QED
    BY <1>6, <2>2, <2>3, HostsType
    DEF ClientOthers, TypeOK, HostsTypeOK, history, agentVars, ClientPC, ServerPC, ClientWaits
<1>7. CASE ClientMine
  <2>1. Incoming(h) # <<>> /\ Receive(h)
    BY <1>7 DEF ClientMine, Receives
  <2>2. chan' \in [Rounds -> [Hosts -> Seq(Message)]]
    <3>1. <<>> \in Seq(Message)
      OBVIOUS
    <3> QED
      BY <2>1, <3>1, ChanTypes
  <2>3. pc' = [pc EXCEPT ![h] = "post"]
    BY <1>7 DEF ClientMine, Goto
  <2> QED
    BY <1>7, <2>2, <2>3, HostsType
    DEF ClientMine, TypeOK, HostsTypeOK, history, agentVars, ClientPC, ServerPC, ClientWaits
<1> QED
  BY <1>3, <1>4, <1>5, <1>6, <1>7 DEF ClientStep

\* Types, over the server's steps in a session.
LEMMA ServerTypes ==
    ASSUME TypeOK, ServerStep
    PROVE  TypeOK'
<1> PICK h \in Hosts, c \in Hosts : h = "server" /\ c = "client"
  BY HostsType
<1>1. CASE ServerParams
  <2> DEFINE ok == Head(Incoming(h)).token = agent[h].size
  <2>1. FlagReply(h, ok) \in Seq(Message)
    <3>1. [type |-> "flag", ok |-> ok] \in Message
      <4>1. ok \in BOOLEAN
        OBVIOUS
      <4> QED
        BY <4>1, MessageTypes
    <3> HIDE DEF ok
    <3> QED
      BY <3>1 DEF FlagReply
  <2>2. Incoming(h) # <<>> /\ Answer(h, FlagReply(h, ok))
    BY <1>1 DEF ServerParams, Receives
  <2>3. chan' \in [Rounds -> [Hosts -> Seq(Message)]]
    BY <2>1, <2>2, ChanTypes
  <2>4. /\ verdict' \in [Rounds -> {"none", "ok", "fail"}]
        /\ base' \in [Rounds -> [Hosts -> SUBSET Elem]]
    <3>1. UNCHANGED history \/ Decide("fail")
      BY <1>1 DEF ServerParams
    <3> QED
      BY <3>1, DecideTypes DEF history, TypeOK, HostsTypeOK
  <2>5. /\ \E label \in {"post", "recvTable"} : pc' = [pc EXCEPT ![h] = label]
        /\ result' = result \/ result' = [result EXCEPT ![h] = FALSE]
        /\ UNCHANGED <<data, comm, open, oms, success, agentVars>>
    BY <1>1 DEF ServerParams, Goto
  <2> QED
    BY <2>3, <2>4, <2>5, HostsType
    DEF TypeOK, HostsTypeOK, agentVars, ClientPC, ServerPC, ServerWaits
<1>2. CASE ServerTable
  <2> DEFINE theirs == Head(Incoming(h)).set
             core == Core(SymDiff(theirs, data[h]))
             self == (data[h] \ theirs) \ core
             other == (theirs \ data[h]) \ core
  <2>1. Incoming(h) # <<>> /\ Head(Incoming(h)).type = "table"
    BY <1>2 DEF ServerTable, Receives
  <2>2. theirs \in SUBSET Elem /\ data[h] \in SUBSET Elem
    <3>1. <<>> \in Seq(Message)
      OBVIOUS
    <3> QED
      BY <2>1, <3>1, ChanTypes, MessageTypes DEF TypeOK, HostsTypeOK
  <2> HIDE DEF theirs
  <2>3. self \in SUBSET Elem /\ other \in SUBSET Elem
    BY <2>2
  <2> HIDE DEF self, other, core
  <2>4. Lists(self, other) \in Seq(Message)
    <3>1. [type |-> "list", set |-> self] \in Message /\ [type |-> "list", set |-> other] \in Message
      BY <2>3, MessageTypes
    <3> QED
      BY <3>1 DEF Lists
  <2>5. /\ IF agent[h].oneWay THEN Receive(h) ELSE Answer(h, Lists(self, other))
        /\ oms' = [oms EXCEPT ![h] = other]
        /\ result' = [result EXCEPT ![h] = Complete(core)]
        /\ Decide(IF Complete(core) THEN "ok" ELSE "fail")
        /\ pc' = [pc EXCEPT ![h] = "post"]
        /\ UNCHANGED <<data, comm, open, success, agentVars>>
    BY <1>2 DEF ServerTable, Goto, theirs, self, other, core
  <2>6. chan' \in [Rounds -> [Hosts -> Seq(Message)]]
    BY <2>1, <2>4, <2>5, ChanTypes
  <2>7. /\ verdict' \in [Rounds -> {"none", "ok", "fail"}]
        /\ base' \in [Rounds -> [Hosts -> SUBSET Elem]]
    BY <2>5, DecideTypes
  <2>8. Complete(core) \in BOOLEAN
    BY DEF Complete
  <2> QED
    BY <2>3, <2>5, <2>6, <2>7, <2>8, HostsType
    DEF TypeOK, HostsTypeOK, agentVars, ClientPC, ServerPC
<1> QED
  BY <1>1, <1>2 DEF ServerStep

\* Types, over the steps that either host takes.
LEMMA HostTypes ==
    ASSUME TypeOK, NEW h \in Hosts, Begin(h) \/ PostProcess(h) \/ PeerGone(h) \/ Crash(h)
    PROVE  TypeOK'
<1>1. CASE Begin(h)
  <2>1. \/ h = "client" /\ pc' = [pc EXCEPT ![h] = "connecting"]
        \/ h = "server" /\ pc' = [pc EXCEPT ![h] = "listening"]
    BY <1>1 DEF Begin, Goto, Hosts
  <2> QED
    BY <1>1, <2>1, HostsType
    DEF Begin, TypeOK, HostsTypeOK, history, agentVars, ClientPC, ServerPC, ClientWaits
<1>2. CASE PostProcess(h)
  <2>1. data' \in [Hosts -> SUBSET Elem]
    BY <1>2 DEF PostProcess, NextCommunicant, PostProcessing, TypeOK, HostsTypeOK
  <2>2. comm' \in [Hosts -> Rounds]
    <3>1. comm[h] \in Rounds
      BY StreamTypes
    <3>2. ~Last(h) => comm[h] + 1 \in Rounds
      BY <3>1, HostsAssumption DEF Last, Rounds
    <3>3. \/ UNCHANGED comm
          \/ ~Last(h) /\ comm' = [comm EXCEPT ![h] = comm[h] + 1]
      BY <1>2, StreamTypes DEF PostProcess, NextCommunicant, TypeOK, HostsTypeOK
    <3> QED
      BY <3>2, <3>3 DEF TypeOK, HostsTypeOK
  <2>3. \E label \in {"returned", "begin"} : pc' = [pc EXCEPT ![h] = label]
    BY <1>2 DEF PostProcess, NextCommunicant, Goto
  <2>4. success' \in [Hosts -> BOOLEAN]
    BY <1>2 DEF PostProcess, NextCommunicant, TypeOK, HostsTypeOK
  <2> QED
    BY <1>2, <2>1, <2>2, <2>3, <2>4, HostsType
    DEF PostProcess, TypeOK, HostsTypeOK, history, agentVars, ClientPC, ServerPC, Ended
<1>3. CASE PeerGone(h)
  BY <1>3, QuitTypes DEF PeerGone, Deserted
<1>4. CASE Crash(h)
  BY <1>4, QuitTypes DEF Crash, Killed
<1> QED
  BY <1>1, <1>2, <1>3, <1>4

\* Each step keeps the types.
LEMMA TypesStay ==
    ASSUME TypeOK, [Next]_vars
    PROVE  TypeOK'
<1>1. CASE UNCHANGED vars
  BY <1>1 DEF vars, hostVars, history, agentVars, TypeOK, HostsTypeOK
<1> QED
  BY <1>1, ClientTypes, ServerTypes, HostTypes DEF Next, HostStep

(***************************************************************************)
(* The phases of a two-way round.                                          *)
(***************************************************************************)
\* Where host h is in round i.
Place(h, i) ==
    IF comm[h] < i THEN "begin"
    ELSE IF comm[h] > i \/ pc[h] = "returned" THEN "post" ELSE pc[h]

At(i, cs, ss) ==
    Place("client", i) \in cs \cup {"quit"} /\ Place("server", i) \in ss \cup {"quit"}
Carries(i, toClient, toServer) ==
    chan[i]["client"] = toClient /\ chan[i]["server"] = toServer

ParamsMsg == [type |-> "params", token |-> agent["client"].size]
FineMsg == [type |-> "flag", ok |-> TRUE]
FailMsg == [type |-> "flag", ok |-> FALSE]
TableMsg == [type |-> "table", set |-> data["client"]]
ListMsg(S) == [type |-> "list", set |-> S]

\* What is not peeled, and the list that host h is due.
Left(i) == Core(Differences(i))
Owed(h, i) == (base[i][Other(h)] \ base[i][h]) \ Left(i)

Idle(i) ==
    /\ At(i, {"begin", "connecting"}, {"begin", "listening"})
    /\ Carries(i, <<>>, <<>>)

ParamsSent(i) == At(i, {"awaitFlag"}, {"recvParams"}) /\ Carries(i, <<>>, <<ParamsMsg>>)
ParamsFine(i) == At(i, {"awaitFlag"}, {"recvTable"}) /\ Carries(i, <<FineMsg>>, <<>>)
TableSent(i) == At(i, {"awaitOthers"}, {"recvTable"}) /\ Carries(i, <<>>, <<TableMsg>>)

Undecided(i) ==
    /\ verdict[i] = "none"
    /\ \/ Idle(i) \/ ParamsSent(i)
       \/ SameSize /\ (ParamsFine(i) \/ TableSent(i))

Listed(i) ==
    /\ At(i, {"awaitOthers"}, {"post"})
    /\ Carries(i, <<ListMsg(Owed("client", i)), ListMsg(Owed("server", i))>>, <<>>)
HalfRead(i) ==
    /\ At(i, {"awaitMine"}, {"post"})
    /\ Carries(i, <<ListMsg(Owed("server", i))>>, <<>>)
Over(i) == At(i, {"post"}, {"post"}) /\ Carries(i, <<>>, <<>>)

Decoded(i) ==
    /\ SameSize
    /\ verdict[i] = IF Left(i) = {} THEN "ok" ELSE "fail"
    /\ Listed(i) \/ HalfRead(i) \/ Over(i)

RefusalSent(i) == At(i, {"awaitFlag"}, {"post"}) /\ Carries(i, <<FailMsg>>, <<>>)
Refused(i) == ~SameSize /\ verdict[i] = "fail" /\ (RefusalSent(i) \/ Over(i))

Round(i) == Undecided(i) \/ Decoded(i) \/ Refused(i)

(***************************************************************************)
(* Each host by itself.                                                    *)
(***************************************************************************)
Early == {"connecting", "listening", "awaitFlag", "awaitOthers", "recvParams", "recvTable"}

\* What a session gives host h.
Given(h, i) == IF SameSize THEN Owed(h, i) ELSE {}

\* The session in hand: what the host has been given, and that its set is still the
\* one of the decision.
Present(h) ==
    LET i == comm[h] IN
    /\ pc[h] \in Early => oms[h] = {} /\ result[h]
    /\ pc[h] = "awaitMine" => oms[h] = Owed(h, i)
    /\ pc[h] = "post" => oms[h] = Given(h, i)
    /\ pc[h] # "returned" /\ verdict[i] # "none" => base[i][h] = data[h]
    /\ pc[h] = "post" /\ h = "server" => (result[h] <=> verdict[i] = "ok")

\* The last session that it finished, and what the server reports of all of them.
Past(h) ==
    /\ \A i \in Rounds : FinishedSessions(h) = i => data[h] = base[i][h] \cup Given(h, i)
    /\ h = "server" /\ success[h] => \A i \in 1..FinishedSessions(h) : verdict[i] = "ok"

Link == /\ \A i \in Rounds : Round(i)
        /\ \A h \in Hosts : Present(h) /\ Past(h)

IInv == TypeOK /\ (TwoWay => Link)

(***************************************************************************)
(* Frames: what a step leaves as it was.                                   *)
(***************************************************************************)
\* A round in which no host moves but to quit, and whose table, if it was sent and is
\* not yet read, still is the client's set.
LEMMA RoundFrame ==
    ASSUME NEW i \in Rounds, Round(i), UNCHANGED <<agent, place>>,
           \A g \in Hosts : Place(g, i)' = Place(g, i) \/ Place(g, i)' = "quit",
           chan'[i] = chan[i], verdict'[i] = verdict[i], base'[i] = base[i],
           data'["client"] = data["client"] \/ Place("client", i) \in {"begin", "post"}
    PROVE  Round(i)'
<1>1. /\ SameSize' = SameSize /\ Left(i)' = Left(i)
      /\ \A g \in Hosts : Owed(g, i)' = Owed(g, i)
      /\ ParamsMsg' = ParamsMsg
  BY DEF SameSize, Left, Owed, Differences, Core, Stuck, In, ParamsMsg
<1>2. \A cs, ss : At(i, cs, ss) => At(i, cs, ss)'
  BY HostsType DEF At
<1>3. \A x, y : Carries(i, x, y) => Carries(i, x, y)'
  BY DEF Carries
<1>4. Undecided(i) => Undecided(i)'
  <2>1. TableSent(i) => TableSent(i)'
    <3> SUFFICES ASSUME TableSent(i) PROVE TableSent(i)'
      OBVIOUS
    <3>1. TableMsg' = TableMsg
      BY DEF TableSent, At, TableMsg
    <3> QED
      BY <1>2, <3>1 DEF TableSent, Carries
  <2> QED
    BY <1>1, <1>2, <2>1 DEF Undecided, Idle, ParamsSent, ParamsFine, Carries, FineMsg
<1>5. Decoded(i) => Decoded(i)'
  <2>1. ListMsg(Owed("client", i))' = ListMsg(Owed("client", i))
        /\ ListMsg(Owed("server", i))' = ListMsg(Owed("server", i))
    BY <1>1, HostsType DEF ListMsg
  <2> QED
    BY <1>1, <1>2, <2>1 DEF Decoded, Listed, HalfRead, Over, Carries
<1>6. Refused(i) => Refused(i)'
  BY <1>1, <1>2 DEF Refused, RefusalSent, Over, Carries, FailMsg
<1> QED
  BY <1>4, <1>5, <1>6 DEF Round

\* What a host has finished stays as it was when only its round in hand is decided.
LEMMA PastFrame ==
    ASSUME TypeOK, NEW h \in Hosts, Past(h), UNCHANGED <<agent, place, comm, data, success>>,
           pc[h] = "returned" <=> pc'[h] = "returned",
           \A i \in Rounds : (i # comm[h] \/ pc[h] = "returned")
                                => verdict'[i] = verdict[i] /\ base'[i] = base[i]
    PROVE  Past(h)'
<1>1. comm[h] \in 1..Sessions /\ Sessions \in Nat
  BY HostsAssumption DEF TypeOK, HostsTypeOK, Rounds
<1>2. FinishedSessions(h)' = FinishedSessions(h)
  BY DEF FinishedSessions
<1>3. \A i \in Rounds : i <= FinishedSessions(h) => verdict'[i] = verdict[i] /\ base'[i] = base[i]
  BY <1>1 DEF FinishedSessions, Rounds
<1>4. SameSize' = SameSize
  BY DEF SameSize
<1>5. ASSUME NEW i \in Rounds, base'[i] = base[i] PROVE Given(h, i)' = Given(h, i)
  BY <1>4, <1>5 DEF Given, Owed, Left, Differences, Core, Stuck, In
<1>6. \A i \in Rounds : (FinishedSessions(h) = i => data[h] = base[i][h] \cup Given(h, i))'
  BY <1>1, <1>2, <1>3, <1>5 DEF Past, Rounds
<1>7. (h = "server" /\ success[h] => \A i \in 1..FinishedSessions(h) : verdict[i] = "ok")'
  <2>1. 1..FinishedSessions(h) \subseteq Rounds /\ \A i \in 1..FinishedSessions(h) : i <= FinishedSessions(h)
    BY <1>1 DEF FinishedSessions, Rounds
  <2> QED
    BY <1>2, <1>3, <2>1 DEF Past
<1> QED
  BY <1>6, <1>7 DEF Past

\* A host that does not move, in a step that decides nothing or its round in hand.
LEMMA PresentFrame ==
    ASSUME NEW h \in Hosts, Present(h), UNCHANGED <<agent, place, comm, data>>,
           pc'[h] = pc[h], oms'[h] = oms[h], result'[h] = result[h],
           \/ UNCHANGED history
           \/ pc[h] \in {"awaitFlag", "awaitOthers", "quit"} /\ base'[comm[h]] = data
    PROVE  Present(h)'
<1>1. CASE UNCHANGED history
  <2>1. Owed(h, comm[h])' = Owed(h, comm[h]) /\ Given(h, comm[h])' = Given(h, comm[h])
    BY <1>1 DEF Given, SameSize, Owed, Left, Differences, Core, Stuck, In, history
  <2> QED
    BY <1>1, <2>1 DEF Present, history
<1>2. CASE pc[h] \in {"awaitFlag", "awaitOthers", "quit"} /\ base'[comm[h]] = data
  BY <1>2 DEF Present, Early
<1> QED
  BY <1>1, <1>2

(***************************************************************************)
(* A step in which hosts move only in round i, and decide nothing else.    *)
(***************************************************************************)
Local(i) ==
    /\ UNCHANGED <<data, comm, agent, place, success>>
    /\ \A j \in Rounds \ {i} :
          chan'[j] = chan[j] /\ verdict'[j] = verdict[j] /\ base'[j] = base[j]
    /\ \A g \in Hosts : \/ pc'[g] = pc[g]
                        \/ comm[g] = i /\ pc[g] # "returned" /\ pc'[g] # "returned"
    /\ UNCHANGED history \/ \A g \in Hosts : comm[g] = i /\ pc[g] # "returned"

\* Such a step leaves the other rounds in their phases and what hosts have finished as it
\* was, and moves a host in round i from the place that its program counter says.
LEMMA LocalStep ==
    ASSUME TypeOK, Link, NEW i \in Rounds, Local(i)
    PROVE  /\ SameSize' = SameSize /\ ParamsMsg' = ParamsMsg /\ TableMsg' = TableMsg
           /\ \A j \in Rounds \ {i} : Round(j)'
           /\ \A g \in Hosts : Past(g)'
           /\ \A g \in Hosts : comm[g] = i /\ pc[g] # "returned" =>
                 Place(g, i) = pc[g] /\ (pc'[g] # "returned" => Place(g, i)' = pc'[g])
           /\ \A g \in Hosts : pc'[g] = pc[g] => Place(g, i)' = Place(g, i)
<1>1. comm \in [Hosts -> 1..Sessions] /\ Sessions \in Nat /\ i \in 1..Sessions
  BY HostsAssumption DEF TypeOK, HostsTypeOK, Rounds
<1>2. SameSize' = SameSize /\ ParamsMsg' = ParamsMsg /\ TableMsg' = TableMsg
  BY DEF Local, SameSize, ParamsMsg, TableMsg
<1>3. \A g \in Hosts : comm[g] = i /\ pc[g] # "returned" =>
         Place(g, i) = pc[g] /\ (pc'[g] # "returned" => Place(g, i)' = pc'[g])
  BY <1>1 DEF Local, Place
<1>4. \A g \in Hosts, j \in Rounds : pc'[g] = pc[g] => Place(g, j)' = Place(g, j)
  BY DEF Local, Place
<1>5. ASSUME NEW j \in Rounds \ {i} PROVE Round(j)'
  <2>1. \A g \in Hosts : Place(g, j)' = Place(g, j)
    BY <1>1, <1>4 DEF Local, Place, Rounds
  <2> QED
    BY <2>1, RoundFrame DEF Local, Link
<1>6. ASSUME NEW g \in Hosts PROVE Past(g)'
  <2>1. pc[g] = "returned" <=> pc'[g] = "returned"
    BY DEF Local
  <2>2. \A j \in Rounds : (j # comm[g] \/ pc[g] = "returned")
                             => verdict'[j] = verdict[j] /\ base'[j] = base[j]
    BY DEF Local, history
  <2> QED
    BY <2>1, <2>2, PastFrame DEF Local, Link
<1> QED
  BY <1>2, <1>3, <1>4, <1>5, <1>6

(***************************************************************************)
(* The streams of a round after each of the three uses.                    *)
(***************************************************************************)
\* A sender adds to the peer's stream,
LEMMA SendStreams ==
    ASSUME TypeOK, NEW h \in Hosts, NEW msgs, Send(h, msgs)
    PROVE  /\ chan'[comm[h]][h] = chan[comm[h]][h]
           /\ chan'[comm[h]][Other(h)] = chan[comm[h]][Other(h)] \o msgs
           /\ \A j \in Rounds \ {comm[h]} : chan'[j] = chan[j]
BY StreamTypes DEF Send

\* a receiver takes from its own,
LEMMA ReceiveStreams ==
    ASSUME TypeOK, NEW h \in Hosts, Receive(h)
    PROVE  /\ chan'[comm[h]][h] = Tail(chan[comm[h]][h])
           /\ chan'[comm[h]][Other(h)] = chan[comm[h]][Other(h)]
           /\ \A j \in Rounds \ {comm[h]} : chan'[j] = chan[j]
BY StreamTypes DEF Receive

\* and one that answers does both.
LEMMA AnswerStreams ==
    ASSUME TypeOK, NEW h \in Hosts, NEW msgs, Answer(h, msgs)
    PROVE  /\ chan'[comm[h]][h] = Tail(chan[comm[h]][h])
           /\ chan'[comm[h]][Other(h)] = chan[comm[h]][Other(h)] \o msgs
           /\ \A j \in Rounds \ {comm[h]} : chan'[j] = chan[j]
BY StreamTypes DEF Answer

\* Streams of up to two messages.
LEMMA Shorts ==
    ASSUME NEW x, NEW y
    PROVE  /\ Tail(<<x>>) = <<>> /\ Head(<<x>>) = x /\ <<>> \o <<x>> = <<x>>
           /\ Tail(<<x, y>>) = <<y>> /\ Head(<<x, y>>) = x /\ <<>> \o <<x, y>> = <<x, y>>
           /\ <<>> \o <<>> = <<>>
OBVIOUS

\* The phases in which a host can be where it is.
LEMMA Phases ==
    ASSUME NEW i \in Rounds, Round(i)
    PROVE  LET c == Place("client", i)
               s == Place("server", i)
           IN
           /\ c \in {"begin", "connecting"} => Undecided(i) /\ Idle(i)
           /\ c = "awaitFlag" =>
                 \/ Undecided(i) /\ ParamsSent(i)
                 \/ Undecided(i) /\ SameSize /\ ParamsFine(i)
                 \/ Refused(i) /\ RefusalSent(i)
           /\ c = "awaitOthers" =>
                 (Undecided(i) /\ SameSize /\ TableSent(i)) \/ (Decoded(i) /\ Listed(i))
           /\ c = "awaitMine" => Decoded(i) /\ HalfRead(i)
           /\ c = "post" => (Decoded(i) \/ Refused(i)) /\ Over(i)
           /\ s \in {"begin", "listening"} => Undecided(i) /\ Idle(i)
           /\ s = "recvParams" => Undecided(i) /\ ParamsSent(i)
           /\ s = "recvTable" => Undecided(i) /\ SameSize /\ (ParamsFine(i) \/ TableSent(i))
           /\ s = "post" => Decoded(i) \/ Refused(i)
BY DEF Round, Undecided, Decoded, Refused, Idle, ParamsSent, ParamsFine, TableSent, Listed,
       HalfRead, Over, RefusalSent, At

\* A host is where its program counter says.
LEMMA Here ==
    ASSUME TypeOK, Link, NEW h \in Hosts, pc[h] # "returned"
    PROVE  comm[h] \in Rounds /\ Place(h, comm[h]) = pc[h] /\ Round(comm[h])
<1>1. comm[h] \in Rounds /\ comm[h] \in Int
  BY HostsAssumption DEF TypeOK, HostsTypeOK, Rounds
<1> QED
  BY <1>1 DEF Place, Link

\* A host that quits.
LEMMA Quits ==
    ASSUME TypeOK, Link, NEW h \in Hosts, Quit(h), pc[h] \notin Ended,
           UNCHANGED <<data, comm, chan, oms, result, success, history, agentVars>>
    PROVE  Link'
<1>1. comm \in [Hosts -> 1..Sessions] /\ Sessions \in Nat /\ DOMAIN pc = Hosts
  BY HostsAssumption DEF TypeOK, HostsTypeOK, Rounds
<1>2. pc'[h] = "quit" /\ \A g \in Hosts \ {h} : pc'[g] = pc[g]
  BY <1>1 DEF Quit, Goto
<1>3. \A i \in Rounds : Round(i)'
  <2> SUFFICES ASSUME NEW i \in Rounds PROVE Round(i)'
    OBVIOUS
  <2>1. \A g \in Hosts : Place(g, i)' = Place(g, i) \/ Place(g, i)' = "quit"
    BY <1>1, <1>2 DEF Place, Ended
  <2> QED
    BY <2>1, RoundFrame DEF Link, history, agentVars
<1>4. \A g \in Hosts : Past(g)'
  BY <1>2, PastFrame DEF Link, history, agentVars, Ended
<1>5. \A g \in Hosts \ {h} : Present(g)'
  BY <1>2, PresentFrame DEF Link, history, agentVars
<1>6. Present(h)'
  BY <1>2 DEF Link, Present, Early, history, Ended
<1> QED
  BY <1>3, <1>4, <1>5, <1>6 DEF Link

(***************************************************************************)
(* The steps within a round.                                               *)
(***************************************************************************)
\* Names for the two hosts and the round of one of them.
LEMMA Two ==
    \E c \in Hosts, s \in Hosts :
        /\ c = "client" /\ s = "server" /\ c # s /\ Other(c) = s /\ Other(s) = c
        /\ Hosts = {c, s}
BY DEF Hosts, Other

\* The domains of the hosts' variables, and the round of a host.
LEMMA Named ==
    ASSUME TypeOK, NEW h \in Hosts
    PROVE  /\ DOMAIN pc = Hosts /\ DOMAIN oms = Hosts /\ DOMAIN result = Hosts
           /\ comm[h] \in Rounds
BY DEF TypeOK, HostsTypeOK

\* A host begins: the round stays idle.
LEMMA Begins ==
    ASSUME TypeOK, Link, NEW h \in Hosts, Begin(h)
    PROVE  Link'
<1> PICK c \in Hosts, s \in Hosts : c = "client" /\ s = "server" /\ c # s /\ Hosts = {c, s}
  BY Two
<1> PICK i \in Rounds : i = comm[h]
  BY Named
<1>1. /\ pc[h] = "begin" /\ DOMAIN pc = Hosts
      /\ pc' = [pc EXCEPT ![h] = IF h = c THEN "connecting" ELSE "listening"]
      /\ oms' = [oms EXCEPT ![h] = {}] /\ result' = [result EXCEPT ![h] = TRUE]
      /\ DOMAIN oms = Hosts /\ DOMAIN result = Hosts
      /\ UNCHANGED <<data, comm, chan, success, history, agent, place>>
  BY Named DEF Begin, Goto, agentVars
<1>2. Place(h, i) = "begin" /\ Round(i)
  BY <1>1, Here
<1>3. Undecided(i) /\ Idle(i)
  BY <1>2, Phases
<1>4. Local(i)
  BY <1>1 DEF Local, history
<1>5. Place(h, i)' = pc'[h] /\ \A g \in Hosts \ {h} : Place(g, i)' = Place(g, i)
  BY <1>1, <1>4, LocalStep
<1>6. Round(i)'
  <2>1. Idle(i)'
    BY <1>1, <1>3, <1>5 DEF Idle, At, Carries
  <2> QED
    BY <1>1, <1>3, <2>1 DEF Round, Undecided, history
<1>7. Present(h)'
  BY <1>1, <1>3 DEF Present, Early, Undecided, history
<1>8. \A g \in Hosts \ {h} : Present(g)'
  BY <1>1, PresentFrame DEF Link
<1> QED
  BY <1>4, <1>6, <1>7, <1>8, LocalStep DEF Link

\* The parameters go out.
LEMMA ClientConnects ==
    ASSUME TypeOK, Link, TwoWay, ClientConnect
    PROVE  Link'
<1> PICK c \in Hosts, s \in Hosts :
        /\ c = "client" /\ s = "server" /\ c # s /\ Other(c) = s /\ Hosts = {c, s}
  BY Two
<1> PICK i \in Rounds : i = comm[c]
  BY Named
<1>1. /\ pc[c] = "connecting" /\ pc[s] = "listening" /\ comm[s] = i /\ DOMAIN pc = Hosts
      /\ pc' = [pc EXCEPT ![c] = "awaitFlag", ![s] = "recvParams"]
      /\ Send(c, <<ParamsMsg>>)
      /\ UNCHANGED <<data, comm, oms, result, success, history, agent, place>>
  BY Named DEF ClientConnect, Listening, TwoWay, ParamsMsg, agentVars
<1>2. Place(c, i) = "connecting" /\ Place(s, i) = "listening" /\ Round(i)
  BY <1>1, Here
<1>3. Undecided(i) /\ Idle(i)
  BY <1>2, Phases
<1>4. /\ chan'[i][c] = <<>> /\ chan'[i][s] = <<ParamsMsg>>
      /\ \A j \in Rounds \ {i} : chan'[j] = chan[j]
  <2>1. /\ chan'[comm[c]][c] = chan[comm[c]][c]
        /\ chan'[comm[c]][Other(c)] = chan[comm[c]][Other(c)] \o <<ParamsMsg>>
        /\ \A j \in Rounds \ {comm[c]} : chan'[j] = chan[j]
    BY <1>1, SendStreams
  <2>2. chan[i][c] = <<>> /\ chan[i][s] = <<>> /\ <<>> \o <<ParamsMsg>> = <<ParamsMsg>>
    BY <1>3, Shorts DEF Idle, Carries
  <2> QED
    BY <2>1, <2>2
<1>5. pc'[c] = "awaitFlag" /\ pc'[s] = "recvParams"
  BY <1>1
<1>6. Local(i)
  BY <1>1, <1>4, <1>5 DEF Local, history
<1>7. Place(c, i)' = "awaitFlag" /\ Place(s, i)' = "recvParams" /\ ParamsMsg' = ParamsMsg
  BY <1>1, <1>5, <1>6, LocalStep
<1>8. Round(i)'
  BY <1>1, <1>3, <1>4, <1>7 DEF Round, Undecided, ParamsSent, At, Carries, history
<1>9. \A g \in Hosts : Present(g)'
  BY <1>1, <1>3, <1>5 DEF Link, Present, Early, Undecided, history
<1> QED
  BY <1>6, <1>8, <1>9, LocalStep DEF Link

\* The client reads that the sizes agree, and sends its table, or that they do not.
LEMMA ClientTakesFlag ==
    ASSUME TypeOK, Link, TwoWay, ClientFlag
    PROVE  Link'
<1> PICK c \in Hosts, s \in Hosts :
        /\ c = "client" /\ s = "server" /\ c # s /\ Other(c) = s /\ Hosts = {c, s}
  BY Two
<1> PICK i \in Rounds : i = comm[c]
  BY Named
<1>1. /\ pc[c] = "awaitFlag" /\ DOMAIN pc = Hosts /\ DOMAIN result = Hosts
      /\ chan[i][c] # <<>>
      /\ \/ /\ Head(chan[i][c]).ok
            /\ pc' = [pc EXCEPT ![c] = "awaitOthers"]
            /\ Answer(c, <<TableMsg>>)
            /\ UNCHANGED result
         \/ /\ ~Head(chan[i][c]).ok
            /\ pc' = [pc EXCEPT ![c] = "post"]
            /\ result' = [result EXCEPT ![c] = FALSE]
            /\ Receive(c)
      /\ UNCHANGED <<data, comm, oms, success, history, agent, place>>
  BY Named DEF ClientFlag, Goto, Receives, Incoming, Table, TableMsg, agentVars
<1>2. Place(c, i) = "awaitFlag" /\ Round(i)
  BY <1>1, Here
<1>3. \/ Undecided(i) /\ SameSize /\ ParamsFine(i)
      \/ Refused(i) /\ RefusalSent(i)
  <2>1. ~ParamsSent(i)
    BY <1>1 DEF ParamsSent, Carries
  <2> QED
    BY <1>2, <2>1, Phases
<1>4. CASE Undecided(i) /\ SameSize /\ ParamsFine(i)
  <2>1. chan[i][c] = <<FineMsg>> /\ chan[i][s] = <<>>
    BY <1>4 DEF ParamsFine, Carries
  <2>2. /\ pc' = [pc EXCEPT ![c] = "awaitOthers"] /\ Answer(c, <<TableMsg>>) /\ UNCHANGED result
    BY <1>1, <2>1, Shorts DEF FineMsg
  <2>3. /\ chan'[i][c] = <<>> /\ chan'[i][s] = <<TableMsg>>
        /\ \A j \in Rounds \ {i} : chan'[j] = chan[j]
    <3>1. /\ chan'[comm[c]][c] = Tail(chan[comm[c]][c])
          /\ chan'[comm[c]][Other(c)] = chan[comm[c]][Other(c)] \o <<TableMsg>>
          /\ \A j \in Rounds \ {comm[c]} : chan'[j] = chan[j]
      BY <2>2, AnswerStreams
    <3> QED
      BY <2>1, <3>1, Shorts
  <2>4. pc'[c] = "awaitOthers" /\ pc'[s] = pc[s]
    BY <1>1, <2>2
  <2>5. Local(i)
    BY <1>1, <2>3, <2>4 DEF Local, history
  <2>6. /\ Place(c, i)' = "awaitOthers" /\ Place(s, i)' = Place(s, i)
        /\ TableMsg' = TableMsg /\ SameSize' = SameSize
    BY <1>1, <2>4, <2>5, LocalStep
  <2>7. Round(i)'
    BY <1>1, <1>4, <2>3, <2>6 DEF Round, Undecided, ParamsFine, TableSent, At, Carries, history
  <2>8. Present(c)'
    BY <1>1, <1>4, <2>2, <2>4 DEF Link, Present, Early, Undecided, history
  <2>9. Present(s)'
    BY <1>1, <2>2, <2>4, PresentFrame DEF Link
  <2> QED
    BY <2>5, <2>7, <2>8, <2>9, LocalStep DEF Link
<1>5. CASE Refused(i) /\ RefusalSent(i)
  <2>1. chan[i][c] = <<FailMsg>> /\ chan[i][s] = <<>>
    BY <1>5 DEF RefusalSent, Carries
  <2>2. /\ pc' = [pc EXCEPT ![c] = "post"] /\ Receive(c)
        /\ result' = [result EXCEPT ![c] = FALSE]
    BY <1>1, <2>1, Shorts DEF FailMsg
  <2>3. /\ chan'[i][c] = <<>> /\ chan'[i][s] = <<>>
        /\ \A j \in Rounds \ {i} : chan'[j] = chan[j]
    <3>1. /\ chan'[comm[c]][c] = Tail(chan[comm[c]][c])
          /\ chan'[comm[c]][Other(c)] = chan[comm[c]][Other(c)]
          /\ \A j \in Rounds \ {comm[c]} : chan'[j] = chan[j]
      BY <2>2, ReceiveStreams
    <3> QED
      BY <2>1, <3>1, Shorts
  <2>4. pc'[c] = "post" /\ pc'[s] = pc[s] /\ result'[s] = result[s]
    BY <1>1, <2>2
  <2>5. Local(i)
    BY <1>1, <2>3, <2>4 DEF Local, history
  <2>6. Place(c, i)' = "post" /\ Place(s, i)' = Place(s, i) /\ SameSize' = SameSize
    BY <1>1, <2>4, <2>5, LocalStep
  <2>7. Round(i)'
    BY <1>1, <1>5, <2>3, <2>6 DEF Round, Refused, RefusalSent, Over, At, Carries, history
  <2>8. Present(c)'
    <3>1. Given(c, i)' = {}
      BY <1>5, <2>6 DEF Refused, Given
    <3>2. oms'[c] = {}
      BY <1>1 DEF Link, Present, Early
    <3> QED
      BY <1>1, <2>4, <3>1, <3>2 DEF Link, Present, Early, history
  <2>9. Present(s)'
    BY <1>1, <2>4, PresentFrame DEF Link
  <2> QED
    BY <2>5, <2>7, <2>8, <2>9, LocalStep DEF Link
<1> QED
  BY <1>3, <1>4, <1>5

\* The client keeps the first of the two lists,
LEMMA ClientTakesOthers ==
    ASSUME TypeOK, Link, ClientOthers
    PROVE  Link'
<1> PICK c \in Hosts, s \in Hosts :
        /\ c = "client" /\ s = "server" /\ c # s /\ Other(c) = s /\ Hosts = {c, s}
  BY Two
<1> PICK i \in Rounds : i = comm[c]
  BY Named
<1>1. /\ pc[c] = "awaitOthers" /\ DOMAIN pc = Hosts /\ DOMAIN oms = Hosts
      /\ chan[i][c] # <<>> /\ Receive(c)
      /\ oms' = [oms EXCEPT ![c] = Head(chan[i][c]).set]
      /\ pc' = [pc EXCEPT ![c] = "awaitMine"]
      /\ UNCHANGED <<data, comm, result, success, history, agent, place>>
  BY Named DEF ClientOthers, Goto, Receives, Incoming, agentVars
<1>2. Place(c, i) = "awaitOthers" /\ Round(i)
  BY <1>1, Here
<1>3. Decoded(i) /\ Listed(i)
  <2>1. ~TableSent(i)
    BY <1>1 DEF TableSent, Carries
  <2> QED
    BY <1>2, <2>1, Phases
<1>4. /\ chan[i][c] = <<ListMsg(Owed(c, i)), ListMsg(Owed(s, i))>> /\ chan[i][s] = <<>>
  BY <1>3 DEF Listed, Carries
<1>5. /\ chan'[i][c] = <<ListMsg(Owed(s, i))>> /\ chan'[i][s] = <<>>
      /\ \A j \in Rounds \ {i} : chan'[j] = chan[j]
  <2>1. /\ chan'[comm[c]][c] = Tail(chan[comm[c]][c])
        /\ chan'[comm[c]][Other(c)] = chan[comm[c]][Other(c)]
        /\ \A j \in Rounds \ {comm[c]} : chan'[j] = chan[j]
    BY <1>1, ReceiveStreams
  <2>2. Tail(<<ListMsg(Owed(c, i)), ListMsg(Owed(s, i))>>) = <<ListMsg(Owed(s, i))>>
    BY Shorts
  <2> QED
    BY <1>4, <2>1, <2>2
<1>6. pc'[c] = "awaitMine" /\ pc'[s] = pc[s] /\ oms'[s] = oms[s] /\ oms'[c] = Owed(c, i)
  <2>1. Head(chan[i][c]) = ListMsg(Owed(c, i))
    BY <1>4, Shorts
  <2> QED
    BY <1>1, <2>1 DEF ListMsg
<1>7. Local(i)
  BY <1>1, <1>5, <1>6 DEF Local, history
<1>8. Place(c, i)' = "awaitMine" /\ Place(s, i)' = Place(s, i) /\ SameSize' = SameSize
  BY <1>1, <1>6, <1>7, LocalStep
<1>9. /\ Left(i)' = Left(i) /\ Owed(c, i)' = Owed(c, i) /\ Owed(s, i)' = Owed(s, i)
  BY <1>1 DEF Owed, Left, Differences, Core, Stuck, In, history
<1>10. Round(i)'
  <2>1. HalfRead(i)'
    BY <1>3, <1>5, <1>8, <1>9 DEF Listed, HalfRead, At, Carries, ListMsg
  <2> QED
    BY <1>1, <1>3, <1>8, <1>9, <2>1 DEF Round, Decoded, history
<1>11. Present(c)'
  BY <1>1, <1>6, <1>9 DEF Link, Present, Early, history
<1>12. Present(s)'
  BY <1>1, <1>6, PresentFrame DEF Link
<1> QED
  BY <1>7, <1>10, <1>11, <1>12, LocalStep DEF Link

\* and reads past the second, the server's own.
LEMMA ClientTakesMine ==
    ASSUME TypeOK, Link, ClientMine
    PROVE  Link'
<1> PICK c \in Hosts, s \in Hosts :
        /\ c = "client" /\ s = "server" /\ c # s /\ Other(c) = s /\ Hosts = {c, s}
  BY Two
<1> PICK i \in Rounds : i = comm[c]
  BY Named
<1>1. /\ pc[c] = "awaitMine" /\ DOMAIN pc = Hosts
      /\ Receive(c)
      /\ pc' = [pc EXCEPT ![c] = "post"]
      /\ UNCHANGED <<data, comm, oms, result, success, history, agent, place>>
  BY Named DEF ClientMine, Goto, agentVars
<1>2. Place(c, i) = "awaitMine" /\ Round(i)
  BY <1>1, Here
<1>3. Decoded(i) /\ HalfRead(i)
  BY <1>2, Phases
<1>4. /\ chan[i][c] = <<ListMsg(Owed(s, i))>> /\ chan[i][s] = <<>>
  BY <1>3 DEF HalfRead, Carries
<1>5. /\ chan'[i][c] = <<>> /\ chan'[i][s] = <<>>
      /\ \A j \in Rounds \ {i} : chan'[j] = chan[j]
  <2>1. /\ chan'[comm[c]][c] = Tail(chan[comm[c]][c])
        /\ chan'[comm[c]][Other(c)] = chan[comm[c]][Other(c)]
        /\ \A j \in Rounds \ {comm[c]} : chan'[j] = chan[j]
    BY <1>1, ReceiveStreams
  <2> QED
    BY <1>4, <2>1, Shorts
<1>6. pc'[c] = "post" /\ pc'[s] = pc[s]
  BY <1>1
<1>7. Local(i)
  BY <1>1, <1>5, <1>6 DEF Local, history
<1>8. Place(c, i)' = "post" /\ Place(s, i)' = Place(s, i) /\ SameSize' = SameSize
  BY <1>1, <1>6, <1>7, LocalStep
<1>9. /\ Left(i)' = Left(i) /\ Owed(c, i)' = Owed(c, i)
  BY <1>1 DEF Owed, Left, Differences, Core, Stuck, In, history
<1>10. Round(i)'
  <2>1. Over(i)'
    BY <1>3, <1>5, <1>8 DEF HalfRead, Over, At, Carries
  <2> QED
    BY <1>1, <1>3, <1>8, <1>9, <2>1 DEF Round, Decoded, history
<1>11. Present(c)'
  BY <1>1, <1>3, <1>6, <1>8, <1>9 DEF Link, Present, Early, Given, Decoded, history
<1>12. Present(s)'
  BY <1>1, <1>6, PresentFrame DEF Link
<1> QED
  BY <1>7, <1>10, <1>11, <1>12, LocalStep DEF Link

\* The server decides only on parameters and tables that it has just taken, when the
\* client is still in the round; a mismatch is the end of it.
LEMMA ServerTakesParams ==
    ASSUME TypeOK, Link, TwoWay, ServerParams
    PROVE  Link'
<1> PICK c \in Hosts, s \in Hosts :
        /\ c = "client" /\ s = "server" /\ c # s /\ Other(s) = c /\ Hosts = {c, s}
  BY Two
<1> PICK i \in Rounds : i = comm[s]
  BY Named
<1>1. /\ pc[s] = "recvParams" /\ DOMAIN pc = Hosts /\ DOMAIN result = Hosts
      /\ \/ /\ Head(chan[i][s]).token = agent[s].size
            /\ pc' = [pc EXCEPT ![s] = "recvTable"]
            /\ Answer(s, <<FineMsg>>)
            /\ UNCHANGED <<result, history>>
         \/ /\ Head(chan[i][s]).token # agent[s].size
            /\ pc' = [pc EXCEPT ![s] = "post"]
            /\ Answer(s, <<FailMsg>>)
            /\ result' = [result EXCEPT ![s] = FALSE]
            /\ Decide("fail")
      /\ UNCHANGED <<data, comm, oms, success, agent, place>>
  <2> DEFINE ok == Head(Incoming(s)).token = agent[s].size
  <2>1. FlagReply(s, ok) = <<[type |-> "flag", ok |-> ok]>>
    BY DEF FlagReply, TwoWay
  <2>2. ok => <<[type |-> "flag", ok |-> ok]>> = <<FineMsg>>
    BY DEF FineMsg
  <2>3. ~ok => <<[type |-> "flag", ok |-> ok]>> = <<FailMsg>>
    BY DEF FailMsg
  <2>4. /\ pc[s] = "recvParams" /\ Answer(s, FlagReply(s, ok))
        /\ \/ /\ ok /\ pc' = [pc EXCEPT ![s] = "recvTable"]
              /\ UNCHANGED <<result, history>>
           \/ /\ ~ok /\ pc' = [pc EXCEPT ![s] = "post"]
              /\ result' = [result EXCEPT ![s] = FALSE]
              /\ Decide("fail")
        /\ UNCHANGED <<data, comm, oms, success, agent, place>>
    BY DEF ServerParams, Goto, agentVars
  <2>5. ok <=> Head(chan[i][s]).token = agent[s].size
    BY DEF Incoming
  <2> HIDE DEF ok
  <2> QED
    BY <2>1, <2>2, <2>3, <2>4, <2>5, Named
<1>2. Place(s, i) = "recvParams" /\ Round(i)
  BY <1>1, Here
<1>3. /\ verdict[i] = "none" /\ ParamsSent(i)
      /\ chan[i][c] = <<>> /\ chan[i][s] = <<ParamsMsg>>
      /\ Place(c, i) \in {"awaitFlag", "quit"}
  BY <1>2, Phases DEF Undecided, ParamsSent, At, Carries
<1>4. comm[c] = i /\ pc[c] \in {"awaitFlag", "quit"}
  <2>1. comm[c] \in Int /\ i \in Int
    BY HostsAssumption DEF TypeOK, HostsTypeOK, Rounds
  <2> QED
    BY <1>3, <2>1 DEF Place
<1>5. Head(chan[i][s]).token = agent[s].size <=> SameSize
  BY <1>3, Shorts DEF ParamsMsg, SameSize
<1>6. CASE SameSize
  <2>1. /\ pc' = [pc EXCEPT ![s] = "recvTable"] /\ Answer(s, <<FineMsg>>)
        /\ UNCHANGED <<result, history>>
    BY <1>1, <1>5, <1>6
  <2>2. /\ chan'[i][c] = <<FineMsg>> /\ chan'[i][s] = <<>>
        /\ \A j \in Rounds \ {i} : chan'[j] = chan[j]
    <3>1. /\ chan'[comm[s]][s] = Tail(chan[comm[s]][s])
          /\ chan'[comm[s]][Other(s)] = chan[comm[s]][Other(s)] \o <<FineMsg>>
          /\ \A j \in Rounds \ {comm[s]} : chan'[j] = chan[j]
      BY <2>1, AnswerStreams
    <3>2. Tail(<<ParamsMsg>>) = <<>> /\ <<>> \o <<FineMsg>> = <<FineMsg>>
      BY Shorts
    <3> QED
      BY <1>3, <3>1, <3>2
  <2>3. pc'[s] = "recvTable" /\ pc'[c] = pc[c]
    BY <1>1, <2>1
  <2>4. Local(i)
    BY <1>1, <2>1, <2>2, <2>3 DEF Local, history
  <2>5. Place(s, i)' = "recvTable" /\ Place(c, i)' = Place(c, i) /\ SameSize' = SameSize
    BY <1>1, <2>3, <2>4, LocalStep
  <2>6. Round(i)'
    BY <1>3, <1>6, <2>1, <2>2, <2>5 DEF Round, Undecided, ParamsFine, At, Carries, history
  <2>7. Present(s)'
    BY <1>1, <1>3, <2>1, <2>3 DEF Link, Present, Early, history
  <2>8. Present(c)'
    BY <1>1, <2>1, <2>3, PresentFrame DEF Link
  <2> QED
    BY <2>4, <2>6, <2>7, <2>8, LocalStep DEF Link
<1>7. CASE ~SameSize
  <2>1. /\ pc' = [pc EXCEPT ![s] = "post"] /\ Answer(s, <<FailMsg>>)
        /\ result' = [result EXCEPT ![s] = FALSE] /\ Decide("fail")
    BY <1>1, <1>5, <1>7
  <2>2. /\ chan'[i][c] = <<FailMsg>> /\ chan'[i][s] = <<>>
        /\ \A j \in Rounds \ {i} : chan'[j] = chan[j]
    <3>1. /\ chan'[comm[s]][s] = Tail(chan[comm[s]][s])
          /\ chan'[comm[s]][Other(s)] = chan[comm[s]][Other(s)] \o <<FailMsg>>
          /\ \A j \in Rounds \ {comm[s]} : chan'[j] = chan[j]
      BY <2>1, AnswerStreams
    <3>2. Tail(<<ParamsMsg>>) = <<>> /\ <<>> \o <<FailMsg>> = <<FailMsg>>
      BY Shorts
    <3> QED
      BY <1>3, <3>1, <3>2
  <2>3. pc'[s] = "post" /\ pc'[c] = pc[c] /\ result'[s] = FALSE /\ result'[c] = result[c]
    BY <1>1, <2>1
  <2>4. /\ verdict'[i] = "fail" /\ base'[i] = data
        /\ \A j \in Rounds \ {i} : verdict'[j] = verdict[j] /\ base'[j] = base[j]
    BY <2>1 DEF Decide, TypeOK, HostsTypeOK
  <2>5. Local(i)
    BY <1>1, <1>4, <2>2, <2>3, <2>4 DEF Local
  <2>6. Place(s, i)' = "post" /\ Place(c, i)' = Place(c, i) /\ SameSize' = SameSize
    BY <1>1, <2>3, <2>5, LocalStep
  <2>7. Round(i)'
    BY <1>3, <1>7, <2>2, <2>4, <2>6 DEF Round, Refused, RefusalSent, At, Carries
  <2>8. Present(s)'
    <3>1. Given(s, i)' = {} /\ oms'[s] = {}
      BY <1>1, <1>7, <2>6 DEF Given, Link, Present, Early
    <3> QED
      BY <1>1, <2>3, <2>4, <3>1 DEF Present, Early
  <2>9. Present(c)'
    BY <1>1, <1>4, <2>3, <2>4, PresentFrame DEF Link
  <2> QED
    BY <2>5, <2>7, <2>8, <2>9, LocalStep DEF Link
<1> QED
  BY <1>6, <1>7

\* The server peels the difference of the two tables, which is that of the sets that the
\* hosts hold, and sends both lists.
LEMMA ServerTakesTable ==
    ASSUME TypeOK, Link, TwoWay, ServerTable
    PROVE  Link'
<1> PICK c \in Hosts, s \in Hosts :
        /\ c = "client" /\ s = "server" /\ c # s /\ Other(s) = c /\ Other(c) = s
        /\ Hosts = {c, s}
  BY Two
<1> PICK i \in Rounds : i = comm[s]
  BY Named
<1> DEFINE theirs == Head(Incoming(s)).set
           core == Core(SymDiff(theirs, data[s]))
           self == (data[s] \ theirs) \ core
           other == (theirs \ data[s]) \ core
<1>1. /\ pc[s] = "recvTable" /\ DOMAIN pc = Hosts /\ DOMAIN result = Hosts /\ DOMAIN oms = Hosts
      /\ chan[i][s] # <<>>
      /\ Answer(s, Lists(self, other))
      /\ oms' = [oms EXCEPT ![s] = other]
      /\ result' = [result EXCEPT ![s] = Complete(core)]
      /\ Decide(IF Complete(core) THEN "ok" ELSE "fail")
      /\ pc' = [pc EXCEPT ![s] = "post"]
      /\ UNCHANGED <<data, comm, success, agent, place>>
  BY Named DEF ServerTable, Goto, agentVars, TwoWay, Receives, Incoming
<1>2. Place(s, i) = "recvTable" /\ Round(i)
  BY <1>1, Here
<1>3. /\ verdict[i] = "none" /\ SameSize /\ TableSent(i)
      /\ chan[i][c] = <<>> /\ chan[i][s] = <<TableMsg>>
      /\ Place(c, i) \in {"awaitOthers", "quit"}
  <2>1. ~ParamsFine(i)
    BY <1>1 DEF ParamsFine, Carries
  <2> QED
    BY <1>2, <2>1, Phases DEF Undecided, TableSent, At, Carries
<1>4. comm[c] = i /\ pc[c] \in {"awaitOthers", "quit"}
  <2>1. comm[c] \in Int /\ i \in Int
    BY HostsAssumption DEF TypeOK, HostsTypeOK, Rounds
  <2> QED
    BY <1>3, <2>1 DEF Place
<1>5. theirs = data[c]
  BY <1>3, Shorts DEF TableMsg, Incoming
<1>6. /\ verdict'[i] = IF Complete(core) THEN "ok" ELSE "fail"
      /\ base'[i] = data
      /\ \A j \in Rounds \ {i} : verdict'[j] = verdict[j] /\ base'[j] = base[j]
  BY <1>1 DEF Decide, TypeOK, HostsTypeOK
\* The lists sent are the ones that the sets of the decision make due.
<1>7. Left(i)' = core
  <2>1. Differences(i)' = SymDiff(theirs, data[s])
    BY <1>1, <1>5, <1>6 DEF Differences, SymDiff
  <2>2. Left(i)' = Core(Differences(i)')
    BY <1>1 DEF Left, Core, Stuck, In
  <2> QED
    BY <2>1, <2>2, Zenon
<1>8. Owed(c, i)' = self /\ Owed(s, i)' = other
  BY <1>1, <1>5, <1>6, <1>7 DEF Owed
<1> HIDE DEF core, self, other, theirs
<1>9. /\ chan'[i][c] = <<ListMsg(self), ListMsg(other)>> /\ chan'[i][s] = <<>>
      /\ \A j \in Rounds \ {i} : chan'[j] = chan[j]
  <2>1. /\ chan'[comm[s]][s] = Tail(chan[comm[s]][s])
        /\ chan'[comm[s]][Other(s)] = chan[comm[s]][Other(s)] \o Lists(self, other)
        /\ \A j \in Rounds \ {comm[s]} : chan'[j] = chan[j]
    BY <1>1, AnswerStreams
  <2>2. Lists(self, other) = <<ListMsg(self), ListMsg(other)>>
    BY DEF Lists, ListMsg
  <2>3. /\ Tail(<<TableMsg>>) = <<>>
        /\ <<>> \o <<ListMsg(self), ListMsg(other)>> = <<ListMsg(self), ListMsg(other)>>
    BY Shorts
  <2> QED
    BY <1>3, <2>1, <2>2, <2>3
<1>10. pc'[s] = "post" /\ pc'[c] = pc[c] /\ result'[s] = Complete(core) /\ result'[c] = result[c]
       /\ oms'[s] = other /\ oms'[c] = oms[c]
  BY <1>1
<1>11. Local(i)
  BY <1>1, <1>4, <1>6, <1>9, <1>10 DEF Local
<1>12. Place(s, i)' = "post" /\ Place(c, i)' = Place(c, i) /\ SameSize' = SameSize
  BY <1>1, <1>10, <1>11, LocalStep
<1>13. Round(i)'
  <2>1. Listed(i)'
    <3>1. ListMsg(Owed("client", i))' = ListMsg(self) /\ ListMsg(Owed("server", i))' = ListMsg(other)
      BY <1>8 DEF ListMsg
    <3> QED
      BY <1>3, <1>9, <1>12, <3>1 DEF Listed, At, Carries
  <2>2. Complete(core) <=> core = {}
    BY DEF Complete
  <2> QED
    BY <1>3, <1>6, <1>7, <1>12, <2>1, <2>2 DEF Round, Decoded
<1>14. Present(s)'
  BY <1>1, <1>3, <1>6, <1>8, <1>10, <1>12 DEF Present, Early, Given, Complete
<1>15. Present(c)'
  BY <1>1, <1>4, <1>6, <1>10, PresentFrame DEF Link
<1> QED
  BY <1>11, <1>13, <1>14, <1>15, LocalStep DEF Link

(***************************************************************************)
(* The end of a round for one host.                                        *)
(***************************************************************************)
\* A host that adds its list is at the end of the round, before and after.
LEMMA PostProcesses ==
    ASSUME TypeOK, Link, NEW h \in Hosts, PostProcess(h)
    PROVE  Link'
<1> PICK i \in Rounds : i = comm[h]
  BY Named
<1>1. /\ pc[h] = "post" /\ DOMAIN pc = Hosts /\ DOMAIN comm = Hosts
      /\ DOMAIN data = Hosts /\ DOMAIN success = Hosts
      /\ success' = [success EXCEPT ![h] = success[h] /\ result[h]]
      /\ data' = [data EXCEPT ![h] = data[h] \cup oms[h]]
      /\ \/ Last(h) /\ pc' = [pc EXCEPT ![h] = "returned"] /\ UNCHANGED comm
         \/ ~Last(h) /\ pc' = [pc EXCEPT ![h] = "begin"] /\ comm' = [comm EXCEPT ![h] = i + 1]
      /\ UNCHANGED <<chan, oms, result, history, agent, place>>
  <2>1. DOMAIN pc = Hosts /\ DOMAIN comm = Hosts /\ DOMAIN data = Hosts /\ DOMAIN success = Hosts
    BY DEF TypeOK, HostsTypeOK
  <2> QED
    BY <2>1 DEF PostProcess, NextCommunicant, PostProcessing, Goto, agentVars
<1>2. Place(h, i) = "post" /\ Round(i) /\ Present(h) /\ Past(h)
  BY <1>1, Here DEF Link
<1>3. /\ comm \in [Hosts -> 1..Sessions] /\ Sessions \in Nat \ {0} /\ i \in 1..Sessions
      /\ result[h] \in BOOLEAN /\ success[h] \in BOOLEAN
  BY HostsAssumption DEF TypeOK, HostsTypeOK, Rounds
<1>4. \A g \in Hosts \ {h} : /\ pc'[g] = pc[g] /\ comm'[g] = comm[g] /\ data'[g] = data[g]
                             /\ success'[g] = success[g]
  BY <1>1
<1>5. \A g \in Hosts, j \in Rounds : Place(g, j)' = Place(g, j)
  <2>1. \A j \in Rounds : Place(h, j)' = Place(h, j)
    BY <1>1, <1>3 DEF Place, Rounds, Last
  <2> QED
    BY <1>4, <2>1 DEF Place
<1>6. \A j \in Rounds : Round(j)'
  <2> SUFFICES ASSUME NEW j \in Rounds PROVE Round(j)'
    OBVIOUS
  <2>1. Place(h, j) \in {"begin", "post"}
    BY <1>1, <1>3 DEF Place, Rounds
  <2>2. data'["client"] = data["client"] \/ Place("client", j) \in {"begin", "post"}
    BY <1>4, <2>1, HostsType
  <2> QED
    BY <1>1, <1>5, <2>2, RoundFrame DEF Link, history
<1>7. verdict[i] # "none" /\ base[i][h] = data[h] /\ oms[h] = Given(h, i)
  <2>1. verdict[i] # "none"
    BY <1>2, HostsType DEF Round, Undecided, Decoded, Refused, Idle, ParamsSent, ParamsFine,
                           TableSent, At, Hosts
  <2> QED
    BY <1>1, <1>2, <2>1 DEF Present
<1>8. \A g \in Hosts, j \in Rounds : Given(g, j)' = Given(g, j) /\ Owed(g, j)' = Owed(g, j)
  BY <1>1 DEF Given, SameSize, Owed, Left, Differences, Core, Stuck, In, history
<1>9. FinishedSessions(h) = i - 1 /\ FinishedSessions(h)' = i
  BY <1>1, <1>3 DEF FinishedSessions, Last
<1>10. Past(h)'
  <2>1. data'[h] = base'[i][h] \cup Given(h, i)'
    BY <1>1, <1>7, <1>8 DEF history
  <2>2. h = "server" /\ success'[h] => \A j \in 1..i : verdict'[j] = "ok"
    <3> SUFFICES ASSUME h = "server", success'[h], NEW j \in 1..i PROVE verdict[j] = "ok"
      BY <1>1 DEF history
    <3>1. success[h] /\ result[h]
      BY <1>1
    <3>2. verdict[i] = "ok"
      BY <1>1, <1>2, <3>1 DEF Present
    <3>3. \A l \in 1..(i - 1) : verdict[l] = "ok"
      BY <1>2, <1>9, <3>1 DEF Past
    <3> QED
      BY <1>3, <3>2, <3>3
  <2> QED
    BY <1>9, <2>1, <2>2 DEF Past
<1>11. Present(h)'
  <2>1. CASE Last(h)
    BY <1>1, <2>1 DEF Present, Early
  <2>2. CASE ~Last(h)
    <3>1. pc'[h] = "begin" /\ comm'[h] = i + 1 /\ i + 1 \in Rounds
      BY <1>1, <1>3, <2>2 DEF Last, Rounds
    <3>2. Place(h, i + 1) = "begin"
      BY <1>3 DEF Place
    <3>3. verdict[i + 1] = "none"
      BY <3>1, <3>2, Phases DEF Link, Undecided, Hosts
    <3> QED
      BY <1>1, <3>1, <3>3 DEF Present, Early, history
  <2> QED
    BY <2>1, <2>2
<1>12. ASSUME NEW g \in Hosts \ {h} PROVE Present(g)' /\ Past(g)'
  <2>1. Present(g) /\ Past(g) /\ FinishedSessions(g)' = FinishedSessions(g) /\ comm[g] \in Rounds
    BY <1>4, Named DEF Link, FinishedSessions
  <2>2. Present(g)'
    BY <1>1, <1>4, <1>8, <2>1 DEF Present, history
  <2>3. Past(g)'
    BY <1>1, <1>4, <1>8, <2>1 DEF Past, history
  <2> QED
    BY <2>2, <2>3
<1> QED
  BY <1>6, <1>10, <1>11, <1>12 DEF Link

(***************************************************************************)
(* The invariant.                                                          *)
(***************************************************************************)
\* At the start every round is idle.
LEMMA LinkStarts ==
    ASSUME Init
    PROVE  Link
<1>1. Sessions \in Nat \ {0}
  BY HostsAssumption
<1>2. \A i \in Rounds, h \in Hosts : Place(h, i) = "begin"
  BY <1>1 DEF Init, HostsInit, Place, Rounds
<1>3. ASSUME NEW i \in Rounds PROVE Round(i)
  BY <1>2, HostsType DEF Init, HostsInit, Round, Undecided, Idle, At, Carries
<1>4. 1 \in Rounds
  BY <1>1 DEF Rounds
<1>5. ASSUME NEW h \in Hosts PROVE Present(h) /\ Past(h)
  <2>1. FinishedSessions(h) = 0
    BY DEF Init, HostsInit, FinishedSessions
  <2>2. 0 \notin Rounds /\ 1..0 = {}
    BY <1>1 DEF Rounds
  <2> QED
    BY <1>4, <2>1, <2>2 DEF Init, HostsInit, Present, Past, Early
<1> QED
  BY <1>3, <1>5 DEF Link

\* Each step leaves every round in a phase.
LEMMA LinkStays ==
    ASSUME TypeOK, TwoWay, Link, [Next]_vars
    PROVE  Link'
<1>1. CASE UNCHANGED vars
  <2>1. /\ UNCHANGED <<data, pc, comm, chan, oms, result, success, history, agent, place>>
        /\ UNCHANGED <<verdict, base>>
    BY <1>1 DEF vars, hostVars, agentVars, history
  <2>2. \A h \in Hosts, i \in Rounds : Place(h, i)' = Place(h, i)
    BY <2>1 DEF Place
  <2>3. \A i \in Rounds : Round(i)'
    BY <2>1, <2>2, RoundFrame DEF Link
  <2>4. \A h \in Hosts : Present(h)' /\ Past(h)'
    BY <2>1, PresentFrame, PastFrame DEF Link
  <2> QED
    BY <2>3, <2>4 DEF Link
<1>2. ASSUME NEW h \in Hosts, HostStep(h) \/ Crash(h) PROVE Link'
  <2>1. CASE ClientConnectFails
    BY <2>1, Quits, HostsType DEF ClientConnectFails, Ended
  <2>2. CASE PeerGone(h)
    BY <2>2, Quits DEF PeerGone, Deserted, ClientWaits, ServerWaits, Ended
  <2>3. CASE Crash(h)
    BY <2>3, Quits DEF Crash, Killed
  <2> QED
    BY <1>2, <2>1, <2>2, <2>3, Begins, ClientConnects, ClientTakesFlag, ClientTakesOthers,
       ClientTakesMine, ServerTakesParams, ServerTakesTable, PostProcesses
    DEF HostStep, ClientStep, ServerStep
<1> QED
  BY <1>1, <1>2 DEF Next

\* The agents are constant.
LEMMA AgentsStay ==
    ASSUME [Next]_vars
    PROVE  UNCHANGED agentVars
BY DEF Next, HostStep, ClientStep, ServerStep, ClientConnect, ClientConnectFails, ClientFlag,
       ClientOthers, ClientMine, ServerParams, ServerTable, Begin, PostProcess, PeerGone, Crash,
       agentVars, vars

\* Reachable states have their types, and two-way rounds are in their phases.
THEOREM ListsInvariance == Spec => []IInv
<1>1. Init => IInv
  BY InitTypeOK, LinkStarts DEF IInv
<1>2. IInv /\ [Next]_vars => IInv'
  <2> SUFFICES ASSUME IInv, [Next]_vars PROVE IInv'
    OBVIOUS
  <2>1. TypeOK'
    BY TypesStay DEF IInv
  <2>2. TwoWay' <=> TwoWay
    BY AgentsStay DEF TwoWay, agentVars
  <2>3. TwoWay => Link'
    BY LinkStays DEF IInv
  <2> QED
    BY <2>1, <2>2, <2>3 DEF IInv
<1> QED
  BY <1>1, <1>2, PTL DEF Spec

(***************************************************************************)
(* What follows.                                                           *)
(***************************************************************************)
\* Each host that ends a session holds exactly its own list, what it lacked of the sets
\* the server decoded but for the core, however the session ended and whatever
\* the sessions before it left behind.
THEOREM ListsAreExact == Spec => []ListsExact
<1>1. IInv => ListsExact
  BY DEF IInv, Link, ListsExact, Present, Given, Owed, Left
<1> QED
  BY <1>1, ListsInvariance, PTL

\* Merging adds no difference and loses nothing: between sessions exactly the core is
\* left of what the hosts differed in.
THEOREM TheCoreRemains == Spec => []CoreRemains
<1>1. IInv => CoreRemains
  <2> SUFFICES ASSUME IInv, NEW i \in Rounds, TwoWay, SameSize,
                      \A h \in Hosts : FinishedSessions(h) = i
               PROVE  SymDiff(data["client"], data["server"]) = Core(Differences(i))
    BY DEF CoreRemains
  <2> PICK c \in Hosts, s \in Hosts :
          /\ c = "client" /\ s = "server" /\ c # s /\ Other(s) = c /\ Other(c) = s
    BY Two
  <2>1. \A h \in Hosts : data[h] = base[i][h] \cup Given(h, i)
    BY DEF IInv, Link, Past
  <2>2. \A h \in Hosts : data[h] = base[i][h] \cup ((base[i][Other(h)] \ base[i][h]) \ Left(i))
    BY <2>1 DEF Given, Owed
  <2>3. Left(i) \subseteq (base[i][c] \ base[i][s]) \cup (base[i][s] \ base[i][c])
    BY CoreWithin DEF Left, Differences
  <2>4. (data[c] \ data[s]) \cup (data[s] \ data[c]) = Left(i)
    BY <2>2, <2>3
  <2> QED
    BY <2>4 DEF Left, SymDiff
<1> QED
  BY <1>1, ListsInvariance, PTL

\* A server that reports success is right: when both hosts have returned they hold the
\* same elements.
THEOREM ServerIsRight == Spec => []ServerKnows
<1>1. IInv => ServerKnows
  <2> SUFFICES ASSUME IInv, TwoWay, success["server"], \A h \in Hosts : pc[h] = "returned"
               PROVE  data["client"] = data["server"]
    BY DEF ServerKnows
  <2> PICK c \in Hosts, s \in Hosts :
          /\ c = "client" /\ s = "server" /\ c # s /\ Other(s) = c /\ Other(c) = s
    BY Two
  <2>1. Sessions \in Rounds /\ Sessions \in 1..Sessions
    BY HostsAssumption DEF Rounds
  <2>2. \A h \in Hosts : FinishedSessions(h) = Sessions
    BY DEF FinishedSessions
  <2>3. verdict[Sessions] = "ok" /\ Round(Sessions)
    BY <2>1, <2>2 DEF IInv, Link, Past
  <2>4. SameSize /\ Left(Sessions) = {}
    BY <2>3 DEF Round, Undecided, Decoded, Refused
  <2>5. \A h \in Hosts : data[h] = base[Sessions][h] \cup (base[Sessions][Other(h)] \ base[Sessions][h])
    BY <2>1, <2>2, <2>4 DEF IInv, Link, Past, Given, Owed
  <2> QED
    BY <2>5
<1> QED
  BY <1>1, ListsInvariance, PTL
=============================================================================
