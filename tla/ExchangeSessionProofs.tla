------------------------- MODULE ExchangeSessionProofs -------------------------
(***************************************************************************)
(* Theorems about ExchangeSession, for all constants.                      *)
(*                                                                         *)
(* A filter tells of what was stored in it, and of nothing that its marks  *)
(* do not mask; each round is in a phase, as in CPISessionProofs, and a    *)
(* list is on its way only in phases in which the sets that it was made    *)
(* from are still those of the decision.                                   *)
(***************************************************************************)
EXTENDS ExchangeSession, TLAPS

(***************************************************************************)
(* Types.                                                                  *)
(***************************************************************************)
\* Each host's peer is the other host.
LEMMA HostsType ==
    /\ "client" \in Hosts /\ "server" \in Hosts
    /\ \A h \in Hosts : Other(h) \in Hosts /\ Other(h) # h /\ Other(Other(h)) = h
BY DEF Hosts, Other

\* Names for the two hosts.
LEMMA Two ==
    \E c \in Hosts, s \in Hosts :
        /\ c = "client" /\ s = "server" /\ c # s /\ Other(c) = s /\ Other(s) = c
        /\ Hosts = {c, s}
BY DEF Hosts, Other

\* What the agents are and what marks the elements have.
LEMMA SetupTypes ==
    ASSUME [agent |-> agent, marks |-> marks] \in Setups
    PROVE  /\ agent \in [Hosts -> AgentType] /\ marks \in [Elem -> (SUBSET Marks) \ {{}}]
           /\ Kind \in {"full", "bloom", "cuckoo"}
           /\ \A h \in Hosts : agent[h].par \in Tokens
           /\ LastMarks \in SUBSET Marks /\ (Kind # "cuckoo" => LastMarks = {})
<1>1. [agent |-> agent, marks |-> marks]
         \in [agent : [Hosts -> AgentType], marks : [Elem -> (SUBSET Marks) \ {{}}]]
  BY ExchangeAssumption
<1>2. agent \in [Hosts -> AgentType] /\ marks \in [Elem -> (SUBSET Marks) \ {{}}]
  BY <1>1
<1>3. Kind # "cuckoo" => LastMarks = {}
  <2> PICK s \in Setups : s = [agent |-> agent, marks |-> marks]
    OBVIOUS
  <2>1. s.agent = agent
    OBVIOUS
  <2>2. s.agent["client"].kind # "cuckoo" => s.agent["client"].tail = {}
    BY ExchangeAssumption
  <2> QED
    BY <2>1, <2>2 DEF Kind, LastMarks
<1> QED
  BY <1>2, <1>3, HostsType DEF AgentType, Kinds, Kind, LastMarks

\* A filter of elements is a set of marks.
LEMMA FilterTypes ==
    ASSUME [agent |-> agent, marks |-> marks] \in Setups, NEW S \in SUBSET Elem,
           NEW F \in FiltersOf(S)
    PROVE  F \in SUBSET Marks
<1>1. \A e \in S : marks[e] \in SUBSET Marks
  BY SetupTypes
<1>2. CASE Kind = "bloom"
  BY <1>1, <1>2 DEF FiltersOf, MarksOf
<1>3. CASE Kind = "cuckoo"
  <2>1. PICK at \in Places(S) : F = {at[e] : e \in S}
    BY <1>3 DEF FiltersOf
  <2>2. \A e \in S : at[e] \in Marks
    BY <2>1 DEF Places
  <2> QED
    BY <2>1, <2>2
<1>4. CASE Kind = "full"
  BY <1>4 DEF FiltersOf
<1> QED
  BY <1>2, <1>3, <1>4, SetupTypes

\* What is sent is a message, and the sets that messages carry are sets of elements.
LEMMA MessageTypes ==
    /\ \A p \in Tokens : [type |-> "params", par |-> p] \in Message
    /\ \A F \in SUBSET Marks : [type |-> "filter", marks |-> F] \in Message
    /\ \A S \in SUBSET Elem : [type |-> "set", set |-> S] \in Message /\ List(S) \in Message
    /\ \A m \in Message : m.type \in {"set", "list"} => m.set \in SUBSET Elem
BY DEF Message, List

\* The stream of the host in its round.
LEMMA StreamTypes ==
    ASSUME TypeOK, NEW h \in Hosts
    PROVE  /\ chan \in [Rounds -> [Hosts -> Seq(Message)]]
           /\ comm[h] \in Rounds /\ chan[comm[h]] \in [Hosts -> Seq(Message)]
           /\ Incoming(h) = chan[comm[h]][h] /\ Incoming(h) \in Seq(Message)
           /\ Other(h) \in Hosts /\ Other(h) # h
BY HostsType DEF TypeOK, HostsTypeOK, Incoming

\* The streams keep their type under each of the three ways an action uses them.
LEMMA ChanTypes ==
    ASSUME TypeOK, NEW h \in Hosts, NEW msgs \in Seq(Message)
    PROVE  /\ Send(h, msgs) => chan' \in [Rounds -> [Hosts -> Seq(Message)]]
           /\ Incoming(h) # <<>> =>
                 /\ Head(Incoming(h)) \in Message
                 /\ Receive(h) => chan' \in [Rounds -> [Hosts -> Seq(Message)]]
                 /\ Answer(h, msgs) => chan' \in [Rounds -> [Hosts -> Seq(Message)]]
<1> DEFINE q == chan[comm[h]][h]
           r == chan[comm[h]][Other(h)] \o msgs
<1>1. chan[comm[h]][Other(h)] \in Seq(Message)
  BY StreamTypes
<1>2. r \in Seq(Message)
  BY <1>1
<1>3. q \in Seq(Message) /\ (q # <<>> => Tail(q) \in Seq(Message) /\ Head(q) \in Message)
  BY StreamTypes
<1>4. ASSUME Send(h, msgs) PROVE chan' \in [Rounds -> [Hosts -> Seq(Message)]]
  <2>1. chan' = [chan EXCEPT ![comm[h]][Other(h)] = r]
    BY <1>4, StreamTypes DEF Send
  <2> HIDE DEF r
  <2> QED
    BY <1>2, <2>1, StreamTypes
<1>5. ASSUME Incoming(h) # <<>>, Receive(h) PROVE chan' \in [Rounds -> [Hosts -> Seq(Message)]]
  <2>1. Tail(q) \in Seq(Message) /\ chan' = [chan EXCEPT ![comm[h]][h] = Tail(q)]
    BY <1>3, <1>5, StreamTypes DEF Receive
  <2> HIDE DEF q
  <2> QED
    BY <2>1, StreamTypes
<1>6. ASSUME Incoming(h) # <<>>, Answer(h, msgs) PROVE chan' \in [Rounds -> [Hosts -> Seq(Message)]]
  <2>1. /\ Tail(q) \in Seq(Message)
        /\ chan' = [chan EXCEPT ![comm[h]][h] = Tail(q), ![comm[h]][Other(h)] = r]
    BY <1>3, <1>6, StreamTypes DEF Answer
  <2> HIDE DEF q, r
  <2> QED
    BY <1>2, <2>1, StreamTypes
<1> QED
  BY <1>3, <1>4, <1>5, <1>6, StreamTypes

\* What an action that only sends or receives in the session may change.
LEMMA SameTypes ==
    ASSUME TypeOK, NEW h \in Hosts, NEW label, pc' = [pc EXCEPT ![h] = label],
           h = "client" => label \in ClientPC, h = "server" => label \in ServerPC,
           chan' \in [Rounds -> [Hosts -> Seq(Message)]],
           open' \in [Rounds -> [Hosts -> BOOLEAN]],
           oms' \in [Hosts -> SUBSET Elem], smo' \in [Hosts -> SUBSET Elem],
           rest' \in [Rounds -> [Hosts -> Rests]],
           result' \in [Hosts -> BOOLEAN],
           verdict' \in [Rounds -> {"none", "ok", "fail"}],
           base' \in [Rounds -> [Hosts -> SUBSET Elem]],
           UNCHANGED <<data, comm, success, agent, marks, filter, stored>>
    PROVE  TypeOK'
<1>1. /\ pc'["client"] \in ClientPC /\ pc'["server"] \in ServerPC /\ DOMAIN pc' = Hosts
  BY HostsType DEF TypeOK, HostsTypeOK, Hosts
<1>2. Message' = Message /\ ClientPC' = ClientPC
  OBVIOUS
<1> QED
  BY <1>1 DEF TypeOK, HostsTypeOK

\* The initial states have their types.
LEMMA InitTypeOK == Init => TypeOK
<1> SUFFICES ASSUME Init PROVE TypeOK
  OBVIOUS
<1>1. 1 \in Rounds
  BY HostsAssumption DEF Rounds
<1>2. open \in [Rounds -> [Hosts -> BOOLEAN]] /\ chan \in [Rounds -> [Hosts -> Seq(Message)]]
  BY DEF Init, HostsInit
<1>3. [agent |-> agent, marks |-> marks] \in Setups
  <2>1. PICK t \in Setups : agent = t.agent /\ marks = t.marks
    BY DEF Init
  <2>2. t \in [agent : [Hosts -> AgentType], marks : [Elem -> (SUBSET Marks) \ {{}}]]
    BY ExchangeAssumption
  <2>3. t = [agent |-> agent, marks |-> marks]
    BY <2>1, <2>2
  <2> QED
    BY <2>3
<1>4. rest \in [Rounds -> [Hosts -> Rests]] /\ smo \in [Hosts -> SUBSET Elem]
  BY DEF Init, Rests
<1>5. filter \in [Hosts -> SUBSET Marks] /\ stored \in [Hosts -> SUBSET Elem]
  BY DEF Init
<1>6. HostsTypeOK(ClientPC, ServerPC, Message)
  BY <1>1, <1>2, HostsType DEF Init, HostsInit, HostsTypeOK, ClientPC, ServerPC
<1> QED
  BY <1>3, <1>4, <1>5, <1>6 DEF TypeOK

\* The ends of the communicants keep their type when a host closes one or quits, the
\* history when the server decides.
LEMMA OpenTypes ==
    ASSUME TypeOK, NEW h \in Hosts
    PROVE  /\ Close(h) => open' \in [Rounds -> [Hosts -> BOOLEAN]]
           /\ Quit(h) => open' \in [Rounds -> [Hosts -> BOOLEAN]]
<1>1. /\ open \in [Rounds -> [Hosts -> BOOLEAN]] /\ comm[h] \in Rounds
      /\ open[comm[h]] \in [Hosts -> BOOLEAN] /\ FALSE \in BOOLEAN
  BY DEF TypeOK, HostsTypeOK
<1>2. Close(h) => open' \in [Rounds -> [Hosts -> BOOLEAN]]
  BY <1>1 DEF Close
<1>3. Quit(h) => open' \in [Rounds -> [Hosts -> BOOLEAN]]
  BY <1>1 DEF Quit
<1> QED
  BY <1>2, <1>3

\* Types, when a host quits.
LEMMA QuitTypes ==
    ASSUME TypeOK, NEW h \in Hosts, Quit(h),
           UNCHANGED <<data, comm, chan, oms, result, success, history, agentVars>>
    PROVE  TypeOK'
<1>1. open' \in [Rounds -> [Hosts -> BOOLEAN]]
  BY OpenTypes
<1>2. pc' = [pc EXCEPT ![h] = "quit"]
  BY DEF Quit, Goto
<1> QED
  BY <1>1, <1>2, SameTypes
  DEF TypeOK, HostsTypeOK, history, agentVars, ClientPC, ServerPC, Ended

\* The history keeps its type when the server decides.
LEMMA DecideTypes ==
    ASSUME TypeOK, NEW v \in {"ok", "fail"}, Decide(v)
    PROVE  /\ verdict' \in [Rounds -> {"none", "ok", "fail"}]
           /\ base' \in [Rounds -> [Hosts -> SUBSET Elem]]
BY HostsType DEF TypeOK, HostsTypeOK, Decide

\* What a host sends.
LEMMA SentTypes ==
    ASSUME TypeOK, NEW h \in Hosts
    PROVE  /\ <<Params(h)>> \in Seq(Message) /\ <<Filter(h)>> \in Seq(Message)
           /\ <<Params(h), Filter(h)>> \in Seq(Message)
           /\ <<[type |-> "set", set |-> data[h]]>> \in Seq(Message)
           /\ \A F : Missing(h, F) \in SUBSET Elem /\ <<List(Missing(h, F))>> \in Seq(Message)
                     /\ FilterReply(h, Missing(h, F)) \in Seq(Message)
           /\ <<List(smo[h])>> \in Seq(Message)
           /\ data[h] \in SUBSET Elem
<1>1. data[h] \in SUBSET Elem /\ smo[h] \in SUBSET Elem /\ filter[h] \in SUBSET Marks
  BY DEF TypeOK, HostsTypeOK
<1>2. Params(h) \in Message
  BY SetupTypes, MessageTypes DEF TypeOK, Params
<1>3. Filter(h) \in Message /\ [type |-> "set", set |-> data[h]] \in Message /\ List(smo[h]) \in Message
  BY <1>1, MessageTypes DEF Filter
<1>4. ASSUME NEW F PROVE Missing(h, F) \in SUBSET Elem /\ List(Missing(h, F)) \in Message
  <2>1. Missing(h, F) \in SUBSET Elem
    BY <1>1 DEF Missing
  <2> QED
    BY <2>1, MessageTypes
<1>5. ASSUME NEW F PROVE FilterReply(h, Missing(h, F)) \in Seq(Message)
  BY <1>3, <1>4 DEF FilterReply
<1> QED
  BY <1>1, <1>2, <1>3, <1>4, <1>5

\* What a host takes from a filter keeps its type.
LEMMA LookTypes ==
    ASSUME TypeOK, NEW h \in Hosts, NEW F, NEW sent, NEW byte \in LastByte(sent),
           LooksInto(h, F, byte)
    PROVE  smo' \in [Hosts -> SUBSET Elem] /\ rest' \in [Rounds -> [Hosts -> Rests]]
<1>1. Missing(h, F) \in SUBSET Elem
  BY SentTypes
<1>2. byte \in Rests
  BY DEF LastByte, Rests
<1>3. smo \in [Hosts -> SUBSET Elem] /\ rest \in [Rounds -> [Hosts -> Rests]]
  BY DEF TypeOK
<1>4. smo' = [smo EXCEPT ![h] = Missing(h, F)] /\ rest' = [rest EXCEPT ![comm[h]][h] = byte]
  BY DEF LooksInto
<1>5. rest' \in [Rounds -> [Hosts -> Rests]]
  BY <1>2, <1>3, <1>4, StreamTypes
<1> QED
  BY <1>1, <1>3, <1>4, <1>5

\* Types, over the client's steps in a session.
LEMMA ClientTypes ==
    ASSUME TypeOK, ClientStep
    PROVE  TypeOK'
<1> PICK h \in Hosts, s \in Hosts : h = "client" /\ s = "server"
  BY HostsType
<1>1. /\ {"awaitOthers", "post", "awaitList", "awaitFilter"} \subseteq ClientPC
      /\ <<>> \in Seq(Message) /\ rest \in [Rounds -> [Hosts -> Rests]]
      /\ oms \in [Hosts -> SUBSET Elem] /\ smo \in [Hosts -> SUBSET Elem]
      /\ open \in [Rounds -> [Hosts -> BOOLEAN]] /\ result \in [Hosts -> BOOLEAN]
      /\ verdict \in [Rounds -> {"none", "ok", "fail"}]
      /\ base \in [Rounds -> [Hosts -> SUBSET Elem]]
  BY DEF ClientPC, ClientWaits, TypeOK, HostsTypeOK
<1>2. CASE Connect
  <2>1. open' \in [Rounds -> [Hosts -> BOOLEAN]]
    BY <1>2, StreamTypes DEF Connect, TypeOK, HostsTypeOK
  <2>2. /\ chan' \in [Rounds -> [Hosts -> Seq(Message)]]
        /\ \E x \in {"awaitMine", "awaitParams", "awaitFilter"}, y \in {"recvSet", "recvParams", "recvFilter"} :
              pc' = [pc EXCEPT ![h] = x, ![s] = y]
    BY <1>2, SentTypes, ChanTypes DEF Connect
  <2> QED
    BY <1>2, <2>1, <2>2, HostsType
    DEF Connect, TypeOK, HostsTypeOK, history, agentVars, ClientPC, ServerPC, ClientWaits,
        ServerWaits
<1>3. CASE ConnectFails
  BY <1>3, QuitTypes DEF ConnectFails
<1>4. CASE ClientMine
  <2>1. Incoming(h) # <<>> /\ Receive(h) /\ Head(Incoming(h)).type = "list"
    BY <1>4 DEF ClientMine, Receives
  <2>2. /\ chan' \in [Rounds -> [Hosts -> Seq(Message)]]
        /\ Head(Incoming(h)).set \in SUBSET Elem
    BY <1>1, <2>1, ChanTypes, MessageTypes
  <2>3. smo' \in [Hosts -> SUBSET Elem] /\ pc' = [pc EXCEPT ![h] = "awaitOthers"]
    BY <1>1, <1>4, <2>2 DEF ClientMine, Goto
  <2> QED
    BY <1>1, <1>4, <2>2, <2>3, SameTypes DEF ClientMine, history
<1>5. CASE ClientOthers
  <2>1. Incoming(h) # <<>> /\ Receive(h) /\ Head(Incoming(h)).type = "list"
    BY <1>5 DEF ClientOthers, Receives
  <2>2. /\ chan' \in [Rounds -> [Hosts -> Seq(Message)]]
        /\ Head(Incoming(h)).set \in SUBSET Elem
    BY <1>1, <2>1, ChanTypes, MessageTypes
  <2>3. oms' \in [Hosts -> SUBSET Elem] /\ pc' = [pc EXCEPT ![h] = "post"]
    BY <1>1, <1>5, <2>2 DEF ClientOthers, Goto
  <2>4. open' \in [Rounds -> [Hosts -> BOOLEAN]]
    BY <1>5, OpenTypes DEF ClientOthers
  <2> QED
    BY <1>1, <1>5, <2>2, <2>3, <2>4, SameTypes DEF ClientOthers, history, agentVars
<1>6. CASE ClientParams
  <2>1. /\ Incoming(h) # <<>>
        /\ Answer(h, <<Params(h), Filter(h)>>) \/ Answer(h, <<Params(h)>>)
    BY <1>6 DEF ClientParams, Receives, Reject
  <2>2. chan' \in [Rounds -> [Hosts -> Seq(Message)]]
    BY <2>1, SentTypes, ChanTypes
  <2>3. /\ result' \in [Hosts -> BOOLEAN]
        /\ \E label \in {"awaitList", "post"} : pc' = [pc EXCEPT ![h] = label]
    BY <1>1, <1>6 DEF ClientParams, Goto
  <2> QED
    BY <1>1, <1>6, <2>2, <2>3, SameTypes DEF ClientParams, history, agentVars
<1>7. CASE ClientFilter
  <2> DEFINE sent == Head(Incoming(h)).marks
  <2>6. PICK F \in Received(sent), byte \in LastByte(sent) :
           LooksInto(h, F, byte) /\ Answer(h, <<List(Missing(h, F))>>)
    BY <1>7 DEF ClientFilter
  <2>7. rest' \in [Rounds -> [Hosts -> Rests]]
    BY <2>6, LookTypes
  <2> DEFINE mine == Missing(h, F)
  <2>1. mine \in SUBSET Elem /\ <<List(mine)>> \in Seq(Message)
    BY SentTypes
  <2>2. Incoming(h) # <<>> /\ Answer(h, <<List(mine)>>)
    BY <1>7, <2>6 DEF ClientFilter, Receives
  <2>3. chan' \in [Rounds -> [Hosts -> Seq(Message)]]
    BY <2>1, <2>2, ChanTypes
  <2>4. /\ smo' = [smo EXCEPT ![h] = mine]
        /\ \E label \in {"awaitList", "post"} : pc' = [pc EXCEPT ![h] = label]
        /\ UNCHANGED <<data, comm, open, oms, result, success, verdict, base, agent, marks, filter, stored>>
    BY <1>7, <2>6 DEF ClientFilter, LooksInto, Goto, history
  <2> HIDE DEF mine, sent
  <2>5. smo' \in [Hosts -> SUBSET Elem]
    BY <1>1, <2>1, <2>4
  <2> QED
    BY <1>1, <2>3, <2>4, <2>5, <2>7, SameTypes
<1>8. CASE ClientList
  <2>1. Incoming(h) # <<>> /\ Receive(h) /\ Head(Incoming(h)).type = "list"
    BY <1>8 DEF ClientList, Receives
  <2>2. /\ chan' \in [Rounds -> [Hosts -> Seq(Message)]]
        /\ Head(Incoming(h)).set \in SUBSET Elem
    BY <1>1, <2>1, ChanTypes, MessageTypes
  <2>3. /\ oms' \in [Hosts -> SUBSET Elem]
        /\ \E label \in {"awaitFilter", "post"} : pc' = [pc EXCEPT ![h] = label]
    BY <1>1, <1>8, <2>2 DEF ClientList, Goto
  <2> QED
    BY <1>1, <1>8, <2>2, <2>3, SameTypes DEF ClientList, history, agentVars
<1> QED
  BY <1>2, <1>3, <1>4, <1>5, <1>6, <1>7, <1>8 DEF ClientStep

\* Types, over the server's steps in a session.
LEMMA ServerTypes ==
    ASSUME TypeOK, ServerStep
    PROVE  TypeOK'
<1> PICK h \in Hosts, c \in Hosts : h = "server" /\ c = "client"
  BY HostsType
<1>1. /\ {"recvFilter", "recvList", "post"} \subseteq ServerPC
      /\ <<>> \in Seq(Message) /\ rest \in [Rounds -> [Hosts -> Rests]]
      /\ oms \in [Hosts -> SUBSET Elem] /\ smo \in [Hosts -> SUBSET Elem]
      /\ open \in [Rounds -> [Hosts -> BOOLEAN]] /\ result \in [Hosts -> BOOLEAN]
      /\ verdict \in [Rounds -> {"none", "ok", "fail"}]
      /\ base \in [Rounds -> [Hosts -> SUBSET Elem]]
  BY DEF ServerPC, ServerWaits, TypeOK, HostsTypeOK
<1>2. CASE ServerSet
  <2> DEFINE theirs == Head(Incoming(h)).set
             other == theirs \ data[h]
             self == data[h] \ theirs
  <2>1. Incoming(h) # <<>> /\ Head(Incoming(h)).type = "set"
    BY <1>2 DEF ServerSet, Receives
  <2>2. theirs \in SUBSET Elem /\ data[h] \in SUBSET Elem
    BY <1>1, <2>1, ChanTypes, MessageTypes DEF TypeOK, HostsTypeOK
  <2> HIDE DEF theirs
  <2>3. other \in SUBSET Elem /\ self \in SUBSET Elem
    BY <2>2
  <2>4. /\ oms' = [oms EXCEPT ![h] = other] /\ smo' = [smo EXCEPT ![h] = self]
        /\ Answer(h, DifferencesReply(other, self)) /\ Decide("ok") /\ Close(h)
        /\ pc' = [pc EXCEPT ![h] = "post"]
        /\ UNCHANGED <<data, comm, result, success, agent, marks, filter, stored, rest>>
    BY <1>2 DEF ServerSet, Goto, theirs, other, self
  <2> HIDE DEF other, self
  <2>5. DifferencesReply(other, self) \in Seq(Message)
    <3>1. List(other) \in Message /\ List(self) \in Message
      BY <2>3, MessageTypes
    <3> QED
      BY <3>1 DEF DifferencesReply
  <2>6. chan' \in [Rounds -> [Hosts -> Seq(Message)]]
    BY <2>1, <2>4, <2>5, ChanTypes
  <2>7. oms' \in [Hosts -> SUBSET Elem] /\ smo' \in [Hosts -> SUBSET Elem]
    BY <1>1, <2>3, <2>4
  <2>8. open' \in [Rounds -> [Hosts -> BOOLEAN]]
    BY <2>4, OpenTypes
  <2> QED
    BY <1>1, <2>4, <2>6, <2>7, <2>8, DecideTypes, SameTypes
<1>3. CASE ServerParams
  <2>1. chan' \in [Rounds -> [Hosts -> Seq(Message)]]
    BY <1>1, <1>3, ChanTypes DEF ServerParams, Receives
  <2>2. /\ verdict' \in [Rounds -> {"none", "ok", "fail"}]
        /\ base' \in [Rounds -> [Hosts -> SUBSET Elem]]
    <3>1. UNCHANGED history \/ Decide("fail")
      BY <1>3 DEF ServerParams
    <3> QED
      BY <1>1, <3>1, DecideTypes DEF history
  <2>3. /\ result' \in [Hosts -> BOOLEAN]
        /\ \E label \in {"recvFilter", "post"} : pc' = [pc EXCEPT ![h] = label]
    BY <1>1, <1>3 DEF ServerParams, Goto
  <2> QED
    BY <1>1, <1>3, <2>1, <2>2, <2>3, SameTypes DEF ServerParams, agentVars
<1>4. CASE ServerFilter
  <2> DEFINE sent == Head(Incoming(h)).marks
  <2>5. PICK F \in Received(sent), byte \in LastByte(sent) :
           LooksInto(h, F, byte) /\ Answer(h, FilterReply(h, Missing(h, F)))
    BY <1>4 DEF ServerFilter
  <2>6. rest' \in [Rounds -> [Hosts -> Rests]]
    BY <2>5, LookTypes
  <2> DEFINE mine == Missing(h, F)
  <2>1. mine \in SUBSET Elem /\ FilterReply(h, mine) \in Seq(Message)
    BY SentTypes
  <2>2. /\ Incoming(h) # <<>> /\ Answer(h, FilterReply(h, mine))
        /\ smo' = [smo EXCEPT ![h] = mine] /\ pc' = [pc EXCEPT ![h] = "recvList"]
        /\ Decide("ok")
    BY <1>4, <2>5 DEF ServerFilter, LooksInto, Receives, Goto
  <2> HIDE DEF mine, sent
  <2>3. chan' \in [Rounds -> [Hosts -> Seq(Message)]]
    BY <2>1, <2>2, ChanTypes
  <2>4. smo' \in [Hosts -> SUBSET Elem]
    BY <1>1, <2>1, <2>2
  <2> QED
    BY <1>1, <1>4, <2>2, <2>3, <2>4, <2>6, DecideTypes, SameTypes DEF ServerFilter
<1>5. CASE ServerList
  <2>1. /\ Incoming(h) # <<>> /\ Head(Incoming(h)).type = "list"
        /\ Answer(h, <<>>) \/ Answer(h, <<List(smo[h])>>)
    BY <1>5 DEF ServerList, Receives
  <2>2. /\ chan' \in [Rounds -> [Hosts -> Seq(Message)]]
        /\ Head(Incoming(h)).set \in SUBSET Elem
    BY <1>1, <2>1, SentTypes, ChanTypes, MessageTypes
  <2>3. oms' \in [Hosts -> SUBSET Elem] /\ pc' = [pc EXCEPT ![h] = "post"]
    BY <1>1, <1>5, <2>2 DEF ServerList, Goto
  <2> QED
    BY <1>1, <1>5, <2>2, <2>3, SameTypes DEF ServerList, history, agentVars
<1> QED
  BY <1>2, <1>3, <1>4, <1>5 DEF ServerStep

\* Types, over the steps that either host takes.
LEMMA HostTypes ==
    ASSUME TypeOK, NEW h \in Hosts,
           Begin(h) \/ Misread(h) \/ PostProcess(h) \/ PeerGone(h) \/ Crash(h)
    PROVE  TypeOK'
<1>1. CASE Begin(h)
  <2>1. \/ h = "client" /\ pc' = [pc EXCEPT ![h] = "connecting"]
        \/ h = "server" /\ pc' = [pc EXCEPT ![h] = "listening"]
    BY <1>1 DEF Begin, Goto, Hosts
  <2>2. /\ oms' \in [Hosts -> SUBSET Elem] /\ smo' \in [Hosts -> SUBSET Elem]
        /\ result' \in [Hosts -> BOOLEAN]
    BY <1>1 DEF Begin, TypeOK, HostsTypeOK
  <2> QED
    BY <1>1, <2>1, <2>2, SameTypes
    DEF Begin, TypeOK, HostsTypeOK, history, ClientPC, ServerPC, ClientWaits
<1>2. CASE PostProcess(h)
  <2>1. data' \in [Hosts -> SUBSET Elem]
    BY <1>2 DEF PostProcess, NextCommunicant, PostProcessing, TypeOK, HostsTypeOK
  <2>2. comm' \in [Hosts -> Rounds]
    <3>1. comm[h] \in Rounds
      BY StreamTypes
    <3>2. ~Last(h) => comm[h] + 1 \in Rounds
      BY <3>1, HostsAssumption DEF Last, Rounds
    <3>3. \/ UNCHANGED comm
          \/ ~Last(h) /\ comm' = [comm EXCEPT ![h] = comm[h] + 1]
      BY <1>2, StreamTypes DEF PostProcess, NextCommunicant, TypeOK, HostsTypeOK
    <3> QED
      BY <3>2, <3>3 DEF TypeOK, HostsTypeOK
  <2>3. \E label \in {"returned", "begin"} : pc' = [pc EXCEPT ![h] = label]
    BY <1>2 DEF PostProcess, NextCommunicant, Goto
  <2>4. success' \in [Hosts -> BOOLEAN]
    BY <1>2 DEF PostProcess, NextCommunicant, TypeOK, HostsTypeOK
  <2>5. stored' \in [Hosts -> SUBSET Elem] /\ filter' \in [Hosts -> SUBSET Marks]
    <3>1. PICK T \in Inserted(oms[h]) :
             /\ stored' = [stored EXCEPT ![h] = stored[h] \cup T]
             /\ \E F \in FiltersOf(stored[h] \cup T) : filter' = [filter EXCEPT ![h] = F]
      BY <1>2 DEF PostProcess, AddToFilter, TypeOK
    <3>2. T \in SUBSET Elem /\ stored[h] \in SUBSET Elem
      BY <3>1 DEF Inserted, TypeOK, HostsTypeOK
    <3>3. PICK F \in FiltersOf(stored[h] \cup T) : filter' = [filter EXCEPT ![h] = F]
      BY <3>1
    <3>4. F \in SUBSET Marks
      BY <3>2, <3>3, FilterTypes DEF TypeOK
    <3> QED
      BY <3>1, <3>2, <3>3, <3>4 DEF TypeOK
  <2> QED
    BY <1>2, <2>1, <2>2, <2>3, <2>4, <2>5, HostsType
    DEF PostProcess, TypeOK, HostsTypeOK, history, ClientPC, ServerPC, Ended
<1>3. CASE PeerGone(h)
  BY <1>3, QuitTypes DEF PeerGone, Deserted, Reset
<1>4. CASE Crash(h)
  BY <1>4, QuitTypes DEF Crash, Killed
<1>5. CASE Misread(h)
  <2>1. Incoming(h) # <<>> /\ Receive(h)
    BY <1>5 DEF Misread, Receives
  <2>2. chan' \in [Rounds -> [Hosts -> Seq(Message)]]
    <3>1. <<>> \in Seq(Message)
      OBVIOUS
    <3> QED
      BY <2>1, <3>1, ChanTypes
  <2>3. pc' = [pc EXCEPT ![h] = "misread"] /\ rest' \in [Rounds -> [Hosts -> Rests]]
    BY <1>5, StreamTypes DEF Misread, Goto, TypeOK, Rests
  <2> QED
    BY <1>5, <2>2, <2>3, SameTypes
    DEF Misread, TypeOK, HostsTypeOK, history, ClientPC, ServerPC, ClientWaits, ServerWaits
<1> QED
  BY <1>1, <1>2, <1>3, <1>4, <1>5

\* Each step keeps the types.
LEMMA TypesStay ==
    ASSUME TypeOK, [Next]_vars
    PROVE  TypeOK'
<1>1. CASE UNCHANGED vars
  BY <1>1 DEF vars, hostVars, history, agentVars, TypeOK, HostsTypeOK
<1> QED
  BY <1>1, ClientTypes, ServerTypes, HostTypes DEF Next, HostStep

(***************************************************************************)
(* What a filter tells.                                                    *)
(***************************************************************************)
\* The filter of host h is one of the elements whose insertion succeeded, all of them
\* but with a cuckoo filter.
Kept(h) ==
    /\ stored[h] \subseteq data[h]
    /\ Kind # "cuckoo" => stored[h] = data[h]
    /\ filter[h] \in FiltersOf(stored[h])

\* A filter shows what is stored in it, whichever marks evictions have left, and nothing
\* else but what the elements of its host mask.
LEMMA FilterTells ==
    ASSUME TypeOK, NEW h \in Hosts, Kept(h), NEW e \in Elem, Kind # "full"
    PROVE  /\ e \in stored[h] => Found(filter[h], e)
           /\ Found(filter[h], e) => Masked(e, data[h])
<1>1. CASE Kind = "bloom"
  <2>1. filter[h] = MarksOf(stored[h]) /\ stored[h] = data[h]
    BY <1>1 DEF Kept, FiltersOf
  <2> QED
    BY <1>1, <2>1 DEF MarksOf, Found, Masked
<1>2. CASE Kind = "cuckoo"
  <2>1. PICK at \in Places(stored[h]) : filter[h] = {at[x] : x \in stored[h]}
    BY <1>2 DEF Kept, FiltersOf
  <2>2. \A x \in stored[h] : at[x] \in marks[x] /\ at[x] \in filter[h]
    BY <2>1 DEF Places
  <2>3. e \in stored[h] => Found(filter[h], e)
    BY <1>2, <2>2 DEF Found
  <2>4. ASSUME Found(filter[h], e) PROVE Masked(e, data[h])
    <3>1. PICK m \in filter[h] : m \in marks[e]
      BY <1>2, <2>4 DEF Found
    <3>2. PICK x \in stored[h] : m = at[x]
      BY <2>1, <3>1
    <3> QED
      BY <1>2, <2>2, <3>1, <3>2 DEF Masked, Kept
  <2> QED
    BY <2>3, <2>4
<1> QED
  BY <1>1, <1>2, SetupTypes DEF TypeOK

\* So does the filter that arrives, but for elements with a mark in its last byte.
LEMMA ReceivedTells ==
    ASSUME TypeOK, NEW h \in Hosts, Kept(h), NEW e \in Elem, Kind # "full",
           NEW F \in Received(filter[h])
    PROVE  /\ e \in stored[h] => Found(F, e) \/ Torn(e)
           /\ Found(F, e) => Masked(e, data[h]) \/ Torn(e)
<1>1. PICK T \in SUBSET LastMarks : F = (filter[h] \ LastMarks) \cup T
  BY DEF Received
<1>2. CASE Kind = "bloom"
  <2>1. LastMarks = {}
    BY <1>2, SetupTypes DEF TypeOK
  <2>2. F = filter[h]
    BY <1>1, <2>1
  <2> QED
    BY <2>2, FilterTells
<1>3. CASE Kind = "cuckoo"
  <2>1. ~Torn(e) => marks[e] \cap F = marks[e] \cap filter[h]
    BY <1>1 DEF Torn
  <2>2. ~Torn(e) => (Found(F, e) <=> Found(filter[h], e))
    BY <1>3, <2>1 DEF Found
  <2> QED
    BY <2>2, FilterTells
<1> QED
  BY <1>2, <1>3, SetupTypes DEF TypeOK

\* What a host sends a peer after a look at its filter is what the peer is due.
LEMMA MissingIsDue ==
    ASSUME TypeOK, NEW h \in Hosts, Kept(Other(h)), Kind # "full",
           NEW F \in Received(filter[Other(h)])
    PROVE  LET S == Missing(h, F)
               g == Other(h)
           IN
           /\ S \subseteq data[h] /\ \A e \in S \cap stored[g] : Torn(e)
           /\ \A e \in (data[h] \ data[g]) \ S : Masked(e, data[g]) \/ Torn(e)
<1>1. Other(h) \in Hosts /\ data[h] \in SUBSET Elem
  BY HostsType DEF TypeOK, HostsTypeOK
<1>2. \A e \in Elem : /\ e \in stored[Other(h)] => Found(F, e) \/ Torn(e)
                      /\ Found(F, e) => Masked(e, data[Other(h)]) \/ Torn(e)
  BY <1>1, ReceivedTells
<1> DEFINE S == Missing(h, F)
<1>3. ASSUME NEW e PROVE e \in S <=> e \in data[h] /\ ~Found(F, e)
  BY Zenon DEF Missing
<1> HIDE DEF S
<1>4. ASSUME NEW e \in S, e \in stored[Other(h)] PROVE Torn(e)
  <2>1. e \in data[h] /\ ~Found(F, e)
    BY <1>3, <1>4, Zenon
  <2>2. e \in Elem
    BY <1>1, <2>1
  <2> QED
    BY <1>2, <1>4, <2>1, <2>2, Zenon
<1>5. ASSUME NEW e \in data[h], e \notin data[Other(h)], e \notin S
      PROVE  Masked(e, data[Other(h)]) \/ Torn(e)
  <2>1. Found(F, e)
    BY <1>3, <1>5, Zenon
  <2>2. e \in Elem
    BY <1>1
  <2> QED
    BY <1>2, <2>1, <2>2, Zenon
<1>6. S \subseteq data[h]
  BY <1>3, Zenon
<1> QED
  BY <1>4, <1>5, <1>6, Zenon DEF S

(***************************************************************************)
(* The phases of a round between matching agents.                          *)
(***************************************************************************)
\* Where host h is in round i.
Place(h, i) ==
    IF comm[h] < i THEN "begin"
    ELSE IF comm[h] > i \/ pc[h] = "returned" THEN "post" ELSE pc[h]

At(i, cs, ss) ==
    Place("client", i) \in cs \cup {"quit"} /\ Place("server", i) \in ss \cup {"quit"}
Carries(i, toClient, toServer) ==
    chan[i]["client"] = toClient /\ chan[i]["server"] = toServer

ParamsMsg == [type |-> "params", par |-> agent["client"].par]
SetMsg == [type |-> "set", set |-> data["client"]]

\* S is a list that is sent to host h in round i: what the peer held and h did not
\* store, and all that the peer held and h did not, but for what h masks and what has a
\* mark in the last byte of a filter.
Due(h, i, S) ==
    /\ S \subseteq base[i][Other(h)] /\ \A e \in S \cap stored[h] : Torn(e)
    /\ \A e \in (base[i][Other(h)] \ base[i][h]) \ S : Masked(e, base[i][h]) \/ Torn(e)

Idle(i) ==
    /\ At(i, {"begin", "connecting"}, {"begin", "listening"})
    /\ Carries(i, <<>>, <<>>)

\* Up to the decision: the set of FullSync, the parameters of BloomFilterSync and the
\* client's filter are on their way.
SetSent(i) ==
    /\ Kind = "full"
    /\ At(i, {"awaitMine"}, {"recvSet"}) /\ Carries(i, <<>>, <<SetMsg>>)
ParamsSent(i) ==
    /\ Kind = "bloom"
    /\ At(i, {"awaitParams"}, {"recvParams"}) /\ Carries(i, <<ParamsMsg>>, <<>>)
ParamsAnswered(i) ==
    /\ Kind = "bloom"
    /\ At(i, {"awaitList"}, {"recvParams"})
    /\ Carries(i, <<>>, <<ParamsMsg, Filter("client")>>)
FilterSent(i) ==
    /\ Kind # "full"
    /\ At(i, {IF Kind = "bloom" THEN "awaitList" ELSE "awaitFilter"}, {"recvFilter"})
    /\ Carries(i, <<>>, <<Filter("client")>>)

Undecided(i) ==
    /\ verdict[i] = "none"
    /\ Idle(i) \/ SetSent(i) \/ ParamsSent(i) \/ ParamsAnswered(i) \/ FilterSent(i)

\* From the decision on: the lists, and the server's filter.
BothListed(i) ==
    /\ Kind = "full"
    /\ At(i, {"awaitMine"}, {"post"})
    /\ \E T, S \in SUBSET Elem : Carries(i, <<List(T), List(S)>>, <<>>) /\ Due("client", i, S)
HalfRead(i) ==
    /\ Kind = "full"
    /\ At(i, {"awaitOthers"}, {"post"})
    /\ \E S \in SUBSET Elem : Carries(i, <<List(S)>>, <<>>) /\ Due("client", i, S)
ListAndFilter(i) ==
    /\ Kind = "bloom"
    /\ At(i, {"awaitList"}, {"recvList"})
    /\ \E S \in SUBSET Elem : Carries(i, <<List(S), Filter("server")>>, <<>>) /\ Due("client", i, S)
FilterReplied(i) ==
    /\ Kind # "full"
    /\ At(i, {"awaitFilter"}, {"recvList"})
    /\ Carries(i, <<Filter("server")>>, <<>>)
    /\ Kind = "cuckoo" => Due("client", i, smo["server"])
ClientListed(i) ==
    /\ Kind # "full"
    /\ At(i, {IF Kind = "bloom" THEN "post" ELSE "awaitList"}, {"recvList"})
    /\ \E S \in SUBSET Elem : Carries(i, <<>>, <<List(S)>>) /\ Due("server", i, S)
    /\ Kind = "cuckoo" => Due("client", i, smo["server"])
ServerListed(i) ==
    /\ Kind = "cuckoo"
    /\ At(i, {"awaitList"}, {"post"})
    /\ \E S \in SUBSET Elem : Carries(i, <<List(S)>>, <<>>) /\ Due("client", i, S)
Stuck(i) ==
    /\ Kind = "cuckoo"
    /\ At(i, {"awaitList"}, {"misread"}) \/ At(i, {"misread"}, {"post"})
    /\ Carries(i, <<>>, <<>>)
Over(i) == At(i, {"post"}, {"post"}) /\ Carries(i, <<>>, <<>>)

Decided(i) ==
    /\ verdict[i] = "ok"
    /\ \/ BothListed(i) \/ HalfRead(i) \/ ListAndFilter(i) \/ FilterReplied(i)
       \/ ClientListed(i) \/ ServerListed(i) \/ Stuck(i) \/ Over(i)

Round(i) == Undecided(i) \/ Decided(i)

\* The session in hand of a host: its list was due, and its set is still the one of
\* the decision.
Present(h) ==
    LET i == comm[h] IN
    /\ pc[h] = "post" \/ (pc[h] = "awaitFilter" /\ Kind = "bloom") => Due(h, i, oms[h])
    /\ pc[h] # "returned" /\ verdict[i] # "none" => base[i][h] = data[h]

Link == (\A i \in Rounds : Round(i)) /\ (\A h \in Hosts : Present(h))

\* The last byte of a filter that does not fill it lies before the list, and then nothing
\* is taken from the list; there is no such byte otherwise.
Bytes(h) ==
    /\ LastMarks = {} => \A i \in Rounds : rest[i][h] = "none"
    /\ pc[h] \in {"awaitParams", "recvParams", "recvSet", "awaitMine", "awaitOthers"} =>
          LastMarks = {}
    /\ pc[h] \in {"awaitList", "recvList"} =>
          LastMarks = {} \/ rest[comm[h]][h] \in {"zero", "nonzero"}
    /\ pc[h] = "post" => LastMarks = {} \/ oms[h] = {}

IInv == TypeOK /\ (\A h \in Hosts : Kept(h) /\ Bytes(h)) /\ (Matched => Link)

(***************************************************************************)
(* Frames: what a step leaves as it was.                                   *)
(***************************************************************************)
\* A list that is due stays due while its host stores nothing.
LEMMA DueFrame ==
    ASSUME NEW h \in Hosts, NEW i \in Rounds, NEW S, Due(h, i, S), UNCHANGED <<agent, marks>>,
           base'[i] = base[i], stored'[h] = stored[h]
    PROVE  Due(h, i, S)'
BY DEF Due, Masked, MarksOf, Kind, Torn, LastMarks

\* A round in which no host moves but to quit, and those in the middle of it change
\* nothing that messages on their way speak of.
LEMMA RoundFrame ==
    ASSUME NEW i \in Rounds, Round(i), UNCHANGED <<agent, marks>>,
           \A g \in Hosts : Place(g, i)' = Place(g, i) \/ Place(g, i)' = "quit",
           chan'[i] = chan[i], verdict'[i] = verdict[i], base'[i] = base[i],
           \A g \in Hosts : \/ Place(g, i) \in {"begin", "post"}
                            \/ /\ data'[g] = data[g] /\ stored'[g] = stored[g]
                               /\ filter'[g] = filter[g] /\ smo'[g] = smo[g]
    PROVE  Round(i)'
<1> PICK c \in Hosts, s \in Hosts : c = "client" /\ s = "server" /\ c # s
  BY Two
<1>1. Kind' = Kind /\ ParamsMsg' = ParamsMsg
  BY DEF Kind, ParamsMsg
<1>2. \A cs, ss : At(i, cs, ss) => At(i, cs, ss)'
  BY HostsType DEF At
<1>3. \A x, y : Carries(i, x, y) => Carries(i, x, y)'
  BY DEF Carries
<1>4. Undecided(i) => Undecided(i)'
  <2>1. SetSent(i) => SetSent(i)'
    <3> SUFFICES ASSUME SetSent(i) PROVE SetSent(i)'
      OBVIOUS
    <3>1. SetMsg' = SetMsg
      BY DEF SetSent, At, SetMsg
    <3> QED
      BY <1>1, <1>2, <3>1 DEF SetSent, Carries
  <2>2. ParamsAnswered(i) => ParamsAnswered(i)'
    <3> SUFFICES ASSUME ParamsAnswered(i) PROVE ParamsAnswered(i)'
      OBVIOUS
    <3>1. Filter("client")' = Filter("client")
      BY DEF ParamsAnswered, At, Filter
    <3> QED
      BY <1>1, <1>2, <3>1 DEF ParamsAnswered, Carries
  <2>3. FilterSent(i) => FilterSent(i)'
    <3> SUFFICES ASSUME FilterSent(i) PROVE FilterSent(i)'
      OBVIOUS
    <3>1. Filter("client")' = Filter("client")
      BY DEF FilterSent, At, Filter
    <3> QED
      BY <1>1, <1>2, <3>1 DEF FilterSent, Carries
  <2>4. ParamsSent(i) => ParamsSent(i)'
    BY <1>1, <1>2 DEF ParamsSent, Carries
  <2> QED
    BY <1>2, <2>1, <2>2, <2>3, <2>4 DEF Undecided, Idle, Carries
<1>5. Decided(i) => Decided(i)'
  <2>1. BothListed(i) => BothListed(i)'
    <3> SUFFICES ASSUME BothListed(i) PROVE BothListed(i)'
      OBVIOUS
    <3>1. PICK T \in SUBSET Elem, S \in SUBSET Elem :
             Carries(i, <<List(T), List(S)>>, <<>>) /\ Due(c, i, S)
      BY DEF BothListed
    <3>2. Due(c, i, S)'
      BY <3>1, DueFrame DEF BothListed, At
    <3> QED
      BY <1>1, <1>2, <3>1, <3>2 DEF BothListed, Carries, List
  <2>2. HalfRead(i) => HalfRead(i)'
    <3> SUFFICES ASSUME HalfRead(i) PROVE HalfRead(i)'
      OBVIOUS
    <3>1. PICK S \in SUBSET Elem : Carries(i, <<List(S)>>, <<>>) /\ Due(c, i, S)
      BY DEF HalfRead
    <3>2. Due(c, i, S)'
      BY <3>1, DueFrame DEF HalfRead, At
    <3> QED
      BY <1>1, <1>2, <3>1, <3>2 DEF HalfRead, Carries, List
  <2>3. ListAndFilter(i) => ListAndFilter(i)'
    <3> SUFFICES ASSUME ListAndFilter(i) PROVE ListAndFilter(i)'
      OBVIOUS
    <3>1. PICK S \in SUBSET Elem : Carries(i, <<List(S), Filter(s)>>, <<>>) /\ Due(c, i, S)
      BY DEF ListAndFilter
    <3>2. Due(c, i, S)' /\ Filter(s)' = Filter(s)
      BY <3>1, DueFrame DEF ListAndFilter, At, Filter
    <3> QED
      BY <1>1, <1>2, <3>1, <3>2 DEF ListAndFilter, Carries, List
  <2>4. FilterReplied(i) => FilterReplied(i)'
    <3> SUFFICES ASSUME FilterReplied(i) PROVE FilterReplied(i)'
      OBVIOUS
    <3>1. Filter(s)' = Filter(s) /\ smo'[s] = smo[s] /\ stored'[c] = stored[c]
      BY DEF FilterReplied, At, Filter
    <3>2. Kind = "cuckoo" => Due(c, i, smo[s])'
      BY <3>1 DEF FilterReplied, Due, Masked, MarksOf, Kind, Torn, LastMarks
    <3> QED
      BY <1>1, <1>2, <3>1, <3>2 DEF FilterReplied, Carries
  <2>5. ClientListed(i) => ClientListed(i)'
    <3> SUFFICES ASSUME ClientListed(i) PROVE ClientListed(i)'
      OBVIOUS
    <3>1. PICK S \in SUBSET Elem : Carries(i, <<>>, <<List(S)>>) /\ Due(s, i, S)
      BY DEF ClientListed
    <3>2. Due(s, i, S)' /\ smo'[s] = smo[s]
      BY <3>1, DueFrame DEF ClientListed, At
    <3>3. Kind = "cuckoo" => stored'[c] = stored[c]
      BY DEF ClientListed, At
    <3>4. Kind = "cuckoo" => Due(c, i, smo[s])'
      BY <3>2, <3>3 DEF ClientListed, Due, Masked, MarksOf, Kind, Torn, LastMarks
    <3> QED
      BY <1>1, <1>2, <3>1, <3>2, <3>4 DEF ClientListed, Carries, List
  <2>6. ServerListed(i) => ServerListed(i)'
    <3> SUFFICES ASSUME ServerListed(i) PROVE ServerListed(i)'
      OBVIOUS
    <3>1. PICK S \in SUBSET Elem : Carries(i, <<List(S)>>, <<>>) /\ Due(c, i, S)
      BY DEF ServerListed
    <3>2. Due(c, i, S)'
      BY <3>1, DueFrame DEF ServerListed, At
    <3> QED
      BY <1>1, <1>2, <3>1, <3>2 DEF ServerListed, Carries, List
  <2> QED
    BY <1>1, <1>2, <2>1, <2>2, <2>3, <2>4, <2>5, <2>6 DEF Decided, Over, Stuck, Carries
<1> QED
  BY <1>4, <1>5 DEF Round

\* A host that does not move, in a step that decides nothing or its round in hand.
LEMMA PresentFrame ==
    ASSUME NEW h \in Hosts, Present(h), UNCHANGED <<agent, marks>>, comm[h] \in Rounds,
           comm'[h] = comm[h], pc'[h] = pc[h], data'[h] = data[h], stored'[h] = stored[h],
           oms'[h] = oms[h],
           \/ UNCHANGED history
           \/ pc[h] \notin {"post", "awaitFilter"} /\ base'[comm[h]] = data
           \/ pc[h] = "awaitFilter" /\ Kind = "cuckoo" /\ base'[comm[h]] = data
    PROVE  Present(h)'
<1>1. Kind' = Kind
  BY DEF Kind
<1>2. CASE UNCHANGED history
  <2>1. Due(h, comm[h], oms[h]) => Due(h, comm[h], oms[h])'
    BY <1>2 DEF Due, Masked, MarksOf, Kind, Torn, LastMarks, history
  <2> QED
    BY <1>1, <1>2, <2>1 DEF Present, history
<1>3. CASE ~UNCHANGED history
  BY <1>1, <1>3 DEF Present
<1> QED
  BY <1>2, <1>3

(***************************************************************************)
(* A step in which hosts move only in round i, and decide nothing else.    *)
(***************************************************************************)
Local(i) ==
    /\ UNCHANGED <<data, comm, agent, marks, filter, stored>>
    /\ \A j \in Rounds \ {i} :
          chan'[j] = chan[j] /\ verdict'[j] = verdict[j] /\ base'[j] = base[j]
    /\ \A g \in Hosts : /\ comm[g] = i \/ smo'[g] = smo[g]
                        /\ \/ pc'[g] = pc[g]
                           \/ comm[g] = i /\ pc[g] # "returned" /\ pc'[g] # "returned"

\* Such a step leaves the other rounds in their phases, and moves a host in round i from
\* the place that its program counter says to the one that it says then.
LEMMA LocalStep ==
    ASSUME TypeOK, Link, NEW i \in Rounds, Local(i)
    PROVE  /\ Kind' = Kind /\ ParamsMsg' = ParamsMsg /\ SetMsg' = SetMsg
           /\ \A g \in Hosts : Filter(g)' = Filter(g)
           /\ \A j \in Rounds \ {i} : Round(j)'
           /\ \A g \in Hosts : comm[g] = i /\ pc[g] # "returned" =>
                 Place(g, i) = pc[g] /\ (pc'[g] # "returned" => Place(g, i)' = pc'[g])
           /\ \A g \in Hosts : pc'[g] = pc[g] => Place(g, i)' = Place(g, i)
<1>1. comm \in [Hosts -> 1..Sessions] /\ Sessions \in Nat /\ i \in 1..Sessions
  BY HostsAssumption DEF TypeOK, HostsTypeOK, Rounds
<1>2. /\ Kind' = Kind /\ ParamsMsg' = ParamsMsg /\ SetMsg' = SetMsg
      /\ \A g \in Hosts : Filter(g)' = Filter(g)
  BY DEF Local, Kind, ParamsMsg, SetMsg, Filter
<1>3. \A g \in Hosts : comm[g] = i /\ pc[g] # "returned" =>
         Place(g, i) = pc[g] /\ (pc'[g] # "returned" => Place(g, i)' = pc'[g])
  BY <1>1 DEF Local, Place
<1>4. \A g \in Hosts, j \in Rounds : pc'[g] = pc[g] => Place(g, j)' = Place(g, j)
  BY DEF Local, Place
<1>5. ASSUME NEW j \in Rounds \ {i} PROVE Round(j)'
  <2>1. \A g \in Hosts : Place(g, j)' = Place(g, j)
    BY <1>1, <1>4 DEF Local, Place, Rounds
  <2>2. \A g \in Hosts : Place(g, j) \in {"begin", "post"} \/ smo'[g] = smo[g]
    BY <1>1 DEF Local, Place, Rounds
  <2> QED
    BY <2>1, <2>2, RoundFrame DEF Local, Link
<1> QED
  BY <1>2, <1>3, <1>4, <1>5

(***************************************************************************)
(* The streams of a round after each of the three uses.                    *)
(***************************************************************************)
\* A sender adds to the peer's stream,
LEMMA SendStreams ==
    ASSUME TypeOK, NEW h \in Hosts, NEW msgs, Send(h, msgs)
    PROVE  /\ chan'[comm[h]][h] = chan[comm[h]][h]
           /\ chan'[comm[h]][Other(h)] = chan[comm[h]][Other(h)] \o msgs
           /\ \A j \in Rounds \ {comm[h]} : chan'[j] = chan[j]
BY StreamTypes DEF Send

\* a receiver takes from its own,
LEMMA ReceiveStreams ==
    ASSUME TypeOK, NEW h \in Hosts, Receive(h)
    PROVE  /\ chan'[comm[h]][h] = Tail(chan[comm[h]][h])
           /\ chan'[comm[h]][Other(h)] = chan[comm[h]][Other(h)]
           /\ \A j \in Rounds \ {comm[h]} : chan'[j] = chan[j]
BY StreamTypes DEF Receive

\* and one that answers does both.
LEMMA AnswerStreams ==
    ASSUME TypeOK, NEW h \in Hosts, NEW msgs, Answer(h, msgs)
    PROVE  /\ chan'[comm[h]][h] = Tail(chan[comm[h]][h])
           /\ chan'[comm[h]][Other(h)] = chan[comm[h]][Other(h)] \o msgs
           /\ \A j \in Rounds \ {comm[h]} : chan'[j] = chan[j]
BY StreamTypes DEF Answer

\* Streams of up to two messages.
LEMMA Shorts ==
    ASSUME NEW x, NEW y
    PROVE  /\ Tail(<<x>>) = <<>> /\ Head(<<x>>) = x /\ <<>> \o <<x>> = <<x>>
           /\ Tail(<<x, y>>) = <<y>> /\ Head(<<x, y>>) = x /\ <<>> \o <<x, y>> = <<x, y>>
           /\ <<>> \o <<>> = <<>>
OBVIOUS

\* The phases in which a host can take what a message says.
LEMMA Phases ==
    ASSUME NEW i \in Rounds, Round(i)
    PROVE  LET c == Place("client", i)
               s == Place("server", i)
           IN
           /\ c \in {"begin", "connecting"} => Undecided(i) /\ Idle(i)
           /\ c = "awaitMine" => (Undecided(i) /\ SetSent(i)) \/ (Decided(i) /\ BothListed(i))
           /\ c = "awaitOthers" => Decided(i) /\ HalfRead(i)
           /\ c = "awaitParams" => Undecided(i) /\ ParamsSent(i)
           /\ c = "awaitList" =>
                 \/ Undecided(i) /\ (ParamsAnswered(i) \/ FilterSent(i))
                 \/ /\ Decided(i)
                    /\ ListAndFilter(i) \/ ClientListed(i) \/ ServerListed(i) \/ Stuck(i)
           /\ c = "awaitFilter" =>
                 (Undecided(i) /\ FilterSent(i)) \/ (Decided(i) /\ FilterReplied(i))
           /\ c = "post" => Decided(i)
           /\ s \in {"begin", "listening"} => Undecided(i) /\ Idle(i)
           /\ s = "recvSet" => Undecided(i) /\ SetSent(i)
           /\ s = "recvParams" => Undecided(i) /\ (ParamsSent(i) \/ ParamsAnswered(i))
           /\ s = "recvFilter" => Undecided(i) /\ FilterSent(i)
           /\ s = "recvList" => Decided(i) /\ (ListAndFilter(i) \/ FilterReplied(i) \/ ClientListed(i))
           /\ s = "post" => Decided(i)
BY DEF Round, Undecided, Decided, Idle, SetSent, ParamsSent, ParamsAnswered, FilterSent,
       BothListed, HalfRead, ListAndFilter, FilterReplied, ClientListed, ServerListed, Stuck,
       Over, At

\* A host is where its program counter says.
LEMMA Here ==
    ASSUME TypeOK, Link, NEW h \in Hosts, pc[h] # "returned"
    PROVE  comm[h] \in Rounds /\ Place(h, comm[h]) = pc[h] /\ Round(comm[h])
<1>1. comm[h] \in Rounds /\ comm[h] \in Int
  BY HostsAssumption DEF TypeOK, HostsTypeOK, Rounds
<1> QED
  BY <1>1 DEF Place, Link

\* A host in the middle of a round, or one that quit there, is in that round.
LEMMA There ==
    ASSUME TypeOK, NEW h \in Hosts, NEW i \in Rounds, Place(h, i) \notin {"begin", "post"}
    PROVE  comm[h] = i /\ pc[h] = Place(h, i)
<1>1. comm[h] \in Int /\ i \in Int
  BY HostsAssumption DEF TypeOK, HostsTypeOK, Rounds
<1> QED
  BY <1>1 DEF Place

\* The domains of the hosts' variables, and the round of a host.
LEMMA Named ==
    ASSUME TypeOK, NEW h \in Hosts
    PROVE  /\ DOMAIN pc = Hosts /\ DOMAIN oms = Hosts /\ DOMAIN smo = Hosts /\ DOMAIN result = Hosts
           /\ comm[h] \in Rounds
BY DEF TypeOK, HostsTypeOK

\* A host that quits.
LEMMA Quits ==
    ASSUME TypeOK, Link, NEW h \in Hosts, Quit(h), pc[h] \notin Ended,
           UNCHANGED <<data, comm, chan, oms, result, success, history, agentVars>>
    PROVE  Link'
<1>1. comm \in [Hosts -> 1..Sessions] /\ Sessions \in Nat /\ DOMAIN pc = Hosts
  BY HostsAssumption DEF TypeOK, HostsTypeOK, Rounds
<1>2. pc'[h] = "quit" /\ \A g \in Hosts \ {h} : pc'[g] = pc[g]
  BY <1>1 DEF Quit, Goto
<1>3. \A i \in Rounds : Round(i)'
  <2> SUFFICES ASSUME NEW i \in Rounds PROVE Round(i)'
    OBVIOUS
  <2>1. \A g \in Hosts : Place(g, i)' = Place(g, i) \/ Place(g, i)' = "quit"
    BY <1>1, <1>2 DEF Place, Ended
  <2> QED
    BY <2>1, RoundFrame DEF Link, history, agentVars
<1>4. \A g \in Hosts \ {h} : Present(g)'
  BY <1>2, PresentFrame, Named DEF Link, history, agentVars
<1>5. Present(h)'
  BY <1>2 DEF Link, Present, history, Ended
<1> QED
  BY <1>3, <1>4, <1>5 DEF Link

(***************************************************************************)
(* The steps up to the decision.                                           *)
(***************************************************************************)
\* A host begins: the round stays idle.
LEMMA Begins ==
    ASSUME TypeOK, Link, NEW h \in Hosts, Begin(h)
    PROVE  Link'
<1> PICK c \in Hosts, s \in Hosts : c = "client" /\ s = "server" /\ c # s /\ Hosts = {c, s}
  BY Two
<1> PICK i \in Rounds : i = comm[h]
  BY Named
<1>1. /\ pc[h] = "begin" /\ DOMAIN pc = Hosts /\ DOMAIN oms = Hosts /\ DOMAIN smo = Hosts
      /\ pc' = [pc EXCEPT ![h] = IF h = c THEN "connecting" ELSE "listening"]
      /\ oms' = [oms EXCEPT ![h] = {}] /\ smo' = [smo EXCEPT ![h] = {}]
      /\ UNCHANGED <<data, comm, chan, success, history, agent, marks, filter, stored>>
  BY Named DEF Begin, Goto
<1>2. Place(h, i) = "begin" /\ Round(i)
  BY <1>1, Here
<1>3. Undecided(i) /\ Idle(i)
  BY <1>2, Phases, HostsType DEF Hosts
<1>4. Local(i)
  BY <1>1 DEF Local, history
<1>5. Place(h, i)' = pc'[h] /\ \A g \in Hosts \ {h} : Place(g, i)' = Place(g, i)
  BY <1>1, <1>4, LocalStep
<1>6. Round(i)'
  <2>1. Idle(i)'
    BY <1>1, <1>3, <1>5 DEF Idle, At, Carries
  <2> QED
    BY <1>1, <1>3, <2>1 DEF Round, Undecided, history
<1>7. Present(h)'
  BY <1>1, <1>3 DEF Present, Undecided, history
<1>8. \A g \in Hosts \ {h} : Present(g)'
  BY <1>1, PresentFrame, Named DEF Link
<1> QED
  BY <1>4, <1>6, <1>7, <1>8, LocalStep DEF Link

\* The client's set, its filter or the server's parameters go out.
LEMMA Connects ==
    ASSUME TypeOK, Link, Matched, Connect
    PROVE  Link'
<1> PICK c \in Hosts, s \in Hosts :
        /\ c = "client" /\ s = "server" /\ c # s /\ Other(c) = s /\ Other(s) = c /\ Hosts = {c, s}
  BY Two
<1> PICK i \in Rounds : i = comm[c]
  BY Named
<1>1. /\ pc[c] = "connecting" /\ pc[s] = "listening" /\ comm[s] = i /\ DOMAIN pc = Hosts
      /\ \/ /\ Kind = "full"
            /\ pc' = [pc EXCEPT ![c] = "awaitMine", ![s] = "recvSet"] /\ Send(c, <<SetMsg>>)
         \/ /\ Kind = "bloom"
            /\ pc' = [pc EXCEPT ![c] = "awaitParams", ![s] = "recvParams"]
            /\ Send(s, <<ParamsMsg>>)
         \/ /\ Kind = "cuckoo"
            /\ pc' = [pc EXCEPT ![c] = "awaitFilter", ![s] = "recvFilter"]
            /\ Send(c, <<Filter(c)>>)
      /\ UNCHANGED <<data, comm, oms, result, success, history, agent, marks, filter, stored, smo>>
  <2>1. Params(s) = ParamsMsg
    BY DEF Params, ParamsMsg, Matched
  <2> QED
    BY <2>1, Named DEF Connect, Listening, SetMsg, agentVars
<1>2. Place(c, i) = "connecting" /\ Place(s, i) = "listening" /\ Round(i)
  BY <1>1, Here
<1>3. Undecided(i) /\ Idle(i) /\ chan[i][c] = <<>> /\ chan[i][s] = <<>>
  BY <1>2, Phases DEF Idle, Carries
<1>4. /\ Kind = "full" => chan'[i][c] = <<>> /\ chan'[i][s] = <<SetMsg>>
      /\ Kind = "bloom" => chan'[i][c] = <<ParamsMsg>> /\ chan'[i][s] = <<>>
      /\ Kind = "cuckoo" => chan'[i][c] = <<>> /\ chan'[i][s] = <<Filter(c)>>
      /\ \A j \in Rounds \ {i} : chan'[j] = chan[j]
  <2>1. ASSUME NEW h \in Hosts, NEW m, Send(h, <<m>>)
        PROVE  /\ chan'[i][h] = <<>> /\ chan'[i][Other(h)] = <<m>>
               /\ \A j \in Rounds \ {i} : chan'[j] = chan[j]
    <3>1. comm[h] = i /\ chan[i][h] = <<>> /\ chan[i][Other(h)] = <<>>
      BY <1>1, <1>3
    <3>2. /\ chan'[i][h] = chan[i][h] /\ chan'[i][Other(h)] = chan[i][Other(h)] \o <<m>>
          /\ \A j \in Rounds \ {i} : chan'[j] = chan[j]
      <4>1. /\ chan'[comm[h]][h] = chan[comm[h]][h]
            /\ chan'[comm[h]][Other(h)] = chan[comm[h]][Other(h)] \o <<m>>
            /\ \A j \in Rounds \ {comm[h]} : chan'[j] = chan[j]
        BY <2>1, SendStreams, Zenon
      <4> QED
        BY <3>1, <4>1, Zenon
    <3>3. <<>> \o <<m>> = <<m>>
      BY Shorts
    <3> QED
      BY <3>1, <3>2, <3>3
  <2>2. CASE Kind = "full"
    BY <1>1, <2>1, <2>2
  <2>3. CASE Kind = "bloom"
    BY <1>1, <2>1, <2>3
  <2>4. CASE Kind = "cuckoo"
    BY <1>1, <2>1, <2>4
  <2> QED
    BY <1>1, <2>2, <2>3, <2>4
<1>5. /\ Kind = "full" => pc'[c] = "awaitMine" /\ pc'[s] = "recvSet"
      /\ Kind = "bloom" => pc'[c] = "awaitParams" /\ pc'[s] = "recvParams"
      /\ Kind = "cuckoo" => pc'[c] = "awaitFilter" /\ pc'[s] = "recvFilter"
      /\ Kind \in {"full", "bloom", "cuckoo"}
  BY <1>1
<1>6. Local(i)
  BY <1>1, <1>4, <1>5 DEF Local, history
<1>7. /\ Place(c, i)' = pc'[c] /\ Place(s, i)' = pc'[s]
      /\ Kind' = Kind /\ ParamsMsg' = ParamsMsg /\ SetMsg' = SetMsg /\ Filter(c)' = Filter(c)
  BY <1>1, <1>5, <1>6, LocalStep
<1>8. Round(i)'
  <2>1. verdict'[i] = "none"
    BY <1>1, <1>3 DEF Undecided, history
  <2>2. CASE Kind = "full"
    BY <1>4, <1>5, <1>7, <2>1, <2>2 DEF Round, Undecided, SetSent, At, Carries
  <2>3. CASE Kind = "bloom"
    BY <1>4, <1>5, <1>7, <2>1, <2>3 DEF Round, Undecided, ParamsSent, At, Carries
  <2>4. CASE Kind = "cuckoo"
    BY <1>4, <1>5, <1>7, <2>1, <2>4 DEF Round, Undecided, FilterSent, At, Carries
  <2> QED
    BY <1>5, <2>2, <2>3, <2>4
<1>9. \A g \in Hosts : Present(g)'
  BY <1>1, <1>3, <1>5, <1>7 DEF Present, Undecided, history
<1> QED
  BY <1>6, <1>8, <1>9, LocalStep DEF Link

\* Parameters of matching agents are the same, so the client answers with its filter,
LEMMA ClientTakesParams ==
    ASSUME TypeOK, Link, Matched, ClientParams
    PROVE  Link'
<1> PICK c \in Hosts, s \in Hosts :
        /\ c = "client" /\ s = "server" /\ c # s /\ Other(c) = s /\ Hosts = {c, s}
  BY Two
<1> PICK i \in Rounds : i = comm[c]
  BY Named
<1>1. pc[c] = "awaitParams" /\ Place(c, i) = "awaitParams" /\ Round(i)
  BY Here DEF ClientParams
<1>2. Undecided(i) /\ ParamsSent(i) /\ chan[i][c] = <<ParamsMsg>> /\ chan[i][s] = <<>>
  BY <1>1, Phases DEF ParamsSent, Carries
<1>3. /\ DOMAIN pc = Hosts /\ pc' = [pc EXCEPT ![c] = "awaitList"]
      /\ Answer(c, <<ParamsMsg, Filter(c)>>)
      /\ UNCHANGED <<data, comm, oms, result, success, history, agent, marks, filter, stored, smo>>
  <2>1. Params(c) = ParamsMsg
    BY DEF Params, ParamsMsg
  <2>2. Head(chan[i][c]) = ParamsMsg
    BY <1>2, Shorts
  <2>3. SameParams(c)
    BY <2>2 DEF SameParams, Incoming, ParamsMsg
  <2> QED
    BY <2>1, <2>3, Named DEF ClientParams, Goto, agentVars
<1>4. /\ chan'[i][c] = <<>> /\ chan'[i][s] = <<ParamsMsg, Filter(c)>>
      /\ \A j \in Rounds \ {i} : chan'[j] = chan[j]
  <2>1. /\ chan'[comm[c]][c] = Tail(chan[comm[c]][c])
        /\ chan'[comm[c]][Other(c)] = chan[comm[c]][Other(c)] \o <<ParamsMsg, Filter(c)>>
        /\ \A j \in Rounds \ {comm[c]} : chan'[j] = chan[j]
    BY <1>3, AnswerStreams
  <2>2. Tail(<<ParamsMsg>>) = <<>> /\ <<>> \o <<ParamsMsg, Filter(c)>> = <<ParamsMsg, Filter(c)>>
    BY Shorts
  <2> QED
    BY <1>2, <2>1, <2>2
<1>5. pc'[c] = "awaitList" /\ pc'[s] = pc[s]
  BY <1>3
<1>6. Local(i)
  BY <1>1, <1>3, <1>4, <1>5 DEF Local, history
<1>7. /\ Place(c, i)' = "awaitList" /\ Place(s, i)' = Place(s, i)
      /\ Kind' = Kind /\ ParamsMsg' = ParamsMsg /\ Filter(c)' = Filter(c)
  BY <1>1, <1>5, <1>6, LocalStep
<1>8. Round(i)'
  BY <1>2, <1>3, <1>4, <1>7 DEF Round, Undecided, ParamsSent, ParamsAnswered, At, Carries, history
<1>9. Present(c)'
  BY <1>2, <1>3, <1>5 DEF Present, Undecided, history
<1>10. Present(s)'
  BY <1>3, <1>5, PresentFrame, Named DEF Link
<1> QED
  BY <1>6, <1>8, <1>9, <1>10, LocalStep DEF Link

\* and the server goes on to read it.
LEMMA ServerTakesParams ==
    ASSUME TypeOK, Link, Matched, ServerParams
    PROVE  Link'
<1> PICK c \in Hosts, s \in Hosts :
        /\ c = "client" /\ s = "server" /\ c # s /\ Other(s) = c /\ Hosts = {c, s}
  BY Two
<1> PICK i \in Rounds : i = comm[s]
  BY Named
<1>1. pc[s] = "recvParams" /\ Place(s, i) = "recvParams" /\ Round(i) /\ chan[i][s] # <<>>
  BY Here DEF ServerParams, Receives, Incoming
<1>2. /\ Undecided(i) /\ ParamsAnswered(i)
      /\ chan[i][c] = <<>> /\ chan[i][s] = <<ParamsMsg, Filter(c)>>
  <2>1. ~ParamsSent(i)
    BY <1>1 DEF ParamsSent, Carries
  <2> QED
    BY <1>1, <2>1, Phases DEF ParamsAnswered, Carries
<1>3. /\ DOMAIN pc = Hosts /\ pc' = [pc EXCEPT ![s] = "recvFilter"]
      /\ Receive(s)
      /\ UNCHANGED <<data, comm, oms, result, success, history, agent, marks, filter, stored, smo>>
  <2>1. Head(chan[i][s]) = ParamsMsg
    BY <1>2, Shorts
  <2>2. SameParams(s)
    BY <2>1 DEF SameParams, Incoming, ParamsMsg, Matched
  <2> QED
    BY <2>2, Named DEF ServerParams, Goto, agentVars
<1>4. /\ chan'[i][c] = <<>> /\ chan'[i][s] = <<Filter(c)>>
      /\ \A j \in Rounds \ {i} : chan'[j] = chan[j]
  <2>1. /\ chan'[comm[s]][s] = Tail(chan[comm[s]][s])
        /\ chan'[comm[s]][Other(s)] = chan[comm[s]][Other(s)]
        /\ \A j \in Rounds \ {comm[s]} : chan'[j] = chan[j]
    BY <1>3, ReceiveStreams
  <2>2. Tail(<<ParamsMsg, Filter(c)>>) = <<Filter(c)>>
    BY Shorts
  <2> QED
    BY <1>2, <2>1, <2>2
<1>5. pc'[s] = "recvFilter" /\ pc'[c] = pc[c]
  BY <1>3
<1>6. Local(i)
  BY <1>1, <1>3, <1>4, <1>5 DEF Local, history
<1>7. /\ Place(s, i)' = "recvFilter" /\ Place(c, i)' = Place(c, i)
      /\ Kind' = Kind /\ Filter(c)' = Filter(c)
  BY <1>1, <1>5, <1>6, LocalStep
<1>8. Round(i)'
  BY <1>2, <1>3, <1>4, <1>7 DEF Round, Undecided, ParamsAnswered, FilterSent, At, Carries, history
<1>9. Present(s)'
  BY <1>2, <1>3, <1>5 DEF Present, Undecided, history
<1>10. Present(c)'
  BY <1>3, <1>5, PresentFrame, Named DEF Link
<1> QED
  BY <1>6, <1>8, <1>9, <1>10, LocalStep DEF Link

(***************************************************************************)
(* The decision.                                                           *)
(***************************************************************************)
\* When the server decides, the sets are recorded and nothing else of another round.
LEMMA Decides ==
    ASSUME TypeOK, NEW i \in Rounds, i = comm["server"], Decide("ok")
    PROVE  /\ verdict'[i] = "ok" /\ base'[i] = data
           /\ \A j \in Rounds \ {i} : verdict'[j] = verdict[j] /\ base'[j] = base[j]
BY DEF Decide, TypeOK, HostsTypeOK

\* The server decides on the client's set, which the client still holds.
LEMMA ServerTakesSet ==
    ASSUME TypeOK, \A h \in Hosts : Kept(h), Link, Matched, ServerSet
    PROVE  Link'
<1> PICK c \in Hosts, s \in Hosts :
        /\ c = "client" /\ s = "server" /\ c # s /\ Other(s) = c /\ Other(c) = s
        /\ Hosts = {c, s}
  BY Two
<1> PICK i \in Rounds : i = comm[s]
  BY Named
<1> DEFINE theirs == Head(Incoming(s)).set
           other == theirs \ data[s]
           self == data[s] \ theirs
<1>1. /\ pc[s] = "recvSet" /\ DOMAIN pc = Hosts /\ DOMAIN oms = Hosts /\ DOMAIN smo = Hosts
      /\ oms' = [oms EXCEPT ![s] = other] /\ smo' = [smo EXCEPT ![s] = self]
      /\ Answer(s, DifferencesReply(other, self)) /\ Decide("ok")
      /\ pc' = [pc EXCEPT ![s] = "post"]
      /\ UNCHANGED <<data, comm, result, success, agent, marks, filter, stored>>
  BY Named DEF ServerSet, Goto
<1>2. Place(s, i) = "recvSet" /\ Round(i)
  BY <1>1, Here
<1>3. /\ Undecided(i) /\ SetSent(i) /\ Kind = "full"
      /\ chan[i][c] = <<>> /\ chan[i][s] = <<SetMsg>> /\ Place(c, i) \in {"awaitMine", "quit"}
  BY <1>2, Phases DEF SetSent, At, Carries
<1>4. comm[c] = i /\ pc[c] \in {"awaitMine", "quit"}
  BY <1>3, There
<1>5. theirs = data[c]
  BY <1>3, Shorts DEF SetMsg, Incoming
<1>6. /\ verdict'[i] = "ok" /\ base'[i] = data
      /\ \A j \in Rounds \ {i} : verdict'[j] = verdict[j] /\ base'[j] = base[j]
  BY <1>1, Decides
<1>7. self = data[s] \ data[c] /\ other = data[c] \ data[s]
  BY <1>5
<1> HIDE DEF other, self, theirs
<1>8. /\ self \in SUBSET Elem /\ other \in SUBSET Elem
      /\ \A S : S = self => Due(c, i, S)'
      /\ \A S : S = other => Due(s, i, S)'
  <2>1. \A g \in Hosts : stored[g] \subseteq data[g] /\ data[g] \in SUBSET Elem
    BY DEF Kept, TypeOK, HostsTypeOK
  <2>2. ASSUME NEW S, S = self PROVE Due(c, i, S)'
    BY <1>1, <1>6, <1>7, <2>1, <2>2 DEF Due
  <2>3. ASSUME NEW S, S = other PROVE Due(s, i, S)'
    BY <1>1, <1>6, <1>7, <2>1, <2>3 DEF Due
  <2> QED
    BY <1>7, <2>1, <2>2, <2>3
<1>9. /\ chan'[i][c] = <<List(other), List(self)>> /\ chan'[i][s] = <<>>
      /\ \A j \in Rounds \ {i} : chan'[j] = chan[j]
  <2>1. /\ chan'[comm[s]][s] = Tail(chan[comm[s]][s])
        /\ chan'[comm[s]][Other(s)] = chan[comm[s]][Other(s)] \o DifferencesReply(other, self)
        /\ \A j \in Rounds \ {comm[s]} : chan'[j] = chan[j]
    BY <1>1, AnswerStreams
  <2>2. DifferencesReply(other, self) = <<List(other), List(self)>>
    BY DEF DifferencesReply
  <2>3. /\ Tail(<<SetMsg>>) = <<>>
        /\ <<>> \o <<List(other), List(self)>> = <<List(other), List(self)>>
    BY Shorts
  <2> QED
    BY <1>3, <2>1, <2>2, <2>3
<1>10. pc'[s] = "post" /\ pc'[c] = pc[c] /\ oms'[s] = other /\ oms'[c] = oms[c]
      /\ smo'[c] = smo[c]
  BY <1>1
<1>11. Local(i)
  BY <1>1, <1>4, <1>6, <1>9, <1>10 DEF Local
<1>12. Place(s, i)' = "post" /\ Place(c, i)' = Place(c, i) /\ Kind' = Kind
  BY <1>1, <1>10, <1>11, LocalStep
<1>13. BothListed(i)'
  <2> PICK T \in SUBSET Elem, S \in SUBSET Elem : T = other /\ S = self
    BY <1>8
  <2>1. Due(c, i, S)'
    BY <1>8
  <2> QED
    BY <1>3, <1>9, <1>12, <2>1 DEF BothListed, At, Carries, List
<1>14. Round(i)'
  BY <1>6, <1>13 DEF Round, Decided
<1>15. Present(s)'
  <2> PICK S : S = other
    OBVIOUS
  <2>1. Due(s, i, S)' /\ oms'[s] = S
    BY <1>8, <1>10
  <2>2. Due(s, i, oms[s])'
    BY <2>1 DEF Due
  <2> QED
    BY <1>1, <1>6, <1>10, <2>2 DEF Present
<1>16. Present(c)'
  BY <1>1, <1>4, <1>6, <1>10, PresentFrame DEF Link
<1> QED
  BY <1>11, <1>14, <1>15, <1>16, LocalStep DEF Link

\* The server decides on the client's filter: what it misses there is due to the client.
LEMMA ServerTakesFilter ==
    ASSUME TypeOK, \A h \in Hosts : Kept(h), Link, Matched, ServerFilter
    PROVE  Link'
<1> PICK c \in Hosts, s \in Hosts :
        /\ c = "client" /\ s = "server" /\ c # s /\ Other(s) = c /\ Other(c) = s
        /\ Hosts = {c, s}
  BY Two
<1> PICK i \in Rounds : i = comm[s]
  BY Named
<1> DEFINE sent == Head(Incoming(s)).marks
<1>17. PICK F \in Received(sent), byte \in LastByte(sent) :
          LooksInto(s, F, byte) /\ Answer(s, FilterReply(s, Missing(s, F)))
  BY DEF ServerFilter
<1> DEFINE mine == Missing(s, F)
<1>1. /\ pc[s] = "recvFilter" /\ DOMAIN pc = Hosts /\ DOMAIN smo = Hosts
      /\ smo' = [smo EXCEPT ![s] = mine]
      /\ Answer(s, FilterReply(s, mine)) /\ Decide("ok")
      /\ pc' = [pc EXCEPT ![s] = "recvList"]
      /\ UNCHANGED <<data, comm, oms, result, success, agent, marks, filter, stored>>
  BY <1>17, Named DEF ServerFilter, LooksInto, Goto
<1>2. Place(s, i) = "recvFilter" /\ Round(i)
  BY <1>1, Here
<1>3. /\ Undecided(i) /\ FilterSent(i) /\ Kind \in {"bloom", "cuckoo"}
      /\ chan[i][c] = <<>> /\ chan[i][s] = <<Filter(c)>>
      /\ Kind = "bloom" => Place(c, i) \in {"awaitList", "quit"}
      /\ Kind = "cuckoo" => Place(c, i) \in {"awaitFilter", "quit"}
  BY <1>2, Phases, SetupTypes DEF FilterSent, At, Carries, TypeOK
<1>4. /\ comm[c] = i
      /\ Kind = "bloom" => pc[c] \in {"awaitList", "quit"}
      /\ Kind = "cuckoo" => pc[c] \in {"awaitFilter", "quit"}
  BY <1>3, There
<1>5. F \in Received(filter[c])
  <2>1. sent = filter[c]
    BY <1>3, Shorts DEF Filter, Incoming
  <2> HIDE DEF sent
  <2> QED
    BY <1>17, <2>1
<1>6. /\ verdict'[i] = "ok" /\ base'[i] = data
      /\ \A j \in Rounds \ {i} : verdict'[j] = verdict[j] /\ base'[j] = base[j]
  BY <1>1, Decides
<1>7. mine \in SUBSET Elem
  BY SentTypes
<1>8. /\ mine \subseteq data[s] /\ \A e \in mine \cap stored[c] : Torn(e)
      /\ \A e \in (data[s] \ data[c]) \ mine : Masked(e, data[c]) \/ Torn(e)
  <2>1. Kept(Other(s)) /\ Kind # "full" /\ F \in Received(filter[Other(s)])
    BY <1>3, <1>5
  <2> QED
    BY <2>1, MissingIsDue
<1> HIDE DEF mine, sent
<1>9. ASSUME NEW S, S = mine PROVE Due(c, i, S)'
  <2>1. \A e : (Masked(e, data[c]) => Masked(e, data[c])') /\ (Torn(e) => Torn(e)')
    BY <1>1 DEF Masked, MarksOf, Kind, Torn, LastMarks
  <2> QED
    BY <1>1, <1>6, <1>8, <1>9, <2>1 DEF Due
<1>10. /\ Kind = "bloom" => chan'[i][c] = <<List(mine), Filter(s)>>
       /\ Kind = "cuckoo" => chan'[i][c] = <<Filter(s)>>
       /\ chan'[i][s] = <<>> /\ \A j \in Rounds \ {i} : chan'[j] = chan[j]
  <2>1. /\ chan'[comm[s]][s] = Tail(chan[comm[s]][s])
        /\ chan'[comm[s]][Other(s)] = chan[comm[s]][Other(s)] \o FilterReply(s, mine)
        /\ \A j \in Rounds \ {comm[s]} : chan'[j] = chan[j]
    BY <1>1, AnswerStreams
  <2>2. /\ Kind = "bloom" => FilterReply(s, mine) = <<List(mine), Filter(s)>>
        /\ Kind = "cuckoo" => FilterReply(s, mine) = <<Filter(s)>>
    BY DEF FilterReply
  <2>3. /\ Tail(<<Filter(c)>>) = <<>> /\ <<>> \o <<Filter(s)>> = <<Filter(s)>>
        /\ <<>> \o <<List(mine), Filter(s)>> = <<List(mine), Filter(s)>>
    BY Shorts
  <2> QED
    BY <1>3, <2>1, <2>2, <2>3
<1>11. pc'[s] = "recvList" /\ pc'[c] = pc[c] /\ smo'[s] = mine /\ smo'[c] = smo[c]
  BY <1>1
<1>12. Local(i)
  BY <1>1, <1>4, <1>6, <1>10, <1>11 DEF Local
<1>13. /\ Place(s, i)' = "recvList" /\ Place(c, i)' = Place(c, i)
       /\ Kind' = Kind /\ Filter(s)' = Filter(s)
  BY <1>1, <1>11, <1>12, LocalStep
<1>14. Round(i)'
  <2> PICK S \in SUBSET Elem : S = mine
    BY <1>7
  <2>1. CASE Kind = "bloom"
    <3>1. ListAndFilter(i)'
      BY <1>3, <1>9, <1>10, <1>13, <2>1 DEF ListAndFilter, At, Carries, List
    <3> QED
      BY <1>6, <3>1 DEF Round, Decided
  <2>2. CASE Kind = "cuckoo"
    <3>1. Due(c, i, S)' /\ smo'[s] = S
      BY <1>9, <1>11
    <3>2. Due(c, i, smo[s])'
      BY <3>1 DEF Due
    <3>3. FilterReplied(i)'
      BY <1>3, <1>10, <1>13, <2>2, <3>2 DEF FilterReplied, At, Carries
    <3> QED
      BY <1>6, <3>3 DEF Round, Decided
  <2> QED
    BY <1>3, <2>1, <2>2
<1>15. Present(s)'
  BY <1>6, <1>11, <1>1 DEF Present
<1>16. Present(c)'
  BY <1>1, <1>3, <1>4, <1>6, <1>11, PresentFrame DEF Link
<1> QED
  BY <1>12, <1>14, <1>15, <1>16, LocalStep DEF Link

(***************************************************************************)
(* The lists.                                                              *)
(***************************************************************************)
\* The client reads past its own differences,
LEMMA ClientTakesMine ==
    ASSUME TypeOK, Link, ClientMine
    PROVE  Link'
<1> PICK c \in Hosts, s \in Hosts :
        /\ c = "client" /\ s = "server" /\ c # s /\ Other(c) = s /\ Hosts = {c, s}
  BY Two
<1> PICK i \in Rounds : i = comm[c]
  BY Named
<1>1. /\ pc[c] = "awaitMine" /\ DOMAIN pc = Hosts /\ chan[i][c] # <<>> /\ Receive(c)
      /\ pc' = [pc EXCEPT ![c] = "awaitOthers"]
      /\ \A g \in Hosts \ {c} : smo'[g] = smo[g]
      /\ UNCHANGED <<data, comm, oms, result, success, history, agent, marks, filter, stored>>
  BY Named DEF ClientMine, Goto, Receives, Incoming
<1>2. Place(c, i) = "awaitMine" /\ Round(i)
  BY <1>1, Here
<1>3. Decided(i) /\ BothListed(i)
  <2>1. ~SetSent(i)
    BY <1>1 DEF SetSent, Carries
  <2> QED
    BY <1>2, <2>1, Phases
<1>4. PICK T \in SUBSET Elem, S \in SUBSET Elem :
         chan[i][c] = <<List(T), List(S)>> /\ chan[i][s] = <<>> /\ Due(c, i, S)
  BY <1>3 DEF BothListed, Carries
<1>5. /\ chan'[i][c] = <<List(S)>> /\ chan'[i][s] = <<>>
      /\ \A j \in Rounds \ {i} : chan'[j] = chan[j]
  <2>1. /\ chan'[comm[c]][c] = Tail(chan[comm[c]][c])
        /\ chan'[comm[c]][Other(c)] = chan[comm[c]][Other(c)]
        /\ \A j \in Rounds \ {comm[c]} : chan'[j] = chan[j]
    BY <1>1, ReceiveStreams
  <2>2. Tail(<<List(T), List(S)>>) = <<List(S)>>
    BY Shorts
  <2> QED
    BY <1>4, <2>1, <2>2
<1>6. pc'[c] = "awaitOthers" /\ pc'[s] = pc[s]
  BY <1>1
<1>7. Local(i)
  BY <1>1, <1>5, <1>6 DEF Local, history
<1>8. Place(c, i)' = "awaitOthers" /\ Place(s, i)' = Place(s, i) /\ Kind' = Kind
  BY <1>1, <1>6, <1>7, LocalStep
<1>9. Due(c, i, S)'
  BY <1>1, <1>4, DueFrame DEF history
<1>10. HalfRead(i)'
  BY <1>3, <1>5, <1>8, <1>9 DEF BothListed, HalfRead, At, Carries, List
<1>11. Round(i)'
  BY <1>1, <1>3, <1>10 DEF Round, Decided, history
<1>12. Present(c)'
  BY <1>1, <1>6 DEF Link, Present, history
<1>13. Present(s)'
  BY <1>1, <1>6, PresentFrame, Named DEF Link
<1> QED
  BY <1>7, <1>11, <1>12, <1>13, LocalStep DEF Link

\* and keeps the server's.
LEMMA ClientTakesOthers ==
    ASSUME TypeOK, Link, ClientOthers
    PROVE  Link'
<1> PICK c \in Hosts, s \in Hosts :
        /\ c = "client" /\ s = "server" /\ c # s /\ Other(c) = s /\ Hosts = {c, s}
  BY Two
<1> PICK i \in Rounds : i = comm[c]
  BY Named
<1>1. /\ pc[c] = "awaitOthers" /\ DOMAIN pc = Hosts /\ DOMAIN oms = Hosts /\ Receive(c)
      /\ oms' = [oms EXCEPT ![c] = Head(chan[i][c]).set]
      /\ pc' = [pc EXCEPT ![c] = "post"]
      /\ UNCHANGED <<data, comm, result, success, history, agent, marks, filter, stored, smo>>
  BY Named DEF ClientOthers, Goto, Incoming, agentVars
<1>2. Place(c, i) = "awaitOthers" /\ Round(i)
  BY <1>1, Here
<1>3. Decided(i) /\ HalfRead(i)
  BY <1>2, Phases
<1>4. PICK S \in SUBSET Elem : chan[i][c] = <<List(S)>> /\ chan[i][s] = <<>> /\ Due(c, i, S)
  BY <1>3 DEF HalfRead, Carries
<1>5. /\ chan'[i][c] = <<>> /\ chan'[i][s] = <<>>
      /\ \A j \in Rounds \ {i} : chan'[j] = chan[j]
  <2>1. /\ chan'[comm[c]][c] = Tail(chan[comm[c]][c])
        /\ chan'[comm[c]][Other(c)] = chan[comm[c]][Other(c)]
        /\ \A j \in Rounds \ {comm[c]} : chan'[j] = chan[j]
    BY <1>1, ReceiveStreams
  <2> QED
    BY <1>4, <2>1, Shorts
<1>6. pc'[c] = "post" /\ pc'[s] = pc[s] /\ oms'[s] = oms[s] /\ oms'[c] = S
  <2>1. Head(chan[i][c]) = List(S)
    BY <1>4, Shorts
  <2> QED
    BY <1>1, <2>1 DEF List
<1>7. Local(i)
  BY <1>1, <1>5, <1>6 DEF Local, history
<1>8. Place(c, i)' = "post" /\ Place(s, i)' = Place(s, i) /\ Kind' = Kind
  BY <1>1, <1>6, <1>7, LocalStep
<1>9. Due(c, i, S)'
  BY <1>1, <1>4, DueFrame DEF history
<1>10. Over(i)'
  BY <1>3, <1>5, <1>8 DEF HalfRead, Over, At, Carries
<1>11. Round(i)'
  BY <1>1, <1>3, <1>10 DEF Round, Decided, history
<1>12. Present(c)'
  <2>1. Due(c, i, oms[c])'
    BY <1>6, <1>9 DEF Due
  <2> QED
    BY <1>1, <1>6, <2>1 DEF Link, Present, history
<1>13. Present(s)'
  BY <1>1, <1>6, PresentFrame, Named DEF Link
<1> QED
  BY <1>7, <1>11, <1>12, <1>13, LocalStep DEF Link

\* The client keeps the list, in a BloomFilterSync with the server's filter still to come.
LEMMA ClientTakesList ==
    ASSUME TypeOK, Link, ClientList
    PROVE  Link'
<1> PICK c \in Hosts, s \in Hosts :
        /\ c = "client" /\ s = "server" /\ c # s /\ Other(c) = s /\ Hosts = {c, s}
  BY Two
<1> PICK i \in Rounds : i = comm[c]
  BY Named
<1>1. /\ pc[c] = "awaitList" /\ DOMAIN pc = Hosts /\ DOMAIN oms = Hosts
      /\ chan[i][c] # <<>> /\ Receive(c)
      /\ oms' = [oms EXCEPT ![c] = Head(chan[i][c]).set]
      /\ pc' = [pc EXCEPT ![c] = IF Kind = "bloom" THEN "awaitFilter" ELSE "post"]
      /\ UNCHANGED <<data, comm, result, success, history, agent, marks, filter, stored, smo>>
  BY Named DEF ClientList, Goto, Receives, Incoming, agentVars
<1>2. Place(c, i) = "awaitList" /\ Round(i)
  BY <1>1, Here
<1>3. Decided(i) /\ (ListAndFilter(i) \/ ServerListed(i))
  <2>1. ~ParamsAnswered(i) /\ ~FilterSent(i) /\ ~ClientListed(i) /\ ~Stuck(i)
    BY <1>1 DEF ParamsAnswered, FilterSent, ClientListed, Stuck, Carries
  <2> QED
    BY <1>2, <2>1, Phases
<1>4. PICK S \in SUBSET Elem :
         /\ Due(c, i, S) /\ Head(chan[i][c]) = List(S) /\ chan[i][s] = <<>>
         /\ Kind = "bloom" => Tail(chan[i][c]) = <<Filter(s)>> /\ ListAndFilter(i)
         /\ Kind # "bloom" => Tail(chan[i][c]) = <<>> /\ ServerListed(i)
  <2>1. CASE ListAndFilter(i)
    <3>1. PICK S \in SUBSET Elem : /\ chan[i][c] = <<List(S), Filter(s)>> /\ chan[i][s] = <<>>
                                   /\ Due(c, i, S)
      BY <2>1 DEF ListAndFilter, Carries
    <3>2. Head(chan[i][c]) = List(S) /\ Tail(chan[i][c]) = <<Filter(s)>>
      BY <3>1, Shorts
    <3> QED
      BY <2>1, <3>1, <3>2 DEF ListAndFilter
  <2>2. CASE ServerListed(i)
    <3>1. PICK S \in SUBSET Elem : chan[i][c] = <<List(S)>> /\ chan[i][s] = <<>> /\ Due(c, i, S)
      BY <2>2 DEF ServerListed, Carries
    <3>2. Head(chan[i][c]) = List(S) /\ Tail(chan[i][c]) = <<>>
      BY <3>1, Shorts
    <3> QED
      BY <2>2, <3>1, <3>2 DEF ServerListed
  <2> QED
    BY <1>3, <2>1, <2>2
<1>5. /\ chan'[i][c] = Tail(chan[i][c]) /\ chan'[i][s] = <<>>
      /\ \A j \in Rounds \ {i} : chan'[j] = chan[j]
  BY <1>1, <1>4, ReceiveStreams
<1>6. /\ pc'[c] = IF Kind = "bloom" THEN "awaitFilter" ELSE "post"
      /\ pc'[s] = pc[s] /\ oms'[s] = oms[s] /\ oms'[c] = S
  BY <1>1, <1>4 DEF List
<1>7. Local(i)
  BY <1>1, <1>5, <1>6 DEF Local, history
<1>8. /\ Place(c, i)' = pc'[c] /\ Place(s, i)' = Place(s, i)
      /\ Kind' = Kind /\ Filter(s)' = Filter(s)
  BY <1>1, <1>6, <1>7, LocalStep
<1>9. Due(c, i, S)'
  BY <1>1, <1>4, DueFrame DEF history
<1>10. Round(i)'
  <2>1. CASE Kind = "bloom"
    <3>1. FilterReplied(i)'
      BY <1>4, <1>5, <1>6, <1>8, <2>1 DEF ListAndFilter, FilterReplied, At, Carries
    <3> QED
      BY <1>1, <1>3, <3>1 DEF Round, Decided, history
  <2>2. CASE Kind # "bloom"
    <3>1. Over(i)'
      BY <1>4, <1>5, <1>6, <1>8, <2>2 DEF ServerListed, Over, At, Carries
    <3> QED
      BY <1>1, <1>3, <3>1 DEF Round, Decided, history
  <2> QED
    BY <2>1, <2>2
<1>11. Present(c)'
  <2>1. Due(c, i, oms[c])'
    BY <1>6, <1>9 DEF Due
  <2> QED
    BY <1>1, <1>6, <2>1 DEF Link, Present, history
<1>12. Present(s)'
  BY <1>1, <1>6, PresentFrame, Named DEF Link
<1> QED
  BY <1>7, <1>10, <1>11, <1>12, LocalStep DEF Link

\* What the client misses in the server's filter is due to the server, whose set and
\* filter are those of the decision.
LEMMA ClientTakesFilter ==
    ASSUME TypeOK, \A h \in Hosts : Kept(h), Link, ClientFilter
    PROVE  Link'
<1> PICK c \in Hosts, s \in Hosts :
        /\ c = "client" /\ s = "server" /\ c # s /\ Other(s) = c /\ Other(c) = s
        /\ Hosts = {c, s}
  BY Two
<1> PICK i \in Rounds : i = comm[c]
  BY Named
<1> DEFINE sent == Head(Incoming(c)).marks
<1>19. PICK F \in Received(sent), byte \in LastByte(sent) :
          LooksInto(c, F, byte) /\ Answer(c, <<List(Missing(c, F))>>)
  BY DEF ClientFilter
<1> DEFINE mine == Missing(c, F)
<1>1. /\ pc[c] = "awaitFilter" /\ DOMAIN pc = Hosts /\ Head(chan[i][c]).type = "filter"
      /\ chan[i][c] # <<>> /\ Answer(c, <<List(mine)>>)
      /\ \A g \in Hosts \ {c} : smo'[g] = smo[g]
      /\ pc' = [pc EXCEPT ![c] = IF Kind = "bloom" THEN "post" ELSE "awaitList"]
      /\ UNCHANGED <<data, comm, oms, result, success, history, agent, marks, filter, stored>>
  BY <1>19, Named DEF ClientFilter, LooksInto, Goto, Receives, Incoming
<1>2. Place(c, i) = "awaitFilter" /\ Round(i)
  BY <1>1, Here
<1>3. /\ verdict[i] = "ok" /\ FilterReplied(i) /\ Kind # "full"
      /\ chan[i][c] = <<Filter(s)>> /\ chan[i][s] = <<>>
      /\ Place(s, i) \in {"recvList", "quit"}
  <2>1. ~FilterSent(i)
    BY <1>1 DEF FilterSent, Carries
  <2> QED
    BY <1>2, <2>1, Phases DEF Decided, FilterReplied, Carries, At
<1>4. comm[s] = i /\ pc[s] \in {"recvList", "quit"}
  BY <1>3, There
<1>5. \A g \in Hosts : base[i][g] = data[g]
  BY <1>1, <1>3, <1>4 DEF Link, Present
<1>6. F \in Received(filter[s]) /\ mine \in SUBSET Elem
  <2>1. sent = filter[s]
    BY <1>3, Shorts DEF Filter, Incoming
  <2> HIDE DEF sent
  <2> QED
    BY <1>19, <2>1, SentTypes
<1>7. /\ mine \subseteq data[c] /\ \A e \in mine \cap stored[s] : Torn(e)
      /\ \A e \in (data[c] \ data[s]) \ mine : Masked(e, data[s]) \/ Torn(e)
  <2>1. Kept(Other(c)) /\ F \in Received(filter[Other(c)])
    BY <1>6
  <2> QED
    BY <1>3, <2>1, MissingIsDue
<1> HIDE DEF mine, sent
<1>8. PICK S \in SUBSET Elem : S = mine /\ Due(s, i, S)
  BY <1>5, <1>6, <1>7 DEF Due
<1>9. /\ chan'[i][c] = <<>> /\ chan'[i][s] = <<List(S)>>
      /\ \A j \in Rounds \ {i} : chan'[j] = chan[j]
  <2>1. /\ chan'[comm[c]][c] = Tail(chan[comm[c]][c])
        /\ chan'[comm[c]][Other(c)] = chan[comm[c]][Other(c)] \o <<List(S)>>
        /\ \A j \in Rounds \ {comm[c]} : chan'[j] = chan[j]
    BY <1>1, <1>8, AnswerStreams
  <2>2. Tail(<<Filter(s)>>) = <<>> /\ <<>> \o <<List(S)>> = <<List(S)>>
    BY Shorts
  <2> QED
    BY <1>3, <2>1, <2>2
<1>10. /\ pc'[c] = IF Kind = "bloom" THEN "post" ELSE "awaitList"
       /\ pc'[s] = pc[s] /\ smo'[s] = smo[s]
  BY <1>1
<1>11. Local(i)
  BY <1>1, <1>9, <1>10 DEF Local, history
<1>12. Place(c, i)' = pc'[c] /\ Place(s, i)' = Place(s, i) /\ Kind' = Kind
  BY <1>1, <1>10, <1>11, LocalStep
<1>13. Due(s, i, S)'
  BY <1>1, <1>8, DueFrame DEF history
<1>14. Kind = "cuckoo" => Due(c, i, smo[s])'
  BY <1>1, <1>3, <1>10 DEF FilterReplied, Due, Masked, MarksOf, Kind, Torn, LastMarks, history
<1>15. ClientListed(i)'
  BY <1>3, <1>9, <1>10, <1>12, <1>13, <1>14 DEF ClientListed, FilterReplied, At, Carries, List
<1>16. Round(i)'
  BY <1>1, <1>3, <1>15 DEF Round, Decided, history
<1>17. Present(c)'
  <2>1. Kind = "bloom" => Due(c, i, oms[c])
    BY <1>1 DEF Link, Present
  <2>2. Kind = "bloom" => Due(c, i, oms[c])'
    BY <1>1, <2>1 DEF Due, Masked, MarksOf, Kind, Torn, LastMarks, history
  <2> QED
    BY <1>1, <1>5, <1>10, <1>12, <2>2 DEF Present, history
<1>18. Present(s)'
  BY <1>1, <1>10, PresentFrame, Named DEF Link
<1> QED
  BY <1>11, <1>16, <1>17, <1>18, LocalStep DEF Link

\* The server keeps the client's list; a CuckooSync server sends its own only now.
LEMMA ServerTakesList ==
    ASSUME TypeOK, Link, ServerList
    PROVE  Link'
<1> PICK c \in Hosts, s \in Hosts :
        /\ c = "client" /\ s = "server" /\ c # s /\ Other(s) = c /\ Hosts = {c, s}
  BY Two
<1> PICK i \in Rounds : i = comm[s]
  BY Named
<1>1. /\ pc[s] = "recvList" /\ DOMAIN pc = Hosts /\ DOMAIN oms = Hosts
      /\ chan[i][s] # <<>>
      /\ oms' = [oms EXCEPT ![s] = Head(chan[i][s]).set]
      /\ Kind = "bloom" => Answer(s, <<>>)
      /\ Kind # "bloom" => Answer(s, <<List(smo[s])>>)
      /\ pc' = [pc EXCEPT ![s] = "post"]
      /\ UNCHANGED <<data, comm, result, success, history, agent, marks, filter, stored, smo>>
  BY Named DEF ServerList, Goto, Receives, Incoming, agentVars
<1>2. Place(s, i) = "recvList" /\ Round(i)
  BY <1>1, Here
<1>3. Decided(i) /\ ClientListed(i)
  <2>1. ~ListAndFilter(i) /\ ~FilterReplied(i)
    BY <1>1 DEF ListAndFilter, FilterReplied, Carries
  <2> QED
    BY <1>2, <2>1, Phases
<1>4. PICK S \in SUBSET Elem : chan[i][c] = <<>> /\ chan[i][s] = <<List(S)>> /\ Due(s, i, S)
  BY <1>3 DEF ClientListed, Carries
<1>5. /\ Kind = "bloom" => chan'[i][c] = <<>>
      /\ Kind # "bloom" => chan'[i][c] = <<List(smo[s])>>
      /\ chan'[i][s] = <<>> /\ \A j \in Rounds \ {i} : chan'[j] = chan[j]
  <2>1. ASSUME NEW msgs, Answer(s, msgs)
        PROVE  /\ chan'[i][s] = Tail(chan[i][s]) /\ chan'[i][c] = chan[i][c] \o msgs
               /\ \A j \in Rounds \ {i} : chan'[j] = chan[j]
    BY <2>1, AnswerStreams
  <2>2. /\ Tail(<<List(S)>>) = <<>> /\ <<>> \o <<List(smo[s])>> = <<List(smo[s])>>
        /\ <<>> \o <<>> = <<>>
    BY Shorts
  <2>3. CASE Kind = "bloom"
    BY <1>1, <1>4, <2>1, <2>2, <2>3
  <2>4. CASE Kind # "bloom"
    BY <1>1, <1>4, <2>1, <2>2, <2>4
  <2> QED
    BY <2>3, <2>4
<1>6. pc'[s] = "post" /\ pc'[c] = pc[c] /\ oms'[c] = oms[c] /\ oms'[s] = S
  <2>1. Head(chan[i][s]) = List(S)
    BY <1>4, Shorts
  <2> QED
    BY <1>1, <2>1 DEF List
<1>7. Local(i)
  BY <1>1, <1>5, <1>6 DEF Local, history
<1>8. Place(s, i)' = "post" /\ Place(c, i)' = Place(c, i) /\ Kind' = Kind
  BY <1>1, <1>6, <1>7, LocalStep
<1>9. Due(s, i, S)'
  BY <1>1, <1>4, DueFrame DEF history
<1>10. Round(i)'
  <2>1. CASE Kind = "bloom"
    <3>1. Over(i)'
      BY <1>3, <1>5, <1>8, <2>1 DEF ClientListed, Over, At, Carries
    <3> QED
      BY <1>1, <1>3, <3>1 DEF Round, Decided, history
  <2>2. CASE Kind # "bloom"
    <3>1. Kind = "cuckoo"
      BY <1>3, <2>2, SetupTypes DEF ClientListed, TypeOK
    <3>2. smo[s] \in SUBSET Elem
      BY DEF TypeOK
    <3> PICK T \in SUBSET Elem : T = smo[s]
      BY <3>2
    <3>3. Due(c, i, T)
      BY <1>3, <3>1 DEF ClientListed
    <3>4. Due(c, i, T)'
      BY <1>1, <3>3, DueFrame DEF history
    <3>5. ServerListed(i)'
      BY <1>3, <1>5, <1>8, <3>1, <3>4 DEF ClientListed, ServerListed, At, Carries, List
    <3> QED
      BY <1>1, <1>3, <3>5 DEF Round, Decided, history
  <2> QED
    BY <2>1, <2>2
<1>11. Present(s)'
  <2>1. Due(s, i, oms[s])'
    BY <1>6, <1>9 DEF Due
  <2> QED
    BY <1>1, <1>6, <2>1 DEF Link, Present, history
<1>12. Present(c)'
  BY <1>1, <1>6, PresentFrame, Named DEF Link
<1> QED
  BY <1>7, <1>10, <1>11, <1>12, LocalStep DEF Link

\* A host that misreads its list is stuck, and the round with it.
LEMMA Misreads ==
    ASSUME TypeOK, Link, NEW h \in Hosts, Bytes(h), Misread(h)
    PROVE  Link'
<1> PICK c \in Hosts, s \in Hosts :
        /\ c = "client" /\ s = "server" /\ c # s /\ Other(c) = s /\ Other(s) = c
        /\ Hosts = {c, s}
  BY Two
<1> PICK i \in Rounds : i = comm[h]
  BY Named
<1>1. /\ pc[h] \in {"awaitList", "recvList"} /\ DOMAIN pc = Hosts
      /\ chan[i][h] # <<>> /\ rest[i][h] # "none" /\ Receive(h)
      /\ pc' = [pc EXCEPT ![h] = "misread"]
      /\ UNCHANGED <<data, comm, oms, result, success, history, agent, marks, filter, stored, smo>>
  BY Named DEF Misread, Framed, Goto, Receives, Incoming
<1>2. Place(h, i) = pc[h] /\ Round(i)
  BY <1>1, Here
<1>3. Kind = "cuckoo"
  BY <1>1, SetupTypes DEF Bytes, TypeOK
<1>4. /\ verdict[i] = "ok"
      /\ \/ h = c /\ ServerListed(i)
         \/ h = s /\ ClientListed(i)
  <2>1. CASE h = c
    <3>1. /\ ~ParamsAnswered(i) /\ ~FilterSent(i) /\ ~ClientListed(i) /\ ~Stuck(i)
          /\ ~ListAndFilter(i)
      BY <1>1, <1>3, <2>1
      DEF ParamsAnswered, FilterSent, ClientListed, ListAndFilter, Stuck, Carries
    <3>2. Place(c, i) = "awaitList" \/ Place(c, i) = "recvList"
      BY <1>1, <1>2, <2>1
    <3>3. Place(c, i) # "recvList"
      BY <1>2 DEF Round, Undecided, Decided, Idle, SetSent, ParamsSent, ParamsAnswered,
         FilterSent, BothListed, HalfRead, ListAndFilter, FilterReplied, ClientListed,
         ServerListed, Stuck, Over, At
    <3> QED
      BY <1>2, <2>1, <3>1, <3>2, <3>3, Phases DEF Decided
  <2>2. CASE h = s
    <3>1. ~ListAndFilter(i) /\ ~FilterReplied(i)
      BY <1>1, <2>2 DEF ListAndFilter, FilterReplied, Carries
    <3>2. Place(s, i) = "awaitList" \/ Place(s, i) = "recvList"
      BY <1>1, <1>2, <2>2
    <3>3. Place(s, i) # "awaitList"
      BY <1>2 DEF Round, Undecided, Decided, Idle, SetSent, ParamsSent, ParamsAnswered,
         FilterSent, BothListed, HalfRead, ListAndFilter, FilterReplied, ClientListed,
         ServerListed, Stuck, Over, At
    <3> QED
      BY <1>2, <2>2, <3>1, <3>2, <3>3, Phases DEF Decided
  <2> QED
    BY <2>1, <2>2
<1>5. chan'[i][c] = <<>> /\ chan'[i][s] = <<>> /\ \A j \in Rounds \ {i} : chan'[j] = chan[j]
  <2>1. /\ chan'[i][h] = Tail(chan[i][h]) /\ chan'[i][Other(h)] = chan[i][Other(h)]
        /\ \A j \in Rounds \ {i} : chan'[j] = chan[j]
    BY <1>1, ReceiveStreams
  <2>2. PICK S : chan[i][h] = <<List(S)>> /\ chan[i][Other(h)] = <<>>
    BY <1>4 DEF ServerListed, ClientListed, Carries
  <2>3. Tail(<<List(S)>>) = <<>>
    BY Shorts
  <2> QED
    BY <2>1, <2>2, <2>3
<1>6. pc'[h] = "misread" /\ \A g \in Hosts \ {h} : pc'[g] = pc[g]
  BY <1>1
<1>7. Local(i)
  BY <1>1, <1>5, <1>6 DEF Local, history
<1>8. /\ Place(h, i)' = "misread" /\ Kind' = Kind
      /\ \A g \in Hosts \ {h} : Place(g, i)' = Place(g, i)
  BY <1>1, <1>6, <1>7, LocalStep
<1>9. Stuck(i)'
  BY <1>3, <1>4, <1>5, <1>8 DEF ServerListed, ClientListed, Stuck, At, Carries
<1>10. Round(i)'
  BY <1>1, <1>4, <1>9 DEF Round, Decided, history
<1>11. Present(h)'
  BY <1>1, <1>6 DEF Link, Present, history
<1>12. \A g \in Hosts \ {h} : Present(g)'
  BY <1>1, <1>6, PresentFrame, Named DEF Link
<1> QED
  BY <1>7, <1>10, <1>11, <1>12, LocalStep DEF Link

(***************************************************************************)
(* The end of a round for one host.                                        *)
(***************************************************************************)
\* A host that adds its list is at the end of the round, before and after.
LEMMA PostProcesses ==
    ASSUME TypeOK, Link, NEW h \in Hosts, PostProcess(h)
    PROVE  Link'
<1> PICK i \in Rounds : i = comm[h]
  BY Named
<1>1. /\ pc[h] = "post" /\ DOMAIN pc = Hosts /\ DOMAIN comm = Hosts
      /\ \A g \in Hosts \ {h} : data'[g] = data[g] /\ stored'[g] = stored[g] /\ filter'[g] = filter[g]
      /\ \/ Last(h) /\ pc' = [pc EXCEPT ![h] = "returned"] /\ UNCHANGED comm
         \/ ~Last(h) /\ pc' = [pc EXCEPT ![h] = "begin"] /\ comm' = [comm EXCEPT ![h] = i + 1]
      /\ UNCHANGED <<chan, oms, result, history, agent, marks, smo>>
  <2>1. DOMAIN pc = Hosts /\ DOMAIN comm = Hosts /\ DOMAIN data = Hosts
        /\ DOMAIN stored = Hosts /\ DOMAIN filter = Hosts
    BY DEF TypeOK, HostsTypeOK
  <2> QED
    BY <2>1 DEF PostProcess, NextCommunicant, AddToFilter, Goto
<1>2. Place(h, i) = "post" /\ Round(i) /\ Present(h)
  BY <1>1, Here DEF Link
<1>3. comm \in [Hosts -> 1..Sessions] /\ Sessions \in Nat \ {0} /\ i \in 1..Sessions
  BY HostsAssumption DEF TypeOK, HostsTypeOK, Rounds
<1>4. \A g \in Hosts \ {h} : pc'[g] = pc[g] /\ comm'[g] = comm[g]
  BY <1>1
<1>5. \A g \in Hosts, j \in Rounds : Place(g, j)' = Place(g, j)
  <2>1. \A j \in Rounds : Place(h, j)' = Place(h, j)
    BY <1>1, <1>3 DEF Place, Rounds, Last
  <2> QED
    BY <1>4, <2>1 DEF Place
<1>6. \A j \in Rounds : Round(j)'
  <2> SUFFICES ASSUME NEW j \in Rounds PROVE Round(j)'
    OBVIOUS
  <2>1. Place(h, j) \in {"begin", "post"}
    BY <1>1, <1>3 DEF Place, Rounds
  <2> QED
    BY <1>1, <1>5, <2>1, RoundFrame DEF Link, history
<1>7. Present(h)'
  <2>1. CASE Last(h)
    BY <1>1, <2>1 DEF Present
  <2>2. CASE ~Last(h)
    <3>1. pc'[h] = "begin" /\ comm'[h] = i + 1 /\ i + 1 \in Rounds
      BY <1>1, <1>3, <2>2 DEF Last, Rounds
    <3>2. Place(h, i + 1) = "begin"
      BY <1>3 DEF Place
    <3>3. verdict[i + 1] = "none"
      BY <3>1, <3>2, Phases DEF Link, Undecided, Hosts
    <3> QED
      BY <1>1, <3>1, <3>3 DEF Present, history
  <2> QED
    BY <2>1, <2>2
<1>8. \A g \in Hosts \ {h} : Present(g)'
  BY <1>1, <1>4, PresentFrame, Named DEF Link
<1> QED
  BY <1>6, <1>7, <1>8 DEF Link

(***************************************************************************)
(* The invariant.                                                          *)
(***************************************************************************)
\* The agents are constant.
LEMMA AgentsStay ==
    ASSUME [Next]_vars
    PROVE  UNCHANGED <<agent, marks>>
BY DEF Next, HostStep, ClientStep, ServerStep, Connect, ConnectFails, ClientMine, ClientOthers,
       ClientParams, ClientFilter, ClientList, ServerSet, ServerParams, ServerFilter, ServerList,
       Begin, Misread, PostProcess, PeerGone, Crash, agentVars, vars

\* At the start every round is idle.
LEMMA LinkStarts ==
    ASSUME Init
    PROVE  Link
<1>1. Sessions \in Nat \ {0}
  BY HostsAssumption
<1>2. \A i \in Rounds, h \in Hosts : Place(h, i) = "begin"
  BY <1>1 DEF Init, HostsInit, Place, Rounds
<1>3. ASSUME NEW i \in Rounds PROVE Round(i)
  BY <1>2, HostsType DEF Init, HostsInit, Round, Undecided, Idle, At, Carries
<1>4. 1 \in Rounds
  BY <1>1 DEF Rounds
<1>5. ASSUME NEW h \in Hosts PROVE Present(h)
  BY <1>4 DEF Init, HostsInit, Present
<1> QED
  BY <1>3, <1>5 DEF Link

\* Each step leaves every round in a phase.
LEMMA LinkStays ==
    ASSUME TypeOK, \A h \in Hosts : Kept(h) /\ Bytes(h), Matched, Link, [Next]_vars
    PROVE  Link'
<1>1. CASE UNCHANGED vars
  <2>1. UNCHANGED <<data, pc, comm, chan, oms, history, verdict, base, agent, marks, filter, stored, smo>>
    BY <1>1 DEF vars, hostVars, agentVars, history
  <2>2. \A h \in Hosts, i \in Rounds : Place(h, i)' = Place(h, i)
    BY <2>1 DEF Place
  <2>3. \A i \in Rounds : Round(i)'
    BY <2>1, <2>2, RoundFrame DEF Link
  <2>4. \A h \in Hosts : Present(h)'
    BY <2>1, PresentFrame, Named DEF Link
  <2> QED
    BY <2>3, <2>4 DEF Link
<1>2. ASSUME NEW h \in Hosts, HostStep(h) \/ Crash(h) PROVE Link'
  <2>1. CASE ConnectFails
    BY <2>1, Quits, HostsType DEF ConnectFails, Ended
  <2>2. CASE PeerGone(h)
    BY <2>2, Quits DEF PeerGone, Deserted, Reset, ClientWaits, ServerWaits, Ended
  <2>3. CASE Crash(h)
    BY <2>3, Quits DEF Crash, Killed
  <2> QED
    BY <1>2, <2>1, <2>2, <2>3, Begins, Connects, ClientTakesParams, ServerTakesParams,
       ServerTakesSet, ServerTakesFilter, ClientTakesMine, ClientTakesOthers, ClientTakesList,
       ClientTakesFilter, ServerTakesList, Misreads, PostProcesses
    DEF HostStep, ClientStep, ServerStep
<1> QED
  BY <1>1, <1>2 DEF Next

\* A filter of what is stored is one also after a step that leaves these elements stored.
LEMMA FiltersFrame ==
    ASSUME TypeOK, UNCHANGED <<agent, marks>>, NEW h \in Hosts, NEW S,
           stored'[h] = S, filter'[h] \in FiltersOf(S)
    PROVE  (filter[h] \in FiltersOf(stored[h]))'
<1>1. Kind' = Kind /\ marks' = marks
  BY DEF Kind
<1>2. CASE Kind = "bloom"
  <2>1. filter'[h] = UNION {marks[e] : e \in S}
    BY <1>2 DEF FiltersOf, MarksOf
  <2>2. UNION {marks[e] : e \in S} = UNION {marks'[e] : e \in stored'[h]}
    BY <1>1, Zenon
  <2>3. FiltersOf(stored[h])' = {UNION {marks'[e] : e \in stored'[h]}}
    BY <1>1, <1>2 DEF FiltersOf, MarksOf
  <2> QED
    BY <2>1, <2>2, <2>3
<1>3. CASE Kind = "cuckoo"
  <2>1. PICK at \in Places(S) : filter'[h] = {at[e] : e \in S}
    BY <1>3 DEF FiltersOf
  <2>2. /\ at \in Places(stored[h])'
        /\ {at[e] : e \in S} = {at[e] : e \in stored'[h]}
    BY <1>1, <2>1 DEF Places
  <2>3. FiltersOf(stored[h])' = {{a[e] : e \in stored'[h]} : a \in Places(stored[h])'}
    BY <1>1, <1>3 DEF FiltersOf
  <2> QED
    BY <2>1, <2>2, <2>3
<1>4. CASE Kind = "full"
  BY <1>1, <1>4 DEF FiltersOf
<1> QED
  BY <1>2, <1>3, <1>4, SetupTypes DEF TypeOK

\* A filter is built of what is stored, at the start and with each insertion, and only
\* a cuckoo filter refuses elements.
LEMMA FiltersKept ==
    /\ Init => \A h \in Hosts : Kept(h)
    /\ TypeOK /\ (\A h \in Hosts : Kept(h)) /\ [Next]_vars => \A h \in Hosts : Kept(h)'
<1>1. Init => \A h \in Hosts : Kept(h)
  BY DEF Init, Kept, Inserted
<1>2. ASSUME TypeOK, \A h \in Hosts : Kept(h), [Next]_vars, NEW h \in Hosts PROVE Kept(h)'
  <2>1. UNCHANGED <<agent, marks>> /\ Kind' = Kind
    BY <1>2, AgentsStay DEF Kind
  <2>2. ASSUME data'[h] = data[h], stored'[h] = stored[h], filter'[h] = filter[h]
        PROVE  Kept(h)'
    <3>1. (filter[h] \in FiltersOf(stored[h]))'
      BY <1>2, <2>1, <2>2, FiltersFrame DEF Kept
    <3> QED
      BY <1>2, <2>1, <2>2, <3>1 DEF Kept
  <2>3. ASSUME NEW g \in Hosts, PostProcess(g) PROVE Kept(h)'
    <3>1. PICK T \in Inserted(oms[g]) :
             /\ stored' = [stored EXCEPT ![g] = stored[g] \cup T]
             /\ \E F \in FiltersOf(stored[g] \cup T) : filter' = [filter EXCEPT ![g] = F]
      BY <1>2, <2>3 DEF PostProcess, AddToFilter, TypeOK
    <3>2. PICK F \in FiltersOf(stored[g] \cup T) : filter' = [filter EXCEPT ![g] = F]
      BY <3>1
    <3>3. DOMAIN data = Hosts /\ DOMAIN stored = Hosts /\ DOMAIN filter = Hosts
      BY <1>2 DEF TypeOK, HostsTypeOK
    <3>4. data' = [data EXCEPT ![g] = data[g] \cup oms[g]]
      BY <2>3, <3>3 DEF PostProcess, NextCommunicant, PostProcessing
    <3>5. T \subseteq oms[g] /\ (Kind # "cuckoo" => T = oms[g])
      BY <3>1 DEF Inserted
    <3>6. CASE g = h
      <4> DEFINE S == stored[h] \cup T
      <4>1. stored'[h] = S /\ filter'[h] = F /\ F \in FiltersOf(S)
        BY <3>1, <3>2, <3>3, <3>6
      <4> HIDE DEF S
      <4>2. (filter[h] \in FiltersOf(stored[h]))'
        BY <1>2, <2>1, <4>1, FiltersFrame
      <4>3. data'[h] = data[h] \cup oms[h] /\ T \subseteq oms[h]
            /\ (Kind # "cuckoo" => T = oms[h])
        BY <3>3, <3>4, <3>5, <3>6
      <4> QED
        BY <1>2, <2>1, <4>1, <4>2, <4>3 DEF Kept, S
    <3>7. CASE g # h
      <4>1. data'[h] = data[h] /\ stored'[h] = stored[h] /\ filter'[h] = filter[h]
        BY <3>1, <3>2, <3>3, <3>4, <3>7
      <4> QED
        BY <2>2, <4>1
    <3> QED
      BY <3>6, <3>7
  <2>4. (\E g \in Hosts : PostProcess(g)) \/ UNCHANGED <<data, filter, stored>>
    BY <1>2 DEF Next, HostStep, ClientStep, ServerStep, Connect, ConnectFails, ClientMine,
           ClientOthers, ClientParams, ClientFilter, ClientList, ServerSet, ServerParams,
           ServerFilter, ServerList, Begin, Misread, PeerGone, Crash, agentVars, hostVars, vars
  <2> QED
    BY <2>2, <2>3, <2>4
<1> QED
  BY <1>1, <1>2

\* Each step of a host leaves its byte where it is read, and those of the peer alone.
LEMMA BytesKept ==
    /\ Init => \A h \in Hosts : Bytes(h)
    /\ TypeOK /\ (\A h \in Hosts : Bytes(h)) /\ [Next]_vars => \A h \in Hosts : Bytes(h)'
<1>1. Init => \A h \in Hosts : Bytes(h)
  BY DEF Init, HostsInit, Bytes
<1>2. ASSUME TypeOK, \A h \in Hosts : Bytes(h), [Next]_vars, NEW g \in Hosts PROVE Bytes(g)'
  <2> PICK c \in Hosts, s \in Hosts :
          c = "client" /\ s = "server" /\ c # s /\ Hosts = {c, s}
    BY Two
  <2>1. /\ LastMarks' = LastMarks /\ (Kind # "cuckoo" => LastMarks = {})
        /\ DOMAIN pc = Hosts /\ DOMAIN oms = Hosts /\ DOMAIN rest = Rounds
        /\ \A i \in Rounds : DOMAIN rest[i] = Hosts
        /\ comm[g] \in Rounds
    BY <1>2, AgentsStay, SetupTypes, Named DEF LastMarks, TypeOK
  <2>2. ASSUME UNCHANGED <<oms, rest, comm>>, pc'[g] = pc[g] \/ pc'[g] \in {"begin", "connecting", "listening", "quit", "returned"}
        PROVE  Bytes(g)'
    BY <1>2, <2>1, <2>2 DEF Bytes
  <2>3. CASE UNCHANGED vars
    BY <2>2, <2>3 DEF vars, hostVars, agentVars
  <2>4. ASSUME NEW h \in Hosts, Begin(h) \/ PostProcess(h) \/ Misread(h) PROVE Bytes(g)'
    <3>1. CASE g = h
      <4>1. pc'[g] \in {"connecting", "listening", "begin", "returned", "misread"}
        BY <2>1, <2>4, <3>1 DEF Begin, PostProcess, NextCommunicant, Misread, Goto
      <4>2. rest' = rest \/ rest' = [rest EXCEPT ![comm[g]][g] = "none"]
        BY <2>4, <3>1 DEF Begin, PostProcess, Misread
      <4>3. ASSUME \A i \in Rounds : rest[i][g] = "none", NEW i \in Rounds
            PROVE  rest'[i][g] = "none"
        BY <2>1, <4>2, <4>3
      <4>4. LastMarks' = {} => \A i \in Rounds : rest'[i][g] = "none"
        BY <1>2, <2>1, <4>3 DEF Bytes
      <4>5. pc'[g] \notin {"awaitParams", "recvParams", "recvSet", "awaitMine", "awaitOthers",
                           "awaitList", "recvList", "post"}
        BY <4>1
      <4> QED
        BY <4>4, <4>5 DEF Bytes
    <3>2. CASE g # h
      <4>1. pc'[g] = pc[g] /\ oms'[g] = oms[g] /\ comm'[g] = comm[g]
            /\ \A i \in Rounds : rest'[i][g] = rest[i][g]
        <5>1. DOMAIN comm = Hosts
          BY <1>2 DEF TypeOK, HostsTypeOK
        <5>2. /\ pc'[g] = pc[g] /\ oms'[g] = oms[g]
              /\ rest' = rest \/ rest' = [rest EXCEPT ![comm[h]][h] = "none"]
          BY <2>1, <2>4, <3>2 DEF Begin, PostProcess, NextCommunicant, Misread, Goto
        <5>3. comm'[g] = comm[g]
          BY <2>4, <3>2, <5>1 DEF Begin, PostProcess, NextCommunicant, Misread
        <5>4. \A i \in Rounds : rest'[i][g] = rest[i][g]
          BY <2>1, <3>2, <5>2
        <5> QED
          BY <5>2, <5>3, <5>4
      <4> QED
        BY <1>2, <2>1, <4>1 DEF Bytes
    <3> QED
      BY <3>1, <3>2
  <2>5. ASSUME NEW h \in Hosts, Quit(h), UNCHANGED <<oms, rest, comm>> PROVE Bytes(g)'
    BY <2>1, <2>2, <2>5 DEF Quit, Goto
  <2>6. ASSUME NEW h \in Hosts, PeerGone(h) \/ Crash(h) \/ ConnectFails PROVE Bytes(g)'
    <3>1. UNCHANGED <<oms, rest, comm>> /\ \E f \in Hosts : Quit(f)
      BY <2>6 DEF PeerGone, Deserted, Reset, Crash, Killed, ConnectFails, agentVars
    <3> QED
      BY <2>5, <3>1
  <2>7. CASE Connect
    BY <1>2, <2>1, <2>7 DEF Bytes, Connect, agentVars
  <2>8. ASSUME NEW h \in Hosts, (h = c /\ ClientFilter) \/ (h = s /\ ServerFilter) PROVE Bytes(g)'
    <3> DEFINE sent == Head(Incoming(h)).marks
           Looked(byte) ==
             /\ rest' = [rest EXCEPT ![comm[h]][h] = byte]
             /\ UNCHANGED <<oms, comm>>
             /\ \/ pc' = [pc EXCEPT ![h] = "post"] /\ Kind = "bloom"
                \/ pc' = [pc EXCEPT ![h] = "awaitList"]
                \/ pc' = [pc EXCEPT ![h] = "recvList"]
    <3>1. PICK byte \in LastByte(sent) : Looked(byte)
      <4>1. ASSUME h = c, ClientFilter
            PROVE  \E byte \in LastByte(sent) : Looked(byte)
        <5>1. PICK F \in Received(sent), byte \in LastByte(sent) : LooksInto(h, F, byte)
          BY <4>1 DEF ClientFilter
        <5>2. UNCHANGED <<oms, comm>>
              /\ pc' = [pc EXCEPT ![h] = IF Kind = "bloom" THEN "post" ELSE "awaitList"]
          BY <4>1 DEF ClientFilter, Goto
        <5> QED
          BY <5>1, <5>2 DEF LooksInto
      <4>2. ASSUME h = s, ServerFilter
            PROVE  \E byte \in LastByte(sent) : Looked(byte)
        <5>1. PICK F \in Received(sent), byte \in LastByte(sent) : LooksInto(h, F, byte)
          BY <4>2 DEF ServerFilter
        <5>2. UNCHANGED <<oms, comm>> /\ pc' = [pc EXCEPT ![h] = "recvList"]
          BY <4>2 DEF ServerFilter, Goto
        <5> QED
          BY <5>1, <5>2 DEF LooksInto
      <4> QED
        BY <2>8, <4>1, <4>2
    <3>2. (LastMarks = {} => byte = "none") /\ (LastMarks # {} => byte \in {"zero", "nonzero"})
      BY DEF LastByte
    <3>3. CASE g = h
      <4>1. rest'[comm[g]][g] = byte /\ comm'[g] = comm[g]
            /\ \A i \in Rounds : i # comm[g] => rest'[i][g] = rest[i][g]
        BY <2>1, <3>1, <3>3
      <4>2. LastMarks' = {} => \A i \in Rounds : rest'[i][g] = "none"
        BY <1>2, <2>1, <3>2, <4>1 DEF Bytes
      <4>3. \/ pc'[g] = "post" /\ LastMarks' = {}
            \/ pc'[g] \in {"awaitList", "recvList"}
        BY <2>1, <3>1, <3>3
      <4> QED
        BY <2>1, <3>2, <4>1, <4>2, <4>3 DEF Bytes
    <3>4. CASE g # h
      <4>1. pc'[g] = pc[g] /\ oms'[g] = oms[g] /\ comm'[g] = comm[g]
            /\ \A i \in Rounds : rest'[i][g] = rest[i][g]
        BY <2>1, <3>1, <3>4, HostsType
      <4> QED
        BY <1>2, <2>1, <4>1 DEF Bytes
    <3> QED
      BY <3>3, <3>4
  <2>9. ASSUME NEW h \in Hosts,
               \/ h = c /\ (ClientMine \/ ClientOthers \/ ClientParams \/ ClientList)
               \/ h = s /\ (ServerSet \/ ServerParams \/ ServerList)
        PROVE  Bytes(g)'
    <3>1. UNCHANGED <<rest, comm>>
      BY <2>9 DEF ClientMine, ClientOthers, ClientParams, ClientList, ServerSet, ServerParams,
         ServerList, agentVars
    <3>2. CASE g # h
      <4>1. pc'[g] = pc[g] /\ oms'[g] = oms[g]
        BY <2>1, <2>9, <3>2
        DEF ClientMine, ClientOthers, ClientParams, ClientList, ServerSet, ServerParams,
            ServerList, Goto
      <4> QED
        BY <1>2, <2>1, <3>1, <4>1 DEF Bytes
    <3>3. CASE g = h /\ LastMarks = {}
      BY <1>2, <2>1, <3>1, <3>3 DEF Bytes
    <3>4. CASE g = h /\ LastMarks # {}
      <4>1. (ClientList /\ g = c) \/ (ServerList /\ g = s)
        BY <1>2, <2>9, <3>4
        DEF Bytes, ClientMine, ClientOthers, ClientParams, ServerSet, ServerParams
      <4>2. Head(Incoming(g)).set = {} /\ pc'[g] # "awaitList" /\ oms'[g] = Head(Incoming(g)).set
        BY <1>2, <2>1, <3>4, <4>1 DEF Bytes, ClientList, ServerList, Framed, Goto
      <4>3. pc'[g] \in {"awaitFilter", "post"}
        BY <2>1, <4>1 DEF ClientList, ServerList, Goto
      <4> QED
        BY <1>2, <2>1, <3>1, <3>4, <4>2, <4>3 DEF Bytes
    <3> QED
      BY <3>2, <3>3, <3>4
  <2>10. CASE ClientStep
    <3>1. ClientFilter => Bytes(g)'
      BY <2>8
    <3>2. ClientMine \/ ClientOthers \/ ClientParams \/ ClientList => Bytes(g)'
      BY <2>9
    <3>3. ConnectFails => Bytes(g)'
      BY <2>6
    <3> QED
      BY <2>7, <2>10, <3>1, <3>2, <3>3 DEF ClientStep
  <2>11. CASE ServerStep
    <3>1. ServerFilter => Bytes(g)'
      BY <2>8
    <3>2. ServerSet \/ ServerParams \/ ServerList => Bytes(g)'
      BY <2>9
    <3> QED
      BY <2>11, <3>1, <3>2 DEF ServerStep
  <2>12. Next \/ UNCHANGED vars
    BY <1>2
  <2> QED
    BY <2>3, <2>4, <2>6, <2>10, <2>11, <2>12 DEF Next, HostStep
<1> QED
  BY <1>1, <1>2

\* Reachable states have their types, filters tell of what is stored, bytes are where
\* they are read, and rounds between matching agents are in their phases.
THEOREM FiltersInvariance == Spec => []IInv
<1>1. Init => IInv
  BY InitTypeOK, LinkStarts, FiltersKept, BytesKept DEF IInv
<1>2. IInv /\ [Next]_vars => IInv'
  <2> SUFFICES ASSUME IInv, [Next]_vars PROVE IInv'
    OBVIOUS
  <2>1. TypeOK' /\ \A h \in Hosts : Kept(h)' /\ Bytes(h)'
    BY TypesStay, FiltersKept, BytesKept DEF IInv
  <2>2. Matched' <=> Matched
    BY AgentsStay DEF Matched
  <2>3. Matched => Link'
    BY LinkStays DEF IInv
  <2> QED
    BY <2>1, <2>2, <2>3 DEF IInv
<1> QED
  BY <1>1, <1>2, PTL DEF Spec

(***************************************************************************)
(* What follows.                                                           *)
(***************************************************************************)
\* A host that ends a session misses only elements that its own ones mask, or that have
\* a mark in the byte of a filter that does not arrive: no failed insertion, no eviction
\* and no filter of an earlier session hides another.
THEOREM OnlyMaskedMissed == Spec => []MissedOnlyMasked
<1>1. IInv => MissedOnlyMasked
  BY DEF IInv, Link, Present, Due, MissedOnlyMasked
<1> QED
  BY <1>1, FiltersInvariance, PTL

\* It is given only what the peer held when the server decided, and nothing that it has
\* in its own filter - also where lists are misread, for then it is given nothing.
THEOREM NothingComesTwice == Spec => []NoEcho
<1>1. IInv => NoEcho
  BY DEF IInv, Link, Present, Due, Bytes, Torn, NoEcho
<1> QED
  BY <1>1, FiltersInvariance, PTL
=============================================================================
