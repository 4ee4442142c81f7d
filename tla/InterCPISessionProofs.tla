------------------------- MODULE InterCPISessionProofs -------------------------
(***************************************************************************)
(* Theorems about InterCPISession, for any elements, positions, agents,    *)
(* range of positions and number of sessions.                              *)
(*                                                                         *)
(* The module starts with the types, which hold whatever agents meet.      *)
(* Then, for hosts with equal agents: a list of blocks, the nodes that are *)
(* still to be reconciled, stands for the recursion of both hosts; the     *)
(* phases of a round say where each host is in that list, what is in the   *)
(* streams, and that whatever a host lacks is learned, lost or in a block  *)
(* of the list.  The steps follow, one lemma for each action.  What a call *)
(* makes of the list is the same on both sides, so that the hosts are in   *)
(* the same call when the server attempts a node, and at the end nothing   *)
(* is lost but the crowds.                                                 *)
(***************************************************************************)
EXTENDS InterCPISession, FiniteSetTheorems, SequenceTheorems, TLAPS

(***************************************************************************)
(* Types.                                                                  *)
(***************************************************************************)
\* Each host's peer is the other host.
LEMMA HostsType ==
    /\ "client" \in Hosts /\ "server" \in Hosts
    /\ \A h \in Hosts : Other(h) \in Hosts /\ Other(h) # h /\ Other(Other(h)) = h
BY DEF Hosts, Other

\* Names for the two hosts.
LEMMA Two ==
    \E c \in Hosts, s \in Hosts :
        /\ c = "client" /\ s = "server" /\ c # s /\ Other(c) = s /\ Other(s) = c
        /\ Hosts = {c, s}
BY DEF Hosts, Other

\* What the agents and the positions are.
LEMMA SetupTypes ==
    ASSUME TypeOK
    PROVE  /\ agent \in [Hosts -> InterType] /\ pos \in [Elem -> 0..DATA_MAX - 1]
           /\ \A h \in Hosts : /\ agent[h].mod \in Tokens /\ agent[h].par \in Tokens
                               /\ agent[h].mbar \in Nat \ {0}
                               /\ agent[h].pFactor \in Nat \ {0, 1}
                               /\ agent[h].hashes \in BOOLEAN
<1>1. [agent |-> agent, pos |-> pos]
        \in [agent : [Hosts -> InterType], pos : [Elem -> 0..DATA_MAX - 1]]
  BY InterAssumption DEF TypeOK
<1>2. agent \in [Hosts -> InterType] /\ pos \in [Elem -> 0..DATA_MAX - 1]
  BY <1>1
<1> QED
  BY <1>2 DEF InterType

\* A host at one of these receives is in a call, and no call has its range reversed.
InCall == {"info", "all", "recvEvals", "strings", "awaitVerdict", "awaitDeltas", "awaitFlag"}
CallsOK ==
    \A h \in Hosts :
        /\ calls[h] = <<>> => pc[h] \notin InCall
        /\ \A n \in 1..Len(calls[h]) : calls[h][n].beg <= calls[h][n].end

Types == TypeOK /\ CallsOK

\* Lists of calls in order.
Ordered == {cs \in Seq(Call) : \A n \in 1..Len(cs) : cs[n].beg <= cs[n].end}

\* The calls of a host are in order.
LEMMA CallsAre ==
    ASSUME Types, NEW h \in Hosts
    PROVE  calls[h] \in Ordered /\ (pc[h] \in InCall => calls[h] # <<>>)
BY DEF Types, TypeOK, CallsOK, Ordered

\* The first of a list of calls, and the others.
LEMMA OrderedTail ==
    ASSUME NEW cs \in Ordered, cs # <<>>
    PROVE  /\ Head(cs) \in Call /\ Head(cs).beg <= Head(cs).end
           /\ Tail(cs) \in Ordered
<1>1. /\ cs \in Seq(Call) /\ \A n \in 1..Len(cs) : cs[n].beg <= cs[n].end
      /\ Len(cs) \in Nat \ {0}
  BY DEF Ordered
<1>2. /\ Head(cs) = cs[1] /\ Head(cs) \in Call /\ Tail(cs) \in Seq(Call)
      /\ Len(Tail(cs)) = Len(cs) - 1
      /\ \A n \in 1..Len(cs) - 1 : Tail(cs)[n] = cs[n + 1]
  BY <1>1
<1>3. \A n \in 1..Len(Tail(cs)) : Tail(cs)[n].beg <= Tail(cs)[n].end
  <2> SUFFICES ASSUME NEW n \in 1..Len(Tail(cs)) PROVE Tail(cs)[n].beg <= Tail(cs)[n].end
    OBVIOUS
  <2>1. n \in 1..Len(cs) - 1 /\ n + 1 \in 1..Len(cs)
    BY <1>1, <1>2
  <2>2. Tail(cs)[n] = cs[n + 1]
    BY <1>2, <2>1
  <2> QED
    BY <1>1, <2>1, <2>2
<1>4. cs[1].beg <= cs[1].end
  BY <1>1
<1>5. Tail(cs) \in Ordered
  BY <1>2, <1>3 DEF Ordered
<1> QED
  BY <1>2, <1>4, <1>5, Zenon

\* Two lists of calls.
LEMMA OrderedConcat ==
    ASSUME NEW cs \in Ordered, NEW ds \in Ordered
    PROVE  cs \o ds \in Ordered
<1>1. /\ cs \in Seq(Call) /\ \A n \in 1..Len(cs) : cs[n].beg <= cs[n].end
      /\ ds \in Seq(Call) /\ \A n \in 1..Len(ds) : ds[n].beg <= ds[n].end
      /\ Len(cs) \in Nat /\ Len(ds) \in Nat
  BY DEF Ordered
<1>2. /\ cs \o ds \in Seq(Call) /\ Len(cs \o ds) = Len(cs) + Len(ds)
      /\ \A n \in 1..Len(cs) : (cs \o ds)[n] = cs[n]
      /\ \A n \in Len(cs) + 1..Len(cs) + Len(ds) : (cs \o ds)[n] = ds[n - Len(cs)]
  BY <1>1
<1>3. ASSUME NEW n \in 1..Len(cs \o ds) PROVE (cs \o ds)[n].beg <= (cs \o ds)[n].end
  <2>1. CASE n \in 1..Len(cs)
    BY <1>1, <1>2, <2>1
  <2>2. CASE n \in Len(cs) + 1..Len(cs) + Len(ds)
    <3>1. n - Len(cs) \in 1..Len(ds)
      BY <1>1, <2>2
    <3> QED
      BY <1>1, <1>2, <2>2, <3>1
  <2> QED
    BY <1>1, <1>2, <2>1, <2>2
<1> QED
  BY <1>2, <1>3 DEF Ordered

(***************************************************************************)
(* Ranges.                                                                 *)
(***************************************************************************)
\* The step of the recursion: the parts fit in the range, and it is 0 exactly when there
\* are more parts than positions; the step of the children then is 1.
LEMMA StepIs ==
    ASSUME NEW len \in Nat, NEW p \in Nat \ {0}
    PROVE  /\ len \div p \in Nat /\ p * (len \div p) <= len
           /\ len < p <=> len \div p = 0
<1>1. /\ len \div p \in Nat /\ len % p \in 0..(p - 1)
      /\ len = (p * (len \div p)) + (len % p)
  OBVIOUS
<1> PICK q \in Nat, r \in 0..(p - 1) : q = len \div p /\ r = len % p /\ len = (p * q) + r
  BY <1>1
<1>2. q = 0 => p * q = 0
  OBVIOUS
<1>3. q >= 1 => p * q >= p
  OBVIOUS
<1> PICK x \in Nat : x = p * q
  OBVIOUS
<1>4. x <= len /\ (len < p <=> q = 0)
  BY <1>2, <1>3
<1> QED
  BY <1>4

\* Multiples.
LEMMA Multiples ==
    ASSUME NEW s \in Nat, NEW p \in Nat, NEW j \in 0..p
    PROVE  /\ j * s \in Nat /\ p * s \in Nat /\ j * s <= p * s
           /\ (j + 1) * s = (j * s) + s
<1>1. (p - j) * s \in Nat /\ p * s = (j * s) + ((p - j) * s) /\ j * s \in Nat /\ p * s \in Nat
  OBVIOUS
<1>2. (j + 1) * s = (j * s) + s
  OBVIOUS
<1> QED
  BY <1>1, <1>2

\* Where a part of a range, with step s, begins and ends.
PartRange(beg, end, p, j, s) ==
    LET first == beg + j * s
        last == IF j = p - 1 THEN end ELSE beg + (j + 1) * s
    IN /\ first \in beg..end /\ last \in beg..end /\ first <= last
       /\ s \in Nat /\ (first = last /\ beg # end => s = 0 /\ j # p - 1)

\* The parts of a range are in it.
LEMMA RangeOfPart ==
    ASSUME NEW beg \in Nat, NEW end \in Nat, beg <= end, NEW p \in Nat \ {0, 1},
           NEW s, s = (end - beg) \div p, NEW j \in 0..p - 1
    PROVE  PartRange(beg, end, p, j, s)
<1>1. /\ s \in Nat /\ p * s <= end - beg /\ p \in Nat \ {0} /\ end - beg \in Nat
      /\ end - beg < p <=> s = 0
  BY StepIs
<1>2. j \in 0..p /\ j + 1 \in 0..p /\ j \in Nat
  OBVIOUS
<1>3. /\ j * s \in Nat /\ (j + 1) * s \in Nat /\ p * s \in Nat
      /\ j * s <= p * s /\ (j + 1) * s <= p * s
  <2>1. j * s \in Nat /\ p * s \in Nat /\ j * s <= p * s
    BY <1>1, <1>2, Multiples
  <2>2. (j + 1) * s \in Nat /\ (j + 1) * s <= p * s
    BY <1>1, <1>2, Multiples
  <2> QED
    BY <2>1, <2>2, Zenon
<1>4. (j + 1) * s = (j * s) + s
  BY <1>1, <1>2, Multiples
<1> PICK x \in Nat, y \in Nat, z \in Nat :
        /\ x = j * s /\ y = (j + 1) * s /\ z = p * s
        /\ x <= z /\ y <= z /\ y = x + s /\ z <= end - beg
  BY <1>1, <1>3, <1>4
<1>5. j = p - 1 => y = z
  OBVIOUS
<1>6. /\ beg + x \in beg..end
      /\ (IF j = p - 1 THEN end ELSE beg + y) \in beg..end
      /\ beg + x <= (IF j = p - 1 THEN end ELSE beg + y)
  BY <1>1
<1>7. (beg + x = IF j = p - 1 THEN end ELSE beg + y) /\ beg # end => s = 0 /\ j # p - 1
  <2>1. CASE j = p - 1
    <3>1. s = 0 => x = 0
      OBVIOUS
    <3> QED
      BY <1>1, <1>5, <2>1, <3>1
  <2>2. CASE j # p - 1
    BY <1>1, <2>2
  <2> QED
    BY <2>1, <2>2
<1> QED
  BY <1>1, <1>6, <1>7 DEF PartRange

\* For every part of every range.
LEMMA RangesOfParts ==
    \A beg \in Nat, end \in Nat, p \in Nat \ {0, 1} : \A j \in 0..p - 1 :
        beg <= end => PartRange(beg, end, p, j, (end - beg) \div p)
<1> SUFFICES ASSUME NEW beg \in Nat, NEW end \in Nat, NEW p \in Nat \ {0, 1},
                    NEW j \in 0..p - 1, beg <= end
             PROVE  PartRange(beg, end, p, j, (end - beg) \div p)
  OBVIOUS
<1> PICK s : s = (end - beg) \div p
  OBVIOUS
<1>1. PartRange(beg, end, p, j, s)
  BY RangeOfPart
<1> QED
  BY <1>1, Zenon

\* The children of a call are calls.
LEMMA ChildrenTypes ==
    ASSUME NEW c \in Call, c.beg <= c.end, NEW p \in Nat \ {0, 1}
    PROVE  Children(c, p) \in Ordered /\ Children(c, p) # <<>> /\ Len(Children(c, p)) = p
<1> DEFINE s == CallStep(c, p)
           Child(j) ==
             [node |-> c.beg # c.end,
              set |-> IF c.beg = c.end THEN {} ELSE {e \in c.set : ChildOf(c, p, e) = j},
              beg |-> c.beg + j * s,
              end |-> IF j = p - 1 THEN c.end ELSE c.beg + (j + 1) * s]
<1>1. /\ c.beg \in 0..DATA_MAX /\ c.end \in 0..DATA_MAX /\ c.set \in SUBSET Elem
      /\ DATA_MAX \in Nat
  BY InterAssumption DEF Call
<1>2. ASSUME NEW j \in 0..p - 1
      PROVE  Child(j) \in Call /\ Child(j).beg <= Child(j).end
  <2>1. s = (c.end - c.beg) \div p
    BY DEF CallStep
  <2>2. c.beg \in Nat /\ c.end \in Nat
    BY <1>1
  <2> PICK x, y : x = c.beg + j * s /\ y = IF j = p - 1 THEN c.end ELSE c.beg + (j + 1) * s
    OBVIOUS
  <2>3. x \in c.beg..c.end /\ y \in c.beg..c.end /\ x <= y
    <3>1. PartRange(c.beg, c.end, p, j, s)
      BY <2>1, <2>2, RangesOfParts, Zenon
    <3> QED
      BY <3>1, Zenon DEF PartRange
  <2>4. x \in 0..DATA_MAX /\ y \in 0..DATA_MAX
    BY <1>1, <2>3
  <2>5. Child(j).beg = x /\ Child(j).end = y
    OBVIOUS
  <2>6. Child(j) = [node |-> c.beg # c.end,
                    set |-> IF c.beg = c.end THEN {} ELSE {e \in c.set : ChildOf(c, p, e) = j},
                    beg |-> x, end |-> y]
    OBVIOUS
  <2>7. (IF c.beg = c.end THEN {} ELSE {e \in c.set : ChildOf(c, p, e) = j}) \in SUBSET Elem
    BY <1>1
  <2>8. Child(j) \in Call
    BY <2>4, <2>6, <2>7 DEF Call
  <2> QED
    BY <2>3, <2>5, <2>8
<1>3. Children(c, p) = [n \in 1..p |-> Child(n - 1)]
  BY DEF Children
<1> HIDE DEF Child, s
<1>4. \A n \in 1..p : n - 1 \in 0..p - 1
  OBVIOUS
<1>5. Children(c, p) \in Seq(Call) /\ Len(Children(c, p)) = p
  BY <1>2, <1>3, <1>4
<1>6. \A n \in 1..Len(Children(c, p)) : Children(c, p)[n].beg <= Children(c, p)[n].end
  BY <1>2, <1>3, <1>4, <1>5
<1>7. Children(c, p) # <<>>
  BY <1>5
<1> QED
  BY <1>5, <1>6, <1>7 DEF Ordered

\* The calls that follow a failed attempt.
LEMMA PartsTypes ==
    ASSUME Types, NEW h \in Hosts, calls[h] # <<>>
    PROVE  /\ Parts(h, Node(h)) \o Tail(calls[h]) \in Ordered
           /\ Parts(h, Node(h)) \o Tail(calls[h]) # <<>>
<1>1. /\ Node(h) \in Call /\ Node(h).beg <= Node(h).end /\ Tail(calls[h]) \in Ordered
  BY CallsAre, OrderedTail DEF Node
<1>2. agent[h].pFactor \in Nat \ {0, 1}
  BY SetupTypes DEF Types
<1>3. /\ Parts(h, Node(h)) \in Ordered /\ Parts(h, Node(h)) # <<>>
      /\ Len(Parts(h, Node(h))) = agent[h].pFactor
  BY <1>1, <1>2, ChildrenTypes DEF Parts
<1> PICK x \in Ordered, y \in Ordered : x = Parts(h, Node(h)) /\ y = Tail(calls[h]) /\ x # <<>>
  BY <1>1, <1>3
<1>4. x \o y \in Ordered
  BY OrderedConcat
<1>5. x \o y # <<>>
  <2>1. x \in Seq(Call) /\ y \in Seq(Call)
    BY DEF Ordered
  <2> QED
    BY <2>1
<1> QED
  BY <1>4, <1>5, Zenon

\* The root is a call.
LEMMA RootTypes ==
    ASSUME TypeOK, NEW h \in Hosts
    PROVE  <<Root(h)>> \in Ordered
<1>1. data[h] \in SUBSET Elem /\ DATA_MAX \in Nat
  BY InterAssumption DEF TypeOK, HostsTypeOK
<1>2. Root(h) \in Call
  BY <1>1 DEF Root, Call
<1>3. Root(h).beg <= Root(h).end
  BY <1>1 DEF Root
<1> PICK r \in Call : r = Root(h) /\ r.beg <= r.end
  BY <1>2, <1>3
<1>4. <<r>> \in Ordered
  BY DEF Ordered
<1> QED
  BY <1>4

\* What is sent is a message.
LEMMA MessageTypes ==
    /\ \A b \in BOOLEAN : Flag(b) \in Message
    /\ \A c \in Call, h \in Hosts : Info(h, c) \in Message
    /\ \A t \in Tokens : /\ [type |-> "mod", mod |-> t] \in Message
                         /\ [type |-> "params", par |-> t] \in Message
    /\ \A S \in SUBSET Elem : /\ [type |-> "all", set |-> S] \in Message
                              /\ [type |-> "evals", set |-> S] \in Message
                              /\ [type |-> "strings", set |-> S] \in Message
    /\ \A S, T \in SUBSET Elem : [type |-> "deltas", other |-> S, self |-> T] \in Message
<1>1. ASSUME NEW c \in Call, NEW h \in Hosts PROVE SomeInfo(h, c) \in BOOLEAN
  BY DEF SomeInfo, Call
<1>2. \A c \in Call, h \in Hosts : Info(h, c) \in Message
  BY <1>1 DEF Info, Message
<1> QED
  BY <1>2 DEF Message, Flag

\* The sets that messages carry are sets of elements.
LEMMA MessageFields ==
    ASSUME NEW m \in Message
    PROVE  /\ m.type \in {"all", "evals", "strings"} => m.set \in SUBSET Elem
           /\ m.type = "deltas" => m.other \in SUBSET Elem /\ m.self \in SUBSET Elem
           /\ m.type = "flag" => m.ok \in BOOLEAN
           /\ m.type = "info" => m.ok \in BOOLEAN
BY DEF Message

\* The stream of the host in its round.
LEMMA StreamTypes ==
    ASSUME TypeOK, NEW h \in Hosts
    PROVE  /\ chan \in [Rounds -> [Hosts -> Seq(Message)]]
           /\ comm[h] \in Rounds /\ chan[comm[h]] \in [Hosts -> Seq(Message)]
           /\ Incoming(h) = chan[comm[h]][h] /\ Incoming(h) \in Seq(Message)
           /\ Other(h) \in Hosts /\ Other(h) # h
BY HostsType DEF TypeOK, HostsTypeOK, Incoming

\* The streams keep their type under each of the three ways an action uses them.
LEMMA ChanTypes ==
    ASSUME TypeOK, NEW h \in Hosts, NEW msgs \in Seq(Message)
    PROVE  /\ Send(h, msgs) => chan' \in [Rounds -> [Hosts -> Seq(Message)]]
           /\ Incoming(h) # <<>> =>
                 /\ Head(Incoming(h)) \in Message
                 /\ Receive(h) => chan' \in [Rounds -> [Hosts -> Seq(Message)]]
                 /\ Answer(h, msgs) => chan' \in [Rounds -> [Hosts -> Seq(Message)]]
<1> DEFINE q == chan[comm[h]][h]
           r == chan[comm[h]][Other(h)] \o msgs
<1>1. chan[comm[h]][Other(h)] \in Seq(Message)
  BY StreamTypes
<1>2. r \in Seq(Message)
  BY <1>1
<1>3. q \in Seq(Message) /\ (q # <<>> => Tail(q) \in Seq(Message) /\ Head(q) \in Message)
  BY StreamTypes
<1>4. ASSUME Send(h, msgs) PROVE chan' \in [Rounds -> [Hosts -> Seq(Message)]]
  <2>1. chan' = [chan EXCEPT ![comm[h]][Other(h)] = r]
    BY <1>4, StreamTypes DEF Send
  <2> HIDE DEF r
  <2> QED
    BY <1>2, <2>1, StreamTypes
<1>5. ASSUME Incoming(h) # <<>>, Receive(h) PROVE chan' \in [Rounds -> [Hosts -> Seq(Message)]]
  <2>1. Tail(q) \in Seq(Message) /\ chan' = [chan EXCEPT ![comm[h]][h] = Tail(q)]
    BY <1>3, <1>5, StreamTypes DEF Receive
  <2> HIDE DEF q
  <2> QED
    BY <2>1, StreamTypes
<1>6. ASSUME Incoming(h) # <<>>, Answer(h, msgs) PROVE chan' \in [Rounds -> [Hosts -> Seq(Message)]]
  <2>1. /\ Tail(q) \in Seq(Message)
        /\ chan' = [chan EXCEPT ![comm[h]][h] = Tail(q), ![comm[h]][Other(h)] = r]
    BY <1>3, <1>6, StreamTypes DEF Answer
  <2> HIDE DEF q, r
  <2> QED
    BY <1>2, <2>1, StreamTypes
<1> QED
  BY <1>3, <1>4, <1>5, <1>6, StreamTypes

\* The initial states have their types.
LEMMA InitTypes == Init => Types
<1> SUFFICES ASSUME Init PROVE Types
  OBVIOUS
<1>1. 1 \in Rounds
  BY HostsAssumption DEF Rounds
<1>2. open \in [Rounds -> [Hosts -> BOOLEAN]] /\ chan \in [Rounds -> [Hosts -> Seq(Message)]]
  BY DEF Init, HostsInit
<1>3. [agent |-> agent, pos |-> pos] \in Setups
  <2> PICK s \in Setups : agent = s.agent /\ pos = s.pos
    BY DEF Init
  <2>1. s \in [agent : [Hosts -> InterType], pos : [Elem -> 0..DATA_MAX - 1]]
    BY InterAssumption
  <2>2. s = [agent |-> s.agent, pos |-> s.pos]
    BY <2>1
  <2> QED
    BY <2>2
<1>4. HostsTypeOK(ClientPC, ServerPC, Message)
  BY <1>1, <1>2, HostsType DEF Init, HostsInit, HostsTypeOK, ClientPC, ServerPC
<1>5. /\ calls \in [Hosts -> Seq(Call)] /\ \A h \in Hosts : calls[h] = <<>> /\ pc[h] = "begin"
  BY DEF Init, HostsInit
<1>6. CallsOK
  BY <1>5 DEF CallsOK, InCall
<1> QED
  BY <1>3, <1>4, <1>5, <1>6 DEF TypeOK, Types

\* The labels of a host.
Labels(h) == IF h = "client" THEN ClientPC ELSE ServerPC

\* A step of one host in its session keeps the types.
LEMMA StepTypes ==
    ASSUME Types, NEW h \in Hosts, NEW p \in Labels(h), NEW cs \in Ordered,
           p \in InCall => cs # <<>>,
           pc' = [pc EXCEPT ![h] = p], calls' = [calls EXCEPT ![h] = cs],
           chan' \in [Rounds -> [Hosts -> Seq(Message)]],
           open' \in [Rounds -> [Hosts -> BOOLEAN]],
           oms' \in [Hosts -> SUBSET Elem],
           verdict' \in [Rounds -> {"none", "ok", "fail"}],
           base' \in [Rounds -> [Hosts -> SUBSET Elem]],
           UNCHANGED <<data, comm, result, success, agent, pos>>
    PROVE  Types'
<1>1. /\ pc'["client"] \in ClientPC /\ pc'["server"] \in ServerPC /\ DOMAIN pc' = Hosts
  BY HostsType DEF Types, TypeOK, HostsTypeOK, Labels
<1>2. HostsTypeOK(ClientPC, ServerPC, Message)'
  BY <1>1 DEF Types, TypeOK, HostsTypeOK
<1>3. calls' \in [Hosts -> Seq(Call)]
  BY DEF Types, TypeOK, Ordered
<1>4. ASSUME NEW g \in Hosts
      PROVE  /\ calls'[g] = <<>> => pc'[g] \notin InCall
             /\ \A n \in 1..Len(calls'[g]) : calls'[g][n].beg <= calls'[g][n].end
  <2>1. CASE g = h
    <3>1. calls'[g] = cs /\ pc'[g] = p
      BY <2>1 DEF Types, TypeOK, HostsTypeOK
    <3> QED
      BY <3>1 DEF Ordered
  <2>2. CASE g # h
    <3>1. calls'[g] = calls[g] /\ pc'[g] = pc[g]
      BY <2>2 DEF Types, TypeOK, HostsTypeOK
    <3> QED
      BY <3>1 DEF Types, CallsOK
  <2> QED
    BY <2>1, <2>2
<1>5. CallsOK'
  BY <1>4 DEF CallsOK
<1>6. \A g \in Hosts : calls'[g] = <<>> => pc'[g] \notin {"info", "all", "recvEvals", "strings"}
  BY <1>4 DEF InCall
<1> QED
  BY <1>2, <1>3, <1>5, <1>6 DEF Types, TypeOK

\* The same, when the calls are left alone.
LEMMA StayTypes ==
    ASSUME Types, NEW h \in Hosts, NEW p \in Labels(h), p \in InCall => pc[h] \in InCall,
           pc' = [pc EXCEPT ![h] = p], UNCHANGED calls,
           chan' \in [Rounds -> [Hosts -> Seq(Message)]],
           open' \in [Rounds -> [Hosts -> BOOLEAN]],
           oms' \in [Hosts -> SUBSET Elem],
           verdict' \in [Rounds -> {"none", "ok", "fail"}],
           base' \in [Rounds -> [Hosts -> SUBSET Elem]],
           UNCHANGED <<data, comm, result, success, agent, pos>>
    PROVE  Types'
<1>1. calls[h] \in Ordered /\ (p \in InCall => calls[h] # <<>>)
  BY CallsAre
<1>2. calls' = [calls EXCEPT ![h] = calls[h]]
  BY DEF Types, TypeOK
<1> PICK cs \in Ordered : cs = calls[h]
  BY <1>1
<1> QED
  BY <1>1, <1>2, StepTypes

\* A host quits.
LEMMA QuitTypes ==
    ASSUME Types, NEW h \in Hosts, Quit(h),
           chan' \in [Rounds -> [Hosts -> Seq(Message)]],
           UNCHANGED <<data, comm, oms, result, success, history, agentVars>>
    PROVE  Types'
<1>1. open' \in [Rounds -> [Hosts -> BOOLEAN]]
  BY DEF Types, TypeOK, HostsTypeOK, Quit
<1>2. pc' = [pc EXCEPT ![h] = "quit"]
  BY DEF Quit, Goto
<1>3. "quit" \in Labels(h) /\ "quit" \notin InCall
  BY DEF Labels, ClientPC, ServerPC, Ended, InCall
<1>4. UNCHANGED <<data, comm, oms, result, success, verdict, base, agent, pos, calls>>
  BY DEF history, agentVars
<1> QED
  BY <1>1, <1>2, <1>3, <1>4, StayTypes DEF Types, TypeOK, HostsTypeOK

\* The calls that follow.
LEMMA ContinueTypes ==
    ASSUME Types, NEW h \in Hosts, NEW msgs \in Seq(Message), NEW rest \in Ordered,
           Incoming(h) # <<>>, Continue(h, msgs, rest),
           oms' \in [Hosts -> SUBSET Elem],
           verdict' \in [Rounds -> {"none", "ok", "fail"}],
           base' \in [Rounds -> [Hosts -> SUBSET Elem]],
           UNCHANGED <<data, comm, result, success, agent, pos>>
    PROVE  Types'
<1>1. calls' = [calls EXCEPT ![h] = rest]
  BY DEF Continue
<1>2. CASE rest = <<>>
  <2>1. Answer(h, msgs) /\ pc' = [pc EXCEPT ![h] = "post"]
    BY <1>2 DEF Continue, Goto
  <2>2. chan' \in [Rounds -> [Hosts -> Seq(Message)]]
    BY <2>1, ChanTypes DEF Types
  <2>3. open' \in [Rounds -> [Hosts -> BOOLEAN]]
    <3>1. open' = [open EXCEPT ![comm[h]][h] = FALSE]
      BY <1>2 DEF Continue
    <3>2. open \in [Rounds -> [Hosts -> BOOLEAN]] /\ comm[h] \in Rounds
      BY DEF Types, TypeOK, HostsTypeOK
    <3> QED
      BY <3>1, <3>2
  <2>4. "post" \in Labels(h) /\ "post" \notin InCall
    BY DEF Labels, ClientPC, ServerPC, InCall
  <2> QED
    BY <1>1, <2>1, <2>2, <2>3, <2>4, StepTypes
<1>3. CASE rest # <<>>
  <2>1. /\ Answer(h, msgs \o <<Info(h, Head(rest))>>)
        /\ pc' = [pc EXCEPT ![h] = "info"] /\ UNCHANGED open
    BY <1>3 DEF Continue, Goto
  <2>2. Info(h, Head(rest)) \in Message
    BY <1>3, OrderedTail, MessageTypes
  <2>3. msgs \o <<Info(h, Head(rest))>> \in Seq(Message)
    BY <2>2
  <2>4. chan' \in [Rounds -> [Hosts -> Seq(Message)]]
    BY <2>1, <2>3, ChanTypes DEF Types
  <2>5. "info" \in Labels(h)
    BY DEF Labels, ClientPC, ServerPC, ClientWaits, ServerWaits
  <2> QED
    BY <1>1, <1>3, <2>1, <2>4, <2>5, StepTypes DEF Types, TypeOK, HostsTypeOK
<1> QED
  BY <1>2, <1>3

\* The history keeps its type when the server decides.
LEMMA DecideTypes ==
    ASSUME TypeOK, NEW v \in {"ok", "fail"}, Decide(v)
    PROVE  /\ verdict' \in [Rounds -> {"none", "ok", "fail"}]
           /\ base' \in [Rounds -> [Hosts -> SUBSET Elem]]
BY HostsType DEF TypeOK, HostsTypeOK, Decide

\* What the actions leave alone has its type.
LEMMA SameTypes ==
    ASSUME Types
    PROVE  /\ UNCHANGED open => open' \in [Rounds -> [Hosts -> BOOLEAN]]
           /\ UNCHANGED oms => oms' \in [Hosts -> SUBSET Elem]
           /\ UNCHANGED history => /\ verdict' \in [Rounds -> {"none", "ok", "fail"}]
                                   /\ base' \in [Rounds -> [Hosts -> SUBSET Elem]]
           /\ \A h \in Hosts, S \in SUBSET Elem : Learn(h, S) => oms' \in [Hosts -> SUBSET Elem]
<1>1. ASSUME NEW h \in Hosts, NEW S \in SUBSET Elem, Learn(h, S)
      PROVE  oms' \in [Hosts -> SUBSET Elem]
  <2>1. oms \in [Hosts -> SUBSET Elem] /\ oms' = [oms EXCEPT ![h] = oms[h] \cup S]
    BY <1>1 DEF Learn, Types, TypeOK, HostsTypeOK
  <2>2. oms[h] \cup S \in SUBSET Elem
    BY <2>1
  <2> QED
    BY <2>1, <2>2
<1> QED
  BY <1>1 DEF history, Types, TypeOK, HostsTypeOK

\* Types, over the handshake,
LEMMA HandshakeTypes ==
    ASSUME Types,
           \/ ClientConnect \/ ClientConnectFails \/ ClientMod \/ ServerMod
           \/ ClientParams \/ ServerParams
    PROVE  Types'
<1> PICK c \in Hosts, s \in Hosts : c = "client" /\ s = "server" /\ c # s /\ Hosts = {c, s}
  BY Two
<1>1. /\ agent[c].mod \in Tokens /\ agent[c].par \in Tokens
  BY SetupTypes DEF Types
<1>2. /\ [type |-> "mod", mod |-> agent[c].mod] \in Message
      /\ [type |-> "params", par |-> agent[c].par] \in Message
      /\ \A b \in BOOLEAN : <<Flag(b)>> \in Seq(Message)
  <2>1. \A b \in BOOLEAN : Flag(b) \in Message
    BY MessageTypes
  <2>2. \A b \in BOOLEAN : <<Flag(b)>> \in Seq(Message)
    BY <2>1
  <2> QED
    BY <1>1, <2>2, MessageTypes
<1>3. <<>> \in Seq(Message)
  OBVIOUS
<1>4. CASE ClientConnect
  <2>1. <<[type |-> "mod", mod |-> agent[c].mod]>> \in Seq(Message)
    BY <1>2
  <2>2. Send(c, <<[type |-> "mod", mod |-> agent[c].mod]>>)
    BY <1>4 DEF ClientConnect
  <2>3. chan' \in [Rounds -> [Hosts -> Seq(Message)]]
    BY <2>1, <2>2, ChanTypes DEF Types
  <2>4. open' \in [Rounds -> [Hosts -> BOOLEAN]]
    BY <1>4, StreamTypes DEF ClientConnect, Types, TypeOK, HostsTypeOK
  <2>5. /\ pc' = [pc EXCEPT ![c] = "awaitMod", ![s] = "recvMod"]
        /\ UNCHANGED <<data, comm, oms, result, success, verdict, base, agent, pos, calls>>
    BY <1>4 DEF ClientConnect, history, agentVars
  <2>6. pc'[c] = "awaitMod" /\ pc'[s] = "recvMod" /\ DOMAIN pc' = Hosts
    BY <2>5 DEF Types, TypeOK, HostsTypeOK
  <2>7. TypeOK'
    BY <2>3, <2>4, <2>5, <2>6
    DEF Types, TypeOK, HostsTypeOK, ClientPC, ServerPC, ClientWaits, ServerWaits
  <2>8. CallsOK'
    BY <2>5, <2>6 DEF Types, CallsOK, InCall
  <2> QED
    BY <2>7, <2>8 DEF Types
<1>5. CASE ClientConnectFails
  BY <1>5, QuitTypes DEF ClientConnectFails, Types, TypeOK, HostsTypeOK
<1>6. CASE ClientMod
  <2> DEFINE msgs == <<[type |-> "params", par |-> agent[c].par]>>
  <2>1. msgs \in Seq(Message)
    BY <1>2
  <2>2. Incoming(c) # <<>> /\ (Receive(c) \/ Answer(c, msgs))
    BY <1>6 DEF ClientMod, Receives
  <2>3. chan' \in [Rounds -> [Hosts -> Seq(Message)]]
    BY <2>1, <2>2, ChanTypes DEF Types
  <2>4. CASE Quit(c)
    BY <1>6, <2>3, <2>4, QuitTypes DEF ClientMod
  <2>5. CASE Goto(c, "awaitParams") /\ UNCHANGED open
    <3>1. "awaitParams" \in Labels(c) /\ "awaitParams" \notin InCall
      BY DEF Labels, ClientPC, ClientWaits, InCall
    <3>2. /\ pc' = [pc EXCEPT ![c] = "awaitParams"]
          /\ UNCHANGED <<data, comm, open, oms, result, success, history, agent, pos, calls>>
      BY <1>6, <2>5 DEF Goto, ClientMod, agentVars
    <3>3. UNCHANGED <<data, comm, result, success, agent, pos>> /\ UNCHANGED calls
      BY <3>2
    <3> QED
      BY <2>3, <3>1, <3>2, <3>3, StayTypes, SameTypes
  <2> QED
    BY <1>6, <2>4, <2>5 DEF ClientMod
<1>7. CASE ServerMod
  <2> PICK ok \in BOOLEAN : ok <=> Head(Incoming(s)).mod = agent[s].mod
    BY Zenon
  <2>1. /\ Incoming(s) # <<>> /\ Answer(s, <<Flag(ok)>>)
        /\ \/ Goto(s, "recvParams") /\ UNCHANGED open
           \/ Quit(s)
        /\ UNCHANGED <<data, comm, oms, result, success, history, agentVars>>
    <3> DEFINE eq == Head(Incoming(s)).mod = agent[s].mod
    <3>1. /\ Incoming(s) # <<>> /\ Answer(s, <<Flag(eq)>>)
          /\ \/ Goto(s, "recvParams") /\ UNCHANGED open
             \/ Quit(s)
          /\ UNCHANGED <<data, comm, oms, result, success, history, agentVars>>
      BY <1>7 DEF ServerMod, Receives
    <3>2. eq = ok
      BY Zenon
    <3> HIDE DEF eq
    <3> QED
      BY <3>1, <3>2
  <2>3. chan' \in [Rounds -> [Hosts -> Seq(Message)]]
    BY <1>2, <2>1, ChanTypes DEF Types
  <2>4. CASE Quit(s)
    BY <2>1, <2>3, <2>4, QuitTypes
  <2>5. CASE Goto(s, "recvParams") /\ UNCHANGED open
    <3>1. "recvParams" \in Labels(s) /\ "recvParams" \notin InCall
      BY DEF Labels, ServerPC, ServerWaits, InCall
    <3>2. /\ pc' = [pc EXCEPT ![s] = "recvParams"]
          /\ UNCHANGED <<data, comm, open, oms, result, success, history, agent, pos, calls>>
      BY <2>1, <2>5 DEF Goto, agentVars
    <3>3. UNCHANGED <<data, comm, result, success, agent, pos>> /\ UNCHANGED calls
      BY <3>2
    <3> QED
      BY <2>3, <3>1, <3>2, <3>3, StayTypes, SameTypes
  <2> QED
    BY <2>1, <2>4, <2>5
<1>8. CASE ClientParams
  <2>1. Incoming(c) # <<>>
    BY <1>8 DEF ClientParams, Receives
  <2>2. CASE Continue(c, <<>>, <<Root(c)>>)
    <3>1. <<Root(c)>> \in Ordered
      BY RootTypes DEF Types
    <3>2. UNCHANGED <<data, comm, oms, result, success, history, agent, pos>>
      BY <1>8 DEF ClientParams
    <3>3. UNCHANGED <<data, comm, result, success, agent, pos>>
      BY <3>2
    <3> QED
      BY <1>3, <2>1, <2>2, <3>1, <3>2, <3>3, ContinueTypes, SameTypes
  <2>3. CASE Receive(c) /\ Quit(c) /\ UNCHANGED calls
    <3>1. chan' \in [Rounds -> [Hosts -> Seq(Message)]]
      BY <1>3, <2>1, <2>3, ChanTypes DEF Types
    <3>2. UNCHANGED <<data, comm, oms, result, success, history, agentVars>>
      BY <1>8, <2>3 DEF ClientParams, agentVars
    <3> QED
      BY <2>3, <3>1, <3>2, QuitTypes
  <2> QED
    BY <1>8, <2>2, <2>3 DEF ClientParams
<1>9. CASE ServerParams
  <2>1. Incoming(s) # <<>>
    BY <1>9 DEF ServerParams, Receives
  <2>2. CASE Decide("ok") /\ Continue(s, <<Flag(TRUE)>>, <<Root(s)>>)
    <3>1. <<Root(s)>> \in Ordered
      BY RootTypes DEF Types
    <3>2. UNCHANGED <<data, comm, result, success, agent, pos>> /\ UNCHANGED oms
      BY <1>9 DEF ServerParams
    <3>3. /\ verdict' \in [Rounds -> {"none", "ok", "fail"}]
          /\ base' \in [Rounds -> [Hosts -> SUBSET Elem]]
      BY <2>2, DecideTypes DEF Types
    <3> QED
      BY <1>2, <2>1, <2>2, <3>1, <3>2, <3>3, ContinueTypes, SameTypes
  <2>3. CASE Answer(s, <<Flag(FALSE)>>) /\ Quit(s) /\ UNCHANGED <<calls, history>>
    <3>1. chan' \in [Rounds -> [Hosts -> Seq(Message)]]
      BY <1>2, <2>1, <2>3, ChanTypes DEF Types
    <3>2. UNCHANGED <<data, comm, oms, result, success, history, agentVars>>
      BY <1>9, <2>3 DEF ServerParams, agentVars
    <3> QED
      BY <2>3, <3>1, <3>2, QuitTypes
  <2> QED
    BY <1>9, <2>2, <2>3 DEF ServerParams
<1> QED
  BY <1>4, <1>5, <1>6, <1>7, <1>8, <1>9

\* Streams that are put together are streams.
LEMMA Joins ==
    ASSUME NEW S, NEW x \in S, NEW y \in S, NEW q \in Seq(S)
    PROVE  <<x>> \in Seq(S) /\ <<x, y>> \in Seq(S) /\ q \o <<x>> \in Seq(S)
OBVIOUS

\* over the calls,
LEMMA CallTypes ==
    ASSUME Types, NEW h \in Hosts,
           \/ ReceiveInfo(h) \/ ReceiveAll(h)
           \/ h = "server" /\ (ServerEvals \/ ServerStrings)
           \/ h = "client" /\ (ClientVerdict \/ ClientDeltas \/ ClientStrings \/ ClientFlag)
    PROVE  Types'
<1> DEFINE c == Node(h)
           rest == Tail(calls[h])
<1>1. /\ Incoming(h) # <<>> /\ pc[h] \in InCall /\ Head(Incoming(h)) \in Message
      /\ UNCHANGED <<data, comm, result, success, agent, pos>> /\ UNCHANGED history
  <2>1. Incoming(h) # <<>> => Head(Incoming(h)) \in Message
    BY StreamTypes DEF Types
  <2> QED
    BY <2>1 DEF ReceiveInfo, ReceiveAll, ServerEvals, ServerStrings, ClientVerdict, ClientDeltas,
                ClientStrings, ClientFlag, Receives, InCall, agentVars
<1>2. calls[h] # <<>> /\ c \in Call /\ rest \in Ordered
  BY <1>1, CallsAre, OrderedTail DEF Node
<1>3. <<>> \in Seq(Message) /\ \A m \in Message : <<m>> \in Seq(Message)
  OBVIOUS
<1>4. c.set \in SUBSET Elem
  BY <1>2 DEF Call
<1>5. chan' \in [Rounds -> [Hosts -> Seq(Message)]]
        /\ UNCHANGED <<calls, open>> /\ oms' \in [Hosts -> SUBSET Elem]
        /\ (\E p \in Labels(h) : pc' = [pc EXCEPT ![h] = p]) => Types'
  BY <1>1, StayTypes, SameTypes
<1>6. ASSUME NEW msgs \in Seq(Message), NEW ds \in Ordered, Continue(h, msgs, ds),
             oms' \in [Hosts -> SUBSET Elem]
      PROVE  Types'
  BY <1>1, <1>6, ContinueTypes, SameTypes
<1>7. Receive(h) => chan' \in [Rounds -> [Hosts -> Seq(Message)]]
  BY <1>1, <1>3, ChanTypes DEF Types
<1> HIDE DEF c, rest
<1>8. CASE ReceiveInfo(h)
  <2>1. UNCHANGED oms /\ oms' \in [Hosts -> SUBSET Elem]
    BY <1>8, SameTypes DEF ReceiveInfo
  <2>2. CASE Continue(h, <<>>, rest)
    BY <1>2, <1>3, <1>6, <2>1, <2>2
  <2>3. CASE Continue(h, <<[type |-> "all", set |-> c.set]>>, rest)
    <3>1. [type |-> "all", set |-> c.set] \in Message
      BY <1>4, MessageTypes
    <3>2. <<[type |-> "all", set |-> c.set]>> \in Seq(Message)
      BY <1>3, <3>1
    <3> QED
      BY <1>2, <1>6, <2>1, <2>3, <3>2
  <2>4. CASE Goto(h, "all") /\ Receive(h) /\ UNCHANGED <<open, calls>>
    <3>1. "all" \in Labels(h)
      BY DEF Labels, ClientPC, ServerPC, ClientWaits, ServerWaits
    <3> QED
      BY <1>5, <1>7, <2>1, <2>4, <3>1 DEF Goto
  <2>5. CASE /\ h = "client" /\ Goto(h, "awaitVerdict")
             /\ Answer(h, <<[type |-> "evals", set |-> c.set]>>)
             /\ UNCHANGED <<open, calls>>
    <3>1. [type |-> "evals", set |-> c.set] \in Message
      BY <1>4, MessageTypes
    <3>2. <<[type |-> "evals", set |-> c.set]>> \in Seq(Message)
      BY <1>3, <3>1
    <3>3. chan' \in [Rounds -> [Hosts -> Seq(Message)]]
      BY <1>1, <2>5, <3>2, ChanTypes DEF Types
    <3>4. "awaitVerdict" \in Labels(h)
      BY <2>5 DEF Labels, ClientPC, ClientWaits
    <3> QED
      BY <1>5, <2>1, <2>5, <3>3, <3>4 DEF Goto
  <2>6. CASE h = "server" /\ Goto(h, "recvEvals") /\ Receive(h) /\ UNCHANGED <<open, calls>>
    <3>1. "recvEvals" \in Labels(h)
      BY <2>6 DEF Labels, ServerPC, ServerWaits
    <3> QED
      BY <1>5, <1>7, <2>1, <2>6, <3>1 DEF Goto
  <2> QED
    BY <1>8, <2>2, <2>3, <2>4, <2>5, <2>6 DEF ReceiveInfo, c, rest
<1>9. CASE ReceiveAll(h)
  <2>1. Head(Incoming(h)).set \in SUBSET Elem
    BY <1>1, <1>9, MessageFields DEF ReceiveAll, Receives
  <2>2. Learn(h, Head(Incoming(h)).set) /\ Continue(h, <<>>, rest)
    BY <1>9 DEF ReceiveAll, rest
  <2>3. oms' \in [Hosts -> SUBSET Elem]
    BY <2>1, <2>2, SameTypes
  <2> QED
    BY <1>2, <1>3, <1>6, <2>2, <2>3
<1>10. CASE h = "server" /\ ServerEvals
  <2> PICK theirs : theirs = Head(Incoming(h)).set
    OBVIOUS
  <2>1. theirs \in SUBSET Elem
    BY <1>1, <1>10, MessageFields DEF ServerEvals, Receives
  <2> PICK other \in SUBSET Elem, self \in SUBSET Elem :
         other = theirs \ c.set /\ self = c.set \ theirs
    BY <1>4, <2>1
  <2>2. /\ Flag(TRUE) \in Message /\ Flag(FALSE) \in Message /\ Strings(self) \in Message
        /\ [type |-> "deltas", other |-> other, self |-> self] \in Message
    BY MessageTypes DEF Strings
  <2>3. /\ Deltas(other, self) \in Seq(Message) /\ FailureFlags \in Seq(Message)
    <3> PICK t \in Message, f \in Message, d \in Message :
            t = Flag(TRUE) /\ f = Flag(FALSE)
            /\ d = [type |-> "deltas", other |-> other, self |-> self]
      BY <2>2
    <3>1. <<t, d>> \in Seq(Message) /\ <<f, f>> \in Seq(Message)
      BY <1>3, Joins, Zenon
    <3>2. Deltas(other, self) = <<t, d>> /\ FailureFlags = <<f, f>>
      BY DEF Deltas, FailureFlags
    <3> QED
      BY <3>1, <3>2
  <2>4. CASE Answer(h, Deltas(other, self) \o <<Strings(self)>>) /\ Goto(h, "strings")
             /\ UNCHANGED <<oms, open, calls>>
    <3>1. Deltas(other, self) \o <<Strings(self)>> \in Seq(Message)
      BY <2>2, <2>3
    <3>2. chan' \in [Rounds -> [Hosts -> Seq(Message)]]
      BY <1>1, <2>4, <3>1, ChanTypes DEF Types
    <3>3. "strings" \in Labels(h)
      BY DEF Labels, ClientPC, ServerPC, ClientWaits, ServerWaits
    <3> QED
      BY <1>5, <2>4, <3>2, <3>3, SameTypes DEF Goto
  <2>5. CASE Learn(h, other) /\ Continue(h, Deltas(other, self) \o <<Flag(TRUE)>>, rest)
    <3>1. Deltas(other, self) \o <<Flag(TRUE)>> \in Seq(Message)
      <4> PICK ds \in Seq(Message), t \in Message : ds = Deltas(other, self) /\ t = Flag(TRUE)
        BY <2>2, <2>3
      <4>1. ds \o <<t>> \in Seq(Message)
        BY Joins, Zenon
      <4> QED
        BY <4>1
    <3>2. oms' \in [Hosts -> SUBSET Elem]
      BY <2>5, SameTypes
    <3> QED
      BY <1>2, <1>6, <2>5, <3>1, <3>2
  <2>6. CASE Continue(h, FailureFlags, Parts(h, c) \o rest) /\ UNCHANGED oms
    <3>1. Parts(h, c) \o rest \in Ordered
      BY <1>2, PartsTypes DEF c, rest
    <3> QED
      BY <1>6, <2>3, <2>6, <3>1, SameTypes
  <2> QED
    BY <1>10, <2>4, <2>5, <2>6 DEF ServerEvals, c, rest
<1>11. CASE h = "server" /\ ServerStrings
  <2>1. Head(Incoming(h)).set \in SUBSET Elem
    BY <1>1, <1>11, MessageFields DEF ServerStrings, Receives
  <2>2. Learn(h, Head(Incoming(h)).set) /\ Continue(h, <<Flag(TRUE)>>, rest)
    BY <1>11 DEF ServerStrings, rest
  <2>3. oms' \in [Hosts -> SUBSET Elem] /\ <<Flag(TRUE)>> \in Seq(Message)
    BY <1>3, <2>1, <2>2, SameTypes, MessageTypes
  <2> QED
    BY <1>2, <1>6, <2>2, <2>3
<1>12. CASE h = "client" /\ ClientVerdict
  <2>1. \E p \in {"awaitDeltas", "awaitFlag"} : pc' = [pc EXCEPT ![h] = p]
    BY <1>12 DEF ClientVerdict, Goto
  <2>2. {"awaitDeltas", "awaitFlag"} \subseteq Labels(h)
    BY <1>12 DEF Labels, ClientPC, ClientWaits
  <2>3. Receive(h) /\ UNCHANGED <<calls, open>> /\ UNCHANGED oms
    BY <1>12 DEF ClientVerdict, agentVars
  <2> QED
    BY <1>5, <1>7, <2>1, <2>2, <2>3, SameTypes
<1>13. CASE h = "client" /\ ClientDeltas
  <2> PICK deltas \in Message : deltas = Head(Incoming(h)) /\ deltas.type = "deltas"
    BY <1>1, <1>13 DEF ClientDeltas, Receives
  <2>1. deltas.other \in SUBSET Elem /\ deltas.self \in SUBSET Elem
    BY MessageFields
  <2>2. <<Strings(deltas.other)>> \in Seq(Message)
    BY <1>3, <2>1, MessageTypes DEF Strings
  <2>3. /\ \E p \in {"strings", "awaitFlag"} : pc' = [pc EXCEPT ![h] = p]
        /\ Answer(h, <<Strings(deltas.other)>>) \/ Receive(h)
        /\ UNCHANGED oms \/ Learn(h, deltas.self)
        /\ UNCHANGED <<calls, open>>
    BY <1>13 DEF ClientDeltas, Goto, agentVars
  <2>4. {"strings", "awaitFlag"} \subseteq Labels(h)
    BY <1>13 DEF Labels, ClientPC, ClientWaits
  <2>5. chan' \in [Rounds -> [Hosts -> Seq(Message)]]
    BY <1>1, <1>7, <2>2, <2>3, ChanTypes DEF Types
  <2>6. oms' \in [Hosts -> SUBSET Elem]
    BY <2>1, <2>3, SameTypes
  <2> QED
    BY <1>5, <2>3, <2>4, <2>5, <2>6
<1>14. CASE h = "client" /\ ClientStrings
  <2>1. Head(Incoming(h)).set \in SUBSET Elem
    BY <1>1, <1>14, MessageFields DEF ClientStrings, Receives
  <2>2. Learn(h, Head(Incoming(h)).set) /\ Receive(h) /\ pc' = [pc EXCEPT ![h] = "awaitFlag"]
        /\ UNCHANGED <<calls, open>>
    BY <1>14 DEF ClientStrings, Goto, agentVars
  <2>3. oms' \in [Hosts -> SUBSET Elem]
    BY <2>1, <2>2, SameTypes
  <2>4. "awaitFlag" \in Labels(h)
    BY <1>14 DEF Labels, ClientPC, ClientWaits
  <2> QED
    BY <1>5, <1>7, <2>2, <2>3, <2>4
<1>15. CASE h = "client" /\ ClientFlag
  <2>1. UNCHANGED oms /\ oms' \in [Hosts -> SUBSET Elem]
    BY <1>15, SameTypes DEF ClientFlag
  <2>2. Continue(h, <<>>, rest) \/ Continue(h, <<>>, Parts(h, c) \o rest)
    <3>1. <<>> \o rest = rest
      <4>1. rest \in Seq(Call)
        BY <1>2 DEF Ordered
      <4> QED
        BY <4>1
    <3>2. \/ Continue(h, <<>>, <<>> \o rest) \/ Continue(h, <<>>, Parts(h, c) \o rest)
      BY <1>15 DEF ClientFlag, c, rest
    <3> QED
      BY <3>1, <3>2
  <2>3. Parts(h, c) \o rest \in Ordered
    BY <1>2, PartsTypes DEF c, rest
  <2> QED
    BY <1>2, <1>3, <1>6, <2>1, <2>2, <2>3
<1> QED
  BY <1>8, <1>9, <1>10, <1>11, <1>12, <1>13, <1>14, <1>15

\* and over the steps around a session.
LEMMA HostTypes ==
    ASSUME Types, NEW h \in Hosts, Begin(h) \/ PostProcess(h) \/ PeerGone(h) \/ Crash(h)
    PROVE  Types'
<1>1. CASE Begin(h)
  <2>1. \/ h = "client" /\ pc' = [pc EXCEPT ![h] = "connecting"]
        \/ h = "server" /\ pc' = [pc EXCEPT ![h] = "listening"]
    BY <1>1 DEF Begin, Goto, Hosts
  <2>2. TypeOK'
    BY <1>1, <2>1, HostsType
    DEF Begin, Types, TypeOK, HostsTypeOK, history, agentVars, ClientPC, ServerPC, ClientWaits
  <2>3. CallsOK'
    BY <1>1, <2>1 DEF Begin, Types, TypeOK, HostsTypeOK, CallsOK, InCall, agentVars
  <2> QED
    BY <2>2, <2>3 DEF Types
<1>2. CASE PostProcess(h)
  <2>1. data' \in [Hosts -> SUBSET Elem]
    BY <1>2 DEF PostProcess, NextCommunicant, PostProcessing, Types, TypeOK, HostsTypeOK
  <2>2. comm' \in [Hosts -> Rounds]
    <3>1. comm[h] \in Rounds
      BY StreamTypes DEF Types
    <3>2. ~Last(h) => comm[h] + 1 \in Rounds
      BY <3>1, HostsAssumption DEF Last, Rounds
    <3>3. \/ UNCHANGED comm
          \/ ~Last(h) /\ comm' = [comm EXCEPT ![h] = comm[h] + 1]
      BY <1>2, StreamTypes DEF PostProcess, NextCommunicant, Types, TypeOK, HostsTypeOK
    <3> QED
      BY <3>2, <3>3 DEF Types, TypeOK, HostsTypeOK
  <2>3. \E label \in {"returned", "begin"} : pc' = [pc EXCEPT ![h] = label]
    BY <1>2 DEF PostProcess, NextCommunicant, Goto
  <2>4. success' \in [Hosts -> BOOLEAN]
    BY <1>2 DEF PostProcess, NextCommunicant, Types, TypeOK, HostsTypeOK
  <2>5. UNCHANGED <<chan, open, oms, result, verdict, base, agent, pos, calls>>
    BY <1>2 DEF PostProcess, history, agentVars
  <2>6. \A g \in Hosts : pc'[g] \in InCall => pc[g] \in InCall
    BY <2>3 DEF Types, TypeOK, HostsTypeOK, InCall
  <2>7. pc'["client"] \in ClientPC /\ pc'["server"] \in ServerPC /\ DOMAIN pc' = Hosts
    BY <2>3, HostsType DEF Types, TypeOK, HostsTypeOK, ClientPC, ServerPC, Ended
  <2>8. CallsOK'
    BY <2>5, <2>6 DEF Types, CallsOK
  <2>9. HostsTypeOK(ClientPC, ServerPC, Message)'
    BY <2>1, <2>2, <2>4, <2>5, <2>7 DEF Types, TypeOK, HostsTypeOK
  <2>10. \A g \in Hosts : calls'[g] = <<>> => pc'[g] \notin {"info", "all", "recvEvals", "strings"}
    BY <2>8 DEF CallsOK, InCall
  <2> QED
    BY <2>5, <2>8, <2>9, <2>10 DEF Types, TypeOK
<1>3. CASE PeerGone(h)
  BY <1>3, QuitTypes DEF PeerGone, Deserted, Types, TypeOK, HostsTypeOK
<1>4. CASE Crash(h)
  BY <1>4, QuitTypes DEF Crash, Killed, Types, TypeOK, HostsTypeOK
<1> QED
  BY <1>1, <1>2, <1>3, <1>4

\* Each step keeps the types.
LEMMA TypesStay ==
    ASSUME Types, [Next]_vars
    PROVE  Types'
<1>1. CASE UNCHANGED vars
  BY <1>1 DEF vars, hostVars, history, agentVars, Types, TypeOK, HostsTypeOK, CallsOK
<1> QED
  BY <1>1, HandshakeTypes, CallTypes, HostTypes DEF Next, HostStep, ClientStep, ServerStep

\* In every reachable state the variables have their types, and no call has its range
\* reversed, also where the agents differ: what one host sends, the other may read.
THEOREM TypeCorrect == Spec => []TypeOK
<1>1. Init => Types
  BY InitTypes
<1>2. Types /\ [Next]_vars => Types'
  BY TypesStay
<1>3. Types => TypeOK
  BY DEF Types
<1> QED
  BY <1>1, <1>2, <1>3, PTL DEF Spec

(***************************************************************************)
(* Blocks.                                                                 *)
(***************************************************************************)
\* A node of the tree of one host or the other: its range, the positions of the
\* elements in it, and on which hosts it is there.
Block == [beg : 0..DATA_MAX, end : 0..DATA_MAX, at : SUBSET (0..DATA_MAX - 1),
          node : [Hosts -> BOOLEAN]]

\* What host h has at positions P when session i is decided.
Content(h, i, P) == {e \in base[i][h] : pos[e] \in P}

\* The call of host h for a block, and the calls for a list of blocks.
CallOf(h, i, b) ==
    [node |-> b.node[h], set |-> Content(h, i, b.at), beg |-> b.beg, end |-> b.end]
CallsOf(h, i, bs) == [n \in 1..Len(bs) |-> CallOf(h, i, bs[n])]

RootBlock(i) ==
    [beg |-> 0, end |-> DATA_MAX, at |-> 0..DATA_MAX - 1,
     node |-> [h \in Hosts |-> base[i][h] # {}]]

\* The part of a block that position q belongs to, counted from 0.
PartOf(b, p, q) ==
    LET step == PartStep(b, p)
        fits == {j \in 0..p - 2 : b.beg + j * step <= q /\ q < b.beg + (j + 1) * step}
    IN IF fits = {} THEN p - 1 ELSE CHOOSE j \in fits : TRUE

\* The blocks of the children.
PartBlock(b, p, j) ==
    [beg |-> b.beg + j * CallStep(b, p),
     end |-> IF j = p - 1 THEN b.end ELSE b.beg + (j + 1) * CallStep(b, p),
     at |-> IF b.beg = b.end THEN {} ELSE {q \in b.at : PartOf(b, p, q) = j},
     node |-> [h \in Hosts |-> b.beg # b.end]]
PartBlocks(b, p) == [n \in 1..p |-> PartBlock(b, p, n - 1)]

\* Where there is no range left there is one position, and a client's node that is not
\* there has nothing.
Good(i, b) ==
    /\ b.beg <= b.end
    /\ b.beg = b.end => \E q \in 0..DATA_MAX - 1 : b.at \subseteq {q}
    /\ ~b.node["client"] => Content("client", i, b.at) = {}

(***************************************************************************)
(* The phases of a round.                                                  *)
(***************************************************************************)
\* Where host h is in round i, and the calls that it has still to make there.
Place(h, i) ==
    IF comm[h] < i THEN "begin"
    ELSE IF comm[h] > i \/ pc[h] = "returned" THEN "post" ELSE pc[h]
ListOf(h, i) == IF comm[h] = i THEN calls[h] ELSE <<>>

A == agent["client"]
ModMsg == [type |-> "mod", mod |-> A.mod]
ParamsMsg == [type |-> "params", par |-> A.par]
AllMsg(S) == [type |-> "all", set |-> S]
EvalsMsg(S) == [type |-> "evals", set |-> S]
DeltasMsg(other, self) == [type |-> "deltas", other |-> other, self |-> self]

At(i, cs, ss) ==
    Place("client", i) \in cs \cup {"quit"} /\ Place("server", i) \in ss \cup {"quit"}
Carries(i, toClient, toServer) ==
    chan[i]["client"] = toClient /\ chan[i]["server"] = toServer
NothingLearned(i) == \A h \in Hosts : comm[h] = i => oms[h] = {}

Idle(i) ==
    /\ At(i, {"begin", "connecting"}, {"begin", "listening"})
    /\ Carries(i, <<>>, <<>>)
    /\ \A h \in Hosts : comm[h] = i /\ pc[h] \in {"connecting", "listening"} => oms[h] = {}
ModSent(i) ==
    At(i, {"awaitMod"}, {"recvMod"}) /\ Carries(i, <<>>, <<ModMsg>>) /\ NothingLearned(i)
ModFine(i) ==
    At(i, {"awaitMod"}, {"recvParams"}) /\ Carries(i, <<Flag(TRUE)>>, <<>>) /\ NothingLearned(i)
ParamsSent(i) ==
    At(i, {"awaitParams"}, {"recvParams"}) /\ Carries(i, <<>>, <<ParamsMsg>>) /\ NothingLearned(i)

Undecided(i) ==
    /\ verdict[i] = "none"
    /\ \A h \in Hosts : ListOf(h, i) = <<>>
    /\ Idle(i) \/ ModSent(i) \/ ModFine(i) \/ ParamsSent(i)

\* What h lacks of the sets of the decision, and what may be lost of it.
Lacking(h, i) == base[i][Other(h)] \ base[i][h]
Crowded(i, e) == Cardinality(Crowd(i, e)) > A.mbar

\* What host h lacks is in S, or lost, or in one of the blocks bs.
Resolved(h, i, bs, S) ==
    \A e \in Lacking(h, i) :
        e \in S \/ Crowded(i, e) \/ \E n \in 1..Len(bs) : pos[e] \in bs[n].at
Settled(h, i, bs) == comm[h] = i => Resolved(h, i, bs, oms[h])

\* One end of a session: host h waits at p with the blocks bs before it and stream q.
End(h, i, p, bs, q) ==
    /\ Place(h, i) \in {p, "quit"}
    /\ ListOf(h, i) = CallsOf(h, i, bs)
    /\ chan[i][h] = q
    /\ Settled(h, i, bs)

\* It has declared the first of the blocks, or is done.
Onward(bs) == IF bs = <<>> THEN "post" ELSE "info"
Ahead(h, i, bs, q) == End(h, i, Onward(bs), bs, q)

InfoOf(h, i, b) == Info(h, CallOf(h, i, b))
Asks(h, i, bs) == IF bs = <<>> THEN <<>> ELSE <<InfoOf(h, i, Head(bs))>>
Has(h, i, b) == SomeInfo(h, CallOf(h, i, b))
AllOf(h, i, b) == AllMsg(Content(h, i, b.at))
EvalsOf(i, b) == EvalsMsg(Content("client", i, b.at))

\* The differences at the positions of a block, on the side of h.
Own(h, i, b) == Content(h, i, b.at) \ Content(Other(h), i, b.at)
DeltasOf(i, b) == DeltasMsg(Own("client", i, b), Own("server", i, b))

\* The server is past the parameters, the client not yet.
Opened(i, bs) ==
    /\ bs = <<RootBlock(i)>>
    /\ Place("client", i) \in {"awaitParams", "quit"} /\ ListOf("client", i) = <<>>
    /\ chan[i]["client"] = <<Flag(TRUE)>> \o Asks("server", i, bs)
    /\ NothingLearned(i)
    /\ Ahead("server", i, bs, <<>>)

\* Both have declared the first block.
Level(i, bs) == \A h \in Hosts : Ahead(h, i, bs, Asks(Other(h), i, bs))

\* Neither has anything, and h knows.
Skipped(h, i, bs, b, rest) ==
    /\ \A g \in Hosts : ~Has(g, i, b)
    /\ Ahead(h, i, rest, <<>>)
    /\ End(Other(h), i, "info", bs, <<InfoOf(h, i, b)>> \o Asks(h, i, rest))

\* Only h has something.
Given(h, i, bs, b, rest) ==
    /\ Has(h, i, b) /\ ~Has(Other(h), i, b)
    /\ \/ /\ Ahead(h, i, rest, <<>>)
          /\ End(Other(h), i, "info", bs,
                 <<InfoOf(h, i, b)>> \o (<<AllOf(h, i, b)>> \o Asks(h, i, rest)))
       \/ /\ End(h, i, "info", bs, <<InfoOf(Other(h), i, b)>>)
          /\ End(Other(h), i, "all", bs, <<>>)
       \/ /\ Ahead(h, i, rest, <<>>)
          /\ End(Other(h), i, "all", bs, <<AllOf(h, i, b)>> \o Asks(h, i, rest))

\* Both have something: the evaluations,
Tried(i, bs, b, rest) ==
    /\ \A g \in Hosts : Has(g, i, b)
    /\ \/ /\ End("client", i, "awaitVerdict", bs, <<>>)
          /\ End("server", i, "info", bs, <<InfoOf("client", i, b)>> \o <<EvalsOf(i, b)>>)
       \/ /\ End("client", i, "info", bs, <<InfoOf("server", i, b)>>)
          /\ End("server", i, "recvEvals", bs, <<>>)
       \/ /\ End("client", i, "awaitVerdict", bs, <<>>)
          /\ End("server", i, "recvEvals", bs, <<EvalsOf(i, b)>>)

\* the failure, after which the server goes on with the parts, which are blocks,
Parted(i, bs, b, rest) ==
    LET blocks == PartBlocks(b, A.pFactor) \o rest
    IN
    /\ Ahead("server", i, blocks, <<>>)
    /\ Settled("client", i, blocks)
    /\ \/ End("client", i, "awaitVerdict", bs,
              <<Flag(FALSE)>> \o (<<Flag(FALSE)>> \o Asks("server", i, blocks)))
       \/ End("client", i, "awaitFlag", bs, <<Flag(FALSE)>> \o Asks("server", i, blocks))

\* the success without strings,
Solved(i, bs, b, rest) ==
    LET asks == <<Flag(TRUE)>> \o Asks("server", i, rest)
    IN
    /\ Ahead("server", i, rest, <<>>)
    /\ \/ /\ ~A.hashes
          /\ \/ End("client", i, "awaitVerdict", bs,
                    <<Flag(TRUE)>> \o (<<DeltasOf(i, b)>> \o asks))
             \/ End("client", i, "awaitDeltas", bs, <<DeltasOf(i, b)>> \o asks)
       \/ End("client", i, "strings", bs, <<Strings(Own("server", i, b))>> \o asks)
       \/ End("client", i, "awaitFlag", bs, asks) /\ Settled("client", i, rest)

\* and the strings.
Spelled(i, bs, b, rest) ==
    LET toClient == <<Strings(Own("server", i, b))>>
        toServer == <<Strings(Own("client", i, b))>>
    IN
    /\ A.hashes
    /\ \/ /\ End("client", i, "awaitVerdict", bs,
                 <<Flag(TRUE)>> \o (<<DeltasOf(i, b)>> \o toClient))
          /\ End("server", i, "strings", bs, <<>>)
       \/ /\ End("client", i, "awaitDeltas", bs, <<DeltasOf(i, b)>> \o toClient)
          /\ End("server", i, "strings", bs, <<>>)
       \/ End("client", i, "strings", bs, toClient) /\ End("server", i, "strings", bs, toServer)
       \/ /\ End("client", i, "awaitFlag", bs, <<>>) /\ Settled("client", i, rest)
          /\ End("server", i, "strings", bs, toServer)

\* The first block, b, in hand; the rest follows.
InHand(i, bs, b, rest) ==
    \/ \E h \in Hosts : Skipped(h, i, bs, b, rest) \/ Given(h, i, bs, b, rest)
    \/ Tried(i, bs, b, rest) \/ Parted(i, bs, b, rest)
    \/ Solved(i, bs, b, rest) \/ Spelled(i, bs, b, rest)

\* A host has the sets of the decision, and only learns what it lacks of them.
Sound(i) ==
    \A h \in Hosts :
        comm[h] = i => /\ oms[h] \subseteq Lacking(h, i)
                       /\ pc[h] # "returned" => data[h] = base[i][h]

Blocks(i, bs) ==
    /\ \A n \in 1..Len(bs) : Good(i, bs[n])
    /\ \/ Opened(i, bs) \/ Level(i, bs)
       \/ bs # <<>> /\ InHand(i, bs, Head(bs), Tail(bs))

(***************************************************************************)
(* Lists of calls and lists of blocks.                                     *)
(***************************************************************************)
\* The call for a block.
LEMMA CallOfType ==
    ASSUME Types, NEW h \in Hosts, NEW i \in Rounds, NEW b \in Block
    PROVE  CallOf(h, i, b) \in Call
<1>1. /\ b.node[h] \in BOOLEAN /\ b.beg \in 0..DATA_MAX /\ b.end \in 0..DATA_MAX
      /\ b.at \in SUBSET (0..DATA_MAX - 1)
  BY DEF Block
<1>2. Content(h, i, b.at) \in SUBSET Elem
  BY DEF Content, Types, TypeOK, HostsTypeOK
<1> QED
  BY <1>1, <1>2 DEF CallOf, Call

\* The calls for blocks are as many, in the same order.
LEMMA CallsOfIs ==
    ASSUME Types, NEW h \in Hosts, NEW i \in Rounds, NEW bs \in Seq(Block)
    PROVE  /\ CallsOf(h, i, bs) \in Seq(Call) /\ Len(CallsOf(h, i, bs)) = Len(bs)
           /\ \A n \in 1..Len(bs) : CallsOf(h, i, bs)[n] = CallOf(h, i, bs[n])
           /\ CallsOf(h, i, bs) = <<>> <=> bs = <<>>
<1>1. Len(bs) \in Nat /\ \A n \in 1..Len(bs) : CallOf(h, i, bs[n]) \in Call
  BY CallOfType
<1>2. CallsOf(h, i, bs) \in Seq(Call) /\ Len(CallsOf(h, i, bs)) = Len(bs)
  BY <1>1 DEF CallsOf
<1>3. \A n \in 1..Len(bs) : CallsOf(h, i, bs)[n] = CallOf(h, i, bs[n])
  BY DEF CallsOf
<1>4. CallsOf(h, i, bs) = <<>> <=> bs = <<>>
  <2>1. CallsOf(h, i, bs) = <<>> <=> Len(CallsOf(h, i, bs)) = 0
    BY <1>2, EmptySeq
  <2>2. bs = <<>> <=> Len(bs) = 0
    BY EmptySeq
  <2> QED
    BY <1>2, <2>1, <2>2
<1> QED
  BY <1>2, <1>3, <1>4

\* The first and the rest,
LEMMA CallsOfTail ==
    ASSUME Types, NEW h \in Hosts, NEW i \in Rounds, NEW bs \in Seq(Block), bs # <<>>
    PROVE  /\ Head(bs) \in Block /\ Tail(bs) \in Seq(Block)
           /\ CallsOf(h, i, bs) # <<>>
           /\ Head(CallsOf(h, i, bs)) = CallOf(h, i, Head(bs))
           /\ Tail(CallsOf(h, i, bs)) = CallsOf(h, i, Tail(bs))
<1> PICK cs : cs = CallsOf(h, i, bs)
  OBVIOUS
<1>1. /\ cs \in Seq(Call) /\ Len(cs) = Len(bs) /\ cs # <<>>
      /\ \A n \in 1..Len(bs) : cs[n] = CallOf(h, i, bs[n])
  BY CallsOfIs
<1>2. /\ Head(bs) = bs[1] /\ Tail(bs) \in Seq(Block) /\ Len(Tail(bs)) = Len(bs) - 1
      /\ Head(bs) \in Block /\ \A n \in 1..Len(bs) - 1 : Tail(bs)[n] = bs[n + 1]
      /\ Len(bs) \in Nat \ {0}
  OBVIOUS
<1>3. /\ Head(cs) = cs[1] /\ Tail(cs) \in Seq(Call) /\ Len(Tail(cs)) = Len(cs) - 1
      /\ \A n \in 1..Len(cs) - 1 : Tail(cs)[n] = cs[n + 1]
  BY <1>1
<1> PICK ds : ds = CallsOf(h, i, Tail(bs))
  OBVIOUS
<1>4. /\ ds \in Seq(Call) /\ Len(ds) = Len(Tail(bs))
      /\ \A n \in 1..Len(Tail(bs)) : ds[n] = CallOf(h, i, Tail(bs)[n])
  BY <1>2, CallsOfIs
<1>5. \A n \in 1..Len(bs) - 1 : n + 1 \in 1..Len(bs)
  BY <1>2
<1>6. \A n \in 1..Len(ds) : ds[n] = Tail(cs)[n]
  BY <1>1, <1>2, <1>3, <1>4, <1>5
<1>7. Len(ds) = Len(Tail(cs))
  BY <1>1, <1>2, <1>3, <1>4
<1>8. ds = Tail(cs)
  BY <1>3, <1>4, <1>6, <1>7, SeqEqual
<1>9. Head(cs) = CallOf(h, i, Head(bs))
  BY <1>1, <1>2, <1>3
<1> QED
  BY <1>1, <1>2, <1>8, <1>9

\* Two lists in a row,
LEMMA Concat ==
    ASSUME NEW S, NEW cs \in Seq(S), NEW ds \in Seq(S)
    PROVE  /\ cs \o ds \in Seq(S) /\ Len(cs \o ds) = Len(cs) + Len(ds)
           /\ Len(cs) \in Nat /\ Len(ds) \in Nat
           /\ \A n \in 1..Len(cs) : (cs \o ds)[n] = cs[n]
           /\ \A n \in Len(cs) + 1..Len(cs) + Len(ds) : (cs \o ds)[n] = ds[n - Len(cs)]
OBVIOUS

\* and the calls for them.
LEMMA CallsOfConcat ==
    ASSUME Types, NEW h \in Hosts, NEW i \in Rounds, NEW as \in Seq(Block), NEW bs \in Seq(Block)
    PROVE  CallsOf(h, i, as \o bs) = CallsOf(h, i, as) \o CallsOf(h, i, bs)
<1>1. as \o bs \in Seq(Block)
  BY Concat, Zenon
<1>2. PICK x \in Seq(Call), y \in Seq(Call), z \in Seq(Call), u \in Seq(Block), v \in Seq(Call),
           k \in Nat, m \in Nat :
        /\ x = CallsOf(h, i, as) /\ y = CallsOf(h, i, bs) /\ z = CallsOf(h, i, as \o bs)
        /\ u = as \o bs /\ v = x \o y /\ k = Len(as) /\ m = Len(bs)
  <2>1. /\ CallsOf(h, i, as) \in Seq(Call) /\ CallsOf(h, i, bs) \in Seq(Call)
        /\ CallsOf(h, i, as \o bs) \in Seq(Call)
    BY <1>1, CallsOfIs
  <2>2. CallsOf(h, i, as) \o CallsOf(h, i, bs) \in Seq(Call)
    BY <2>1, Concat, Zenon
  <2>3. Len(as) \in Nat /\ Len(bs) \in Nat
    BY Concat, Zenon
  <2> QED
    BY <1>1, <2>1, <2>2, <2>3, Zenon
<1>3. /\ Len(u) = k + m
      /\ \A n \in 1..k : u[n] = as[n]
      /\ \A n \in k + 1..k + m : u[n] = bs[n - k]
  <2>1. /\ Len(as \o bs) = Len(as) + Len(bs)
        /\ \A n \in 1..Len(as) : (as \o bs)[n] = as[n]
        /\ \A n \in Len(as) + 1..Len(as) + Len(bs) : (as \o bs)[n] = bs[n - Len(as)]
    BY Concat, Zenon
  <2>2. u = as \o bs /\ k = Len(as) /\ m = Len(bs)
    BY <1>2, Zenon
  <2> QED
    BY <2>1, <2>2, Zenon
<1>4. /\ Len(x) = k /\ \A n \in 1..k : x[n] = CallOf(h, i, as[n])
  BY <1>2, CallsOfIs, Zenon
<1>5. /\ Len(y) = m /\ \A n \in 1..m : y[n] = CallOf(h, i, bs[n])
  BY <1>2, CallsOfIs, Zenon
<1>6. /\ Len(z) = k + m /\ \A n \in 1..k + m : z[n] = CallOf(h, i, u[n])
  <2>1. z = CallsOf(h, i, u)
    BY <1>2, Zenon
  <2>2. /\ Len(CallsOf(h, i, u)) = Len(u)
        /\ \A n \in 1..Len(u) : CallsOf(h, i, u)[n] = CallOf(h, i, u[n])
    BY CallsOfIs
  <2> QED
    BY <1>3, <2>1, <2>2, Zenon
<1>7. /\ Len(v) = k + m
      /\ \A n \in 1..k : v[n] = x[n]
      /\ \A n \in k + 1..k + m : v[n] = y[n - k]
  <2>1. /\ Len(v) = Len(x) + Len(y)
        /\ \A n \in 1..Len(x) : v[n] = x[n]
        /\ \A n \in Len(x) + 1..Len(x) + Len(y) : v[n] = y[n - Len(x)]
    <3>1. /\ Len(x \o y) = Len(x) + Len(y)
          /\ \A n \in 1..Len(x) : (x \o y)[n] = x[n]
          /\ \A n \in Len(x) + 1..Len(x) + Len(y) : (x \o y)[n] = y[n - Len(x)]
      BY Concat, Zenon
    <3>2. v = x \o y
      BY <1>2, Zenon
    <3> QED
      BY <3>1, <3>2, Zenon
  <2> QED
    BY <1>4, <1>5, <2>1, Zenon
<1>8. ASSUME NEW n \in 1..k + m PROVE z[n] = v[n]
  <2>1. CASE n \in 1..k
    <3>1. z[n] = CallOf(h, i, u[n])
      BY <1>6, <1>8, Zenon
    <3>2. u[n] = as[n] /\ v[n] = x[n]
      BY <1>3, <1>7, <2>1, Zenon
    <3>3. x[n] = CallOf(h, i, as[n])
      BY <1>4, <2>1, Zenon
    <3> QED
      BY <3>1, <3>2, <3>3, Zenon
  <2>2. CASE n \in k + 1..k + m
    <3>1. n - k \in 1..m
      BY <2>2
    <3>2. z[n] = CallOf(h, i, u[n])
      BY <1>6, <1>8, Zenon
    <3>3. u[n] = bs[n - k] /\ v[n] = y[n - k]
      BY <1>3, <1>7, <2>2, Zenon
    <3>4. y[n - k] = CallOf(h, i, bs[n - k])
      BY <1>5, <3>1, Zenon
    <3> QED
      BY <3>2, <3>3, <3>4, Zenon
  <2> QED
    BY <2>1, <2>2
<1>9. Len(z) = Len(v) /\ \A n \in 1..Len(z) : z[n] = v[n]
  BY <1>6, <1>7, <1>8, Zenon
<1>10. z = v
  BY <1>9, SeqEqual, Zenon
<1> QED
  BY <1>2, <1>10, Zenon

(***************************************************************************)
(* The parts of a block.                                                   *)
(***************************************************************************)
\* Each position has a part.
LEMMA PartOfType ==
    ASSUME NEW b, NEW p \in Nat \ {0, 1}, NEW q
    PROVE  PartOf(b, p, q) \in 0..p - 1
<1> DEFINE fits == {j \in 0..p - 2 : b.beg + j * PartStep(b, p) <= q
                                       /\ q < b.beg + (j + 1) * PartStep(b, p)}
<1>1. PartOf(b, p, q) = IF fits = {} THEN p - 1 ELSE CHOOSE j \in fits : TRUE
  BY DEF PartOf
<1>2. fits \subseteq 0..p - 2
  OBVIOUS
<1> HIDE DEF fits
<1>3. fits # {} => (CHOOSE j \in fits : TRUE) \in fits
  OBVIOUS
<1>4. CASE fits = {}
  <2>1. p - 1 \in 0..p - 1
    OBVIOUS
  <2>2. PartOf(b, p, q) = p - 1
    BY <1>1, <1>4
  <2> QED
    BY <2>1, <2>2
<1>5. CASE fits # {}
  <2>1. PartOf(b, p, q) \in 0..p - 2
    BY <1>1, <1>2, <1>3, <1>5
  <2> QED
    BY <2>1
<1> QED
  BY <1>4, <1>5

\* The parts of a block are good blocks; where a range has run out, the one position in
\* it is the first.
LEMMA PartIsGood ==
    ASSUME Types, NEW i \in Rounds, NEW b \in Block, b.beg <= b.end, Good(i, b),
           NEW p \in Nat \ {0, 1}, NEW j \in 0..p - 1
    PROVE  PartBlock(b, p, j) \in Block /\ Good(i, PartBlock(b, p, j))
<1> DEFINE s == CallStep(b, p)
           part == PartBlock(b, p, j)
<1>1. /\ b.beg \in 0..DATA_MAX /\ b.end \in 0..DATA_MAX /\ b.at \in SUBSET (0..DATA_MAX - 1)
      /\ DATA_MAX \in Nat \ {0} /\ b.beg \in Nat /\ b.end \in Nat
  BY InterAssumption DEF Block
<1> PICK x, y : x = b.beg + j * s /\ y = IF j = p - 1 THEN b.end ELSE b.beg + (j + 1) * s
  OBVIOUS
<1>2. /\ x \in b.beg..b.end /\ y \in b.beg..b.end /\ x <= y
      /\ s \in Nat /\ (x = y /\ b.beg # b.end => s = 0 /\ j # p - 1)
  <2>1. s = (b.end - b.beg) \div p
    BY DEF CallStep
  <2> PICK t : t = s
    OBVIOUS
  <2>2. x = b.beg + j * t /\ y = IF j = p - 1 THEN b.end ELSE b.beg + (j + 1) * t
    OBVIOUS
  <2>3. LET first == b.beg + j * t
            last == IF j = p - 1 THEN b.end ELSE b.beg + (j + 1) * t
        IN /\ first \in b.beg..b.end /\ last \in b.beg..b.end /\ first <= last
           /\ t \in Nat /\ (first = last /\ b.beg # b.end => t = 0 /\ j # p - 1)
    <3> HIDE DEF s
    <3>1. t = (b.end - b.beg) \div p
      BY <2>1
    <3>2. PICK u \in Nat, v \in Nat : u = b.beg /\ v = b.end /\ u <= v
      BY <1>1
    <3>3. t = (v - u) \div p
      BY <3>1, <3>2, Zenon
    <3>4. PartRange(u, v, p, j, (v - u) \div p)
      BY <3>2, RangesOfParts, Zenon
    <3> QED
      BY <3>2, <3>3, <3>4, Zenon DEF PartRange
  <2> HIDE DEF s
  <2> QED
    BY <2>2, <2>3, Zenon
<1> PICK at : at = IF b.beg = b.end THEN {} ELSE {q \in b.at : PartOf(b, p, q) = j}
  OBVIOUS
<1>3. part = [beg |-> x, end |-> y, at |-> at, node |-> [h \in Hosts |-> b.beg # b.end]]
  BY DEF PartBlock
<1>4. at \in SUBSET (0..DATA_MAX - 1)
  BY <1>1
<1>5. part \in Block
  BY <1>1, <1>2, <1>3, <1>4 DEF Block
<1>6. x = y => \E q \in 0..DATA_MAX - 1 : at \subseteq {q}
  <2> SUFFICES ASSUME x = y PROVE \E q \in 0..DATA_MAX - 1 : at \subseteq {q}
    OBVIOUS
  <2>1. CASE b.beg = b.end
    <3>1. at = {} /\ 0 \in 0..DATA_MAX - 1
      BY <1>1, <2>1
    <3> QED
      BY <3>1
  <2>2. CASE b.beg # b.end
    <3>1. s = 0 /\ j \in 0..p - 2
      BY <1>2, <2>2
    <3>2. PartStep(b, p) = 1
      <4>1. b.end - b.beg \in Nat /\ p \in Nat \ {0}
        BY <1>1
      <4>2. b.end - b.beg < p
        BY <3>1, <4>1, StepIs DEF CallStep
      <4> QED
        BY <4>2 DEF PartStep
    <3>3. ASSUME NEW q \in at PROVE q = b.beg + j
      <4> DEFINE fits == {k \in 0..p - 2 : b.beg + k * PartStep(b, p) <= q
                                             /\ q < b.beg + (k + 1) * PartStep(b, p)}
      <4>1. PartOf(b, p, q) = IF fits = {} THEN p - 1 ELSE CHOOSE k \in fits : TRUE
        BY DEF PartOf
      <4>2. fits = {k \in 0..p - 2 : b.beg + k <= q /\ q < b.beg + k + 1}
        BY <1>1, <3>2
      <4> HIDE DEF fits
      <4>3. PartOf(b, p, q) = j /\ q \in Int
        BY <1>1, <2>2
      <4>4. fits # {} => (CHOOSE k \in fits : TRUE) \in fits
        OBVIOUS
      <4>5. j \in fits
        BY <3>1, <4>1, <4>3, <4>4
      <4> QED
        BY <1>1, <4>2, <4>3, <4>5
    <3>4. at \subseteq {b.beg + j}
      BY <3>3
    <3>5. CASE at = {}
      <4>1. 0 \in 0..DATA_MAX - 1
        BY <1>1
      <4> QED
        BY <3>5, <4>1
    <3>6. CASE at # {}
      <4> PICK q \in at : TRUE
        BY <3>6
      <4>1. q \in 0..DATA_MAX - 1 /\ q = b.beg + j
        BY <1>4, <3>3
      <4> QED
        BY <3>4, <4>1
    <3> QED
      BY <3>5, <3>6
  <2> QED
    BY <2>1, <2>2
<1>7. ~part.node["client"] => Content("client", i, part.at) = {}
  <2>1. part.node["client"] = (b.beg # b.end) /\ part.at = at
    BY <1>3, HostsType
  <2>2. b.beg = b.end => at = {}
    OBVIOUS
  <2> QED
    BY <2>1, <2>2 DEF Content
<1>8. part.beg = x /\ part.end = y /\ part.at = at
  BY <1>3
<1>9. /\ part.beg <= part.end
      /\ part.beg = part.end => \E q \in 0..DATA_MAX - 1 : part.at \subseteq {q}
  BY <1>2, <1>6, <1>8
<1> HIDE DEF part
<1> QED
  BY <1>5, <1>7, <1>9 DEF Good, part

\* The list of the parts.
LEMMA PartBlocksAre ==
    ASSUME Types, NEW i \in Rounds, NEW b \in Block, b.beg <= b.end, Good(i, b),
           NEW p \in Nat \ {0, 1}
    PROVE  /\ PartBlocks(b, p) \in Seq(Block) /\ Len(PartBlocks(b, p)) = p
           /\ \A n \in 1..p : PartBlocks(b, p)[n] = PartBlock(b, p, n - 1)
                              /\ Good(i, PartBlocks(b, p)[n])
<1>1. \A n \in 1..p : n - 1 \in 0..p - 1
  OBVIOUS
<1>2. \A n \in 1..p : PartBlock(b, p, n - 1) \in Block /\ Good(i, PartBlock(b, p, n - 1))
  BY <1>1, PartIsGood
<1>3. PartBlocks(b, p) \in Seq(Block) /\ Len(PartBlocks(b, p)) = p
  BY <1>2 DEF PartBlocks
<1>4. \A n \in 1..p : PartBlocks(b, p)[n] = PartBlock(b, p, n - 1)
  BY DEF PartBlocks
<1> QED
  BY <1>2, <1>3, <1>4

\* Where there is a range left, every position is in a part.
LEMMA PartsCover ==
    ASSUME NEW b, b.beg # b.end, NEW p \in Nat \ {0, 1}, NEW q \in b.at
    PROVE  \E n \in 1..p : q \in PartBlock(b, p, n - 1).at
<1> PICK n : n = PartOf(b, p, q) + 1
  OBVIOUS
<1>1. n \in 1..p /\ n - 1 = PartOf(b, p, q)
  BY PartOfType
<1>2. PartBlock(b, p, n - 1).at = {r \in b.at : PartOf(b, p, r) = n - 1}
  BY DEF PartBlock
<1> QED
  BY <1>1, <1>2

\* The calls that a host makes for the children are those for the parts of the block:
\* which child an element goes to depends on its position alone.
LEMMA PartsAre ==
    ASSUME Types, NEW h \in Hosts, NEW i \in Rounds, NEW b \in Block, b.beg <= b.end, Good(i, b)
    PROVE  Parts(h, CallOf(h, i, b)) = CallsOf(h, i, PartBlocks(b, agent[h].pFactor))
<1> PICK p \in Nat \ {0, 1} : p = agent[h].pFactor
  BY SetupTypes DEF Types
<1> PICK c : c = CallOf(h, i, b)
  OBVIOUS
<1>1. c.beg = b.beg /\ c.end = b.end /\ c.set = Content(h, i, b.at)
  BY DEF CallOf
<1>2. \A e : ChildOf(c, p, e) = PartOf(b, p, pos[e])
  <2>1. PartStep(c, p) = PartStep(b, p)
    BY <1>1 DEF PartStep
  <2> SUFFICES ASSUME NEW e PROVE ChildOf(c, p, e) = PartOf(b, p, pos[e])
    OBVIOUS
  <2>2. \A j : (c.beg + j * PartStep(c, p) <= pos[e] /\ pos[e] < c.beg + (j + 1) * PartStep(c, p))
                <=> (b.beg + j * PartStep(b, p) <= pos[e]
                       /\ pos[e] < b.beg + (j + 1) * PartStep(b, p))
    BY <1>1, <2>1, Zenon
  <2> DEFINE F == {j \in 0..p - 2 : c.beg + j * PartStep(c, p) <= pos[e]
                                      /\ pos[e] < c.beg + (j + 1) * PartStep(c, p)}
             G == {j \in 0..p - 2 : b.beg + j * PartStep(b, p) <= pos[e]
                                      /\ pos[e] < b.beg + (j + 1) * PartStep(b, p)}
  <2>3. F = G
    <3>1. \A j : j \in F <=> j \in G
      BY <2>2, Zenon
    <3> HIDE DEF F, G
    <3> QED
      BY <3>1
  <2>4. ChildOf(c, p, e) = IF F = {} THEN p - 1 ELSE CHOOSE j \in F : TRUE
    BY DEF ChildOf
  <2>5. PartOf(b, p, pos[e]) = IF G = {} THEN p - 1 ELSE CHOOSE j \in G : TRUE
    BY DEF PartOf
  <2> HIDE DEF F, G
  <2> QED
    BY <2>3, <2>4, <2>5, Zenon
<1>3. CallStep(c, p) = CallStep(b, p)
  BY <1>1 DEF CallStep
<1> DEFINE Child(j) ==
             [node |-> c.beg # c.end,
              set |-> IF c.beg = c.end THEN {} ELSE {e \in c.set : ChildOf(c, p, e) = j},
              beg |-> c.beg + j * CallStep(c, p),
              end |-> IF j = p - 1 THEN c.end ELSE c.beg + (j + 1) * CallStep(c, p)]
<1>4. ASSUME NEW j \in 0..p - 1 PROVE Child(j) = CallOf(h, i, PartBlock(b, p, j))
  <2>1. (IF c.beg = c.end THEN {} ELSE {e \in c.set : ChildOf(c, p, e) = j})
           = Content(h, i, PartBlock(b, p, j).at)
    <3>1. PartBlock(b, p, j).at = IF b.beg = b.end THEN {} ELSE {q \in b.at : PartOf(b, p, q) = j}
      BY DEF PartBlock
    <3>2. CASE b.beg = b.end
      BY <1>1, <3>1, <3>2 DEF Content
    <3>3. CASE b.beg # b.end
      <4>1. Content(h, i, PartBlock(b, p, j).at)
              = {e \in base[i][h] : pos[e] \in b.at /\ PartOf(b, p, pos[e]) = j}
        BY <3>1, <3>3 DEF Content
      <4>2. {e \in c.set : ChildOf(c, p, e) = j}
              = {e \in base[i][h] : pos[e] \in b.at /\ PartOf(b, p, pos[e]) = j}
        BY <1>1, <1>2 DEF Content
      <4> QED
        BY <1>1, <3>3, <4>1, <4>2
    <3> QED
      BY <3>2, <3>3
  <2>2. /\ PartBlock(b, p, j).node[h] = (c.beg # c.end)
        /\ PartBlock(b, p, j).beg = c.beg + j * CallStep(c, p)
        /\ PartBlock(b, p, j).end = IF j = p - 1 THEN c.end ELSE c.beg + (j + 1) * CallStep(c, p)
    BY <1>1, <1>3 DEF PartBlock
  <2> QED
    BY <2>1, <2>2, Zenon DEF CallOf
<1>5. Parts(h, c) = [n \in 1..p |-> Child(n - 1)]
  BY DEF Parts, Children
<1> HIDE DEF Child
<1>6. \A n \in 1..p : n - 1 \in 0..p - 1
  OBVIOUS
<1>7. Len(PartBlocks(b, p)) = p /\ \A n \in 1..p : PartBlocks(b, p)[n] = PartBlock(b, p, n - 1)
  BY PartBlocksAre
<1>8. CallsOf(h, i, PartBlocks(b, p)) = [n \in 1..p |-> CallOf(h, i, PartBlock(b, p, n - 1))]
  BY <1>7 DEF CallsOf
<1> QED
  BY <1>4, <1>5, <1>6, <1>8

(***************************************************************************)
(* The root, and what a block resolves.                                    *)
(***************************************************************************)
\* The root of the tree is a good block with all the positions.
LEMMA RootIsGood ==
    Types => \A i \in Rounds :
        /\ RootBlock(i) \in Block /\ Good(i, RootBlock(i))
        /\ \A h \in Hosts : data[h] = base[i][h] => CallOf(h, i, RootBlock(i)) = Root(h)
        /\ \A S : \A h \in Hosts : Resolved(h, i, <<RootBlock(i)>>, S)
<1> SUFFICES ASSUME Types, NEW i \in Rounds
             PROVE  /\ RootBlock(i) \in Block /\ Good(i, RootBlock(i))
                    /\ \A h \in Hosts : data[h] = base[i][h] => CallOf(h, i, RootBlock(i)) = Root(h)
                    /\ \A S : \A h \in Hosts : Resolved(h, i, <<RootBlock(i)>>, S)
  OBVIOUS
<1>1. DATA_MAX \in Nat \ {0} /\ 0 \in 0..DATA_MAX /\ DATA_MAX \in 0..DATA_MAX
  BY InterAssumption
<1>2. \A h \in Hosts : base[i][h] \in SUBSET Elem
  BY DEF Types, TypeOK, HostsTypeOK
<1>3. \A e \in Elem : pos[e] \in 0..DATA_MAX - 1
  BY SetupTypes DEF Types
<1>4. \A h \in Hosts : Content(h, i, 0..DATA_MAX - 1) = base[i][h]
  BY <1>2, <1>3 DEF Content
<1>5. /\ RootBlock(i).beg = 0 /\ RootBlock(i).end = DATA_MAX
      /\ RootBlock(i).at = 0..DATA_MAX - 1
      /\ \A h \in Hosts : RootBlock(i).node[h] = (base[i][h] # {})
  BY DEF RootBlock
<1>6. RootBlock(i) \in Block
  BY <1>1 DEF RootBlock, Block
<1>7. Good(i, RootBlock(i))
  <2>1. ~RootBlock(i).node["client"] => Content("client", i, RootBlock(i).at) = {}
    BY <1>4, <1>5, HostsType
  <2>2. RootBlock(i).beg <= RootBlock(i).end /\ RootBlock(i).beg # RootBlock(i).end
    BY <1>1, <1>5
  <2> QED
    BY <2>1, <2>2 DEF Good
<1>8. ASSUME NEW h \in Hosts, data[h] = base[i][h] PROVE CallOf(h, i, RootBlock(i)) = Root(h)
  BY <1>4, <1>5, <1>8 DEF CallOf, Root
<1>9. ASSUME NEW h \in Hosts, NEW S PROVE Resolved(h, i, <<RootBlock(i)>>, S)
  <2>1. \A e \in Lacking(h, i) : e \in Elem
    BY <1>2, HostsType DEF Lacking
  <2>2. \A e \in Lacking(h, i) : pos[e] \in RootBlock(i).at
    BY <1>3, <1>5, <2>1
  <2> PICK r : r = RootBlock(i)
    OBVIOUS
  <2>3. <<r>>[1] = r /\ 1 \in 1..Len(<<r>>)
    OBVIOUS
  <2> QED
    BY <2>2, <2>3, Zenon DEF Resolved
<1> QED
  BY <1>6, <1>7, <1>8, <1>9

\* With the first block resolved, the rest remains.
LEMMA ResolvesRest ==
    ASSUME NEW h \in Hosts, NEW i \in Rounds, NEW bs \in Seq(Block), bs # <<>>, NEW S, NEW T,
           Resolved(h, i, bs, S),
           \A e \in Lacking(h, i) : pos[e] \in Head(bs).at => e \in T \/ Crowded(i, e)
    PROVE  Resolved(h, i, Tail(bs), S \cup T)
<1> SUFFICES ASSUME NEW e \in Lacking(h, i)
             PROVE  \/ e \in S \cup T \/ Crowded(i, e)
                    \/ \E n \in 1..Len(Tail(bs)) : pos[e] \in Tail(bs)[n].at
  BY DEF Resolved
<1>1. /\ Head(bs) = bs[1] /\ Len(bs) \in Nat \ {0} /\ Len(Tail(bs)) = Len(bs) - 1
      /\ \A n \in 1..Len(bs) - 1 : Tail(bs)[n] = bs[n + 1]
  OBVIOUS
<1>2. CASE e \in S \/ Crowded(i, e)
  BY <1>2
<1>3. CASE \E n \in 1..Len(bs) : pos[e] \in bs[n].at
  <2> PICK n \in 1..Len(bs) : pos[e] \in bs[n].at
    BY <1>3
  <2>1. CASE n = 1
    BY <1>1, <2>1
  <2>2. CASE n # 1
    <3>1. n - 1 \in 1..Len(bs) - 1 /\ (n - 1) + 1 = n
      BY <1>1, <2>2
    <3>2. Tail(bs)[n - 1] = bs[n]
      BY <1>1, <3>1
    <3> QED
      BY <1>1, <3>1, <3>2
  <2> QED
    BY <2>1, <2>2
<1> QED
  BY <1>2, <1>3 DEF Resolved

\* With the first block in parts, the parts and the rest.
LEMMA ResolvesParts ==
    ASSUME NEW h \in Hosts, NEW i \in Rounds, NEW bs \in Seq(Block), bs # <<>>, NEW S,
           NEW as \in Seq(Block), Resolved(h, i, bs, S),
           \A e \in Lacking(h, i) : pos[e] \in Head(bs).at =>
               Crowded(i, e) \/ \E n \in 1..Len(as) : pos[e] \in as[n].at
    PROVE  Resolved(h, i, as \o Tail(bs), S)
<1>1. PICK T : \A e : e \in T <=> e \in Lacking(h, i) /\ \E n \in 1..Len(as) : pos[e] \in as[n].at
  <2> WITNESS {e \in Lacking(h, i) : \E n \in 1..Len(as) : pos[e] \in as[n].at}
  <2> QED
    OBVIOUS
<1>2. Resolved(h, i, Tail(bs), S \cup T)
  <2>1. \A e \in Lacking(h, i) : pos[e] \in Head(bs).at => e \in T \/ Crowded(i, e)
    BY <1>1
  <2> QED
    BY <2>1, ResolvesRest
<1> SUFFICES ASSUME NEW e \in Lacking(h, i)
             PROVE  \/ e \in S \/ Crowded(i, e)
                    \/ \E n \in 1..Len(as \o Tail(bs)) : pos[e] \in (as \o Tail(bs))[n].at
  BY DEF Resolved
<1>3. PICK ds \in Seq(Block), k \in Nat, m \in Nat, u \in Seq(Block) :
        ds = Tail(bs) /\ k = Len(as) /\ m = Len(ds) /\ u = as \o ds
  <2>1. Tail(bs) \in Seq(Block)
    OBVIOUS
  <2>2. Len(as) \in Nat /\ Len(Tail(bs)) \in Nat
    BY <2>1, Concat, Zenon
  <2>3. as \o Tail(bs) \in Seq(Block)
    BY <2>1, Concat, Zenon
  <2> QED
    BY <2>1, <2>2, <2>3, Zenon
<1>4. /\ Len(u) = k + m
      /\ \A n \in 1..k : u[n] = as[n]
      /\ \A n \in k + 1..k + m : u[n] = ds[n - k]
  <2>1. /\ Len(as \o ds) = Len(as) + Len(ds)
        /\ \A n \in 1..Len(as) : (as \o ds)[n] = as[n]
        /\ \A n \in Len(as) + 1..Len(as) + Len(ds) : (as \o ds)[n] = ds[n - Len(as)]
    BY Concat, Zenon
  <2> QED
    BY <1>3, <2>1, Zenon
<1>5. CASE \E n \in 1..k : pos[e] \in as[n].at
  <2> PICK n \in 1..k : pos[e] \in as[n].at
    BY <1>5
  <2>1. n \in 1..k + m
    OBVIOUS
  <2>2. u[n] = as[n]
    BY <1>4, Zenon
  <2> QED
    BY <1>3, <1>4, <2>1, <2>2, Zenon
<1>6. CASE \E n \in 1..m : pos[e] \in ds[n].at
  <2> PICK n \in 1..m : pos[e] \in ds[n].at
    BY <1>6
  <2>1. k + n \in k + 1..k + m /\ k + n \in 1..k + m /\ (k + n) - k = n
    OBVIOUS
  <2>2. u[k + n] = ds[(k + n) - k]
    BY <1>4, <2>1, Zenon
  <2>3. u[k + n] = ds[n]
    BY <2>1, <2>2, Zenon
  <2> QED
    BY <1>3, <1>4, <2>1, <2>3, Zenon
<1> QED
  BY <1>1, <1>2, <1>3, <1>5, <1>6, Zenon DEF Resolved

(***************************************************************************)
(* A failed attempt.                                                       *)
(***************************************************************************)
\* Splitting two finite sets: what they share accounts for the difference between
\* their sizes and the sizes of what they do not share.
LEMMA SizeDifference ==
    ASSUME NEW S, NEW T, IsFiniteSet(S), IsFiniteSet(T)
    PROVE  /\ Cardinality(S) \in Nat /\ Cardinality(T) \in Nat
           /\ Cardinality(S \ T) \in Nat /\ Cardinality(T \ S) \in Nat
           /\ Cardinality(S) - Cardinality(T) = Cardinality(S \ T) - Cardinality(T \ S)
<1>1. IsFiniteSet(S \ T) /\ IsFiniteSet(T \ S) /\ IsFiniteSet(S \cap T)
  BY FS_Difference, FS_Intersection
<1>2. /\ Cardinality(S \ T) = Cardinality(S) - Cardinality(S \cap T)
      /\ Cardinality(T \ S) = Cardinality(T) - Cardinality(T \cap S)
  BY FS_Difference
<1>3. Cardinality(S \cap T) = Cardinality(T \cap S)
  <2>1. S \cap T = T \cap S
    OBVIOUS
  <2> QED
    BY <2>1, Zenon
<1>4. /\ Cardinality(S) \in Nat /\ Cardinality(T) \in Nat
      /\ Cardinality(S \ T) \in Nat /\ Cardinality(T \ S) \in Nat
      /\ Cardinality(S \cap T) \in Nat
  BY <1>1, FS_CardinalityType
<1>5. PICK a \in Nat, b \in Nat, c \in Nat, x \in Nat, y \in Nat :
        /\ a = Cardinality(S) /\ b = Cardinality(T) /\ c = Cardinality(S \cap T)
        /\ x = Cardinality(S \ T) /\ y = Cardinality(T \ S)
  BY <1>4, Zenon
<1>6. x = a - c /\ y = b - c
  BY <1>2, <1>3, <1>5, Zenon
<1>7. a - b = x - y
  BY <1>6
<1> QED
  BY <1>4, <1>5, <1>7, Zenon

\* An attempt that fails where both hosts have something has more than m differences.
LEMMA FailureMeans ==
    ASSUME NEW S, NEW T, IsFiniteSet(S), IsFiniteSet(T), NEW m \in Nat, T # {}, ~Reconciles(m, S, T)
    PROVE  Cardinality((S \ T) \cup (T \ S)) > m
<1>1. ~Interpolates(m, S, T)
  BY DEF Reconciles
<1>2. /\ Cardinality(S) \in Nat /\ Cardinality(T) \in Nat
      /\ Cardinality(S \ T) \in Nat /\ Cardinality(T \ S) \in Nat
      /\ Cardinality(S) - Cardinality(T) = Cardinality(S \ T) - Cardinality(T \ S)
  BY SizeDifference
<1>3. PICK a \in Nat, b \in Nat, x \in Nat, y \in Nat :
        /\ a = Cardinality(S) /\ b = Cardinality(T)
        /\ x = Cardinality(S \ T) /\ y = Cardinality(T \ S) /\ a - b = x - y
  BY <1>2, Zenon
<1>4. ~(x <= Halve(m + (a - b)) /\ y <= Halve(m - (a - b)))
  BY <1>1, <1>3, Zenon DEF Interpolates, NumeratorBound, DenominatorBound
<1>5. x + y > m
  BY <1>3, <1>4 DEF Halve
<1>6. Cardinality((S \ T) \cup (T \ S)) = x + y
  <2>1. IsFiniteSet(S \ T) /\ IsFiniteSet(T \ S)
    BY FS_Difference
  <2>2. Cardinality((S \ T) \cup (T \ S))
          = Cardinality(S \ T) + Cardinality(T \ S) - Cardinality((S \ T) \cap (T \ S))
    BY <2>1, FS_Union
  <2>3. (S \ T) \cap (T \ S) = {}
    OBVIOUS
  <2>4. Cardinality((S \ T) \cap (T \ S)) = 0
    BY <2>3, FS_EmptySet
  <2>5. PICK z : z = Cardinality((S \ T) \cap (T \ S))
    OBVIOUS
  <2>6. Cardinality((S \ T) \cup (T \ S)) = x + (y - z)
    <3>1. Cardinality((S \ T) \cup (T \ S))
            = Cardinality(S \ T) + Cardinality(T \ S) - z
      BY <2>2, <2>5, Zenon
    <3>2. x = Cardinality(S \ T) /\ y = Cardinality(T \ S)
      BY <1>3, Zenon
    <3> QED
      BY <3>1, <3>2, Zenon
  <2>7. z = 0
    BY <2>4, <2>5, Zenon
  <2> QED
    BY <1>3, <2>6, <2>7
<1> QED
  BY <1>5, <1>6, Zenon

\* What follows it: every difference at the block's positions is in a part, or its
\* position, the only one of the block, is crowded.
LEMMA FailureLeaves ==
    ASSUME Types, NEW i \in Rounds, NEW b \in Block, Good(i, b), Has("server", i, b),
           ~Reconciles(A.mbar, Content("client", i, b.at), Content("server", i, b.at)),
           NEW p \in Nat \ {0, 1}, NEW h \in Hosts, NEW e \in Lacking(h, i), pos[e] \in b.at
    PROVE  Crowded(i, e) \/ \E n \in 1..Len(PartBlocks(b, p)) : pos[e] \in PartBlocks(b, p)[n].at
<1>1. CASE b.beg # b.end
  <2>1. /\ Len(PartBlocks(b, p)) = p
        /\ \A n \in 1..p : PartBlocks(b, p)[n] = PartBlock(b, p, n - 1)
    BY PartBlocksAre DEF Good
  <2> PICK n \in 1..p : pos[e] \in PartBlock(b, p, n - 1).at
    BY <1>1, PartsCover
  <2> QED
    BY <2>1, Zenon
<1>2. CASE b.beg = b.end
  <2> PICK q \in 0..DATA_MAX - 1 : b.at \subseteq {q}
    BY <1>2 DEF Good
  <2>1. PICK S, T : S = Content("client", i, b.at) /\ T = Content("server", i, b.at)
    OBVIOUS
  <2>2. base[i]["client"] \in SUBSET Elem /\ base[i]["server"] \in SUBSET Elem
    BY HostsType DEF Types, TypeOK, HostsTypeOK
  <2>3. /\ IsFiniteSet(S) /\ IsFiniteSet(T)
        /\ S \subseteq base[i]["client"] /\ T \subseteq base[i]["server"]
    <3>1. S \subseteq base[i]["client"] /\ T \subseteq base[i]["server"]
      BY <2>1 DEF Content
    <3>2. S \subseteq Elem /\ T \subseteq Elem
      BY <2>2, <3>1
    <3> QED
      BY <3>1, <3>2, FS_Subset, HostsAssumption
  <2>4. T # {}
    BY <2>1 DEF Has, SomeInfo, CallOf
  <2>5. A.mbar \in Nat
    BY SetupTypes, HostsType DEF Types, A
  <2>6. Cardinality((S \ T) \cup (T \ S)) > A.mbar
    BY <2>1, <2>3, <2>4, <2>5, FailureMeans
  <2>7. (S \ T) \cup (T \ S) \subseteq Crowd(i, e)
    <3>1. pos[e] = q /\ \A d \in S \cup T : pos[d] = q
      BY <2>1 DEF Content
    <3>2. \A d \in S \ T : d \notin base[i]["server"]
      BY <2>1 DEF Content
    <3>3. \A d \in T \ S : d \notin base[i]["client"]
      BY <2>1 DEF Content
    <3> QED
      BY <2>3, <3>1, <3>2, <3>3 DEF Crowd, Differences
  <2>8. IsFiniteSet(Crowd(i, e))
    <3>1. Crowd(i, e) \subseteq Elem
      BY <2>2 DEF Crowd, Differences
    <3> QED
      BY <3>1, FS_Subset, HostsAssumption
  <2>9. PICK D : D = (S \ T) \cup (T \ S)
    OBVIOUS
  <2>10. IsFiniteSet(D) /\ Cardinality(D) <= Cardinality(Crowd(i, e))
    BY <2>7, <2>8, <2>9, FS_Subset
  <2>11. PICK k \in Nat, l \in Nat : k = Cardinality(D) /\ l = Cardinality(Crowd(i, e))
    BY <2>8, <2>10, FS_CardinalityType
  <2>12. k <= l /\ k > A.mbar
    BY <2>6, <2>9, <2>10, <2>11
  <2>13. l > A.mbar
    BY <2>5, <2>12
  <2> QED
    BY <2>11, <2>13 DEF Crowded
<1> QED
  BY <1>1, <1>2

(***************************************************************************)
(* The invariant.                                                          *)
(***************************************************************************)
Decided(i) ==
    /\ verdict[i] = "ok" /\ Sound(i)
    /\ \E bs \in Seq(Block) : Blocks(i, bs)

Round(i) == Undecided(i) \/ Decided(i)
Link == \A i \in Rounds : Round(i)

\* Agents with different parameters part in the handshake or misread each other; what is
\* said of the sets is said of agents that match.
IInv == Types /\ (Matched => Link)

(***************************************************************************)
(* Frames: what a step leaves as it was.                                   *)
(***************************************************************************)
\* What depends on the agents, the positions and the sets of the decision alone.
LEMMA Same ==
    ASSUME NEW i \in Rounds, UNCHANGED <<agent, pos>>, base'[i] = base[i]
    PROVE  /\ A' = A /\ ModMsg' = ModMsg /\ ParamsMsg' = ParamsMsg
           /\ \A b : /\ Good(i, b)' = Good(i, b)
                     /\ EvalsOf(i, b)' = EvalsOf(i, b) /\ DeltasOf(i, b)' = DeltasOf(i, b)
           /\ \A e : Crowded(i, e)' = Crowded(i, e)
           /\ \A h \in Hosts :
                 /\ Lacking(h, i)' = Lacking(h, i)
                 /\ \A bs : CallsOf(h, i, bs)' = CallsOf(h, i, bs)
                 /\ \A bs : Asks(h, i, bs)' = Asks(h, i, bs)
                 /\ \A b : InfoOf(h, i, b)' = InfoOf(h, i, b)
                 /\ \A b : Has(h, i, b)' = Has(h, i, b)
                 /\ \A b : AllOf(h, i, b)' = AllOf(h, i, b)
                 /\ \A b : Own(h, i, b)' = Own(h, i, b)
<1>1. A' = A
  BY DEF A
<1>2. ModMsg' = ModMsg /\ ParamsMsg' = ParamsMsg
  BY <1>1 DEF ModMsg, ParamsMsg
<1>3. \A h, P : Content(h, i, P)' = Content(h, i, P)
  BY DEF Content
<1>4. \A h, b : CallOf(h, i, b)' = CallOf(h, i, b)
  BY <1>3, Zenon DEF CallOf
<1>5. \A b : Good(i, b)' = Good(i, b)
  BY <1>3, Zenon DEF Good
<1>6. \A h, b : InfoOf(h, i, b)' = InfoOf(h, i, b)
  BY <1>4, Zenon DEF InfoOf
<1>7. \A h, b : Has(h, i, b)' = Has(h, i, b)
  BY <1>4, Zenon DEF Has
<1>8. \A h, b : AllOf(h, i, b)' = AllOf(h, i, b)
  BY <1>3, Zenon DEF AllOf
<1>9. \A b : EvalsOf(i, b)' = EvalsOf(i, b)
  BY <1>3, Zenon DEF EvalsOf
<1>10. \A h, b : Own(h, i, b)' = Own(h, i, b)
  BY <1>3, Zenon DEF Own
<1>11. \A b : DeltasOf(i, b)' = DeltasOf(i, b)
  BY <1>10, Zenon DEF DeltasOf
<1>12. \A h, bs : CallsOf(h, i, bs)' = CallsOf(h, i, bs)
  BY <1>4 DEF CallsOf
<1>13. \A h, bs : Asks(h, i, bs)' = Asks(h, i, bs)
  BY <1>6, Zenon DEF Asks
<1>14. \A h : Lacking(h, i)' = Lacking(h, i)
  BY DEF Lacking
<1>15. \A e : Crowded(i, e)' = Crowded(i, e)
  <2>1. \A e : Crowd(i, e)' = Crowd(i, e)
    BY DEF Crowd, Differences
  <2> QED
    BY <1>1, <2>1, Zenon DEF Crowded
<1> QED
  BY <1>1, <1>2, <1>5, <1>6, <1>7, <1>8, <1>9, <1>10, <1>11, <1>12, <1>13, <1>14, <1>15

\* A host that keeps its place, or quits, keeps its end.
LEMMA EndFrame ==
    ASSUME NEW i \in Rounds, NEW h \in Hosts, UNCHANGED <<agent, pos>>, base'[i] = base[i],
           Place(h, i)' = Place(h, i) \/ Place(h, i)' = "quit",
           ListOf(h, i)' = ListOf(h, i),
           comm'[h] = i => comm[h] = i /\ oms'[h] = oms[h]
    PROVE  /\ \A bs : Settled(h, i, bs) => Settled(h, i, bs)'
           /\ \A p, bs, q : End(h, i, p, bs, q) /\ chan'[i][h] = chan[i][h] => End(h, i, p, bs, q)'
<1>1. \A bs : Settled(h, i, bs) => Settled(h, i, bs)'
  BY Same DEF Settled, Resolved
<1>2. \A bs : CallsOf(h, i, bs)' = CallsOf(h, i, bs)
  BY Same
<1> QED
  BY <1>1, <1>2 DEF End

\* A round in which no host moves but to quit.
LEMMA RoundFrame ==
    ASSUME NEW i \in Rounds, Round(i), UNCHANGED <<agent, pos>>,
           chan'[i] = chan[i], verdict'[i] = verdict[i], base'[i] = base[i],
           \A g \in Hosts :
               /\ Place(g, i)' = Place(g, i) \/ Place(g, i)' = "quit"
               /\ ListOf(g, i)' = ListOf(g, i)
               /\ comm'[g] = i => /\ comm[g] = i /\ oms'[g] = oms[g]
                                  /\ pc'[g] \in {"connecting", "listening"} => pc'[g] = pc[g]
                                  /\ pc'[g] # "returned" => pc[g] # "returned" /\ data'[g] = data[g]
    PROVE  Round(i)'
<1>1. \A h \in Hosts : \A bs : Settled(h, i, bs) => Settled(h, i, bs)'
  BY EndFrame
<1>2. \A h \in Hosts : \A p, bs, q : End(h, i, p, bs, q) => End(h, i, p, bs, q)'
  BY EndFrame
<1>3. \A h \in Hosts : \A bs, q : Ahead(h, i, bs, q) => Ahead(h, i, bs, q)'
  BY <1>2 DEF Ahead
<1>4. NothingLearned(i) => NothingLearned(i)'
  BY DEF NothingLearned
<1>5. Undecided(i) => Undecided(i)'
  <2>1. \A cs, ss : At(i, cs, ss) => At(i, cs, ss)'
    BY HostsType DEF At
  <2>2. \A x, y : Carries(i, x, y) => Carries(i, x, y)'
    BY DEF Carries
  <2>3. ModMsg' = ModMsg /\ ParamsMsg' = ParamsMsg
    BY Same
  <2>4. Idle(i) => Idle(i)'
    BY <2>1, <2>2 DEF Idle
  <2>5. /\ ModSent(i) => ModSent(i)'
        /\ ModFine(i) => ModFine(i)'
        /\ ParamsSent(i) => ParamsSent(i)'
    BY <1>4, <2>1, <2>3 DEF ModSent, ModFine, ParamsSent, Carries, Flag
  <2> QED
    BY <2>4, <2>5 DEF Undecided
<1>6. ASSUME NEW bs \in Seq(Block), Blocks(i, bs) PROVE Blocks(i, bs)'
  <2> DEFINE b == Head(bs)
             rest == Tail(bs)
  <2>1. /\ A' = A
        /\ Good(i, b)' = Good(i, b)
        /\ EvalsOf(i, b)' = EvalsOf(i, b) /\ DeltasOf(i, b)' = DeltasOf(i, b)
        /\ \A n \in 1..Len(bs) : Good(i, bs[n])' = Good(i, bs[n])
    BY Same
  <2>2. \A h \in Hosts :
           /\ \A as : Asks(h, i, as)' = Asks(h, i, as)
           /\ InfoOf(h, i, b)' = InfoOf(h, i, b) /\ Has(h, i, b)' = Has(h, i, b)
           /\ AllOf(h, i, b)' = AllOf(h, i, b) /\ Own(h, i, b)' = Own(h, i, b)
    BY Same
  <2>3. "client" \in Hosts /\ "server" \in Hosts /\ \A h \in Hosts : Other(h) \in Hosts
    BY HostsType
  <2> HIDE DEF b, rest
  <2>4. Opened(i, bs) => Opened(i, bs)'
    <3>1. RootBlock(i)' = RootBlock(i)
      BY DEF RootBlock
    <3> QED
      BY <1>3, <1>4, <2>2, <2>3, <3>1, Zenon DEF Opened, Flag
  <2>5. Level(i, bs) => Level(i, bs)'
    <3>1. ASSUME NEW h \in Hosts, Ahead(h, i, bs, Asks(Other(h), i, bs))
          PROVE  Ahead(h, i, bs, Asks(Other(h), i, bs))'
      BY <1>3, <2>2, <2>3, <3>1, Zenon
    <3> QED
      BY <3>1, Zenon DEF Level
  <2>6. ASSUME NEW h \in Hosts PROVE Skipped(h, i, bs, b, rest) => Skipped(h, i, bs, b, rest)'
    BY <1>2, <1>3, <2>2, <2>3, Zenon DEF Skipped
  <2>7. ASSUME NEW h \in Hosts PROVE Given(h, i, bs, b, rest) => Given(h, i, bs, b, rest)'
    BY <1>2, <1>3, <2>2, <2>3, Zenon DEF Given
  <2>8. Tried(i, bs, b, rest) => Tried(i, bs, b, rest)'
    BY <1>2, <2>1, <2>2, <2>3, Zenon DEF Tried
  <2>9. Parted(i, bs, b, rest) => Parted(i, bs, b, rest)'
    BY <1>1, <1>2, <1>3, <2>1, <2>2, <2>3, Zenon DEF Parted, Flag
  <2>10. Solved(i, bs, b, rest) => Solved(i, bs, b, rest)'
    BY <1>1, <1>2, <1>3, <2>1, <2>2, <2>3, Zenon DEF Solved, Flag, Strings
  <2>11. Spelled(i, bs, b, rest) => Spelled(i, bs, b, rest)'
    BY <1>1, <1>2, <2>1, <2>2, <2>3, Zenon DEF Spelled, Flag, Strings
  <2>12. InHand(i, bs, b, rest) => InHand(i, bs, b, rest)'
    BY <2>6, <2>7, <2>8, <2>9, <2>10, <2>11, Zenon DEF InHand
  <2> QED
    BY <1>6, <2>1, <2>4, <2>5, <2>12 DEF Blocks, b, rest
<1>7. Decided(i) => Decided(i)'
  <2>1. Sound(i) => Sound(i)'
    BY Same DEF Sound
  <2>2. (\E bs \in Seq(Block) : Blocks(i, bs)) => (\E bs \in Seq(Block) : Blocks(i, bs)')
    BY <1>6
  <2> QED
    BY <2>1, <2>2 DEF Decided
<1> QED
  BY <1>5, <1>7 DEF Round

(***************************************************************************)
(* The streams of a round after each of the three uses.                    *)
(***************************************************************************)
\* A sender adds to the peer's stream,
LEMMA SendStreams ==
    ASSUME TypeOK, NEW h \in Hosts, NEW msgs, Send(h, msgs)
    PROVE  /\ chan'[comm[h]][h] = chan[comm[h]][h]
           /\ chan'[comm[h]][Other(h)] = chan[comm[h]][Other(h)] \o msgs
           /\ \A j \in Rounds \ {comm[h]} : chan'[j] = chan[j]
BY StreamTypes DEF Send

\* a receiver takes from its own,
LEMMA ReceiveStreams ==
    ASSUME TypeOK, NEW h \in Hosts, Receive(h)
    PROVE  /\ chan'[comm[h]][h] = Tail(chan[comm[h]][h])
           /\ chan'[comm[h]][Other(h)] = chan[comm[h]][Other(h)]
           /\ \A j \in Rounds \ {comm[h]} : chan'[j] = chan[j]
BY StreamTypes DEF Receive

\* and one that answers does both.
LEMMA AnswerStreams ==
    ASSUME TypeOK, NEW h \in Hosts, NEW msgs, Answer(h, msgs)
    PROVE  /\ chan'[comm[h]][h] = Tail(chan[comm[h]][h])
           /\ chan'[comm[h]][Other(h)] = chan[comm[h]][Other(h)] \o msgs
           /\ \A j \in Rounds \ {comm[h]} : chan'[j] = chan[j]
BY StreamTypes DEF Answer

\* Streams, short and put together.
LEMMA Streams ==
    ASSUME NEW M, NEW x \in M, NEW q \in Seq(M), NEW r \in Seq(M)
    PROVE  /\ <<>> \in Seq(M) /\ <<>> \o q = q /\ q \o <<>> = q /\ q \o r \in Seq(M)
           /\ <<x>> \in Seq(M) /\ <<x>> # <<>> /\ Head(<<x>>) = x /\ Tail(<<x>>) = <<>>
           /\ <<x>> \o q \in Seq(M) /\ <<x>> \o q # <<>>
           /\ Head(<<x>> \o q) = x /\ Tail(<<x>> \o q) = q
OBVIOUS

\* The first of a stream, and what is left of it.
LEMMA FirstOfStream ==
    ASSUME NEW M, NEW x \in M, NEW q \in Seq(M)
    PROVE  <<x>> \o q \in Seq(M) /\ Head(<<x>> \o q) = x /\ Tail(<<x>> \o q) = q
OBVIOUS

\* Three streams in a row.
LEMMA Reassociate ==
    ASSUME NEW M, NEW q \in Seq(M), NEW r \in Seq(M), NEW s \in Seq(M)
    PROVE  (q \o r) \o s = q \o (r \o s)
OBVIOUS

\* Two messages.
LEMMA TwoMessages ==
    ASSUME NEW M, NEW x \in M, NEW y \in M
    PROVE  <<x, y>> = <<x>> \o <<y>> /\ <<x, y>> \in Seq(M)
<1>1. PICK s \in Seq(M), t \in Seq(M) : s = <<x>> /\ t = <<y>>
  <2>1. <<x>> \in Seq(M) /\ <<y>> \in Seq(M)
    OBVIOUS
  <2> QED
    BY <2>1, Zenon
<1>2. Len(s) = 1 /\ Len(t) = 1 /\ s[1] = x /\ t[1] = y
  BY <1>1
<1>3. PICK u : u = s \o t
  OBVIOUS
<1>4. u \in Seq(M) /\ Len(u) = 2 /\ u[1] = s[1] /\ u[2] = t[1]
  <2>1. s \o t \in Seq(M) /\ Len(s \o t) = 2 /\ (s \o t)[1] = s[1] /\ (s \o t)[2] = t[1]
    <3>1. /\ s \o t \in Seq(M) /\ Len(s \o t) = Len(s) + Len(t)
          /\ \A n \in 1..Len(s) : (s \o t)[n] = s[n]
          /\ \A n \in Len(s) + 1..Len(s) + Len(t) : (s \o t)[n] = t[n - Len(s)]
      BY Concat, Zenon
    <3>2. PICK w : w = s \o t
      OBVIOUS
    <3>3. /\ w \in Seq(M) /\ Len(w) = 1 + 1
          /\ \A n \in 1..1 : w[n] = s[n]
          /\ \A n \in 1 + 1..1 + 1 : w[n] = t[n - 1]
      BY <1>2, <3>1, <3>2, Zenon
    <3>4. w[1] = s[1] /\ w[2] = t[1] /\ Len(w) = 2
      BY <3>3
    <3> QED
      BY <3>2, <3>3, <3>4, Zenon
  <2> QED
    BY <1>3, <2>1, Zenon
<1>5. PICK v : v = <<x, y>>
  OBVIOUS
<1>6. v \in Seq(M) /\ Len(v) = 2 /\ v[1] = x /\ v[2] = y
  BY <1>5
<1>7. \A n \in 1..Len(u) : u[n] = v[n]
  BY <1>2, <1>4, <1>6
<1>8. u = v
  BY <1>4, <1>6, <1>7, SeqEqual
<1> QED
  BY <1>1, <1>3, <1>5, <1>6, <1>8, Zenon

(***************************************************************************)
(* A step in which host h moves in session i: it waits at p, with the      *)
(* calls for bs to be made, has taken a message and sent msgs, and has     *)
(* learned S.                                                              *)
(***************************************************************************)
Moves(h, i, p, bs, msgs, S) ==
    /\ comm[h] = i /\ pc[h] # "returned"
    /\ pc' = [pc EXCEPT ![h] = p]
    /\ calls' = [calls EXCEPT ![h] = CallsOf(h, i, bs)]
    /\ chan'[i][h] = Tail(chan[i][h])
    /\ chan'[i][Other(h)] = chan[i][Other(h)] \o msgs
    /\ \A j \in Rounds \ {i} : chan'[j] = chan[j]
    /\ oms' = [oms EXCEPT ![h] = oms[h] \cup S]
    /\ UNCHANGED <<data, comm, verdict, base, agent, pos>>

\* Such a step leaves the other rounds in their phases, and puts one end of round i
\* where the step says and leaves the other end there, with a longer stream.
LEMMA Moved ==
    ASSUME Types, Link, NEW i \in Rounds, NEW h \in Hosts, NEW bs, NEW msgs, NEW S,
           NEW p, p \notin {"returned", "connecting", "listening"}, Moves(h, i, p, bs, msgs, S)
    PROVE  /\ \A j \in Rounds \ {i} : Round(j)'
           /\ verdict'[i] = verdict[i] /\ base'[i] = base[i] /\ UNCHANGED <<agent, pos>>
           /\ Sound(i) /\ S \subseteq Lacking(h, i) => Sound(i)'
           /\ \A g \in Hosts : \A as : Settled(g, i, as) => Settled(g, i, as)'
           /\ \A as : Resolved(h, i, as, oms[h] \cup S) => Settled(h, i, as)'
           /\ \A q : Tail(chan[i][h]) = q /\ Resolved(h, i, bs, oms[h] \cup S)
                        => End(h, i, p, bs, q)'
           /\ \A p0, as, q : End(Other(h), i, p0, as, q) => End(Other(h), i, p0, as, q \o msgs)'
<1>1. comm \in [Hosts -> 1..Sessions] /\ Sessions \in Nat /\ i \in 1..Sessions
  BY HostsAssumption DEF Types, TypeOK, HostsTypeOK, Rounds
<1>2. DOMAIN pc = Hosts /\ DOMAIN calls = Hosts /\ DOMAIN oms = Hosts
  BY DEF Types, TypeOK, HostsTypeOK
<1>3. /\ pc'[h] = p /\ calls'[h] = CallsOf(h, i, bs) /\ oms'[h] = oms[h] \cup S
      /\ \A g \in Hosts \ {h} : pc'[g] = pc[g] /\ calls'[g] = calls[g] /\ oms'[g] = oms[g]
      /\ comm[h] = i /\ pc[h] # "returned"
      /\ UNCHANGED <<data, comm, verdict, base, agent, pos>>
      /\ \A j \in Rounds \ {i} : chan'[j] = chan[j]
  BY <1>2 DEF Moves
<1>4. ASSUME NEW j \in Rounds \ {i} PROVE Round(j)'
  <2>1. ASSUME NEW g \in Hosts
        PROVE  /\ Place(g, j)' = Place(g, j) /\ ListOf(g, j)' = ListOf(g, j)
               /\ comm'[g] = j => /\ comm[g] = j /\ oms'[g] = oms[g] /\ pc'[g] = pc[g]
                                  /\ data'[g] = data[g]
    <3>1. CASE g = h
      BY <1>1, <1>3, <3>1 DEF Place, ListOf, Rounds
    <3>2. CASE g # h
      BY <1>3, <3>2 DEF Place, ListOf
    <3> QED
      BY <3>1, <3>2
  <2> QED
    BY <1>3, <2>1, RoundFrame DEF Link
<1>5. Place(h, i)' = p /\ ListOf(h, i)' = CallsOf(h, i, bs)
  BY <1>1, <1>3 DEF Place, ListOf, Rounds
<1>6. /\ \A g \in Hosts : Lacking(g, i)' = Lacking(g, i)
      /\ \A e : Crowded(i, e)' = Crowded(i, e)
      /\ \A g \in Hosts : \A as : CallsOf(g, i, as)' = CallsOf(g, i, as)
  BY <1>3, Same
<1>7. Sound(i) /\ S \subseteq Lacking(h, i) => Sound(i)'
  BY <1>3, <1>6 DEF Sound
<1>8. \A g \in Hosts : \A as, R : Resolved(g, i, as, R) /\ R \subseteq oms'[g] => Settled(g, i, as)'
  BY <1>3, <1>6 DEF Settled, Resolved
<1>9. \A g \in Hosts : oms[g] \subseteq oms'[g]
  BY <1>3
<1>10. \A g \in Hosts : \A as : Settled(g, i, as) => Settled(g, i, as)'
  <2> SUFFICES ASSUME NEW g \in Hosts, NEW as, Settled(g, i, as) PROVE Settled(g, i, as)'
    OBVIOUS
  <2>1. CASE comm[g] = i
    <3>1. Resolved(g, i, as, oms[g])
      BY <2>1 DEF Settled
    <3> QED
      BY <1>8, <1>9, <3>1
  <2>2. CASE comm[g] # i
    BY <1>3, <2>2 DEF Settled
  <2> QED
    BY <2>1, <2>2
<1>11. \A as : Resolved(h, i, as, oms[h] \cup S) => Settled(h, i, as)'
  BY <1>3, <1>8
<1>12. \A q : Tail(chan[i][h]) = q /\ Resolved(h, i, bs, oms[h] \cup S) => End(h, i, p, bs, q)'
  BY <1>5, <1>6, <1>11 DEF End, Moves
<1>13. ASSUME NEW p0, NEW as, NEW q, End(Other(h), i, p0, as, q)
       PROVE  End(Other(h), i, p0, as, q \o msgs)'
  <2> PICK g \in Hosts : g = Other(h) /\ g # h
    BY HostsType
  <2>1. Place(g, i)' = Place(g, i) /\ ListOf(g, i)' = ListOf(g, i)
    BY <1>3 DEF Place, ListOf
  <2>2. chan'[i][g] = q \o msgs
    BY <1>13 DEF Moves, End
  <2>3. End(g, i, p0, as, q \o msgs)'
    BY <1>6, <1>10, <1>13, <2>1, <2>2 DEF End
  <2> QED
    BY <2>3
<1> QED
  BY <1>3, <1>4, <1>7, <1>10, <1>11, <1>12, <1>13

\* A host that goes on to the calls for bs,
LEMMA Continues ==
    ASSUME Types, NEW i \in Rounds, NEW h \in Hosts, comm[h] = i, pc[h] # "returned",
           NEW bs \in Seq(Block), NEW msgs \in Seq(Message), NEW cs, cs = CallsOf(h, i, bs),
           Continue(h, msgs, cs), NEW all, all = msgs \o Asks(h, i, bs),
           NEW p, p = IF bs = <<>> THEN "post" ELSE "info",
           NEW S, oms' = [oms EXCEPT ![h] = oms[h] \cup S],
           UNCHANGED <<data, comm, history, agent, pos>>
    PROVE  Moves(h, i, p, bs, all, S)
<1>1. cs = <<>> <=> bs = <<>>
  BY CallsOfIs
<1>2. Answer(h, all) /\ pc' = [pc EXCEPT ![h] = p] /\ calls' = [calls EXCEPT ![h] = cs]
  <2>1. CASE bs = <<>>
    <3>1. all = msgs
      <4>1. msgs \o <<>> = msgs
        OBVIOUS
      <4> QED
        BY <2>1, <4>1 DEF Asks
    <3> QED
      BY <1>1, <2>1, <3>1 DEF Continue, Goto
  <2>2. CASE bs # <<>>
    <3>1. Head(cs) = CallOf(h, i, Head(bs))
      BY <2>2, CallsOfTail
    <3>2. Asks(h, i, bs) = <<Info(h, Head(cs))>>
      BY <2>2, <3>1, Zenon DEF Asks, InfoOf
    <3>3. all = msgs \o <<Info(h, Head(cs))>>
      BY <3>2, Zenon
    <3> QED
      BY <1>1, <2>2, <3>3 DEF Continue, Goto
  <2> QED
    BY <2>1, <2>2
<1>3. /\ chan'[i][h] = Tail(chan[i][h]) /\ chan'[i][Other(h)] = chan[i][Other(h)] \o all
      /\ \A j \in Rounds \ {i} : chan'[j] = chan[j]
  BY <1>2, AnswerStreams DEF Types
<1> QED
  BY <1>2, <1>3 DEF Moves, history

\* and one that answers in its call,
LEMMA Answers ==
    ASSUME Types, NEW i \in Rounds, NEW h \in Hosts, comm[h] = i, pc[h] # "returned",
           NEW bs \in Seq(Block), calls[h] = CallsOf(h, i, bs), UNCHANGED calls,
           NEW msgs, Answer(h, msgs), NEW p, Goto(h, p),
           NEW S, oms' = [oms EXCEPT ![h] = oms[h] \cup S],
           UNCHANGED <<data, comm, history, agent, pos>>
    PROVE  Moves(h, i, p, bs, msgs, S)
<1>1. /\ chan'[i][h] = Tail(chan[i][h]) /\ chan'[i][Other(h)] = chan[i][Other(h)] \o msgs
      /\ \A j \in Rounds \ {i} : chan'[j] = chan[j]
  BY AnswerStreams DEF Types
<1>2. calls' = [calls EXCEPT ![h] = CallsOf(h, i, bs)]
  BY DEF Types, TypeOK
<1> QED
  BY <1>1, <1>2 DEF Moves, history, Goto

\* or does not.
LEMMA Reads ==
    ASSUME Types, NEW i \in Rounds, NEW h \in Hosts, comm[h] = i, pc[h] # "returned",
           NEW bs \in Seq(Block), calls[h] = CallsOf(h, i, bs), UNCHANGED calls,
           Receive(h), NEW p, Goto(h, p),
           NEW S, oms' = [oms EXCEPT ![h] = oms[h] \cup S],
           UNCHANGED <<data, comm, history, agent, pos>>
    PROVE  Moves(h, i, p, bs, <<>>, S)
<1>1. /\ chan'[i][h] = Tail(chan[i][h]) /\ chan'[i][Other(h)] = chan[i][Other(h)]
      /\ \A j \in Rounds \ {i} : chan'[j] = chan[j]
  BY ReceiveStreams DEF Types
<1>2. chan[i][Other(h)] \o <<>> = chan[i][Other(h)]
  <2>1. chan[i][Other(h)] \in Seq(Message)
    BY HostsType DEF Types, TypeOK, HostsTypeOK
  <2> QED
    BY <2>1
<1>3. calls' = [calls EXCEPT ![h] = CallsOf(h, i, bs)]
  BY DEF Types, TypeOK
<1> QED
  BY <1>1, <1>2, <1>3 DEF Moves, history, Goto

(***************************************************************************)
(* Where a host with something to read is.                                 *)
(***************************************************************************)
\* A host is where its program counter says.
LEMMA Here ==
    ASSUME Types, Link, NEW h \in Hosts, pc[h] # "returned"
    PROVE  /\ comm[h] \in Rounds /\ Round(comm[h])
           /\ Place(h, comm[h]) = pc[h] /\ ListOf(h, comm[h]) = calls[h]
<1>1. comm[h] \in Rounds /\ comm[h] \in Int
  BY HostsAssumption DEF Types, TypeOK, HostsTypeOK, Rounds
<1> QED
  BY <1>1 DEF Place, ListOf, Link

\* Before the decision no host is in a call.
LEMMA InCallDecided ==
    ASSUME NEW i \in Rounds, NEW h \in Hosts, Round(i), Place(h, i) \in InCall \cup {"post"}
    PROVE  Decided(i)
BY DEF Round, Undecided, Idle, ModSent, ModFine, ParamsSent, At, InCall, Hosts

\* An end that has something to read, of a host that waits at l.
LEMMA Ends ==
    ASSUME NEW i \in Rounds, NEW h \in Hosts, NEW l, l # "quit", l # "post",
           Place(h, i) = l, chan[i][h] # <<>>
    PROVE  /\ \A p, as, q : End(h, i, p, as, q) =>
                 p = l /\ q # <<>> /\ ListOf(h, i) = CallsOf(h, i, as)
           /\ \A as, q : Ahead(h, i, as, q) => l = "info" /\ q # <<>> /\ as # <<>>
BY DEF End, Ahead, Onward

\* At the declarations,
LEMMA AtInfo ==
    ASSUME NEW i \in Rounds, NEW h \in Hosts, NEW bs \in Seq(Block), Blocks(i, bs),
           Place(h, i) = "info", chan[i][h] # <<>>,
           NEW b, b = Head(bs), NEW rest, rest = Tail(bs), NEW o \in Hosts, o = Other(h)
    PROVE  /\ bs # <<>>
           /\ \/ Level(i, bs)
              \/ Skipped(o, i, bs, b, rest)
              \/ /\ Has(o, i, b) /\ ~Has(h, i, b) /\ Ahead(o, i, rest, <<>>)
                 /\ End(h, i, "info", bs,
                        <<InfoOf(o, i, b)>> \o (<<AllOf(o, i, b)>> \o Asks(o, i, rest)))
              \/ /\ Has(h, i, b) /\ ~Has(o, i, b)
                 /\ End(h, i, "info", bs, <<InfoOf(o, i, b)>>) /\ End(o, i, "all", bs, <<>>)
              \/ /\ h = "server" /\ \A g \in Hosts : Has(g, i, b)
                 /\ End(o, i, "awaitVerdict", bs, <<>>)
                 /\ End(h, i, "info", bs, <<InfoOf(o, i, b)>> \o <<EvalsOf(i, b)>>)
              \/ /\ h = "client" /\ \A g \in Hosts : Has(g, i, b)
                 /\ End(h, i, "info", bs, <<InfoOf(o, i, b)>>)
                 /\ End(o, i, "recvEvals", bs, <<>>)
<1> DEFINE l == "info"
<1>1. /\ \A p, as, q : End(h, i, p, as, q) => p = l /\ q # <<>>
      /\ \A as, q : Ahead(h, i, as, q) => q # <<>> /\ as # <<>>
  BY Ends
<1>2. l \notin {"all", "recvEvals", "strings", "awaitParams", "awaitVerdict",
                "awaitDeltas", "awaitFlag"}
  OBVIOUS
<1>3. \/ h = "client" /\ o = "server"
      \/ h = "server" /\ o = "client"
  BY DEF Hosts, Other
<1>4. Other(o) = h
  BY <1>3 DEF Other
<1>5. ~Opened(i, bs)
  BY <1>1, <1>3 DEF Opened
<1>6. Level(i, bs) => bs # <<>>
  BY <1>1 DEF Level
<1>7. ~Parted(i, bs, b, rest) /\ ~Solved(i, bs, b, rest) /\ ~Spelled(i, bs, b, rest)
  BY <1>1, <1>2, <1>3, Zenon DEF Parted, Solved, Spelled
<1>8. Tried(i, bs, b, rest) =>
              \/ /\ h = "server" /\ \A g \in Hosts : Has(g, i, b)
                 /\ End(o, i, "awaitVerdict", bs, <<>>)
                 /\ End(h, i, "info", bs, <<InfoOf(o, i, b)>> \o <<EvalsOf(i, b)>>)
              \/ /\ h = "client" /\ \A g \in Hosts : Has(g, i, b)
                 /\ End(h, i, "info", bs, <<InfoOf(o, i, b)>>)
                 /\ End(o, i, "recvEvals", bs, <<>>)
  BY <1>1, <1>2, <1>3, Zenon DEF Tried
<1>9. \A g \in Hosts : g = h \/ g = o
  BY <1>3 DEF Hosts
<1>10. ASSUME NEW g \in Hosts, Skipped(g, i, bs, b, rest) PROVE Skipped(o, i, bs, b, rest)
  BY <1>1, <1>9, <1>10, Zenon DEF Skipped
<1>11. ASSUME NEW g \in Hosts, Given(g, i, bs, b, rest)
       PROVE  \/ /\ Has(o, i, b) /\ ~Has(h, i, b) /\ Ahead(o, i, rest, <<>>)
                 /\ End(h, i, "info", bs,
                        <<InfoOf(o, i, b)>> \o (<<AllOf(o, i, b)>> \o Asks(o, i, rest)))
              \/ /\ Has(h, i, b) /\ ~Has(o, i, b)
                 /\ End(h, i, "info", bs, <<InfoOf(o, i, b)>>) /\ End(o, i, "all", bs, <<>>)
  <2>1. CASE g = h
    BY <1>1, <1>11, <2>1, Zenon DEF Given
  <2>2. CASE g = o
    BY <1>1, <1>2, <1>4, <1>11, <2>2, Zenon DEF Given
  <2> QED
    BY <1>9, <2>1, <2>2
<1> HIDE DEF l
<1> QED
  BY <1>5, <1>6, <1>7, <1>8, <1>10, <1>11, Zenon DEF Blocks, InHand

\* at all the elements of the peer,
LEMMA AtAll ==
    ASSUME NEW i \in Rounds, NEW h \in Hosts, NEW bs \in Seq(Block), Blocks(i, bs),
           Place(h, i) = "all", chan[i][h] # <<>>,
           NEW b, b = Head(bs), NEW rest, rest = Tail(bs), NEW o \in Hosts, o = Other(h)
    PROVE  /\ bs # <<>> /\ Has(o, i, b) /\ ~Has(h, i, b) /\ Ahead(o, i, rest, <<>>)
           /\ End(h, i, "all", bs, <<AllOf(o, i, b)>> \o Asks(o, i, rest))
<1> DEFINE l == "all"
<1>1. /\ \A p, as, q : End(h, i, p, as, q) => p = l /\ q # <<>>
      /\ \A as, q : ~Ahead(h, i, as, q)
  BY Ends
<1>2. l \notin {"info", "recvEvals", "strings", "awaitParams", "awaitVerdict",
                "awaitDeltas", "awaitFlag"}
  OBVIOUS
<1>3. \/ h = "client" /\ o = "server"
      \/ h = "server" /\ o = "client"
  BY DEF Hosts, Other
<1>4. Other(o) = h /\ \A g \in Hosts : g = h \/ g = o
  BY <1>3 DEF Other, Hosts
<1>5. ~Opened(i, bs)
  BY <1>1, <1>3 DEF Opened
<1>6. ~Level(i, bs)
  BY <1>1 DEF Level
<1>7. ~Parted(i, bs, b, rest) /\ ~Solved(i, bs, b, rest) /\ ~Spelled(i, bs, b, rest)
  BY <1>1, <1>2, <1>3, Zenon DEF Parted, Solved, Spelled
<1>8. ~Tried(i, bs, b, rest)
  BY <1>1, <1>2, <1>3, Zenon DEF Tried
<1>9. ASSUME NEW g \in Hosts PROVE ~Skipped(g, i, bs, b, rest)
  BY <1>1, <1>2, <1>4, Zenon DEF Skipped
<1>10. ASSUME NEW g \in Hosts, Given(g, i, bs, b, rest)
       PROVE  /\ Has(o, i, b) /\ ~Has(h, i, b) /\ Ahead(o, i, rest, <<>>)
              /\ End(h, i, "all", bs, <<AllOf(o, i, b)>> \o Asks(o, i, rest))
  <2>1. CASE g = h
    BY <1>1, <1>2, <1>10, <2>1, Zenon DEF Given
  <2>2. CASE g = o
    BY <1>1, <1>2, <1>4, <1>10, <2>2, Zenon DEF Given
  <2> QED
    BY <1>4, <2>1, <2>2
<1> HIDE DEF l
<1> QED
  BY <1>5, <1>6, <1>7, <1>8, <1>9, <1>10, Zenon DEF Blocks, InHand

\* at the evaluations and the strings of the client,
LEMMA ServerAt ==
    ASSUME NEW i \in Rounds, NEW bs \in Seq(Block), Blocks(i, bs),
           NEW c, NEW s, c = "client", s = "server",
           Place(s, i) \in {"recvEvals", "strings"}, chan[i][s] # <<>>,
           NEW b, b = Head(bs), NEW rest, rest = Tail(bs)
    PROVE  /\ bs # <<>>
           /\ Place(s, i) = "recvEvals" =>
                 /\ \A g \in Hosts : Has(g, i, b)
                 /\ End(c, i, "awaitVerdict", bs, <<>>)
                 /\ End(s, i, "recvEvals", bs, <<EvalsOf(i, b)>>)
           /\ Place(s, i) = "strings" =>
                 /\ A.hashes /\ End(s, i, "strings", bs, <<Strings(Own(c, i, b))>>)
                 /\ \/ End(c, i, "strings", bs, <<Strings(Own(s, i, b))>>)
                    \/ End(c, i, "awaitFlag", bs, <<>>) /\ Settled(c, i, rest)
<1> PICK l : l = Place(s, i) /\ l \in {"recvEvals", "strings"}
  OBVIOUS
<1>1. /\ \A p, as, q : End(s, i, p, as, q) => p = l /\ q # <<>>
      /\ \A as, q : ~Ahead(s, i, as, q)
  BY Ends, HostsType
<1>2. l # "info" /\ l # "all"
  OBVIOUS
<1>3. c \in Hosts /\ s \in Hosts /\ Other(s) = c /\ Other(c) = s /\ \A g \in Hosts : g = s \/ g = c
  BY DEF Hosts, Other
<1>4. ~Opened(i, bs)
  BY <1>1 DEF Opened
<1>5. ~Level(i, bs)
  BY <1>1, <1>3 DEF Level
<1>6. ~Parted(i, bs, b, rest) /\ ~Solved(i, bs, b, rest)
  BY <1>1, Zenon DEF Parted, Solved
<1>7. ASSUME NEW g \in Hosts PROVE ~Skipped(g, i, bs, b, rest)
  BY <1>1, <1>2, <1>3, Zenon DEF Skipped
<1>8. ASSUME NEW g \in Hosts PROVE ~Given(g, i, bs, b, rest)
  BY <1>1, <1>2, <1>3, Zenon DEF Given
<1>9. bs # <<>> /\ (Tried(i, bs, b, rest) \/ Spelled(i, bs, b, rest))
  BY <1>4, <1>5, <1>6, <1>7, <1>8, Zenon DEF Blocks, InHand
<1>10. CASE Tried(i, bs, b, rest)
  <2>1. /\ \A g \in Hosts : Has(g, i, b)
        /\ End(c, i, "awaitVerdict", bs, <<>>) /\ End(s, i, "recvEvals", bs, <<EvalsOf(i, b)>>)
    BY <1>1, <1>2, <1>10, Zenon DEF Tried
  <2>2. l = "recvEvals"
    BY <1>1, <2>1, Zenon
  <2>3. l # "strings"
    BY <2>2
  <2> QED
    BY <1>9, <2>1, <2>2, <2>3, Zenon
<1>11. CASE Spelled(i, bs, b, rest)
  <2>1. /\ A.hashes /\ End(s, i, "strings", bs, <<Strings(Own(c, i, b))>>)
        /\ \/ End(c, i, "strings", bs, <<Strings(Own(s, i, b))>>)
           \/ End(c, i, "awaitFlag", bs, <<>>) /\ Settled(c, i, rest)
    BY <1>1, <1>2, <1>11, Zenon DEF Spelled
  <2>2. l = "strings"
    BY <1>1, <2>1, Zenon
  <2>3. l # "recvEvals"
    BY <2>2
  <2> QED
    BY <1>9, <2>1, <2>2, <2>3, Zenon
<1> QED
  BY <1>9, <1>10, <1>11

\* and where the client is after its evaluations.
LEMMA ClientAt ==
    ASSUME NEW i \in Rounds, NEW bs \in Seq(Block), Blocks(i, bs),
           NEW c, NEW s, c = "client", s = "server",
           Place(c, i) \in {"awaitVerdict", "awaitDeltas", "strings", "awaitFlag"},
           chan[i][c] # <<>>,
           NEW b, b = Head(bs), NEW rest, rest = Tail(bs)
    PROVE  /\ bs # <<>> /\ ListOf(c, i) = CallsOf(c, i, bs)
           /\ Parted(i, bs, b, rest) \/ Solved(i, bs, b, rest) \/ Spelled(i, bs, b, rest)
<1> PICK l : l = Place(c, i) /\ l \in {"awaitVerdict", "awaitDeltas", "strings", "awaitFlag"}
  OBVIOUS
<1>1. /\ \A p, as, q : End(c, i, p, as, q) => p = l /\ q # <<>> /\ ListOf(c, i) = CallsOf(c, i, as)
      /\ \A as, q : ~Ahead(c, i, as, q)
  BY Ends, HostsType
<1>2. l # "info" /\ l # "all" /\ l # "awaitParams" /\ l # "quit"
  OBVIOUS
<1>3. c \in Hosts /\ s \in Hosts /\ Other(s) = c /\ Other(c) = s /\ \A g \in Hosts : g = s \/ g = c
  BY DEF Hosts, Other
<1>4. ~Opened(i, bs)
  BY <1>2 DEF Opened
<1>5. ~Level(i, bs)
  BY <1>1, <1>3 DEF Level
<1>6. ~Tried(i, bs, b, rest)
  BY <1>1, <1>2, Zenon DEF Tried
<1>7. ASSUME NEW g \in Hosts PROVE ~Skipped(g, i, bs, b, rest)
  BY <1>1, <1>2, <1>3, Zenon DEF Skipped
<1>8. ASSUME NEW g \in Hosts PROVE ~Given(g, i, bs, b, rest)
  BY <1>1, <1>2, <1>3, Zenon DEF Given
<1>9. /\ bs # <<>>
      /\ Parted(i, bs, b, rest) \/ Solved(i, bs, b, rest) \/ Spelled(i, bs, b, rest)
  BY <1>4, <1>5, <1>6, <1>7, <1>8, Zenon DEF Blocks, InHand
<1>10. ListOf(c, i) = CallsOf(c, i, bs)
  BY <1>1, <1>9, Zenon DEF Parted, Solved, Spelled
<1> QED
  BY <1>9, <1>10

\* A host that is done has learned what it lacks but for what is lost.
LEMMA AtPost ==
    ASSUME NEW i \in Rounds, NEW h \in Hosts, NEW bs \in Seq(Block), Blocks(i, bs),
           Place(h, i) = "post"
    PROVE  ListOf(h, i) = CallsOf(h, i, <<>>) /\ Settled(h, i, <<>>)
<1> DEFINE l == "post"
           b == Head(bs)
           rest == Tail(bs)
           Goal == ListOf(h, i) = CallsOf(h, i, <<>>) /\ Settled(h, i, <<>>)
<1>1. /\ \A p, as, q : End(h, i, p, as, q) => p = l
      /\ \A as, q : Ahead(h, i, as, q) => Goal
  <2>1. ASSUME NEW as, NEW q, Ahead(h, i, as, q) PROVE Goal
    <3>1. as = <<>>
      BY <2>1 DEF Ahead, End, Onward
    <3> QED
      BY <2>1, <3>1 DEF Ahead, End, Onward
  <2> QED
    BY <2>1 DEF End
<1>2. l \notin {"info", "all", "recvEvals", "strings", "awaitParams", "awaitVerdict",
                "awaitDeltas", "awaitFlag", "quit"}
  OBVIOUS
<1>3. /\ "client" \in Hosts /\ "server" \in Hosts
      /\ \A g \in Hosts : Other(g) \in Hosts /\ Other(Other(g)) = g
  BY HostsType
<1>4. h = "client" \/ h = "server"
  BY DEF Hosts
<1>5. \A g \in Hosts : g = h \/ g = Other(h)
  BY DEF Hosts, Other
<1> HIDE DEF b, rest, Goal
<1>6. Opened(i, bs) => Goal
  BY <1>1, <1>2, <1>4 DEF Opened
<1>7. Level(i, bs) => Goal
  BY <1>1 DEF Level
<1>8. Parted(i, bs, b, rest) \/ Solved(i, bs, b, rest) \/ Spelled(i, bs, b, rest) => Goal
  BY <1>1, <1>2, <1>4, Zenon DEF Parted, Solved, Spelled
<1>9. Tried(i, bs, b, rest) => Goal
  BY <1>1, <1>2, <1>4, Zenon DEF Tried
<1>10. ASSUME NEW g \in Hosts PROVE Skipped(g, i, bs, b, rest) => Goal
  BY <1>1, <1>2, <1>3, <1>5, Zenon DEF Skipped
<1>11. ASSUME NEW g \in Hosts PROVE Given(g, i, bs, b, rest) => Goal
  BY <1>1, <1>2, <1>3, <1>5, Zenon DEF Given
<1>12. Goal
  BY <1>6, <1>7, <1>8, <1>9, <1>10, <1>11, Zenon DEF Blocks, InHand, b, rest
<1> QED
  BY <1>12 DEF Goal

(***************************************************************************)
(* What the messages say of a block.                                       *)
(***************************************************************************)
\* What is sent of a block are messages; a declaration says whether the host has
\* something.
LEMMA BlockMessages ==
    ASSUME Types, NEW i \in Rounds, NEW b \in Block
    PROVE  /\ \A h \in Hosts : /\ InfoOf(h, i, b) \in Message /\ AllOf(h, i, b) \in Message
                               /\ InfoOf(h, i, b).ok = Has(h, i, b)
                               /\ Strings(Own(h, i, b)) \in Message
           /\ EvalsOf(i, b) \in Message /\ DeltasOf(i, b) \in Message
<1>1. \A h \in Hosts : CallOf(h, i, b) \in Call
  BY CallOfType
<1>2. \A h \in Hosts : Content(h, i, b.at) \in SUBSET Elem
  BY DEF Content, Types, TypeOK, HostsTypeOK
<1>3. \A h \in Hosts : InfoOf(h, i, b) \in Message
  BY <1>1, MessageTypes DEF InfoOf
<1>4. \A h \in Hosts : InfoOf(h, i, b).ok = Has(h, i, b)
  BY DEF InfoOf, Info, Has
<1>5. \A h \in Hosts : AllOf(h, i, b) \in Message
  BY <1>2, MessageTypes DEF AllOf, AllMsg
<1>6. EvalsOf(i, b) \in Message
  BY <1>2, MessageTypes, HostsType DEF EvalsOf, EvalsMsg
<1>7. \A h \in Hosts : Own(h, i, b) \in SUBSET Elem
  BY <1>2, HostsType DEF Own
<1>8. \A h \in Hosts : Strings(Own(h, i, b)) \in Message
  BY <1>7, MessageTypes DEF Strings
<1>9. DeltasOf(i, b) \in Message
  BY <1>7, MessageTypes, HostsType DEF DeltasOf, DeltasMsg
<1> QED
  BY <1>3, <1>4, <1>5, <1>6, <1>8, <1>9

\* The declaration of the next block.
LEMMA AsksType ==
    ASSUME Types, NEW i \in Rounds, NEW h \in Hosts, NEW bs \in Seq(Block)
    PROVE  /\ Asks(h, i, bs) \in Seq(Message)
           /\ bs # <<>> => Asks(h, i, bs) = <<InfoOf(h, i, Head(bs))>>
<1>1. CASE bs = <<>>
  <2>1. <<>> \in Seq(Message)
    OBVIOUS
  <2> QED
    BY <1>1, <2>1, Zenon DEF Asks
<1>2. CASE bs # <<>>
  <2>1. Head(bs) \in Block
    BY <1>2, CallsOfTail
  <2>2. InfoOf(h, i, Head(bs)) \in Message
    BY <2>1, BlockMessages
  <2> PICK x \in Message : x = InfoOf(h, i, Head(bs))
    BY <2>2
  <2>3. <<x>> \in Seq(Message)
    OBVIOUS
  <2> QED
    BY <1>2, <2>3, Zenon DEF Asks
<1> QED
  BY <1>1, <1>2

\* A host that says that it has nothing has nothing.
LEMMA HasNothing ==
    ASSUME NEW i \in Rounds, NEW h \in Hosts, NEW b, Good(i, b), ~Has(h, i, b)
    PROVE  Content(h, i, b.at) = {}
BY DEF Good, Has, SomeInfo, CallOf, Hosts

\* What a host lacks at the positions of a block is what the other has there, and not
\* the host.
LEMMA LackingIs ==
    ASSUME NEW i \in Rounds, NEW h \in Hosts, NEW o \in Hosts, o = Other(h), NEW b
    PROVE  /\ Own(o, i, b) \subseteq Lacking(h, i)
           /\ \A e \in Lacking(h, i) : pos[e] \in b.at => e \in Own(o, i, b)
           /\ Content(h, i, b.at) = {} => Own(o, i, b) = Content(o, i, b.at)
           /\ Content(o, i, b.at) = {} => \A e \in Lacking(h, i) : pos[e] \notin b.at
<1>1. Other(o) = h
  BY HostsType
<1> QED
  BY <1>1 DEF Own, Lacking, Content

(***************************************************************************)
(* A step in a call, and the phase after it.                               *)
(***************************************************************************)
\* A host with a message to read in a call.
LEMMA Calling ==
    ASSUME Types, Link, NEW h \in Hosts, NEW i, i = comm[h], pc[h] \in InCall, Incoming(h) # <<>>
    PROVE  /\ i \in Rounds /\ pc[h] # "returned" /\ Decided(i)
           /\ Place(h, i) = pc[h] /\ ListOf(h, i) = calls[h]
           /\ chan[i][h] # <<>> /\ Incoming(h) = chan[i][h]
<1>1. pc[h] # "returned"
  BY DEF InCall
<1> QED
  BY <1>1, Here, InCallDecided DEF Incoming

\* Its current call and those that follow.
LEMMA FirstBlock ==
    ASSUME Types, NEW h \in Hosts, NEW i \in Rounds, NEW bs \in Seq(Block), bs # <<>>,
           Blocks(i, bs), calls[h] = CallsOf(h, i, bs)
    PROVE  /\ Head(bs) \in Block /\ Tail(bs) \in Seq(Block) /\ Good(i, Head(bs))
           /\ \A n \in 1..Len(Tail(bs)) : Good(i, Tail(bs)[n])
           /\ Node(h) = CallOf(h, i, Head(bs)) /\ Tail(calls[h]) = CallsOf(h, i, Tail(bs))
           /\ SomeInfo(h, Node(h)) = Has(h, i, Head(bs))
           /\ Node(h).set = Content(h, i, Head(bs).at)
<1>1. PICK b, rest : b = Head(bs) /\ rest = Tail(bs)
  OBVIOUS
<1>2. /\ b \in Block /\ rest \in Seq(Block)
      /\ Node(h) = CallOf(h, i, b) /\ Tail(calls[h]) = CallsOf(h, i, rest)
  BY <1>1, CallsOfTail DEF Node
<1>3. \A n \in 1..Len(bs) : Good(i, bs[n])
  BY DEF Blocks
<1>4. /\ b = bs[1] /\ Len(bs) \in Nat \ {0} /\ Len(rest) = Len(bs) - 1
      /\ \A n \in 1..Len(bs) - 1 : rest[n] = bs[n + 1]
  BY <1>1
<1>5. Good(i, b)
  BY <1>3, <1>4
<1>6. ASSUME NEW n \in 1..Len(rest) PROVE Good(i, rest[n])
  <2>1. n \in 1..Len(bs) - 1 /\ n + 1 \in 1..Len(bs)
    BY <1>4
  <2> QED
    BY <1>3, <1>4, <2>1
<1>7. Node(h).set = Content(h, i, b.at)
  BY <1>2 DEF CallOf
<1>8. SomeInfo(h, Node(h)) = Has(h, i, b)
  BY <1>2 DEF Has
<1> QED
  BY <1>1, <1>2, <1>5, <1>6, <1>7, <1>8, Zenon

\* The round is in one of its phases after the step, with blocks as.
LEMMA Concludes ==
    ASSUME Types, Link, NEW i \in Rounds, NEW h \in Hosts, NEW bs, NEW msgs, NEW S,
           NEW p, p \notin {"returned", "connecting", "listening"}, Moves(h, i, p, bs, msgs, S),
           Decided(i), S \subseteq Lacking(h, i)
    PROVE  \A as \in Seq(Block) :
              /\ \A n \in 1..Len(as) : Good(i, as[n])
              /\ Level(i, as)' \/ (as # <<>> /\ InHand(i, as, Head(as), Tail(as))')
              => Link'
<1> SUFFICES ASSUME NEW as \in Seq(Block), \A n \in 1..Len(as) : Good(i, as[n]),
                    Level(i, as)' \/ (as # <<>> /\ InHand(i, as, Head(as), Tail(as))')
             PROVE  Link'
  OBVIOUS
<1>1. /\ \A j \in Rounds \ {i} : Round(j)'
      /\ verdict'[i] = verdict[i] /\ base'[i] = base[i] /\ UNCHANGED <<agent, pos>>
      /\ Sound(i) /\ S \subseteq Lacking(h, i) => Sound(i)'
  BY Moved
<1>2. \A n \in 1..Len(as) : Good(i, as[n])'
  BY <1>1, Same
<1>3. Blocks(i, as)'
  BY <1>2 DEF Blocks
<1>4. Decided(i)'
  BY <1>1, <1>3 DEF Decided
<1>5. Round(i)'
  BY <1>4 DEF Round
<1>6. \A j \in Rounds : Round(j)'
  BY <1>1, <1>5
<1> QED
  BY <1>6 DEF Link

(***************************************************************************)
(* The declarations.                                                       *)
(***************************************************************************)
\* It never returns from there by itself.
LEMMA OnwardIs ==
    \A bs : Onward(bs) \notin {"returned", "connecting", "listening"}
BY DEF Onward

\* Nothing learned.
LEMMA NothingNew ==
    ASSUME Types, NEW h \in Hosts
    PROVE  /\ UNCHANGED oms => oms' = [oms EXCEPT ![h] = oms[h] \cup {}]
           /\ \A S : S \cup {} = S
BY DEF Types, TypeOK, HostsTypeOK

\* What a host does with a declaration.
LEMMA InfoMoves ==
    ASSUME Types, Link, NEW h \in Hosts, ReceiveInfo(h),
           NEW i \in Rounds, i = comm[h], NEW bs \in Seq(Block), bs # <<>>, Blocks(i, bs),
           calls[h] = CallsOf(h, i, bs), Head(Incoming(h)).ok = Has(Other(h), i, Head(bs))
    PROVE  \/ /\ ~Has(h, i, Head(bs)) /\ ~Has(Other(h), i, Head(bs))
              /\ Moves(h, i, Onward(Tail(bs)), Tail(bs), Asks(h, i, Tail(bs)), {})
           \/ /\ Has(h, i, Head(bs)) /\ ~Has(Other(h), i, Head(bs))
              /\ Moves(h, i, Onward(Tail(bs)), Tail(bs),
                       <<AllOf(h, i, Head(bs))>> \o Asks(h, i, Tail(bs)), {})
           \/ /\ ~Has(h, i, Head(bs)) /\ Has(Other(h), i, Head(bs))
              /\ Moves(h, i, "all", bs, <<>>, {})
           \/ /\ Has(h, i, Head(bs)) /\ Has(Other(h), i, Head(bs)) /\ h = "client"
              /\ Moves(h, i, "awaitVerdict", bs, <<EvalsOf(i, Head(bs))>>, {})
           \/ /\ Has(h, i, Head(bs)) /\ Has(Other(h), i, Head(bs)) /\ h = "server"
              /\ Moves(h, i, "recvEvals", bs, <<>>, {})
<1> DEFINE b == Head(bs)
           rest == Tail(bs)
           o == Other(h)
           theirs == Head(Incoming(h)).ok
<1>1. /\ b \in Block /\ rest \in Seq(Block) /\ Tail(calls[h]) = CallsOf(h, i, rest)
      /\ SomeInfo(h, Node(h)) = Has(h, i, b) /\ Node(h).set = Content(h, i, b.at)
  BY FirstBlock
<1>15. o \in Hosts /\ theirs = Has(o, i, b)
  BY HostsType
<1> HIDE DEF b, rest, o
<1>2. /\ oms' = [oms EXCEPT ![h] = oms[h] \cup {}]
      /\ UNCHANGED <<data, comm, history, agent, pos>>
      /\ pc[h] # "returned"
  BY NothingNew DEF ReceiveInfo
<1>3. PICK r \in Seq(Message), x \in Message, y \in Message :
        r = Asks(h, i, rest) /\ x = AllOf(h, i, b) /\ y = EvalsOf(i, b)
  <2>1. AllOf(h, i, b) \in Message /\ EvalsOf(i, b) \in Message
    BY <1>1, BlockMessages
  <2>2. Asks(h, i, rest) \in Seq(Message)
    BY <1>1, AsksType
  <2> QED
    BY <2>1, <2>2, Zenon
<1>4. /\ <<>> \in Seq(Message) /\ <<>> \o r = r /\ <<x>> \in Seq(Message)
  BY Streams
<1>5. PICK cs : cs = CallsOf(h, i, rest)
  OBVIOUS
<1>6. PICK p : p = Onward(rest)
  OBVIOUS
<1>7. PICK m1, m2 : m1 = SomeInfo(h, Node(h)) /\ m2 = theirs
  OBVIOUS
<1>8. \/ Nothing(m1, m2) /\ Continue(h, <<>>, cs)
      \/ m1 /\ ~m2 /\ Continue(h, <<x>>, cs)
      \/ ~m1 /\ m2 /\ Goto(h, "all") /\ Receive(h) /\ UNCHANGED calls
      \/ m1 /\ m2 /\ h = "client" /\ Goto(h, "awaitVerdict") /\ Answer(h, <<y>>) /\ UNCHANGED calls
      \/ m1 /\ m2 /\ h = "server" /\ Goto(h, "recvEvals") /\ Receive(h) /\ UNCHANGED calls
  <2>1. y = [type |-> "evals", set |-> Node(h).set] \/ h # "client"
    BY <1>1, <1>3, Zenon DEF EvalsOf, EvalsMsg
  <2>2. x = [type |-> "all", set |-> Node(h).set]
    BY <1>1, <1>3, Zenon DEF AllOf, AllMsg
  <2>3. \/ Nothing(m1, m2) /\ Continue(h, <<>>, Tail(calls[h]))
        \/ m1 /\ ~m2 /\ Continue(h, <<[type |-> "all", set |-> Node(h).set]>>, Tail(calls[h]))
        \/ ~m1 /\ m2 /\ Goto(h, "all") /\ Receive(h) /\ UNCHANGED <<open, calls>>
        \/ m1 /\ m2 /\ h = "client" /\ Goto(h, "awaitVerdict")
              /\ Answer(h, <<[type |-> "evals", set |-> Node(h).set]>>) /\ UNCHANGED <<open, calls>>
        \/ m1 /\ m2 /\ h = "server" /\ Goto(h, "recvEvals") /\ Receive(h) /\ UNCHANGED <<open, calls>>
    BY <1>7, Zenon DEF ReceiveInfo
  <2>4. UNCHANGED <<open, calls>> => UNCHANGED calls
    OBVIOUS
  <2> QED
    BY <1>1, <1>5, <2>1, <2>2, <2>3, <2>4, Zenon
<1>9. Continue(h, <<>>, cs) => Moves(h, i, p, rest, r, {})
  <2> SUFFICES ASSUME Continue(h, <<>>, cs) PROVE Moves(h, i, p, rest, r, {})
    OBVIOUS
  <2>1. r = <<>> \o Asks(h, i, rest)
    BY <1>3, <1>4, Zenon
  <2>2. p = IF rest = <<>> THEN "post" ELSE "info"
    BY <1>6 DEF Onward
  <2> QED
    BY <1>1, <1>2, <1>4, <1>5, <2>1, <2>2, Continues
<1>10. Continue(h, <<x>>, cs) => Moves(h, i, p, rest, <<x>> \o r, {})
  <2> SUFFICES ASSUME Continue(h, <<x>>, cs) PROVE Moves(h, i, p, rest, <<x>> \o r, {})
    OBVIOUS
  <2>1. PICK all : all = <<x>> \o r
    OBVIOUS
  <2>2. all = <<x>> \o Asks(h, i, rest)
    BY <1>3, <2>1, Zenon
  <2>3. p = IF rest = <<>> THEN "post" ELSE "info"
    BY <1>6 DEF Onward
  <2>4. Moves(h, i, p, rest, all, {})
    BY <1>1, <1>2, <1>4, <1>5, <2>2, <2>3, Continues
  <2> QED
    BY <2>1, <2>4, Zenon
<1>11. Goto(h, "all") /\ Receive(h) /\ UNCHANGED calls => Moves(h, i, "all", bs, <<>>, {})
  BY <1>2, Reads
<1>12. Goto(h, "recvEvals") /\ Receive(h) /\ UNCHANGED calls
         => Moves(h, i, "recvEvals", bs, <<>>, {})
  BY <1>2, Reads
<1>13. Goto(h, "awaitVerdict") /\ Answer(h, <<y>>) /\ UNCHANGED calls
         => Moves(h, i, "awaitVerdict", bs, <<y>>, {})
  BY <1>2, Answers
<1>14. m1 = Has(h, i, b) /\ m2 = Has(o, i, b)
  BY <1>1, <1>7, <1>15, Zenon
<1> QED
  BY <1>3, <1>6, <1>8, <1>9, <1>10, <1>11, <1>12, <1>13, <1>14, Zenon DEF Nothing, b, rest, o

\* Both ends after such a step.
LEMMA After ==
    ASSUME Types, Link, NEW i \in Rounds, NEW h \in Hosts, NEW o \in Hosts, o = Other(h),
           NEW bs, NEW msgs, NEW S, NEW p, p \notin {"returned", "connecting", "listening"},
           Moves(h, i, p, bs, msgs, S), NEW q, Tail(chan[i][h]) = q,
           Resolved(h, i, bs, oms[h] \cup S),
           NEW p0, NEW as, NEW q0, End(o, i, p0, as, q0), NEW r, r = q0 \o msgs
    PROVE  End(h, i, p, bs, q)' /\ End(o, i, p0, as, r)'
<1>1. /\ \A x : Tail(chan[i][h]) = x /\ Resolved(h, i, bs, oms[h] \cup S)
                        => End(h, i, p, bs, x)'
      /\ \A x, y, z : End(Other(h), i, x, y, z) => End(Other(h), i, x, y, z \o msgs)'
  BY Moved
<1> QED
  BY <1>1, Zenon

\* A declaration is read.
LEMMA InfoStays ==
    ASSUME Types, Link, NEW h \in Hosts, ReceiveInfo(h)
    PROVE  Link'
<1>1. PICK i : i = comm[h]
  OBVIOUS
<1>2. pc[h] = "info" /\ Incoming(h) # <<>> /\ pc[h] \in InCall
  BY DEF ReceiveInfo, Receives, InCall
<1>3. /\ i \in Rounds /\ Decided(i) /\ Place(h, i) = "info" /\ ListOf(h, i) = calls[h]
      /\ chan[i][h] # <<>> /\ Incoming(h) = chan[i][h]
  BY <1>1, <1>2, Calling
<1>4. PICK bs \in Seq(Block) : Blocks(i, bs)
  BY <1>3 DEF Decided
<1> DEFINE b == Head(bs)
           rest == Tail(bs)
           o == Other(h)
<1>5. b = Head(bs) /\ rest = Tail(bs)
  OBVIOUS
<1>6. o \in Hosts /\ o = Other(h) /\ Other(o) = h /\ \A g \in Hosts : g = h \/ g = o
  BY DEF Hosts, Other
<1>7. /\ bs # <<>>
      /\ \/ Level(i, bs)
         \/ Skipped(o, i, bs, b, rest)
         \/ /\ Has(o, i, b) /\ ~Has(h, i, b) /\ Ahead(o, i, rest, <<>>)
            /\ End(h, i, "info", bs,
                   <<InfoOf(o, i, b)>> \o (<<AllOf(o, i, b)>> \o Asks(o, i, rest)))
         \/ /\ Has(h, i, b) /\ ~Has(o, i, b)
            /\ End(h, i, "info", bs, <<InfoOf(o, i, b)>>) /\ End(o, i, "all", bs, <<>>)
         \/ /\ h = "server" /\ \A g \in Hosts : Has(g, i, b)
            /\ End(o, i, "awaitVerdict", bs, <<>>)
            /\ End(h, i, "info", bs, <<InfoOf(o, i, b)>> \o <<EvalsOf(i, b)>>)
         \/ /\ h = "client" /\ \A g \in Hosts : Has(g, i, b)
            /\ End(h, i, "info", bs, <<InfoOf(o, i, b)>>)
            /\ End(o, i, "recvEvals", bs, <<>>)
  BY <1>3, <1>4, <1>5, <1>6, AtInfo

\* What the messages are.
<1>8. b \in Block /\ rest \in Seq(Block)
  BY <1>7, CallsOfTail
<1> HIDE DEF b, rest, o
<1>9. PICK x \in Message, y \in Message, z \in Message, u \in Message, v \in Message,
           rh \in Seq(Message), ro \in Seq(Message) :
        /\ x = InfoOf(h, i, b) /\ y = InfoOf(o, i, b) /\ z = AllOf(h, i, b) /\ u = AllOf(o, i, b)
        /\ v = EvalsOf(i, b) /\ rh = Asks(h, i, rest) /\ ro = Asks(o, i, rest)
        /\ y.ok = Has(o, i, b)
  <2>1. /\ InfoOf(h, i, b) \in Message /\ InfoOf(o, i, b) \in Message
        /\ AllOf(h, i, b) \in Message /\ AllOf(o, i, b) \in Message
        /\ EvalsOf(i, b) \in Message /\ InfoOf(o, i, b).ok = Has(o, i, b)
    BY <1>3, <1>6, <1>8, BlockMessages
  <2>2. Asks(h, i, rest) \in Seq(Message) /\ Asks(o, i, rest) \in Seq(Message)
    BY <1>3, <1>6, <1>8, AsksType
  <2> QED
    BY <2>1, <2>2, Zenon
<1>10. /\ Tail(<<y>>) = <<>> /\ Head(<<y>>) = y
       /\ Head(<<y>> \o (<<u>> \o ro)) = y /\ Tail(<<y>> \o (<<u>> \o ro)) = <<u>> \o ro
       /\ Head(<<y>> \o <<v>>) = y /\ Tail(<<y>> \o <<v>>) = <<v>>
       /\ Head(<<y>> \o ro) = y /\ Tail(<<y>> \o ro) = ro
       /\ <<>> \o rh = rh /\ <<>> \o (<<z>> \o rh) = <<z>> \o rh
       /\ <<>> \o <<>> = <<>> /\ <<x>> \o <<>> = <<x>> /\ <<>> \o <<v>> = <<v>>
  <2>1. <<u>> \o ro \in Seq(Message) /\ <<v>> \in Seq(Message) /\ <<z>> \o rh \in Seq(Message)
        /\ <<>> \in Seq(Message) /\ <<x>> \in Seq(Message)
    BY Streams
  <2>2. /\ Tail(<<y>>) = <<>> /\ Head(<<y>>) = y /\ <<x>> \o <<>> = <<x>>
        /\ \A q \in Seq(Message) : Head(<<y>> \o q) = y /\ Tail(<<y>> \o q) = q /\ <<>> \o q = q
    BY <2>1, Streams
  <2> QED
    BY <2>1, <2>2, Zenon

\* The forms of End(h, ...).
<1>11. Level(i, bs) => End(h, i, "info", bs, <<y>>) /\ End(o, i, "info", bs, <<x>>)
  <2>1. Asks(o, i, bs) = <<InfoOf(o, i, Head(bs))>> /\ Asks(h, i, bs) = <<InfoOf(h, i, Head(bs))>>
    BY <1>3, <1>6, <1>7, AsksType
  <2>3. Asks(o, i, bs) = <<y>> /\ Asks(h, i, bs) = <<x>>
    BY <1>5, <1>9, <2>1, Zenon
  <2>2. Onward(bs) = "info"
    BY <1>7 DEF Onward
  <2> QED
    BY <1>6, <2>2, <2>3, Zenon DEF Level, Ahead
<1>12. \E q : /\ End(h, i, "info", bs, q)
              /\ q \in {<<y>>, <<y>> \o ro, <<y>> \o (<<u>> \o ro), <<y>> \o <<v>>}
  BY <1>6, <1>7, <1>9, <1>11, Zenon DEF Skipped
<1>13. /\ ListOf(h, i) = CallsOf(h, i, bs) /\ Head(chan[i][h]) = y
       /\ Resolved(h, i, bs, oms[h])
  <2> PICK q : /\ End(h, i, "info", bs, q)
               /\ q \in {<<y>>, <<y>> \o ro, <<y>> \o (<<u>> \o ro), <<y>> \o <<v>>}
    BY <1>12
  <2>1. Head(q) = y
    BY <1>10
  <2>2. chan[i][h] = q /\ ListOf(h, i) = CallsOf(h, i, bs) /\ Settled(h, i, bs)
    BY DEF End
  <2> QED
    BY <1>1, <2>1, <2>2 DEF Settled
<1>14. Good(i, b) /\ \A n \in 1..Len(rest) : Good(i, rest[n])
  BY <1>3, <1>4, <1>5, <1>7, <1>13, FirstBlock

\* What the host does.
<1>15. \/ /\ ~Has(h, i, b) /\ ~Has(o, i, b) /\ Moves(h, i, Onward(rest), rest, rh, {})
       \/ /\ Has(h, i, b) /\ ~Has(o, i, b) /\ Moves(h, i, Onward(rest), rest, <<z>> \o rh, {})
       \/ /\ ~Has(h, i, b) /\ Has(o, i, b) /\ Moves(h, i, "all", bs, <<>>, {})
       \/ /\ Has(h, i, b) /\ Has(o, i, b) /\ h = "client"
          /\ Moves(h, i, "awaitVerdict", bs, <<v>>, {})
       \/ /\ Has(h, i, b) /\ Has(o, i, b) /\ h = "server" /\ Moves(h, i, "recvEvals", bs, <<>>, {})
  <2>1. PICK theirs : theirs = Head(Incoming(h)).ok
    OBVIOUS
  <2>2. theirs = Has(o, i, b)
    BY <1>3, <1>9, <1>13, <2>1, Zenon
  <2>3. calls[h] = CallsOf(h, i, bs)
    BY <1>3, <1>13
  <2>4. \/ /\ ~Has(h, i, b) /\ ~Has(o, i, b)
           /\ Moves(h, i, Onward(rest), rest, Asks(h, i, rest), {})
        \/ /\ Has(h, i, b) /\ ~Has(o, i, b)
           /\ Moves(h, i, Onward(rest), rest, <<AllOf(h, i, b)>> \o Asks(h, i, rest), {})
        \/ /\ ~Has(h, i, b) /\ Has(o, i, b) /\ Moves(h, i, "all", bs, <<>>, {})
        \/ /\ Has(h, i, b) /\ Has(o, i, b) /\ h = "client"
           /\ Moves(h, i, "awaitVerdict", bs, <<EvalsOf(i, b)>>, {})
        \/ /\ Has(h, i, b) /\ Has(o, i, b) /\ h = "server"
           /\ Moves(h, i, "recvEvals", bs, <<>>, {})
    <3>1. Head(Incoming(h)).ok = Has(o, i, b)
      BY <2>1, <2>2, Zenon
    <3> USE DEF b, rest, o
    <3> QED
      BY <1>1, <1>3, <1>4, <1>7, <2>3, <3>1, InfoMoves
  <2> QED
    BY <1>9, <2>4, Zenon
<1>16. Resolved(h, i, bs, oms[h] \cup {}) /\ {} \subseteq Lacking(h, i)
  BY <1>13, NothingNew
<1>17. ~Has(o, i, b) => Resolved(h, i, rest, oms[h] \cup {})
  <2> SUFFICES ASSUME ~Has(o, i, b) PROVE Resolved(h, i, rest, oms[h] \cup {})
    OBVIOUS
  <2>1. Content(o, i, b.at) = {}
    BY <1>3, <1>6, <1>14, HasNothing
  <2>2. \A e \in Lacking(h, i) : pos[e] \notin b.at
    BY <1>3, <1>6, <2>1, LackingIs
  <2>3. \A e \in Lacking(h, i) : pos[e] \in Head(bs).at => e \in {} \/ Crowded(i, e)
    BY <1>5, <2>2, Zenon
  <2>4. Resolved(h, i, Tail(bs), oms[h] \cup {})
    BY <1>3, <1>7, <1>13, <2>3, ResolvesRest
  <2> QED
    BY <1>5, <2>4, Zenon

\* What the messages are after it.
<1>18. /\ base'[i] = base[i] /\ UNCHANGED <<agent, pos>>
       /\ \A p : p = Onward(rest) \/ p \in {"all", "awaitVerdict", "recvEvals"}
                 => p \notin {"returned", "connecting", "listening"}
  BY <1>15, OnwardIs DEF Moves
<1>19. /\ InfoOf(h, i, b)' = x /\ InfoOf(o, i, b)' = y /\ AllOf(h, i, b)' = z /\ AllOf(o, i, b)' = u
       /\ EvalsOf(i, b)' = v /\ Asks(h, i, rest)' = rh /\ Asks(o, i, rest)' = ro
       /\ \A g \in Hosts : Has(g, i, b)' = Has(g, i, b)
  BY <1>3, <1>6, <1>9, <1>18, Same
<1>20. /\ \A msgs, q : /\ Moves(h, i, Onward(rest), rest, msgs, {})
                       /\ Tail(chan[i][h]) = q /\ ~Has(o, i, b)
                       => /\ Ahead(h, i, rest, q)'
                          /\ \A p0, as, q0 : End(o, i, p0, as, q0) => End(o, i, p0, as, q0 \o msgs)'
       /\ \A p, msgs, q : /\ Moves(h, i, p, bs, msgs, {})
                          /\ p \in {"all", "awaitVerdict", "recvEvals"}
                          /\ Tail(chan[i][h]) = q
                       => /\ End(h, i, p, bs, q)'
                          /\ \A p0, as, q0 : End(o, i, p0, as, q0) => End(o, i, p0, as, q0 \o msgs)'
  <2>1. ASSUME NEW msgs, NEW q, Moves(h, i, Onward(rest), rest, msgs, {}), Tail(chan[i][h]) = q,
               ~Has(o, i, b)
        PROVE  /\ Ahead(h, i, rest, q)'
               /\ \A p0, as, q0 : End(o, i, p0, as, q0) => End(o, i, p0, as, q0 \o msgs)'
    <3>1. /\ \A t : Tail(chan[i][h]) = t /\ Resolved(h, i, rest, oms[h] \cup {})
                        => End(h, i, Onward(rest), rest, t)'
          /\ \A p0, as, t : End(Other(h), i, p0, as, t) => End(Other(h), i, p0, as, t \o msgs)'
      BY <1>3, <1>18, <2>1, Moved
    <3> QED
      BY <1>6, <1>17, <2>1, <3>1, Zenon DEF Ahead
  <2>2. ASSUME NEW p, NEW msgs, NEW q, Moves(h, i, p, bs, msgs, {}), Tail(chan[i][h]) = q,
               p \in {"all", "awaitVerdict", "recvEvals"}
        PROVE  /\ End(h, i, p, bs, q)'
               /\ \A p0, as, q0 : End(o, i, p0, as, q0) => End(o, i, p0, as, q0 \o msgs)'
    <3>1. /\ \A t : Tail(chan[i][h]) = t /\ Resolved(h, i, bs, oms[h] \cup {})
                        => End(h, i, p, bs, t)'
          /\ \A p0, as, t : End(Other(h), i, p0, as, t) => End(Other(h), i, p0, as, t \o msgs)'
      BY <1>3, <1>18, <2>2, Moved
    <3> QED
      BY <1>6, <1>16, <2>2, <3>1, Zenon
  <2> QED
    BY <2>1, <2>2
<1>21. \A p, as, q : End(h, i, p, as, q) => chan[i][h] = q
  BY DEF End

\* The phase after it.
<1>22. Level(i, rest)' \/ InHand(i, bs, b, rest)' => Link'
  <2>1. PICK p, as, msgs : /\ Moves(h, i, p, as, msgs, {})
                           /\ p \notin {"returned", "connecting", "listening"}
    BY <1>15, <1>18, Zenon
  <2>4. \A bs0 \in Seq(Block) :
           /\ \A n \in 1..Len(bs0) : Good(i, bs0[n])
           /\ Level(i, bs0)' \/ (bs0 # <<>> /\ InHand(i, bs0, Head(bs0), Tail(bs0))')
           => Link'
    <3> PICK S : S = {}
      OBVIOUS
    <3>1. Moves(h, i, p, as, msgs, S) /\ S \subseteq Lacking(h, i)
      BY <2>1
    <3> HIDE <2>1
    <3>2. p \notin {"returned", "connecting", "listening"}
      BY <2>1
    <3> QED
      BY <1>3, <3>1, <3>2, Concludes
  <2>2. ASSUME Level(i, rest)' PROVE Link'
    <3>1. rest \in Seq(Block) /\ \A n \in 1..Len(rest) : Good(i, rest[n])
      BY <1>8, <1>14
    <3> QED
      BY <2>2, <2>4, <3>1, Zenon
  <2>3. ASSUME InHand(i, bs, b, rest)' PROVE Link'
    <3>1. \A n \in 1..Len(bs) : Good(i, bs[n])
      BY <1>4 DEF Blocks
    <3>3. bs # <<>> /\ InHand(i, bs, Head(bs), Tail(bs))'
      BY <1>7, <2>3 DEF b, rest
    <3> QED
      BY <2>4, <3>1, <3>3, Zenon
  <2> QED
    BY <2>2, <2>3
<1>23. CASE ~Has(h, i, b) /\ ~Has(o, i, b) /\ Moves(h, i, Onward(rest), rest, rh, {})
  <2>1. CASE Level(i, bs)
    <3>1. Ahead(h, i, rest, <<>>)' /\ End(o, i, "info", bs, <<x>> \o rh)'
      BY <1>10, <1>11, <1>20, <1>21, <1>23, <2>1, Zenon
    <3>2. Skipped(h, i, bs, b, rest)'
      BY <1>6, <1>19, <1>23, <3>1, Zenon DEF Skipped
    <3> QED
      BY <1>22, <3>2, Zenon DEF InHand
  <2>2. CASE Skipped(o, i, bs, b, rest)
    <3>1. Ahead(o, i, rest, <<>>) /\ End(h, i, "info", bs, <<y>> \o ro)
      BY <1>6, <1>9, <2>2, Zenon DEF Skipped
    <3>2. Ahead(h, i, rest, ro)' /\ Ahead(o, i, rest, rh)'
      BY <1>10, <1>20, <1>21, <1>23, <3>1, Zenon DEF Ahead
    <3>3. Level(i, rest)'
      BY <1>6, <1>19, <3>2, Zenon DEF Level
    <3> QED
      BY <1>22, <3>3, Zenon
  <2> QED
    BY <1>6, <1>7, <1>23, <2>1, <2>2, Zenon
<1>24. CASE Has(h, i, b) /\ ~Has(o, i, b) /\ Moves(h, i, Onward(rest), rest, <<z>> \o rh, {})
  <2>1. CASE Level(i, bs)
    <3>1. Ahead(h, i, rest, <<>>)' /\ End(o, i, "info", bs, <<x>> \o (<<z>> \o rh))'
      BY <1>10, <1>11, <1>20, <1>21, <1>24, <2>1, Zenon
    <3>2. Given(h, i, bs, b, rest)'
      BY <1>6, <1>19, <1>24, <3>1, Zenon DEF Given
    <3> QED
      BY <1>22, <3>2, Zenon DEF InHand
  <2>2. CASE End(h, i, "info", bs, <<InfoOf(o, i, b)>>) /\ End(o, i, "all", bs, <<>>)
    <3>1. End(h, i, "info", bs, <<y>>)
      BY <1>9, <2>2, Zenon
    <3>2. Ahead(h, i, rest, <<>>)' /\ End(o, i, "all", bs, <<z>> \o rh)'
      BY <1>10, <1>20, <1>21, <1>24, <2>2, <3>1, Zenon
    <3>3. Given(h, i, bs, b, rest)'
      BY <1>6, <1>19, <1>24, <3>2, Zenon DEF Given
    <3> QED
      BY <1>22, <3>3, Zenon DEF InHand
  <2>3. ~Skipped(o, i, bs, b, rest)
    BY <1>6, <1>24 DEF Skipped
  <2> QED
    BY <1>6, <1>7, <1>24, <2>1, <2>2, <2>3, Zenon
<1>25. CASE ~Has(h, i, b) /\ Has(o, i, b) /\ Moves(h, i, "all", bs, <<>>, {})
  <2>1. CASE Level(i, bs)
    <3>1. End(h, i, "all", bs, <<>>)' /\ End(o, i, "info", bs, <<x>>)'
      BY <1>10, <1>11, <1>20, <1>21, <1>25, <2>1, Zenon
    <3>2. Given(o, i, bs, b, rest)'
      BY <1>6, <1>19, <1>25, <3>1, Zenon DEF Given
    <3> QED
      BY <1>6, <1>22, <3>2, Zenon DEF InHand
  <2>2. CASE /\ Ahead(o, i, rest, <<>>)
             /\ End(h, i, "info", bs,
                    <<InfoOf(o, i, b)>> \o (<<AllOf(o, i, b)>> \o Asks(o, i, rest)))
    <3>1. End(h, i, "info", bs, <<y>> \o (<<u>> \o ro))
      BY <1>9, <2>2, Zenon
    <3>2. End(h, i, "all", bs, <<u>> \o ro)' /\ Ahead(o, i, rest, <<>>)'
      BY <1>10, <1>20, <1>21, <1>25, <2>2, <3>1, Zenon DEF Ahead
    <3>3. Given(o, i, bs, b, rest)'
      BY <1>6, <1>19, <1>25, <3>2, Zenon DEF Given
    <3> QED
      BY <1>6, <1>22, <3>3, Zenon DEF InHand
  <2>3. ~Skipped(o, i, bs, b, rest)
    BY <1>6, <1>25 DEF Skipped
  <2> QED
    BY <1>6, <1>7, <1>25, <2>1, <2>2, <2>3, Zenon
<1>26. CASE /\ Has(h, i, b) /\ Has(o, i, b) /\ h = "client"
            /\ Moves(h, i, "awaitVerdict", bs, <<v>>, {})
  <2>1. o = "server" /\ \A g \in Hosts : Has(g, i, b)'
    BY <1>6, <1>19, <1>26 DEF Other
  <2>2. CASE Level(i, bs)
    <3>1. End(h, i, "awaitVerdict", bs, <<>>)' /\ End(o, i, "info", bs, <<x>> \o <<v>>)'
      BY <1>10, <1>11, <1>20, <1>21, <1>26, <2>2, Zenon
    <3>2. Tried(i, bs, b, rest)'
      BY <1>6, <1>19, <1>26, <2>1, <3>1, Zenon DEF Tried
    <3> QED
      BY <1>22, <3>2, Zenon DEF InHand
  <2>3. CASE End(h, i, "info", bs, <<InfoOf(o, i, b)>>) /\ End(o, i, "recvEvals", bs, <<>>)
    <3>1. End(h, i, "info", bs, <<y>>)
      BY <1>9, <2>3, Zenon
    <3>2. End(h, i, "awaitVerdict", bs, <<>>)' /\ End(o, i, "recvEvals", bs, <<v>>)'
      BY <1>10, <1>20, <1>21, <1>26, <2>3, <3>1, Zenon
    <3>3. Tried(i, bs, b, rest)'
      BY <1>6, <1>19, <1>26, <2>1, <3>2, Zenon DEF Tried
    <3> QED
      BY <1>22, <3>3, Zenon DEF InHand
  <2>4. ~Skipped(o, i, bs, b, rest) /\ h # "server"
    BY <1>6, <1>26 DEF Skipped
  <2> QED
    BY <1>6, <1>7, <1>26, <2>2, <2>3, <2>4, Zenon
<1>27. CASE /\ Has(h, i, b) /\ Has(o, i, b) /\ h = "server"
            /\ Moves(h, i, "recvEvals", bs, <<>>, {})
  <2>1. o = "client" /\ \A g \in Hosts : Has(g, i, b)'
    BY <1>6, <1>19, <1>27 DEF Other
  <2>2. CASE Level(i, bs)
    <3>1. End(h, i, "recvEvals", bs, <<>>)' /\ End(o, i, "info", bs, <<x>>)'
      BY <1>10, <1>11, <1>20, <1>21, <1>27, <2>2, Zenon
    <3>2. Tried(i, bs, b, rest)'
      BY <1>6, <1>19, <1>27, <2>1, <3>1, Zenon DEF Tried
    <3> QED
      BY <1>22, <3>2, Zenon DEF InHand
  <2>3. CASE /\ End(o, i, "awaitVerdict", bs, <<>>)
             /\ End(h, i, "info", bs, <<InfoOf(o, i, b)>> \o <<EvalsOf(i, b)>>)
    <3>1. End(h, i, "info", bs, <<y>> \o <<v>>)
      BY <1>9, <2>3, Zenon
    <3>2. End(h, i, "recvEvals", bs, <<v>>)' /\ End(o, i, "awaitVerdict", bs, <<>>)'
      BY <1>10, <1>20, <1>21, <1>27, <2>3, <3>1, Zenon
    <3>3. Tried(i, bs, b, rest)'
      BY <1>6, <1>19, <1>27, <2>1, <3>2, Zenon DEF Tried
    <3> QED
      BY <1>22, <3>3, Zenon DEF InHand
  <2>4. ~Skipped(o, i, bs, b, rest) /\ h # "client"
    BY <1>6, <1>27 DEF Skipped
  <2> QED
    BY <1>6, <1>7, <1>27, <2>2, <2>3, <2>4, Zenon
<1> QED
  BY <1>15, <1>23, <1>24, <1>25, <1>26, <1>27

(***************************************************************************)
(* The other steps of a call.                                              *)
(***************************************************************************)
\* What a step in a call makes of its round.
Went(h, i, p, bs, msgs, S) ==
    /\ base'[i] = base[i] /\ UNCHANGED <<agent, pos>>
    /\ \A as \in Seq(Block) :
          /\ \A n \in 1..Len(as) : Good(i, as[n])
          /\ Level(i, as)' \/ (as # <<>> /\ InHand(i, as, Head(as), Tail(as))')
          => Link'
    /\ \A q : Tail(chan[i][h]) = q /\ Resolved(h, i, bs, oms[h] \cup S)
                 => End(h, i, p, bs, q)'
    /\ \A p0, as, q, r : End(Other(h), i, p0, as, q) /\ r = q \o msgs
                            => End(Other(h), i, p0, as, r)'
    /\ \A g \in Hosts : \A as : Settled(g, i, as) => Settled(g, i, as)'
    /\ \A as : Resolved(h, i, as, oms[h] \cup S) => Settled(h, i, as)'

\* A move makes these.
LEMMA Goes ==
    ASSUME Types, Link, NEW i \in Rounds, NEW h \in Hosts, NEW bs, NEW msgs, NEW S,
           NEW p, p \notin {"returned", "connecting", "listening"}, Moves(h, i, p, bs, msgs, S),
           Decided(i), S \subseteq Lacking(h, i)
    PROVE  Went(h, i, p, bs, msgs, S)
<1>1. \A as \in Seq(Block) :
         /\ \A n \in 1..Len(as) : Good(i, as[n])
         /\ Level(i, as)' \/ (as # <<>> /\ InHand(i, as, Head(as), Tail(as))')
         => Link'
  BY Concludes
<1>2. /\ base'[i] = base[i] /\ UNCHANGED <<agent, pos>>
      /\ \A g \in Hosts : \A as : Settled(g, i, as) => Settled(g, i, as)'
      /\ \A as : Resolved(h, i, as, oms[h] \cup S) => Settled(h, i, as)'
      /\ \A q : Tail(chan[i][h]) = q /\ Resolved(h, i, bs, oms[h] \cup S)
                   => End(h, i, p, bs, q)'
      /\ \A p0, as, q : End(Other(h), i, p0, as, q) => End(Other(h), i, p0, as, q \o msgs)'
  BY Moved
<1>3. \A p0, as, q, r : End(Other(h), i, p0, as, q) /\ r = q \o msgs
                           => End(Other(h), i, p0, as, r)'
  BY <1>2, Zenon
<1> QED
  BY <1>1, <1>2, <1>3 DEF Went

\* All the elements of the peer are read.
LEMMA AllStays ==
    ASSUME Types, Link, NEW h \in Hosts, ReceiveAll(h)
    PROVE  Link'
<1>1. PICK i : i = comm[h]
  OBVIOUS
<1>2. pc[h] = "all" /\ Incoming(h) # <<>> /\ pc[h] \in InCall
  BY DEF ReceiveAll, Receives, InCall
<1>3. /\ i \in Rounds /\ Decided(i) /\ Place(h, i) = "all" /\ ListOf(h, i) = calls[h]
      /\ chan[i][h] # <<>> /\ Incoming(h) = chan[i][h] /\ pc[h] # "returned" /\ comm[h] = i
  BY <1>1, <1>2, Calling
<1>4. PICK bs \in Seq(Block) : Blocks(i, bs)
  BY <1>3 DEF Decided
<1>5. PICK b, rest, o : b = Head(bs) /\ rest = Tail(bs) /\ o = Other(h)
  OBVIOUS
<1>6. o \in Hosts /\ Other(o) = h /\ \A g \in Hosts : g = h \/ g = o
  BY <1>5 DEF Hosts, Other
<1>7. /\ bs # <<>> /\ Has(o, i, b) /\ ~Has(h, i, b) /\ Ahead(o, i, rest, <<>>)
      /\ End(h, i, "all", bs, <<AllOf(o, i, b)>> \o Asks(o, i, rest))
  <2>1. /\ i \in Rounds /\ Blocks(i, bs) /\ Place(h, i) = "all" /\ chan[i][h] # <<>>
        /\ b = Head(bs) /\ rest = Tail(bs) /\ o \in Hosts /\ o = Other(h)
    BY <1>3, <1>4, <1>5, <1>6, Zenon
  <2> QED
    BY <2>1, AtAll, Zenon
<1>8. calls[h] = CallsOf(h, i, bs) /\ Resolved(h, i, bs, oms[h])
      /\ chan[i][h] = <<AllOf(o, i, b)>> \o Asks(o, i, rest)
  BY <1>3, <1>7 DEF End, Settled
<1>9. /\ b \in Block /\ rest \in Seq(Block) /\ Good(i, b)
      /\ \A n \in 1..Len(rest) : Good(i, rest[n])
      /\ Tail(calls[h]) = CallsOf(h, i, rest)
  BY <1>3, <1>4, <1>5, <1>7, <1>8, FirstBlock
<1> PICK S : S = Content(o, i, b.at)
  OBVIOUS
<1>10. PICK u \in Message, rh \in Seq(Message), ro \in Seq(Message) :
          u = AllOf(o, i, b) /\ rh = Asks(h, i, rest) /\ ro = Asks(o, i, rest)
  BY <1>3, <1>6, <1>9, BlockMessages, AsksType, Zenon
<1>11. Head(chan[i][h]) = u /\ Tail(chan[i][h]) = ro /\ <<>> \o rh = rh /\ <<>> \in Seq(Message)
  <2>1. Head(<<u>> \o ro) = u /\ Tail(<<u>> \o ro) = ro /\ <<>> \o rh = rh /\ <<>> \in Seq(Message)
    BY Streams
  <2> QED
    BY <1>8, <1>10, <2>1, Zenon
<1>12. Content(h, i, b.at) = {}
  BY <1>3, <1>7, <1>9, HasNothing
<1>13. S \subseteq Lacking(h, i) /\ \A e \in Lacking(h, i) : pos[e] \in b.at => e \in S
  BY <1>3, <1>5, <1>6, <1>10, <1>12, LackingIs
<1>14. Resolved(h, i, rest, oms[h] \cup S)
  <2>1. \A e \in Lacking(h, i) : pos[e] \in Head(bs).at => e \in S \/ Crowded(i, e)
    BY <1>5, <1>13, Zenon
  <2>2. Resolved(h, i, Tail(bs), oms[h] \cup S)
    BY <1>3, <1>7, <1>8, <2>1, ResolvesRest
  <2> QED
    BY <1>5, <2>2, Zenon
<1>15. Moves(h, i, Onward(rest), rest, rh, S)
  <2>1. u.set = S
    BY <1>10 DEF AllOf, AllMsg
  <2>2. oms' = [oms EXCEPT ![h] = oms[h] \cup S]
    BY <1>3, <1>11, <2>1 DEF ReceiveAll, Learn
  <2>3. PICK cs : cs = CallsOf(h, i, rest)
    OBVIOUS
  <2>4. Continue(h, <<>>, cs) /\ UNCHANGED <<data, comm, history, agent, pos>>
    BY <1>9, <2>3 DEF ReceiveAll
  <2>5. rh = <<>> \o Asks(h, i, rest)
    BY <1>10, <1>11, Zenon
  <2>6. PICK p : p = Onward(rest)
    OBVIOUS
  <2>7. p = IF rest = <<>> THEN "post" ELSE "info"
    BY <2>6 DEF Onward
  <2>8. Moves(h, i, p, rest, rh, S)
    BY <1>3, <1>9, <1>11, <2>2, <2>3, <2>4, <2>5, <2>7, Continues
  <2> QED
    BY <2>6, <2>8, Zenon
<1>16. Onward(rest) \notin {"returned", "connecting", "listening"}
  BY OnwardIs
<1>17. /\ base'[i] = base[i] /\ UNCHANGED <<agent, pos>>
       /\ \A as \in Seq(Block) :
             /\ \A n \in 1..Len(as) : Good(i, as[n])
             /\ Level(i, as)' \/ (as # <<>> /\ InHand(i, as, Head(as), Tail(as))')
             => Link'
       /\ \A q : Tail(chan[i][h]) = q /\ Resolved(h, i, rest, oms[h] \cup S)
                    => End(h, i, Onward(rest), rest, q)'
       /\ \A p0, as, q, r : End(o, i, p0, as, q) /\ r = q \o rh => End(o, i, p0, as, r)'
  <2>1. Went(h, i, Onward(rest), rest, rh, S)
    BY <1>3, <1>13, <1>15, <1>16, Goes
  <2> QED
    BY <1>5, <2>1, Zenon DEF Went
<1>18. Asks(h, i, rest)' = rh /\ Asks(o, i, rest)' = ro
  BY <1>3, <1>6, <1>10, <1>17, Same
<1>19. Ahead(h, i, rest, ro)' /\ Ahead(o, i, rest, rh)'
  <2>1. End(h, i, Onward(rest), rest, ro)'
    BY <1>11, <1>14, <1>17, Zenon
  <2>2. End(o, i, Onward(rest), rest, <<>>) /\ rh = <<>> \o rh
    BY <1>7, <1>11 DEF Ahead
  <2>3. End(o, i, Onward(rest), rest, rh)'
    BY <1>17, <2>2, Zenon
  <2> QED
    BY <2>1, <2>3 DEF Ahead
<1>20. Level(i, rest)'
  BY <1>5, <1>6, <1>18, <1>19, Zenon DEF Level
<1> QED
  BY <1>9, <1>17, <1>20

(***************************************************************************)
(* The attempt at a node.                                                  *)
(***************************************************************************)
\* The parts of the current block and the blocks that followed it: both hosts make the
\* calls for them, and where the attempt failed they have everything that the current
\* block had, or it is lost.
LEMMA PartsFollow ==
    ASSUME Types, Matched, NEW i \in Rounds, NEW b \in Block, Good(i, b),
           NEW rest \in Seq(Block), \A n \in 1..Len(rest) : Good(i, rest[n])
    PROVE  /\ PartBlocks(b, A.pFactor) \o rest \in Seq(Block)
           /\ \A n \in 1..Len(PartBlocks(b, A.pFactor) \o rest) :
                 Good(i, (PartBlocks(b, A.pFactor) \o rest)[n])
           /\ \A h \in Hosts :
                 CallsOf(h, i, PartBlocks(b, A.pFactor) \o rest)
                    = Parts(h, CallOf(h, i, b)) \o CallsOf(h, i, rest)
<1> PICK p \in Nat \ {0, 1} : p = A.pFactor
  BY SetupTypes, HostsType DEF Types, A
<1>1. \A h \in Hosts : agent[h].pFactor = p
  BY DEF Matched, A, Hosts
<1> PICK parts : parts = PartBlocks(b, p)
  OBVIOUS
<1>2. parts \in Seq(Block) /\ Len(parts) = p /\ \A n \in 1..p : Good(i, parts[n])
  <2>1. b.beg <= b.end
    BY DEF Good
  <2>2. /\ PartBlocks(b, p) \in Seq(Block) /\ Len(PartBlocks(b, p)) = p
        /\ \A n \in 1..p : Good(i, PartBlocks(b, p)[n])
    BY <2>1, PartBlocksAre
  <2> QED
    BY <2>2, Zenon
<1> PICK all : all = parts \o rest
  OBVIOUS
<1>3. /\ all \in Seq(Block) /\ Len(all) = p + Len(rest) /\ Len(rest) \in Nat
      /\ \A n \in 1..p : all[n] = parts[n]
      /\ \A n \in p + 1..p + Len(rest) : all[n] = rest[n - p]
  <2>1. /\ parts \o rest \in Seq(Block) /\ Len(parts \o rest) = Len(parts) + Len(rest)
        /\ Len(rest) \in Nat
        /\ \A n \in 1..Len(parts) : (parts \o rest)[n] = parts[n]
        /\ \A n \in Len(parts) + 1..Len(parts) + Len(rest) :
              (parts \o rest)[n] = rest[n - Len(parts)]
    <3>1. parts \in Seq(Block)
      BY <1>2
    <3> QED
      BY <3>1, Concat
  <2>2. all = parts \o rest /\ Len(parts) = p
    BY <1>2
  <2>3. all \in Seq(Block) /\ Len(all) = p + Len(rest) /\ Len(rest) \in Nat
    BY <2>1, <2>2, Zenon
  <2>4. \A n \in 1..p : all[n] = parts[n]
    BY <2>1, <2>2, Zenon
  <2>5. \A n \in p + 1..p + Len(rest) : all[n] = rest[n - p]
    BY <2>1, <2>2, Zenon
  <2> QED
    BY <2>3, <2>4, <2>5, Zenon
<1>4. ASSUME NEW n \in 1..Len(all) PROVE Good(i, all[n])
  <2>1. CASE n \in 1..p
    BY <1>2, <1>3, <2>1
  <2>2. CASE n \notin 1..p
    <3>1. n \in p + 1..p + Len(rest) /\ n - p \in 1..Len(rest)
      BY <1>3, <2>2
    <3>2. all[n] = rest[n - p]
      BY <1>3, <3>1
    <3> QED
      BY <3>1, <3>2
  <2> QED
    BY <2>1, <2>2
<1>5. ASSUME NEW h \in Hosts
      PROVE  CallsOf(h, i, all) = Parts(h, CallOf(h, i, b)) \o CallsOf(h, i, rest)
  <2>1. Parts(h, CallOf(h, i, b)) = CallsOf(h, i, PartBlocks(b, agent[h].pFactor))
    BY PartsAre DEF Good
  <2>2. Parts(h, CallOf(h, i, b)) = CallsOf(h, i, parts)
    BY <1>1, <2>1, Zenon
  <2>3. CallsOf(h, i, parts \o rest) = CallsOf(h, i, parts) \o CallsOf(h, i, rest)
    BY <1>2, CallsOfConcat
  <2> QED
    BY <2>2, <2>3, Zenon
<1>6. all = PartBlocks(b, A.pFactor) \o rest
  BY Zenon
<1> QED
  BY <1>3, <1>4, <1>5, <1>6, Zenon

\* and where the attempt failed they have everything that the current block had, or it
\* is lost.
LEMMA PartsResolve ==
    ASSUME Types, NEW i \in Rounds, NEW bs \in Seq(Block), bs # <<>>, Good(i, Head(bs)),
           Has("server", i, Head(bs)),
           ~Reconciles(A.mbar, Content("client", i, Head(bs).at),
                       Content("server", i, Head(bs).at)),
           NEW h \in Hosts, NEW S, Resolved(h, i, bs, S)
    PROVE  Resolved(h, i, PartBlocks(Head(bs), A.pFactor) \o Tail(bs), S)
<1> PICK p \in Nat \ {0, 1} : p = A.pFactor
  BY SetupTypes, HostsType DEF Types, A
<1>1. Head(bs) \in Block
  OBVIOUS
<1> PICK parts : parts = PartBlocks(Head(bs), p)
  OBVIOUS
<1>2. parts \in Seq(Block)
  BY <1>1, PartBlocksAre DEF Good
<1>3. \A e \in Lacking(h, i) : pos[e] \in Head(bs).at =>
         Crowded(i, e) \/ \E n \in 1..Len(parts) : pos[e] \in parts[n].at
  BY <1>1, FailureLeaves
<1>4. Resolved(h, i, parts \o Tail(bs), S)
  BY <1>2, <1>3, ResolvesParts
<1> QED
  BY <1>4, Zenon

\* What the server finds when it has the evaluations.
Attempt(c, s, i, bs) ==
    /\ Blocks(i, bs) /\ bs # <<>> /\ \A g \in Hosts : Has(g, i, Head(bs))
    /\ End(c, i, "awaitVerdict", bs, <<>>)
    /\ End(s, i, "recvEvals", bs, <<EvalsOf(i, Head(bs))>>)
    /\ Head(bs) \in Block /\ Tail(bs) \in Seq(Block) /\ Good(i, Head(bs))
    /\ \A n \in 1..Len(Tail(bs)) : Good(i, Tail(bs)[n])
    /\ Node(s) = CallOf(s, i, Head(bs)) /\ Tail(calls[s]) = CallsOf(s, i, Tail(bs))
    /\ Node(s).set = Content(s, i, Head(bs).at)
    /\ Head(Incoming(s)).set = Content(c, i, Head(bs).at)
    /\ agent[s] = A

\* A server that reads the evaluations is in such an attempt.
LEMMA AtEvals ==
    ASSUME Types, Link, Matched, NEW c, NEW s, c = "client", s = "server",
           NEW i, i = comm[s], ServerEvals
    PROVE  /\ i \in Rounds /\ Decided(i) /\ comm[s] = i /\ pc[s] # "returned"
           /\ \E bs \in Seq(Block) : Attempt(c, s, i, bs)
<1>1. pc[s] = "recvEvals" /\ Incoming(s) # <<>> /\ pc[s] \in InCall /\ s \in Hosts
  BY DEF ServerEvals, Receives, InCall, Hosts
<1>2. /\ i \in Rounds /\ Decided(i) /\ Place(s, i) = "recvEvals" /\ ListOf(s, i) = calls[s]
      /\ chan[i][s] # <<>> /\ Incoming(s) = chan[i][s] /\ pc[s] # "returned" /\ comm[s] = i
  BY <1>1, Calling
<1>3. PICK bs \in Seq(Block) : Blocks(i, bs)
  BY <1>2 DEF Decided
<1>4. /\ bs # <<>> /\ \A g \in Hosts : Has(g, i, Head(bs))
      /\ End(c, i, "awaitVerdict", bs, <<>>)
      /\ End(s, i, "recvEvals", bs, <<EvalsOf(i, Head(bs))>>)
  <2>1. PICK b, rest : b = Head(bs) /\ rest = Tail(bs)
    OBVIOUS
  <2>2. /\ bs # <<>> /\ \A g \in Hosts : Has(g, i, b)
        /\ End(c, i, "awaitVerdict", bs, <<>>)
        /\ End(s, i, "recvEvals", bs, <<EvalsOf(i, b)>>)
    BY <1>2, <1>3, <2>1, ServerAt
  <2> QED
    BY <2>1, <2>2, Zenon
<1>5. calls[s] = CallsOf(s, i, bs) /\ chan[i][s] = <<EvalsOf(i, Head(bs))>>
  BY <1>2, <1>4 DEF End
<1>6. /\ Head(bs) \in Block /\ Tail(bs) \in Seq(Block) /\ Good(i, Head(bs))
      /\ \A n \in 1..Len(Tail(bs)) : Good(i, Tail(bs)[n])
      /\ Node(s) = CallOf(s, i, Head(bs)) /\ Tail(calls[s]) = CallsOf(s, i, Tail(bs))
      /\ Node(s).set = Content(s, i, Head(bs).at)
  BY <1>1, <1>2, <1>3, <1>4, <1>5, FirstBlock
<1>7. Head(Incoming(s)).set = Content(c, i, Head(bs).at)
  BY <1>2, <1>5 DEF EvalsOf, EvalsMsg
<1>8. agent[s] = A
  BY DEF Matched, A
<1> QED
  BY <1>2, <1>3, <1>4, <1>6, <1>7, <1>8 DEF Attempt

\* The server attempts a node: strings are to come,
LEMMA EvalsSpell ==
    ASSUME Types, Link, NEW i \in Rounds, Decided(i), NEW c, NEW s, c = "client", s = "server",
           comm[s] = i, pc[s] # "returned",
           NEW bs \in Seq(Block), Blocks(i, bs), bs # <<>>, Head(bs) \in Block, A.hashes,
           End(c, i, "awaitVerdict", bs, <<>>), NEW q0, Tail(<<q0>>) = <<>>,
           End(s, i, "recvEvals", bs, <<q0>>), calls[s] = CallsOf(s, i, bs),
           Answer(s, Deltas(Own(c, i, Head(bs)), Own(s, i, Head(bs)))
                        \o <<Strings(Own(s, i, Head(bs)))>>),
           Goto(s, "strings"), UNCHANGED <<data, comm, oms, history, agent, pos, calls>>
    PROVE  Link'
<1>1. PICK b, rest, t : b = Head(bs) /\ rest = Tail(bs) /\ t = Flag(TRUE)
  OBVIOUS
<1>2. s \in Hosts /\ c \in Hosts /\ c = Other(s) /\ \A g \in Hosts : g = c \/ g = s
  BY DEF Hosts, Other
<1>3. PICK x \in Message, d \in Message : x = Strings(Own(s, i, b)) /\ d = DeltasOf(i, b)
  BY <1>1, <1>2, BlockMessages, Zenon
<1>4. t \in Message
  BY <1>1, MessageTypes
<1>17. PICK msgs : msgs = <<t>> \o (<<d>> \o <<x>>)
  OBVIOUS
<1>5. msgs = <<t, d>> \o <<x>> /\ <<>> \o msgs = msgs /\ msgs \in Seq(Message)
  <2>1. <<t, d>> = <<t>> \o <<d>>
    BY <1>4, TwoMessages
  <2>2. <<t>> \in Seq(Message) /\ <<d>> \in Seq(Message) /\ <<x>> \in Seq(Message)
    BY <1>4, Streams
  <2>3. (<<t>> \o <<d>>) \o <<x>> = <<t>> \o (<<d>> \o <<x>>)
    BY <2>2, Reassociate
  <2>4. <<d>> \o <<x>> \in Seq(Message)
    BY <2>2, Streams
  <2>5. <<t>> \o (<<d>> \o <<x>>) \in Seq(Message)
    BY <1>4, <2>4, Streams
  <2>6. msgs \in Seq(Message) /\ msgs = <<t, d>> \o <<x>>
    BY <1>17, <2>1, <2>3, <2>5, Zenon
  <2> QED
    BY <2>6, Streams
<1>6. Answer(s, msgs)
  <2>1. d = [type |-> "deltas", other |-> Own(c, i, b), self |-> Own(s, i, b)]
    BY <1>3 DEF DeltasOf, DeltasMsg
  <2>2. Deltas(Own(c, i, b), Own(s, i, b)) = <<t, d>>
    BY <1>1, <2>1, Zenon DEF Deltas
  <2> QED
    BY <1>1, <1>3, <1>5, <2>2, Zenon
<1>16. PICK S : S = {}
  OBVIOUS
<1>7. /\ S \subseteq Lacking(s, i) /\ oms[s] \cup S = oms[s]
      /\ oms' = [oms EXCEPT ![s] = oms[s] \cup S]
  BY <1>2, <1>16, NothingNew
<1>8. Moves(s, i, "strings", bs, msgs, S)
  BY <1>2, <1>6, <1>7, Answers
<1>9. /\ base'[i] = base[i] /\ UNCHANGED <<agent, pos>>
      /\ \A as \in Seq(Block) :
            /\ \A n \in 1..Len(as) : Good(i, as[n])
            /\ Level(i, as)' \/ (as # <<>> /\ InHand(i, as, Head(as), Tail(as))')
            => Link'
      /\ \A q : Tail(chan[i][s]) = q /\ Resolved(s, i, bs, oms[s] \cup S)
                   => End(s, i, "strings", bs, q)'
      /\ \A p0, as, q, r : End(c, i, p0, as, q) /\ r = q \o msgs => End(c, i, p0, as, r)'
  <2>1. Went(s, i, "strings", bs, msgs, S)
    BY <1>2, <1>7, <1>8, Goes
  <2> QED
    BY <1>2, <2>1, Zenon DEF Went
<1>10. chan[i][s] = <<q0>> /\ Resolved(s, i, bs, oms[s])
  BY DEF End, Settled
<1>11. End(s, i, "strings", bs, <<>>)' /\ End(c, i, "awaitVerdict", bs, msgs)'
  BY <1>5, <1>7, <1>9, <1>10, Zenon
<1>12. /\ A' = A /\ DeltasOf(i, b)' = DeltasOf(i, b)
       /\ Own(s, i, b)' = Own(s, i, b)
  BY <1>2, <1>9, Same
<1>13. Spelled(i, bs, b, rest)'
  BY <1>1, <1>3, <1>11, <1>12, <1>17, Zenon DEF Spelled, Strings, Flag
<1>14. InHand(i, bs, b, rest)'
  BY <1>13 DEF InHand
<1>15. \A n \in 1..Len(bs) : Good(i, bs[n])
  BY DEF Blocks
<1> QED
  BY <1>1, <1>9, <1>14, <1>15

\* Three messages, and others after them.
LEMMA ThreeMessages ==
    ASSUME NEW M, NEW t \in M, NEW d \in M, NEW x \in M, NEW r \in Seq(M)
    PROVE  /\ <<t, d>> \o <<x>> \in Seq(M)
           /\ (<<t, d>> \o <<x>>) \o r = <<t>> \o (<<d>> \o (<<x>> \o r))
           /\ <<t>> \o (<<d>> \o (<<x>> \o r)) \in Seq(M)
<1>1. <<t, d>> = <<t>> \o <<d>> /\ <<t, d>> \in Seq(M)
  BY TwoMessages
<1>2. <<t>> \in Seq(M) /\ <<d>> \in Seq(M) /\ <<x>> \in Seq(M)
  BY Streams
<1>3. (<<t>> \o <<d>>) \o <<x>> = <<t>> \o (<<d>> \o <<x>>)
  BY <1>2, Reassociate
<1>4. <<d>> \o <<x>> \in Seq(M) /\ <<x>> \o r \in Seq(M)
  BY <1>2, Streams
<1>5. <<t>> \o (<<d>> \o <<x>>) \in Seq(M) /\ <<d>> \o (<<x>> \o r) \in Seq(M)
  BY <1>4, Streams
<1>6. (<<t>> \o (<<d>> \o <<x>>)) \o r = <<t>> \o ((<<d>> \o <<x>>) \o r)
  BY <1>2, <1>4, Reassociate
<1>7. (<<d>> \o <<x>>) \o r = <<d>> \o (<<x>> \o r)
  BY <1>2, Reassociate
<1>8. <<t>> \o (<<d>> \o (<<x>> \o r)) \in Seq(M)
  BY <1>5, Streams
<1> QED
  BY <1>1, <1>3, <1>5, <1>6, <1>7, <1>8, Zenon

\* A host that goes on to the calls for bs makes its way.
LEMMA GoesOn ==
    ASSUME Types, Link, NEW i \in Rounds, Decided(i), NEW h \in Hosts,
           comm[h] = i, pc[h] # "returned",
           NEW bs \in Seq(Block), NEW msgs \in Seq(Message), Continue(h, msgs, CallsOf(h, i, bs)),
           NEW all, all = msgs \o Asks(h, i, bs),
           NEW S, S \subseteq Lacking(h, i), oms' = [oms EXCEPT ![h] = oms[h] \cup S],
           UNCHANGED <<data, comm, history, agent, pos>>
    PROVE  Went(h, i, Onward(bs), bs, all, S)
<1>1. PICK p, cs : p = Onward(bs) /\ cs = CallsOf(h, i, bs)
  OBVIOUS
<1>2. Continue(h, msgs, cs)
  BY <1>1, Zenon
<1>3. p = IF bs = <<>> THEN "post" ELSE "info"
  BY <1>1 DEF Onward
<1>4. Moves(h, i, p, bs, all, S)
  BY <1>1, <1>2, <1>3, Continues
<1>5. p \notin {"returned", "connecting", "listening"}
  BY <1>3
<1>6. Went(h, i, p, bs, all, S)
  BY <1>4, <1>5, Goes
<1> QED
  BY <1>1, <1>6, Zenon

\* the server is done with the node,
LEMMA EvalsSolve ==
    ASSUME Types, Link, NEW i \in Rounds, Decided(i), NEW c, NEW s, c = "client", s = "server",
           comm[s] = i, pc[s] # "returned",
           NEW bs \in Seq(Block), Blocks(i, bs), bs # <<>>, Head(bs) \in Block, ~A.hashes,
           Tail(bs) \in Seq(Block),
           End(c, i, "awaitVerdict", bs, <<>>), NEW q0, Tail(<<q0>>) = <<>>,
           End(s, i, "recvEvals", bs, <<q0>>),
           Learn(s, Own(c, i, Head(bs))),
           Continue(s, Deltas(Own(c, i, Head(bs)), Own(s, i, Head(bs))) \o <<Flag(TRUE)>>,
                    CallsOf(s, i, Tail(bs))),
           UNCHANGED <<data, comm, history, agent, pos>>
    PROVE  Link'
<1>1. PICK b, rest, t : b = Head(bs) /\ rest = Tail(bs) /\ t = Flag(TRUE)
  OBVIOUS
<1>2. s \in Hosts /\ c \in Hosts /\ c = Other(s) /\ \A g \in Hosts : g = c \/ g = s
  BY DEF Hosts, Other
<1>3. PICK d \in Message, rs \in Seq(Message) : d = DeltasOf(i, b) /\ rs = Asks(s, i, rest)
  BY <1>1, <1>2, BlockMessages, AsksType, Zenon
<1>4. t \in Message
  BY <1>1, MessageTypes
<1>17. PICK msgs : msgs = <<t>> \o (<<d>> \o (<<t>> \o rs))
  OBVIOUS
<1>18. PICK flags : flags = <<t, d>> \o <<t>>
  OBVIOUS
<1>5. /\ flags \in Seq(Message) /\ msgs = flags \o Asks(s, i, rest) /\ <<>> \o msgs = msgs
  <2>1. flags \in Seq(Message) /\ flags \o rs = msgs /\ msgs \in Seq(Message)
    <3>1. /\ <<t, d>> \o <<t>> \in Seq(Message)
          /\ (<<t, d>> \o <<t>>) \o rs = <<t>> \o (<<d>> \o (<<t>> \o rs))
          /\ <<t>> \o (<<d>> \o (<<t>> \o rs)) \in Seq(Message)
      BY <1>4, ThreeMessages, Zenon
    <3> QED
      BY <1>17, <1>18, <3>1, Zenon
  <2>2. <<>> \o msgs = msgs
    BY <2>1, Streams
  <2> QED
    BY <1>3, <2>1, <2>2, Zenon
<1>6. Continue(s, flags, CallsOf(s, i, rest))
  <2>1. d = [type |-> "deltas", other |-> Own(c, i, b), self |-> Own(s, i, b)]
    BY <1>3 DEF DeltasOf, DeltasMsg
  <2>2. Deltas(Own(c, i, b), Own(s, i, b)) = <<t, d>>
    BY <1>1, <2>1, Zenon DEF Deltas
  <2> QED
    BY <1>1, <1>18, <2>2, Zenon
<1>16. PICK S : S = Own(c, i, b)
  OBVIOUS
<1>7. /\ S \subseteq Lacking(s, i) /\ oms' = [oms EXCEPT ![s] = oms[s] \cup S]
      /\ \A e \in Lacking(s, i) : pos[e] \in b.at => e \in S
  <2>1. S \subseteq Lacking(s, i) /\ \A e \in Lacking(s, i) : pos[e] \in b.at => e \in S
    BY <1>2, <1>16, LackingIs
  <2>2. oms' = [oms EXCEPT ![s] = oms[s] \cup S]
    BY <1>1, <1>16 DEF Learn
  <2> QED
    BY <2>1, <2>2
<1>10. chan[i][s] = <<q0>> /\ Resolved(s, i, bs, oms[s])
  BY DEF End, Settled
<1>8. Resolved(s, i, rest, oms[s] \cup S)
  <2>1. \A e \in Lacking(s, i) : pos[e] \in Head(bs).at => e \in S \/ Crowded(i, e)
    BY <1>1, <1>7, Zenon
  <2>2. Resolved(s, i, Tail(bs), oms[s] \cup S)
    BY <1>2, <1>10, <2>1, ResolvesRest
  <2> QED
    BY <1>1, <2>2, Zenon
<1>9. Went(s, i, Onward(rest), rest, msgs, S)
  BY <1>1, <1>2, <1>5, <1>6, <1>7, GoesOn
<1>11. Ahead(s, i, rest, <<>>)' /\ End(c, i, "awaitVerdict", bs, msgs)'
  <2>1. End(s, i, Onward(rest), rest, <<>>)' /\ End(c, i, "awaitVerdict", bs, msgs)'
    BY <1>2, <1>5, <1>8, <1>9, <1>10, Zenon DEF Went
  <2> QED
    BY <2>1, Zenon DEF Ahead
<1>12. /\ A' = A /\ DeltasOf(i, b)' = DeltasOf(i, b)
       /\ Asks(s, i, rest)' = Asks(s, i, rest)
  <2>1. base'[i] = base[i] /\ UNCHANGED <<agent, pos>>
    BY <1>9 DEF Went
  <2> QED
    BY <1>2, <2>1, Same
<1>13. Solved(i, bs, b, rest)'
  BY <1>1, <1>3, <1>11, <1>12, <1>17, Zenon DEF Solved, Flag
<1>14. InHand(i, bs, b, rest)'
  BY <1>13 DEF InHand
<1>15. \A n \in 1..Len(bs) : Good(i, bs[n])
  BY DEF Blocks
<1> QED
  BY <1>1, <1>9, <1>14, <1>15 DEF Went

\* or it goes on with the parts.
LEMMA EvalsPart ==
    ASSUME Types, Link, NEW i \in Rounds, Decided(i), NEW c, NEW s, c = "client", s = "server",
           comm[s] = i, pc[s] # "returned",
           NEW bs \in Seq(Block), Blocks(i, bs), bs # <<>>,
           End(c, i, "awaitVerdict", bs, <<>>), NEW q0, Tail(<<q0>>) = <<>>,
           End(s, i, "recvEvals", bs, <<q0>>),
           NEW blocks \in Seq(Block), blocks = PartBlocks(Head(bs), A.pFactor) \o Tail(bs),
           \A h \in Hosts : \A S : Resolved(h, i, bs, S) => Resolved(h, i, blocks, S),
           Continue(s, FailureFlags, CallsOf(s, i, blocks)),
           UNCHANGED <<data, comm, oms, history, agent, pos>>
    PROVE  Link'
<1>1. PICK b, rest, f : b = Head(bs) /\ rest = Tail(bs) /\ f = Flag(FALSE)
  OBVIOUS
<1>2. s \in Hosts /\ c \in Hosts /\ c = Other(s) /\ \A g \in Hosts : g = c \/ g = s
  BY DEF Hosts, Other
<1>3. PICK rs \in Seq(Message) : rs = Asks(s, i, blocks)
  BY <1>2, AsksType
<1>4. f \in Message
  BY <1>1, MessageTypes
<1>17. PICK msgs : msgs = <<f>> \o (<<f>> \o rs)
  OBVIOUS
<1>18. PICK flags : flags = <<f, f>>
  OBVIOUS
<1>5. /\ flags \in Seq(Message) /\ msgs = flags \o Asks(s, i, blocks) /\ <<>> \o msgs = msgs
  <2>1. flags = <<f>> \o <<f>> /\ flags \in Seq(Message)
    BY <1>4, <1>18, TwoMessages
  <2>2. <<f>> \in Seq(Message) /\ <<f>> \o rs \in Seq(Message)
    BY <1>4, Streams
  <2>3. (<<f>> \o <<f>>) \o rs = <<f>> \o (<<f>> \o rs) /\ <<f>> \o (<<f>> \o rs) \in Seq(Message)
    BY <1>4, <2>2, Reassociate, Streams
  <2>4. msgs \in Seq(Message) /\ flags \o rs = msgs
    BY <1>17, <2>1, <2>3, Zenon
  <2>5. <<>> \o msgs = msgs
    BY <2>4, Streams
  <2> QED
    BY <1>3, <2>1, <2>4, <2>5, Zenon
<1>6. Continue(s, flags, CallsOf(s, i, blocks))
  BY <1>1, <1>18, Zenon DEF FailureFlags
<1>16. PICK S : S = {}
  OBVIOUS
<1>7. /\ S \subseteq Lacking(s, i) /\ oms[s] \cup S = oms[s]
      /\ oms' = [oms EXCEPT ![s] = oms[s] \cup S]
  BY <1>2, <1>16, NothingNew
<1>10. chan[i][s] = <<q0>> /\ Resolved(s, i, bs, oms[s]) /\ Settled(c, i, bs)
  BY DEF End, Settled
<1>8. Resolved(s, i, blocks, oms[s] \cup S) /\ Settled(c, i, blocks)
  BY <1>2, <1>7, <1>10 DEF Settled
<1>9. Went(s, i, Onward(blocks), blocks, msgs, S)
  BY <1>2, <1>5, <1>6, <1>7, GoesOn
<1>11. /\ Ahead(s, i, blocks, <<>>)' /\ End(c, i, "awaitVerdict", bs, msgs)'
       /\ Settled(c, i, blocks)'
  <2>1. End(s, i, Onward(blocks), blocks, <<>>)' /\ End(c, i, "awaitVerdict", bs, msgs)'
    BY <1>2, <1>5, <1>8, <1>9, <1>10, Zenon DEF Went
  <2>2. Settled(c, i, blocks)'
    BY <1>2, <1>8, <1>9, Zenon DEF Went
  <2> QED
    BY <2>1, <2>2, Zenon DEF Ahead
<1>12. A' = A /\ Asks(s, i, blocks)' = Asks(s, i, blocks)
  <2>1. base'[i] = base[i] /\ UNCHANGED <<agent, pos>>
    BY <1>9 DEF Went
  <2> QED
    BY <1>2, <2>1, Same
<1>13. Parted(i, bs, b, rest)'
  <2>1. blocks = (PartBlocks(b, A.pFactor) \o rest)'
    BY <1>1, <1>12, Zenon
  <2> QED
    BY <1>1, <1>3, <1>11, <1>12, <1>17, <2>1, Zenon DEF Parted, Flag
<1>14. InHand(i, bs, b, rest)'
  BY <1>13 DEF InHand
<1>15. \A n \in 1..Len(bs) : Good(i, bs[n])
  BY DEF Blocks
<1> QED
  BY <1>1, <1>9, <1>14, <1>15 DEF Went

\* The server has the evaluations.
LEMMA EvalsStay ==
    ASSUME Types, Link, Matched, ServerEvals
    PROVE  Link'
<1>1. PICK c, s, i : c = "client" /\ s = "server" /\ i = comm[s]
  OBVIOUS
<1>2. /\ i \in Rounds /\ Decided(i) /\ comm[s] = i /\ pc[s] # "returned"
      /\ \E bs \in Seq(Block) : Attempt(c, s, i, bs)
  BY <1>1, AtEvals
<1>3. PICK bs \in Seq(Block) :
         /\ Blocks(i, bs) /\ bs # <<>> /\ \A g \in Hosts : Has(g, i, Head(bs))
         /\ End(c, i, "awaitVerdict", bs, <<>>)
         /\ End(s, i, "recvEvals", bs, <<EvalsOf(i, Head(bs))>>)
         /\ Head(bs) \in Block /\ Tail(bs) \in Seq(Block) /\ Good(i, Head(bs))
         /\ \A n \in 1..Len(Tail(bs)) : Good(i, Tail(bs)[n])
         /\ Node(s) = CallOf(s, i, Head(bs)) /\ Tail(calls[s]) = CallsOf(s, i, Tail(bs))
         /\ Node(s).set = Content(s, i, Head(bs).at)
         /\ Head(Incoming(s)).set = Content(c, i, Head(bs).at)
         /\ agent[s] = A
  BY <1>2 DEF Attempt
<1>4. PICK b, rest : b = Head(bs) /\ rest = Tail(bs)
  OBVIOUS
<1>5. PICK q0 : q0 = EvalsOf(i, b) /\ Tail(<<q0>>) = <<>>
  OBVIOUS
<1>6. s \in Hosts /\ c \in Hosts /\ c = Other(s)
  BY <1>1 DEF Hosts, Other
<1>7. /\ Own(c, i, b) = Content(c, i, b.at) \ Content(s, i, b.at)
      /\ Own(s, i, b) = Content(s, i, b.at) \ Content(c, i, b.at)
  BY <1>1 DEF Own, Other
<1>8. calls[s] = CallsOf(s, i, bs)
  <2>1. ListOf(s, i) = CallsOf(s, i, bs)
    BY <1>3 DEF End
  <2> QED
    BY <1>2, <2>1 DEF ListOf
<1>9. PICK theirs, mine, other, self, node :
        /\ theirs = Head(Incoming(s)).set /\ mine = Node(s).set
        /\ other = theirs \ mine /\ self = mine \ theirs /\ node = Node(s)
  OBVIOUS
<1>10. UNCHANGED <<data, comm, history, agent, pos>>
  BY DEF ServerEvals
<1>11. \/ /\ A.hashes /\ Answer(s, Deltas(other, self) \o <<Strings(self)>>)
          /\ Goto(s, "strings") /\ UNCHANGED <<oms, calls>>
       \/ /\ ~A.hashes /\ Learn(s, other)
          /\ Continue(s, Deltas(other, self) \o <<Flag(TRUE)>>, Tail(calls[s]))
       \/ /\ ~Reconciles(A.mbar, theirs, mine)
          /\ Continue(s, FailureFlags, Parts(s, node) \o Tail(calls[s]))
          /\ UNCHANGED oms
  BY <1>1, <1>3, <1>9 DEF ServerEvals
<1>12. /\ other = Own(c, i, Head(bs)) /\ self = Own(s, i, Head(bs))
       /\ theirs = Content(c, i, Head(bs).at) /\ mine = Content(s, i, Head(bs).at)
  BY <1>3, <1>4, <1>7, <1>9, Zenon
<1>13. /\ End(c, i, "awaitVerdict", bs, <<>>) /\ End(s, i, "recvEvals", bs, <<q0>>)
  BY <1>3, <1>4, <1>5, Zenon
<1>14. CASE /\ A.hashes /\ Answer(s, Deltas(other, self) \o <<Strings(self)>>)
            /\ Goto(s, "strings") /\ UNCHANGED <<oms, calls>>
  <2>1. Answer(s, Deltas(Own(c, i, Head(bs)), Own(s, i, Head(bs)))
                     \o <<Strings(Own(s, i, Head(bs)))>>)
    BY <1>12, <1>14, Zenon
  <2> QED
    BY <1>1, <1>2, <1>3, <1>5, <1>8, <1>10, <1>13, <1>14, <2>1, EvalsSpell
<1>15. CASE /\ ~A.hashes /\ Learn(s, other)
            /\ Continue(s, Deltas(other, self) \o <<Flag(TRUE)>>, Tail(calls[s]))
  <2>1. /\ Learn(s, Own(c, i, Head(bs)))
        /\ Continue(s, Deltas(Own(c, i, Head(bs)), Own(s, i, Head(bs))) \o <<Flag(TRUE)>>,
                    CallsOf(s, i, Tail(bs)))
    BY <1>3, <1>12, <1>15, Zenon
  <2> QED
    BY <1>1, <1>2, <1>3, <1>5, <1>10, <1>13, <1>15, <2>1, EvalsSolve
<1>16. CASE /\ ~Reconciles(A.mbar, theirs, mine)
            /\ Continue(s, FailureFlags, Parts(s, node) \o Tail(calls[s]))
            /\ UNCHANGED oms
  <2>1. PICK blocks : blocks = PartBlocks(Head(bs), A.pFactor) \o Tail(bs)
    OBVIOUS
  <2>2. /\ blocks \in Seq(Block)
        /\ CallsOf(s, i, blocks) = Parts(s, CallOf(s, i, Head(bs))) \o CallsOf(s, i, Tail(bs))
    <3>1. /\ PartBlocks(Head(bs), A.pFactor) \o Tail(bs) \in Seq(Block)
          /\ CallsOf(s, i, PartBlocks(Head(bs), A.pFactor) \o Tail(bs))
                = Parts(s, CallOf(s, i, Head(bs))) \o CallsOf(s, i, Tail(bs))
      <4>1. /\ Head(bs) \in Block /\ Tail(bs) \in Seq(Block) /\ Good(i, Head(bs))
            /\ \A n \in 1..Len(Tail(bs)) : Good(i, Tail(bs)[n])
        BY <1>3
      <4> QED
        BY <1>2, <1>6, <4>1, PartsFollow, Zenon
    <3> QED
      BY <2>1, <3>1, Zenon
  <2>3. \A h \in Hosts : \A S : Resolved(h, i, bs, S) => Resolved(h, i, blocks, S)
    <3>1. ~Reconciles(A.mbar, Content("client", i, Head(bs).at), Content("server", i, Head(bs).at))
      BY <1>1, <1>12, <1>16, Zenon
    <3>2. Has("server", i, Head(bs))
      BY <1>1, <1>3, <1>6
    <3> SUFFICES ASSUME NEW h \in Hosts, NEW S, Resolved(h, i, bs, S)
                 PROVE  Resolved(h, i, blocks, S)
      OBVIOUS
    <3>3. Resolved(h, i, PartBlocks(Head(bs), A.pFactor) \o Tail(bs), S)
      BY <1>2, <1>3, <3>1, <3>2, PartsResolve
    <3> QED
      BY <2>1, <3>3, Zenon
  <2>4. Continue(s, FailureFlags, CallsOf(s, i, blocks))
    BY <1>3, <1>9, <1>16, <2>2, Zenon
  <2> QED
    BY <1>1, <1>2, <1>3, <1>5, <1>10, <1>13, <1>16, <2>1, <2>2, <2>3, <2>4, EvalsPart
<1> QED
  BY <1>11, <1>14, <1>15, <1>16

\* The server has the client's strings, and is done with the node.
LEMMA ServerStringsStay ==
    ASSUME Types, Link, ServerStrings
    PROVE  Link'
<1>1. PICK c, s, i : c = "client" /\ s = "server" /\ i = comm[s]
  OBVIOUS
<1>2. /\ pc[s] = "strings" /\ Incoming(s) # <<>> /\ pc[s] \in InCall
      /\ s \in Hosts /\ c \in Hosts /\ c = Other(s) /\ s = Other(c)
  BY <1>1 DEF ServerStrings, Receives, InCall, Hosts, Other
<1>3. /\ i \in Rounds /\ Decided(i) /\ Place(s, i) = "strings" /\ ListOf(s, i) = calls[s]
      /\ chan[i][s] # <<>> /\ Incoming(s) = chan[i][s] /\ pc[s] # "returned" /\ comm[s] = i
  BY <1>1, <1>2, Calling
<1>4. PICK bs \in Seq(Block) : Blocks(i, bs)
  BY <1>3 DEF Decided
<1>5. PICK b, rest, t : b = Head(bs) /\ rest = Tail(bs) /\ t = Flag(TRUE)
  OBVIOUS
<1>6. /\ bs # <<>> /\ A.hashes /\ End(s, i, "strings", bs, <<Strings(Own(c, i, b))>>)
      /\ \/ End(c, i, "strings", bs, <<Strings(Own(s, i, b))>>)
         \/ End(c, i, "awaitFlag", bs, <<>>) /\ Settled(c, i, rest)
  BY <1>1, <1>3, <1>4, <1>5, ServerAt
<1>7. calls[s] = CallsOf(s, i, bs) /\ Resolved(s, i, bs, oms[s])
      /\ chan[i][s] = <<Strings(Own(c, i, b))>>
  BY <1>3, <1>6 DEF End, Settled
<1>8. /\ b \in Block /\ rest \in Seq(Block) /\ Tail(calls[s]) = CallsOf(s, i, rest)
  BY <1>2, <1>3, <1>4, <1>5, <1>6, <1>7, FirstBlock
<1>9. t \in Message
  BY <1>5, MessageTypes
<1>10. PICK x \in Message, y \in Message, rs \in Seq(Message) :
         x = Strings(Own(s, i, b)) /\ y = Strings(Own(c, i, b)) /\ rs = Asks(s, i, rest)
  BY <1>2, <1>3, <1>8, BlockMessages, AsksType, Zenon
<1>11. PICK asks : asks = <<t>> \o rs
  OBVIOUS
<1>12. PICK flags : flags = <<t>>
  OBVIOUS
<1>13. /\ flags \in Seq(Message) /\ asks = flags \o Asks(s, i, rest) /\ <<>> \o asks = asks
       /\ Head(<<y>>) = y /\ Tail(<<y>>) = <<>>
  <2>1. <<t>> \in Seq(Message) /\ <<t>> \o rs \in Seq(Message)
    BY <1>9, Streams
  <2>2. asks \in Seq(Message)
    BY <1>11, <2>1, Zenon
  <2>3. <<>> \o asks = asks
    BY <2>2, Streams
  <2> QED
    BY <1>10, <1>11, <1>12, <2>1, <2>3
<1>14. PICK S : S = Own(c, i, b)
  OBVIOUS
<1>15. S \subseteq Lacking(s, i) /\ \A e \in Lacking(s, i) : pos[e] \in b.at => e \in S
  BY <1>2, <1>3, <1>14, LackingIs
<1>16. oms' = [oms EXCEPT ![s] = oms[s] \cup S]
  <2>1. Head(Incoming(s)).set = S
    <3>1. Head(Incoming(s)) = y
      BY <1>3, <1>7, <1>10, <1>13, Zenon
    <3> QED
      BY <1>10, <1>14, <3>1 DEF Strings
  <2> QED
    BY <1>1, <2>1 DEF ServerStrings, Learn
<1>17. Resolved(s, i, rest, oms[s] \cup S)
  <2>1. \A e \in Lacking(s, i) : pos[e] \in Head(bs).at => e \in S \/ Crowded(i, e)
    BY <1>5, <1>15, Zenon
  <2>2. Resolved(s, i, Tail(bs), oms[s] \cup S)
    BY <1>2, <1>3, <1>6, <1>7, <2>1, ResolvesRest
  <2> QED
    BY <1>5, <2>2, Zenon
<1>18. Went(s, i, Onward(rest), rest, asks, S)
  <2>1. Continue(s, flags, CallsOf(s, i, rest)) /\ UNCHANGED <<data, comm, history, agent, pos>>
    BY <1>1, <1>5, <1>8, <1>12 DEF ServerStrings
  <2> QED
    BY <1>2, <1>3, <1>8, <1>13, <1>15, <1>16, <2>1, GoesOn
<1>19. chan[i][s] = <<y>>
  BY <1>7, <1>10, Zenon
<1>20. Ahead(s, i, rest, <<>>)'
  <2>1. End(s, i, Onward(rest), rest, <<>>)'
    BY <1>13, <1>17, <1>18, <1>19, Zenon DEF Went
  <2> QED
    BY <2>1 DEF Ahead
<1>21. \/ End(c, i, "strings", bs, <<x>> \o asks)'
       \/ End(c, i, "awaitFlag", bs, asks)' /\ Settled(c, i, rest)'
  <2>1. CASE End(c, i, "strings", bs, <<Strings(Own(s, i, b))>>)
    <3>1. End(c, i, "strings", bs, <<x>>)
      BY <1>10, <2>1, Zenon
    <3> QED
      BY <1>2, <1>18, <3>1, Zenon DEF Went
  <2>2. CASE End(c, i, "awaitFlag", bs, <<>>) /\ Settled(c, i, rest)
    BY <1>2, <1>13, <1>18, <2>2, Zenon DEF Went
  <2> QED
    BY <1>6, <2>1, <2>2
<1>22. Own(s, i, b)' = Own(s, i, b) /\ Asks(s, i, rest)' = Asks(s, i, rest)
  <2>1. base'[i] = base[i] /\ UNCHANGED <<agent, pos>>
    BY <1>18 DEF Went
  <2> QED
    BY <1>2, <1>3, <2>1, Same
<1>23. Solved(i, bs, b, rest)'
  <2>1. x = Strings(Own(s, i, b))' /\ asks = (<<Flag(TRUE)>> \o Asks(s, i, rest))'
    BY <1>5, <1>10, <1>11, <1>22, Zenon DEF Strings, Flag
  <2> QED
    BY <1>1, <1>20, <1>21, <2>1, Zenon DEF Solved
<1>24. InHand(i, bs, b, rest)'
  BY <1>23 DEF InHand
<1>25. \A n \in 1..Len(bs) : Good(i, bs[n])
  BY <1>4 DEF Blocks
<1> QED
  BY <1>5, <1>6, <1>18, <1>24, <1>25 DEF Went

\* What the client finds in the rest of its call.
Answered(c, i, bs) ==
    /\ Blocks(i, bs) /\ bs # <<>> /\ calls[c] = CallsOf(c, i, bs) /\ Resolved(c, i, bs, oms[c])
    /\ Head(bs) \in Block /\ Tail(bs) \in Seq(Block) /\ Good(i, Head(bs))
    /\ \A n \in 1..Len(Tail(bs)) : Good(i, Tail(bs)[n])
    /\ Node(c) = CallOf(c, i, Head(bs)) /\ Tail(calls[c]) = CallsOf(c, i, Tail(bs))
    /\ \/ Parted(i, bs, Head(bs), Tail(bs))
       \/ Solved(i, bs, Head(bs), Tail(bs))
       \/ Spelled(i, bs, Head(bs), Tail(bs))
    /\ \A p, as, q : End(c, i, p, as, q) => p = pc[c] /\ q = chan[i][c]

\* A client that reads after its evaluations is in such a state.
LEMMA AtAnswer ==
    ASSUME Types, Link, NEW c, c = "client", NEW i, i = comm[c],
           pc[c] \in {"awaitVerdict", "awaitDeltas", "strings", "awaitFlag"}, Incoming(c) # <<>>
    PROVE  /\ i \in Rounds /\ Decided(i) /\ comm[c] = i /\ pc[c] # "returned"
           /\ Incoming(c) = chan[i][c]
           /\ \E bs \in Seq(Block) : Answered(c, i, bs)
<1>1. c \in Hosts /\ pc[c] \in InCall
  BY DEF Hosts, InCall
<1>2. /\ i \in Rounds /\ Decided(i) /\ Place(c, i) = pc[c] /\ ListOf(c, i) = calls[c]
      /\ chan[i][c] # <<>> /\ Incoming(c) = chan[i][c] /\ pc[c] # "returned" /\ comm[c] = i
  BY <1>1, Calling
<1>3. PICK bs \in Seq(Block) : Blocks(i, bs)
  BY <1>2 DEF Decided
<1>4. PICK b, rest, l : b = Head(bs) /\ rest = Tail(bs) /\ l = pc[c]
  OBVIOUS
<1>5. /\ bs # <<>> /\ calls[c] = CallsOf(c, i, bs)
      /\ Parted(i, bs, b, rest) \/ Solved(i, bs, b, rest) \/ Spelled(i, bs, b, rest)
  <2>1. PICK s : s = "server"
    OBVIOUS
  <2>2. /\ bs # <<>> /\ ListOf(c, i) = CallsOf(c, i, bs)
        /\ Parted(i, bs, b, rest) \/ Solved(i, bs, b, rest) \/ Spelled(i, bs, b, rest)
    BY <1>2, <1>3, <1>4, <2>1, ClientAt
  <2> QED
    BY <1>2, <2>2
<1>6. /\ b \in Block /\ rest \in Seq(Block) /\ Good(i, b)
      /\ \A n \in 1..Len(rest) : Good(i, rest[n])
      /\ Node(c) = CallOf(c, i, b) /\ Tail(calls[c]) = CallsOf(c, i, rest)
  BY <1>1, <1>2, <1>3, <1>4, <1>5, FirstBlock
<1>7. \A p, as, q : End(c, i, p, as, q) => p = pc[c] /\ q = chan[i][c]
  <2>1. pc[c] # "quit"
    OBVIOUS
  <2> QED
    BY <1>2, <2>1 DEF End
<1>8. \A p, q : End(c, i, p, bs, q) => Resolved(c, i, bs, oms[c])
  BY <1>2 DEF End, Settled
<1>9. Resolved(c, i, bs, oms[c])
  BY <1>5, <1>8, Zenon DEF Parted, Solved, Spelled
<1> QED
  BY <1>2, <1>3, <1>4, <1>5, <1>6, <1>7, <1>9 DEF Answered

\* A client that goes on in its call makes its way.
LEMMA StaysIn ==
    ASSUME Types, Link, NEW i \in Rounds, Decided(i), NEW h \in Hosts,
           comm[h] = i, pc[h] # "returned",
           NEW bs \in Seq(Block), calls[h] = CallsOf(h, i, bs),
           NEW p, p \notin {"returned", "connecting", "listening"}, Goto(h, p),
           NEW S, S \subseteq Lacking(h, i), oms' = [oms EXCEPT ![h] = oms[h] \cup S],
           UNCHANGED <<data, comm, history, agent, pos, calls>>
    PROVE  /\ Receive(h) => Went(h, i, p, bs, <<>>, S)
           /\ \A msgs : Answer(h, msgs) => Went(h, i, p, bs, msgs, S)
<1>1. Receive(h) => Went(h, i, p, bs, <<>>, S)
  <2> SUFFICES ASSUME Receive(h) PROVE Went(h, i, p, bs, <<>>, S)
    OBVIOUS
  <2>1. PICK none : none = <<>>
    OBVIOUS
  <2>2. Moves(h, i, p, bs, <<>>, S)
    BY Reads
  <2>3. Moves(h, i, p, bs, none, S)
    BY <2>1, <2>2
  <2>4. Went(h, i, p, bs, none, S)
    BY <2>3, Goes
  <2> QED
    BY <2>1, <2>4
<1>2. ASSUME NEW msgs, Answer(h, msgs) PROVE Went(h, i, p, bs, msgs, S)
  <2>1. Moves(h, i, p, bs, msgs, S)
    BY <1>2, Answers
  <2> QED
    BY <2>1, Goes
<1> QED
  BY <1>1, <1>2

\* The client has the verdict on a node that failed,
LEMMA VerdictPart ==
    ASSUME Types, NEW i \in Rounds, NEW c, NEW s, c = "client", s = "server",
           NEW bs, NEW b \in Block, NEW rest \in Seq(Block), Matched, Good(i, b),
           \A n \in 1..Len(rest) : Good(i, rest[n]),
           NEW p, NEW S, S = {}, Went(c, i, p, bs, <<>>, S), Resolved(c, i, bs, oms[c]),
           p = IF Head(chan[i][c]).ok THEN "awaitDeltas" ELSE "awaitFlag",
           \A l, as, q : End(c, i, l, as, q) => l = "awaitVerdict" /\ q = chan[i][c],
           Parted(i, bs, b, rest)
    PROVE  Parted(i, bs, b, rest)'
<1>1. s \in Hosts /\ c \in Hosts /\ s = Other(c)
  BY DEF Hosts, Other
<1>2. PICK blocks : blocks = PartBlocks(b, A.pFactor) \o rest
  OBVIOUS
<1>3. blocks \in Seq(Block)
  BY <1>2, PartsFollow
<1>4. PICK f \in Message : f = Flag(FALSE)
  BY MessageTypes
<1>5. PICK rs \in Seq(Message) : rs = Asks(s, i, blocks)
  BY <1>1, <1>3, AsksType
<1>6. PICK asks \in Seq(Message) : asks = <<f>> \o rs
  BY FirstOfStream
<1>7. /\ Ahead(s, i, blocks, <<>>) /\ Settled(c, i, blocks)
      /\ End(c, i, "awaitVerdict", bs, <<f>> \o asks)
  <2>1. "awaitFlag" # "awaitVerdict"
    OBVIOUS
  <2> QED
    BY <1>2, <1>4, <1>5, <1>6, <2>1, Zenon DEF Parted
<1>8. Head(chan[i][c]) = f /\ Tail(chan[i][c]) = asks
  <2>1. Head(<<f>> \o asks) = f /\ Tail(<<f>> \o asks) = asks
    BY FirstOfStream
  <2>2. chan[i][c] = <<f>> \o asks
    BY <1>7
  <2> QED
    BY <2>1, <2>2
<1>9. p = "awaitFlag" /\ oms[c] \cup S = oms[c]
  <2>1. ~f.ok
    BY <1>4 DEF Flag
  <2> QED
    BY <1>1, <1>8, <2>1, NothingNew
<1>10. <<>> \o <<>> = <<>>
  OBVIOUS
<1>11. End(c, i, "awaitFlag", bs, asks)' /\ Settled(c, i, blocks)' /\ Ahead(s, i, blocks, <<>>)'
  <2>1. End(c, i, "awaitFlag", bs, asks)'
    BY <1>8, <1>9, Zenon DEF Went
  <2>2. Settled(c, i, blocks)'
    BY <1>1, <1>7, Zenon DEF Went
  <2>3. End(s, i, Onward(blocks), blocks, <<>>)
    BY <1>7 DEF Ahead
  <2>4. End(s, i, Onward(blocks), blocks, <<>>)'
    BY <1>1, <1>10, <2>3, Zenon DEF Went
  <2> QED
    BY <2>1, <2>2, <2>4 DEF Ahead
<1>12. A' = A /\ Asks(s, i, blocks)' = Asks(s, i, blocks)
  <2>1. base'[i] = base[i] /\ UNCHANGED <<agent, pos>>
    BY DEF Went
  <2> QED
    BY <1>1, <2>1, Same
<1> QED
  <2>1. blocks = (PartBlocks(b, A.pFactor) \o rest)'
    BY <1>2, <1>12, Zenon
  <2>2. asks = (<<Flag(FALSE)>> \o Asks(s, i, blocks))'
    BY <1>4, <1>5, <1>6, <1>12, Zenon DEF Flag
  <2> QED
    BY <1>11, <2>1, <2>2, Zenon DEF Parted

\* on one that is solved,
LEMMA VerdictSolve ==
    ASSUME Types, NEW i \in Rounds, NEW c, NEW s, c = "client", s = "server",
           NEW bs, NEW b \in Block, NEW rest \in Seq(Block),
           NEW p, NEW S, S = {}, Went(c, i, p, bs, <<>>, S), Resolved(c, i, bs, oms[c]),
           p = IF Head(chan[i][c]).ok THEN "awaitDeltas" ELSE "awaitFlag",
           \A l, as, q : End(c, i, l, as, q) => l = "awaitVerdict" /\ q = chan[i][c],
           Solved(i, bs, b, rest)
    PROVE  Solved(i, bs, b, rest)'
<1>1. s \in Hosts /\ c \in Hosts /\ s = Other(c)
  BY DEF Hosts, Other
<1>2. PICK t \in Message, d \in Message, rs \in Seq(Message) :
        t = Flag(TRUE) /\ d = DeltasOf(i, b) /\ rs = Asks(s, i, rest)
  <2>1. Flag(TRUE) \in Message /\ DeltasOf(i, b) \in Message /\ Asks(s, i, rest) \in Seq(Message)
    BY <1>1, MessageTypes, BlockMessages, AsksType
  <2> QED
    BY <2>1, Zenon
<1>3. PICK asks \in Seq(Message) : asks = <<t>> \o rs
  BY FirstOfStream
<1>4. PICK tail \in Seq(Message) : tail = <<d>> \o asks
  BY FirstOfStream
<1>5. ~A.hashes /\ Ahead(s, i, rest, <<>>) /\ End(c, i, "awaitVerdict", bs, <<t>> \o tail)
  <2>1. "awaitFlag" # "awaitVerdict" /\ "awaitDeltas" # "awaitVerdict" /\ "strings" # "awaitVerdict"
    OBVIOUS
  <2> QED
    BY <1>2, <1>3, <1>4, <2>1, Zenon DEF Solved
<1>6. Head(chan[i][c]) = t /\ Tail(chan[i][c]) = tail
  <2>1. Head(<<t>> \o tail) = t /\ Tail(<<t>> \o tail) = tail
    BY FirstOfStream
  <2>2. chan[i][c] = <<t>> \o tail
    BY <1>5
  <2> QED
    BY <2>1, <2>2
<1>7. p = "awaitDeltas" /\ oms[c] \cup S = oms[c]
  <2>1. t.ok
    BY <1>2 DEF Flag
  <2> QED
    BY <1>1, <1>6, <2>1, NothingNew
<1>8. <<>> \o <<>> = <<>>
  OBVIOUS
<1>9. End(c, i, "awaitDeltas", bs, tail)' /\ Ahead(s, i, rest, <<>>)'
  <2>1. End(c, i, "awaitDeltas", bs, tail)'
    BY <1>6, <1>7, Zenon DEF Went
  <2>2. End(s, i, Onward(rest), rest, <<>>)
    BY <1>5 DEF Ahead
  <2>3. End(s, i, Onward(rest), rest, <<>>)'
    BY <1>1, <1>8, <2>2, Zenon DEF Went
  <2> QED
    BY <2>1, <2>3 DEF Ahead
<1>10. A' = A /\ Asks(s, i, rest)' = Asks(s, i, rest) /\ DeltasOf(i, b)' = DeltasOf(i, b)
  <2>1. base'[i] = base[i] /\ UNCHANGED <<agent, pos>>
    BY DEF Went
  <2> QED
    BY <1>1, <2>1, Same
<1> QED
  <2>1. asks = (<<Flag(TRUE)>> \o Asks(s, i, rest))'
    BY <1>2, <1>3, <1>10, Zenon DEF Flag
  <2> QED
    BY <1>2, <1>4, <1>5, <1>9, <1>10, <2>1, Zenon DEF Solved

\* and on one whose strings are to come.
LEMMA VerdictSpell ==
    ASSUME Types, NEW i \in Rounds, NEW c, NEW s, c = "client", s = "server",
           NEW bs, NEW b \in Block, NEW rest \in Seq(Block),
           NEW p, NEW S, S = {}, Went(c, i, p, bs, <<>>, S), Resolved(c, i, bs, oms[c]),
           p = IF Head(chan[i][c]).ok THEN "awaitDeltas" ELSE "awaitFlag",
           \A l, as, q : End(c, i, l, as, q) => l = "awaitVerdict" /\ q = chan[i][c],
           Spelled(i, bs, b, rest)
    PROVE  Spelled(i, bs, b, rest)'
<1>1. s \in Hosts /\ c \in Hosts /\ s = Other(c)
  BY DEF Hosts, Other
<1>2. PICK t \in Message, d \in Message, x \in Message :
        t = Flag(TRUE) /\ d = DeltasOf(i, b) /\ x = Strings(Own(s, i, b))
  <2>1. Flag(TRUE) \in Message /\ DeltasOf(i, b) \in Message /\ Strings(Own(s, i, b)) \in Message
    BY <1>1, MessageTypes, BlockMessages
  <2> QED
    BY <2>1, Zenon
<1>3. PICK asks \in Seq(Message) : asks = <<x>>
  <2>1. <<x>> \in Seq(Message)
    OBVIOUS
  <2> QED
    BY <2>1, Zenon
<1>4. PICK tail \in Seq(Message) : tail = <<d>> \o asks
  BY FirstOfStream
<1>5. /\ A.hashes /\ End(s, i, "strings", bs, <<>>)
      /\ End(c, i, "awaitVerdict", bs, <<t>> \o tail)
  <2>1. "awaitFlag" # "awaitVerdict" /\ "awaitDeltas" # "awaitVerdict" /\ "strings" # "awaitVerdict"
    OBVIOUS
  <2> QED
    BY <1>2, <1>3, <1>4, <2>1, Zenon DEF Spelled
<1>6. Head(chan[i][c]) = t /\ Tail(chan[i][c]) = tail
  <2>1. Head(<<t>> \o tail) = t /\ Tail(<<t>> \o tail) = tail
    BY FirstOfStream
  <2>2. chan[i][c] = <<t>> \o tail
    BY <1>5
  <2> QED
    BY <2>1, <2>2
<1>7. p = "awaitDeltas" /\ oms[c] \cup S = oms[c]
  <2>1. t.ok
    BY <1>2 DEF Flag
  <2> QED
    BY <1>1, <1>6, <2>1, NothingNew
<1>8. <<>> \o <<>> = <<>>
  OBVIOUS
<1>9. End(c, i, "awaitDeltas", bs, tail)' /\ End(s, i, "strings", bs, <<>>)'
  <2>1. End(c, i, "awaitDeltas", bs, tail)'
    BY <1>6, <1>7, Zenon DEF Went
  <2>2. End(s, i, "strings", bs, <<>>)'
    BY <1>1, <1>5, <1>8, Zenon DEF Went
  <2> QED
    BY <2>1, <2>2
<1>10. A' = A /\ Own(s, i, b)' = Own(s, i, b) /\ DeltasOf(i, b)' = DeltasOf(i, b)
  <2>1. base'[i] = base[i] /\ UNCHANGED <<agent, pos>>
    BY DEF Went
  <2> QED
    BY <1>1, <2>1, Same
<1> QED
  <2>1. x = Strings(Own(s, i, b))'
    BY <1>2, <1>10, Zenon DEF Strings
  <2> QED
    BY <1>1, <1>2, <1>3, <1>4, <1>5, <1>9, <1>10, <2>1, Zenon DEF Spelled

\* The verdict is read.
LEMMA VerdictStays ==
    ASSUME Types, Link, Matched, ClientVerdict
    PROVE  Link'
<1>1. PICK c, s, i : c = "client" /\ s = "server" /\ i = comm[c]
  OBVIOUS
<1>2. /\ pc[c] = "awaitVerdict" /\ Incoming(c) # <<>> /\ c \in Hosts
      /\ Goto(c, IF Head(Incoming(c)).ok THEN "awaitDeltas" ELSE "awaitFlag")
      /\ Receive(c) /\ UNCHANGED <<data, comm, oms, history, agent, pos, calls>>
  BY <1>1 DEF ClientVerdict, Receives, Hosts, agentVars
<1>3. /\ i \in Rounds /\ Decided(i) /\ comm[c] = i /\ pc[c] # "returned"
      /\ Incoming(c) = chan[i][c] /\ \E bs \in Seq(Block) : Answered(c, i, bs)
  BY <1>1, <1>2, AtAnswer
<1>4. PICK bs \in Seq(Block) : Answered(c, i, bs)
  BY <1>3
<1>5. PICK b, rest : b = Head(bs) /\ rest = Tail(bs)
  OBVIOUS
<1>6. /\ bs # <<>> /\ calls[c] = CallsOf(c, i, bs) /\ Resolved(c, i, bs, oms[c])
      /\ b \in Block /\ rest \in Seq(Block) /\ Good(i, b)
      /\ \A n \in 1..Len(bs) : Good(i, bs[n])
      /\ \A n \in 1..Len(rest) : Good(i, rest[n])
      /\ Parted(i, bs, b, rest) \/ Solved(i, bs, b, rest) \/ Spelled(i, bs, b, rest)
      /\ \A p, as, q : End(c, i, p, as, q) => p = pc[c] /\ q = chan[i][c]
  BY <1>4, <1>5 DEF Answered, Blocks
<1>7. PICK p : p = IF Head(chan[i][c]).ok THEN "awaitDeltas" ELSE "awaitFlag"
  OBVIOUS
<1>8. PICK S : S = {}
  OBVIOUS
<1>9. S \subseteq Lacking(c, i) /\ oms' = [oms EXCEPT ![c] = oms[c] \cup S]
  BY <1>2, <1>8, NothingNew
<1>10. p \notin {"returned", "connecting", "listening"} /\ Goto(c, p)
  BY <1>2, <1>3, <1>7
<1>11. Went(c, i, p, bs, <<>>, S)
  BY <1>2, <1>3, <1>6, <1>9, <1>10, StaysIn
<1>12. \A l, as, q : End(c, i, l, as, q) => l = "awaitVerdict" /\ q = chan[i][c]
  BY <1>2, <1>6
<1>13. Parted(i, bs, b, rest) => Parted(i, bs, b, rest)'
  BY <1>1, <1>3, <1>6, <1>7, <1>8, <1>11, <1>12, VerdictPart
<1>14. Solved(i, bs, b, rest) => Solved(i, bs, b, rest)'
  BY <1>1, <1>3, <1>6, <1>7, <1>8, <1>11, <1>12, VerdictSolve
<1>15. Spelled(i, bs, b, rest) => Spelled(i, bs, b, rest)'
  BY <1>1, <1>3, <1>6, <1>7, <1>8, <1>11, <1>12, VerdictSpell
<1>16. InHand(i, bs, b, rest)'
  BY <1>6, <1>13, <1>14, <1>15 DEF InHand
<1> QED
  BY <1>5, <1>6, <1>11, <1>16 DEF Went

\* What a host learns of a node that is solved is what it lacks of it.
LEMMA Learned ==
    ASSUME NEW i \in Rounds, NEW h \in Hosts, NEW o \in Hosts, o = Other(h),
           NEW bs \in Seq(Block), bs # <<>>, Resolved(h, i, bs, oms[h]),
           NEW b, b = Head(bs), NEW rest, rest = Tail(bs), NEW S, S = Own(o, i, b)
    PROVE  /\ S \subseteq Lacking(h, i)
           /\ Resolved(h, i, bs, oms[h] \cup S) /\ Resolved(h, i, rest, oms[h] \cup S)
<1>1. S \subseteq Lacking(h, i) /\ \A e \in Lacking(h, i) : pos[e] \in b.at => e \in S
  BY LackingIs
<1>2. Resolved(h, i, bs, oms[h] \cup S)
  BY DEF Resolved
<1>3. \A e \in Lacking(h, i) : pos[e] \in Head(bs).at => e \in S \/ Crowded(i, e)
  BY <1>1, Zenon
<1>4. Resolved(h, i, Tail(bs), oms[h] \cup S)
  BY <1>3, ResolvesRest
<1> QED
  BY <1>1, <1>2, <1>4, Zenon

\* The differences say what the client lacks,
LEMMA DeltasSay ==
    ASSUME Types, NEW i \in Rounds, NEW c, NEW s, c = "client", s = "server",
           NEW bs, NEW b \in Block, NEW rest \in Seq(Block),
           \A l, as, q : End(c, i, l, as, q) => l = "awaitDeltas" /\ q = chan[i][c],
           Solved(i, bs, b, rest)
    PROVE  Head(chan[i][c]).self = Own(s, i, b)
<1>1. s \in Hosts /\ c \in Hosts
  BY DEF Hosts
<1>2. PICK d \in Message, t \in Message, rs \in Seq(Message) :
        d = DeltasOf(i, b) /\ t = Flag(TRUE) /\ rs = Asks(s, i, rest)
  <2>1. Flag(TRUE) \in Message /\ DeltasOf(i, b) \in Message /\ Asks(s, i, rest) \in Seq(Message)
    BY <1>1, MessageTypes, BlockMessages, AsksType
  <2> QED
    BY <2>1, Zenon
<1>3. PICK asks \in Seq(Message) : asks = <<t>> \o rs
  BY FirstOfStream
<1>4. End(c, i, "awaitDeltas", bs, <<d>> \o asks)
  <2>1. "awaitFlag" # "awaitDeltas" /\ "awaitVerdict" # "awaitDeltas" /\ "strings" # "awaitDeltas"
    OBVIOUS
  <2> QED
    BY <1>2, <1>3, <2>1, Zenon DEF Solved
<1>5. Head(chan[i][c]) = d
  <2>1. Head(<<d>> \o asks) = d
    BY FirstOfStream
  <2>2. chan[i][c] = <<d>> \o asks
    BY <1>4
  <2> QED
    BY <2>1, <2>2
<1>6. d.self = Own(s, i, b)
  BY <1>2 DEF DeltasOf, DeltasMsg
<1> QED
  BY <1>5, <1>6

\* which is what it learns,
LEMMA DeltasSolve ==
    ASSUME Types, NEW i \in Rounds, NEW c, NEW s, c = "client", s = "server",
           NEW bs, NEW b \in Block, NEW rest \in Seq(Block), NEW S,
           S = Own(s, i, b), Resolved(c, i, bs, oms[c] \cup S),
           Resolved(c, i, rest, oms[c] \cup S),
           Went(c, i, "awaitFlag", bs, <<>>, S),
           \A l, as, q : End(c, i, l, as, q) => l = "awaitDeltas" /\ q = chan[i][c],
           Solved(i, bs, b, rest)
    PROVE  Solved(i, bs, b, rest)'
<1>1. s \in Hosts /\ c \in Hosts /\ s = Other(c)
  BY DEF Hosts, Other
<1>2. PICK d \in Message, t \in Message, rs \in Seq(Message) :
        d = DeltasOf(i, b) /\ t = Flag(TRUE) /\ rs = Asks(s, i, rest)
  <2>1. Flag(TRUE) \in Message /\ DeltasOf(i, b) \in Message /\ Asks(s, i, rest) \in Seq(Message)
    BY <1>1, MessageTypes, BlockMessages, AsksType
  <2> QED
    BY <2>1, Zenon
<1>3. PICK asks \in Seq(Message) : asks = <<t>> \o rs
  BY FirstOfStream
<1>4. ~A.hashes /\ Ahead(s, i, rest, <<>>) /\ End(c, i, "awaitDeltas", bs, <<d>> \o asks)
  <2>1. "awaitFlag" # "awaitDeltas" /\ "awaitVerdict" # "awaitDeltas" /\ "strings" # "awaitDeltas"
    OBVIOUS
  <2> QED
    BY <1>2, <1>3, <2>1, Zenon DEF Solved
<1>5. Head(chan[i][c]) = d /\ Tail(chan[i][c]) = asks
  <2>1. Head(<<d>> \o asks) = d /\ Tail(<<d>> \o asks) = asks
    BY FirstOfStream
  <2>2. chan[i][c] = <<d>> \o asks
    BY <1>4
  <2> QED
    BY <2>1, <2>2
<1>7. <<>> \o <<>> = <<>>
  OBVIOUS
<1>8. /\ End(c, i, "awaitFlag", bs, asks)' /\ Settled(c, i, rest)' /\ Ahead(s, i, rest, <<>>)'
  <2>1. End(c, i, "awaitFlag", bs, asks)' /\ Settled(c, i, rest)'
    BY <1>5, Zenon DEF Went
  <2>2. End(s, i, Onward(rest), rest, <<>>)
    BY <1>4 DEF Ahead
  <2>3. End(s, i, Onward(rest), rest, <<>>)'
    BY <1>1, <1>7, <2>2, Zenon DEF Went
  <2> QED
    BY <2>1, <2>3 DEF Ahead
<1>9. Asks(s, i, rest)' = Asks(s, i, rest)
  <2>1. base'[i] = base[i] /\ UNCHANGED <<agent, pos>>
    BY DEF Went
  <2> QED
    BY <1>1, <2>1, Same
<1> QED
  <2>1. asks = (<<Flag(TRUE)>> \o Asks(s, i, rest))'
    BY <1>2, <1>3, <1>9, Zenon DEF Flag
  <2> QED
    BY <1>1, <1>8, <2>1, Zenon DEF Solved

\* or the strings are sent that the server lacks.
LEMMA DeltasSpell ==
    ASSUME Types, NEW i \in Rounds, NEW c, NEW s, c = "client", s = "server",
           NEW bs, NEW b \in Block, NEW rest \in Seq(Block), NEW S, S = {},
           Resolved(c, i, bs, oms[c]), NEW msgs, msgs = <<Strings(Head(chan[i][c]).other)>>,
           A.hashes => Went(c, i, "strings", bs, msgs, S),
           \A l, as, q : End(c, i, l, as, q) => l = "awaitDeltas" /\ q = chan[i][c],
           Spelled(i, bs, b, rest)
    PROVE  Spelled(i, bs, b, rest)'
<1>1. s \in Hosts /\ c \in Hosts /\ s = Other(c)
  BY DEF Hosts, Other
<1>2. PICK d \in Message, x \in Message, y \in Message :
        d = DeltasOf(i, b) /\ x = Strings(Own(s, i, b)) /\ y = Strings(Own(c, i, b))
  <2>1. DeltasOf(i, b) \in Message /\ Strings(Own(s, i, b)) \in Message
        /\ Strings(Own(c, i, b)) \in Message
    BY <1>1, BlockMessages
  <2> QED
    BY <2>1, Zenon
<1>3. PICK asks \in Seq(Message) : asks = <<x>>
  <2>1. <<x>> \in Seq(Message)
    OBVIOUS
  <2> QED
    BY <2>1, Zenon
<1>4. /\ A.hashes /\ End(s, i, "strings", bs, <<>>)
      /\ End(c, i, "awaitDeltas", bs, <<d>> \o asks)
  <2>1. "awaitFlag" # "awaitDeltas" /\ "awaitVerdict" # "awaitDeltas" /\ "strings" # "awaitDeltas"
    OBVIOUS
  <2> QED
    BY <1>2, <1>3, <2>1, Zenon DEF Spelled
<1>5. Head(chan[i][c]) = d /\ Tail(chan[i][c]) = asks
  <2>1. Head(<<d>> \o asks) = d /\ Tail(<<d>> \o asks) = asks
    BY FirstOfStream
  <2>2. chan[i][c] = <<d>> \o asks
    BY <1>4
  <2> QED
    BY <2>1, <2>2
<1>6. msgs = <<y>> /\ oms[c] \cup S = oms[c] /\ <<>> \o <<y>> = <<y>>
  <2>1. d.other = Own(c, i, b)
    BY <1>2 DEF DeltasOf, DeltasMsg
  <2>2. Strings(Head(chan[i][c]).other) = y
    BY <1>2, <1>5, <2>1, Zenon
  <2>3. <<>> \o <<y>> = <<y>>
    OBVIOUS
  <2> QED
    BY <1>1, <2>2, <2>3, NothingNew
<1>7. End(c, i, "strings", bs, asks)' /\ End(s, i, "strings", bs, <<y>>)'
  <2>1. End(c, i, "strings", bs, asks)'
    BY <1>4, <1>5, <1>6, Zenon DEF Went
  <2>2. End(s, i, "strings", bs, <<y>>)'
    <3>1. <<y>> = <<>> \o msgs
      BY <1>6
    <3> QED
      BY <1>1, <1>4, <3>1, Zenon DEF Went
  <2> QED
    BY <2>1, <2>2
<1>8. A' = A /\ Own(s, i, b)' = Own(s, i, b) /\ Own(c, i, b)' = Own(c, i, b)
  <2>1. base'[i] = base[i] /\ UNCHANGED <<agent, pos>>
    BY <1>4 DEF Went
  <2> QED
    BY <1>1, <2>1, Same
<1> QED
  <2>1. x = Strings(Own(s, i, b))' /\ y = Strings(Own(c, i, b))'
    BY <1>2, <1>8, Zenon DEF Strings
  <2> QED
    BY <1>1, <1>3, <1>4, <1>7, <1>8, <2>1, Zenon DEF Spelled

\* The differences are read.
LEMMA DeltasStay ==
    ASSUME Types, Link, ClientDeltas
    PROVE  Link'
<1>1. PICK c, s, i : c = "client" /\ s = "server" /\ i = comm[c]
  OBVIOUS
<1>2. /\ pc[c] = "awaitDeltas" /\ Incoming(c) # <<>> /\ c \in Hosts /\ s \in Hosts /\ s = Other(c)
      /\ UNCHANGED <<data, comm, history, agent, pos, calls>>
      /\ \/ /\ A.hashes /\ Answer(c, <<Strings(Head(Incoming(c)).other)>>)
            /\ Goto(c, "strings") /\ UNCHANGED oms
         \/ /\ ~A.hashes /\ Learn(c, Head(Incoming(c)).self) /\ Receive(c)
            /\ Goto(c, "awaitFlag")
  BY <1>1 DEF ClientDeltas, Receives, Hosts, Other, agentVars, A
<1>3. /\ i \in Rounds /\ Decided(i) /\ comm[c] = i /\ pc[c] # "returned"
      /\ Incoming(c) = chan[i][c] /\ \E bs \in Seq(Block) : Answered(c, i, bs)
  BY <1>1, <1>2, AtAnswer
<1>4. PICK bs \in Seq(Block) : Answered(c, i, bs)
  BY <1>3
<1>5. PICK b, rest : b = Head(bs) /\ rest = Tail(bs)
  OBVIOUS
<1>6. /\ bs # <<>> /\ calls[c] = CallsOf(c, i, bs) /\ Resolved(c, i, bs, oms[c])
      /\ b \in Block /\ rest \in Seq(Block)
      /\ \A n \in 1..Len(bs) : Good(i, bs[n])
      /\ Parted(i, bs, b, rest) \/ Solved(i, bs, b, rest) \/ Spelled(i, bs, b, rest)
      /\ \A p, as, q : End(c, i, p, as, q) => p = pc[c] /\ q = chan[i][c]
  BY <1>4, <1>5 DEF Answered, Blocks
<1>7. \A l, as, q : End(c, i, l, as, q) => l = "awaitDeltas" /\ q = chan[i][c]
  BY <1>2, <1>6
<1>8. ~Parted(i, bs, b, rest)
  <2>1. "awaitVerdict" # "awaitDeltas" /\ "awaitFlag" # "awaitDeltas"
    OBVIOUS
  <2> QED
    BY <1>1, <1>7, <2>1, Zenon DEF Parted
<1>9. CASE A.hashes
  <2>1. PICK S : S = {}
    OBVIOUS
  <2>2. S \subseteq Lacking(c, i) /\ oms' = [oms EXCEPT ![c] = oms[c] \cup S]
    BY <1>2, <1>9, <2>1, NothingNew
  <2>3. PICK msgs : msgs = <<Strings(Head(chan[i][c]).other)>>
    OBVIOUS
  <2>4. Answer(c, msgs) /\ Goto(c, "strings")
    BY <1>2, <1>3, <1>9, <2>3
  <2>5. PICK p : p = "strings" /\ p \notin {"returned", "connecting", "listening"}
    OBVIOUS
  <2>6. Went(c, i, p, bs, msgs, S)
    BY <1>2, <1>3, <1>6, <2>2, <2>4, <2>5, StaysIn
  <2>7. Spelled(i, bs, b, rest)
    BY <1>6, <1>8, <1>9, <1>7, <1>1, Zenon DEF Solved
  <2>8. Spelled(i, bs, b, rest)'
    BY <1>1, <1>3, <1>6, <1>7, <2>1, <2>3, <2>5, <2>6, <2>7, DeltasSpell
  <2>9. InHand(i, bs, b, rest)'
    BY <2>8 DEF InHand
  <2> QED
    BY <1>5, <1>6, <2>6, <2>9 DEF Went
<1>10. CASE ~A.hashes
  <2>1. PICK S : S = Own(s, i, b)
    OBVIOUS
  <2>2. /\ S \subseteq Lacking(c, i)
        /\ Resolved(c, i, bs, oms[c] \cup S) /\ Resolved(c, i, rest, oms[c] \cup S)
    BY <1>2, <1>3, <1>5, <1>6, <2>1, Learned
  <2>3. PICK p : p = "awaitFlag" /\ p \notin {"returned", "connecting", "listening"}
    OBVIOUS
  <2>5. Solved(i, bs, b, rest)
    BY <1>6, <1>8, <1>10, Zenon DEF Spelled
  <2>4. Went(c, i, p, bs, <<>>, S)
    <3>2. Head(chan[i][c]).self = S
      BY <1>1, <1>3, <1>6, <1>7, <2>1, <2>5, DeltasSay
    <3>1. oms' = [oms EXCEPT ![c] = oms[c] \cup S] /\ Receive(c) /\ Goto(c, p)
      BY <1>2, <1>3, <1>10, <2>3, <3>2 DEF Learn
    <3> QED
      BY <1>2, <1>3, <1>6, <2>2, <2>3, <3>1, StaysIn
  <2>6. Solved(i, bs, b, rest)'
    <3>1. Went(c, i, "awaitFlag", bs, <<>>, S)
      BY <2>3, <2>4
    <3> QED
      BY <1>1, <1>3, <1>6, <1>7, <2>1, <2>2, <2>5, <3>1, DeltasSolve
  <2>7. InHand(i, bs, b, rest)'
    BY <2>6 DEF InHand
  <2> QED
    BY <1>5, <1>6, <2>4, <2>7 DEF Went
<1> QED
  BY <1>9, <1>10

\* The strings are what the client lacks,
LEMMA StringsSay ==
    ASSUME Types, NEW i \in Rounds, NEW c, NEW s, c = "client", s = "server",
           NEW bs, NEW b \in Block, NEW rest \in Seq(Block),
           NEW x \in Message, x = Strings(Own(s, i, b)),
           NEW asks \in Seq(Message), asks = <<Flag(TRUE)>> \o Asks(s, i, rest),
           \A l, as, q : End(c, i, l, as, q) => l = "strings" /\ q = chan[i][c],
           Solved(i, bs, b, rest) \/ Spelled(i, bs, b, rest)
    PROVE  /\ Head(chan[i][c]).set = Own(s, i, b)
           /\ Solved(i, bs, b, rest) =>
                 Ahead(s, i, rest, <<>>) /\ Tail(chan[i][c]) = asks
           /\ Spelled(i, bs, b, rest) =>
                 /\ A.hashes /\ End(s, i, "strings", bs, <<Strings(Own(c, i, b))>>)
                 /\ Tail(chan[i][c]) = <<>>
<1>1. "awaitFlag" # "strings" /\ "awaitVerdict" # "strings" /\ "awaitDeltas" # "strings"
  OBVIOUS
<1>2. /\ Head(<<x>> \o asks) = x /\ Tail(<<x>> \o asks) = asks
      /\ Head(<<x>>) = x /\ Tail(<<x>>) = <<>>
  BY Streams
<1>3. Solved(i, bs, b, rest) => Ahead(s, i, rest, <<>>) /\ End(c, i, "strings", bs, <<x>> \o asks)
  BY <1>1, Zenon DEF Solved
<1>4. Spelled(i, bs, b, rest) =>
         /\ A.hashes /\ End(s, i, "strings", bs, <<Strings(Own(c, i, b))>>)
         /\ End(c, i, "strings", bs, <<x>>)
  BY <1>1, Zenon DEF Spelled
<1>5. Solved(i, bs, b, rest) => chan[i][c] = <<x>> \o asks
  BY <1>3, Zenon
<1>6. Spelled(i, bs, b, rest) => chan[i][c] = <<x>>
  BY <1>4, Zenon
<1>7. Head(chan[i][c]) = x
  BY <1>2, <1>5, <1>6, Zenon
<1>8. x.set = Own(s, i, b)
  BY DEF Strings
<1> QED
  BY <1>2, <1>3, <1>4, <1>5, <1>6, <1>7, <1>8, Zenon

\* which it learns.
LEMMA ClientStringsStay ==
    ASSUME Types, Link, ClientStrings
    PROVE  Link'
<1>1. PICK c, s, i : c = "client" /\ s = "server" /\ i = comm[c]
  OBVIOUS
<1>2. /\ pc[c] = "strings" /\ Incoming(c) # <<>> /\ c \in Hosts /\ s \in Hosts /\ s = Other(c)
      /\ UNCHANGED <<data, comm, history, agent, pos, calls>>
      /\ Learn(c, Head(Incoming(c)).set) /\ Receive(c) /\ Goto(c, "awaitFlag")
  BY <1>1 DEF ClientStrings, Receives, Hosts, Other, agentVars
<1>3. /\ i \in Rounds /\ Decided(i) /\ comm[c] = i /\ pc[c] # "returned"
      /\ Incoming(c) = chan[i][c] /\ \E bs \in Seq(Block) : Answered(c, i, bs)
  BY <1>1, <1>2, AtAnswer
<1>4. PICK bs \in Seq(Block) : Answered(c, i, bs)
  BY <1>3
<1>5. PICK b, rest : b = Head(bs) /\ rest = Tail(bs)
  OBVIOUS
<1>6. /\ bs # <<>> /\ calls[c] = CallsOf(c, i, bs) /\ Resolved(c, i, bs, oms[c])
      /\ b \in Block /\ rest \in Seq(Block)
      /\ \A n \in 1..Len(bs) : Good(i, bs[n])
      /\ Parted(i, bs, b, rest) \/ Solved(i, bs, b, rest) \/ Spelled(i, bs, b, rest)
      /\ \A p, as, q : End(c, i, p, as, q) => p = pc[c] /\ q = chan[i][c]
  BY <1>4, <1>5 DEF Answered, Blocks
<1>7. \A l, as, q : End(c, i, l, as, q) => l = "strings" /\ q = chan[i][c]
  BY <1>2, <1>6
<1>8. Solved(i, bs, b, rest) \/ Spelled(i, bs, b, rest)
  <2>1. "awaitVerdict" # "strings" /\ "awaitFlag" # "strings"
    OBVIOUS
  <2>2. ~Parted(i, bs, b, rest)
    BY <1>1, <1>7, <2>1, Zenon DEF Parted
  <2> QED
    BY <1>6, <2>2
<1>9. PICK x \in Message, t \in Message, rs \in Seq(Message) :
        x = Strings(Own(s, i, b)) /\ t = Flag(TRUE) /\ rs = Asks(s, i, rest)
  <2>1. Flag(TRUE) \in Message /\ Strings(Own(s, i, b)) \in Message
        /\ Asks(s, i, rest) \in Seq(Message)
    BY <1>2, <1>3, <1>6, MessageTypes, BlockMessages, AsksType
  <2> QED
    BY <2>1, Zenon
<1>10. PICK asks \in Seq(Message) : asks = <<Flag(TRUE)>> \o Asks(s, i, rest)
  <2>1. <<t>> \o rs \in Seq(Message)
    BY FirstOfStream
  <2> QED
    BY <1>9, <2>1, Zenon
<1>11. /\ Head(chan[i][c]).set = Own(s, i, b)
       /\ Solved(i, bs, b, rest) =>
             Ahead(s, i, rest, <<>>) /\ Tail(chan[i][c]) = asks
       /\ Spelled(i, bs, b, rest) =>
             /\ A.hashes /\ End(s, i, "strings", bs, <<Strings(Own(c, i, b))>>)
             /\ Tail(chan[i][c]) = <<>>
  <2>1. i \in Rounds /\ b \in Block /\ rest \in Seq(Block) /\ x = Strings(Own(s, i, b))
    BY <1>3, <1>6, <1>9
  <2> QED
    <3>1. c = "client" /\ s = "server"
      BY <1>1
    <3> QED
      BY <1>7, <1>8, <1>10, <2>1, <3>1, StringsSay
<1>12. PICK S : S = Own(s, i, b)
  OBVIOUS
<1>13. /\ S \subseteq Lacking(c, i)
       /\ Resolved(c, i, bs, oms[c] \cup S) /\ Resolved(c, i, rest, oms[c] \cup S)
  BY <1>2, <1>3, <1>5, <1>6, <1>12, Learned
<1>14. PICK p : p = "awaitFlag" /\ p \notin {"returned", "connecting", "listening"}
  OBVIOUS
<1>15. Went(c, i, p, bs, <<>>, S)
  <2>1. oms' = [oms EXCEPT ![c] = oms[c] \cup S] /\ Goto(c, p)
    BY <1>2, <1>3, <1>11, <1>12, <1>14 DEF Learn
  <2> QED
    BY <1>2, <1>3, <1>6, <1>13, <1>14, <2>1, StaysIn
<1>17. \A q : Tail(chan[i][c]) = q => End(c, i, "awaitFlag", bs, q)' /\ Settled(c, i, rest)'
  BY <1>13, <1>14, <1>15, Zenon DEF Went
<1>18. /\ A' = A /\ Own(c, i, b)' = Own(c, i, b) /\ Asks(s, i, rest)' = Asks(s, i, rest)
  <2>1. base'[i] = base[i] /\ UNCHANGED <<agent, pos>>
    BY <1>15 DEF Went
  <2> QED
    BY <1>2, <1>3, <2>1, Same
<1>19. ASSUME Solved(i, bs, b, rest) PROVE Solved(i, bs, b, rest)'
  <2>1. Ahead(s, i, rest, <<>>)'
    <3>1. End(s, i, Onward(rest), rest, <<>>) /\ <<>> \o <<>> = <<>>
      BY <1>11, <1>19 DEF Ahead
    <3>2. End(s, i, Onward(rest), rest, <<>>)'
      BY <1>2, <1>15, <3>1, Zenon DEF Went
    <3> QED
      BY <3>2 DEF Ahead
  <2>2. End(c, i, "awaitFlag", bs, asks)' /\ Settled(c, i, rest)'
    BY <1>11, <1>17, <1>19, Zenon
  <2>3. asks = (<<Flag(TRUE)>> \o Asks(s, i, rest))'
    BY <1>10, <1>18, Zenon DEF Flag
  <2> QED
    BY <1>1, <2>1, <2>2, <2>3, Zenon DEF Solved
<1>20. ASSUME Spelled(i, bs, b, rest) PROVE Spelled(i, bs, b, rest)'
  <2>1. PICK y \in Message : y = Strings(Own(c, i, b))
    BY <1>2, <1>3, <1>6, BlockMessages
  <2>2. End(s, i, "strings", bs, <<y>>) /\ <<y>> = <<y>> \o <<>>
    <3>1. <<y>> = <<y>> \o <<>>
      OBVIOUS
    <3> QED
      BY <1>11, <1>20, <2>1, <3>1, Zenon
  <2>3. End(s, i, "strings", bs, <<y>>)'
    BY <1>2, <1>15, <2>2, Zenon DEF Went
  <2>4. End(c, i, "awaitFlag", bs, <<>>)' /\ Settled(c, i, rest)'
    BY <1>11, <1>17, <1>20, Zenon
  <2>5. y = Strings(Own(c, i, b))'
    BY <1>18, <2>1, Zenon DEF Strings
  <2> QED
    BY <1>1, <1>11, <1>18, <1>20, <2>3, <2>4, <2>5, Zenon DEF Spelled
<1>21. InHand(i, bs, b, rest)'
  BY <1>8, <1>19, <1>20 DEF InHand
<1> QED
  BY <1>5, <1>6, <1>15, <1>21 DEF Went

\* The client catches up with the server, at the first of the blocks as.
LEMMA CatchesUp ==
    ASSUME Types, Link, NEW i \in Rounds, Decided(i), NEW c \in Hosts, NEW s \in Hosts,
           s = Other(c), c = Other(s), \A g \in Hosts : g = c \/ g = s,
           comm[c] = i, pc[c] # "returned",
           NEW as \in Seq(Block), \A n \in 1..Len(as) : Good(i, as[n]),
           Tail(chan[i][c]) = Asks(s, i, as), Resolved(c, i, as, oms[c]),
           Ahead(s, i, as, <<>>),
           Continue(c, <<>>, CallsOf(c, i, as)),
           UNCHANGED <<data, comm, oms, history, agent, pos>>
    PROVE  Link'
<1>1. PICK rc \in Seq(Message), rs \in Seq(Message) : rc = Asks(c, i, as) /\ rs = Asks(s, i, as)
  BY AsksType, Zenon
<1>2. <<>> \o rc = rc /\ <<>> \in Seq(Message)
  OBVIOUS
<1>3. PICK S : S = {}
  OBVIOUS
<1>4. /\ S \subseteq Lacking(c, i) /\ oms[c] \cup S = oms[c]
      /\ oms' = [oms EXCEPT ![c] = oms[c] \cup S]
  BY <1>3, NothingNew
<1>5. PICK none \in Seq(Message) : none = <<>>
  BY <1>2
<1>6. rc = none \o Asks(c, i, as) /\ Continue(c, none, CallsOf(c, i, as))
  BY <1>1, <1>2, <1>5, Zenon
<1>7. Went(c, i, Onward(as), as, rc, S)
  BY <1>4, <1>6, GoesOn
<1>8. End(c, i, Onward(as), as, rs)'
  BY <1>1, <1>4, <1>7, Zenon DEF Went
<1>9. End(s, i, Onward(as), as, rc)'
  <2>1. End(s, i, Onward(as), as, <<>>) /\ rc = <<>> \o rc
    BY <1>2 DEF Ahead
  <2> QED
    BY <1>7, <2>1, Zenon DEF Went
<1>10. Asks(c, i, as)' = rc /\ Asks(s, i, as)' = rs
  <2>1. base'[i] = base[i] /\ UNCHANGED <<agent, pos>>
    BY <1>7 DEF Went
  <2> QED
    BY <1>1, <2>1, Same
<1>11. Ahead(c, i, as, rs)' /\ Ahead(s, i, as, rc)'
  BY <1>8, <1>9 DEF Ahead
<1>12. Level(i, as)'
  BY <1>10, <1>11, Zenon DEF Level
<1> QED
  BY <1>7, <1>12 DEF Went

\* The server's flag: where the attempt failed the parts follow.
LEMMA FlagStays ==
    ASSUME Types, Link, Matched, ClientFlag
    PROVE  Link'
<1>1. PICK c, s, i : c = "client" /\ s = "server" /\ i = comm[c]
  OBVIOUS
<1>2. /\ pc[c] = "awaitFlag" /\ Incoming(c) # <<>> /\ c \in Hosts /\ s \in Hosts
      /\ s = Other(c) /\ c = Other(s) /\ \A g \in Hosts : g = c \/ g = s
      /\ UNCHANGED <<data, comm, oms, history, agent, pos>>
      /\ Continue(c, <<>>, (IF Head(Incoming(c)).ok THEN <<>> ELSE Parts(c, Node(c)))
                              \o Tail(calls[c]))
  BY <1>1 DEF ClientFlag, Receives, Hosts, Other
<1>3. /\ i \in Rounds /\ Decided(i) /\ comm[c] = i /\ pc[c] # "returned"
      /\ Incoming(c) = chan[i][c] /\ \E bs \in Seq(Block) : Answered(c, i, bs)
  BY <1>1, <1>2, AtAnswer
<1>4. PICK bs \in Seq(Block) : Answered(c, i, bs)
  BY <1>3
<1>5. PICK b, rest : b = Head(bs) /\ rest = Tail(bs)
  OBVIOUS
<1>6. /\ bs # <<>> /\ b \in Block /\ rest \in Seq(Block) /\ Good(i, b)
      /\ \A n \in 1..Len(rest) : Good(i, rest[n])
      /\ Node(c) = CallOf(c, i, b) /\ Tail(calls[c]) = CallsOf(c, i, rest)
      /\ Parted(i, bs, b, rest) \/ Solved(i, bs, b, rest) \/ Spelled(i, bs, b, rest)
      /\ \A p, as, q : End(c, i, p, as, q) => p = pc[c] /\ q = chan[i][c]
  BY <1>4, <1>5 DEF Answered
<1>7. \A l, as, q : End(c, i, l, as, q) => l = "awaitFlag" /\ q = chan[i][c]
  BY <1>2, <1>6
<1>8. "awaitVerdict" # "awaitFlag" /\ "awaitDeltas" # "awaitFlag" /\ "strings" # "awaitFlag"
  OBVIOUS
<1>9. CASE Parted(i, bs, b, rest)
  <2>1. PICK blocks : blocks = PartBlocks(b, A.pFactor) \o rest
    OBVIOUS
  <2>2. /\ blocks \in Seq(Block) /\ \A n \in 1..Len(blocks) : Good(i, blocks[n])
        /\ CallsOf(c, i, blocks) = Parts(c, CallOf(c, i, b)) \o CallsOf(c, i, rest)
    <3>1. /\ PartBlocks(b, A.pFactor) \o rest \in Seq(Block)
          /\ \A n \in 1..Len(PartBlocks(b, A.pFactor) \o rest) :
                Good(i, (PartBlocks(b, A.pFactor) \o rest)[n])
          /\ CallsOf(c, i, PartBlocks(b, A.pFactor) \o rest)
                = Parts(c, CallOf(c, i, b)) \o CallsOf(c, i, rest)
      BY <1>2, <1>3, <1>6, PartsFollow, Zenon
    <3> QED
      BY <2>1, <3>1, Zenon
  <2>3. PICK f \in Message, rs \in Seq(Message) : f = Flag(FALSE) /\ rs = Asks(s, i, blocks)
    <3>1. Flag(FALSE) \in Message /\ Asks(s, i, blocks) \in Seq(Message)
      BY <1>2, <1>3, <2>2, MessageTypes, AsksType
    <3> QED
      BY <3>1, Zenon
  <2>4. /\ Ahead(s, i, blocks, <<>>) /\ Settled(c, i, blocks)
        /\ End(c, i, "awaitFlag", bs, <<f>> \o rs)
    BY <1>1, <1>7, <1>8, <1>9, <2>1, <2>3, Zenon DEF Parted
  <2>5. Head(chan[i][c]) = f /\ Tail(chan[i][c]) = Asks(s, i, blocks)
    <3>1. Head(<<f>> \o rs) = f /\ Tail(<<f>> \o rs) = rs
      BY FirstOfStream
    <3>2. chan[i][c] = <<f>> \o rs
      BY <2>4 DEF End
    <3> QED
      BY <2>3, <3>1, <3>2, Zenon
  <2>6. Resolved(c, i, blocks, oms[c])
    BY <1>3, <2>4 DEF Settled
  <2>7. Continue(c, <<>>, CallsOf(c, i, blocks))
    <3>1. ~Head(Incoming(c)).ok
      BY <1>3, <2>3, <2>5 DEF Flag
    <3>2. Continue(c, <<>>, Parts(c, Node(c)) \o Tail(calls[c]))
      BY <1>2, <3>1, Zenon
    <3> QED
      BY <1>6, <2>2, <3>2, Zenon
  <2> QED
    BY <1>2, <1>3, <2>2, <2>4, <2>5, <2>6, <2>7, CatchesUp
<1>10. CASE Solved(i, bs, b, rest)
  <2>3. PICK t \in Message, rs \in Seq(Message) : t = Flag(TRUE) /\ rs = Asks(s, i, rest)
    <3>1. Flag(TRUE) \in Message /\ Asks(s, i, rest) \in Seq(Message)
      BY <1>2, <1>3, <1>6, MessageTypes, AsksType
    <3> QED
      BY <3>1, Zenon
  <2>4. /\ Ahead(s, i, rest, <<>>) /\ Settled(c, i, rest)
        /\ End(c, i, "awaitFlag", bs, <<t>> \o rs)
    BY <1>1, <1>7, <1>8, <1>10, <2>3, Zenon DEF Solved
  <2>5. Head(chan[i][c]) = t /\ Tail(chan[i][c]) = Asks(s, i, rest)
    <3>1. Head(<<t>> \o rs) = t /\ Tail(<<t>> \o rs) = rs
      BY FirstOfStream
    <3>2. chan[i][c] = <<t>> \o rs
      BY <2>4 DEF End
    <3> QED
      BY <2>3, <3>1, <3>2, Zenon
  <2>6. Resolved(c, i, rest, oms[c])
    BY <1>3, <2>4 DEF Settled
  <2>7. Continue(c, <<>>, CallsOf(c, i, rest))
    <3>1. Head(Incoming(c)).ok
      BY <1>3, <2>3, <2>5 DEF Flag
    <3>2. Continue(c, <<>>, <<>> \o Tail(calls[c]))
      BY <1>2, <3>1, Zenon
    <3>3. <<>> \o Tail(calls[c]) = CallsOf(c, i, rest)
      <4>1. CallsOf(c, i, rest) \in Seq(Call)
        BY <1>2, <1>3, <1>6, CallsOfIs
      <4> QED
        BY <1>6, <4>1
    <3> QED
      BY <3>2, <3>3, Zenon
  <2> QED
    BY <1>2, <1>3, <1>6, <2>4, <2>5, <2>6, <2>7, CatchesUp
<1>11. ~Spelled(i, bs, b, rest)
  <2>1. chan[i][c] # <<>>
    BY <1>2, <1>3
  <2> QED
    BY <1>1, <1>7, <1>8, <2>1, Zenon DEF Spelled
<1> QED
  BY <1>6, <1>9, <1>10, <1>11

(***************************************************************************)
(* The steps of the handshake.                                             *)
(***************************************************************************)
\* After the decision no host is before its calls.
LEMMA DecidedPlaces ==
    ASSUME NEW i \in Rounds, Decided(i), NEW h \in Hosts
    PROVE  Place(h, i) \in InCall \cup {"post", "awaitParams", "quit"}
<1> PICK bs \in Seq(Block) : Blocks(i, bs)
  BY DEF Decided
<1> DEFINE Late == InCall \cup {"post", "awaitParams", "quit"}
           b == Head(bs)
           rest == Tail(bs)
           Goal == Place(h, i) \in Late
<1>1. /\ \A as, q : Ahead(h, i, as, q) => Goal
      /\ \A p, as, q : End(h, i, p, as, q) /\ p \in Late => Goal
  BY DEF Ahead, End, Onward, InCall
<1>2. {"info", "all", "recvEvals", "strings", "awaitVerdict", "awaitDeltas", "awaitFlag",
       "awaitParams", "quit"} \subseteq Late
  BY DEF InCall
<1>3. h = "client" \/ h = "server"
  BY DEF Hosts
<1>4. \A g \in Hosts : h = g \/ h = Other(g)
  BY DEF Hosts, Other
<1>5. Opened(i, bs) => Goal
  BY <1>1, <1>2, <1>3 DEF Opened
<1> HIDE DEF Goal, Late, b, rest
<1>6. Level(i, bs) => Goal
  BY <1>1 DEF Level
<1>7. \A p \in {"info", "all", "recvEvals", "strings", "awaitVerdict", "awaitDeltas", "awaitFlag"} :
         \A as, q : End(h, i, p, as, q) => Goal
  BY <1>1, <1>2
<1>8. /\ \A as, q : End(h, i, "info", as, q) => Goal
      /\ \A as, q : End(h, i, "all", as, q) => Goal
      /\ \A as, q : End(h, i, "recvEvals", as, q) => Goal
      /\ \A as, q : End(h, i, "strings", as, q) => Goal
      /\ \A as, q : End(h, i, "awaitVerdict", as, q) => Goal
      /\ \A as, q : End(h, i, "awaitDeltas", as, q) => Goal
      /\ \A as, q : End(h, i, "awaitFlag", as, q) => Goal
  BY <1>7
<1>9. ASSUME NEW g \in Hosts PROVE Skipped(g, i, bs, b, rest) \/ Given(g, i, bs, b, rest) => Goal
  BY <1>1, <1>4, <1>8, Zenon DEF Skipped, Given
<1>10. Tried(i, bs, b, rest) => Goal
  BY <1>3, <1>8, Zenon DEF Tried
<1>11. Parted(i, bs, b, rest) => Goal
  BY <1>1, <1>3, <1>8, Zenon DEF Parted
<1>12. Solved(i, bs, b, rest) => Goal
  BY <1>1, <1>3, <1>8, Zenon DEF Solved
<1>13. Spelled(i, bs, b, rest) => Goal
  BY <1>3, <1>8, Zenon DEF Spelled
<1>14. Goal
  BY <1>5, <1>6, <1>9, <1>10, <1>11, <1>12, <1>13, Zenon DEF Blocks, InHand, b, rest
<1> QED
  BY <1>14 DEF Goal, Late

\* The phases in which a host can be where it is, before its calls.
LEMMA Phases ==
    ASSUME NEW i \in Rounds, Round(i)
    PROVE  LET c == Place("client", i)
               s == Place("server", i)
           IN
           /\ c \in {"begin", "connecting"} => Undecided(i) /\ Idle(i)
           /\ s \in {"begin", "listening"} => Undecided(i) /\ Idle(i)
           /\ s = "recvMod" => Undecided(i) /\ ModSent(i)
           /\ c = "awaitMod" => Undecided(i) /\ (ModSent(i) \/ ModFine(i))
           /\ s = "recvParams" => Undecided(i) /\ (ModFine(i) \/ ParamsSent(i))
<1> PICK c, s : c = Place("client", i) /\ s = Place("server", i)
  OBVIOUS
<1>1. Decided(i) => /\ c \in InCall \cup {"post", "awaitParams", "quit"}
                    /\ s \in InCall \cup {"post", "awaitParams", "quit"}
  BY DecidedPlaces, HostsType
<1>2. Decided(i) => /\ c \notin {"begin", "connecting", "awaitMod"}
                    /\ s \notin {"begin", "listening", "recvMod", "recvParams"}
  BY <1>1 DEF InCall
<1>3. /\ Idle(i) => c \in {"begin", "connecting", "quit"} /\ s \in {"begin", "listening", "quit"}
      /\ ModSent(i) => c \in {"awaitMod", "quit"} /\ s \in {"recvMod", "quit"}
      /\ ModFine(i) => c \in {"awaitMod", "quit"} /\ s \in {"recvParams", "quit"}
      /\ ParamsSent(i) => c \in {"awaitParams", "quit"} /\ s \in {"recvParams", "quit"}
  BY DEF Idle, ModSent, ModFine, ParamsSent, At
<1>4. Undecided(i) => Idle(i) \/ ModSent(i) \/ ModFine(i) \/ ParamsSent(i)
  BY DEF Undecided
<1>5. Undecided(i) \/ Decided(i)
  BY DEF Round
<1>6. /\ c \in {"begin", "connecting"} => Undecided(i) /\ Idle(i)
      /\ s \in {"begin", "listening"} => Undecided(i) /\ Idle(i)
      /\ s = "recvMod" => Undecided(i) /\ ModSent(i)
      /\ c = "awaitMod" => Undecided(i) /\ (ModSent(i) \/ ModFine(i))
      /\ s = "recvParams" => Undecided(i) /\ (ModFine(i) \/ ParamsSent(i))
  BY <1>2, <1>3, <1>4, <1>5
<1> QED
  BY <1>6

\* What a step of the hosts in round i leaves of the others.
LEMMA Elsewhere ==
    ASSUME Types, Link, NEW i \in Rounds, UNCHANGED <<data, comm, agent, pos>>,
           \A j \in Rounds \ {i} :
              chan'[j] = chan[j] /\ verdict'[j] = verdict[j] /\ base'[j] = base[j],
           \A g \in Hosts : /\ comm[g] # i => /\ pc'[g] = pc[g] /\ calls'[g] = calls[g]
                                              /\ oms'[g] = oms[g]
                            /\ pc'[g] = "returned" <=> pc[g] = "returned"
    PROVE  /\ \A j \in Rounds \ {i} : Round(j)'
           /\ \A g \in Hosts : comm[g] = i /\ pc[g] # "returned" =>
                                  Place(g, i)' = pc'[g] /\ ListOf(g, i)' = calls'[g]
           /\ \A g \in Hosts : pc'[g] = pc[g] => Place(g, i)' = Place(g, i)
           /\ \A g \in Hosts : calls'[g] = calls[g] => ListOf(g, i)' = ListOf(g, i)
<1>1. comm \in [Hosts -> 1..Sessions] /\ Sessions \in Nat /\ i \in 1..Sessions
  BY HostsAssumption DEF Types, TypeOK, HostsTypeOK, Rounds
<1>2. ASSUME NEW j \in Rounds \ {i} PROVE Round(j)'
  <2>1. ASSUME NEW g \in Hosts
        PROVE  /\ Place(g, j)' = Place(g, j) /\ ListOf(g, j)' = ListOf(g, j)
               /\ comm'[g] = j => /\ comm[g] = j /\ oms'[g] = oms[g] /\ pc'[g] = pc[g]
                                  /\ data'[g] = data[g]
    <3>1. CASE comm[g] = i
      BY <1>1, <3>1 DEF Place, ListOf, Rounds
    <3>2. CASE comm[g] # i
      BY <3>2 DEF Place, ListOf
    <3> QED
      BY <3>1, <3>2
  <2> QED
    BY <2>1, RoundFrame DEF Link
<1>3. \A g \in Hosts : comm[g] = i /\ pc[g] # "returned" =>
                          Place(g, i)' = pc'[g] /\ ListOf(g, i)' = calls'[g]
  BY <1>1 DEF Place, ListOf
<1>4. \A g \in Hosts : pc'[g] = pc[g] => Place(g, i)' = Place(g, i)
  BY DEF Place
<1>5. \A g \in Hosts : calls'[g] = calls[g] => ListOf(g, i)' = ListOf(g, i)
  BY DEF ListOf
<1> QED
  BY <1>2, <1>3, <1>4, <1>5

\* A step before the decision.
LEMMA Handshakes ==
    ASSUME Types, Link, NEW i \in Rounds, Undecided(i),
           UNCHANGED <<data, comm, agent, pos, verdict, base, calls>>,
           \A j \in Rounds \ {i} : chan'[j] = chan[j],
           \A g \in Hosts : /\ comm[g] # i => pc'[g] = pc[g] /\ oms'[g] = oms[g]
                            /\ pc'[g] = "returned" <=> pc[g] = "returned",
           Idle(i)' \/ ModSent(i)' \/ ModFine(i)' \/ ParamsSent(i)'
    PROVE  Link'
<1>1. /\ \A j \in Rounds \ {i} : Round(j)'
      /\ \A g \in Hosts : ListOf(g, i)' = ListOf(g, i)
  BY Elsewhere
<1>2. Round(i)'
  BY <1>1 DEF Round, Undecided
<1> QED
  BY <1>1, <1>2 DEF Link

\* A host that quits.
LEMMA QuitStays ==
    ASSUME Types, Link, NEW h \in Hosts, Quit(h), pc[h] \notin Ended,
           UNCHANGED <<data, comm, chan, oms, history, agent, pos, calls>>
    PROVE  Link'
<1>1. comm \in [Hosts -> 1..Sessions] /\ Sessions \in Nat /\ DOMAIN pc = Hosts
  BY HostsAssumption DEF Types, TypeOK, HostsTypeOK, Rounds
<1>2. pc'[h] = "quit" /\ \A g \in Hosts \ {h} : pc'[g] = pc[g]
  BY <1>1 DEF Quit, Goto
<1>3. ASSUME NEW i \in Rounds PROVE Round(i)'
  <2>1. \A g \in Hosts : /\ Place(g, i)' = Place(g, i) \/ Place(g, i)' = "quit"
                         /\ ListOf(g, i)' = ListOf(g, i)
    BY <1>1, <1>2 DEF Place, ListOf, Ended
  <2>2. \A g \in Hosts : comm'[g] = i =>
           /\ comm[g] = i /\ oms'[g] = oms[g]
           /\ pc'[g] \in {"connecting", "listening"} => pc'[g] = pc[g]
           /\ pc'[g] # "returned" => pc[g] # "returned" /\ data'[g] = data[g]
    BY <1>2 DEF Ended
  <2> QED
    BY <2>1, <2>2, RoundFrame DEF Link, history
<1> QED
  BY <1>3 DEF Link

\* A host begins.
LEMMA BeginStays ==
    ASSUME Types, Link, NEW h \in Hosts, Begin(h)
    PROVE  Link'
<1> PICK c \in Hosts, s \in Hosts : c = "client" /\ s = "server" /\ c # s /\ Hosts = {c, s}
  BY Two
<1>1. comm[h] \in Rounds /\ DOMAIN pc = Hosts /\ DOMAIN oms = Hosts
  BY DEF Types, TypeOK, HostsTypeOK
<1> PICK i \in Rounds : i = comm[h]
  BY <1>1
<1>2. /\ pc[h] = "begin"
      /\ pc' = [pc EXCEPT ![h] = IF h = c THEN "connecting" ELSE "listening"]
      /\ oms' = [oms EXCEPT ![h] = {}]
      /\ UNCHANGED <<data, comm, chan, verdict, base, agent, pos, calls>>
  BY DEF Begin, Goto, agentVars, history
<1>3. Undecided(i) /\ Idle(i)
  <2>1. Place(h, i) = "begin" /\ Round(i)
    BY <1>2, Here
  <2> QED
    BY <2>1, Phases
<1>4. /\ pc'[h] = IF h = c THEN "connecting" ELSE "listening"
      /\ \A g \in Hosts \ {h} : pc'[g] = pc[g] /\ oms'[g] = oms[g]
      /\ oms'[h] = {}
  BY <1>1, <1>2
<1>5. /\ \A g \in Hosts : /\ comm[g] # i => pc'[g] = pc[g] /\ oms'[g] = oms[g]
                          /\ pc'[g] = "returned" <=> pc[g] = "returned"
  BY <1>2, <1>4
<1>6. Place(h, i)' = pc'[h] /\ \A g \in Hosts \ {h} : Place(g, i)' = Place(g, i)
  <2>1. \A j \in Rounds \ {i} :
            chan'[j] = chan[j] /\ verdict'[j] = verdict[j] /\ base'[j] = base[j]
    BY <1>2
  <2>2. \A g \in Hosts : /\ comm[g] # i => /\ pc'[g] = pc[g] /\ calls'[g] = calls[g]
                                           /\ oms'[g] = oms[g]
                         /\ pc'[g] = "returned" <=> pc[g] = "returned"
    BY <1>2, <1>5
  <2>3. /\ \A g \in Hosts : comm[g] = i /\ pc[g] # "returned" =>
                                  Place(g, i)' = pc'[g] /\ ListOf(g, i)' = calls'[g]
        /\ \A g \in Hosts : pc'[g] = pc[g] => Place(g, i)' = Place(g, i)
    BY <1>2, <2>1, <2>2, Elsewhere
  <2> QED
    BY <1>2, <1>4, <2>3
<1>7. Idle(i)'
  <2>1. At(i, {"begin", "connecting"}, {"begin", "listening"})'
    BY <1>3, <1>4, <1>6 DEF Idle, At
  <2>2. Carries(i, <<>>, <<>>)'
    BY <1>2, <1>3 DEF Idle, Carries
  <2>3. \A g \in Hosts : comm'[g] = i /\ pc'[g] \in {"connecting", "listening"} => oms'[g] = {}
    BY <1>2, <1>3, <1>4 DEF Idle
  <2> QED
    BY <2>1, <2>2, <2>3 DEF Idle
<1> QED
  BY <1>2, <1>3, <1>5, <1>7, Handshakes

\* The messages of the handshake are messages.
LEMMA HandshakeMessages ==
    ASSUME Types
    PROVE  /\ ModMsg \in Message /\ ParamsMsg \in Message
           /\ \A ok \in BOOLEAN : Flag(ok) \in Message
<1>1. agent["client"].mod \in Tokens /\ agent["client"].par \in Tokens
  BY SetupTypes, HostsType DEF Types
<1> QED
  BY <1>1, MessageTypes DEF ModMsg, ParamsMsg, A

\* The connection, and the modulus.
LEMMA ConnectStays ==
    ASSUME Types, Link, ClientConnect
    PROVE  Link'
<1> PICK c \in Hosts, s \in Hosts :
        /\ c = "client" /\ s = "server" /\ c # s /\ Other(c) = s /\ Hosts = {c, s}
  BY Two
<1>1. comm[c] \in Rounds /\ DOMAIN pc = Hosts
  BY DEF Types, TypeOK, HostsTypeOK
<1> PICK i \in Rounds : i = comm[c]
  BY <1>1
<1>2. /\ pc[c] = "connecting" /\ pc[s] = "listening" /\ comm[s] = i
      /\ pc' = [pc EXCEPT ![c] = "awaitMod", ![s] = "recvMod"]
      /\ Send(c, <<ModMsg>>)
      /\ UNCHANGED <<data, comm, oms, verdict, base, agent, pos, calls>>
  BY DEF ClientConnect, Listening, ModMsg, A, agentVars, history
<1>3. Undecided(i) /\ Idle(i)
  <2>1. Place(c, i) = "connecting" /\ Round(i)
    BY <1>2, Here
  <2> QED
    BY <2>1, Phases
<1>4. /\ chan'[i][c] = <<>> /\ chan'[i][s] = <<ModMsg>>
      /\ \A j \in Rounds \ {i} : chan'[j] = chan[j]
  <2>1. /\ chan'[comm[c]][c] = chan[comm[c]][c]
        /\ chan'[comm[c]][Other(c)] = chan[comm[c]][Other(c)] \o <<ModMsg>>
        /\ \A j \in Rounds \ {comm[c]} : chan'[j] = chan[j]
    BY <1>2, SendStreams DEF Types
  <2>2. chan[i][c] = <<>> /\ chan[i][s] = <<>>
    BY <1>3 DEF Idle, Carries
  <2>3. <<>> \o <<ModMsg>> = <<ModMsg>>
    OBVIOUS
  <2> QED
    BY <2>1, <2>2, <2>3
<1>5. pc'[c] = "awaitMod" /\ pc'[s] = "recvMod"
  BY <1>1, <1>2
<1>6. /\ \A g \in Hosts : /\ comm[g] # i => /\ pc'[g] = pc[g] /\ calls'[g] = calls[g]
                                            /\ oms'[g] = oms[g]
                          /\ pc'[g] = "returned" <=> pc[g] = "returned"
      /\ \A j \in Rounds \ {i} :
            chan'[j] = chan[j] /\ verdict'[j] = verdict[j] /\ base'[j] = base[j]
  BY <1>2, <1>4, <1>5
<1>7. Place(c, i)' = "awaitMod" /\ Place(s, i)' = "recvMod"
  <2>1. \A g \in Hosts : comm[g] = i /\ pc[g] # "returned" =>
                                  Place(g, i)' = pc'[g] /\ ListOf(g, i)' = calls'[g]
    BY <1>2, <1>6, Elsewhere
  <2> QED
    BY <1>2, <1>5, <2>1
<1>8. ModSent(i)'
  <2>1. ModMsg' = ModMsg
    BY <1>2 DEF ModMsg, A
  <2>2. NothingLearned(i)'
    BY <1>2, <1>3 DEF NothingLearned, Idle
  <2> QED
    BY <1>4, <1>7, <2>1, <2>2 DEF ModSent, At, Carries
<1> QED
  BY <1>2, <1>3, <1>6, <1>8, Handshakes

\* The server compares the modulus,
LEMMA ServerModStays ==
    ASSUME Types, Link, Matched, ServerMod
    PROVE  Link'
<1> PICK c \in Hosts, s \in Hosts :
        /\ c = "client" /\ s = "server" /\ c # s /\ Other(s) = c /\ Hosts = {c, s}
  BY Two
<1>1. comm[s] \in Rounds /\ DOMAIN pc = Hosts
  BY DEF Types, TypeOK, HostsTypeOK
<1> PICK i \in Rounds : i = comm[s]
  BY <1>1
<1>2. pc[s] = "recvMod" /\ UNCHANGED <<data, comm, oms, verdict, base, agent, pos, calls>>
  BY DEF ServerMod, agentVars, history
<1>3. Undecided(i) /\ ModSent(i)
  <2>1. Place(s, i) = "recvMod" /\ Round(i)
    BY <1>2, Here
  <2> QED
    BY <2>1, Phases
<1>4. chan[i][s] = <<ModMsg>> /\ chan[i][c] = <<>> /\ Head(<<ModMsg>>) = ModMsg
  BY <1>3 DEF ModSent, Carries
<1>5. Answer(s, <<Flag(TRUE)>>) /\ Goto(s, "recvParams")
  <2>1. (Head(Incoming(s)).mod = agent[s].mod) = TRUE
    BY <1>4 DEF Incoming, ModMsg, A, Matched
  <2> QED
    BY <2>1 DEF ServerMod
<1>6. /\ chan'[i][c] = <<Flag(TRUE)>> /\ chan'[i][s] = <<>>
      /\ \A j \in Rounds \ {i} : chan'[j] = chan[j]
  <2>1. /\ chan'[comm[s]][s] = Tail(chan[comm[s]][s])
        /\ chan'[comm[s]][Other(s)] = chan[comm[s]][Other(s)] \o <<Flag(TRUE)>>
        /\ \A j \in Rounds \ {comm[s]} : chan'[j] = chan[j]
    BY <1>5, AnswerStreams DEF Types
  <2>2. <<>> \o <<Flag(TRUE)>> = <<Flag(TRUE)>> /\ Tail(<<ModMsg>>) = <<>>
    OBVIOUS
  <2> QED
    BY <1>4, <2>1, <2>2
<1>7. pc'[s] = "recvParams" /\ \A g \in Hosts \ {s} : pc'[g] = pc[g]
  BY <1>1, <1>5 DEF Goto
<1>8. /\ \A g \in Hosts : /\ comm[g] # i => /\ pc'[g] = pc[g] /\ calls'[g] = calls[g]
                                            /\ oms'[g] = oms[g]
                          /\ pc'[g] = "returned" <=> pc[g] = "returned"
      /\ \A j \in Rounds \ {i} :
            chan'[j] = chan[j] /\ verdict'[j] = verdict[j] /\ base'[j] = base[j]
  BY <1>2, <1>6, <1>7
<1>9. Place(s, i)' = "recvParams" /\ Place(c, i)' = Place(c, i)
  <2>1. /\ \A g \in Hosts : comm[g] = i /\ pc[g] # "returned" =>
                                  Place(g, i)' = pc'[g] /\ ListOf(g, i)' = calls'[g]
        /\ \A g \in Hosts : pc'[g] = pc[g] => Place(g, i)' = Place(g, i)
    BY <1>2, <1>8, Elsewhere
  <2> QED
    BY <1>2, <1>7, <2>1
<1>10. ModFine(i)'
  <2>1. NothingLearned(i)'
    BY <1>2, <1>3 DEF NothingLearned, ModSent
  <2> QED
    BY <1>3, <1>6, <1>9, <2>1 DEF ModFine, ModSent, At, Carries, Flag
<1> QED
  BY <1>2, <1>3, <1>8, <1>10, Handshakes

\* and the client goes on to the parameters.
LEMMA ClientModStays ==
    ASSUME Types, Link, ClientMod
    PROVE  Link'
<1> PICK c \in Hosts, s \in Hosts :
        /\ c = "client" /\ s = "server" /\ c # s /\ Other(c) = s /\ Hosts = {c, s}
  BY Two
<1>1. comm[c] \in Rounds /\ DOMAIN pc = Hosts
  BY DEF Types, TypeOK, HostsTypeOK
<1> PICK i \in Rounds : i = comm[c]
  BY <1>1
<1>2. /\ pc[c] = "awaitMod" /\ Incoming(c) # <<>>
      /\ UNCHANGED <<data, comm, oms, verdict, base, agent, pos, calls>>
  BY DEF ClientMod, Receives, agentVars, history
<1>3. Undecided(i) /\ ModFine(i)
  <2>1. Place(c, i) = "awaitMod" /\ Round(i)
    BY <1>2, Here
  <2>2. ~ModSent(i)
    BY <1>2 DEF ModSent, Carries, Incoming
  <2> QED
    BY <2>1, <2>2, Phases
<1>4. chan[i][c] = <<Flag(TRUE)>> /\ chan[i][s] = <<>> /\ Head(<<Flag(TRUE)>>) = Flag(TRUE)
  BY <1>3 DEF ModFine, Carries
<1>5. Answer(c, <<ParamsMsg>>) /\ Goto(c, "awaitParams")
  <2>1. Head(Incoming(c)).ok
    BY <1>4 DEF Incoming, Flag
  <2> QED
    BY <2>1 DEF ClientMod, ParamsMsg, A
<1>6. /\ chan'[i][c] = <<>> /\ chan'[i][s] = <<ParamsMsg>>
      /\ \A j \in Rounds \ {i} : chan'[j] = chan[j]
  <2>1. /\ chan'[comm[c]][c] = Tail(chan[comm[c]][c])
        /\ chan'[comm[c]][Other(c)] = chan[comm[c]][Other(c)] \o <<ParamsMsg>>
        /\ \A j \in Rounds \ {comm[c]} : chan'[j] = chan[j]
    BY <1>5, AnswerStreams DEF Types
  <2>2. <<>> \o <<ParamsMsg>> = <<ParamsMsg>> /\ Tail(<<Flag(TRUE)>>) = <<>>
    OBVIOUS
  <2> QED
    BY <1>4, <2>1, <2>2
<1>7. pc'[c] = "awaitParams" /\ \A g \in Hosts \ {c} : pc'[g] = pc[g]
  BY <1>1, <1>5 DEF Goto
<1>8. /\ \A g \in Hosts : /\ comm[g] # i => /\ pc'[g] = pc[g] /\ calls'[g] = calls[g]
                                            /\ oms'[g] = oms[g]
                          /\ pc'[g] = "returned" <=> pc[g] = "returned"
      /\ \A j \in Rounds \ {i} :
            chan'[j] = chan[j] /\ verdict'[j] = verdict[j] /\ base'[j] = base[j]
  BY <1>2, <1>6, <1>7
<1>9. Place(c, i)' = "awaitParams" /\ Place(s, i)' = Place(s, i)
  <2>1. /\ \A g \in Hosts : comm[g] = i /\ pc[g] # "returned" =>
                                  Place(g, i)' = pc'[g] /\ ListOf(g, i)' = calls'[g]
        /\ \A g \in Hosts : pc'[g] = pc[g] => Place(g, i)' = Place(g, i)
    BY <1>2, <1>8, Elsewhere
  <2> QED
    BY <1>2, <1>7, <2>1
<1>10. ParamsSent(i)'
  <2>1. NothingLearned(i)'
    BY <1>2, <1>3 DEF NothingLearned, ModFine
  <2>2. ParamsMsg' = ParamsMsg
    BY <1>2 DEF ParamsMsg, A
  <2> QED
    BY <1>3, <1>6, <1>9, <2>1, <2>2 DEF ModFine, ParamsSent, At, Carries
<1> QED
  BY <1>2, <1>3, <1>8, <1>10, Handshakes

\* The root of a decision fits the sets that the decision was taken on.
RootFits(i) ==
    /\ RootBlock(i) \in Block /\ Good(i, RootBlock(i))
    /\ \A h \in Hosts : data[h] = base[i][h] => CallOf(h, i, RootBlock(i)) = Root(h)
    /\ \A h \in Hosts : \A S : Resolved(h, i, <<RootBlock(i)>>, S)
Rooted == \A i \in Rounds : RootFits(i)

\* The root fits where the variables have their types,
LEMMA RootsFit == Types => Rooted
BY RootIsGood DEF Rooted, RootFits

\* also after a step,
LEMMA RootsFitNext == Types' => Rooted'
BY RootsFit, PTL

\* and so does the list of one call that each host begins with.
LEMMA RootCalls ==
    ASSUME Types, NEW i \in Rounds, NEW h \in Hosts, data[h] = base[i][h]
    PROVE  /\ <<RootBlock(i)>> \in Seq(Block) /\ <<RootBlock(i)>> # <<>>
           /\ Head(<<RootBlock(i)>>) = RootBlock(i)
           /\ CallsOf(h, i, <<RootBlock(i)>>) = <<Root(h)>>
           /\ \A n \in 1..Len(<<RootBlock(i)>>) : Good(i, <<RootBlock(i)>>[n])
<1> PICK b \in Block : b = RootBlock(i) /\ Good(i, b) /\ CallOf(h, i, b) = Root(h)
  BY RootsFit DEF Rooted, RootFits
<1>0. <<b>> \in Seq(Block) /\ <<b>> # <<>> /\ Head(<<b>>) = b
  BY Streams
<1> PICK bs \in Seq(Block) : bs = <<b>>
  BY <1>0, Zenon
<1>1. bs # <<>> /\ Head(bs) = b /\ Len(bs) = 1 /\ bs[1] = b
  OBVIOUS
<1>2. CallsOf(h, i, bs) = <<Root(h)>>
  <2> PICK cs : cs = CallsOf(h, i, bs)
    OBVIOUS
  <2>1. cs \in Seq(Call) /\ Len(cs) = 1 /\ cs[1] = CallOf(h, i, bs[1])
    BY <1>1, CallsOfIs
  <2>2. cs[1] = Root(h)
    BY <1>1, <2>1
  <2>3. cs = <<cs[1]>>
    BY <2>1
  <2> QED
    BY <2>2, <2>3
<1>3. \A n \in 1..Len(bs) : Good(i, bs[n])
  BY <1>1
<1>4. bs = <<RootBlock(i)>>
  OBVIOUS
<1> QED
  BY <1>1, <1>2, <1>3, <1>4, Zenon

CalledAtRoot ==
    \A i \in Rounds, h \in Hosts : data[h] = base[i][h] =>
        /\ <<RootBlock(i)>> \in Seq(Block) /\ <<RootBlock(i)>> # <<>>
        /\ Head(<<RootBlock(i)>>) = RootBlock(i)
        /\ CallsOf(h, i, <<RootBlock(i)>>) = <<Root(h)>>
        /\ \A n \in 1..Len(<<RootBlock(i)>>) : Good(i, <<RootBlock(i)>>[n])

\* In every state whose variables have their types,
LEMMA RootCallsNow == Types => CalledAtRoot
BY RootCalls DEF CalledAtRoot

\* and in the next one.
LEMMA RootCallsNext == Types' => CalledAtRoot'
BY RootCallsNow, PTL

\* The server takes the decision: the root is the block before it.
LEMMA ServerParamsStays ==
    ASSUME Types, Types', Link, Matched, ServerParams
    PROVE  Link'
<1> PICK c \in Hosts, s \in Hosts :
        /\ c = "client" /\ s = "server" /\ c # s /\ Other(s) = c /\ Hosts = {c, s}
  BY Two
<1>1. /\ comm[s] \in Rounds /\ DOMAIN pc = Hosts /\ DOMAIN calls = Hosts
      /\ DOMAIN verdict = Rounds /\ DOMAIN base = Rounds
  BY DEF Types, TypeOK, HostsTypeOK
<1> PICK i \in Rounds : i = comm[s]
  BY <1>1
<1>2. pc[s] = "recvParams" /\ Incoming(s) # <<>> /\ UNCHANGED <<data, comm, oms, agent, pos>>
  BY DEF ServerParams, Receives
<1>3. Undecided(i) /\ ParamsSent(i)
  <2>1. Place(s, i) = "recvParams" /\ Round(i)
    BY <1>2, Here
  <2>2. ~ModFine(i)
    BY <1>2 DEF ModFine, Carries, Incoming
  <2> QED
    BY <2>1, <2>2, Phases
<1>4. chan[i][s] = <<ParamsMsg>> /\ chan[i][c] = <<>> /\ Head(<<ParamsMsg>>) = ParamsMsg
  BY <1>3 DEF ParamsSent, Carries
<1>5. Decide("ok") /\ Continue(s, <<Flag(TRUE)>>, <<Root(s)>>)
  <2>1. (Head(Incoming(s)).par = agent[s].par) = TRUE
    BY <1>4 DEF Incoming, ParamsMsg, A, Matched
  <2> QED
    BY <2>1 DEF ServerParams
<1>6. /\ Answer(s, <<Flag(TRUE)>> \o <<Info(s, Root(s))>>)
      /\ pc' = [pc EXCEPT ![s] = "info"] /\ calls' = [calls EXCEPT ![s] = <<Root(s)>>]
  <2>1. <<Root(s)>> # <<>> /\ Head(<<Root(s)>>) = Root(s)
    OBVIOUS
  <2> QED
    BY <1>5, <2>1 DEF Continue, Goto
<1>7. /\ chan'[i][c] = <<Flag(TRUE)>> \o <<Info(s, Root(s))>> /\ chan'[i][s] = <<>>
      /\ \A j \in Rounds \ {i} : chan'[j] = chan[j]
  <2>1. PICK m : m = <<Flag(TRUE)>> \o <<Info(s, Root(s))>> /\ m \in Seq(Message)
    <3>1. Flag(TRUE) \in Message
      BY HandshakeMessages
    <3>2. Info(s, Root(s)) \in Message
      <4>1. <<Root(s)>> \in Ordered
        BY RootTypes DEF Types
      <4>2. <<Root(s)>> # <<>> /\ Head(<<Root(s)>>) = Root(s)
        OBVIOUS
      <4>3. Root(s) \in Call
        BY <4>1, <4>2, OrderedTail
      <4> QED
        BY <4>3, MessageTypes
    <3>3. PICK x \in Message, y \in Message : x = Flag(TRUE) /\ y = Info(s, Root(s))
      BY <3>1, <3>2
    <3>4. <<x>> \in Seq(Message) /\ <<y>> \in Seq(Message)
      BY Streams
    <3>5. <<x>> \o <<y>> \in Seq(Message)
      BY <3>4, Streams
    <3> QED
      BY <3>3, <3>5, Zenon
  <2>2. /\ chan'[comm[s]][s] = Tail(chan[comm[s]][s])
        /\ chan'[comm[s]][Other(s)] = chan[comm[s]][Other(s)] \o m
        /\ \A j \in Rounds \ {comm[s]} : chan'[j] = chan[j]
    BY <1>6, <2>1, AnswerStreams DEF Types
  <2>3. <<>> \o m = m /\ Tail(<<ParamsMsg>>) = <<>>
    BY <2>1
  <2> QED
    BY <1>4, <2>1, <2>2, <2>3
<1>8. /\ verdict'[i] = "ok" /\ base'[i] = data
      /\ \A j \in Rounds \ {i} : verdict'[j] = verdict[j] /\ base'[j] = base[j]
  BY <1>1, <1>5 DEF Decide
<1>9. /\ pc'[s] = "info" /\ calls'[s] = <<Root(s)>>
      /\ pc'[c] = pc[c] /\ calls'[c] = calls[c]
  BY <1>1, <1>6
<1>10. /\ \A j \in Rounds \ {i} : Round(j)'
       /\ Place(s, i)' = "info" /\ ListOf(s, i)' = <<Root(s)>>
       /\ Place(c, i)' = Place(c, i) /\ ListOf(c, i)' = ListOf(c, i)
  <2>1. /\ \A g \in Hosts : /\ comm[g] # i => /\ pc'[g] = pc[g] /\ calls'[g] = calls[g]
                                              /\ oms'[g] = oms[g]
                            /\ pc'[g] = "returned" <=> pc[g] = "returned"
        /\ \A j \in Rounds \ {i} :
              chan'[j] = chan[j] /\ verdict'[j] = verdict[j] /\ base'[j] = base[j]
    BY <1>2, <1>7, <1>8, <1>9
  <2>2. /\ \A j \in Rounds \ {i} : Round(j)'
        /\ \A g \in Hosts : comm[g] = i /\ pc[g] # "returned" =>
                               Place(g, i)' = pc'[g] /\ ListOf(g, i)' = calls'[g]
        /\ \A g \in Hosts : pc'[g] = pc[g] => Place(g, i)' = Place(g, i)
        /\ \A g \in Hosts : calls'[g] = calls[g] => ListOf(g, i)' = ListOf(g, i)
    BY <1>2, <2>1, Elsewhere
  <2> QED
    BY <1>2, <1>9, <2>2
<1> PICK b : b = RootBlock(i)'
  OBVIOUS
<1> PICK bs : bs = <<b>>
  OBVIOUS
<1>11. /\ CallOf(s, i, b)' = Root(s)
       /\ \A h \in Hosts : \A S : Resolved(h, i, bs, S)'
  <2>1. RootFits(i)'
    BY RootsFitNext DEF Rooted
  <2>2. Root(s)' = Root(s)
    BY <1>2 DEF Root
  <2>3. data'[s] = base'[i][s]
    BY <1>2, <1>8
  <2> QED
    BY <2>1, <2>2, <2>3 DEF RootFits
<1>12. /\ bs \in Seq(Block) /\ bs # <<>> /\ Head(bs) = b
       /\ CallsOf(s, i, bs)' = <<Root(s)>> /\ \A n \in 1..Len(bs) : Good(i, bs[n])'
  <2>1. data'[s] = base'[i][s] /\ Root(s)' = Root(s)
    BY <1>2, <1>8 DEF Root
  <2> QED
    BY <2>1, RootCallsNext, Zenon DEF CalledAtRoot
<1>13. Asks(s, i, bs)' = <<Info(s, Root(s))>>
  BY <1>11, <1>12, Zenon DEF Asks, InfoOf
<1>14. Ahead(s, i, bs, <<>>)'
  <2>1. Settled(s, i, bs)'
    BY <1>11 DEF Settled
  <2>2. End(s, i, "info", bs, <<>>)'
    BY <1>7, <1>10, <1>12, <2>1 DEF End
  <2>3. Onward(bs) = "info"
    BY <1>12 DEF Onward
  <2> QED
    BY <2>2, <2>3 DEF Ahead
<1>15. Opened(i, bs)'
  <2>1. NothingLearned(i)'
    BY <1>2, <1>3 DEF NothingLearned, ParamsSent
  <2>2. Place(c, i)' \in {"awaitParams", "quit"} /\ ListOf(c, i)' = <<>>
    BY <1>3, <1>10 DEF ParamsSent, At, Undecided
  <2>3. chan'[i][c] = <<Flag(TRUE)>> \o Asks(s, i, bs)'
    BY <1>7, <1>13
  <2>4. bs = <<RootBlock(i)>>'
    OBVIOUS
  <2> QED
    BY <1>14, <2>1, <2>2, <2>3, <2>4 DEF Opened, Flag
<1>16. Sound(i)'
  BY <1>2, <1>3, <1>8 DEF Sound, ParamsSent, NothingLearned
<1>17. Decided(i)'
  BY <1>8, <1>12, <1>15, <1>16 DEF Decided, Blocks
<1> QED
  BY <1>10, <1>17 DEF Link, Round

\* Where a client that waits for the server's answer to its parameters is.
LEMMA ClientParamsAt ==
    ASSUME NEW i \in Rounds, NEW bs \in Seq(Block), Blocks(i, bs),
           Place("client", i) = "awaitParams"
    PROVE  Opened(i, bs)
<1> PICK c, s : c = "client" /\ s = "server"
  OBVIOUS
<1> PICK b, rest : b = Head(bs) /\ rest = Tail(bs)
  OBVIOUS
<1>1. c \in Hosts /\ s \in Hosts /\ Other(s) = c /\ Other(c) = s /\ \A g \in Hosts : g = s \/ g = c
  BY DEF Hosts, Other
<1>2. \A as, q : ~Ahead(c, i, as, q)
  BY DEF Ahead, End, Onward
<1>3. \A p, as, q : p # "awaitParams" => ~End(c, i, p, as, q)
  BY DEF End
<1>4. /\ \A as, q : ~End(c, i, "info", as, q)
      /\ \A as, q : ~End(c, i, "all", as, q)
      /\ \A as, q : ~End(c, i, "strings", as, q)
      /\ \A as, q : ~End(c, i, "awaitVerdict", as, q)
      /\ \A as, q : ~End(c, i, "awaitDeltas", as, q)
      /\ \A as, q : ~End(c, i, "awaitFlag", as, q)
  BY <1>3
<1>5. ~Level(i, bs)
  BY <1>1, <1>2 DEF Level
<1>6. ASSUME NEW g \in Hosts PROVE ~Skipped(g, i, bs, b, rest) /\ ~Given(g, i, bs, b, rest)
  BY <1>1, <1>2, <1>4, Zenon DEF Skipped, Given
<1>7. ~Tried(i, bs, b, rest) /\ ~Parted(i, bs, b, rest)
  BY <1>4, Zenon DEF Tried, Parted
<1>8. ~Solved(i, bs, b, rest) /\ ~Spelled(i, bs, b, rest)
  BY <1>4, Zenon DEF Solved, Spelled
<1> QED
  BY <1>5, <1>6, <1>7, <1>8, Zenon DEF Blocks, InHand

\* The client catches up with the server at the root.
LEMMA ClientParamsStays ==
    ASSUME Types, Link, ClientParams
    PROVE  Link'
<1> PICK c \in Hosts, s \in Hosts :
        /\ c = "client" /\ s = "server" /\ s = Other(c) /\ c = Other(s)
        /\ \A g \in Hosts : g = c \/ g = s
  BY DEF Hosts, Other
<1>1. comm[c] \in Rounds
  BY DEF Types, TypeOK, HostsTypeOK
<1> PICK i \in Rounds : i = comm[c]
  BY <1>1
<1>2. /\ pc[c] = "awaitParams" /\ Incoming(c) # <<>>
      /\ UNCHANGED <<data, comm, oms, history, agent, pos>>
  BY DEF ClientParams, Receives
<1>3. Place(c, i) = "awaitParams" /\ Round(i)
  BY <1>2, Here
<1>4. Decided(i)
  BY <1>2, <1>3 DEF Round, Undecided, Idle, ModSent, ModFine, ParamsSent, At, Carries, Incoming
<1>5. PICK bs \in Seq(Block) : Blocks(i, bs)
  BY <1>4 DEF Decided
<1>6. Opened(i, bs)
  BY <1>3, <1>5, ClientParamsAt
<1>7. data[c] = base[i][c] /\ data[c] = base[i][c]
  BY <1>2, <1>4 DEF Decided, Sound
<1>8. PICK r \in Seq(Message), f \in Message : r = Asks(s, i, bs) /\ f = Flag(TRUE)
  <2>1. Asks(s, i, bs) \in Seq(Message)
    BY AsksType
  <2>2. Flag(TRUE) \in Message
    BY HandshakeMessages
  <2> QED
    BY <2>1, <2>2
<1>9. chan[i][c] = <<f>> \o r
  BY <1>6, <1>8, Zenon DEF Opened
<1>10. Head(<<f>> \o r) = f /\ Tail(<<f>> \o r) = r
  <2>1. f \in Message /\ r \in Seq(Message)
    BY <1>8
  <2> QED
    BY <2>1, FirstOfStream, Zenon
<1>11. Head(Incoming(c)).ok /\ Tail(chan[i][c]) = Asks(s, i, bs)
  <2>1. Head(Incoming(c)) = f
    BY <1>9, <1>10 DEF Incoming
  <2>2. f.ok
    BY <1>8 DEF Flag
  <2> QED
    BY <1>8, <1>9, <1>10, <2>1, <2>2
<1>12. Continue(c, <<>>, <<Root(c)>>)
  BY <1>11 DEF ClientParams
<1>13. /\ \A n \in 1..Len(bs) : Good(i, bs[n])
       /\ CallsOf(c, i, bs) = <<Root(c)>>
       /\ Resolved(c, i, bs, oms[c])
       /\ Ahead(s, i, bs, <<>>)
  <2>1. bs = <<RootBlock(i)>> /\ Ahead(s, i, bs, <<>>)
    BY <1>6 DEF Opened
  <2>2. CallsOf(c, i, <<RootBlock(i)>>) = <<Root(c)>>
    BY <1>7, RootCalls
  <2>3. Resolved(c, i, <<RootBlock(i)>>, oms[c])
    BY RootsFit DEF Rooted, RootFits
  <2>4. \A n \in 1..Len(bs) : Good(i, bs[n])
    BY <1>5 DEF Blocks
  <2> QED
    BY <2>1, <2>2, <2>3, <2>4, Zenon
<1>14. Continue(c, <<>>, CallsOf(c, i, bs))
  BY <1>12, <1>13, Zenon
<1>15. comm[c] = i /\ pc[c] # "returned"
  BY <1>2
<1> QED
  BY <1>2, <1>4, <1>11, <1>13, <1>14, <1>15, CatchesUp

(***************************************************************************)
(* The end of a round for one host.                                        *)
(***************************************************************************)
\* A host that is done has no call to make.
LEMMA NoCalls ==
    ASSUME Types, Link, NEW h \in Hosts, pc[h] = "post"
    PROVE  /\ Decided(comm[h]) /\ calls[h] = <<>>
           /\ Resolved(h, comm[h], <<>>, oms[h])
<1>1. comm[h] \in Rounds
  BY DEF Types, TypeOK, HostsTypeOK
<1> PICK i \in Rounds : i = comm[h]
  BY <1>1
<1>2. Place(h, i) = "post" /\ ListOf(h, i) = calls[h] /\ Round(i)
  BY Here
<1>3. Decided(i)
  BY <1>2, InCallDecided
<1>4. PICK bs \in Seq(Block) : Blocks(i, bs)
  BY <1>3 DEF Decided
<1>5. ListOf(h, i) = CallsOf(h, i, <<>>) /\ Settled(h, i, <<>>)
  BY <1>2, <1>4, AtPost
<1>6. CallsOf(h, i, <<>>) = <<>>
  <2>1. PICK none \in Seq(Block) : none = <<>>
    <3>1. <<>> \in Seq(Block)
      OBVIOUS
    <3> QED
      BY <3>1
  <2>2. CallsOf(h, i, none) = <<>>
    BY <2>1, CallsOfIs
  <2> QED
    BY <2>1, <2>2, Zenon
<1> QED
  BY <1>2, <1>3, <1>5, <1>6 DEF Settled

\* It goes on to the next round, which is idle, or returns.
LEMMA PostProcessStays ==
    ASSUME Types, Link, NEW h \in Hosts, PostProcess(h)
    PROVE  Link'
<1>1. /\ comm \in [Hosts -> 1..Sessions] /\ Sessions \in Nat \ {0} /\ comm[h] \in Rounds
      /\ DOMAIN pc = Hosts /\ DOMAIN data = Hosts
  BY HostsAssumption DEF Types, TypeOK, HostsTypeOK, Rounds
<1> PICK i \in Rounds : i = comm[h]
  BY <1>1
<1>2. /\ pc[h] = "post" /\ data' = [data EXCEPT ![h] = data[h] \cup oms[h]]
      /\ \/ Last(h) /\ pc' = [pc EXCEPT ![h] = "returned"] /\ UNCHANGED comm
         \/ ~Last(h) /\ pc' = [pc EXCEPT ![h] = "begin"] /\ comm' = [comm EXCEPT ![h] = i + 1]
      /\ UNCHANGED <<chan, oms, verdict, base, agent, pos, calls>>
  BY DEF PostProcess, NextCommunicant, PostProcessing, Goto, agentVars, history
<1>3. calls[h] = <<>>
  BY <1>2, NoCalls
<1>4. \A g \in Hosts \ {h} : pc'[g] = pc[g] /\ comm'[g] = comm[g] /\ data'[g] = data[g]
  BY <1>1, <1>2
<1>5. \/ comm[h] = Sessions /\ pc'[h] = "returned" /\ comm'[h] = comm[h]
      \/ comm[h] # Sessions /\ pc'[h] = "begin" /\ comm'[h] = comm[h] + 1
  BY <1>1, <1>2 DEF Last
<1>6. \A g \in Hosts, j \in Rounds : Place(g, j)' = Place(g, j) /\ ListOf(g, j)' = ListOf(g, j)
  <2>1. \A j \in Rounds : Place(h, j)' = Place(h, j)
    BY <1>1, <1>2, <1>5 DEF Place, Rounds
  <2>2. \A j \in Rounds : ListOf(h, j)' = ListOf(h, j)
    BY <1>2, <1>3 DEF ListOf
  <2>3. \A g \in Hosts \ {h} : \A j \in Rounds :
            Place(g, j)' = Place(g, j) /\ ListOf(g, j)' = ListOf(g, j)
    BY <1>2, <1>4 DEF Place, ListOf
  <2> QED
    BY <2>1, <2>2, <2>3
<1>7. ASSUME NEW j \in Rounds, comm'[h] = j => comm[h] = j PROVE Round(j)'
  <2>1. \A g \in Hosts : comm'[g] = j =>
           /\ comm[g] = j /\ oms'[g] = oms[g]
           /\ pc'[g] \in {"connecting", "listening"} => pc'[g] = pc[g]
           /\ pc'[g] # "returned" => pc[g] # "returned" /\ data'[g] = data[g]
    <3>1. comm'[h] = j => pc'[h] = "returned"
      BY <1>1, <1>5, <1>7
    <3> QED
      BY <1>2, <1>4, <1>7, <3>1
  <2> QED
    BY <1>2, <1>6, <2>1, RoundFrame DEF Link
<1>8. ASSUME NEW j \in Rounds, comm'[h] = j, comm[h] # j PROVE Round(j)'
  <2>1. j = i + 1 /\ pc'[h] = "begin"
    BY <1>1, <1>5, <1>8
  <2>2. Place(h, j) = "begin"
    BY <1>1, <2>1 DEF Place
  <2>3. Undecided(j) /\ Idle(j)
    BY <2>2, Phases DEF Link, Hosts
  <2>4. At(j, {"begin", "connecting"}, {"begin", "listening"})'
    BY <1>6, <2>3, HostsType DEF Idle, At
  <2>5. Carries(j, <<>>, <<>>)'
    BY <1>2, <2>3 DEF Idle, Carries
  <2>6. \A g \in Hosts : comm'[g] = j /\ pc'[g] \in {"connecting", "listening"} => oms'[g] = {}
    BY <1>2, <1>4, <2>1, <2>3 DEF Idle
  <2>7. Idle(j)'
    BY <2>4, <2>5, <2>6 DEF Idle
  <2> QED
    BY <1>2, <1>6, <2>3, <2>7 DEF Round, Undecided
<1> QED
  BY <1>7, <1>8 DEF Link

(***************************************************************************)
(* The invariant holds.                                                    *)
(***************************************************************************)
\* At the start every round is idle.
LEMMA LinkStarts ==
    ASSUME Init
    PROVE  Link
<1>1. Sessions \in Nat \ {0}
  BY HostsAssumption
<1>2. \A i \in Rounds, h \in Hosts : Place(h, i) = "begin" /\ ListOf(h, i) = <<>>
  BY <1>1 DEF Init, HostsInit, Place, ListOf, Rounds
<1>3. ASSUME NEW i \in Rounds PROVE Round(i)
  BY <1>2, HostsType DEF Init, HostsInit, Round, Undecided, Idle, At, Carries
<1> QED
  BY <1>3 DEF Link

\* The agents are constant.
LEMMA AgentsStay ==
    ASSUME [Next]_vars
    PROVE  UNCHANGED <<agent, pos>>
BY DEF Next, HostStep, ClientStep, ServerStep, ClientConnect, ClientConnectFails, ClientMod,
       ClientParams, ClientVerdict, ClientDeltas, ClientStrings, ClientFlag, ServerMod,
       ServerParams, ServerEvals, ServerStrings, ReceiveInfo, ReceiveAll, Begin, PostProcess,
       PeerGone, Crash, agentVars, vars

\* Each step leaves every round in a phase.
LEMMA LinkStays ==
    ASSUME Types, Matched, Link, [Next]_vars
    PROVE  Link'
<1>1. CASE UNCHANGED vars
  <2>1. UNCHANGED <<data, pc, comm, chan, oms, calls, verdict, base, agent, pos>>
    BY <1>1 DEF vars, hostVars, agentVars, history
  <2>2. \A h \in Hosts, i \in Rounds : Place(h, i)' = Place(h, i) /\ ListOf(h, i)' = ListOf(h, i)
    BY <2>1 DEF Place, ListOf
  <2>3. ASSUME NEW i \in Rounds PROVE Round(i)'
    BY <2>1, <2>2, RoundFrame DEF Link
  <2> QED
    BY <2>3 DEF Link
<1>2. ASSUME NEW h \in Hosts, HostStep(h) \/ Crash(h) PROVE Link'
  <2>1. CASE ClientConnectFails
    BY <2>1, QuitStays, HostsType DEF ClientConnectFails, Ended, agentVars
  <2>2. CASE PeerGone(h)
    BY <2>2, QuitStays DEF PeerGone, Deserted, ClientWaits, ServerWaits, Ended, agentVars
  <2>3. CASE Crash(h)
    BY <2>3, QuitStays DEF Crash, Killed, agentVars
  <2>4. CASE ServerParams
    <3>1. Types'
      BY TypesStay
    <3> QED
      BY <2>4, <3>1, ServerParamsStays
  <2>5. CASE ClientStep /\ ~ClientConnectFails
    BY <2>5, ConnectStays, ClientModStays, ClientParamsStays, VerdictStays, DeltasStay,
       ClientStringsStay, FlagStays DEF ClientStep
  <2>6. CASE ServerStep /\ ~ServerParams
    BY <2>6, ServerModStays, EvalsStay, ServerStringsStay DEF ServerStep
  <2> QED
    BY <1>2, <2>1, <2>2, <2>3, <2>4, <2>5, <2>6, BeginStays, InfoStays, AllStays, PostProcessStays
    DEF HostStep
<1> QED
  BY <1>1, <1>2 DEF Next

\* Reachable states have their types, and the rounds of agents that match are in their
\* phases: the two hosts agree on the blocks that are before them.
THEOREM BlocksInvariance == Spec => []IInv
<1>1. Init => IInv
  BY InitTypes, LinkStarts DEF IInv
<1>2. IInv /\ [Next]_vars => IInv'
  <2> SUFFICES ASSUME IInv, [Next]_vars PROVE IInv'
    OBVIOUS
  <2>1. Types'
    BY TypesStay DEF IInv
  <2>2. Matched' <=> Matched
    BY AgentsStay DEF Matched
  <2>3. Matched => Link'
    BY LinkStays DEF IInv
  <2> QED
    BY <2>1, <2>2, <2>3 DEF IInv
<1> QED
  BY <1>1, <1>2, PTL DEF Spec

(***************************************************************************)
(* What follows.                                                           *)
(***************************************************************************)
\* Calls for the same blocks have the same ranges.
LEMMA SameRanges ==
    ASSUME Types, NEW i \in Rounds, NEW bs \in Seq(Block),
           \A h \in Hosts : calls[h] = CallsOf(h, i, bs)
    PROVE  Ranges("client") = Ranges("server")
<1>1. \A h \in Hosts : Ranges(h) = [n \in 1..Len(bs) |-> <<bs[n].beg, bs[n].end>>]
  <2> SUFFICES ASSUME NEW h \in Hosts
               PROVE  Ranges(h) = [n \in 1..Len(bs) |-> <<bs[n].beg, bs[n].end>>]
    OBVIOUS
  <2>1. /\ Len(calls[h]) = Len(bs)
        /\ \A n \in 1..Len(bs) : calls[h][n] = CallOf(h, i, bs[n])
    BY CallsOfIs
  <2>2. \A n \in 1..Len(bs) : calls[h][n].beg = bs[n].beg /\ calls[h][n].end = bs[n].end
    <3>1. \A b : CallOf(h, i, b).beg = b.beg /\ CallOf(h, i, b).end = b.end
      BY DEF CallOf
    <3> QED
      BY <2>1, <3>1, Zenon
  <2> QED
    BY <2>1, <2>2 DEF Ranges
<1> QED
  BY <1>1, HostsType

\* Where the server attempts a node, the client is at the same one, with the same ranges
\* to follow, and what is compared is what the two sets have at the same positions.
THEOREM CallsAgree == Spec => []SameCalls
<1>1. IInv => SameCalls
  <2> SUFFICES ASSUME IInv, Matched, pc["server"] = "recvEvals", Receives("server", "evals")
               PROVE  LET mine == Node("server").set
                          theirs == Head(Incoming("server")).set
                          P(S) == {pos[e] : e \in S}
                      IN /\ pc["client"] \in {"awaitVerdict", "quit"}
                         /\ Ranges("client") = Ranges("server")
                         /\ P(mine) \cap P(data["client"] \ theirs) = {}
                         /\ P(theirs) \cap P(data["server"] \ mine) = {}
    BY DEF SameCalls
  <2> PICK c \in Hosts, s \in Hosts :
          /\ c = "client" /\ s = "server" /\ c # s /\ Other(s) = c /\ Hosts = {c, s}
    BY Two
  <2>1. Types /\ Link /\ comm \in [Hosts -> 1..Sessions] /\ Sessions \in Nat
    BY HostsAssumption DEF IInv, Types, TypeOK, HostsTypeOK, Rounds
  <2> PICK i : i = comm[s]
    OBVIOUS
  <2>2. /\ i \in Rounds /\ Decided(i) /\ Place(s, i) = "recvEvals" /\ ListOf(s, i) = calls[s]
        /\ chan[i][s] # <<>> /\ Incoming(s) = chan[i][s]
    <3>1. pc[s] \in InCall /\ Incoming(s) # <<>> /\ pc[s] = "recvEvals"
      BY DEF InCall, Receives
    <3> QED
      BY <2>1, <3>1, Calling
  <2>3. PICK bs \in Seq(Block) : Blocks(i, bs)
    BY <2>2 DEF Decided
  <2> PICK b, rest : b = Head(bs) /\ rest = Tail(bs)
    OBVIOUS
  <2>4. /\ bs # <<>> /\ End(c, i, "awaitVerdict", bs, <<>>)
        /\ End(s, i, "recvEvals", bs, <<EvalsOf(i, b)>>)
    BY <2>2, <2>3, ServerAt
  <2>5. comm[c] = i /\ pc[c] \in {"awaitVerdict", "quit"}
    <3>1. Place(c, i) \in {"awaitVerdict", "quit"}
      BY <2>4 DEF End
    <3> QED
      BY <2>1, <2>2, <3>1 DEF Place, Rounds
  <2>6. \A h \in Hosts : calls[h] = CallsOf(h, i, bs)
    <3>1. calls[c] = CallsOf(c, i, bs)
      BY <2>4, <2>5 DEF End, ListOf
    <3>2. calls[s] = CallsOf(s, i, bs)
      BY <2>2, <2>4 DEF End
    <3> QED
      BY <3>1, <3>2
  <2>7. Ranges(c) = Ranges(s)
    BY <2>1, <2>2, <2>6, SameRanges
  <2>8. data[c] = base[i][c] /\ data[s] = base[i][s]
    BY <2>2, <2>5 DEF Decided, Sound
  <2>9. Node(s).set = Content(s, i, b.at)
    BY <2>1, <2>2, <2>3, <2>4, <2>6, FirstBlock
  <2>10. Head(Incoming(s)).set = Content(c, i, b.at)
    <3>1. chan[i][s] = <<EvalsOf(i, b)>>
      BY <2>4 DEF End
    <3>2. Head(<<EvalsOf(i, b)>>) = EvalsOf(i, b)
      OBVIOUS
    <3>3. EvalsOf(i, b).set = Content(c, i, b.at)
      BY DEF EvalsOf, EvalsMsg
    <3> QED
      BY <2>2, <3>1, <3>2, <3>3
  <2>11. \A g, h \in Hosts : {pos[e] : e \in Content(g, i, b.at)}
                               \cap {pos[e] : e \in base[i][h] \ Content(h, i, b.at)} = {}
    BY DEF Content
  <2> QED
    BY <2>5, <2>7, <2>8, <2>9, <2>10, <2>11
<1> QED
  BY <1>1, BlocksInvariance, PTL

\* A host that ends a session has been given only what it lacked of the sets of the
\* decision, and misses an element only where more than m_bar differences share its
\* position.
THEOREM OnlyCrowdsAreLost == Spec => []LostOnlyInCrowds
<1>1. IInv => LostOnlyInCrowds
  <2> SUFFICES ASSUME IInv, Matched, NEW h \in Hosts, pc[h] = "post"
               PROVE  LET i == comm[h]
                          lacking == base[i][Other(h)] \ base[i][h]
                      IN /\ oms[h] \subseteq lacking
                         /\ \A e \in lacking \ oms[h] : Cardinality(Crowd(i, e)) > agent[h].mbar
    BY DEF LostOnlyInCrowds
  <2> PICK i : i = comm[h]
    OBVIOUS
  <2>1. Types /\ Link /\ i \in Rounds
    BY DEF IInv, Types, TypeOK, HostsTypeOK
  <2>2. Decided(i) /\ Resolved(h, i, <<>>, oms[h])
    BY <2>1, NoCalls
  <2>3. oms[h] \subseteq Lacking(h, i)
    BY <2>2 DEF Decided, Sound
  <2>4. \A e \in Lacking(h, i) : e \in oms[h] \/ Crowded(i, e)
    <3>1. 1..Len(<<>>) = {}
      OBVIOUS
    <3> QED
      BY <2>2, <3>1 DEF Resolved
  <2>5. agent[h].mbar = A.mbar
    BY DEF Matched, A, Hosts
  <2> QED
    BY <2>3, <2>4, <2>5 DEF Lacking, Crowded
<1> QED
  BY <1>1, BlocksInvariance, PTL
================================================================================
