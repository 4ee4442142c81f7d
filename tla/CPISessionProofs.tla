---------------------------- MODULE CPISessionProofs ----------------------------
(***************************************************************************)
(* Theorems about CPIReconcile and CPISession, for any elements,           *)
(* parameters, numbers of sessions, sizes of streams and deaths.           *)
(*                                                                         *)
(* The module starts with the degree bounds and the types, which hold      *)
(* whatever agents meet.  Then, for two hosts with equal agents: the       *)
(* phases of a round, and that what one round does leaves the others in    *)
(* theirs; the steps of the client, the exchange of strings and the steps  *)
(* of the server, which lead from phase to phase; that the invariant Link  *)
(* holds throughout; and that the hosts stay in step, agree on every       *)
(* outcome and implement the abstract reconciliation, so that they hold    *)
(* the same set after it.                                                  *)
(***************************************************************************)
EXTENDS CPISession, FiniteSetTheorems, SequenceTheorems, TLAPS

(***************************************************************************)
(* Sizes of finite sets.                                                   *)
(***************************************************************************)
\* Splitting two finite sets: what they share accounts for the difference between
\* their sizes and the sizes of what they do not share.
LEMMA SizeDifference ==
    ASSUME NEW A, NEW B, IsFiniteSet(A), IsFiniteSet(B)
    PROVE  /\ Cardinality(A) \in Nat /\ Cardinality(B) \in Nat
           /\ Cardinality(A \ B) \in Nat /\ Cardinality(B \ A) \in Nat
           /\ Cardinality(A) - Cardinality(B) = Cardinality(A \ B) - Cardinality(B \ A)
<1>1. IsFiniteSet(A \ B) /\ IsFiniteSet(B \ A) /\ IsFiniteSet(A \cap B)
  BY FS_Difference, FS_Intersection
<1>2. /\ Cardinality(A \ B) = Cardinality(A) - Cardinality(A \cap B)
      /\ Cardinality(B \ A) = Cardinality(B) - Cardinality(B \cap A)
  BY FS_Difference
<1>3. Cardinality(A \cap B) = Cardinality(B \cap A)
  <2>1. A \cap B = B \cap A
    OBVIOUS
  <2> QED
    BY <2>1, Zenon
<1>4. /\ Cardinality(A) \in Nat /\ Cardinality(B) \in Nat
      /\ Cardinality(A \ B) \in Nat /\ Cardinality(B \ A) \in Nat
      /\ Cardinality(A \cap B) \in Nat
  BY <1>1, FS_CardinalityType
<1> DEFINE a == Cardinality(A)
           b == Cardinality(B)
           c == Cardinality(A \cap B)
           d == Cardinality(B \cap A)
           x == Cardinality(A \ B)
           y == Cardinality(B \ A)
<1>5. /\ a \in Nat /\ b \in Nat /\ c \in Nat /\ x \in Nat /\ y \in Nat
      /\ x = a - c /\ y = b - d /\ c = d
  BY <1>2, <1>3, <1>4, Zenon
<1> HIDE DEF a, b, c, d, x, y
<1>6. a - b = x - y
  BY <1>5
<1> QED
  BY <1>5, <1>6, Zenon DEF a, b, x, y

\* Taking an element out.
LEMMA SizeWithout ==
    ASSUME NEW S, NEW k \in S, IsFiniteSet(S)
    PROVE  /\ Cardinality(S) \in Nat /\ Cardinality(S \ {k}) \in Nat
           /\ Cardinality(S \ {k}) = Cardinality(S) - 1
<1>1. Cardinality(S) \in Nat
  BY FS_CardinalityType
<1>2. IsFiniteSet(S \ {k}) /\ Cardinality(S \ {k}) = Cardinality(S) - 1
  BY FS_RemoveElement
<1>3. Cardinality(S \ {k}) \in Nat
  BY <1>2, FS_CardinalityType
<1> QED
  BY <1>1, <1>2, <1>3

(***************************************************************************)
(* The degree bounds of ratFuncInterp.                                     *)
(***************************************************************************)

\* m evaluations suffice exactly when there are at most m differences, whatever
\* their split between the two sets and the parity of m: rounding (m + delta) / 2
\* towards zero, as the code does, neither loses a difference nor lets one more in.
THEOREM EnoughPoints ==
    ASSUME NEW A, NEW B, IsFiniteSet(A), IsFiniteSet(B), NEW m \in Nat
    PROVE  Interpolates(m, A, B)
             <=> Cardinality(A \ B) + Cardinality(B \ A) <= m
<1> DEFINE a == Cardinality(A)
           b == Cardinality(B)
           x == Cardinality(A \ B)
           y == Cardinality(B \ A)
<1>1. a \in Nat /\ b \in Nat /\ x \in Nat /\ y \in Nat /\ a - b = x - y
  BY SizeDifference
<1> HIDE DEF a, b, x, y
<1>2. (x <= Halve(m + (a - b)) /\ y <= Halve(m - (a - b))) <=> x + y <= m
  BY <1>1 DEF Halve
<1> QED
  BY <1>2 DEF Interpolates, NumeratorBound, DenominatorBound, a, b, x, y

(***************************************************************************)
(* Type correctness of the session, with currDiff never beyond maxDiff.    *)
(***************************************************************************)
LEMMA HostsType ==
    /\ "client" \in Hosts /\ "server" \in Hosts
    /\ \A h \in Hosts : Other(h) \in Hosts /\ Other(h) # h /\ Other(Other(h)) = h
BY DEF Hosts, Other

\* A table of tables keeps its type when an entry is replaced.
LEMMA EntryTypes ==
    ASSUME NEW I, NEW H, NEW T, NEW f \in [I -> [H -> T]], NEW i \in I, NEW h \in H, NEW v \in T
    PROVE  [f EXCEPT ![i][h] = v] \in [I -> [H -> T]]
OBVIOUS

\* The streams keep their type under each of the three ways an action uses them.
LEMMA IncomingTypes ==
    ASSUME TypeOK, NEW h \in Hosts
    PROVE  /\ comm[h] \in Rounds /\ chan[comm[h]] \in [Hosts -> Seq(Message)]
           /\ Incoming(h) \in Seq(Message)
           /\ Incoming(h) # <<>> => /\ Tail(Incoming(h)) \in Seq(Message)
                                    /\ Head(Incoming(h)) \in Message
           /\ Incoming(h) # <<>> /\ Receive(h)
                => chan' \in [Rounds -> [Hosts -> Seq(Message)]]
<1>1. comm[h] \in Rounds /\ chan[comm[h]] \in [Hosts -> Seq(Message)]
  BY DEF TypeOK, HostsTypeOK
<1>2. Incoming(h) \in Seq(Message)
  BY <1>1 DEF Incoming
<1>3. Incoming(h) # <<>> => /\ Tail(Incoming(h)) \in Seq(Message)
                            /\ Head(Incoming(h)) \in Message
  BY <1>2
<1>4. Incoming(h) # <<>> /\ Receive(h) => chan' \in [Rounds -> [Hosts -> Seq(Message)]]
  <2> SUFFICES ASSUME Incoming(h) # <<>>, Receive(h)
               PROVE  chan' \in [Rounds -> [Hosts -> Seq(Message)]]
    OBVIOUS
  <2>1. PICK v \in Seq(Message) : v = Tail(Incoming(h))
    BY <1>3
  <2>2. chan' = [chan EXCEPT ![comm[h]][h] = v] /\ chan \in [Rounds -> [Hosts -> Seq(Message)]]
    BY <2>1 DEF Receive, Incoming, TypeOK, HostsTypeOK
  <2> QED
    BY <1>1, <2>2, EntryTypes
<1> QED
  BY <1>1, <1>2, <1>3, <1>4

LEMMA OutgoingTypes ==
    ASSUME TypeOK, NEW h \in Hosts, NEW msgs \in Seq(Message)
    PROVE  /\ Send(h, msgs) => chan' \in [Rounds -> [Hosts -> Seq(Message)]]
           /\ Incoming(h) # <<>> /\ Answer(h, msgs)
                => chan' \in [Rounds -> [Hosts -> Seq(Message)]]
<1>1. /\ chan \in [Rounds -> [Hosts -> Seq(Message)]]
      /\ comm[h] \in Rounds /\ chan[comm[h]] \in [Hosts -> Seq(Message)]
  BY DEF TypeOK, HostsTypeOK
<1>2. chan[comm[h]][Other(h)] \o msgs \in Seq(Message)
  <2>1. chan[comm[h]][Other(h)] \in Seq(Message)
    BY <1>1, HostsType
  <2> QED
    BY <2>1
<1>3. Send(h, msgs) => chan' \in [Rounds -> [Hosts -> Seq(Message)]]
  BY <1>1, <1>2, HostsType DEF Send
<1>4. ASSUME Incoming(h) # <<>>, Answer(h, msgs)
      PROVE  chan' \in [Rounds -> [Hosts -> Seq(Message)]]
  <2>1. Tail(chan[comm[h]][h]) \in Seq(Message)
    BY <1>4, IncomingTypes DEF Incoming
  <2>2. chan' = [chan EXCEPT ![comm[h]][h] = Tail(chan[comm[h]][h]),
                             ![comm[h]][Other(h)] = chan[comm[h]][Other(h)] \o msgs]
    BY <1>1, <1>4, HostsType DEF Answer
  <2> QED
    BY <1>1, <1>2, <2>1, <2>2, HostsType
<1> QED
  BY <1>3, <1>4

\* The evaluations sent are indices, and currDiff stays within 1..maxDiff.
LEMMA PointTypes ==
    ASSUME NEW a \in AgentType(Tokens), NEW m \in Nat \ {0}, m <= a.mbar
    PROVE  /\ FirstPoints(a, m) \in Seq(Nat)
           /\ MorePoints(a, m) \in Seq(Nat)
           /\ StartDiff(a, m) \in Nat \ {0} /\ StartDiff(a, m) <= a.mbar
           /\ NextDiff(a, m) \in Nat \ {0} /\ NextDiff(a, m) <= a.mbar
<1>1. a.mbar \in Nat \ {0} /\ a.k \in Nat \ {0}
  BY DEF AgentType
<1>2. \A from, n \in Nat : Points(from, n) \in Seq(Nat)
  BY DEF Points
<1>3. Least(m, a.mbar - m) \in Nat /\ m + a.k \in Nat
  BY <1>1 DEF Least
<1>4. FirstPoints(a, m) \in Seq(Nat) /\ MorePoints(a, m) \in Seq(Nat)
  BY <1>1, <1>2, <1>3 DEF FirstPoints, MorePoints
<1>5. StartDiff(a, m) \in Nat \ {0} /\ StartDiff(a, m) <= a.mbar
  BY <1>1 DEF StartDiff
<1>6. NextDiff(a, m) \in Nat \ {0} /\ NextDiff(a, m) <= a.mbar
  BY <1>1 DEF NextDiff, Least
<1> QED
  BY <1>4, <1>5, <1>6

LEMMA MessageTypes ==
    /\ [type |-> "flag", ok |-> TRUE] \in Message
    /\ [type |-> "flag", ok |-> FALSE] \in Message
    /\ \A t \in Tokens : /\ [type |-> "mod", token |-> t] \in Message
                         /\ [type |-> "params", token |-> t] \in Message
    /\ \A S \in SUBSET Elem, pts \in Seq(Nat) :
          [type |-> "evals", set |-> S, pts |-> pts] \in Message
    /\ \A pts \in Seq(Nat) : [type |-> "more", pts |-> pts] \in Message
    /\ \A S, T \in SUBSET Elem : [type |-> "deltas", other |-> S, self |-> T] \in Message
    /\ \A e \in Elem : [type |-> "string", elem |-> e] \in Message
BY DEF Message

\* What a message of a given type carries.
LEMMA MessageFields ==
    ASSUME NEW m \in Message
    PROVE  /\ m.type = "flag" => m.ok \in BOOLEAN
           /\ m.type = "evals" => m.set \in SUBSET Elem /\ m.pts \in Seq(Nat)
           /\ m.type = "more" => m.pts \in Seq(Nat)
           /\ m.type = "deltas" => m.other \in SUBSET Elem /\ m.self \in SUBSET Elem
           /\ m.type = "string" => m.elem \in Elem
BY DEF Message

LEMMA InitTypeOK == Init => TypeOK
<1> SUFFICES ASSUME Init PROVE TypeOK
  OBVIOUS
<1>1. agent \in [Hosts -> AgentType(Tokens)]
  BY CPIAssumption DEF Init, HostsInit
<1>2. \A h \in Hosts : /\ agent[h].mbar \in Nat \ {0} /\ agent[h].keepAlive \in BOOLEAN
                       /\ StartDiff(agent[h], agent[h].mbar) \in Nat \ {0}
                       /\ StartDiff(agent[h], agent[h].mbar) <= agent[h].mbar
  BY <1>1 DEF AgentType, StartDiff
<1>3. 1 \in Rounds
  BY HostsAssumption DEF Rounds
<1>4. currDiff \in [Hosts -> Nat \ {0}] /\ \A h \in Hosts : currDiff[h] <= agent[h].mbar
  BY <1>2 DEF Init, HostsInit
<1>5. open \in [Rounds -> [Hosts -> BOOLEAN]]
  BY <1>2 DEF Init, HostsInit
<1>6. chan \in [Rounds -> [Hosts -> Seq(Message)]] /\ recvMeta \in Seq(Nat)
  BY DEF Init, HostsInit
<1> QED
  BY <1>1, <1>3, <1>4, <1>5, <1>6, HostsType
  DEF Init, HostsInit, TypeOK, HostsTypeOK, ClientPC, ServerPC

\* The ends of the communicants keep their type when a host closes one or quits.
LEMMA OpenTypes ==
    ASSUME TypeOK, NEW h \in Hosts
    PROVE  /\ Close(h) => open' \in [Rounds -> [Hosts -> BOOLEAN]]
           /\ Quit(h) => open' \in [Rounds -> [Hosts -> BOOLEAN]]
<1>1. agent[h].keepAlive \in BOOLEAN
  BY DEF TypeOK, HostsTypeOK, AgentType
<1>2. Close(h) => open' \in [Rounds -> [Hosts -> BOOLEAN]]
  <2>1. open \in [Rounds -> [Hosts -> BOOLEAN]] /\ comm[h] \in Rounds
    BY DEF TypeOK, HostsTypeOK
  <2> QED
    BY <1>1, <2>1, EntryTypes DEF Close
<1>3. Quit(h) => open' \in [Rounds -> [Hosts -> BOOLEAN]]
  BY DEF TypeOK, HostsTypeOK, Quit
<1> QED
  BY <1>2, <1>3

\* _makeStructures on either host.
LEMMA StructureTypes ==
    ASSUME TypeOK, NEW h \in Hosts, NEW self \in SUBSET Elem, NEW other \in SUBSET Elem,
           MakeStructures(h, self, other)
    PROVE  /\ pc'["client"] \in ClientPC /\ pc'["server"] \in ServerPC /\ DOMAIN pc' = Hosts
           /\ toSend' \in [Hosts -> SUBSET Elem] /\ due' \in [Hosts -> Nat]
           /\ oms' \in [Hosts -> SUBSET Elem]
           /\ open' \in [Rounds -> [Hosts -> BOOLEAN]]
<1>1. open' \in [Rounds -> [Hosts -> BOOLEAN]]
  BY OpenTypes DEF MakeStructures, TypeOK, HostsTypeOK
<1>2. StringsDue(self, other) \in Nat
  <2>1. IsFiniteSet(other)
    BY HostsAssumption, FS_Subset
  <2> QED
    BY <2>1, FS_CardinalityType DEF StringsDue
<1>3. \E label \in {"strings", "post"} : pc' = [pc EXCEPT ![h] = label]
  BY DEF MakeStructures, Goto
<1>4. /\ toSend' = toSend \/ toSend' = [toSend EXCEPT ![h] = self]
      /\ due' = due \/ due' = [due EXCEPT ![h] = StringsDue(self, other)]
      /\ oms' = oms \/ oms' = [oms EXCEPT ![h] = other]
  BY DEF MakeStructures
<1>5. toSend' \in [Hosts -> SUBSET Elem] /\ oms' \in [Hosts -> SUBSET Elem]
  <2>1. toSend \in [Hosts -> SUBSET Elem] /\ oms \in [Hosts -> SUBSET Elem]
    BY DEF TypeOK, HostsTypeOK
  <2>2. toSend' \in [Hosts -> SUBSET Elem]
    BY <1>4, <2>1
  <2>3. oms' \in [Hosts -> SUBSET Elem]
    BY <1>4, <2>1
  <2> QED
    BY <2>2, <2>3
<1>6. due' \in [Hosts -> Nat]
  <2>1. due' = due \/ \E n \in Nat : due' = [due EXCEPT ![h] = n]
    BY <1>2, <1>4
  <2>2. due \in [Hosts -> Nat]
    BY DEF TypeOK, HostsTypeOK
  <2> QED
    BY <2>1, <2>2
<1>7. pc'["client"] \in ClientPC /\ pc'["server"] \in ServerPC /\ DOMAIN pc' = Hosts
  BY <1>3, HostsType
  DEF TypeOK, HostsTypeOK, Hosts, ClientPC, ServerPC, ClientWaits,
            ServerWaits, Ended
<1> QED
  BY <1>1, <1>5, <1>6, <1>7

LEMMA ClientTypeOK ==
    ASSUME TypeOK, ClientStep
    PROVE  TypeOK'
<1> DEFINE h == "client"
<1>1. h \in Hosts /\ "server" \in Hosts /\ Other(h) \in Hosts
  BY HostsType
<1>2. /\ agent[h] \in AgentType(Tokens) /\ currDiff[h] \in Nat \ {0}
      /\ currDiff[h] <= agent[h].mbar /\ data[h] \in SUBSET Elem
  BY <1>1 DEF TypeOK, HostsTypeOK
<1>3. \A m \in Nat \ {0} : m <= agent[h].mbar =>
         /\ Evals(h, m) \in Message
         /\ StartDiff(agent[h], m) \in Nat \ {0} /\ StartDiff(agent[h], m) <= agent[h].mbar
  BY <1>2, PointTypes, MessageTypes DEF Evals
<1>4. Params(h) \in Message /\ [type |-> "mod", token |-> agent[h].mod] \in Message
  <2>1. agent[h].mod \in Tokens /\ agent[h].par \in Tokens
    BY <1>2 DEF AgentType
  <2> QED
    BY <2>1, MessageTypes DEF Params
<1>5. CASE ClientBegin
  <2> DEFINE m == StartDiff(agent[h], currDiff[h])
  <2>1. m \in Nat \ {0} /\ m <= agent[h].mbar
    BY <1>2, <1>3
  <2>2. <<Evals(h, m)>> \in Seq(Message)
    BY <1>3, <2>1
  <2>3. chan' \in [Rounds -> [Hosts -> Seq(Message)]]
    BY <1>1, <1>5, <2>2, OutgoingTypes DEF ClientBegin, TypeOK, HostsTypeOK
  <2> HIDE DEF m
  <2>4. /\ currDiff' = [currDiff EXCEPT ![h] = m]
        /\ oms' = [oms EXCEPT ![h] = {}] /\ result' = [result EXCEPT ![h] = TRUE]
        /\ \E label \in {"post", "awaitVerdict", "connecting"} : pc' = [pc EXCEPT ![h] = label]
        /\ UNCHANGED <<data, agent, success, comm, open, otherSet, recvMeta, toSend, due, history>>
    BY <1>5 DEF ClientBegin, Goto, m
  <2> QED
    BY <1>1, <2>1, <2>3, <2>4
    DEF TypeOK, HostsTypeOK, history, ClientPC, ServerPC, ClientWaits, Ended
<1>6. CASE ClientConnect
  <2> DEFINE msgs == IF agent[h].oneWay
                     THEN <<[type |-> "mod", token |-> agent[h].mod], Params(h),
                            Evals(h, currDiff[h])>>
                     ELSE <<[type |-> "mod", token |-> agent[h].mod]>>
  <2>1. msgs \in Seq(Message)
    BY <1>2, <1>3, <1>4
  <2>2. Send(h, msgs)
    BY <1>6 DEF ClientConnect, agentVars, Listening
  <2>3. chan' \in [Rounds -> [Hosts -> Seq(Message)]]
    BY <1>1, <2>1, <2>2, OutgoingTypes
  <2>4. open' \in [Rounds -> [Hosts -> BOOLEAN]]
    <3>1. [g \in Hosts |-> g = "server" \/ ~agent[h].oneWay] \in [Hosts -> BOOLEAN]
      OBVIOUS
    <3> QED
      BY <1>1, <1>6, <3>1 DEF ClientConnect, agentVars, Listening, TypeOK, HostsTypeOK
  <2>5. /\ \E label \in {"post", "awaitMod"} :
              pc' = [pc EXCEPT !["client"] = label, !["server"] = "recvMod"]
        /\ UNCHANGED <<data, agent, success, comm, currDiff, otherSet, recvMeta, toSend, due,
                       oms, result, history>>
    BY <1>6 DEF ClientConnect, agentVars, Listening
  <2> QED
    BY <1>1, <2>3, <2>4, <2>5
    DEF TypeOK, HostsTypeOK, history, ClientPC, ServerPC, ClientWaits,
            ServerWaits, Ended
<1>7. CASE ClientConnectFails
  <2>1. open' \in [Rounds -> [Hosts -> BOOLEAN]]
    BY <1>1, <1>7, OpenTypes DEF ClientConnectFails, agentVars
  <2> QED
    BY <1>1, <1>7, <2>1
    DEF ClientConnectFails, agentVars, Quit, Goto, TypeOK, HostsTypeOK,
            history, ClientPC, Ended
<1>8. ASSUME NEW label, NEW next \in {"awaitParams", "awaitVerdict"}, NEW msg \in Message,
             ClientHandshake(label, next, msg)
      PROVE  TypeOK'
  <2>1. <<msg>> \in Seq(Message) /\ Incoming(h) # <<>>
    BY <1>8 DEF ClientHandshake, agentVars, Receives
  <2>2. chan' \in [Rounds -> [Hosts -> Seq(Message)]]
    BY <1>1, <1>8, <2>1, IncomingTypes, OutgoingTypes DEF ClientHandshake, agentVars
  <2>3. open' \in [Rounds -> [Hosts -> BOOLEAN]]
    BY <1>1, <1>8, OpenTypes DEF ClientHandshake, agentVars, TypeOK, HostsTypeOK
  <2>4. /\ \E l \in {"awaitParams", "awaitVerdict", "quit"} : pc' = [pc EXCEPT ![h] = l]
        /\ UNCHANGED <<data, agent, success, comm, currDiff, otherSet, recvMeta, toSend, due,
                       oms, result, history>>
    BY <1>8 DEF ClientHandshake, agentVars, Goto, Quit
  <2> QED
    BY <1>1, <2>2, <2>3, <2>4 DEF TypeOK, HostsTypeOK, history, ClientPC, ClientWaits, Ended
<1>9. CASE ClientVerdict
  <2> DEFINE more == [type |-> "more", pts |-> MorePoints(agent[h], currDiff[h])]
  <2>1. <<more>> \in Seq(Message) /\ Incoming(h) # <<>>
    BY <1>2, <1>9, PointTypes, MessageTypes DEF ClientVerdict, Receives
  <2>2. chan' \in [Rounds -> [Hosts -> Seq(Message)]]
    BY <1>1, <1>9, <2>1, IncomingTypes, OutgoingTypes DEF ClientVerdict
  <2>3. open' \in [Rounds -> [Hosts -> BOOLEAN]]
    BY <1>1, <1>9, OpenTypes DEF ClientVerdict, TypeOK, HostsTypeOK
  <2>4. /\ pc' = pc \/ \E l \in {"awaitDeltas", "post"} : pc' = [pc EXCEPT ![h] = l]
        /\ \/ currDiff' = currDiff
           \/ currDiff' = [currDiff EXCEPT ![h] = NextDiff(agent[h], currDiff[h])]
        /\ result' = result \/ result' = [result EXCEPT ![h] = FALSE]
        /\ UNCHANGED <<data, agent, success, comm, otherSet, recvMeta, toSend, due, oms, history>>
    BY <1>9 DEF ClientVerdict, Goto
  <2>5. /\ NextDiff(agent[h], currDiff[h]) \in Nat \ {0}
        /\ NextDiff(agent[h], currDiff[h]) <= agent[h].mbar
    BY <1>2, PointTypes
  <2>6. /\ currDiff' \in [Hosts -> Nat \ {0}]
        /\ \A g \in Hosts : currDiff'[g] <= agent'[g].mbar
    <3>1. CASE currDiff' = currDiff
      BY <2>4, <3>1 DEF TypeOK, HostsTypeOK
    <3>2. CASE currDiff' = [currDiff EXCEPT ![h] = NextDiff(agent[h], currDiff[h])]
      BY <1>1, <2>4, <2>5, <3>2 DEF TypeOK, HostsTypeOK
    <3> QED
      BY <2>4, <3>1, <3>2
  <2>7. pc'["client"] \in ClientPC /\ pc'["server"] \in ServerPC /\ DOMAIN pc' = Hosts
    BY <1>1, <2>4 DEF TypeOK, HostsTypeOK, ClientPC, ClientWaits, Ended
  <2> QED
    BY <1>1, <2>2, <2>3, <2>4, <2>6, <2>7 DEF TypeOK, HostsTypeOK, history
<1>10. CASE ClientDeltas
  <2> DEFINE msg == Head(Incoming(h))
  <2>1. Incoming(h) # <<>> /\ msg.type = "deltas" /\ msg \in Message
    BY <1>1, <1>10, IncomingTypes DEF ClientDeltas, Receives
  <2>2. Mine(msg) \in SUBSET Elem /\ Others(msg) \in SUBSET Elem
    BY <2>1, MessageFields DEF Mine, Others
  <2>3. chan' \in [Rounds -> [Hosts -> Seq(Message)]]
    BY <1>1, <1>10, <2>1, IncomingTypes DEF ClientDeltas
  <2>4. /\ MakeStructures(h, Mine(msg), Others(msg))
        /\ UNCHANGED <<data, agent, success, comm, currDiff, otherSet, recvMeta, result, history>>
    BY <1>10 DEF ClientDeltas
  <2> QED
    BY <1>1, <2>2, <2>3, <2>4, StructureTypes DEF TypeOK, HostsTypeOK, history
<1> QED
  BY <1>4, <1>3, <1>2, <1>5, <1>6, <1>7, <1>8, <1>9, <1>10
  DEF ClientStep, ClientModReply, ClientParamsReply

\* What a decision records, with the sets it was taken on.
LEMMA DecideTypes ==
    ASSUME TypeOK, NEW v \in {"ok", "fail"}, Decide(v)
    PROVE  /\ verdict' \in [Rounds -> {"none", "ok", "fail"}]
           /\ base' \in [Rounds -> [Hosts -> SUBSET Elem]]
<1>1. data \in [Hosts -> SUBSET Elem]
  BY DEF TypeOK, HostsTypeOK
<1> QED
  BY <1>1 DEF Decide, TypeOK, HostsTypeOK

LEMMA ServerTypeOK ==
    ASSUME TypeOK, ServerStep
    PROVE  TypeOK'
<1> DEFINE h == "server"
<1>1. h \in Hosts /\ "client" \in Hosts /\ Other(h) \in Hosts
  BY HostsType
<1>2. /\ agent[h] \in AgentType(Tokens) /\ currDiff[h] \in Nat \ {0}
      /\ currDiff[h] <= agent[h].mbar /\ data[h] \in SUBSET Elem
  BY <1>1 DEF TypeOK, HostsTypeOK
<1>3. \A m \in Nat \ {0} : m <= agent[h].mbar =>
         /\ StartDiff(agent[h], m) \in Nat \ {0} /\ StartDiff(agent[h], m) <= agent[h].mbar
         /\ NextDiff(agent[h], m) \in Nat \ {0} /\ NextDiff(agent[h], m) <= agent[h].mbar
  BY <1>2, PointTypes
<1>4. ASSUME NEW m \in Nat \ {0}, m <= agent[h].mbar,
             currDiff' = [currDiff EXCEPT ![h] = m], UNCHANGED agent
      PROVE  /\ currDiff' \in [Hosts -> Nat \ {0}]
             /\ \A g \in Hosts : currDiff'[g] <= agent'[g].mbar
  BY <1>1, <1>4 DEF TypeOK, HostsTypeOK
<1>5. CASE ServerBegin
  <2> DEFINE m == StartDiff(agent[h], currDiff[h])
  <2>1. m \in Nat \ {0} /\ m <= agent[h].mbar
    BY <1>2, <1>3
  <2>2. currDiff' = [currDiff EXCEPT ![h] = m] /\ UNCHANGED agent
    BY <1>5 DEF ServerBegin
  <2>3. /\ currDiff' \in [Hosts -> Nat \ {0}]
        /\ \A g \in Hosts : currDiff'[g] <= agent'[g].mbar
    BY <1>4, <2>1, <2>2
  <2>4. /\ oms' = [oms EXCEPT ![h] = {}] /\ result' = [result EXCEPT ![h] = TRUE]
        /\ \E label \in {"recvEvals", "listening"} : pc' = [pc EXCEPT ![h] = label]
        /\ UNCHANGED <<data, agent, success, comm, chan, open, otherSet, recvMeta, toSend, due, history>>
    BY <1>5 DEF ServerBegin, Goto
  <2> QED
    BY <1>1, <2>3, <2>4
    DEF TypeOK, HostsTypeOK, history, ClientPC, ServerPC, ServerWaits, Ended
<1>6. ASSUME NEW label, NEW next \in {"recvParams", "recvEvals"}, NEW type, NEW mine,
             ServerHandshake(label, next, type, mine)
      PROVE  TypeOK'
  <2> DEFINE ok == Head(Incoming(h)).token = mine
  <2>1. Incoming(h) # <<>> /\ <<Flag(ok)>> \in Seq(Message)
    <3>1. Incoming(h) # <<>>
      BY <1>6 DEF ServerHandshake, agentVars, Receives
    <3>2. ok = TRUE \/ ok = FALSE
      OBVIOUS
    <3> HIDE DEF ok
    <3>3. Flag(ok) \in Message
      BY <3>2, MessageTypes DEF Flag
    <3> QED
      BY <3>1, <3>3
  <2>2. chan' \in [Rounds -> [Hosts -> Seq(Message)]]
    BY <1>1, <1>6, <2>1, IncomingTypes, OutgoingTypes DEF ServerHandshake, agentVars
  <2>3. open' \in [Rounds -> [Hosts -> BOOLEAN]]
    BY <1>1, <1>6, OpenTypes DEF ServerHandshake, agentVars, TypeOK, HostsTypeOK
  <2>4. /\ \E l \in {"recvParams", "recvEvals", "quit"} : pc' = [pc EXCEPT ![h] = l]
        /\ UNCHANGED <<data, agent, success, comm, currDiff, otherSet, recvMeta, toSend, due,
                       oms, result, history>>
    BY <1>6 DEF ServerHandshake, agentVars, Goto, Quit
  <2> QED
    BY <1>1, <2>2, <2>3, <2>4 DEF TypeOK, HostsTypeOK, history, ServerPC, ServerWaits, Ended
<1>7. CASE ServerEvals
  <2> DEFINE msg == Head(Incoming(h))
  <2>1. Incoming(h) # <<>> /\ msg.type = "evals" /\ msg \in Message
    BY <1>1, <1>7, IncomingTypes DEF ServerEvals, Receives
  <2>2. chan' \in [Rounds -> [Hosts -> Seq(Message)]]
    BY <1>1, <1>7, <2>1, IncomingTypes DEF ServerEvals
  <2>3. otherSet' \in SUBSET Elem /\ recvMeta' \in Seq(Nat)
    BY <1>7, <2>1, MessageFields DEF ServerEvals
  <2>4. /\ pc' = [pc EXCEPT ![h] = "attempt"]
        /\ UNCHANGED <<data, agent, success, comm, open, currDiff, toSend, due, oms, result, history>>
    BY <1>7 DEF ServerEvals, Goto
  <2> QED
    BY <1>1, <2>2, <2>3, <2>4 DEF TypeOK, HostsTypeOK, history, ServerPC
<1>8. CASE ServerSucceeds
  <2> DEFINE self == data[h] \ otherSet
             other == otherSet \ data[h]
             reply == SuccessReply(self, other)
  <2>1. self \in SUBSET Elem /\ other \in SUBSET Elem
    BY <1>2 DEF TypeOK, HostsTypeOK
  <2>2. reply \in Seq(Message)
    BY <2>1, MessageTypes DEF SuccessReply, Flag
  <2>3. chan' \in [Rounds -> [Hosts -> Seq(Message)]]
    BY <1>1, <1>8, <2>2, OutgoingTypes DEF ServerSucceeds, TypeOK, HostsTypeOK
  <2>4. /\ MakeStructures(h, self, other) /\ Decide("ok")
        /\ UNCHANGED <<data, agent, success, comm, currDiff, otherSet, recvMeta, result>>
    BY <1>8 DEF ServerSucceeds
  <2>5. /\ verdict' \in [Rounds -> {"none", "ok", "fail"}]
        /\ base' \in [Rounds -> [Hosts -> SUBSET Elem]]
    BY <2>4, DecideTypes
  <2> QED
    BY <1>1, <2>1, <2>3, <2>4, <2>5, StructureTypes DEF TypeOK, HostsTypeOK
<1>9. CASE ServerFails
  <2>1. FailureReply \in Seq(Message)
    BY MessageTypes DEF FailureReply, Flag
  <2>2. chan' \in [Rounds -> [Hosts -> Seq(Message)]]
    BY <1>1, <1>9, <2>1, OutgoingTypes DEF ServerFails, agentVars, TypeOK, HostsTypeOK
  <2>3. open' \in [Rounds -> [Hosts -> BOOLEAN]]
    BY <1>1, <1>9, OpenTypes DEF ServerFails, agentVars, TypeOK, HostsTypeOK
  <2>4. /\ verdict' \in [Rounds -> {"none", "ok", "fail"}]
        /\ base' \in [Rounds -> [Hosts -> SUBSET Elem]]
    BY <1>9, DecideTypes DEF ServerFails, agentVars, TypeOK, HostsTypeOK, history
  <2>5. /\ \E l \in {"post", "recvMore"} : pc' = [pc EXCEPT ![h] = l]
        /\ result' = result \/ result' = [result EXCEPT ![h] = FALSE]
        /\ UNCHANGED <<data, agent, success, comm, currDiff, otherSet, recvMeta, toSend, due, oms>>
    BY <1>9 DEF ServerFails, agentVars, Goto
  <2> QED
    BY <1>1, <2>2, <2>3, <2>4, <2>5 DEF TypeOK, HostsTypeOK, ServerPC, ServerWaits
<1>10. CASE ServerMore
  <2> DEFINE msg == Head(Incoming(h))
             m == NextDiff(agent[h], currDiff[h])
  <2>1. Incoming(h) # <<>> /\ msg.type = "more" /\ msg \in Message
    BY <1>1, <1>10, IncomingTypes DEF ServerMore, Receives
  <2>2. chan' \in [Rounds -> [Hosts -> Seq(Message)]]
    BY <1>1, <1>10, <2>1, IncomingTypes DEF ServerMore
  <2>3. recvMeta' \in Seq(Nat)
    <3>1. recvMeta \in Seq(Nat) /\ msg.pts \in Seq(Nat) /\ recvMeta' = recvMeta \o msg.pts
      BY <1>10, <2>1, MessageFields DEF ServerMore, TypeOK, HostsTypeOK
    <3> QED
      BY <3>1
  <2>4. m \in Nat \ {0} /\ m <= agent[h].mbar
    BY <1>2, <1>3
  <2>5. currDiff' = [currDiff EXCEPT ![h] = m] /\ UNCHANGED agent
    BY <1>10 DEF ServerMore
  <2>6. /\ currDiff' \in [Hosts -> Nat \ {0}]
        /\ \A g \in Hosts : currDiff'[g] <= agent'[g].mbar
    BY <1>4, <2>4, <2>5
  <2>7. /\ pc' = [pc EXCEPT ![h] = "attempt"]
        /\ UNCHANGED <<data, agent, success, comm, open, otherSet, toSend, due, oms, result, history>>
    BY <1>10 DEF ServerMore, Goto
  <2> QED
    BY <1>1, <2>2, <2>3, <2>6, <2>7 DEF TypeOK, HostsTypeOK, history, ServerPC
<1> QED
  BY <1>5, <1>6, <1>7, <1>8, <1>9, <1>10 DEF ServerStep, ServerMod, ServerParams

LEMMA StringsTypeOK ==
    ASSUME TypeOK, NEW h \in Hosts, SendString(h) \/ ReceiveString(h) \/ StringsDone(h)
    PROVE  TypeOK'
<1>1. CASE SendString(h)
  <2>1. PICK e \in toSend[h] : /\ Send(h, <<[type |-> "string", elem |-> e]>>)
                               /\ toSend' = [toSend EXCEPT ![h] = @ \ {e}]
    BY <1>1 DEF SendString
  <2>2. <<[type |-> "string", elem |-> e]>> \in Seq(Message)
    BY MessageTypes DEF TypeOK, HostsTypeOK
  <2>3. chan' \in [Rounds -> [Hosts -> Seq(Message)]]
    BY <2>1, <2>2, OutgoingTypes
  <2> QED
    BY <1>1, <2>1, <2>3 DEF SendString, TypeOK, HostsTypeOK, history
<1>2. CASE ReceiveString(h)
  <2> DEFINE msg == Head(Incoming(h))
  <2>1. Incoming(h) # <<>> /\ msg.type = "string" /\ msg \in Message
    BY <1>2, IncomingTypes DEF ReceiveString, Receives
  <2>2. chan' \in [Rounds -> [Hosts -> Seq(Message)]]
    BY <1>2, <2>1, IncomingTypes DEF ReceiveString
  <2>3. oms' \in [Hosts -> SUBSET Elem] /\ due' \in [Hosts -> Nat]
    <3>1. oms[h] \cup {msg.elem} \in SUBSET Elem /\ due[h] - 1 \in Nat
      <4>1. msg.elem \in Elem
        BY <2>1, MessageFields
      <4>2. oms[h] \in SUBSET Elem /\ due[h] \in Nat /\ due[h] > 0
        BY <1>2 DEF ReceiveString, TypeOK, HostsTypeOK
      <4> QED
        BY <4>1, <4>2
    <3>2. /\ oms' = [oms EXCEPT ![h] = oms[h] \cup {msg.elem}]
          /\ due' = [due EXCEPT ![h] = due[h] - 1]
      BY <1>2 DEF ReceiveString, TypeOK, HostsTypeOK
    <3> HIDE DEF msg
    <3>3. oms' \in [Hosts -> SUBSET Elem]
      BY <3>1, <3>2 DEF TypeOK, HostsTypeOK
    <3>4. due' \in [Hosts -> Nat]
      BY <3>1, <3>2 DEF TypeOK, HostsTypeOK
    <3> QED
      BY <3>3, <3>4
  <2> QED
    BY <1>2, <2>2, <2>3 DEF ReceiveString, TypeOK, HostsTypeOK, history
<1>3. CASE StringsDone(h)
  <2>1. open' \in [Rounds -> [Hosts -> BOOLEAN]]
    BY <1>3, OpenTypes DEF StringsDone, agentVars
  <2> QED
    BY <1>3, <2>1, HostsType
    DEF StringsDone, agentVars, Goto, TypeOK, HostsTypeOK, history, Hosts,
            ClientPC, ServerPC
<1> QED
  BY <1>1, <1>2, <1>3

\* A host takes the next communicant, or ends.
LEMMA FinishTypeOK ==
    ASSUME TypeOK, NEW h \in Hosts, PostProcess(h) \/ Crash(h) \/ PeerGone(h)
    PROVE  TypeOK'
<1>1. CASE PostProcess(h)
  <2>1. data' \in [Hosts -> SUBSET Elem] /\ success' \in [Hosts -> BOOLEAN]
    <3>1. data[h] \cup oms[h] \in SUBSET Elem /\ result[h] \in BOOLEAN
      BY DEF TypeOK, HostsTypeOK
    <3>2. data' \in [Hosts -> SUBSET Elem]
      BY <1>1, <3>1 DEF PostProcess, NextCommunicant, Last, agentVars, PostProcessing, TypeOK,
            HostsTypeOK
    <3>3. success' = [success EXCEPT ![h] = success[h] /\ result[h]]
      BY <1>1 DEF PostProcess, NextCommunicant, Last, agentVars, TypeOK, HostsTypeOK
    <3>4. (success[h] /\ result[h]) \in BOOLEAN
      OBVIOUS
    <3>5. success' \in [Hosts -> BOOLEAN]
      BY <3>3, <3>4 DEF TypeOK, HostsTypeOK
    <3> QED
      BY <3>2, <3>5
  <2>2. comm' \in [Hosts -> Rounds]
    <3>1. comm[h] \in 1..Sessions /\ comm \in [Hosts -> 1..Sessions]
      BY DEF TypeOK, HostsTypeOK, Rounds
    <3>2. \/ comm' = comm
          \/ comm[h] # Sessions /\ comm' = [comm EXCEPT ![h] = comm[h] + 1]
      BY <1>1 DEF PostProcess, NextCommunicant, Last, agentVars, TypeOK, HostsTypeOK
    <3> QED
      BY <3>1, <3>2, HostsAssumption DEF Rounds
  <2>3. /\ \E l \in {"returned", "begin"} : pc' = [pc EXCEPT ![h] = l]
        /\ UNCHANGED <<agent, chan, open, currDiff, otherSet, recvMeta, toSend, due,
                       oms, result, history>>
    BY <1>1 DEF PostProcess, NextCommunicant, Last, agentVars, Goto
  <2> QED
    BY <2>1, <2>2, <2>3, HostsType DEF TypeOK, HostsTypeOK, history, Hosts, ClientPC, ServerPC, Ended
<1>2. CASE Crash(h) \/ PeerGone(h)
  <2>1. /\ Quit(h)
        /\ UNCHANGED <<data, agent, success, comm, chan, currDiff, otherSet, recvMeta, toSend,
                       due, oms, result, history>>
    BY <1>2 DEF Crash, Killed, Deserted, agentVars, PeerGone
  <2>2. open' \in [Rounds -> [Hosts -> BOOLEAN]]
    BY <2>1, OpenTypes
  <2> QED
    BY <2>1, <2>2, HostsType
    DEF Quit, Goto, TypeOK, HostsTypeOK, history, Hosts, ClientPC, ServerPC,
            Ended
<1> QED
  BY <1>1, <1>2

\* Whatever two agents meet, over any number of communicants and with any crash,
\* every variable keeps its type; in particular currDiff stays within 1..maxDiff on
\* both hosts (the doubling of SyncClient and SyncServer, capped at maxDiff).
THEOREM TypeCorrect == Spec => []TypeOK
<1>1. Init => TypeOK
  BY InitTypeOK
<1>2. TypeOK /\ [Next]_vars => TypeOK'
  <2> SUFFICES ASSUME TypeOK, [Next]_vars PROVE TypeOK'
    OBVIOUS
  <2>1. CASE UNCHANGED vars
    BY <2>1 DEF TypeOK, HostsTypeOK, vars, hostVars, agentVars, history
  <2>2. CASE Next
    BY <2>2, ClientTypeOK, ServerTypeOK, StringsTypeOK, FinishTypeOK DEF Next, HostStep
  <2> QED
    BY <2>1, <2>2
<1> QED
  BY <1>1, <1>2, PTL DEF Spec

(***************************************************************************)
(* The phases of a session between two hosts with equal agents.            *)
(*                                                                         *)
(* Each round is in one of the phases below, which say at what receive     *)
(* each of its two hosts is, and what is on its two streams.  A host that  *)
(* has quit is in the round in which it did, and a phase allows it         *)
(* wherever it allows the host to be waiting.                              *)
(***************************************************************************)
A == agent["server"]

\* Where host h is in round i.
Place(h, i) ==
    IF comm[h] < i THEN "begin"
    ELSE IF comm[h] > i \/ pc[h] = "returned" THEN "post" ELSE pc[h]

At(i, cs, ss) ==
    Place("client", i) \in cs \cup {"quit"} /\ Place("server", i) \in ss \cup {"quit"}
Carries(i, toClient, toServer) ==
    chan[i]["client"] = toClient /\ chan[i]["server"] = toServer

First == StartDiff(A, A.mbar)
ModMsg == [type |-> "mod", token |-> A.mod]
ParamsMsg == [type |-> "params", token |-> A.par]
EvalsMsg == [type |-> "evals", set |-> data["client"], pts |-> FirstPoints(A, First)]
MoreMsg(m) == [type |-> "more", pts |-> MorePoints(A, m)]

\* What the server holds of the client's.
Holding ==
    /\ otherSet = data["client"]
    /\ recvMeta = Points(0, currDiff["server"] + A.k)

(***************************************************************************)
(* The phases of a round.                                                  *)
(***************************************************************************)
Idle(i) ==
    /\ At(i, {"begin", "connecting"}, {"begin", "listening", "recvEvals"})
    /\ Carries(i, <<>>, <<>>)

ModSent(i) == At(i, {"awaitMod"}, {"recvMod"}) /\ Carries(i, <<>>, <<ModMsg>>)
ModFine(i) == At(i, {"awaitMod"}, {"recvParams"}) /\ Carries(i, <<Flag(TRUE)>>, <<>>)
ParamsSent(i) == At(i, {"awaitParams"}, {"recvParams"}) /\ Carries(i, <<>>, <<ParamsMsg>>)
ParamsFine(i) == At(i, {"awaitParams"}, {"recvEvals"}) /\ Carries(i, <<Flag(TRUE)>>, <<>>)

EvalsSent(i) ==
    /\ At(i, {"awaitVerdict"}, {"begin", "recvEvals"})
    /\ Carries(i, <<>>, <<EvalsMsg>>)
    /\ Place("server", i) = "begin" => A.keepAlive
    /\ currDiff["client"] = First

Attempted(i) ==
    /\ At(i, {"awaitVerdict"}, {"attempt"})
    /\ Carries(i, <<>>, <<>>)
    /\ Holding /\ currDiff["client"] = currDiff["server"]

Refused(i) ==
    /\ At(i, {"awaitVerdict"}, {"recvMore"})
    /\ Carries(i, <<Flag(FALSE)>>, <<>>)
    /\ Holding /\ currDiff["client"] = currDiff["server"]
    /\ ~GivesUp(A, currDiff["server"])

MoreSent(i) ==
    /\ At(i, {"awaitVerdict"}, {"recvMore"})
    /\ Carries(i, <<>>, <<MoreMsg(currDiff["server"])>>)
    /\ Holding /\ currDiff["client"] = NextDiff(A, currDiff["server"])
    /\ ~GivesUp(A, currDiff["server"])

Undecided(i) ==
    /\ verdict[i] = "none"
    /\ \/ Idle(i) \/ ModSent(i) \/ ModFine(i) \/ ParamsSent(i) \/ ParamsFine(i)
       \/ EvalsSent(i) \/ Attempted(i) \/ Refused(i) \/ MoreSent(i)

\* Why a session fails.
Excuse(i) ==
    \/ Cardinality(Differences(i)) > A.mbar
    \/ base[i]["server"] = {} /\ base[i]["client"] # {}

LostSent(i) ==
    /\ At(i, {"awaitVerdict"}, {"post"})
    /\ Carries(i, <<Flag(FALSE)>>, <<>>)
    /\ GivesUp(A, currDiff["client"])

Lost(i) == At(i, {"post"}, {"post"}) /\ Carries(i, <<>>, <<>>)

Failed(i) == verdict[i] = "fail" /\ Excuse(i) /\ (LostSent(i) \/ Lost(i))

(***************************************************************************)
(* The exchange of strings after a success.                                *)
(***************************************************************************)
Owed(h, i) == base[i][Other(h)] \ base[i][h]
DeltasMsg(i) == [type |-> "deltas", other |-> Owed("server", i), self |-> Owed("client", i)]

\* From place n on the stream holds strings owed, each once.
Strings(h, i, n) ==
    LET q == chan[i][h] IN
    /\ \A j \in n..Len(q) : A.hashQ /\ q[j].type = "string" /\ q[j].elem \in Owed(h, i)
    /\ \A j, l \in n..Len(q) : q[j].elem = q[l].elem => j = l

\* The string e is not on its way to h from place n on.
Absent(e, h, i, n) == \A j \in n..Len(chan[i][h]) : chan[i][h][j].elem # e

\* Strings that h is owed and that are neither with it nor on the way from place n.
Unsent(h, i, n) ==
    {e \in Owed(h, i) : /\ Absent(e, h, i, n)
                        /\ Place(h, i) = "strings" => e \notin oms[h]}

Receiving(h, i) ==
    /\ A.hashQ
    /\ Strings(h, i, 1)
    /\ \A e \in oms[h] : Absent(e, h, i, 1)
    /\ oms[h] \subseteq Owed(h, i)
    /\ due[h] = Cardinality(Owed(h, i) \ oms[h])

\* What comes before the strings on their way to a host.
Before(h, i) ==
    CASE Place(h, i) = "awaitVerdict" -> 2
      [] Place(h, i) = "awaitDeltas" -> 1
      [] OTHER -> 0

\* What host h will receive.
Inbound(h, i) ==
    LET q == chan[i][h] IN
    /\ Place(h, i) = "awaitVerdict" =>
          Len(q) >= 2 /\ q[1] = Flag(TRUE) /\ q[2] = DeltasMsg(i) /\ Strings(h, i, 3)
    /\ Place(h, i) = "awaitDeltas" =>
          Len(q) >= 1 /\ q[1] = DeltasMsg(i) /\ Strings(h, i, 2)
    /\ Place(h, i) = "strings" => Receiving(h, i)
    /\ Place(h, i) = "post" => q = <<>>

\* What host h will send to g.
Outbound(h, i) ==
    LET g == Other(h) IN
    /\ Place(h, i) = "strings" =>
          IF Place(g, i) = "post" THEN toSend[h] = {}
          ELSE Place(g, i) = "quit" \/ toSend[h] \subseteq Unsent(g, i, Before(g, i) + 1)
    /\ Place(h, i) \in {"awaitVerdict", "awaitDeltas"} =>
          /\ Place(g, i) = "strings" => chan[i][g] = <<>> /\ oms[g] = {}
          /\ Place(g, i) = "post" /\ A.hashQ => Owed(g, i) = {}

Found(i) ==
    /\ verdict[i] = "ok"
    /\ At(i, {"awaitVerdict", "awaitDeltas", "strings", "post"}, {"strings", "post"})
    /\ \A h \in Hosts : Inbound(h, i) /\ Outbound(h, i)

(***************************************************************************)
(* One-way rounds: the client says everything at once and goes on.         *)
(***************************************************************************)
Said(i) ==
    LET s == Place("server", i)
        q == chan[i]["server"]
    IN
    /\ Place("client", i) \in {"post", "quit"}
    /\ s \in {"recvMod", "recvParams", "begin", "recvEvals", "attempt", "recvMore", "post", "quit"}
    /\ s = "recvMod" => q = <<ModMsg, ParamsMsg, EvalsMsg>>
    /\ s = "recvParams" => q = <<ParamsMsg, EvalsMsg>>
    /\ s \in {"begin", "recvEvals"} => q = <<EvalsMsg>>
    /\ s = "begin" => A.keepAlive
    /\ s \in {"attempt", "recvMore", "post"} => q = <<>>
    /\ s = "attempt" => Holding
    /\ s = "post" => verdict[i] # "none"
    /\ s \notin {"post", "quit"} => verdict[i] = "none"
    /\ chan[i]["client"] = <<>>

Round(i) ==
    IF A.oneWay THEN (Idle(i) /\ verdict[i] = "none") \/ Said(i)
    ELSE Undecided(i) \/ Failed(i) \/ Found(i)

(***************************************************************************)
(* Each host by itself.                                                    *)
(***************************************************************************)
Unstarted == {"connecting", "listening", "awaitMod", "awaitParams", "recvMod", "recvParams"}
Early == Unstarted \cup {"recvEvals"}
Open == Early \cup {"awaitVerdict", "awaitDeltas", "attempt", "recvMore"}

Outcome(h) ==
    LET i == comm[h] IN
    /\ verdict[i] = IF result[h] THEN "ok" ELSE "fail"
    /\ result[h] => oms[h] = Owed(h, i)
    /\ ~result[h] => oms[h] = {}

Host(h) ==
    /\ ~A.prob => currDiff[h] = A.mbar
    /\ pc[h] \in Early => currDiff[h] = First
    /\ pc[h] \in Unstarted => ~A.keepAlive
    /\ pc[h] \in Open => result[h] /\ oms[h] = {}
    /\ pc[h] = "strings" => result[h] /\ ~A.oneWay
    /\ pc[h] = "post" /\ (A.oneWay => h = "server") => Outcome(h)
    /\ A.oneWay /\ h = "client" => oms[h] = {}
    /\ pc[h] # "returned" /\ verdict[comm[h]] # "none" => base[comm[h]][h] = data[h]

Link == (\A i \in Rounds : Round(i)) /\ (\A h \in Hosts : Host(h))

IInv == TypeOK /\ (Matched => Link)

(***************************************************************************)
(* Frames: what a step leaves as it was.                                   *)
(***************************************************************************)
LEMMA SameAgents ==
    ASSUME TypeOK, Matched
    PROVE  /\ A \in AgentType(Tokens)
           /\ \A h \in Hosts : agent[h] = A
           /\ {A.oneWay, A.keepAlive, A.hashQ, A.prob} \subseteq BOOLEAN
<1>1. A \in AgentType(Tokens)
  BY HostsType DEF TypeOK, A
<1> QED
  BY <1>1 DEF Matched, A, AgentType, Hosts

\* A step after which host h, out of action in the round, is where it was or has quit
\* there, and by which all else that the round depends on is unchanged.
Untouched(h, i) ==
    /\ UNCHANGED agent
    /\ chan'[i] = chan[i] /\ verdict'[i] = verdict[i] /\ base'[i] = base[i]
    /\ \A g \in Hosts \ {h} :
          /\ Place(g, i)' = Place(g, i)
          /\ data'[g] = data[g] /\ currDiff'[g] = currDiff[g]
          /\ oms'[g] = oms[g] /\ due'[g] = due[g] /\ toSend'[g] = toSend[g]
    /\ h = "client" => UNCHANGED <<otherSet, recvMeta>>
    /\ A.oneWay => data'["client"] = data["client"]

\* Each phase survives such a step.
LEMMA UndecidedFrame ==
    ASSUME NEW i \in Rounds, Undecided(i), NEW h \in Hosts, Untouched(h, i),
           Place(h, i) \in {"begin", "post"}, Place(h, i)' = Place(h, i)
    PROVE  Undecided(i)'
<1>1. \A g \in Hosts : Place(g, i)' = Place(g, i)
  BY DEF Untouched
<1>2. A' = A /\ First' = First /\ chan'[i] = chan[i] /\ verdict'[i] = "none"
  BY DEF Untouched, A, First, Undecided
<1>3. Idle(i) => Idle(i)'
  BY <1>1, <1>2, HostsType DEF Idle, At, Carries
<1>4. ModSent(i) \/ ModFine(i) \/ ParamsSent(i) \/ ParamsFine(i) \/ Attempted(i)
         \/ Refused(i) \/ MoreSent(i) => h \notin Hosts
  BY DEF ModSent, ModFine, ParamsSent, ParamsFine, Attempted, Refused, MoreSent, At, Hosts
<1>5. EvalsSent(i) => EvalsSent(i)'
  <2> SUFFICES ASSUME EvalsSent(i) PROVE EvalsSent(i)'
    OBVIOUS
  <2>1. h = "server"
    BY DEF EvalsSent, At, Hosts
  <2>2. EvalsMsg' = EvalsMsg /\ currDiff'["client"] = currDiff["client"]
    BY <1>2, <2>1, HostsType DEF EvalsMsg, Untouched
  <2> QED
    BY <1>1, <1>2, <2>2, HostsType DEF EvalsSent, At, Carries
<1> QED
  BY <1>2, <1>3, <1>4, <1>5 DEF Undecided

\* The same for a round that failed,
LEMMA FailedFrame ==
    ASSUME NEW i \in Rounds, Failed(i), NEW h \in Hosts, Untouched(h, i),
           Place(h, i) \in {"begin", "post"}, Place(h, i)' = Place(h, i)
    PROVE  Failed(i)'
<1>1. \A g \in Hosts : Place(g, i)' = Place(g, i)
  BY DEF Untouched
<1>2. A' = A /\ chan'[i] = chan[i] /\ verdict'[i] = "fail" /\ Excuse(i)'
  BY DEF Untouched, A, Failed, Excuse, Differences
<1>3. Lost(i) => Lost(i)'
  BY <1>1, <1>2, HostsType DEF Lost, At, Carries
<1>4. LostSent(i) => LostSent(i)'
  <2> SUFFICES ASSUME LostSent(i) PROVE LostSent(i)'
    OBVIOUS
  <2>1. h = "server"
    BY DEF LostSent, At, Hosts
  <2>2. currDiff'["client"] = currDiff["client"]
    BY <2>1, HostsType DEF Untouched
  <2> QED
    BY <1>1, <1>2, <2>2, HostsType DEF LostSent, At, Carries, Flag
<1> QED
  BY <1>2, <1>3, <1>4 DEF Failed

\* What is owed, on the way and received, when one host is out of action.
LEMMA StreamFrame ==
    ASSUME NEW i \in Rounds, NEW g \in Hosts,
           UNCHANGED agent, chan'[i][g] = chan[i][g], base'[i] = base[i],
           Place(g, i)' = Place(g, i),
           Place(g, i) = "strings" => oms'[g] = oms[g] /\ due'[g] = due[g]
    PROVE  /\ Owed(g, i)' = Owed(g, i)
           /\ DeltasMsg(i)' = DeltasMsg(i)
           /\ Before(g, i)' = Before(g, i)
           /\ \A n \in Nat : Unsent(g, i, n)' = Unsent(g, i, n)
           /\ Inbound(g, i)' = Inbound(g, i)
<1>1. Owed(g, i)' = Owed(g, i) /\ DeltasMsg(i)' = DeltasMsg(i)
  BY DEF Owed, DeltasMsg
<1>2. A' = A /\ \A n \in Nat : Strings(g, i, n)' = Strings(g, i, n)
  BY <1>1 DEF A, Strings
<1>3. Before(g, i)' = Before(g, i)
  BY DEF Before
<1>4. \A n \in Nat : Unsent(g, i, n)' = Unsent(g, i, n)
  BY <1>1 DEF Unsent, Absent
<1>5. Place(g, i) = "strings" => Receiving(g, i)' = Receiving(g, i)
  BY <1>1, <1>2 DEF Receiving, Absent
<1>6. Inbound(g, i)' = Inbound(g, i)
  BY <1>1, <1>2, <1>5 DEF Inbound, Flag
<1> QED
  BY <1>1, <1>3, <1>4, <1>6

\* for one in which the differences were found,
LEMMA FoundFrame ==
    ASSUME NEW i \in Rounds, Found(i), NEW h \in Hosts, Untouched(h, i),
           Place(h, i) \in {"begin", "post"}, Place(h, i)' = Place(h, i)
    PROVE  Found(i)'
<1>1. \A g \in Hosts : Place(g, i)' = Place(g, i)
  BY DEF Untouched
<1>2. A' = A /\ chan'[i] = chan[i] /\ verdict'[i] = "ok"
  BY DEF Untouched, A, Found
<1>3. Place(h, i) = "post"
  BY HostsType DEF Found, At, Hosts
<1>4. \A g \in Hosts :
        Place(g, i) = "strings" =>
           oms'[g] = oms[g] /\ due'[g] = due[g] /\ toSend'[g] = toSend[g]
  BY <1>3 DEF Untouched
<1>5. \A g \in Hosts :
        /\ Owed(g, i)' = Owed(g, i)
        /\ Before(g, i)' = Before(g, i)
        /\ \A n \in Nat : Unsent(g, i, n)' = Unsent(g, i, n)
        /\ Inbound(g, i)' = Inbound(g, i)
  BY <1>1, <1>4, StreamFrame DEF Untouched
<1>6. \A g \in Hosts : Before(g, i) + 1 \in Nat
  BY DEF Before
<1>7. \A g \in Hosts : Outbound(g, i) => Outbound(g, i)'
  BY <1>1, <1>2, <1>4, <1>5, <1>6, HostsType DEF Outbound
<1> QED
  BY <1>1, <1>2, <1>5, <1>7, HostsType DEF Found, At

\* and for a one-way round.
LEMMA SaidFrame ==
    ASSUME NEW i \in Rounds, Said(i), A.oneWay, NEW h \in Hosts, Untouched(h, i),
           Place(h, i) \in {"begin", "post"}, Place(h, i)' = Place(h, i)
    PROVE  Said(i)'
<1>1. \A g \in Hosts : Place(g, i)' = Place(g, i)
  BY DEF Untouched
<1>2. /\ A' = A /\ chan'[i] = chan[i] /\ verdict'[i] = verdict[i]
      /\ EvalsMsg' = EvalsMsg /\ ModMsg' = ModMsg /\ ParamsMsg' = ParamsMsg
  BY DEF Untouched, A, EvalsMsg, ModMsg, ParamsMsg, First
<1>3. Place("server", i) = "attempt" => (Holding => Holding')
  BY <1>2, HostsType DEF Untouched, Holding, Hosts
<1> QED
  BY <1>1, <1>2, <1>3, HostsType DEF Said

\* Hence for any round.
LEMMA RoundFrame ==
    ASSUME NEW i \in Rounds, Round(i), NEW h \in Hosts, Untouched(h, i),
           Place(h, i) \in {"begin", "post"}, Place(h, i)' = Place(h, i)
    PROVE  Round(i)'
<1>1. A' = A /\ verdict'[i] = verdict[i]
  BY DEF Untouched, A
<1>2. CASE A.oneWay
  <2>1. CASE Said(i)
    BY <1>1, <1>2, <2>1, SaidFrame DEF Round
  <2>2. CASE Idle(i) /\ verdict[i] = "none"
    <3>1. \A g \in Hosts : Place(g, i)' = Place(g, i)
      BY DEF Untouched
    <3>2. Idle(i)'
      BY <2>2, <3>1, HostsType DEF Idle, At, Carries, Untouched
    <3> QED
      BY <1>1, <1>2, <2>2, <3>2 DEF Round
  <2> QED
    BY <1>2, <2>1, <2>2 DEF Round
<1>3. CASE ~A.oneWay
  BY <1>1, <1>3, UndecidedFrame, FailedFrame, FoundFrame DEF Round
<1> QED
  BY <1>2, <1>3

\* A host may quit in any phase.
LEMMA RoundWithout ==
    ASSUME NEW i \in Rounds, Round(i), NEW h \in Hosts, Place(h, i)' = "quit",
           \A g \in Hosts \ {h} : Place(g, i)' = Place(g, i),
           UNCHANGED <<data, agent, chan, history, agentVars, oms>>
    PROVE  Round(i)'
<1>1. /\ A' = A /\ First' = First /\ chan'[i] = chan[i]
      /\ verdict'[i] = verdict[i] /\ base'[i] = base[i]
      /\ EvalsMsg' = EvalsMsg /\ ModMsg' = ModMsg /\ ParamsMsg' = ParamsMsg
      /\ Holding' = Holding
  BY DEF A, First, history, agentVars, EvalsMsg, ModMsg, ParamsMsg, Holding
<1>2. Undecided(i) => Undecided(i)'
  BY <1>1, HostsType DEF Undecided, Idle, ModSent, ModFine, ParamsSent, ParamsFine, EvalsSent, Attempted,
        Refused, MoreSent, MoreMsg, Flag, agentVars, At, Carries
<1>3. Failed(i) => Failed(i)'
  BY <1>1, HostsType DEF Failed, Excuse, Differences, LostSent, Lost, Flag, agentVars, At, Carries
<1>4. Said(i) => Said(i)'
  BY <1>1, HostsType DEF Said
<1>5. Found(i) => Found(i)'
  <2> SUFFICES ASSUME Found(i) PROVE Found(i)'
    OBVIOUS
  <2>1. \A g \in Hosts \ {h} :
          /\ Owed(g, i)' = Owed(g, i)
          /\ Before(g, i)' = Before(g, i)
          /\ \A n \in Nat : Unsent(g, i, n)' = Unsent(g, i, n)
          /\ Inbound(g, i)' = Inbound(g, i)
    BY <1>1, StreamFrame DEF agentVars
  <2>2. Inbound(h, i)'
    BY DEF Inbound
  <2>3. Outbound(h, i)'
    BY DEF Outbound
  <2>4. \A g \in Hosts \ {h} : Outbound(g, i)'
    BY DEF Outbound, Other, Hosts
  <2> QED
    BY <1>1, <2>1, <2>2, <2>3, <2>4, HostsType DEF Found, At
<1>6. Idle(i) => Idle(i)'
  BY <1>1, HostsType DEF Idle, At, Carries
<1> QED
  BY <1>1, <1>2, <1>3, <1>4, <1>5, <1>6 DEF Round

(***************************************************************************)
(* A step of host h that changes only its own round.                       *)
(***************************************************************************)
Local(h, label) ==
    /\ pc[h] # "returned" /\ label # "returned"
    /\ \/ pc' = [pc EXCEPT ![h] = label]
       \/ pc[h] = label /\ UNCHANGED pc
    /\ UNCHANGED <<data, comm, agent>>
    /\ \A g \in Hosts \ {h} :
          /\ currDiff'[g] = currDiff[g] /\ oms'[g] = oms[g] /\ due'[g] = due[g]
          /\ toSend'[g] = toSend[g] /\ result'[g] = result[g]
    /\ \A i \in Rounds \ {comm[h]} :
          chan'[i] = chan[i] /\ verdict'[i] = verdict[i] /\ base'[i] = base[i]
    /\ h = "client" => UNCHANGED <<otherSet, recvMeta>>

\* Where a host is before and after a step that does not change its communicant.
LEMMA Places ==
    ASSUME TypeOK, NEW h \in Hosts, NEW label, label # "returned", pc[h] # "returned",
           pc'[h] = label, \A g \in Hosts \ {h} : pc'[g] = pc[g], UNCHANGED comm
    PROVE  /\ comm[h] \in Rounds /\ Place(h, comm[h]) = pc[h]
           /\ Place(h, comm[h])' = label
           /\ \A i \in Rounds \ {comm[h]} :
                 Place(h, i) \in {"begin", "post"} /\ Place(h, i)' = Place(h, i)
           /\ \A i \in Rounds, g \in Hosts \ {h} : Place(g, i)' = Place(g, i)
<1>1. comm \in [Hosts -> 1..Sessions] /\ Sessions \in Nat
  BY HostsAssumption DEF TypeOK, HostsTypeOK, Rounds
<1> QED
  BY <1>1 DEF Place, Rounds

\* A host of which nothing changes.
LEMMA HostFrame ==
    ASSUME NEW g \in Hosts, Host(g), UNCHANGED agent,
           pc'[g] = pc[g], comm'[g] = comm[g], data'[g] = data[g], currDiff'[g] = currDiff[g],
           oms'[g] = oms[g], result'[g] = result[g],
           verdict'[comm[g]] = verdict[comm[g]], base'[comm[g]] = base[comm[g]]
    PROVE  Host(g)'
<1>1. A' = A /\ First' = First
  BY DEF A, First
<1>2. Outcome(g) => Outcome(g)'
  BY <1>1 DEF Outcome, Owed
<1> QED
  BY <1>1, <1>2 DEF Host

\* The other rounds, and the other host, after such a step.
LEMMA LocalStep ==
    ASSUME TypeOK, Matched, Link, NEW h \in Hosts, NEW label, Local(h, label),
           NEW i, i = comm[h]
    PROVE  /\ Matched' /\ A' = A /\ First' = First
           /\ i \in Rounds /\ Place(h, i) = pc[h]
           /\ Place(h, i)' = label
           /\ \A g \in Hosts \ {h} : Place(g, i)' = Place(g, i)
           /\ pc'[h] = label
           /\ \A j \in Rounds \ {i} : Round(j)'
           /\ UNCHANGED history => \A g \in Hosts \ {h} : Host(g)'
<1>1. Matched' /\ A' = A /\ First' = First
  BY DEF Local, Matched, A, First
<1>2. DOMAIN pc = Hosts /\ comm \in [Hosts -> Rounds]
  BY DEF TypeOK, HostsTypeOK
<1>3. pc'[h] = label /\ \A g \in Hosts \ {h} : pc'[g] = pc[g]
  BY <1>2 DEF Local
<1>4. /\ i \in Rounds /\ Place(h, i) = pc[h]
      /\ Place(h, i)' = label
      /\ \A j \in Rounds \ {i} :
            Place(h, j) \in {"begin", "post"} /\ Place(h, j)' = Place(h, j)
      /\ \A j \in Rounds, g \in Hosts \ {h} : Place(g, j)' = Place(g, j)
  BY <1>3, Places DEF Local
<1>5. \A j \in Rounds \ {i} : Round(j)'
  <2> SUFFICES ASSUME NEW j \in Rounds \ {i} PROVE Round(j)'
    OBVIOUS
  <2>1. Untouched(h, j)
    BY <1>4 DEF Untouched, Local
  <2> QED
    BY <1>4, <2>1, RoundFrame DEF Link
<1>6. ASSUME UNCHANGED history, NEW g \in Hosts \ {h} PROVE Host(g)'
  BY <1>2, <1>6, <1>3, HostFrame DEF Local, Link, history
<1> QED
  BY <1>1, <1>4, <1>5, <1>6, <1>3

\* The streams of the round, and the others, after each of the three uses.
LEMMA StreamTypes ==
    ASSUME TypeOK, NEW h \in Hosts
    PROVE  /\ chan \in [Rounds -> [Hosts -> Seq(Message)]]
           /\ comm[h] \in Rounds /\ chan[comm[h]] \in [Hosts -> Seq(Message)]
           /\ Other(h) \in Hosts /\ Other(h) # h
BY HostsType DEF TypeOK, HostsTypeOK

LEMMA SendStreams ==
    ASSUME TypeOK, NEW h \in Hosts, NEW msgs, Send(h, msgs)
    PROVE  /\ chan'[comm[h]][h] = chan[comm[h]][h]
           /\ chan'[comm[h]][Other(h)] = chan[comm[h]][Other(h)] \o msgs
           /\ \A j \in Rounds \ {comm[h]} : chan'[j] = chan[j]
BY StreamTypes DEF Send

LEMMA ReceiveStreams ==
    ASSUME TypeOK, NEW h \in Hosts, Receive(h)
    PROVE  /\ chan'[comm[h]][h] = Tail(chan[comm[h]][h])
           /\ chan'[comm[h]][Other(h)] = chan[comm[h]][Other(h)]
           /\ \A j \in Rounds \ {comm[h]} : chan'[j] = chan[j]
BY StreamTypes DEF Receive

LEMMA AnswerStreams ==
    ASSUME TypeOK, NEW h \in Hosts, NEW msgs, Answer(h, msgs)
    PROVE  /\ chan'[comm[h]][h] = Tail(chan[comm[h]][h])
           /\ chan'[comm[h]][Other(h)] = chan[comm[h]][Other(h)] \o msgs
           /\ \A j \in Rounds \ {comm[h]} : chan'[j] = chan[j]
<1>1. /\ chan \in [Rounds -> [Hosts -> Seq(Message)]]
      /\ comm[h] \in Rounds /\ chan[comm[h]] \in [Hosts -> Seq(Message)]
      /\ Other(h) \in Hosts /\ Other(h) # h
  BY StreamTypes
<1> PICK i \in Rounds, o \in Hosts : i = comm[h] /\ o = Other(h) /\ o # h
  BY <1>1
<1>2. chan' = [chan EXCEPT ![i][h] = Tail(@), ![i][o] = @ \o msgs]
  BY DEF Answer
<1>3. DOMAIN chan = Rounds /\ DOMAIN chan[i] = Hosts
  BY <1>1
<1> QED
  BY <1>2, <1>3

\* Taking the first message of a stream.
LEMMA TailFacts ==
    ASSUME NEW q \in Seq(Message), q # <<>>
    PROVE  /\ Tail(q) \in Seq(Message) /\ Head(q) = q[1] /\ Head(q) \in Message
           /\ Len(q) \in Nat \ {0} /\ Len(Tail(q)) = Len(q) - 1
           /\ \A j \in 1..(Len(q) - 1) : Tail(q)[j] = q[j + 1]
OBVIOUS

\* What is not on the way before and after the first message is taken.
LEMMA TailElements ==
    ASSUME NEW q \in Seq(Message), q # <<>>, NEW n \in Nat \ {0}, NEW e
    PROVE  (\A j \in (n + 1)..Len(q) : q[j].elem # e)
             <=> (\A j \in n..Len(Tail(q)) : Tail(q)[j].elem # e)
<1>1. \A j \in n..Len(Tail(q)) : j + 1 \in (n + 1)..Len(q) /\ Tail(q)[j] = q[j + 1]
  BY TailFacts
<1>2. \A j \in (n + 1)..Len(q) : j - 1 \in n..Len(Tail(q)) /\ q[j] = Tail(q)[j - 1]
  BY TailFacts
<1> QED
  BY <1>1, <1>2

\* A stream of one message.
LEMMA Singles ==
    ASSUME NEW x, NEW y
    PROVE  Tail(<<x>>) = <<>> /\ <<>> \o <<y>> = <<y>>
OBVIOUS

\* A host is where its program counter says.
LEMMA Here ==
    ASSUME TypeOK, NEW h \in Hosts, pc[h] # "returned", NEW i, i = comm[h]
    PROVE  Place(h, i) = pc[h]
<1>1. i \in Int
  BY HostsAssumption DEF TypeOK, HostsTypeOK, Rounds
<1> QED
  BY <1>1 DEF Place

\* The phases in which a host can be where it is.
LEMMA ClientPhases ==
    ASSUME NEW i \in Rounds, Round(i)
    PROVE  LET c == Place("client", i) IN
           /\ c \in {"begin", "connecting"} => Idle(i) /\ verdict[i] = "none"
           /\ c \in {"awaitMod", "awaitParams", "awaitVerdict", "awaitDeltas", "strings"}
                 => ~A.oneWay
           /\ c = "awaitMod" => verdict[i] = "none" /\ (ModSent(i) \/ ModFine(i))
           /\ c = "awaitParams" => verdict[i] = "none" /\ (ParamsSent(i) \/ ParamsFine(i))
           /\ c = "awaitVerdict" =>
                 \/ Found(i)
                 \/ verdict[i] = "fail" /\ LostSent(i)
                 \/ /\ verdict[i] = "none"
                    /\ EvalsSent(i) \/ Attempted(i) \/ Refused(i) \/ MoreSent(i)
           /\ c \in {"awaitDeltas", "strings"} => Found(i)
BY DEF Round, Undecided, Failed, Found, Said, Idle, ModSent, ModFine, ParamsSent, ParamsFine,
       EvalsSent, Attempted, Refused, MoreSent, LostSent, Lost, At

LEMMA ServerPhases ==
    ASSUME NEW i \in Rounds, Round(i)
    PROVE  LET s == Place("server", i) IN
           /\ s \notin {"strings", "post", "quit"} => verdict[i] = "none"
           /\ s = "strings" => ~A.oneWay /\ Found(i)
           /\ A.oneWay => \/ s \in {"begin", "listening", "recvEvals"} /\ Idle(i)
                          \/ s = "quit" \/ Said(i)
           /\ ~A.oneWay =>
                 /\ s = "begin" => Idle(i) \/ EvalsSent(i)
                 /\ s = "listening" => Idle(i)
                 /\ s = "recvMod" => ModSent(i)
                 /\ s = "recvParams" => ModFine(i) \/ ParamsSent(i)
                 /\ s = "recvEvals" => Idle(i) \/ ParamsFine(i) \/ EvalsSent(i)
                 /\ s = "attempt" => Attempted(i)
                 /\ s = "recvMore" => Refused(i) \/ MoreSent(i)
                 /\ s = "post" => Failed(i) \/ Found(i)
BY DEF Round, Undecided, Failed, Found, Said, Idle, ModSent, ModFine, ParamsSent, ParamsFine,
       EvalsSent, Attempted, Refused, MoreSent, LostSent, Lost, At

(***************************************************************************)
(* The client's steps.                                                     *)
(***************************************************************************)

\* What the actions say in terms of the common agent.
LEMMA StepTypes ==
    ASSUME TypeOK, Matched, NEW h \in Hosts
    PROVE  /\ agent[h] = A /\ comm[h] \in Rounds
           /\ currDiff[h] \in Nat \ {0} /\ currDiff[h] <= A.mbar
           /\ result[h] \in BOOLEAN /\ oms[h] \in SUBSET Elem /\ data[h] \in SUBSET Elem
           /\ DOMAIN pc = Hosts
           /\ currDiff \in [Hosts -> Nat \ {0}] /\ oms \in [Hosts -> SUBSET Elem]
           /\ result \in [Hosts -> BOOLEAN] /\ toSend \in [Hosts -> SUBSET Elem]
           /\ due \in [Hosts -> Nat] /\ data \in [Hosts -> SUBSET Elem]
           /\ \A j \in Rounds, g \in Hosts : chan[j][g] \in Seq(Message)
           /\ verdict \in [Rounds -> {"none", "ok", "fail"}]
           /\ base \in [Rounds -> [Hosts -> SUBSET Elem]]
           /\ ModMsg \in Message /\ ParamsMsg \in Message
           /\ EvalsMsg \in Message /\ \A g \in Hosts : MoreMsg(currDiff[g]) \in Message
           /\ Flag(TRUE) \in Message /\ Flag(FALSE) \in Message
           /\ Evals("client", First) = EvalsMsg
<1>1. A \in AgentType(Tokens) /\ agent[h] = A
  BY SameAgents
<1>2. A.mod \in Tokens /\ A.par \in Tokens /\ A.mbar \in Nat \ {0}
  BY <1>1 DEF AgentType
<1>3. \A g \in Hosts : currDiff[g] \in Nat \ {0} /\ currDiff[g] <= A.mbar
  BY SameAgents DEF TypeOK
<1>4. First \in Nat \ {0} /\ First <= A.mbar
  BY <1>2 DEF First, StartDiff
<1>5. EvalsMsg \in Message
  BY <1>1, <1>4, MessageTypes, PointTypes, HostsType DEF EvalsMsg, TypeOK, HostsTypeOK
<1>6. \A g \in Hosts : MoreMsg(currDiff[g]) \in Message
  BY <1>1, <1>3, MessageTypes, PointTypes DEF MoreMsg
<1>7. ModMsg \in Message /\ ParamsMsg \in Message /\ Flag(TRUE) \in Message /\ Flag(FALSE) \in Message
  BY <1>2, MessageTypes DEF ModMsg, ParamsMsg, Flag
<1>8. Evals("client", First) = EvalsMsg
  BY SameAgents, HostsType DEF Evals, EvalsMsg
<1>9. \A j \in Rounds, g \in Hosts : chan[j][g] \in Seq(Message)
  <2>1. \A j \in Rounds : chan[j] \in [Hosts -> Seq(Message)]
    BY DEF TypeOK, HostsTypeOK
  <2> QED
    BY <2>1
<1> QED
  BY <1>1, <1>3, <1>5, <1>6, <1>7, <1>8, <1>9 DEF TypeOK, HostsTypeOK

\* Evaluations begin anew with each session.
LEMMA StartsFirst ==
    ASSUME TypeOK, Matched, Link, NEW h \in Hosts
    PROVE  StartDiff(agent[h], currDiff[h]) = First
BY SameAgents DEF Link, Host, StartDiff, First

\* The start of a session; a keepAlive client says its first words at once.
LEMMA ClientBegins ==
    ASSUME TypeOK, Matched, Link, ClientBegin
    PROVE  Link'
<1> PICK h \in Hosts, s \in Hosts, i \in Rounds :
        h = "client" /\ s = "server" /\ s = Other(h) /\ i = comm[h]
  BY StepTypes DEF Hosts, Other
<1> DEFINE label == IF A.keepAlive THEN IF A.oneWay THEN "post" ELSE "awaitVerdict"
                    ELSE "connecting"
<1>1. /\ h \in Hosts /\ s \in Hosts /\ s \in Hosts \ {h} /\ s = Other(h)
  OBVIOUS
<1>2. /\ currDiff' = [currDiff EXCEPT ![h] = First]
      /\ oms' = [oms EXCEPT ![h] = {}] /\ result' = [result EXCEPT ![h] = TRUE]
      /\ pc[h] = "begin" /\ pc' = [pc EXCEPT ![h] = label]
      /\ UNCHANGED <<data, comm, open, success, history, agent, otherSet, recvMeta, toSend, due>>
      /\ IF A.keepAlive THEN Send(h, <<EvalsMsg>>) ELSE UNCHANGED chan
  BY <1>1, StartsFirst, StepTypes DEF ClientBegin, Goto
<1> HIDE DEF label
<1>3. <<EvalsMsg>> \in Seq(Message)
  <2>1. EvalsMsg \in Message
    BY <1>1, StepTypes, Zenon
  <2> QED
    BY <2>1
<1>4. /\ \A j \in Rounds \ {i} : chan'[j] = chan[j]
      /\ chan'[i][h] = chan[i][h]
      /\ chan'[i][s] = chan[i][s] \o IF A.keepAlive THEN <<EvalsMsg>> ELSE <<>>
  <2>1. CASE A.keepAlive
    <3>1. Send(h, <<EvalsMsg>>)
      BY <1>2, <2>1
    <3>2. /\ chan'[i][h] = chan[i][h]
          /\ chan'[i][s] = chan[i][s] \o <<EvalsMsg>>
          /\ \A j \in Rounds \ {i} : chan'[j] = chan[j]
      <4>1. /\ chan'[comm[h]][h] = chan[comm[h]][h]
            /\ chan'[comm[h]][Other(h)] = chan[comm[h]][Other(h)] \o <<EvalsMsg>>
            /\ \A j \in Rounds \ {comm[h]} : chan'[j] = chan[j]
        BY <1>1, <3>1, SendStreams
      <4> QED
        BY <4>1
    <3> QED
      BY <2>1, <3>2, Zenon
  <2>2. CASE ~A.keepAlive
    <3>1. chan[i][s] \in Seq(Message)
      BY <1>1, StepTypes
    <3> QED
      BY <1>2, <2>2, <3>1
  <2> QED
    BY <2>1, <2>2
<1>5. Local(h, label)
  BY <1>1, <1>2, <1>4, StepTypes DEF Local, label, history
<1>6. /\ Matched' /\ A' = A /\ First' = First /\ i \in Rounds /\ Place(h, i) = "begin"
      /\ Place(h, i)' = label /\ Place("server", i)' = Place("server", i) /\ pc'[h] = label
      /\ \A j \in Rounds \ {i} : Round(j)'
      /\ Host("server")'
  BY <1>1, <1>2, <1>5, LocalStep
<1>7. Idle(i) /\ verdict[i] = "none" /\ verdict'[i] = "none"
  BY <1>2, <1>6, ClientPhases DEF Link, history
<1>8. Place("server", i) = "listening" => ~A.keepAlive
  <2>1. Place("server", i) = "listening" => pc["server"] = "listening"
    BY DEF Place
  <2> QED
    BY <1>1, <2>1 DEF Link, Host, Unstarted
<1>9. EvalsMsg' = EvalsMsg
  BY <1>2, <1>6 DEF EvalsMsg
<1>10. Round(i)'
  <2>1. CASE ~A.keepAlive
    <3>1. Idle(i)'
      BY <1>2, <1>4, <1>6, <1>7, <2>1 DEF Idle, At, Carries, label
    <3> QED
      BY <1>6, <1>7, <3>1 DEF Round, Undecided
  <2>2. CASE A.keepAlive
    <3>1. chan'[i][h] = <<>> /\ chan'[i][s] = <<EvalsMsg>>
      BY <1>4, <1>7, <2>2 DEF Idle, Carries
    <3>2. Place("server", i) \in {"begin", "recvEvals", "quit"}
      BY <1>7, <1>8, <2>2 DEF Idle, At
    <3>3. CASE A.oneWay
      <4>1. Said(i)'
        BY <1>6, <1>7, <1>9, <2>2, <3>1, <3>2, <3>3 DEF Said, label
      <4> QED
        BY <1>6, <3>3, <4>1 DEF Round
    <3>4. CASE ~A.oneWay
      <4>1. currDiff'[h] = First
        BY <1>1, <1>2, StepTypes
      <4>2. EvalsSent(i)'
        BY <1>6, <1>9, <2>2, <3>1, <3>2, <3>4, <4>1 DEF EvalsSent, At, Carries, label
      <4> QED
        BY <1>6, <1>7, <3>4, <4>2 DEF Round, Undecided
    <3> QED
      BY <3>3, <3>4
  <2> QED
    BY <2>1, <2>2
<1>11. Host(h)'
  <2>1. currDiff'[h] = First /\ oms'[h] = {} /\ result'[h] = TRUE
    BY <1>1, <1>2, StepTypes
  <2>2. ~A.prob => First = A.mbar
    BY DEF First, StartDiff
  <2> QED
    BY <1>2, <1>6, <1>7, <2>1, <2>2 DEF Host, Unstarted, Early, Open, label
<1> QED
  BY <1>1, <1>6, <1>10, <1>11 DEF Link, Hosts

\* The connection is made; a one-way client then says all it has to say.
LEMMA ClientConnects ==
    ASSUME TypeOK, Matched, Link, ClientConnect
    PROVE  Link'
<1> PICK h \in Hosts, s \in Hosts, i \in Rounds :
        h = "client" /\ s = "server" /\ s = Other(h) /\ h # s /\ i = comm[h]
  BY StepTypes DEF Hosts, Other
<1> DEFINE msgs == IF A.oneWay THEN <<ModMsg, ParamsMsg, EvalsMsg>> ELSE <<ModMsg>>
           label == IF A.oneWay THEN "post" ELSE "awaitMod"
<1>1. /\ pc[h] = "connecting" /\ pc[s] = "listening" /\ comm[s] = i
      /\ pc' = [pc EXCEPT ![h] = label, ![s] = "recvMod"]
      /\ UNCHANGED <<data, comm, oms, result, success, history, agent, currDiff,
                     otherSet, recvMeta, toSend, due>>
  BY StepTypes DEF ClientConnect, Listening, agentVars, label
<1>2. currDiff[h] = First
  BY <1>1 DEF Link, Host, Early, Unstarted
<1>3. Send(h, msgs)
  <2>1. Evals(h, currDiff[h]) = EvalsMsg
    BY <1>2, StepTypes, Zenon
  <2>2. Params(h) = ParamsMsg /\ [type |-> "mod", token |-> agent[h].mod] = ModMsg
    BY StepTypes DEF Params, ParamsMsg, ModMsg
  <2>3. agent[h] = A
    BY StepTypes
  <2> QED
    BY <2>1, <2>2, <2>3 DEF ClientConnect
<1> HIDE DEF label, msgs
<1>4. /\ chan'[i][h] = chan[i][h] /\ chan'[i][s] = chan[i][s] \o msgs
      /\ \A j \in Rounds \ {i} : chan'[j] = chan[j]
  <2>1. /\ chan'[comm[h]][h] = chan[comm[h]][h]
        /\ chan'[comm[h]][Other(h)] = chan[comm[h]][Other(h)] \o msgs
        /\ \A j \in Rounds \ {comm[h]} : chan'[j] = chan[j]
    BY <1>3, SendStreams
  <2> QED
    BY <2>1
<1>5. pc'[h] = label /\ pc'[s] = "recvMod"
  BY <1>1, StepTypes
<1>6. /\ Place(h, i) = "connecting" /\ Place(s, i) = "listening"
      /\ Place(h, i)' = label /\ Place(s, i)' = "recvMod"
      /\ \A j \in Rounds \ {i} : \A g \in Hosts :
            Place(g, j) \in {"begin", "post"} /\ Place(g, j)' = Place(g, j)
  <2>1. \A g \in Hosts : comm'[g] = i /\ comm[g] = i
    BY <1>1 DEF Hosts
  <2>2. \A g \in Hosts : pc[g] # "returned" /\ pc'[g] # "returned"
    BY <1>1, <1>5 DEF Hosts, label
  <2>3. i \in 1..Sessions /\ Sessions \in Nat
    BY HostsAssumption DEF Rounds
  <2>4. ASSUME NEW j \in Rounds \ {i}, NEW g \in Hosts
        PROVE  Place(g, j) \in {"begin", "post"} /\ Place(g, j)' = Place(g, j)
    <3>1. j \in Int /\ i \in Int /\ (i < j \/ i > j)
      BY <2>3 DEF Rounds
    <3> QED
      BY <2>1, <3>1 DEF Place
  <2>5. \A g \in Hosts : Place(g, i) = pc[g] /\ Place(g, i)' = pc'[g]
    BY <2>1, <2>2, <2>3 DEF Place
  <2> QED
    BY <1>1, <1>5, <2>4, <2>5
<1>7. A' = A /\ First' = First /\ EvalsMsg' = EvalsMsg /\ ModMsg' = ModMsg /\ ParamsMsg' = ParamsMsg
  BY <1>1 DEF A, First, EvalsMsg, ModMsg, ParamsMsg
<1>8. \A j \in Rounds \ {i} : Round(j)'
  <2> SUFFICES ASSUME NEW j \in Rounds \ {i} PROVE Round(j)'
    OBVIOUS
  <2>1. Untouched(h, j)
    BY <1>1, <1>4, <1>6 DEF Untouched, history
  <2> QED
    BY <1>6, <2>1, RoundFrame DEF Link
<1>9. Idle(i) /\ verdict[i] = "none" /\ verdict'[i] = "none"
  BY <1>1, <1>6, ClientPhases DEF Link, history
<1>10. Round(i)'
  <2>1. chan'[i][h] = <<>> /\ chan'[i][s] = msgs
    <3>1. chan[i][h] = <<>> /\ chan[i][s] = <<>>
      BY <1>9 DEF Idle, Carries
    <3>2. <<>> \o msgs = msgs
      BY DEF msgs
    <3> QED
      BY <1>4, <3>1, <3>2
  <2>2. CASE A.oneWay
    <3>1. Said(i)'
      BY <1>6, <1>7, <1>9, <2>1, <2>2 DEF Said, label, msgs
    <3> QED
      BY <1>7, <2>2, <3>1 DEF Round
  <2>3. CASE ~A.oneWay
    <3>1. ModSent(i)'
      BY <1>6, <1>7, <2>1, <2>3 DEF ModSent, At, Carries, label, msgs
    <3> QED
      BY <1>7, <1>9, <2>3, <3>1 DEF Round, Undecided
  <2> QED
    BY <2>2, <2>3
<1>11. Host(h)'
  <2>1. Host(h)
    BY DEF Link
  <2> QED
    BY <1>1, <1>2, <1>5, <1>7, <1>9, <2>1 DEF Host, Unstarted, Early, Open, label
<1>12. Host(s)'
  <2>1. Host(s)
    BY DEF Link
  <2> QED
    BY <1>1, <1>2, <1>5, <1>7, <1>9, <2>1 DEF Host, Unstarted, Early, Open
<1> QED
  BY <1>8, <1>10, <1>11, <1>12 DEF Link, Hosts

(***************************************************************************)
(* What either host does besides: it dies, or goes on after a session.     *)
(***************************************************************************)
LEMMA Quits ==
    ASSUME TypeOK, Matched, Link, NEW h \in Hosts, pc[h] # "returned", Goto(h, "quit"),
           UNCHANGED <<data, comm, chan, oms, result, history, agentVars>>
    PROVE  Link'
<1> PICK i \in Rounds : i = comm[h]
  BY StepTypes
<1>1. /\ A' = A /\ First' = First /\ DOMAIN pc = Hosts
      /\ pc'[h] = "quit" /\ \A g \in Hosts \ {h} : pc'[g] = pc[g]
  <2>1. DOMAIN pc = Hosts
    BY StepTypes
  <2> QED
    BY <2>1 DEF A, First, agentVars, Goto
<1>2. /\ Place(h, i)' = "quit"
      /\ \A j \in Rounds \ {i} :
            Place(h, j) \in {"begin", "post"} /\ Place(h, j)' = Place(h, j)
      /\ \A j \in Rounds, g \in Hosts \ {h} : Place(g, j)' = Place(g, j)
  BY <1>1, Places DEF Goto
<1>3. Round(i)'
  BY <1>2, RoundWithout DEF Link, agentVars
<1>4. ASSUME NEW j \in Rounds \ {i} PROVE Round(j)'
  <2>1. Untouched(h, j)
    BY <1>2 DEF Untouched, history, agentVars
  <2> QED
    BY <1>2, <2>1, RoundFrame DEF Link
<1>5. ASSUME NEW g \in Hosts \ {h} PROVE Host(g)'
  BY <1>1, HostFrame DEF Link, history, agentVars
<1>6. Host(h)'
  <2>1. Host(h)
    BY DEF Link
  <2> QED
    BY <1>1, <2>1 DEF Host, Open, Early, Unstarted, history, agentVars
<1> QED
  BY <1>3, <1>4, <1>5, <1>6 DEF Link

\* A finished session leaves its round as it was.
LEMMA GoesOn ==
    ASSUME TypeOK, Matched, Link, NEW h \in Hosts, PostProcess(h)
    PROVE  Link'
<1> PICK i \in Rounds : i = comm[h]
  BY StepTypes
<1>1. /\ pc[h] = "post" /\ DOMAIN pc = Hosts /\ DOMAIN data = Hosts /\ DOMAIN comm = Hosts
      /\ data' = [data EXCEPT ![h] = data[h] \cup oms[h]]
      /\ \/ i = Sessions /\ pc' = [pc EXCEPT ![h] = "returned"] /\ comm' = comm
         \/ /\ i # Sessions /\ pc' = [pc EXCEPT ![h] = "begin"]
            /\ comm' = [comm EXCEPT ![h] = i + 1]
      /\ UNCHANGED <<chan, oms, result, history, agentVars>>
  <2>1. DOMAIN pc = Hosts /\ DOMAIN data = Hosts /\ DOMAIN comm = Hosts
    BY DEF TypeOK, HostsTypeOK
  <2> QED
    BY <2>1 DEF PostProcess, NextCommunicant, Last, PostProcessing, Goto
<1>2. /\ Sessions \in Nat /\ i \in 1..Sessions
      /\ comm'[h] = i \/ (i # Sessions /\ comm'[h] = i + 1)
      /\ \A g \in Hosts \ {h} : pc'[g] = pc[g] /\ comm'[g] = comm[g] /\ data'[g] = data[g]
      /\ pc'[h] \in {"returned", "begin"}
      /\ pc'[h] = "begin" => comm'[h] = i + 1 /\ i # Sessions
      /\ pc'[h] = "returned" => comm'[h] = i
  BY <1>1, HostsAssumption DEF Rounds
<1>3. A' = A /\ First' = First
  BY <1>1 DEF A, First, agentVars
<1>4. ASSUME NEW j \in Rounds
      PROVE  /\ Place(h, j) \in {"begin", "post"} /\ Place(h, j)' = Place(h, j)
             /\ \A g \in Hosts \ {h} : Place(g, j)' = Place(g, j)
  <2>1. j \in Int /\ i \in Int /\ (j < i \/ j = i \/ j = i + 1 \/ j > i + 1)
    BY <1>2 DEF Rounds
  <2>2. Place(h, j) \in {"begin", "post"} /\ Place(h, j)' = Place(h, j)
    BY <1>1, <1>2, <2>1 DEF Place
  <2>3. \A g \in Hosts \ {h} : Place(g, j)' = Place(g, j)
    BY <1>2 DEF Place
  <2> QED
    BY <2>2, <2>3
<1>5. A.oneWay => data'["client"] = data["client"]
  <2>1. CASE h = "client"
    <3>1. A.oneWay => oms[h] = {}
      BY <2>1 DEF Link, Host
    <3> QED
      BY <1>1, <2>1, <3>1
  <2>2. CASE h # "client"
    BY <1>2, <2>2, HostsType
  <2> QED
    BY <2>1, <2>2
<1>6. ASSUME NEW j \in Rounds PROVE Round(j)'
  <2>1. Untouched(h, j)
    BY <1>1, <1>2, <1>4, <1>5 DEF Untouched, history, agentVars
  <2> QED
    BY <1>4, <2>1, RoundFrame DEF Link
<1>7. ASSUME NEW g \in Hosts \ {h} PROVE Host(g)'
  BY <1>1, <1>2, HostFrame DEF Link, history, agentVars
<1>8. Host(h)'
  <2>1. Host(h)
    BY DEF Link
  <2>2. pc'[h] = "begin" => verdict[i + 1] = "none"
    <3> SUFFICES ASSUME pc'[h] = "begin" PROVE verdict[i + 1] = "none"
      OBVIOUS
    <3>1. i + 1 \in Rounds /\ Place(h, i + 1) = "begin"
      BY <1>2 DEF Rounds, Place
    <3>2. Round(i + 1)
      BY <3>1 DEF Link
    <3> QED
      BY <3>1, <3>2, ClientPhases, ServerPhases DEF Hosts
  <2> QED
    BY <1>1, <1>2, <1>3, <2>1, <2>2 DEF Host, Open, Early, Unstarted, history, agentVars
<1> QED
  BY <1>6, <1>7, <1>8 DEF Link

\* A kill, a lost peer and a refused connection.
LEMMA Ends ==
    ASSUME TypeOK, Matched, Link, NEW h \in Hosts,
           Crash(h) \/ PeerGone(h) \/ (h = "client" /\ ClientConnectFails)
    PROVE  Link'
<1>1. /\ pc[h] # "returned" /\ Goto(h, "quit")
      /\ UNCHANGED <<data, comm, chan, oms, result, history, agentVars>>
  BY DEF Crash, Killed, PeerGone, Deserted, ClientConnectFails, Quit, Ended, ClientWaits, ServerWaits
<1> QED
  BY <1>1, Quits

(***************************************************************************)
(* The client's receives.                                                  *)
(***************************************************************************)
LEMMA ClientModAnswered ==
    ASSUME TypeOK, Matched, Link, ClientModReply
    PROVE  Link'
<1> PICK h \in Hosts, s \in Hosts, i \in Rounds :
        h = "client" /\ s = "server" /\ s = Other(h) /\ h # s /\ i = comm[h]
  BY StepTypes DEF Hosts, Other
<1>1. /\ pc[h] = "awaitMod" /\ chan[i][h] # <<>>
      /\ IF Head(chan[i][h]).ok
         THEN Goto(h, "awaitParams") /\ Answer(h, <<Params(h)>>)
         ELSE Quit(h) /\ Receive(h)
      /\ UNCHANGED <<data, comm, oms, result, success, history, agent, currDiff,
                     otherSet, recvMeta, toSend, due>>
  BY DEF ClientModReply, ClientHandshake, Receives, Incoming, agentVars
<1>2. Place(h, i) = "awaitMod"
  BY <1>1, Here
<1>3. /\ ~A.oneWay /\ verdict[i] = "none" /\ ModFine(i)
      /\ chan[i][h] = <<Flag(TRUE)>> /\ chan[i][s] = <<>>
  BY <1>1, <1>2, ClientPhases DEF Link, ModSent, ModFine, Carries
<1>4. pc' = [pc EXCEPT ![h] = "awaitParams"] /\ Answer(h, <<ParamsMsg>>)
  <2>1. Head(chan[i][h]).ok
    BY <1>3 DEF Flag
  <2>2. Params(h) = ParamsMsg
    BY StepTypes DEF Params, ParamsMsg
  <2> QED
    BY <1>1, <2>1, <2>2 DEF Goto
<1>5. /\ chan'[i][h] = <<>> /\ chan'[i][s] = <<ParamsMsg>>
      /\ \A j \in Rounds \ {i} : chan'[j] = chan[j]
  <2>1. /\ chan'[comm[h]][h] = Tail(chan[comm[h]][h])
        /\ chan'[comm[h]][Other(h)] = chan[comm[h]][Other(h)] \o <<ParamsMsg>>
        /\ \A j \in Rounds \ {comm[h]} : chan'[j] = chan[j]
    BY <1>4, AnswerStreams
  <2>2. Tail(<<Flag(TRUE)>>) = <<>> /\ <<>> \o <<ParamsMsg>> = <<ParamsMsg>>
    BY Singles
  <2> QED
    BY <1>3, <2>1, <2>2
<1>6. Local(h, "awaitParams")
  BY <1>1, <1>4, <1>5 DEF Local, history
<1>7. /\ A' = A /\ First' = First
      /\ Place(h, i)' = "awaitParams" /\ Place(s, i)' = Place(s, i) /\ pc'[h] = "awaitParams"
      /\ \A j \in Rounds \ {i} : Round(j)'
      /\ Host(s)'
  BY <1>1, <1>6, LocalStep
<1>8. Round(i)'
  <2>1. ParamsSent(i)'
    BY <1>3, <1>5, <1>7 DEF ModFine, ParamsSent, At, Carries, ParamsMsg
  <2> QED
    BY <1>1, <1>3, <1>7, <2>1 DEF Round, Undecided, history
<1>9. Host(h)'
  <2>1. Host(h)
    BY DEF Link
  <2> QED
    BY <1>1, <1>3, <1>7, <2>1 DEF Host, Unstarted, Early, Open, history
<1> QED
  BY <1>7, <1>8, <1>9 DEF Link, Hosts

\* The second answer of the handshake.
LEMMA ClientParamsAnswered ==
    ASSUME TypeOK, Matched, Link, ClientParamsReply
    PROVE  Link'
<1> PICK h \in Hosts, s \in Hosts, i \in Rounds :
        h = "client" /\ s = "server" /\ s = Other(h) /\ h # s /\ i = comm[h]
  BY StepTypes DEF Hosts, Other
<1>1. /\ pc[h] = "awaitParams" /\ chan[i][h] # <<>>
      /\ IF Head(chan[i][h]).ok
         THEN Goto(h, "awaitVerdict") /\ Answer(h, <<Evals(h, currDiff[h])>>)
         ELSE Quit(h) /\ Receive(h)
      /\ UNCHANGED <<data, comm, oms, result, success, history, agent, currDiff,
                     otherSet, recvMeta, toSend, due>>
  BY DEF ClientParamsReply, ClientHandshake, Receives, Incoming, agentVars
<1>2. Place(h, i) = "awaitParams" /\ currDiff[h] = First
  <2>1. Host(h)
    BY DEF Link
  <2> QED
    BY <1>1, <2>1, Here DEF Host, Early, Unstarted
<1>3. /\ ~A.oneWay /\ verdict[i] = "none" /\ ParamsFine(i)
      /\ chan[i][h] = <<Flag(TRUE)>> /\ chan[i][s] = <<>>
  BY <1>1, <1>2, ClientPhases DEF Link, ParamsSent, ParamsFine, Carries
<1>4. pc' = [pc EXCEPT ![h] = "awaitVerdict"] /\ Answer(h, <<EvalsMsg>>)
  <2>1. Head(chan[i][h]).ok
    BY <1>3 DEF Flag
  <2>2. Evals(h, currDiff[h]) = EvalsMsg
    BY <1>2, StepTypes, Zenon
  <2> QED
    BY <1>1, <2>1, <2>2 DEF Goto
<1>5. /\ chan'[i][h] = <<>> /\ chan'[i][s] = <<EvalsMsg>>
      /\ \A j \in Rounds \ {i} : chan'[j] = chan[j]
  <2>1. /\ chan'[comm[h]][h] = Tail(chan[comm[h]][h])
        /\ chan'[comm[h]][Other(h)] = chan[comm[h]][Other(h)] \o <<EvalsMsg>>
        /\ \A j \in Rounds \ {comm[h]} : chan'[j] = chan[j]
    BY <1>4, AnswerStreams
  <2>2. Tail(<<Flag(TRUE)>>) = <<>> /\ <<>> \o <<EvalsMsg>> = <<EvalsMsg>>
    BY Singles
  <2> QED
    BY <1>3, <2>1, <2>2
<1>6. Local(h, "awaitVerdict")
  BY <1>1, <1>4, <1>5 DEF Local, history
<1>7. /\ A' = A /\ First' = First
      /\ Place(h, i)' = "awaitVerdict" /\ Place(s, i)' = Place(s, i) /\ pc'[h] = "awaitVerdict"
      /\ \A j \in Rounds \ {i} : Round(j)'
      /\ Host(s)'
  BY <1>1, <1>6, LocalStep
<1>8. Round(i)'
  <2>1. EvalsMsg' = EvalsMsg
    BY <1>1, <1>7 DEF EvalsMsg
  <2>2. EvalsSent(i)'
    BY <1>1, <1>2, <1>3, <1>5, <1>7, <2>1 DEF ParamsFine, EvalsSent, At, Carries
  <2> QED
    BY <1>1, <1>3, <1>7, <2>2 DEF Round, Undecided, history
<1>9. Host(h)'
  <2>1. Host(h)
    BY DEF Link
  <2> QED
    BY <1>1, <1>2, <1>3, <1>7, <2>1 DEF Host, Unstarted, Early, Open, history
<1> QED
  BY <1>7, <1>8, <1>9 DEF Link, Hosts

\* What a stream holds after its first message has been taken.
LEMMA TailStream ==
    ASSUME NEW i \in Rounds, NEW h \in Hosts, chan[i][h] \in Seq(Message), chan[i][h] # <<>>,
           chan'[i][h] = Tail(chan[i][h]), UNCHANGED agent, base'[i] = base[i],
           NEW n \in Nat \ {0}
    PROVE  /\ Owed(h, i)' = Owed(h, i) /\ DeltasMsg(i)' = DeltasMsg(i)
           /\ Strings(h, i, n + 1) => Strings(h, i, n)'
           /\ \A e : Absent(e, h, i, n)' <=> Absent(e, h, i, n + 1)
<1>1. Owed(h, i)' = Owed(h, i) /\ DeltasMsg(i)' = DeltasMsg(i) /\ A' = A
  BY DEF Owed, DeltasMsg, A
<1> PICK q \in Seq(Message), t \in Seq(Message) :
        q = chan[i][h] /\ t = chan'[i][h] /\ q # <<>> /\ t = Tail(q)
  BY TailFacts
<1>2. Len(t) = Len(q) - 1 /\ \A j \in 1..Len(t) : t[j] = q[j + 1]
  BY TailFacts
<1>3. Len(q) \in Nat /\ Len(q) # 0
  BY TailFacts
<1>4. \A j \in n..Len(t) : j + 1 \in (n + 1)..Len(q) /\ t[j] = q[j + 1]
  BY <1>2, <1>3
<1>5. \A j \in (n + 1)..Len(q) : j - 1 \in n..Len(t) /\ q[j] = t[j - 1]
  BY <1>2, <1>3
<1>6. Strings(h, i, n + 1) => Strings(h, i, n)'
  <2> SUFFICES ASSUME Strings(h, i, n + 1) PROVE Strings(h, i, n)'
    OBVIOUS
  <2>1. /\ \A j \in (n + 1)..Len(q) : A.hashQ /\ q[j].type = "string" /\ q[j].elem \in Owed(h, i)
        /\ \A j, l \in (n + 1)..Len(q) : q[j].elem = q[l].elem => j = l
    BY DEF Strings
  <2>2. \A j \in n..Len(t) : A.hashQ /\ t[j].type = "string" /\ t[j].elem \in Owed(h, i)
    BY <1>4, <2>1
  <2>3. ASSUME NEW j \in n..Len(t), NEW l \in n..Len(t), t[j].elem = t[l].elem PROVE j = l
    <3>1. /\ j + 1 \in (n + 1)..Len(q) /\ t[j] = q[j + 1]
          /\ l + 1 \in (n + 1)..Len(q) /\ t[l] = q[l + 1]
      BY <1>4
    <3>2. j + 1 = l + 1
      BY <2>1, <2>3, <3>1, Zenon
    <3> QED
      BY <3>2
  <2> QED
    BY <1>1, <2>2, <2>3 DEF Strings
<1>7. ASSUME NEW e PROVE Absent(e, h, i, n)' <=> Absent(e, h, i, n + 1)
  <2>1. (\A j \in (n + 1)..Len(chan[i][h]) : chan[i][h][j].elem # e)
           <=> (\A j \in n..Len(Tail(chan[i][h])) : Tail(chan[i][h])[j].elem # e)
    <3>1. (\A j \in (n + 1)..Len(q) : q[j].elem # e)
             <=> (\A j \in n..Len(Tail(q)) : Tail(q)[j].elem # e)
      BY TailElements, Zenon
    <3> QED
      BY <3>1, Zenon
  <2>2. chan'[i][h] = Tail(chan[i][h])
    OBVIOUS
  <2> QED
    BY <2>1, <2>2, Zenon DEF Absent
<1> QED
  BY <1>1, <1>6, <1>7, Zenon

\* The flag of the server: differences found, a last failure or another attempt.
LEMMA ClientLearns ==
    ASSUME TypeOK, Matched, Link, ClientVerdict
    PROVE  Link'
<1> PICK h \in Hosts, s \in Hosts, i \in Rounds :
        h = "client" /\ s = "server" /\ s = Other(h) /\ h = Other(s) /\ h # s /\ i = comm[h]
  BY StepTypes DEF Hosts, Other
<1>1. /\ pc[h] = "awaitVerdict" /\ chan[i][h] # <<>> /\ Head(chan[i][h]).type = "flag"
      /\ UNCHANGED <<data, comm, oms, success, history, agent, otherSet,
                     recvMeta, toSend, due>>
  BY DEF ClientVerdict, Receives, Incoming
<1>2. Place(h, i) = "awaitVerdict" /\ Round(i) /\ Host(h)
  BY <1>1, Here DEF Link
<1>3. /\ ~A.oneWay
      /\ \/ Found(i)
         \/ LostSent(i) /\ Failed(i)
         \/ verdict[i] = "none" /\ Refused(i)
  <2>1. EvalsSent(i) \/ Attempted(i) \/ MoreSent(i) => chan[i][h] = <<>>
    BY DEF EvalsSent, Attempted, MoreSent, Carries
  <2>2. verdict[i] = "fail" => Failed(i)
    BY <1>2, ClientPhases DEF Round, Undecided, Found
  <2>3. /\ ~A.oneWay
        /\ \/ Found(i)
           \/ verdict[i] = "fail" /\ LostSent(i)
           \/ /\ verdict[i] = "none"
              /\ EvalsSent(i) \/ Attempted(i) \/ Refused(i) \/ MoreSent(i)
    BY <1>2, ClientPhases
  <2> QED
    BY <1>1, <2>1, <2>2, <2>3
<1>4. agent[h] = A /\ chan[i][h] \in Seq(Message) /\ DOMAIN pc = Hosts
      /\ currDiff[h] \in Nat \ {0} /\ DOMAIN currDiff = Hosts /\ DOMAIN result = Hosts
  BY StepTypes
<1>5. CASE Found(i)
  <2>1. /\ Len(chan[i][h]) >= 2 /\ chan[i][h][1] = Flag(TRUE) /\ chan[i][h][2] = DeltasMsg(i)
        /\ Strings(h, i, 3)
    BY <1>2, <1>5 DEF Found, Inbound
  <2>2. /\ pc' = [pc EXCEPT ![h] = "awaitDeltas"] /\ Receive(h)
        /\ UNCHANGED <<open, result, currDiff>>
    <3>1. Head(chan[i][h]).ok
      BY <1>4, <2>1 DEF Flag
    <3> QED
      BY <3>1 DEF ClientVerdict, Incoming, Goto
  <2>3. /\ chan'[i][h] = Tail(chan[i][h]) /\ chan'[i][s] = chan[i][s]
        /\ \A j \in Rounds \ {i} : chan'[j] = chan[j]
    <3>1. /\ chan'[comm[h]][h] = Tail(chan[comm[h]][h])
          /\ chan'[comm[h]][Other(h)] = chan[comm[h]][Other(h)]
          /\ \A j \in Rounds \ {comm[h]} : chan'[j] = chan[j]
      BY <2>2, ReceiveStreams
    <3> QED
      BY <3>1
  <2>4. Local(h, "awaitDeltas")
    BY <1>1, <2>2, <2>3 DEF Local, history
  <2>5. /\ A' = A /\ First' = First
        /\ Place(h, i)' = "awaitDeltas" /\ Place(s, i)' = Place(s, i) /\ pc'[h] = "awaitDeltas"
        /\ \A j \in Rounds \ {i} : Round(j)'
        /\ Host(s)'
    BY <1>1, <2>4, LocalStep
  <2>6. /\ Owed(h, i)' = Owed(h, i) /\ DeltasMsg(i)' = DeltasMsg(i)
        /\ Strings(h, i, 2)'
        /\ \A e : Absent(e, h, i, 2)' <=> Absent(e, h, i, 3)
    <3>1. PICK n \in Nat \ {0} : n = 2
      OBVIOUS
    <3>2. base'[i] = base[i] /\ UNCHANGED agent
      BY <1>1 DEF history
    <3>3. /\ Owed(h, i)' = Owed(h, i) /\ DeltasMsg(i)' = DeltasMsg(i)
          /\ Strings(h, i, n + 1) => Strings(h, i, n)'
          /\ \A e : Absent(e, h, i, n)' <=> Absent(e, h, i, n + 1)
      BY <1>1, <1>4, <2>3, <3>2, TailStream
    <3>4. n + 1 = 3
      BY <3>1
    <3>5. Strings(h, i, n)'
      BY <2>1, <3>3, <3>4, Zenon
    <3> QED
      BY <3>1, <3>3, <3>4, <3>5, Zenon
  <2>7. Unsent(h, i, 2)' = Unsent(h, i, 3)
    BY <1>2, <2>5, <2>6 DEF Unsent
  <2>8. Inbound(h, i)'
    <3>1. Len(chan'[i][h]) >= 1 /\ chan'[i][h][1] = DeltasMsg(i)
      <4>1. PICK q \in Seq(Message), t \in Seq(Message) :
              q # <<>> /\ q = chan[i][h] /\ t = Tail(q) /\ t = chan'[i][h]
        BY <1>1, <1>4, <2>3, TailFacts
      <4>2. Len(t) >= 1 /\ t[1] = q[2]
        BY <2>1, <4>1, TailFacts
      <4> QED
        BY <2>1, <4>1, <4>2
    <3>2. chan'[i][h][1] = DeltasMsg(i)'
      BY <2>6, <3>1
    <3> QED
      BY <2>5, <2>6, <3>1, <3>2, Zenon DEF Inbound
  <2>9. /\ Owed(s, i)' = Owed(s, i) /\ Inbound(s, i)'
    <3>1. base'[i] = base[i] /\ UNCHANGED agent /\ oms'[s] = oms[s] /\ due'[s] = due[s]
      BY <1>1 DEF history
    <3>2. Owed(s, i)' = Owed(s, i) /\ Inbound(s, i)' = Inbound(s, i)
      BY <2>3, <2>5, <3>1, StreamFrame
    <3> QED
      BY <1>5, <3>2 DEF Found
  <2>10. Outbound(h, i)'
    BY <1>1, <1>2, <1>3, <1>5, <2>3, <2>5, <2>9 DEF Found, Outbound
  <2>11. Outbound(s, i)'
    <3>1. Before(h, i) + 1 = 3 /\ (Before(h, i) + 1)' = 2
      BY <1>2, <2>5 DEF Before
    <3>2. Outbound(s, i)
      BY <1>5 DEF Found
    <3>3. Place(s, i) = "strings" => toSend[s] \subseteq Unsent(h, i, 3)
      BY <1>2, <3>1, <3>2 DEF Outbound
    <3>4. Place(s, i) \notin {"awaitVerdict", "awaitDeltas"}
      BY <1>5 DEF Found, At
    <3> QED
      BY <1>1, <2>5, <2>7, <3>1, <3>3, <3>4 DEF Outbound
  <2>12. Round(i)'
    <3>1. Found(i)'
      BY <1>1, <1>5, <2>5, <2>8, <2>9, <2>10, <2>11 DEF Found, At, Hosts, history
    <3> QED
      BY <1>3, <2>5, <3>1 DEF Round
  <2>13. Host(h)'
    BY <1>1, <1>2, <1>3, <2>2, <2>5 DEF Host, Unstarted, Early, Open, history
  <2> QED
    BY <2>5, <2>12, <2>13 DEF Link, Hosts
<1>6. CASE LostSent(i) /\ Failed(i)
  <2>1. chan[i][h] = <<Flag(FALSE)>> /\ chan[i][s] = <<>> /\ GivesUp(A, currDiff[h])
    BY <1>6 DEF LostSent, Carries
  <2>2. /\ pc' = [pc EXCEPT ![h] = "post"] /\ Receive(h)
        /\ result' = [result EXCEPT ![h] = FALSE] /\ UNCHANGED currDiff
    <3>1. ~Head(chan[i][h]).ok
      BY <2>1 DEF Flag
    <3> QED
      BY <1>4, <2>1, <3>1 DEF ClientVerdict, Incoming, Goto
  <2>3. /\ chan'[i][h] = <<>> /\ chan'[i][s] = <<>>
        /\ \A j \in Rounds \ {i} : chan'[j] = chan[j]
    <3>1. /\ chan'[comm[h]][h] = Tail(chan[comm[h]][h])
          /\ chan'[comm[h]][Other(h)] = chan[comm[h]][Other(h)]
          /\ \A j \in Rounds \ {comm[h]} : chan'[j] = chan[j]
      BY <2>2, ReceiveStreams
    <3>2. Tail(<<Flag(FALSE)>>) = <<>>
      BY Singles
    <3> QED
      BY <2>1, <3>1, <3>2
  <2>4. Local(h, "post")
    BY <1>1, <1>4, <2>2, <2>3 DEF Local, history
  <2>5. /\ A' = A /\ First' = First
        /\ Place(h, i)' = "post" /\ Place(s, i)' = Place(s, i) /\ pc'[h] = "post"
        /\ \A j \in Rounds \ {i} : Round(j)'
        /\ Host(s)'
    BY <1>1, <2>4, LocalStep
  <2>6. Round(i)'
    <3>1. Failed(i)'
      BY <1>1, <1>6, <2>3, <2>5 DEF Failed, LostSent, Lost, Excuse, Differences, At, Carries, history
    <3> QED
      BY <1>3, <2>5, <3>1 DEF Round
  <2>7. Host(h)'
    <3>1. Outcome(h)'
      BY <1>1, <1>2, <1>4, <1>6, <2>2 DEF Failed, Outcome, Host, Open, history
    <3> QED
      BY <1>1, <1>2, <1>3, <2>2, <2>5, <3>1 DEF Host, Unstarted, Early, Open, history
  <2> QED
    BY <2>5, <2>6, <2>7 DEF Link, Hosts
<1>7. CASE verdict[i] = "none" /\ Refused(i)
  <2>1. /\ chan[i][h] = <<Flag(FALSE)>> /\ chan[i][s] = <<>>
        /\ currDiff[h] = currDiff[s] /\ ~GivesUp(A, currDiff[h])
    BY <1>7 DEF Refused, Carries
  <2>2. /\ pc[h] = "awaitVerdict" /\ UNCHANGED pc
        /\ Answer(h, <<MoreMsg(currDiff[s])>>)
        /\ currDiff' = [currDiff EXCEPT ![h] = NextDiff(A, currDiff[h])]
        /\ UNCHANGED result
    <3>1. ~Head(chan[i][h]).ok
      BY <2>1 DEF Flag
    <3>2. /\ UNCHANGED pc /\ UNCHANGED result
          /\ Answer(h, <<[type |-> "more", pts |-> MorePoints(A, currDiff[h])]>>)
          /\ currDiff' = [currDiff EXCEPT ![h] = NextDiff(A, currDiff[h])]
      BY <1>4, <2>1, <3>1 DEF ClientVerdict, Incoming
    <3>3. MoreMsg(currDiff[s]) = [type |-> "more", pts |-> MorePoints(A, currDiff[h])]
      BY <2>1 DEF MoreMsg
    <3> QED
      BY <1>1, <3>2, <3>3, Zenon
  <2>3. /\ chan'[i][h] = <<>> /\ chan'[i][s] = <<MoreMsg(currDiff[s])>>
        /\ \A j \in Rounds \ {i} : chan'[j] = chan[j]
    <3>1. /\ chan'[comm[h]][h] = Tail(chan[comm[h]][h])
          /\ chan'[comm[h]][Other(h)] = chan[comm[h]][Other(h)] \o <<MoreMsg(currDiff[s])>>
          /\ \A j \in Rounds \ {comm[h]} : chan'[j] = chan[j]
      BY <2>2, AnswerStreams
    <3>2. Tail(<<Flag(FALSE)>>) = <<>> /\ <<>> \o <<MoreMsg(currDiff[s])>> = <<MoreMsg(currDiff[s])>>
      BY Singles
    <3> QED
      BY <2>1, <3>1, <3>2
  <2>4. Local(h, "awaitVerdict")
    BY <1>1, <1>4, <2>2, <2>3 DEF Local, history
  <2>5. /\ A' = A /\ First' = First
        /\ Place(h, i)' = "awaitVerdict" /\ Place(s, i)' = Place(s, i) /\ pc'[h] = "awaitVerdict"
        /\ \A j \in Rounds \ {i} : Round(j)'
        /\ Host(s)'
    BY <1>1, <2>4, LocalStep
  <2>6. currDiff'[s] = currDiff[s] /\ currDiff'[h] = NextDiff(A, currDiff[s])
    BY <1>4, <2>1, <2>2
  <2>7. Round(i)'
    <3>1. MoreMsg(currDiff[s])' = MoreMsg(currDiff[s])
      BY <2>5, <2>6 DEF MoreMsg
    <3>2. MoreSent(i)'
      BY <1>1, <1>7, <2>1, <2>3, <2>5, <2>6, <3>1 DEF Refused, MoreSent, At, Carries, Holding
    <3> QED
      BY <1>1, <1>3, <1>7, <2>5, <3>2 DEF Round, Undecided, history
  <2>8. Host(h)'
    <3>1. A.prob
      BY <2>1 DEF GivesUp
    <3> QED
      BY <1>1, <1>2, <1>3, <2>2, <2>5, <3>1 DEF Host, Unstarted, Early, Open, history
  <2> QED
    BY <2>5, <2>7, <2>8 DEF Link, Hosts
<1> QED
  BY <1>3, <1>5, <1>6, <1>7

\* The two vectors of differences arrive.
LEMMA ClientStructures ==
    ASSUME TypeOK, Matched, Link, ClientDeltas
    PROVE  Link'
<1> PICK h \in Hosts, s \in Hosts, i \in Rounds :
        h = "client" /\ s = "server" /\ s = Other(h) /\ h = Other(s) /\ h # s /\ i = comm[h]
  BY StepTypes DEF Hosts, Other
<1>1. /\ pc[h] = "awaitDeltas" /\ chan[i][h] # <<>> /\ Receive(h)
      /\ MakeStructures(h, Mine(Head(chan[i][h])), Others(Head(chan[i][h])))
      /\ UNCHANGED <<data, comm, result, history, agent, currDiff, otherSet, recvMeta>>
  BY DEF ClientDeltas, Receives, Incoming
<1>2. Place(h, i) = "awaitDeltas" /\ Round(i) /\ Host(h)
  BY <1>1, Here DEF Link
<1>3. ~A.oneWay /\ Found(i)
  BY <1>2, ClientPhases
<1>4. /\ agent[h] = A /\ chan[i][h] \in Seq(Message) /\ DOMAIN pc = Hosts
      /\ DOMAIN toSend = Hosts /\ DOMAIN due = Hosts /\ DOMAIN oms = Hosts
  BY StepTypes
<1>5. Len(chan[i][h]) >= 1 /\ chan[i][h][1] = DeltasMsg(i) /\ Strings(h, i, 2)
  BY <1>2, <1>3 DEF Found, Inbound
<1>6. MakeStructures(h, Owed(s, i), Owed(h, i))
  <2>1. Head(chan[i][h]) = DeltasMsg(i)
    BY <1>1, <1>4, <1>5, TailFacts
  <2>2. Mine(DeltasMsg(i)) = Owed(s, i) /\ Others(DeltasMsg(i)) = Owed(h, i)
    BY DEF Mine, Others, DeltasMsg
  <2> QED
    BY <1>1, <2>1, <2>2
<1>7. /\ chan'[i][h] = Tail(chan[i][h]) /\ chan'[i][s] = chan[i][s]
      /\ \A j \in Rounds \ {i} : chan'[j] = chan[j]
  <2>1. /\ chan'[comm[h]][h] = Tail(chan[comm[h]][h])
        /\ chan'[comm[h]][Other(h)] = chan[comm[h]][Other(h)]
        /\ \A j \in Rounds \ {comm[h]} : chan'[j] = chan[j]
    BY <1>1, ReceiveStreams
  <2> QED
    BY <2>1
<1>8. /\ Owed(h, i)' = Owed(h, i) /\ DeltasMsg(i)' = DeltasMsg(i)
      /\ Strings(h, i, 1)'
      /\ \A e : Absent(e, h, i, 1)' <=> Absent(e, h, i, 2)
  <2>1. PICK n \in Nat \ {0} : n = 1
    OBVIOUS
  <2>2. base'[i] = base[i] /\ UNCHANGED agent
    BY <1>1 DEF history
  <2>3. /\ Owed(h, i)' = Owed(h, i) /\ DeltasMsg(i)' = DeltasMsg(i)
        /\ Strings(h, i, n + 1) => Strings(h, i, n)'
        /\ \A e : Absent(e, h, i, n)' <=> Absent(e, h, i, n + 1)
    BY <1>1, <1>4, <1>7, <2>2, TailStream
  <2>4. n + 1 = 2
    BY <2>1
  <2>5. Strings(h, i, n)'
    BY <1>5, <2>3, <2>4, Zenon
  <2> QED
    BY <2>1, <2>3, <2>4, <2>5, Zenon
<1>9. /\ oms[h] = {} /\ result[h] /\ verdict[i] = "ok" /\ Owed(s, i)' = Owed(s, i)
      /\ Place(s, i) \in {"strings", "post", "quit"}
      /\ Outbound(h, i) /\ Outbound(s, i) /\ Inbound(s, i)
  BY <1>1, <1>2, <1>3 DEF Host, Open, Found, At, Owed, history
<1>10. CASE A.hashQ
  <2>1. /\ pc' = [pc EXCEPT ![h] = "strings"] /\ oms' = oms
        /\ toSend' = [toSend EXCEPT ![h] = Owed(s, i)]
        /\ due' = [due EXCEPT ![h] = Cardinality(Owed(h, i))]
    BY <1>3, <1>4, <1>6, <1>10 DEF MakeStructures, Goto, StringsDue
  <2>2. Local(h, "strings")
    BY <1>1, <1>4, <1>7, <2>1 DEF Local, history
  <2>3. /\ A' = A /\ First' = First
        /\ Place(h, i)' = "strings" /\ Place(s, i)' = Place(s, i) /\ pc'[h] = "strings"
        /\ \A j \in Rounds \ {i} : Round(j)'
        /\ Host(s)'
    BY <1>1, <2>2, LocalStep
  <2>4. /\ oms'[h] = {} /\ toSend'[h] = Owed(s, i) /\ due'[h] = Cardinality(Owed(h, i))
        /\ oms'[s] = oms[s] /\ due'[s] = due[s] /\ toSend'[s] = toSend[s]
    BY <1>4, <1>9, <2>1
  <2>5. Inbound(h, i)'
    <3>1. Owed(h, i) \ {} = Owed(h, i)
      OBVIOUS
    <3>2. Receiving(h, i)'
      BY <1>8, <1>10, <2>3, <2>4, <3>1 DEF Receiving
    <3> QED
      BY <2>3, <3>2 DEF Inbound
  <2>6. /\ Inbound(s, i)' /\ \A n \in Nat : Unsent(s, i, n)' = Unsent(s, i, n)
        /\ Before(s, i)' = Before(s, i)
    <3>1. base'[i] = base[i] /\ UNCHANGED agent
      BY <1>1 DEF history
    <3>2. /\ Inbound(s, i)' = Inbound(s, i) /\ \A n \in Nat : Unsent(s, i, n)' = Unsent(s, i, n)
          /\ Before(s, i)' = Before(s, i)
      BY <1>7, <2>3, <2>4, <3>1, StreamFrame
    <3> QED
      BY <1>9, <3>2
  <2>7. Outbound(h, i)'
    <3>1. Place(s, i) = "post" => Owed(s, i) = {}
      BY <1>2, <1>9, <1>10 DEF Outbound
    <3>2. Place(s, i) = "strings" => Owed(s, i) \subseteq Unsent(s, i, 1)
      <4> SUFFICES ASSUME Place(s, i) = "strings" PROVE Owed(s, i) \subseteq Unsent(s, i, 1)
        OBVIOUS
      <4>1. chan[i][s] = <<>> /\ oms[s] = {}
        BY <1>2, <1>9 DEF Outbound
      <4>2. Len(chan[i][s]) = 0
        BY <4>1
      <4> QED
        BY <4>1, <4>2 DEF Unsent, Absent
    <3>3. Place(s, i) = "strings" => (Before(s, i) + 1)' = 1
      BY <2>6 DEF Before
    <3> QED
      BY <1>9, <2>3, <2>4, <2>6, <3>1, <3>2, <3>3 DEF Outbound
  <2>8. Outbound(s, i)'
    <3>1. Place(s, i) = "strings" => toSend[s] \subseteq Unsent(h, i, 2)
      <4>1. Before(h, i) + 1 = 2
        BY <1>2 DEF Before
      <4> QED
        BY <1>2, <1>9, <4>1 DEF Outbound
    <3>2. Unsent(h, i, 2) \subseteq Unsent(h, i, 1)'
      BY <1>8, <2>4 DEF Unsent
    <3>3. (Before(h, i) + 1)' = 1
      BY <2>3 DEF Before
    <3> QED
      BY <1>9, <2>3, <2>4, <3>1, <3>2, <3>3 DEF Outbound
  <2>9. Round(i)'
    <3>1. Found(i)'
      BY <1>1, <1>9, <2>3, <2>5, <2>6, <2>7, <2>8 DEF Found, At, Hosts, history
    <3> QED
      BY <1>3, <2>3, <3>1 DEF Round
  <2>10. Host(h)'
    BY <1>1, <1>2, <1>3, <1>9, <2>3, <2>4 DEF Host, Unstarted, Early, Open, history
  <2> QED
    BY <2>3, <2>9, <2>10 DEF Link, Hosts
<1>11. CASE ~A.hashQ
  <2>1. /\ pc' = [pc EXCEPT ![h] = "post"] /\ oms' = [oms EXCEPT ![h] = Owed(h, i)]
        /\ toSend' = toSend /\ due' = due
    BY <1>4, <1>6, <1>11 DEF MakeStructures, Goto
  <2>2. Local(h, "post")
    BY <1>1, <1>4, <1>7, <2>1 DEF Local, history
  <2>3. /\ A' = A /\ First' = First
        /\ Place(h, i)' = "post" /\ Place(s, i)' = Place(s, i) /\ pc'[h] = "post"
        /\ \A j \in Rounds \ {i} : Round(j)'
        /\ Host(s)'
    BY <1>1, <2>2, LocalStep
  <2>4. oms'[h] = Owed(h, i) /\ oms'[s] = oms[s]
    BY <1>4, <2>1
  <2>5. Inbound(h, i)'
    <3>1. PICK q \in Seq(Message) : q = chan[i][h] /\ q # <<>> /\ chan'[i][h] = Tail(q)
      BY <1>1, <1>4, <1>7
    <3>2. ~(2 <= Len(q))
      BY <1>5, <1>11, <3>1 DEF Strings
    <3>3. Tail(q) = <<>>
      BY <3>1, <3>2, TailFacts
    <3> QED
      BY <2>3, <3>1, <3>3 DEF Inbound
  <2>6. Inbound(s, i)'
    <3>1. base'[i] = base[i] /\ UNCHANGED agent
      BY <1>1 DEF history
    <3>2. Inbound(s, i)' = Inbound(s, i)
      BY <1>7, <2>1, <2>3, <2>4, <3>1, StreamFrame
    <3> QED
      BY <1>9, <3>2
  <2>7. Outbound(h, i)'
    BY <2>3 DEF Outbound
  <2>8. Outbound(s, i)'
    <3>1. Place(s, i) # "strings"
      BY <1>9, <1>11 DEF Inbound, Receiving
    <3> QED
      BY <1>9, <2>3, <3>1 DEF Outbound
  <2>9. Round(i)'
    <3>1. Found(i)'
      BY <1>1, <1>9, <2>3, <2>5, <2>6, <2>7, <2>8 DEF Found, At, Hosts, history
    <3> QED
      BY <1>3, <2>3, <3>1 DEF Round
  <2>10. Host(h)'
    <3>1. Outcome(h)'
      BY <1>1, <1>8, <1>9, <2>4 DEF Outcome, history
    <3> QED
      BY <1>1, <1>2, <1>3, <2>3, <3>1 DEF Host, Unstarted, Early, Open, history
  <2> QED
    BY <2>3, <2>9, <2>10 DEF Link, Hosts
<1> QED
  BY <1>10, <1>11

(***************************************************************************)
(* The exchange of strings.                                                *)
(***************************************************************************)
LEMMA AppendFacts ==
    ASSUME NEW q \in Seq(Message), NEW x \in Message
    PROVE  /\ q \o <<x>> \in Seq(Message) /\ Len(q) \in Nat
           /\ Len(q \o <<x>>) = Len(q) + 1
           /\ (q \o <<x>>)[Len(q) + 1] = x
           /\ \A j \in 1..Len(q) : (q \o <<x>>)[j] = q[j]
OBVIOUS

StringMsg(e) == [type |-> "string", elem |-> e]

\* What a stream holds after a string has been added.
LEMMA AppendStream ==
    ASSUME NEW i \in Rounds, NEW g \in Hosts, chan[i][g] \in Seq(Message), NEW e \in Elem,
           chan'[i][g] = chan[i][g] \o <<StringMsg(e)>>, UNCHANGED agent, base'[i] = base[i],
           A.hashQ, e \in Owed(g, i), NEW n \in Nat \ {0}, n <= Len(chan[i][g]) + 1,
           Absent(e, g, i, n), Strings(g, i, n)
    PROVE  /\ Owed(g, i)' = Owed(g, i) /\ DeltasMsg(i)' = DeltasMsg(i)
           /\ Strings(g, i, n)'
           /\ \A m \in Nat : Len(chan[i][g]) >= m => Len(chan'[i][g]) >= m
           /\ \A j \in 1..Len(chan[i][g]) : chan'[i][g][j] = chan[i][g][j]
           /\ \A f : Absent(f, g, i, n) /\ f # e => Absent(f, g, i, n)'
<1>1. Owed(g, i)' = Owed(g, i) /\ DeltasMsg(i)' = DeltasMsg(i) /\ A' = A
  BY DEF Owed, DeltasMsg, A
<1>2. StringMsg(e) \in Message /\ StringMsg(e).elem = e /\ StringMsg(e).type = "string"
  BY MessageTypes DEF StringMsg
<1> PICK q \in Seq(Message), t \in Seq(Message) :
        q = chan[i][g] /\ t = chan'[i][g] /\ t = q \o <<StringMsg(e)>>
  BY <1>2, AppendFacts
<1>3. /\ Len(q) \in Nat /\ Len(t) = Len(q) + 1 /\ t[Len(q) + 1] = StringMsg(e)
      /\ \A j \in 1..Len(q) : t[j] = q[j]
  BY <1>2, AppendFacts
<1>4. ASSUME NEW j \in n..Len(t)
      PROVE  \/ j \in n..Len(q) /\ t[j] = q[j]
             \/ j = Len(q) + 1 /\ t[j] = StringMsg(e)
  <2>1. j \in n..Len(q) \/ j = Len(q) + 1
    BY <1>3
  <2>2. CASE j \in n..Len(q)
    <3>1. j \in 1..Len(q)
      BY <1>3, <2>2
    <3> QED
      BY <1>3, <2>2, <3>1
  <2>3. CASE j = Len(q) + 1
    BY <1>3, <2>3
  <2> QED
    BY <2>1, <2>2, <2>3
<1>5. /\ \A j \in n..Len(q) : A.hashQ /\ q[j].type = "string" /\ q[j].elem \in Owed(g, i)
      /\ \A j, l \in n..Len(q) : q[j].elem = q[l].elem => j = l
      /\ \A j \in n..Len(q) : q[j].elem # e
  BY DEF Strings, Absent
<1>6. Strings(g, i, n)'
  <2>1. \A j \in n..Len(t) : A.hashQ /\ t[j].type = "string" /\ t[j].elem \in Owed(g, i)
    BY <1>2, <1>4, <1>5
  <2>2. ASSUME NEW j \in n..Len(t), NEW l \in n..Len(t), t[j].elem = t[l].elem PROVE j = l
    <3>1. CASE j \in n..Len(q) /\ t[j] = q[j]
      <4>1. t[j].elem # e
        BY <1>5, <3>1
      <4>2. l \in n..Len(q) /\ t[l] = q[l]
        BY <1>2, <1>4, <2>2, <4>1
      <4> QED
        BY <1>5, <2>2, <3>1, <4>2
    <3>2. CASE j = Len(q) + 1 /\ t[j] = StringMsg(e)
      <4>1. t[l].elem = e
        BY <1>2, <2>2, <3>2
      <4>2. ~(l \in n..Len(q) /\ t[l] = q[l])
        BY <1>5, <4>1
      <4> QED
        BY <1>4, <3>2, <4>2
    <3> QED
      BY <1>4, <3>1, <3>2
  <2>3. \A j, l \in n..Len(t) : t[j].elem = t[l].elem => j = l
    BY <2>2, Zenon
  <2>4. A' = A /\ Owed(g, i)' = Owed(g, i) /\ chan'[i][g] = t
    BY <1>1
  <2>5. \A j \in n..Len(chan'[i][g]) :
           A'.hashQ /\ chan'[i][g][j].type = "string" /\ chan'[i][g][j].elem \in Owed(g, i)'
    BY <2>1, <2>4, Zenon
  <2>6. \A j, l \in n..Len(chan'[i][g]) : chan'[i][g][j].elem = chan'[i][g][l].elem => j = l
    BY <2>3, <2>4, Zenon
  <2> QED
    BY <2>5, <2>6, Zenon DEF Strings
<1>7. ASSUME NEW f, Absent(f, g, i, n), f # e PROVE Absent(f, g, i, n)'
  <2>1. \A j \in n..Len(q) : q[j].elem # f
    BY <1>7 DEF Absent
  <2>2. \A j \in n..Len(t) : t[j].elem # f
    BY <1>2, <1>4, <1>7, <2>1
  <2> QED
    BY <2>2 DEF Absent
<1>8. \A m \in Nat : Len(q) >= m => Len(t) >= m
  BY <1>3
<1>9. \A m \in Nat : Len(chan[i][g]) >= m => Len(chan'[i][g]) >= m
  BY <1>8, Zenon
<1>10. \A j \in 1..Len(chan[i][g]) : chan'[i][g][j] = chan[i][g][j]
  BY <1>3, Zenon
<1> QED
  BY <1>1, <1>6, <1>7, <1>9, <1>10, Zenon

\* A host in the exchange of strings is in a round whose differences were found.
LEMMA StringPhase ==
    ASSUME TypeOK, Matched, Link, NEW h \in Hosts, pc[h] = "strings", NEW i, i = comm[h]
    PROVE  /\ i \in Rounds /\ Place(h, i) = "strings" /\ ~A.oneWay /\ Found(i) /\ A.hashQ
           /\ Receiving(h, i) /\ Host(h)
<1>1. i \in Rounds /\ Place(h, i) = "strings" /\ Host(h)
  BY StepTypes, Here DEF Link
<1>2. Round(i)
  BY <1>1 DEF Link
<1>3. ~A.oneWay /\ Found(i)
  BY <1>1, <1>2, ClientPhases, ServerPhases DEF Hosts
<1>4. Receiving(h, i)
  BY <1>1, <1>3 DEF Found, Inbound
<1> QED
  BY <1>1, <1>3, <1>4 DEF Receiving

\* A string owed goes on its way, and no more is owed than before.
LEMMA StringSent ==
    ASSUME TypeOK, Matched, Link, NEW h \in Hosts, SendString(h)
    PROVE  Link'
<1> PICK g \in Hosts, i \in Rounds :
        g = Other(h) /\ h = Other(g) /\ h # g /\ i = comm[h]
  BY StepTypes DEF Hosts, Other
<1> PICK e \in toSend[h] :
        /\ Send(h, <<StringMsg(e)>>) /\ toSend' = [toSend EXCEPT ![h] = toSend[h] \ {e}]
  BY StepTypes DEF SendString, StringMsg
<1>1. /\ pc[h] = "strings"
      /\ UNCHANGED <<data, pc, comm, oms, result, history, agent, currDiff, otherSet, recvMeta, due>>
  BY DEF SendString
<1>2. /\ Place(h, i) = "strings" /\ ~A.oneWay /\ Found(i) /\ A.hashQ
      /\ Receiving(h, i) /\ Host(h)
  BY <1>1, StringPhase
<1>3. /\ chan'[i][h] = chan[i][h] /\ chan'[i][g] = chan[i][g] \o <<StringMsg(e)>>
      /\ \A j \in Rounds \ {i} : chan'[j] = chan[j]
  <2>1. Send(h, <<StringMsg(e)>>)
    OBVIOUS
  <2>2. /\ chan'[comm[h]][h] = chan[comm[h]][h]
        /\ chan'[comm[h]][Other(h)] = chan[comm[h]][Other(h)] \o <<StringMsg(e)>>
        /\ \A j \in Rounds \ {comm[h]} : chan'[j] = chan[j]
    BY <2>1, SendStreams
  <2> QED
    BY <2>2
<1>4. /\ chan[i][g] \in Seq(Message) /\ toSend[h] \in SUBSET Elem
      /\ toSend'[h] = toSend[h] \ {e} /\ toSend'[g] = toSend[g]
  BY StepTypes
<1>5. Local(h, "strings")
  BY <1>1, <1>3, <1>4 DEF Local, history, Hosts
<1>6. /\ A' = A /\ First' = First
      /\ Place(h, i)' = "strings" /\ Place(g, i)' = Place(g, i)
      /\ \A j \in Rounds \ {i} : Round(j)'
      /\ Host(g)'
  BY <1>1, <1>5, LocalStep
<1>7. base'[i] = base[i] /\ UNCHANGED agent
  BY <1>1 DEF history
<1>n. PICK n \in Nat \ {0} : n = Before(g, i) + 1
  BY DEF Before
<1>8. /\ Place(g, i) \in {"awaitVerdict", "awaitDeltas", "strings", "quit"}
      /\ Place(g, i) # "quit" => toSend[h] \subseteq Unsent(g, i, n)
      /\ Inbound(h, i) /\ Inbound(g, i) /\ Outbound(g, i)
  <2>1. /\ Place(g, i) \in {"awaitVerdict", "awaitDeltas", "strings", "post", "quit"}
        /\ Inbound(h, i) /\ Outbound(h, i) /\ Inbound(g, i) /\ Outbound(g, i)
    BY <1>2 DEF Found, At, Hosts
  <2>2. IF Place(g, i) = "post" THEN toSend[h] = {}
        ELSE Place(g, i) = "quit" \/ toSend[h] \subseteq Unsent(g, i, Before(g, i) + 1)
    BY <1>2, <2>1 DEF Outbound
  <2> QED
    BY <1>n, <2>1, <2>2
<1>9. ASSUME Place(g, i) # "quit"
      PROVE  /\ Owed(g, i)' = Owed(g, i) /\ DeltasMsg(i)' = DeltasMsg(i)
             /\ Strings(g, i, n)'
             /\ \A m \in Nat : Len(chan[i][g]) >= m => Len(chan'[i][g]) >= m
             /\ \A j \in 1..Len(chan[i][g]) : chan'[i][g][j] = chan[i][g][j]
             /\ \A f : Absent(f, g, i, n) /\ f # e => Absent(f, g, i, n)'
  <2>1. e \in Elem /\ e \in Owed(g, i) /\ Absent(e, g, i, n)
    BY <1>4, <1>8, <1>9 DEF Unsent
  <2>2. Len(chan[i][g]) \in Nat
    BY <1>4
  <2>3. Strings(g, i, n) /\ n <= Len(chan[i][g]) + 1
    <3>1. CASE Place(g, i) = "awaitVerdict"
      <4>1. n = 3
        BY <1>n, <3>1 DEF Before
      <4>2. Strings(g, i, 3) /\ Len(chan[i][g]) >= 2
        BY <1>8, <2>2, <3>1 DEF Inbound
      <4>3. Strings(g, i, n)
        BY <4>1, <4>2, Zenon
      <4>4. n <= Len(chan[i][g]) + 1
        BY <2>2, <4>1, <4>2
      <4> QED
        BY <4>3, <4>4
    <3>2. CASE Place(g, i) = "awaitDeltas"
      <4>1. n = 2
        BY <1>n, <3>2 DEF Before
      <4>2. Strings(g, i, 2) /\ Len(chan[i][g]) >= 1
        BY <1>8, <2>2, <3>2 DEF Inbound
      <4>3. Strings(g, i, n)
        BY <4>1, <4>2, Zenon
      <4>4. n <= Len(chan[i][g]) + 1
        BY <2>2, <4>1, <4>2
      <4> QED
        BY <4>3, <4>4
    <3>3. CASE Place(g, i) = "strings"
      <4>1. n = 1
        BY <1>n, <3>3 DEF Before
      <4>2. Strings(g, i, 1) /\ Len(chan[i][g]) >= 0
        BY <1>8, <2>2, <3>3 DEF Inbound, Receiving
      <4>3. Strings(g, i, n)
        BY <4>1, <4>2, Zenon
      <4>4. n <= Len(chan[i][g]) + 1
        BY <2>2, <4>1, <4>2
      <4> QED
        BY <4>3, <4>4
    <3> QED
      BY <1>8, <1>9, <3>1, <3>2, <3>3
  <2>4. chan'[i][g] = chan[i][g] \o <<StringMsg(e)>>
    BY <1>3
  <2> QED
    BY <1>2, <1>4, <1>7, <2>1, <2>3, <2>4, AppendStream
<1>10. Inbound(g, i)'
  <2>1. Len(chan[i][g]) \in Nat
    BY <1>4
  <2>2. CASE Place(g, i) = "awaitVerdict"
    <3>1. Strings(g, i, 3)'
      <4>1. n = 3
        BY <1>n, <2>2 DEF Before
      <4> QED
        BY <1>9, <2>2, <4>1
    <3>2. Len(chan[i][g]) >= 2 /\ chan[i][g][1] = Flag(TRUE) /\ chan[i][g][2] = DeltasMsg(i)
      BY <1>8, <2>2 DEF Inbound
    <3>3. /\ Len(chan'[i][g]) >= 2 /\ chan'[i][g][1] = Flag(TRUE)
          /\ chan'[i][g][2] = DeltasMsg(i) /\ DeltasMsg(i)' = DeltasMsg(i)
      <4>1. Len(chan'[i][g]) >= 2
        BY <1>9, <2>2, <3>2
      <4>2. 1 \in 1..Len(chan[i][g]) /\ 2 \in 1..Len(chan[i][g])
        BY <2>1, <3>2
      <4> QED
        BY <1>9, <2>2, <3>2, <4>1, <4>2
    <3> QED
      BY <1>6, <2>2, <3>1, <3>3 DEF Inbound, Flag
  <2>3. CASE Place(g, i) = "awaitDeltas"
    <3>1. Strings(g, i, 2)'
      <4>1. n = 2
        BY <1>n, <2>3 DEF Before
      <4> QED
        BY <1>9, <2>3, <4>1
    <3>2. Len(chan[i][g]) >= 1 /\ chan[i][g][1] = DeltasMsg(i)
      BY <1>8, <2>3 DEF Inbound
    <3>3. /\ Len(chan'[i][g]) >= 1
          /\ chan'[i][g][1] = DeltasMsg(i) /\ DeltasMsg(i)' = DeltasMsg(i)
      BY <1>9, <2>1, <2>3, <3>2
    <3> QED
      BY <1>6, <2>3, <3>1, <3>3 DEF Inbound
  <2>4. CASE Place(g, i) = "strings"
    <3>1. n = 1
      BY <1>n, <2>4 DEF Before
    <3>2. Strings(g, i, 1)' /\ Owed(g, i)' = Owed(g, i)
      BY <1>9, <2>4, <3>1
    <3>3. Receiving(g, i) /\ e \notin oms[g]
      BY <1>8, <2>4 DEF Inbound, Unsent
    <3>4. \A f \in oms[g] : Absent(f, g, i, 1)'
      BY <1>9, <2>4, <3>1, <3>3 DEF Receiving
    <3>5. Receiving(g, i)'
      BY <1>1, <1>6, <3>2, <3>3, <3>4 DEF Receiving
    <3> QED
      BY <1>6, <2>4, <3>5 DEF Inbound
  <2>5. CASE Place(g, i) = "quit"
    BY <1>6, <2>5 DEF Inbound
  <2> QED
    BY <1>8, <2>2, <2>3, <2>4, <2>5
<1>11. /\ Inbound(h, i)' /\ Before(h, i)' = Before(h, i)
       /\ \A m \in Nat : Unsent(h, i, m)' = Unsent(h, i, m)
  <2>1. /\ Inbound(h, i)' = Inbound(h, i) /\ Before(h, i)' = Before(h, i)
        /\ \A m \in Nat : Unsent(h, i, m)' = Unsent(h, i, m)
    BY <1>1, <1>2, <1>3, <1>6, <1>7, StreamFrame
  <2> QED
    BY <1>8, <2>1
<1>12. Outbound(h, i)'
  <2>1. (Before(g, i) + 1)' = n
    BY <1>6, <1>n DEF Before
  <2>2. Place(g, i) # "quit" => toSend'[h] \subseteq Unsent(g, i, n)'
    <3> SUFFICES ASSUME Place(g, i) # "quit", NEW f \in toSend[h] \ {e}
                 PROVE  f \in Unsent(g, i, n)'
      BY <1>4
    <3>1. f \in Unsent(g, i, n)
      BY <1>8
    <3> QED
      BY <1>1, <1>6, <1>9, <3>1 DEF Unsent
  <2> QED
    BY <1>6, <1>8, <2>1, <2>2 DEF Outbound
<1>13. Outbound(g, i)'
  <2>1. PICK m \in Nat : m = Before(h, i) + 1
    BY DEF Before
  <2>2. (Before(h, i) + 1)' = m /\ Unsent(h, i, m)' = Unsent(h, i, m)
    BY <1>11, <2>1
  <2>3. /\ Other(g) = h /\ Place(h, i) = "strings" /\ toSend'[g] = toSend[g]
        /\ chan'[i][h] = chan[i][h] /\ oms'[h] = oms[h]
    BY <1>1, <1>2, <1>3, <1>4
  <2>4. Place(g, i) = "strings" => Place(g, i) = "quit" \/ toSend[g] \subseteq Unsent(h, i, m)
    BY <1>8, <2>1, <2>3 DEF Outbound
  <2>5. Place(g, i) \in {"awaitVerdict", "awaitDeltas"} => chan[i][h] = <<>> /\ oms[h] = {}
    BY <1>8, <2>3 DEF Outbound
  <2> QED
    BY <1>6, <2>2, <2>3, <2>4, <2>5 DEF Outbound
<1>14. Round(i)'
  <2>1. Found(i)'
    BY <1>1, <1>2, <1>6, <1>10, <1>11, <1>12, <1>13 DEF Found, At, Hosts, history
  <2> QED
    BY <1>2, <1>6, <2>1 DEF Round
<1>15. Host(h)'
  BY <1>1, <1>2, <1>6 DEF Host, Unstarted, Early, Open, Outcome, history
<1> QED
  BY <1>6, <1>14, <1>15 DEF Link, Hosts

\* A string arrives, once.
LEMMA StringReceived ==
    ASSUME TypeOK, Matched, Link, NEW h \in Hosts, ReceiveString(h)
    PROVE  Link'
<1> PICK g \in Hosts, i \in Rounds :
        g = Other(h) /\ h = Other(g) /\ h # g /\ i = comm[h]
  BY StepTypes DEF Hosts, Other
<1>1. /\ pc[h] = "strings" /\ toSend[h] = {} /\ chan[i][h] # <<>> /\ Receive(h)
      /\ oms' = [oms EXCEPT ![h] = oms[h] \cup {Head(chan[i][h]).elem}]
      /\ due' = [due EXCEPT ![h] = due[h] - 1]
      /\ UNCHANGED <<data, pc, comm, result, history, agent, currDiff, otherSet, recvMeta, toSend>>
  BY StepTypes DEF ReceiveString, Receives, Incoming
<1>2. /\ Place(h, i) = "strings" /\ ~A.oneWay /\ Found(i) /\ A.hashQ
      /\ Receiving(h, i) /\ Host(h)
  BY <1>1, StringPhase
<1>3. /\ chan'[i][h] = Tail(chan[i][h]) /\ chan'[i][g] = chan[i][g]
      /\ \A j \in Rounds \ {i} : chan'[j] = chan[j]
  <2>1. /\ chan'[comm[h]][h] = Tail(chan[comm[h]][h])
        /\ chan'[comm[h]][Other(h)] = chan[comm[h]][Other(h)]
        /\ \A j \in Rounds \ {comm[h]} : chan'[j] = chan[j]
    BY <1>1, ReceiveStreams
  <2> QED
    BY <2>1
<1>4. /\ chan[i][h] \in Seq(Message) /\ DOMAIN oms = Hosts /\ DOMAIN due = Hosts
      /\ base[i] \in [Hosts -> SUBSET Elem]
  BY StepTypes
<1> PICK e : e = Head(chan[i][h]).elem
  OBVIOUS
<1>5. /\ oms'[h] = oms[h] \cup {e} /\ due'[h] = due[h] - 1
      /\ oms'[g] = oms[g] /\ due'[g] = due[g]
  BY <1>1, <1>4
<1>6. Local(h, "strings")
  BY <1>1, <1>3, <1>5 DEF Local, history, Hosts
<1>7. /\ A' = A /\ First' = First
      /\ Place(h, i)' = "strings" /\ Place(g, i)' = Place(g, i)
      /\ \A j \in Rounds \ {i} : Round(j)'
      /\ Host(g)'
  BY <1>1, <1>6, LocalStep
<1>8. base'[i] = base[i] /\ UNCHANGED agent
  BY <1>1 DEF history
<1>9. /\ Place(g, i) \in {"awaitVerdict", "awaitDeltas", "strings", "post", "quit"}
      /\ Inbound(h, i) /\ Outbound(h, i) /\ Inbound(g, i) /\ Outbound(g, i)
  BY <1>2 DEF Found, At, Hosts
<1>10. /\ e \in Owed(h, i) /\ e \notin oms[h] /\ Absent(e, h, i, 2) /\ Strings(h, i, 2)
  <2> PICK q \in Seq(Message) : q = chan[i][h] /\ q # <<>>
    BY <1>1, <1>4
  <2>1. Len(q) \in Nat /\ 1 \in 1..Len(q) /\ q[1].elem = e
    BY TailFacts
  <2>2. /\ \A j \in 1..Len(q) : A.hashQ /\ q[j].type = "string" /\ q[j].elem \in Owed(h, i)
        /\ \A j, l \in 1..Len(q) : q[j].elem = q[l].elem => j = l
        /\ \A f \in oms[h] : \A j \in 1..Len(q) : q[j].elem # f
    BY <1>2 DEF Receiving, Strings, Absent
  <2>3. \A j \in 2..Len(q) : j \in 1..Len(q) /\ j # 1
    BY <2>1
  <2>4. ASSUME NEW j \in 2..Len(q) PROVE q[j].elem # e
    <3>1. j \in 1..Len(q) /\ j # 1
      BY <2>3
    <3>2. q[j].elem # q[1].elem
      BY <2>1, <2>2, <3>1, Zenon
    <3> QED
      BY <2>1, <3>2, Zenon
  <2>5. Strings(h, i, 2)
    BY <2>2, <2>3 DEF Strings
  <2> QED
    BY <2>1, <2>2, <2>4, <2>5 DEF Absent
<1>11. /\ Owed(h, i)' = Owed(h, i)
       /\ Strings(h, i, 1)'
       /\ \A f : Absent(f, h, i, 1)' <=> Absent(f, h, i, 2)
  <2>n. PICK n \in Nat \ {0} : n = 1
    OBVIOUS
  <2>1. /\ Owed(h, i)' = Owed(h, i)
        /\ Strings(h, i, n + 1) => Strings(h, i, n)'
        /\ \A f : Absent(f, h, i, n)' <=> Absent(f, h, i, n + 1)
    BY <1>1, <1>3, <1>4, <1>8, TailStream
  <2>2. n + 1 = 2
    BY <2>n
  <2>3. Strings(h, i, n)'
    BY <1>10, <2>1, <2>2, Zenon
  <2> QED
    BY <2>n, <2>1, <2>2, <2>3, Zenon
<1>12. \A f : Absent(f, h, i, 1) => Absent(f, h, i, 2)
  <2>1. Len(chan[i][h]) \in Nat
    BY <1>4
  <2>2. \A j \in 2..Len(chan[i][h]) : j \in 1..Len(chan[i][h])
    BY <2>1
  <2> QED
    BY <2>2 DEF Absent
<1>13. Inbound(h, i)'
  <2>1. \A f \in oms[h] \cup {e} : Absent(f, h, i, 1)'
    BY <1>2, <1>10, <1>11, <1>12 DEF Receiving
  <2>2. due'[h] = Cardinality(Owed(h, i) \ (oms[h] \cup {e}))
    <3> PICK S : S = Owed(h, i) \ oms[h]
      OBVIOUS
    <3>1. e \in S /\ IsFiniteSet(S)
      <4>1. S \subseteq Elem
        BY <1>4, HostsType DEF Owed
      <4> QED
        BY <1>10, <4>1, FS_Subset, HostsAssumption
    <3>2. Cardinality(S \ {e}) = Cardinality(S) - 1
      BY <3>1, SizeWithout
    <3>3. Owed(h, i) \ (oms[h] \cup {e}) = S \ {e}
      OBVIOUS
    <3>4. due[h] = Cardinality(S)
      BY <1>2 DEF Receiving
    <3> QED
      BY <1>5, <3>2, <3>3, <3>4
  <2>3. Receiving(h, i)'
    BY <1>2, <1>5, <1>7, <1>10, <1>11, <2>1, <2>2 DEF Receiving
  <2> QED
    BY <1>7, <2>3 DEF Inbound
<1>14. Inbound(g, i)'
  <2>1. Inbound(g, i)' = Inbound(g, i)
    BY <1>3, <1>5, <1>7, <1>8, StreamFrame
  <2> QED
    BY <1>9, <2>1
<1>15. Outbound(h, i)'
  BY <1>1, <1>7 DEF Outbound
<1>16. Outbound(g, i)'
  <2>1. Before(h, i) + 1 = 1 /\ (Before(h, i) + 1)' = 1
    BY <1>2, <1>7 DEF Before
  <2>2. Place(g, i) \notin {"awaitVerdict", "awaitDeltas"}
    BY <1>1, <1>2, <1>9 DEF Outbound
  <2>3. Place(g, i) = "strings" => toSend[g] \subseteq Unsent(h, i, 1)
    BY <1>2, <1>9, <2>1 DEF Outbound
  <2>4. \A f : Absent(f, h, i, 1) => f # e
    <3>1. 1 \in 1..Len(chan[i][h]) /\ chan[i][h][1].elem = e
      BY <1>1, <1>4, TailFacts
    <3> QED
      BY <3>1 DEF Absent
  <2>5. Unsent(h, i, 1) \subseteq Unsent(h, i, 1)'
    BY <1>2, <1>5, <1>7, <1>11, <1>12, <2>4 DEF Unsent
  <2> QED
    BY <1>1, <1>7, <2>1, <2>2, <2>3, <2>5 DEF Outbound
<1>17. Round(i)'
  <2>1. Found(i)'
    BY <1>1, <1>2, <1>7, <1>13, <1>14, <1>15, <1>16 DEF Found, At, Hosts, history
  <2> QED
    BY <1>2, <1>7, <2>1 DEF Round
<1>18. Host(h)'
  BY <1>1, <1>2, <1>7 DEF Host, Unstarted, Early, Open, Outcome, history
<1> QED
  BY <1>7, <1>17, <1>18 DEF Link, Hosts

\* With no string due, a host holds all that it was owed.
LEMMA StringsFinished ==
    ASSUME TypeOK, Matched, Link, NEW h \in Hosts, StringsDone(h)
    PROVE  Link'
<1> PICK g \in Hosts, i \in Rounds :
        g = Other(h) /\ h = Other(g) /\ h # g /\ i = comm[h]
  BY StepTypes DEF Hosts, Other
<1>1. /\ pc[h] = "strings" /\ toSend[h] = {} /\ due[h] = 0
      /\ pc' = [pc EXCEPT ![h] = "post"]
      /\ UNCHANGED <<data, comm, chan, oms, result, history, agent, currDiff, otherSet,
                     recvMeta, toSend, due>>
  BY DEF StringsDone, StringsComplete, Goto, agentVars
<1>2. /\ Place(h, i) = "strings" /\ ~A.oneWay /\ Found(i) /\ A.hashQ
      /\ Receiving(h, i) /\ Host(h)
  BY <1>1, StringPhase
<1>3. chan[i][h] \in Seq(Message) /\ base[i] \in [Hosts -> SUBSET Elem]
  BY StepTypes
<1>4. Local(h, "post")
  BY <1>1 DEF Local, history
<1>5. /\ A' = A /\ First' = First /\ pc'[h] = "post"
      /\ Place(h, i)' = "post" /\ Place(g, i)' = Place(g, i)
      /\ \A j \in Rounds \ {i} : Round(j)'
      /\ Host(g)'
  BY <1>1, <1>4, LocalStep
<1>6. base'[i] = base[i] /\ UNCHANGED agent
  BY <1>1 DEF history
<1>7. /\ Place(g, i) \in {"awaitVerdict", "awaitDeltas", "strings", "post", "quit"}
      /\ Inbound(h, i) /\ Outbound(h, i) /\ Inbound(g, i) /\ Outbound(g, i)
  BY <1>2 DEF Found, At, Hosts
<1>8. oms[h] = Owed(h, i)
  <2>1. IsFiniteSet(Owed(h, i) \ oms[h])
    <3>1. Owed(h, i) \ oms[h] \subseteq Elem
      BY <1>3, HostsType DEF Owed
    <3> QED
      BY <3>1, FS_Subset, HostsAssumption
  <2>2. Cardinality(Owed(h, i) \ oms[h]) = 0
    BY <1>1, <1>2 DEF Receiving
  <2>3. Owed(h, i) \ oms[h] = {}
    BY <2>1, <2>2, FS_EmptySet
  <2> QED
    BY <1>2, <2>3 DEF Receiving
<1>9. chan[i][h] = <<>>
  <2> SUFFICES ASSUME chan[i][h] # <<>> PROVE FALSE
    OBVIOUS
  <2>1. 1 \in 1..Len(chan[i][h])
    BY <1>3, TailFacts
  <2>2. chan[i][h][1].elem \in Owed(h, i)
    BY <1>2, <2>1 DEF Receiving, Strings
  <2>3. chan[i][h][1].elem \notin oms[h]
    BY <1>2, <2>1 DEF Receiving, Absent
  <2> QED
    BY <1>8, <2>2, <2>3
<1>10. Inbound(h, i)'
  BY <1>1, <1>5, <1>9 DEF Inbound
<1>11. Owed(h, i)' = Owed(h, i) /\ Inbound(g, i)'
  <2>1. Inbound(g, i)' = Inbound(g, i)
    BY <1>1, <1>5, <1>6, StreamFrame
  <2> QED
    BY <1>6, <1>7, <2>1 DEF Owed
<1>12. Outbound(h, i)'
  BY <1>5 DEF Outbound
<1>13. Outbound(g, i)'
  <2>1. Place(g, i) = "strings" => toSend[g] = {}
    <3>1. Place(g, i) = "strings" => toSend[g] \subseteq Unsent(h, i, Before(h, i) + 1)
      BY <1>2, <1>7 DEF Outbound
    <3>2. Unsent(h, i, Before(h, i) + 1) = {}
      BY <1>2, <1>8 DEF Unsent
    <3> QED
      BY <3>1, <3>2
  <2>2. Place(g, i) \in {"awaitVerdict", "awaitDeltas"} => Owed(h, i) = {}
    BY <1>2, <1>7, <1>8 DEF Outbound
  <2> QED
    BY <1>1, <1>5, <1>11, <2>1, <2>2 DEF Outbound
<1>14. Round(i)'
  <2>1. Found(i)'
    BY <1>1, <1>2, <1>5, <1>10, <1>11, <1>12, <1>13 DEF Found, At, Hosts, history
  <2> QED
    BY <1>2, <1>5, <2>1 DEF Round
<1>15. Host(h)'
  <2>1. Outcome(h)'
    BY <1>1, <1>2, <1>8, <1>11 DEF Found, Host, Outcome, history
  <2> QED
    BY <1>1, <1>2, <1>5, <2>1 DEF Host, Unstarted, Early, Open, history
<1> QED
  BY <1>5, <1>14, <1>15 DEF Link, Hosts

(***************************************************************************)
(* The server's steps.                                                     *)
(***************************************************************************)
LEMMA ServerBegins ==
    ASSUME TypeOK, Matched, Link, ServerBegin
    PROVE  Link'
<1> PICK h \in Hosts, c \in Hosts, i \in Rounds :
        h = "server" /\ c = "client" /\ c = Other(h) /\ h # c /\ i = comm[h]
  BY StepTypes DEF Hosts, Other
<1> DEFINE label == IF A.keepAlive THEN "recvEvals" ELSE "listening"
<1>1. /\ currDiff' = [currDiff EXCEPT ![h] = First]
      /\ oms' = [oms EXCEPT ![h] = {}] /\ result' = [result EXCEPT ![h] = TRUE]
      /\ pc[h] = "begin" /\ pc' = [pc EXCEPT ![h] = label]
      /\ UNCHANGED <<data, comm, chan, history, agent, otherSet, recvMeta, toSend, due>>
  <2>1. agent[h] = A /\ StartDiff(agent[h], currDiff[h]) = First
    BY StartsFirst, StepTypes
  <2> QED
    BY <2>1 DEF ServerBegin, Goto
<1> HIDE DEF label
<1>2. label \in {"recvEvals", "listening"} /\ (label = "listening" <=> ~A.keepAlive)
  BY DEF label
<1>3. Local(h, label)
  BY <1>1, <1>2, StepTypes DEF Local, history
<1>4. /\ A' = A /\ First' = First
      /\ Place(h, i) = "begin" /\ Place(h, i)' = label /\ Place(c, i)' = Place(c, i)
      /\ pc'[h] = label
      /\ \A j \in Rounds \ {i} : Round(j)'
      /\ Host(c)'
  BY <1>1, <1>3, LocalStep
<1>5. Round(i) /\ Host(h)
  BY DEF Link
<1>6. verdict[i] = "none" /\ verdict'[i] = "none"
  BY <1>1, <1>4, <1>5, ServerPhases DEF history
<1>7. Idle(i) => Idle(i)'
  BY <1>1, <1>2, <1>4 DEF Idle, At, Carries
<1>8. EvalsMsg' = EvalsMsg /\ currDiff'[c] = currDiff[c]
  BY <1>1, <1>4, StepTypes DEF EvalsMsg
<1>9. Round(i)'
  <2>1. CASE A.oneWay
    <3>1. Idle(i) \/ Said(i)
      BY <1>4, <1>5, <2>1, ServerPhases
    <3>2. Said(i) => Said(i)'
      BY <1>1, <1>2, <1>4, <1>6, <1>8 DEF Said
    <3> QED
      BY <1>4, <1>6, <1>7, <2>1, <3>1, <3>2 DEF Round
  <2>2. CASE ~A.oneWay
    <3>1. Idle(i) \/ EvalsSent(i)
      BY <1>4, <1>5, <2>2, ServerPhases
    <3>2. EvalsSent(i) => EvalsSent(i)'
      BY <1>1, <1>2, <1>4, <1>8 DEF EvalsSent, At, Carries
    <3> QED
      BY <1>4, <1>6, <1>7, <2>2, <3>1, <3>2 DEF Round, Undecided
  <2> QED
    BY <2>1, <2>2
<1>10. Host(h)'
  <2>1. currDiff'[h] = First /\ oms'[h] = {} /\ result'[h] = TRUE
    BY <1>1, StepTypes
  <2>2. ~A.prob => First = A.mbar
    BY DEF First, StartDiff
  <2> QED
    BY <1>1, <1>2, <1>4, <1>6, <2>1, <2>2 DEF Host, Unstarted, Early, Open
<1> QED
  BY <1>4, <1>9, <1>10 DEF Link, Hosts

\* The modulus arrives: it is the server's own.
LEMMA ServerTakesMod ==
    ASSUME TypeOK, Matched, Link, ServerMod
    PROVE  Link'
<1> PICK h \in Hosts, c \in Hosts, i \in Rounds :
        h = "server" /\ c = "client" /\ c = Other(h) /\ h # c /\ i = comm[h]
  BY StepTypes DEF Hosts, Other
<1>1. /\ pc[h] = "recvMod" /\ chan[i][h] # <<>>
      /\ IF ~A.oneWay THEN Answer(h, <<Flag(Head(chan[i][h]).token = A.mod)>>) ELSE Receive(h)
      /\ IF Head(chan[i][h]).token = A.mod THEN Goto(h, "recvParams") ELSE Quit(h)
      /\ UNCHANGED <<data, comm, oms, result, history, agent, currDiff,
                     otherSet, recvMeta, toSend, due>>
  BY StepTypes DEF ServerMod, ServerHandshake, Receives, Incoming, agentVars, Replies
<1>2. Place(h, i) = "recvMod" /\ Round(i) /\ Host(h)
  BY <1>1, Here DEF Link
<1>3. /\ verdict[i] = "none"
      /\ IF A.oneWay THEN Said(i) /\ chan[i][h] = <<ModMsg, ParamsMsg, EvalsMsg>>
                     ELSE ModSent(i) /\ chan[i][h] = <<ModMsg>>
      /\ chan[i][c] = <<>>
  BY <1>1, <1>2, ServerPhases DEF Said, ModSent, Carries
<1>4. /\ pc' = [pc EXCEPT ![h] = "recvParams"]
      /\ IF ~A.oneWay THEN Answer(h, <<Flag(TRUE)>>) ELSE Receive(h)
  <2>1. Head(chan[i][h]).token = A.mod
    BY <1>3 DEF ModMsg
  <2>2. (Head(chan[i][h]).token = A.mod) = TRUE
    BY <2>1
  <2> QED
    BY <1>1, <2>1, <2>2 DEF Goto
<1>5. /\ chan'[i][h] = IF A.oneWay THEN <<ParamsMsg, EvalsMsg>> ELSE <<>>
      /\ chan'[i][c] = IF A.oneWay THEN <<>> ELSE <<Flag(TRUE)>>
      /\ \A j \in Rounds \ {i} : chan'[j] = chan[j]
  <2>1. CASE A.oneWay
    <3>1. /\ chan'[comm[h]][h] = Tail(chan[comm[h]][h])
          /\ chan'[comm[h]][Other(h)] = chan[comm[h]][Other(h)]
          /\ \A j \in Rounds \ {comm[h]} : chan'[j] = chan[j]
      BY <1>4, <2>1, ReceiveStreams
    <3>2. Tail(<<ModMsg, ParamsMsg, EvalsMsg>>) = <<ParamsMsg, EvalsMsg>>
      OBVIOUS
    <3> QED
      BY <1>3, <2>1, <3>1, <3>2
  <2>2. CASE ~A.oneWay
    <3>1. Answer(h, <<Flag(TRUE)>>)
      BY <1>4, <2>2
    <3>2. /\ chan'[comm[h]][h] = Tail(chan[comm[h]][h])
          /\ chan'[comm[h]][Other(h)] = chan[comm[h]][Other(h)] \o <<Flag(TRUE)>>
          /\ \A j \in Rounds \ {comm[h]} : chan'[j] = chan[j]
      BY <3>1, AnswerStreams
    <3>3. Tail(<<ModMsg>>) = <<>> /\ <<>> \o <<Flag(TRUE)>> = <<Flag(TRUE)>>
      BY Singles
    <3> QED
      BY <1>3, <2>2, <3>2, <3>3
  <2> QED
    BY <2>1, <2>2
<1>6. Local(h, "recvParams")
  BY <1>1, <1>4, <1>5 DEF Local, history
<1>7. /\ A' = A /\ First' = First
      /\ Place(h, i)' = "recvParams" /\ Place(c, i)' = Place(c, i) /\ pc'[h] = "recvParams"
      /\ \A j \in Rounds \ {i} : Round(j)'
      /\ Host(c)'
  BY <1>1, <1>6, LocalStep
<1>8. Round(i)'
  <2>1. CASE A.oneWay
    <3>1. ParamsMsg' = ParamsMsg /\ EvalsMsg' = EvalsMsg
      BY <1>1, <1>7 DEF ParamsMsg, EvalsMsg
    <3>2. Said(i)'
      BY <1>1, <1>3, <1>5, <1>7, <2>1, <3>1 DEF Said, history
    <3> QED
      BY <1>7, <2>1, <3>2 DEF Round
  <2>2. CASE ~A.oneWay
    <3>1. ModFine(i)'
      BY <1>3, <1>5, <1>7, <2>2 DEF ModSent, ModFine, At, Carries, Flag
    <3> QED
      BY <1>1, <1>3, <1>7, <2>2, <3>1 DEF Round, Undecided, history
  <2> QED
    BY <2>1, <2>2
<1>9. Host(h)'
  BY <1>1, <1>2, <1>3, <1>7 DEF Host, Unstarted, Early, Open, history
<1> QED
  BY <1>7, <1>8, <1>9 DEF Link, Hosts

\* So are the other parameters.
LEMMA ServerTakesParams ==
    ASSUME TypeOK, Matched, Link, ServerParams
    PROVE  Link'
<1> PICK h \in Hosts, c \in Hosts, i \in Rounds :
        h = "server" /\ c = "client" /\ c = Other(h) /\ h # c /\ i = comm[h]
  BY StepTypes DEF Hosts, Other
<1>1. /\ pc[h] = "recvParams" /\ chan[i][h] # <<>>
      /\ IF ~A.oneWay THEN Answer(h, <<Flag(Head(chan[i][h]).token = A.par)>>) ELSE Receive(h)
      /\ IF Head(chan[i][h]).token = A.par THEN Goto(h, "recvEvals") ELSE Quit(h)
      /\ UNCHANGED <<data, comm, oms, result, history, agent, currDiff,
                     otherSet, recvMeta, toSend, due>>
  BY StepTypes DEF ServerParams, ServerHandshake, Receives, Incoming, agentVars, Replies
<1>2. Place(h, i) = "recvParams" /\ Round(i) /\ Host(h)
  BY <1>1, Here DEF Link
<1>3. /\ verdict[i] = "none"
      /\ IF A.oneWay THEN Said(i) /\ chan[i][h] = <<ParamsMsg, EvalsMsg>>
                     ELSE ParamsSent(i) /\ chan[i][h] = <<ParamsMsg>>
      /\ chan[i][c] = <<>>
  BY <1>1, <1>2, ServerPhases DEF Said, ModFine, ParamsSent, Carries
<1>4. /\ pc' = [pc EXCEPT ![h] = "recvEvals"]
      /\ IF ~A.oneWay THEN Answer(h, <<Flag(TRUE)>>) ELSE Receive(h)
  <2>1. Head(chan[i][h]).token = A.par
    BY <1>3 DEF ParamsMsg
  <2>2. (Head(chan[i][h]).token = A.par) = TRUE
    BY <2>1
  <2> QED
    BY <1>1, <2>1, <2>2 DEF Goto
<1>5. /\ chan'[i][h] = IF A.oneWay THEN <<EvalsMsg>> ELSE <<>>
      /\ chan'[i][c] = IF A.oneWay THEN <<>> ELSE <<Flag(TRUE)>>
      /\ \A j \in Rounds \ {i} : chan'[j] = chan[j]
  <2>1. CASE A.oneWay
    <3>1. /\ chan'[comm[h]][h] = Tail(chan[comm[h]][h])
          /\ chan'[comm[h]][Other(h)] = chan[comm[h]][Other(h)]
          /\ \A j \in Rounds \ {comm[h]} : chan'[j] = chan[j]
      BY <1>4, <2>1, ReceiveStreams
    <3>2. Tail(<<ParamsMsg, EvalsMsg>>) = <<EvalsMsg>>
      OBVIOUS
    <3> QED
      BY <1>3, <2>1, <3>1, <3>2
  <2>2. CASE ~A.oneWay
    <3>1. Answer(h, <<Flag(TRUE)>>)
      BY <1>4, <2>2
    <3>2. /\ chan'[comm[h]][h] = Tail(chan[comm[h]][h])
          /\ chan'[comm[h]][Other(h)] = chan[comm[h]][Other(h)] \o <<Flag(TRUE)>>
          /\ \A j \in Rounds \ {comm[h]} : chan'[j] = chan[j]
      BY <3>1, AnswerStreams
    <3>3. Tail(<<ParamsMsg>>) = <<>> /\ <<>> \o <<Flag(TRUE)>> = <<Flag(TRUE)>>
      BY Singles
    <3> QED
      BY <1>3, <2>2, <3>2, <3>3
  <2> QED
    BY <2>1, <2>2
<1>6. Local(h, "recvEvals")
  BY <1>1, <1>4, <1>5 DEF Local, history
<1>7. /\ A' = A /\ First' = First
      /\ Place(h, i)' = "recvEvals" /\ Place(c, i)' = Place(c, i) /\ pc'[h] = "recvEvals"
      /\ \A j \in Rounds \ {i} : Round(j)'
      /\ Host(c)'
  BY <1>1, <1>6, LocalStep
<1>8. Round(i)'
  <2>1. CASE A.oneWay
    <3>1. EvalsMsg' = EvalsMsg
      BY <1>1, <1>7 DEF EvalsMsg
    <3>2. Said(i)'
      BY <1>1, <1>3, <1>5, <1>7, <2>1, <3>1 DEF Said, history
    <3> QED
      BY <1>7, <2>1, <3>2 DEF Round
  <2>2. CASE ~A.oneWay
    <3>1. ParamsFine(i)'
      BY <1>3, <1>5, <1>7, <2>2 DEF ParamsSent, ParamsFine, At, Carries, Flag
    <3> QED
      BY <1>1, <1>3, <1>7, <2>2, <3>1 DEF Round, Undecided, history
  <2> QED
    BY <2>1, <2>2
<1>9. Host(h)'
  BY <1>1, <1>2, <1>3, <1>7 DEF Host, Unstarted, Early, Open, history
<1> QED
  BY <1>7, <1>8, <1>9 DEF Link, Hosts

\* The evaluations at consecutive points, taken together.
LEMMA MorePointsFollow ==
    ASSUME NEW a \in Nat, NEW b \in Nat
    PROVE  /\ Points(0, a) \o Points(a, b) = Points(0, a + b)
           /\ Len(Points(0, a)) = a /\ Aligned(Points(0, a), a)
<1>1. Len(Points(0, a)) = a /\ Aligned(Points(0, a), a)
  BY DEF Points, Aligned
<1>2. Points(0, a) \in Seq(Int) /\ Points(a, b) \in Seq(Int) /\ Points(0, a + b) \in Seq(Int)
  BY DEF Points
<1>3. Len(Points(a, b)) = b /\ Len(Points(0, a + b)) = a + b
  BY DEF Points
<1>4. ASSUME NEW j \in 1..(a + b)
      PROVE  (Points(0, a) \o Points(a, b))[j] = Points(0, a + b)[j]
  BY <1>1, <1>2, <1>3 DEF Points
<1>5. Points(0, a) \o Points(a, b) \in Seq(Int) /\ Len(Points(0, a) \o Points(a, b)) = a + b
  BY <1>1, <1>2, <1>3
<1>6. Points(0, a) \o Points(a, b) = Points(0, a + b)
  BY <1>2, <1>3, <1>4, <1>5, SeqEqual
<1> QED
  BY <1>1, <1>6

\* The set size and the first evaluations arrive.
LEMMA ServerTakesEvals ==
    ASSUME TypeOK, Matched, Link, ServerEvals
    PROVE  Link'
<1> PICK h \in Hosts, c \in Hosts, i \in Rounds :
        h = "server" /\ c = "client" /\ c = Other(h) /\ h # c /\ i = comm[h]
  BY StepTypes DEF Hosts, Other
<1>1. /\ pc[h] = "recvEvals" /\ chan[i][h] # <<>> /\ Receive(h)
      /\ otherSet' = Head(chan[i][h]).set /\ recvMeta' = Head(chan[i][h]).pts
      /\ pc' = [pc EXCEPT ![h] = "attempt"]
      /\ UNCHANGED <<data, comm, oms, result, history, agent, currDiff, toSend, due>>
  BY DEF ServerEvals, Receives, Incoming, Goto
<1>2. Place(h, i) = "recvEvals" /\ Round(i) /\ Host(h)
  BY <1>1, Here DEF Link
<1>3. /\ verdict[i] = "none" /\ chan[i][h] = <<EvalsMsg>> /\ chan[i][c] = <<>>
      /\ IF A.oneWay THEN Said(i) ELSE EvalsSent(i)
  BY <1>1, <1>2, ServerPhases DEF Said, Idle, ParamsFine, EvalsSent, Carries
<1>4. /\ chan'[i][h] = <<>> /\ chan'[i][c] = <<>>
      /\ \A j \in Rounds \ {i} : chan'[j] = chan[j]
  <2>1. /\ chan'[comm[h]][h] = Tail(chan[comm[h]][h])
        /\ chan'[comm[h]][Other(h)] = chan[comm[h]][Other(h)]
        /\ \A j \in Rounds \ {comm[h]} : chan'[j] = chan[j]
    BY <1>1, ReceiveStreams
  <2>2. Tail(<<EvalsMsg>>) = <<>>
    BY Singles
  <2> QED
    BY <1>3, <2>1, <2>2
<1>5. Local(h, "attempt")
  BY <1>1, <1>4 DEF Local, history
<1>6. /\ A' = A /\ First' = First
      /\ Place(h, i)' = "attempt" /\ Place(c, i)' = Place(c, i) /\ pc'[h] = "attempt"
      /\ \A j \in Rounds \ {i} : Round(j)'
      /\ Host(c)'
  BY <1>1, <1>5, LocalStep
<1>7. currDiff[h] = First
  BY <1>1, <1>2 DEF Host, Early
<1>8. Holding'
  <2>1. otherSet' = data[c] /\ recvMeta' = Points(0, First + A.k)
    BY <1>1, <1>3 DEF EvalsMsg, FirstPoints
  <2> QED
    BY <1>1, <1>6, <1>7, <2>1 DEF Holding
<1>9. Round(i)'
  <2>1. CASE A.oneWay
    <3>1. Said(i)'
      BY <1>1, <1>3, <1>4, <1>6, <1>8, <2>1 DEF Said, history
    <3> QED
      BY <1>6, <2>1, <3>1 DEF Round
  <2>2. CASE ~A.oneWay
    <3>1. Attempted(i)'
      BY <1>1, <1>3, <1>4, <1>6, <1>7, <1>8, <2>2 DEF EvalsSent, Attempted, At, Carries
    <3> QED
      BY <1>1, <1>3, <1>6, <2>2, <3>1 DEF Round, Undecided, history
  <2> QED
    BY <2>1, <2>2
<1>10. Host(h)'
  BY <1>1, <1>2, <1>3, <1>6 DEF Host, Unstarted, Early, Open, history
<1> QED
  BY <1>6, <1>9, <1>10 DEF Link, Hosts

\* The evaluations of the next attempt arrive where the last ones ended.
LEMMA ServerTakesMore ==
    ASSUME TypeOK, Matched, Link, ServerMore
    PROVE  Link'
<1> PICK h \in Hosts, c \in Hosts, i \in Rounds :
        h = "server" /\ c = "client" /\ c = Other(h) /\ h # c /\ i = comm[h]
  BY StepTypes DEF Hosts, Other
<1>1. /\ pc[h] = "recvMore" /\ chan[i][h] # <<>> /\ Receive(h)
      /\ recvMeta' = recvMeta \o Head(chan[i][h]).pts
      /\ currDiff' = [currDiff EXCEPT ![h] = NextDiff(A, currDiff[h])]
      /\ pc' = [pc EXCEPT ![h] = "attempt"]
      /\ UNCHANGED <<data, comm, oms, result, history, agent, otherSet, toSend, due>>
  BY StepTypes DEF ServerMore, Receives, Incoming, Goto
<1>2. Place(h, i) = "recvMore" /\ Round(i) /\ Host(h)
  BY <1>1, Here DEF Link
<1>3. /\ verdict[i] = "none" /\ ~A.oneWay /\ MoreSent(i)
      /\ chan[i][h] = <<MoreMsg(currDiff[h])>> /\ chan[i][c] = <<>>
  BY <1>1, <1>2, ServerPhases DEF Said, Idle, Refused, MoreSent, Carries
<1>4. /\ chan'[i][h] = <<>> /\ chan'[i][c] = <<>>
      /\ \A j \in Rounds \ {i} : chan'[j] = chan[j]
  <2>1. /\ chan'[comm[h]][h] = Tail(chan[comm[h]][h])
        /\ chan'[comm[h]][Other(h)] = chan[comm[h]][Other(h)]
        /\ \A j \in Rounds \ {comm[h]} : chan'[j] = chan[j]
    BY <1>1, ReceiveStreams
  <2>2. Tail(<<MoreMsg(currDiff[h])>>) = <<>>
    BY Singles
  <2> QED
    BY <1>3, <2>1, <2>2
<1>5. Local(h, "attempt")
  BY <1>1, <1>4, StepTypes DEF Local, history
<1>6. /\ A' = A /\ First' = First
      /\ Place(h, i)' = "attempt" /\ Place(c, i)' = Place(c, i) /\ pc'[h] = "attempt"
      /\ \A j \in Rounds \ {i} : Round(j)'
      /\ Host(c)'
  <2>1. /\ A' = A /\ First' = First
        /\ Place(h, i)' = "attempt" /\ pc'[h] = "attempt"
        /\ \A g \in Hosts \ {h} : Place(g, i)' = Place(g, i)
        /\ \A j \in Rounds \ {i} : Round(j)'
        /\ UNCHANGED history => \A g \in Hosts \ {h} : Host(g)'
    BY <1>5, LocalStep
  <2>2. c \in Hosts \ {h} /\ UNCHANGED history
    BY <1>1
  <2> QED
    BY <2>1, <2>2, Zenon
<1>7. /\ currDiff'[h] = NextDiff(A, currDiff[h]) /\ currDiff'[c] = currDiff[c]
      /\ currDiff[c] = NextDiff(A, currDiff[h])
  BY <1>1, <1>3, StepTypes DEF MoreSent
<1>8. Holding'
  <2> PICK m \in Nat \ {0} : m = currDiff[h] /\ m <= A.mbar
    BY StepTypes
  <2>1. A.k \in Nat \ {0} /\ A.mbar \in Nat \ {0}
    BY SameAgents DEF AgentType
  <2>2. Head(chan[i][h]).pts = MorePoints(A, m)
    BY <1>3 DEF MoreMsg
  <2>3. recvMeta = Points(0, m + A.k)
    BY <1>3 DEF MoreSent, Holding
  <2>4. MorePoints(A, m) = Points(m + A.k, Least(m, A.mbar - m))
    BY DEF MorePoints
  <2>5. /\ Least(m, A.mbar - m) \in Nat
        /\ m + A.k + Least(m, A.mbar - m) = NextDiff(A, m) + A.k
    BY <2>1 DEF Least, NextDiff
  <2>6. recvMeta' = Points(0, NextDiff(A, m) + A.k)
    <3>1. m + A.k \in Nat
      BY <2>1
    <3>2. Points(0, m + A.k) \o Points(m + A.k, Least(m, A.mbar - m))
             = Points(0, m + A.k + Least(m, A.mbar - m))
      BY <2>5, <3>1, MorePointsFollow
    <3> QED
      BY <1>1, <2>2, <2>3, <2>4, <2>5, <3>2
  <2>7. otherSet = data[c]
    BY <1>3 DEF MoreSent, Holding
  <2> QED
    BY <1>1, <1>6, <1>7, <2>6, <2>7 DEF Holding
<1>9. Round(i)'
  <2>1. Attempted(i)'
    BY <1>1, <1>3, <1>4, <1>6, <1>7, <1>8 DEF MoreSent, Attempted, At, Carries
  <2> QED
    BY <1>1, <1>3, <1>6, <2>1 DEF Round, Undecided, history
<1>10. Host(h)'
  <2>1. A.prob
    BY <1>3 DEF MoreSent, GivesUp
  <2> QED
    BY <1>1, <1>2, <1>3, <1>6, <2>1 DEF Host, Unstarted, Early, Open, history
<1> QED
  BY <1>6, <1>9, <1>10 DEF Link, Hosts

\* The server decides while the client waits for it, or is gone, or does not care.
LEMMA DecisionSeen ==
    ASSUME TypeOK, Matched, Link, NEW v, Decide(v), pc["server"] = "attempt",
           UNCHANGED <<data, comm, agent>>,
           pc'["client"] = pc["client"], currDiff'["client"] = currDiff["client"],
           oms'["client"] = oms["client"], result'["client"] = result["client"]
    PROVE  /\ Host("client")'
           /\ \A i \in Rounds \ {comm["server"]} : verdict'[i] = verdict[i] /\ base'[i] = base[i]
           /\ verdict'[comm["server"]] = v /\ base'[comm["server"]] = data
<1> PICK c \in Hosts, s \in Hosts, i \in Rounds :
        c = "client" /\ s = "server" /\ c # s /\ i = comm[s]
  BY StepTypes DEF Hosts
<1>1. /\ \A j \in Rounds \ {i} : verdict'[j] = verdict[j] /\ base'[j] = base[j]
      /\ verdict'[i] = v /\ base'[i] = data
  BY StepTypes DEF Decide, TypeOK, HostsTypeOK
<1>2. Host(c) /\ Round(i)
  BY DEF Link
<1>3. Host(c)'
  <2>1. CASE comm[c] # i
    <3>1. comm[c] \in Rounds \ {i}
      BY <2>1, StepTypes
    <3>2. verdict'[comm[c]] = verdict[comm[c]] /\ base'[comm[c]] = base[comm[c]]
      BY <1>1, <3>1
    <3> QED
      BY <1>2, <3>2, HostFrame
  <2>2. CASE comm[c] = i
    <3>1. Place(s, i) = "attempt"
      BY Here
    <3>2. pc[c] = "post" => A.oneWay
      <4>1. pc[c] = "post" => Place(c, i) = "post"
        BY <2>2, Here
      <4>2. ~A.oneWay => Place(c, i) # "post"
        BY <1>2, <3>1, ServerPhases DEF Attempted, At
      <4> QED
        BY <4>1, <4>2
    <3>3. A' = A /\ First' = First /\ comm'[c] = i /\ base'[i][c] = data'[c]
      BY <1>1, <2>2 DEF A, First
    <3> QED
      BY <1>2, <3>2, <3>3 DEF Host
  <2> QED
    BY <2>1, <2>2
<1> QED
  BY <1>1, <1>3

\* An attempt that covers every difference allowed fails only for one of two reasons.
LEMMA FailureExcused ==
    ASSUME TypeOK, Matched, Holding, ~AttemptSucceeds, currDiff["server"] = A.mbar,
           NEW i, base'[i] = data, UNCHANGED agent
    PROVE  Excuse(i)'
<1> PICK m \in Nat, T \in SUBSET Elem, M \in SUBSET Elem :
        m = A.mbar /\ T = data["client"] /\ M = data["server"]
  <2>1. A.mbar \in Nat
    BY SameAgents DEF AgentType
  <2> QED
    BY <2>1, StepTypes, HostsType
<1>1. ~Reconciles(m, T, M)
  <2>1. m + A.k \in Nat
    BY SameAgents DEF AgentType
  <2>2. Aligned(Points(0, m + A.k), m + A.k)
    <3>1. 0 \in Nat
      OBVIOUS
    <3> QED
      BY <2>1, <3>1, MorePointsFollow
  <2>3. Aligned(recvMeta, currDiff["server"] + agent["server"].k)
    BY <2>2 DEF Holding, A
  <2> QED
    BY <2>3 DEF AttemptSucceeds, Holding
<1>2. base'[i]["client"] = T /\ base'[i]["server"] = M /\ A' = A
  BY DEF A
<1>3. CASE M = {}
  BY <1>1, <1>2, <1>3 DEF Reconciles, Excuse
<1>4. CASE M # {}
  <2>1. ~Interpolates(m, T, M)
    BY <1>1, <1>4 DEF Reconciles
  <2>2. IsFiniteSet(T) /\ IsFiniteSet(M)
    BY FS_Subset, HostsAssumption
  <2>3. ~(Cardinality(T \ M) + Cardinality(M \ T) <= m)
    BY <2>1, <2>2, EnoughPoints
  <2>4. /\ IsFiniteSet(T \ M) /\ IsFiniteSet(M \ T)
        /\ Cardinality(T \ M) \in Nat /\ Cardinality(M \ T) \in Nat
    BY <2>2, FS_Difference, SizeDifference
  <2>5. Cardinality((T \ M) \cup (M \ T)) = Cardinality(T \ M) + Cardinality(M \ T)
    <3>1. Cardinality((T \ M) \cup (M \ T))
            = Cardinality(T \ M) + Cardinality(M \ T) - Cardinality((T \ M) \cap (M \ T))
      BY <2>4, FS_Union
    <3>2. (T \ M) \cap (M \ T) = {}
      OBVIOUS
    <3>3. Cardinality((T \ M) \cap (M \ T)) = 0
      BY <3>2, FS_EmptySet
    <3> QED
      BY <2>4, <3>1, <3>3
  <2>6. Cardinality((T \ M) \cup (M \ T)) > m
    BY <2>3, <2>4, <2>5
  <2>7. Differences(i)' = (T \ M) \cup (M \ T)
    BY <1>2 DEF Differences
  <2> QED
    BY <1>2, <2>6, <2>7 DEF Excuse
<1> QED
  BY <1>3, <1>4

\* A failed attempt: the last one, or another follows.
LEMMA ServerRefuses ==
    ASSUME TypeOK, Matched, Link, ServerFails
    PROVE  Link'
<1> PICK h \in Hosts, c \in Hosts, i \in Rounds :
        h = "server" /\ c = "client" /\ c = Other(h) /\ h # c /\ i = comm[h]
  BY StepTypes DEF Hosts, Other
<1>1. /\ pc[h] = "attempt" /\ ~AttemptSucceeds
      /\ IF ~A.oneWay THEN Send(h, <<Flag(FALSE)>>) ELSE UNCHANGED chan
      /\ \/ /\ GivesUp(A, currDiff[h]) /\ pc' = [pc EXCEPT ![h] = "post"]
            /\ result' = [result EXCEPT ![h] = FALSE] /\ Decide("fail")
         \/ /\ ~GivesUp(A, currDiff[h]) /\ pc' = [pc EXCEPT ![h] = "recvMore"]
            /\ UNCHANGED <<result, history>>
      /\ UNCHANGED <<data, comm, oms, agent, currDiff, otherSet, recvMeta, toSend, due>>
  BY StepTypes DEF ServerFails, Replies, FailureReply, Goto, agentVars
<1>2. Place(h, i) = "attempt" /\ Round(i) /\ Host(h)
  BY <1>1, Here DEF Link
<1>3. /\ verdict[i] = "none" /\ chan[i][h] = <<>> /\ chan[i][c] = <<>> /\ Holding
      /\ IF A.oneWay THEN Said(i) ELSE Attempted(i)
  BY <1>1, <1>2, ServerPhases DEF Said, Idle, Attempted, Carries
<1>4. /\ chan'[i][h] = <<>>
      /\ chan'[i][c] = IF A.oneWay THEN <<>> ELSE <<Flag(FALSE)>>
      /\ \A j \in Rounds \ {i} : chan'[j] = chan[j]
  <2>1. CASE A.oneWay
    BY <1>1, <1>3, <2>1
  <2>2. CASE ~A.oneWay
    <3>1. Send(h, <<Flag(FALSE)>>)
      BY <1>1, <2>2
    <3>2. /\ chan'[comm[h]][h] = chan[comm[h]][h]
          /\ chan'[comm[h]][Other(h)] = chan[comm[h]][Other(h)] \o <<Flag(FALSE)>>
          /\ \A j \in Rounds \ {comm[h]} : chan'[j] = chan[j]
      BY <3>1, SendStreams
    <3>3. <<>> \o <<Flag(FALSE)>> = <<Flag(FALSE)>>
      BY Singles
    <3> QED
      BY <1>3, <2>2, <3>2, <3>3
  <2> QED
    BY <2>1, <2>2
<1>5. DOMAIN pc = Hosts /\ DOMAIN result = Hosts
  BY StepTypes
<1>6. CASE /\ GivesUp(A, currDiff[h]) /\ pc' = [pc EXCEPT ![h] = "post"]
           /\ result' = [result EXCEPT ![h] = FALSE] /\ Decide("fail")
  <2>1. pc'[c] = pc[c] /\ result'[c] = result[c] /\ result'[h] = FALSE
    BY <1>5, <1>6
  <2>2. /\ Host(c)' /\ verdict'[i] = "fail" /\ base'[i] = data
        /\ \A j \in Rounds \ {i} : verdict'[j] = verdict[j] /\ base'[j] = base[j]
    BY <1>1, <1>6, <2>1, DecisionSeen
  <2>3. Local(h, "post")
    BY <1>1, <1>4, <1>6, <2>1, <2>2 DEF Local, Hosts
  <2>4. /\ A' = A /\ First' = First
        /\ Place(h, i)' = "post" /\ Place(c, i)' = Place(c, i) /\ pc'[h] = "post"
        /\ \A j \in Rounds \ {i} : Round(j)'
    BY <1>1, <2>3, LocalStep
  <2>5. currDiff[h] = A.mbar
    BY <1>2, <1>6 DEF GivesUp, Host
  <2>6. Excuse(i)'
    BY <1>1, <1>3, <2>2, <2>5, FailureExcused
  <2>7. Round(i)'
    <3>1. CASE A.oneWay
      <4>1. Said(i)'
        BY <1>3, <1>4, <2>2, <2>4, <3>1 DEF Said
      <4> QED
        BY <2>4, <3>1, <4>1 DEF Round
    <3>2. CASE ~A.oneWay
      <4>1. LostSent(i)'
        BY <1>1, <1>3, <1>4, <1>6, <2>4, <3>2 DEF Attempted, LostSent, At, Carries, Flag
      <4> QED
        BY <2>2, <2>4, <2>6, <3>2, <4>1 DEF Round, Failed
    <3> QED
      BY <3>1, <3>2
  <2>8. Host(h)'
    <3>1. oms[h] = {}
      BY <1>1, <1>2 DEF Host, Open
    <3>2. Outcome(h)'
      BY <1>1, <2>1, <2>2, <3>1 DEF Outcome
    <3> QED
      BY <1>1, <1>2, <2>2, <2>4, <3>2 DEF Host, Unstarted, Early, Open
  <2> QED
    BY <2>2, <2>4, <2>7, <2>8 DEF Link, Hosts
<1>7. CASE /\ ~GivesUp(A, currDiff[h]) /\ pc' = [pc EXCEPT ![h] = "recvMore"]
           /\ UNCHANGED <<result, history>>
  <2>1. Local(h, "recvMore")
    BY <1>1, <1>4, <1>7 DEF Local, history
  <2>2. /\ A' = A /\ First' = First
        /\ Place(h, i)' = "recvMore" /\ Place(c, i)' = Place(c, i) /\ pc'[h] = "recvMore"
        /\ \A j \in Rounds \ {i} : Round(j)'
        /\ Host(c)'
    BY <1>1, <1>7, <2>1, LocalStep
  <2>3. Holding'
    BY <1>1, <1>3, <2>2 DEF Holding
  <2>4. verdict'[i] = "none"
    BY <1>3, <1>7 DEF history
  <2>5. Round(i)'
    <3>1. CASE A.oneWay
      <4>1. Said(i)'
        BY <1>3, <1>4, <2>2, <2>4, <3>1 DEF Said
      <4> QED
        BY <2>2, <3>1, <4>1 DEF Round
    <3>2. CASE ~A.oneWay
      <4>1. Refused(i)'
        BY <1>1, <1>3, <1>4, <1>7, <2>2, <2>3, <3>2 DEF Attempted, Refused, At, Carries, Flag
      <4> QED
        BY <2>2, <2>4, <3>2, <4>1 DEF Round, Undecided
    <3> QED
      BY <3>1, <3>2
  <2>6. Host(h)'
    BY <1>1, <1>2, <1>3, <1>7, <2>2 DEF Host, Unstarted, Early, Open, history
  <2> QED
    BY <2>2, <2>5, <2>6 DEF Link, Hosts
<1> QED
  BY <1>1, <1>6, <1>7

\* A stream of two messages.
LEMMA Pair ==
    ASSUME NEW x, NEW y, NEW q, q = <<x, y>>
    PROVE  Len(q) = 2 /\ q[1] = x /\ q[2] = y
OBVIOUS

\* A successful attempt: both sides are told what they lack.
LEMMA ServerFinds ==
    ASSUME TypeOK, Matched, Link, ServerSucceeds
    PROVE  Link'
<1> PICK h \in Hosts, c \in Hosts, i \in Rounds :
        /\ h = "server" /\ c = "client" /\ c = Other(h) /\ h = Other(c) /\ h # c
        /\ i = comm[h]
  BY StepTypes DEF Hosts, Other
<1> DEFINE mine == data[h] \ data[c]
           theirs == data[c] \ data[h]
           deltas == [type |-> "deltas", other |-> theirs, self |-> mine]
           label == IF A.hashQ /\ ~A.oneWay THEN "strings" ELSE "post"
<1>1. pc[h] = "attempt" /\ Place(h, i) = "attempt" /\ Round(i) /\ Host(h)
  <2>1. pc[h] = "attempt"
    BY DEF ServerSucceeds
  <2> QED
    BY <2>1, Here DEF Link
<1>2. /\ verdict[i] = "none" /\ chan[i][h] = <<>> /\ chan[i][c] = <<>> /\ Holding
      /\ IF A.oneWay THEN Said(i) ELSE Attempted(i)
  BY <1>1, ServerPhases DEF Said, Idle, Attempted, Carries
<1>3. /\ IF ~A.oneWay THEN Send(h, <<Flag(TRUE), deltas>>) ELSE UNCHANGED chan
      /\ MakeStructures(h, mine, theirs) /\ Decide("ok")
      /\ UNCHANGED <<data, comm, result, agent, currDiff, otherSet, recvMeta>>
  <2>1. otherSet = data[c] /\ agent[h] = A
    BY <1>2, StepTypes DEF Holding
  <2> QED
    BY <2>1 DEF ServerSucceeds, Replies, SuccessReply
<1>4. /\ pc' = [pc EXCEPT ![h] = label]
      /\ IF label = "strings"
         THEN /\ toSend' = [toSend EXCEPT ![h] = mine]
              /\ due' = [due EXCEPT ![h] = Cardinality(theirs)] /\ oms' = oms
         ELSE oms' = [oms EXCEPT ![h] = theirs] /\ UNCHANGED <<toSend, due>>
  BY <1>3, StepTypes DEF MakeStructures, Goto, StringsDue
<1>5. /\ label \in {"strings", "post"} /\ (label = "strings" <=> A.hashQ /\ ~A.oneWay)
  OBVIOUS
<1> HIDE DEF label
<1>6. /\ chan'[i][h] = <<>>
      /\ chan'[i][c] = IF A.oneWay THEN <<>> ELSE <<Flag(TRUE), deltas>>
      /\ \A j \in Rounds \ {i} : chan'[j] = chan[j]
  <2> HIDE DEF deltas
  <2>1. CASE A.oneWay
    BY <1>2, <1>3, <2>1
  <2>2. CASE ~A.oneWay
    <3>1. Send(h, <<Flag(TRUE), deltas>>)
      BY <1>3, <2>2
    <3>2. /\ chan'[comm[h]][h] = chan[comm[h]][h]
          /\ chan'[comm[h]][Other(h)] = chan[comm[h]][Other(h)] \o <<Flag(TRUE), deltas>>
          /\ \A j \in Rounds \ {comm[h]} : chan'[j] = chan[j]
      BY <3>1, SendStreams
    <3>3. <<>> \o <<Flag(TRUE), deltas>> = <<Flag(TRUE), deltas>>
      OBVIOUS
    <3> QED
      BY <1>2, <2>2, <3>2, <3>3
  <2> QED
    BY <2>1, <2>2
<1>7. /\ DOMAIN pc = Hosts /\ DOMAIN toSend = Hosts /\ DOMAIN due = Hosts /\ DOMAIN oms = Hosts
  BY StepTypes
<1>8. /\ pc'[c] = pc[c] /\ oms'[c] = oms[c] /\ due'[c] = due[c] /\ toSend'[c] = toSend[c]
      /\ label = "strings" => toSend'[h] = mine /\ due'[h] = Cardinality(theirs) /\ oms'[h] = oms[h]
      /\ label = "post" => oms'[h] = theirs
  <2> HIDE DEF mine, theirs
  <2> QED
    BY <1>4, <1>5, <1>7
<1>9. /\ Host(c)' /\ verdict'[i] = "ok" /\ base'[i] = data
      /\ \A j \in Rounds \ {i} : verdict'[j] = verdict[j] /\ base'[j] = base[j]
  BY <1>1, <1>3, <1>8, DecisionSeen
<1>10. Local(h, label)
  <2>1. /\ UNCHANGED <<data, comm, result, agent, currDiff>>
        /\ \A j \in Rounds \ {i} : chan'[j] = chan[j] /\ verdict'[j] = verdict[j] /\ base'[j] = base[j]
    BY <1>3, <1>6, <1>9
  <2>2. pc[h] # "returned" /\ label # "returned" /\ pc' = [pc EXCEPT ![h] = label]
    BY <1>1, <1>4, <1>5
  <2>3. \A g \in Hosts \ {h} : g = c
    BY DEF Hosts
  <2>4. /\ oms'[c] = oms[c] /\ due'[c] = due[c] /\ toSend'[c] = toSend[c]
        /\ currDiff'[c] = currDiff[c] /\ result'[c] = result[c]
    BY <1>8, <2>1
  <2> QED
    BY <2>1, <2>2, <2>3, <2>4 DEF Local
<1>11. /\ A' = A /\ First' = First
       /\ Place(h, i)' = label /\ Place(c, i)' = Place(c, i) /\ pc'[h] = label
       /\ \A j \in Rounds \ {i} : Round(j)'
  BY <1>3, <1>10, LocalStep
<1>12. /\ Owed(h, i)' = theirs /\ Owed(c, i)' = mine /\ DeltasMsg(i)' = deltas
  <2>1. Owed(h, i)' = theirs /\ Owed(c, i)' = mine
    BY <1>9 DEF Owed
  <2> QED
    BY <2>1 DEF DeltasMsg
<1> HIDE DEF mine, theirs, deltas
<1>13. result[h] /\ oms[h] = {}
  BY <1>1 DEF Host, Open
<1>14. CASE label = "strings"
  <2>1. ~A.oneWay /\ A.hashQ
    BY <1>5, <1>14
  <2>2. Place(c, i) \in {"awaitVerdict", "quit"}
    BY <1>2, <2>1 DEF Attempted, At
  <2>3. chan'[i][c] = <<Flag(TRUE), deltas>>
    BY <1>6, <2>1, Zenon
  <2>4. Len(chan'[i][c]) = 2 /\ chan'[i][c][1] = Flag(TRUE) /\ chan'[i][c][2] = DeltasMsg(i)'
    <3>1. Len(chan'[i][c]) = 2 /\ chan'[i][c][1] = Flag(TRUE) /\ chan'[i][c][2] = deltas
      <4>1. PICK f, d : f = Flag(TRUE) /\ d = deltas
        OBVIOUS
      <4>2. chan'[i][c] = <<f, d>>
        BY <2>3, <4>1, Zenon
      <4>3. Len(chan'[i][c]) = 2 /\ chan'[i][c][1] = f /\ chan'[i][c][2] = d
        BY <4>2, Pair
      <4> QED
        BY <4>1, <4>3, Zenon
    <3> QED
      BY <1>12, <3>1
  <2>5. Strings(c, i, 3)' /\ \A e : Absent(e, c, i, 3)'
    BY <2>4 DEF Strings, Absent
  <2>6. Inbound(c, i)'
    BY <1>11, <2>2, <2>4, <2>5 DEF Inbound, Flag
  <2>7. Inbound(h, i)'
    <3>1. Len(chan'[i][h]) = 0
      BY <1>6
    <3>2. Strings(h, i, 1)' /\ \A e : Absent(e, h, i, 1)'
      BY <3>1 DEF Strings, Absent
    <3>3. theirs \ {} = theirs
      OBVIOUS
    <3>4. Receiving(h, i)'
      BY <1>8, <1>11, <1>12, <1>13, <1>14, <2>1, <3>2, <3>3 DEF Receiving
    <3> QED
      BY <1>11, <1>14, <3>4 DEF Inbound
  <2>8. Outbound(h, i)'
    <3>1. Place(c, i)' = "awaitVerdict" => (Before(c, i) + 1)' = 3
      BY DEF Before
    <3>2. Place(c, i)' = "awaitVerdict" => mine \subseteq Unsent(c, i, 3)'
      BY <1>12, <2>5 DEF Unsent
    <3> QED
      BY <1>8, <1>11, <1>14, <2>2, <3>1, <3>2 DEF Outbound
  <2>9. Outbound(c, i)'
    BY <1>6, <1>8, <1>11, <1>13, <1>14, <2>2 DEF Outbound
  <2>10. Round(i)'
    <3>1. Found(i)'
      BY <1>9, <1>11, <1>14, <2>2, <2>6, <2>7, <2>8, <2>9 DEF Found, At, Hosts
    <3> QED
      BY <1>11, <2>1, <3>1 DEF Round
  <2>11. Host(h)'
    BY <1>1, <1>3, <1>9, <1>11, <1>13, <1>14, <2>1 DEF Host, Unstarted, Early, Open
  <2> QED
    BY <1>9, <1>11, <2>10, <2>11 DEF Link, Hosts
<1>15. CASE label = "post"
  <2>1. Host(h)'
    <3>1. Outcome(h)'
      BY <1>3, <1>8, <1>9, <1>12, <1>13, <1>15 DEF Outcome
    <3> QED
      BY <1>1, <1>3, <1>9, <1>11, <1>15, <3>1 DEF Host, Unstarted, Early, Open
  <2>2. CASE A.oneWay
    <3>1. Said(i)'
      BY <1>2, <1>6, <1>9, <1>11, <1>15, <2>2 DEF Said
    <3>2. Round(i)'
      BY <1>11, <2>2, <3>1 DEF Round
    <3> QED
      BY <1>9, <1>11, <2>1, <3>2 DEF Link, Hosts
  <2>3. CASE ~A.oneWay
    <3>1. ~A.hashQ /\ Place(c, i) \in {"awaitVerdict", "quit"}
      BY <1>2, <1>5, <1>15, <2>3 DEF Attempted, At
    <3>2. chan'[i][c] = <<Flag(TRUE), deltas>>
      BY <1>6, <2>3, Zenon
    <3>3. Len(chan'[i][c]) = 2 /\ chan'[i][c][1] = Flag(TRUE) /\ chan'[i][c][2] = DeltasMsg(i)'
      <4>1. Len(chan'[i][c]) = 2 /\ chan'[i][c][1] = Flag(TRUE) /\ chan'[i][c][2] = deltas
        <5>1. PICK f, d : f = Flag(TRUE) /\ d = deltas
          OBVIOUS
        <5>2. chan'[i][c] = <<f, d>>
          BY <3>2, <5>1, Zenon
        <5>3. Len(chan'[i][c]) = 2 /\ chan'[i][c][1] = f /\ chan'[i][c][2] = d
          BY <5>2, Pair
        <5> QED
          BY <5>1, <5>3, Zenon
      <4> QED
        BY <1>12, <4>1
    <3>4. Strings(c, i, 3)'
      BY <3>3 DEF Strings
    <3>5. Inbound(c, i)' /\ Inbound(h, i)'
      BY <1>6, <1>11, <1>15, <3>1, <3>3, <3>4 DEF Inbound, Flag
    <3>6. Outbound(c, i)' /\ Outbound(h, i)'
      BY <1>11, <1>15, <3>1 DEF Outbound
    <3>7. Round(i)'
      <4>1. Found(i)'
        BY <1>9, <1>11, <1>15, <3>1, <3>5, <3>6 DEF Found, At, Hosts
      <4> QED
        BY <1>11, <2>3, <4>1 DEF Round
    <3> QED
      BY <1>9, <1>11, <2>1, <3>7 DEF Link, Hosts
  <2> QED
    BY <2>2, <2>3
<1> QED
  BY <1>5, <1>14, <1>15

(***************************************************************************)
(* The invariant.                                                          *)
(***************************************************************************)
\* Two equal hosts begin together.
LEMMA LinkStarts ==
    ASSUME Init, Matched
    PROVE  Link
<1>1. /\ \A h \in Hosts : /\ pc[h] = "begin" /\ comm[h] = 1 /\ oms[h] = {}
                          /\ currDiff[h] = StartDiff(agent[h], agent[h].mbar)
      /\ \A i \in Rounds : verdict[i] = "none" /\ \A h \in Hosts : chan[i][h] = <<>>
  BY DEF Init, HostsInit
<1>2. \A h \in Hosts : agent[h] = A
  BY DEF Matched, A, Hosts
<1>3. ASSUME NEW i \in Rounds PROVE Round(i)
  <2>1. \A h \in Hosts : Place(h, i) = "begin"
    BY <1>1, HostsAssumption DEF Place, Rounds
  <2>2. Idle(i)
    BY <1>1, <2>1, HostsType DEF Idle, At, Carries
  <2> QED
    BY <1>1, <2>2 DEF Round, Undecided
<1>4. ASSUME NEW h \in Hosts PROVE Host(h)
  <2>1. currDiff[h] = First
    BY <1>1, <1>2 DEF First
  <2>2. ~A.prob => First = A.mbar
    BY DEF First, StartDiff
  <2>3. 1 \in Rounds
    BY HostsAssumption DEF Rounds
  <2> QED
    BY <1>1, <2>1, <2>2, <2>3 DEF Host, Early, Unstarted, Open
<1> QED
  BY <1>3, <1>4 DEF Link

\* Nothing changes.
LEMMA LinkStays ==
    ASSUME Link, UNCHANGED vars
    PROVE  Link'
<1>1. UNCHANGED <<data, pc, comm, chan, oms, result, history, agentVars>>
  BY DEF vars, hostVars
<1>2. /\ A' = A /\ First' = First /\ Holding' = Holding
      /\ EvalsMsg' = EvalsMsg /\ ModMsg' = ModMsg /\ ParamsMsg' = ParamsMsg
      /\ UNCHANGED <<verdict, base, agent, currDiff, due, toSend>>
  BY <1>1 DEF A, First, Holding, history, agentVars, EvalsMsg, ModMsg, ParamsMsg
<1>3. ASSUME NEW i \in Rounds PROVE Round(i)'
  <2>1. \A g \in Hosts : Place(g, i)' = Place(g, i)
    BY <1>1 DEF Place
  <2>2. Round(i)
    BY DEF Link
  <2>3. Undecided(i) => Undecided(i)'
    BY <1>1, <1>2, <2>1, HostsType DEF Undecided, Idle, ModSent, ModFine, ParamsSent, ParamsFine,
          EvalsSent, Attempted, Refused, MoreSent, MoreMsg, Flag, At, Carries
  <2>4. Failed(i) => Failed(i)'
    BY <1>1, <1>2, <2>1, HostsType DEF Failed, Excuse, Differences, LostSent, Lost, Flag, At, Carries
  <2>5. Said(i) => Said(i)'
    BY <1>1, <1>2, <2>1, HostsType DEF Said
  <2>6. Idle(i) /\ verdict[i] = "none" => (Idle(i) /\ verdict[i] = "none")'
    BY <1>1, <1>2, <2>1, HostsType DEF Idle, At, Carries
  <2>7. Found(i) => Found(i)'
    <3> SUFFICES ASSUME Found(i) PROVE Found(i)'
      OBVIOUS
    <3>1. \A g \in Hosts :
            /\ Owed(g, i)' = Owed(g, i)
            /\ Before(g, i)' = Before(g, i)
            /\ \A n \in Nat : Unsent(g, i, n)' = Unsent(g, i, n)
            /\ Inbound(g, i)' = Inbound(g, i)
      BY <1>1, <1>2, <2>1, StreamFrame
    <3>2. \A g \in Hosts : Before(g, i) + 1 \in Nat
      BY DEF Before
    <3>3. \A g \in Hosts : Outbound(g, i) => Outbound(g, i)'
      BY <1>1, <1>2, <2>1, <3>1, <3>2, HostsType DEF Outbound
    <3> QED
      BY <1>2, <2>1, <3>1, <3>3, HostsType DEF Found, At
  <2> QED
    BY <1>2, <2>2, <2>3, <2>4, <2>5, <2>6, <2>7 DEF Round
<1>4. ASSUME NEW g \in Hosts PROVE Host(g)'
  BY <1>1, <1>2, HostFrame DEF Link
<1> QED
  BY <1>3, <1>4 DEF Link

\* Every step keeps two equal hosts together.
LEMMA LinkKept ==
    ASSUME TypeOK, Matched, Link, [Next]_vars
    PROVE  Link'
<1>1. CASE UNCHANGED vars
  BY <1>1, LinkStays
<1>2. CASE Next
  <2>1. PICK h \in Hosts : HostStep(h) \/ Crash(h)
    BY <1>2 DEF Next
  <2>2. CASE h = "client" /\ ClientStep
    BY <2>2, ClientBegins, ClientConnects, Ends, ClientModAnswered, ClientParamsAnswered,
       ClientLearns, ClientStructures, HostsType DEF ClientStep
  <2>3. CASE h = "server" /\ ServerStep
    BY <2>3, ServerBegins, ServerTakesMod, ServerTakesParams, ServerTakesEvals, ServerFinds,
       ServerRefuses, ServerTakesMore DEF ServerStep
  <2>4. CASE SendString(h) \/ ReceiveString(h) \/ StringsDone(h)
    BY <2>4, StringSent, StringReceived, StringsFinished
  <2>5. CASE PostProcess(h) \/ PeerGone(h) \/ Crash(h)
    BY <2>5, GoesOn, Ends
  <2> QED
    BY <2>1, <2>2, <2>3, <2>4, <2>5 DEF HostStep
<1> QED
  BY <1>1, <1>2

\* The agents are what they were made.
LEMMA AgentsStay ==
    ASSUME [Next]_vars
    PROVE  UNCHANGED agent
BY DEF Next, HostStep, ClientStep, ServerStep, ClientBegin, ClientConnect, ClientConnectFails,
       ClientModReply, ClientParamsReply, ClientHandshake, ClientVerdict, ClientDeltas,
       SendString, ReceiveString, StringsDone, ServerBegin, ServerMod, ServerParams,
       ServerHandshake, ServerEvals, ServerSucceeds, ServerFails, ServerMore, PostProcess,
       PeerGone, Crash, vars, agentVars

\* Every step keeps the types.
LEMMA TypeKept ==
    ASSUME TypeOK, [Next]_vars
    PROVE  TypeOK'
<1>1. CASE UNCHANGED vars
  BY <1>1 DEF TypeOK, HostsTypeOK, vars, hostVars, agentVars, history
<1>2. CASE Next
  BY <1>2, ClientTypeOK, ServerTypeOK, StringsTypeOK, FinishTypeOK DEF Next, HostStep
<1> QED
  BY <1>1, <1>2

\* Whatever agents meet, equal ones are in one of the phases in every round.
THEOREM Invariance == Spec => []IInv
<1>1. Init => IInv
  BY InitTypeOK, LinkStarts DEF IInv
<1>2. IInv /\ [Next]_vars => IInv'
  <2> SUFFICES ASSUME IInv, [Next]_vars PROVE IInv'
    OBVIOUS
  <2>1. TypeOK'
    BY TypeKept DEF IInv
  <2>2. Matched' => Matched
    BY AgentsStay DEF Matched
  <2>3. Matched => Link'
    BY LinkKept DEF IInv
  <2> QED
    BY <2>1, <2>2, <2>3 DEF IInv
<1> QED
  BY <1>1, <1>2, PTL DEF Spec

(***************************************************************************)
(* What the invariant implies.                                             *)
(***************************************************************************)
\* Before each attempt the server holds the evaluations that it needs.
LEMMA AttemptPrepared ==
    ASSUME TypeOK, Matched, Link, pc["server"] = "attempt"
    PROVE  Holding /\ (~A.oneWay => Attempted(comm["server"]))
<1> PICK s \in Hosts, i \in Rounds : s = "server" /\ i = comm[s]
  BY StepTypes, HostsType
<1>1. Place(s, i) = "attempt" /\ Round(i)
  BY Here DEF Link
<1>2. ~A.oneWay => Attempted(i)
  BY <1>1, ServerPhases
<1>3. A.oneWay => Said(i)
  BY <1>1, ServerPhases
<1> QED
  BY <1>1, <1>2, <1>3 DEF Attempted, Said

\* A round that both hosts have left has empty streams.
LEMMA PastRounds ==
    ASSUME TypeOK, Matched, Link, NEW i \in Rounds,
           \A h \in Hosts : comm[h] > i \/ (comm[h] = i /\ pc[h] \in {"post", "returned"})
    PROVE  chan[i] = [h \in Hosts |-> <<>>]
<1>1. \A h \in Hosts : Place(h, i) = "post"
  <2>1. comm \in [Hosts -> 1..Sessions] /\ i \in 1..Sessions /\ Sessions \in Nat
    BY HostsAssumption DEF TypeOK, HostsTypeOK, Rounds
  <2> QED
    BY <2>1 DEF Place
<1>2. Round(i)
  BY DEF Link
<1>3. \A h \in Hosts : chan[i][h] = <<>>
  <2>1. CASE A.oneWay
    <3>1. Said(i)
      BY <1>1, <1>2, <2>1, HostsType DEF Round, Idle, At
    <3> QED
      BY <1>1, <3>1 DEF Said, Hosts
  <2>2. CASE ~A.oneWay
    <3>1. Failed(i) \/ Found(i)
      BY <1>1, <1>2, <2>2, HostsType, ServerPhases
    <3>2. CASE Found(i)
      BY <1>1, <3>2 DEF Found, Inbound
    <3>3. CASE Failed(i)
      BY <1>1, <3>3, HostsType DEF Failed, LostSent, Lost, At, Carries, Hosts
    <3> QED
      BY <3>1, <3>2, <3>3
  <2> QED
    BY <2>1, <2>2
<1>4. chan[i] \in [Hosts -> Seq(Message)]
  BY DEF TypeOK, HostsTypeOK
<1> QED
  BY <1>3, <1>4

\* Equal agents stay in step for any m_bar and k, any numbers of attempts and of
\* sessions on a connection, and whatever host dies (the loops of SyncClient and
\* SyncServer).
THEOREM InStep == Spec => []LockStep
<1>1. IInv => LockStep
  <2> SUFFICES ASSUME TypeOK, Matched, Link PROVE LockStep
    BY DEF IInv, LockStep
  <2>1. ASSUME pc["server"] = "attempt"
        PROVE  /\ Len(recvMeta) = currDiff["server"] + agent["server"].k
               /\ Aligned(recvMeta, Len(recvMeta))
               /\ TwoWay => currDiff["client"] = currDiff["server"]
    <3>1. Holding /\ (~A.oneWay => Attempted(comm["server"]))
      BY <2>1, AttemptPrepared
    <3>2. PICK n \in Nat : n = currDiff["server"] + A.k
      <4>1. currDiff["server"] \in Nat /\ A.k \in Nat
        BY StepTypes, SameAgents, HostsType DEF AgentType
      <4> QED
        BY <4>1
    <3>3. recvMeta = Points(0, n)
      BY <3>1, <3>2 DEF Holding
    <3>4. Len(Points(0, n)) = n /\ Aligned(Points(0, n), n)
      <4>1. 0 \in Nat
        OBVIOUS
      <4> QED
        BY <4>1, MorePointsFollow
    <3>5. TwoWay => ~A.oneWay
      BY DEF TwoWay, A
    <3> QED
      BY <3>1, <3>2, <3>3, <3>4, <3>5 DEF Attempted, A
  <2> QED
    BY <2>1, PastRounds DEF LockStep
<1> QED
  BY <1>1, Invariance, PTL

\* Equal agents agree on every outcome; a host that reports success lacked exactly what
\* it was told, and a failure has one of the two reasons (set_reconcile, the loops
\* around it and _makeStructures on both sides).
THEOREM Outcomes == Spec => []OutcomesExact
<1>1. IInv => OutcomesExact
  <2> SUFFICES ASSUME TypeOK, Matched => Link, NEW h \in Hosts, pc[h] = "post", TwoWay, Matched
               PROVE  LET i == comm[h] IN
                      /\ verdict[i] = IF result[h] THEN "ok" ELSE "fail"
                      /\ result[h] => oms[h] = base[i][Other(h)] \ base[i][h]
                      /\ \/ result[h]
                         \/ Cardinality(Differences(i)) > agent["server"].mbar
                         \/ base[i]["server"] = {} /\ base[i]["client"] # {}
    BY DEF IInv, OutcomesExact
  <2> PICK i \in Rounds : i = comm[h]
    BY StepTypes
  <2>1. ~A.oneWay /\ Host(h) /\ Round(i)
    BY DEF TwoWay, A, Link
  <2>2. Outcome(h)
    BY <2>1 DEF Host
  <2>3. ~result[h] => Excuse(i)
    <3>1. ~result[h] => verdict[i] = "fail"
      BY <2>2 DEF Outcome
    <3>2. verdict[i] = "fail" => Failed(i)
      BY <2>1 DEF Round, Undecided, Found
    <3> QED
      BY <3>1, <3>2 DEF Failed
  <2> QED
    BY <2>2, <2>3 DEF Outcome, Owed, Excuse, A
<1> QED
  BY <1>1, Invariance, PTL

(***************************************************************************)
(* The sessions implement the reconciliation that Reconcile promises.      *)
(***************************************************************************)
LEMMA PromiseStarts ==
    ASSUME Init, Matched
    PROVE  R!Init
<1>1. /\ pc = [h \in Hosts |-> "begin"] /\ comm = [h \in Hosts |-> 1]
      /\ data \in [Hosts -> SUBSET Elem]
      /\ base = [i \in Rounds |-> [h \in Hosts |-> {}]]
      /\ verdict = [i \in Rounds |-> "none"]
  BY DEF Init, HostsInit
<1>2. [h \in Hosts |-> FinishedSessions(h)] = [h \in Hosts |-> 0]
  BY <1>1 DEF FinishedSessions
<1>3. [h \in Hosts |-> pc[h] # "quit"] = [h \in Hosts |-> TRUE]
  BY <1>1
<1>4. agent["client"].oneWay \in BOOLEAN
  BY InitTypeOK, SameAgents, HostsType
<1> QED
  BY <1>1, <1>2, <1>3, <1>4 DEF R!Init, R!Hosts, R!Undecided, Hosts, Rounds

\* What a step does to the promise.
Silent ==
    /\ UNCHANGED <<data, comm, agent, history>>
    /\ \A h \in Hosts : \A l \in Ended : pc'[h] = l <=> pc[h] = l

Leaves(h) ==
    /\ UNCHANGED <<data, comm, agent, history>>
    /\ pc[h] \notin Ended /\ Goto(h, "quit")

Decides(v) ==
    /\ UNCHANGED <<data, comm, agent>> /\ Decide(v)
    /\ pc["server"] = "attempt"
    /\ \E l \in {"strings", "post"} : Goto("server", l)

\* Every step is of one of four kinds.
LEMMA StepKinds ==
    ASSUME TypeOK, Next
    PROVE  \/ Silent
           \/ \E h \in Hosts : Leaves(h) \/ PostProcess(h)
           \/ \E v \in {"ok", "fail"} : Decides(v)
<1>1. DOMAIN pc = Hosts
  BY DEF TypeOK, HostsTypeOK
<1>2. ASSUME NEW h \in Hosts, pc[h] \notin Ended, NEW l, l \notin Ended, Goto(h, l),
             UNCHANGED <<data, comm, agent, history>>
      PROVE  Silent
  BY <1>1, <1>2 DEF Silent, Goto
<1>3. ASSUME NEW h \in Hosts, Crash(h) \/ PeerGone(h) PROVE Leaves(h)
  BY <1>3 DEF Crash, Killed, PeerGone, Deserted, Quit, Leaves, agentVars, Ended,
              ClientWaits, ServerWaits
<1>4. ASSUME NEW h \in Hosts, SendString(h) \/ ReceiveString(h) PROVE Silent
  BY <1>4 DEF SendString, ReceiveString, Silent
<1>5. ASSUME NEW h \in Hosts, StringsDone(h) PROVE Silent
  <2>1. /\ pc[h] \notin Ended /\ "post" \notin Ended /\ Goto(h, "post")
        /\ UNCHANGED <<data, comm, agent, history>>
    BY <1>5 DEF StringsDone, Ended, agentVars
  <2> QED
    BY <1>2, <2>1
<1>6. ASSUME ClientStep PROVE Silent \/ Leaves("client")
  <2>1. CASE ClientBegin \/ ClientDeltas
    <3>1. /\ pc["client"] \notin Ended /\ UNCHANGED <<data, comm, agent, history>>
          /\ \E l \in {"post", "awaitVerdict", "connecting", "strings"} : Goto("client", l)
      BY <2>1 DEF ClientBegin, ClientDeltas, MakeStructures, Ended
    <3> QED
      BY <1>2, <3>1, HostsType DEF Ended
  <2>2. CASE ClientConnect
    <3>1. /\ UNCHANGED <<data, comm, agent, history>>
          /\ pc["client"] = "connecting" /\ pc["server"] = "listening"
          /\ \E l \in {"post", "awaitMod"} :
                pc' = [pc EXCEPT !["client"] = l, !["server"] = "recvMod"]
      BY <2>2 DEF ClientConnect, Listening, agentVars
    <3>2. pc'["client"] \in {"post", "awaitMod"} /\ pc'["server"] = "recvMod"
      BY <1>1, <3>1, HostsType
    <3> QED
      BY <3>1, <3>2 DEF Silent, Hosts, Ended
  <2>3. CASE ClientConnectFails
    BY <2>3 DEF ClientConnectFails, Leaves, Quit, agentVars, Ended
  <2>4. CASE ClientModReply \/ ClientParamsReply
    <3>1. /\ pc["client"] \notin Ended /\ UNCHANGED <<data, comm, agent, history>>
          /\ \E l \in {"awaitParams", "awaitVerdict", "quit"} : Goto("client", l)
      BY <2>4 DEF ClientModReply, ClientParamsReply, ClientHandshake, Quit, agentVars, Ended
    <3> QED
      BY <1>2, <3>1, HostsType DEF Ended, Leaves
  <2>5. CASE ClientVerdict
    <3>1. /\ pc["client"] \notin Ended /\ UNCHANGED <<data, comm, agent, history>>
          /\ UNCHANGED pc \/ \E l \in {"awaitDeltas", "post"} : Goto("client", l)
      BY <2>5 DEF ClientVerdict, Ended
    <3>2. UNCHANGED pc => Silent
      BY <3>1 DEF Silent
    <3> QED
      BY <1>2, <3>1, <3>2, HostsType DEF Ended
  <2> QED
    BY <1>6, <2>1, <2>2, <2>3, <2>4, <2>5 DEF ClientStep
<1>7. ASSUME ServerStep
      PROVE  Silent \/ Leaves("server") \/ \E v \in {"ok", "fail"} : Decides(v)
  <2>1. CASE ServerBegin \/ ServerEvals \/ ServerMore
    <3>1. /\ pc["server"] \notin Ended /\ UNCHANGED <<data, comm, agent, history>>
          /\ \E l \in {"recvEvals", "listening", "attempt"} : Goto("server", l)
      BY <2>1 DEF ServerBegin, ServerEvals, ServerMore, Ended
    <3> QED
      BY <1>2, <3>1, HostsType DEF Ended
  <2>2. CASE ServerMod \/ ServerParams
    <3>1. /\ pc["server"] \notin Ended /\ UNCHANGED <<data, comm, agent, history>>
          /\ \E l \in {"recvParams", "recvEvals", "quit"} : Goto("server", l)
      BY <2>2 DEF ServerMod, ServerParams, ServerHandshake, Quit, agentVars, Ended
    <3> QED
      BY <1>2, <3>1, HostsType DEF Ended, Leaves
  <2>3. CASE ServerSucceeds
    <3>1. Decides("ok")
      BY <2>3 DEF ServerSucceeds, MakeStructures, Decides
    <3> QED
      BY <3>1
  <2>4. CASE ServerFails
    <3>1. /\ pc["server"] = "attempt" /\ UNCHANGED <<data, comm, agent>>
          /\ \/ Decide("fail") /\ Goto("server", "post")
             \/ UNCHANGED history /\ Goto("server", "recvMore")
      BY <2>4 DEF ServerFails, agentVars
    <3>2. CASE Decide("fail") /\ Goto("server", "post")
      BY <3>1, <3>2 DEF Decides
    <3>3. CASE UNCHANGED history /\ Goto("server", "recvMore")
      BY <1>2, <3>1, <3>3, HostsType DEF Ended
    <3> QED
      BY <3>1, <3>2, <3>3
  <2> QED
    BY <1>7, <2>1, <2>2, <2>3, <2>4 DEF ServerStep
<1> QED
  BY <1>3, <1>4, <1>5, <1>6, <1>7, HostsType DEF Next, HostStep

\* What each kind of step is to the promise: nothing,
LEMMA SilentStep ==
    ASSUME TypeOK, Silent
    PROVE  UNCHANGED R!absVars
<1>1. \A h \in Hosts : FinishedSessions(h)' = FinishedSessions(h)
  BY DEF Silent, FinishedSessions, Ended
<1>2. [h \in Hosts |-> FinishedSessions(h)]' = [h \in Hosts |-> FinishedSessions(h)]
  BY <1>1
<1>3. \A h \in Hosts : (pc[h] # "quit")' = (pc[h] # "quit")
  BY DEF Silent, Ended
<1>4. [h \in Hosts |-> pc[h] # "quit"]' = [h \in Hosts |-> pc[h] # "quit"]
  BY <1>3
<1> QED
  BY <1>2, <1>4 DEF R!absVars, Silent, history

\* a death,
LEMMA LeavingStep ==
    ASSUME TypeOK, NEW h \in Hosts, Leaves(h)
    PROVE  R!Die(h)
<1>1. /\ DOMAIN pc = Hosts /\ pc[h] \notin {"quit", "returned"}
      /\ pc'[h] = "quit" /\ \A g \in Hosts \ {h} : pc'[g] = pc[g]
      /\ UNCHANGED <<data, comm, agent, base, verdict>>
  BY DEF Leaves, Goto, TypeOK, HostsTypeOK, history, Ended
<1>2. \A g \in Hosts : FinishedSessions(g)' = FinishedSessions(g)
  BY <1>1 DEF FinishedSessions
<1>3. [g \in Hosts |-> FinishedSessions(g)]' = [g \in Hosts |-> FinishedSessions(g)]
  BY <1>2
<1> DEFINE alive == [g \in Hosts |-> pc[g] # "quit"]
<1>4. alive[h]
  BY <1>1
<1>5. alive' = [alive EXCEPT ![h] = FALSE]
  BY <1>1
<1> QED
  BY <1>1, <1>3, <1>4, <1>5 DEF R!Die

\* a decision,
LEMMA DecidingStep ==
    ASSUME TypeOK, Matched, Link, NEW v \in {"ok", "fail"}, Decides(v)
    PROVE  R!Decide(comm["server"], v)
<1> PICK s \in Hosts, c \in Hosts, i \in Rounds : s = "server" /\ c = "client" /\ i = comm[s] /\ s # c
  BY StepTypes, HostsType
<1>1. /\ DOMAIN pc = Hosts /\ pc[s] = "attempt" /\ Place(s, i) = "attempt"
      /\ \A h \in Hosts : \A l \in Ended : pc'[h] = l <=> pc[h] = l
      /\ UNCHANGED <<data, comm, agent>>
      /\ verdict' = [verdict EXCEPT ![i] = v] /\ base' = [base EXCEPT ![i] = data]
  <2>1. DOMAIN pc = Hosts
    BY DEF TypeOK, HostsTypeOK
  <2> QED
    BY <2>1, Here DEF Decides, Decide, Goto, Ended
<1>2. [h \in Hosts |-> FinishedSessions(h)]' = [h \in Hosts |-> FinishedSessions(h)]
  <2>1. \A h \in Hosts : FinishedSessions(h)' = FinishedSessions(h)
    BY <1>1 DEF FinishedSessions, Ended
  <2> QED
    BY <2>1
<1>3. [h \in Hosts |-> pc[h] # "quit"]' = [h \in Hosts |-> pc[h] # "quit"]
  <2>1. \A h \in Hosts : (pc[h] # "quit")' = (pc[h] # "quit")
    BY <1>1 DEF Ended
  <2> QED
    BY <2>1
<1>4. verdict[i] = "none" /\ (~A.oneWay => Attempted(i))
  <2>1. Round(i)
    BY DEF Link
  <2> QED
    BY <1>1, <2>1, ServerPhases
<1>5. FinishedSessions(s) = i - 1
  BY <1>1 DEF FinishedSessions
<1>6. agent[c].oneWay \/ FinishedSessions(c) = i - 1
  <2> SUFFICES ASSUME ~A.oneWay PROVE FinishedSessions(c) = i - 1
    BY StepTypes
  <2>1. Place(c, i) \in {"awaitVerdict", "quit"}
    BY <1>4 DEF Attempted, At
  <2>2. comm[c] \in 1..Sessions /\ i \in 1..Sessions /\ Sessions \in Nat
    BY StepTypes, HostsAssumption DEF Rounds
  <2>3. comm[c] = i /\ pc[c] # "returned"
    BY <2>1, <2>2 DEF Place
  <2> QED
    BY <2>3 DEF FinishedSessions
<1>7. [h \in Hosts |-> pc[h] # "quit"][s]
  BY <1>1
<1>8. /\ [h \in Hosts |-> FinishedSessions(h)][s] = i - 1
      /\ agent[c].oneWay \/ [h \in Hosts |-> FinishedSessions(h)][c] = i - 1
  BY <1>5, <1>6
<1> QED
  BY <1>1, <1>2, <1>3, <1>4, <1>7, <1>8 DEF R!Decide

\* or the end of a session.
LEMMA FinishingStep ==
    ASSUME TypeOK, Matched, Link, NEW h \in Hosts, PostProcess(h)
    PROVE  R!Finish(h, comm[h])
<1> PICK i \in Rounds : i = comm[h]
  BY StepTypes
<1>1. /\ pc[h] = "post" /\ DOMAIN pc = Hosts /\ DOMAIN data = Hosts /\ DOMAIN comm = Hosts
      /\ data' = [data EXCEPT ![h] = data[h] \cup oms[h]]
      /\ \/ i = Sessions /\ pc' = [pc EXCEPT ![h] = "returned"] /\ comm' = comm
         \/ /\ i # Sessions /\ pc' = [pc EXCEPT ![h] = "begin"]
            /\ comm' = [comm EXCEPT ![h] = i + 1]
      /\ UNCHANGED <<base, verdict, agent>>
  <2>1. DOMAIN pc = Hosts /\ DOMAIN data = Hosts /\ DOMAIN comm = Hosts
    BY DEF TypeOK, HostsTypeOK
  <2> QED
    BY <2>1 DEF PostProcess, NextCommunicant, Last, PostProcessing, Goto, history, agentVars
<1>2. i \in Int /\ Host(h) /\ agent["client"].oneWay = A.oneWay
  <2>1. i \in Int
    BY DEF Rounds
  <2>2. Host(h)
    BY DEF Link
  <2>3. agent["client"] = A
    BY StepTypes, HostsType
  <2> QED
    BY <2>1, <2>2, <2>3
<1> DEFINE alive == [g \in Hosts |-> pc[g] # "quit"]
           done == [g \in Hosts |-> FinishedSessions(g)]
<1>3. alive[h] /\ alive' = alive
  <2>1. \A g \in Hosts : (pc[g] # "quit")' = (pc[g] # "quit")
    BY <1>1
  <2> QED
    BY <1>1, <2>1
<1>4. done[h] = i - 1 /\ done' = [done EXCEPT ![h] = i]
  <2>1. FinishedSessions(h) = i - 1
    BY <1>1 DEF FinishedSessions
  <2>2. FinishedSessions(h)' = i
    BY <1>1, <1>2 DEF FinishedSessions
  <2>3. \A g \in Hosts \ {h} : FinishedSessions(g)' = FinishedSessions(g)
    BY <1>1 DEF FinishedSessions
  <2> HIDE DEF FinishedSessions
  <2> QED
    BY <2>1, <2>2, <2>3
<1>5. (A.oneWay => h = "server") => Outcome(h) /\ verdict[i] \in {"ok", "fail"}
  BY <1>1, <1>2 DEF Host, Outcome
<1>6. A.oneWay /\ h # "server" => h = "client" /\ oms[h] = {}
  BY <1>2 DEF Host, Hosts
<1>7. data[h] \cup oms[h] =
        IF verdict[i] = "ok" /\ (A.oneWay => h = "server")
        THEN data[h] \cup base[i][Other(h)] ELSE data[h]
  <2>1. CASE A.oneWay /\ h # "server"
    BY <1>6, <2>1
  <2>2. CASE (A.oneWay => h = "server") /\ verdict[i] = "ok"
    <3>1. oms[h] = base[i][Other(h)] \ base[i][h]
      BY <1>5, <2>2 DEF Outcome, Owed
    <3>2. base[i][h] = data[h]
      BY <1>1, <1>2, <2>2 DEF Host
    <3> QED
      BY <2>2, <3>1, <3>2
  <2>3. CASE (A.oneWay => h = "server") /\ verdict[i] # "ok"
    BY <1>5, <2>3 DEF Outcome
  <2> QED
    BY <2>1, <2>2, <2>3
<1>8. data' = [data EXCEPT ![h] = R!Merged(h, i)]
  <2>1. R!Other(h) = Other(h)
    BY DEF R!Other, Other
  <2>2. R!Merged(h, i) = data[h] \cup oms[h]
    BY <1>2, <1>7, <2>1 DEF R!Merged
  <2> QED
    BY <1>1, <2>2
<1> HIDE DEF alive, done
<1>9. verdict[i] # "none" \/ (A.oneWay /\ h = "client")
  BY <1>5, <1>6
<1> QED
  BY <1>1, <1>2, <1>3, <1>4, <1>8, <1>9 DEF R!Finish, alive, done

\* Sessions of equal agents reconcile as Reconcile says they do: the server decides each
\* once, on what both hosts hold then, a host merges the difference only after the
\* decision, and nothing else ever changes a set - for any sets and any deaths.
THEOREM Refinement == Spec /\ Matched => Reconciliation
<1>1. Init /\ Matched => R!Init
  BY PromiseStarts
<1>2. IInv /\ Matched /\ [Next]_vars => [R!Next]_R!absVars
  <2> SUFFICES ASSUME TypeOK, Matched, Link, [Next]_vars PROVE [R!Next]_R!absVars
    BY DEF IInv
  <2>1. CASE UNCHANGED vars
    <3>1. Silent
      BY <2>1 DEF vars, hostVars, agentVars, Silent
    <3> QED
      BY <3>1, SilentStep
  <2>2. CASE Next
    <3>1. CASE Silent
      BY <3>1, SilentStep
    <3>2. CASE \E h \in Hosts : Leaves(h)
      BY <3>2, LeavingStep DEF R!Next, R!Hosts, Hosts
    <3>3. CASE \E h \in Hosts : PostProcess(h)
      <4>1. PICK h \in Hosts : PostProcess(h)
        BY <3>3
      <4>2. R!Finish(h, comm[h]) /\ comm[h] \in 1..Sessions
        BY <4>1, FinishingStep, StepTypes DEF Rounds
      <4> QED
        BY <4>2 DEF R!Next, R!Hosts, Hosts
    <3>4. CASE \E v \in {"ok", "fail"} : Decides(v)
      <4>1. PICK v \in {"ok", "fail"} : Decides(v)
        BY <3>4
      <4>2. R!Decide(comm["server"], v) /\ comm["server"] \in 1..Sessions
        BY <4>1, DecidingStep, StepTypes, HostsType DEF Rounds
      <4> QED
        BY <4>2 DEF R!Next
    <3> QED
      BY <2>2, <3>1, <3>2, <3>3, <3>4, StepKinds
  <2> QED
    BY <2>1, <2>2
<1>3. Matched /\ [Next]_vars => Matched'
  BY AgentsStay DEF Matched
<1> QED
  BY <1>1, <1>2, <1>3, Invariance, PTL DEF Spec, Reconciliation, R!Spec

(***************************************************************************)
(* What follows from the promise of module Reconcile alone.                *)
(***************************************************************************)
finished == [h \in Hosts |-> FinishedSessions(h)]
oneWay == agent["client"].oneWay

Shapes ==
    /\ data \in [Hosts -> SUBSET Elem]
    /\ base \in [1..Sessions -> [Hosts -> SUBSET Elem]]
    /\ verdict \in [1..Sessions -> {"none", "ok", "fail"}]
    /\ finished \in [Hosts -> Nat]

\* A session is decided when both hosts have finished all the earlier ones, on the
\* sets they hold until they finish this one; an "ok" leaves them with the union.
InSession(i, h) ==
    /\ verdict[i] = "none" => finished[h] <= i - 1
    /\ verdict[i] # "none" => finished[h] >= i - 1
    /\ verdict[i] # "none" /\ finished[h] = i - 1 => data[h] = base[i][h]
    /\ verdict[i] = "ok" /\ finished[h] = i
          => data[h] = base[i]["client"] \cup base[i]["server"]

Promised == Shapes /\ (~oneWay => \A i \in 1..Sessions, h \in Hosts : InSession(i, h))

\* The actions of Reconcile, in the state of the sessions.
LEMMA Deciding ==
    ASSUME NEW i, NEW v, R!Decide(i, v)
    PROVE  /\ verdict[i] = "none" /\ finished["server"] = i - 1
           /\ oneWay \/ finished["client"] = i - 1
           /\ verdict' = [verdict EXCEPT ![i] = v] /\ base' = [base EXCEPT ![i] = data]
           /\ data' = data /\ finished' = finished /\ oneWay' = oneWay
BY DEF R!Decide, finished, oneWay

LEMMA Finishing ==
    ASSUME NEW g \in Hosts, NEW i, R!Finish(g, i)
    PROVE  /\ finished[g] = i - 1 /\ (verdict[i] # "none" \/ oneWay)
           /\ finished' = [finished EXCEPT ![g] = i]
           /\ data' = [data EXCEPT ![g] = R!Merged(g, i)]
           /\ base' = base /\ verdict' = verdict /\ oneWay' = oneWay
BY DEF R!Finish, finished, oneWay

\* A decision is made on the sets of hosts that are both at the session.
LEMMA DecideKeeps ==
    ASSUME Promised, NEW i \in 1..Sessions, NEW v \in {"ok", "fail"}, R!Decide(i, v)
    PROVE  Promised'
<1>1. /\ verdict[i] = "none" /\ finished["server"] = i - 1
      /\ oneWay \/ finished["client"] = i - 1
      /\ verdict' = [verdict EXCEPT ![i] = v] /\ base' = [base EXCEPT ![i] = data]
      /\ data' = data /\ finished' = finished /\ oneWay' = oneWay
  BY Deciding
<1>2. Shapes'
  BY <1>1 DEF Promised, Shapes
<1>3. ASSUME ~oneWay', NEW j \in 1..Sessions, NEW h \in Hosts
      PROVE  InSession(j, h)'
  <2>1. ~oneWay /\ InSession(j, h) /\ finished[h] \in Nat
    BY <1>1, <1>3 DEF Promised, Shapes
  <2>2. finished[h] = i - 1
    <3>1. h = "client" \/ h = "server"
      BY DEF Hosts
    <3> QED
      BY <1>1, <2>1, <3>1, Zenon
  <2>3. CASE j = i
    <3>1. base'[j] = data /\ verdict'[j] = v
      BY <1>1, <2>3 DEF Promised, Shapes
    <3> QED
      BY <1>1, <2>2, <2>3, <3>1 DEF InSession
  <2>4. CASE j # i
    <3>1. base'[j] = base[j] /\ verdict'[j] = verdict[j]
      BY <1>1, <2>4 DEF Promised, Shapes
    <3> QED
      BY <1>1, <2>1, <3>1 DEF InSession
  <2> QED
    BY <2>3, <2>4
<1> QED
  BY <1>2, <1>3 DEF Promised

\* A host that finishes a session which was decided "ok" holds the union.
LEMMA FinishKeeps ==
    ASSUME Promised, NEW g \in Hosts, NEW i \in 1..Sessions, R!Finish(g, i)
    PROVE  Promised'
<1>1. /\ finished' = [finished EXCEPT ![g] = i] /\ finished[g] = i - 1
      /\ data' = [data EXCEPT ![g] = R!Merged(g, i)]
      /\ base' = base /\ verdict' = verdict /\ oneWay' = oneWay
      /\ verdict[i] # "none" \/ oneWay
  BY Finishing
<1>2. R!Other(g) \in Hosts
  BY DEF R!Other, Hosts
<1>3. R!Merged(g, i) \in SUBSET Elem
  <2>1. data[g] \in SUBSET Elem /\ base[i][R!Other(g)] \in SUBSET Elem
    BY <1>2 DEF Promised, Shapes
  <2> QED
    BY <2>1 DEF R!Merged
<1>4. Shapes'
  BY <1>1, <1>3 DEF Promised, Shapes
<1>5. ASSUME ~oneWay', NEW j \in 1..Sessions, NEW h \in Hosts
      PROVE  InSession(j, h)'
  <2>1. ~oneWay /\ InSession(j, h) /\ InSession(i, h) /\ finished[h] \in Nat
    BY <1>1, <1>5 DEF Promised, Shapes
  <2>2. verdict[i] # "none"
    BY <1>1, <2>1
  <2>3. CASE h # g
    <3>1. finished'[h] = finished[h] /\ data'[h] = data[h]
      BY <1>1, <2>3 DEF Promised, Shapes
    <3> QED
      BY <1>1, <2>1, <3>1 DEF InSession
  <2>4. CASE h = g /\ j = i
    <3>1. finished'[h] = i /\ data'[h] = R!Merged(h, i)
      BY <1>1, <2>4 DEF Promised, Shapes
    <3>2. data[h] = base[i][h]
      BY <1>1, <2>1, <2>2, <2>4 DEF InSession
    <3>3. verdict[i] = "ok" => data'[h] = base[i]["client"] \cup base[i]["server"]
      BY <2>1, <3>1, <3>2 DEF R!Merged, R!Other, Hosts, oneWay
    <3> QED
      BY <1>1, <2>2, <2>4, <3>1, <3>3 DEF InSession
  <2>5. CASE h = g /\ j # i
    <3>1. finished'[h] = i /\ finished[h] = i - 1
      BY <1>1, <2>5 DEF Promised, Shapes
    <3> QED
      BY <1>1, <2>1, <2>2, <2>5, <3>1 DEF InSession
  <2> QED
    BY <2>3, <2>4, <2>5
<1> QED
  BY <1>4, <1>5 DEF Promised

\* Whatever fails, dies or is decided: two hosts that have both finished a two-way
\* session with the decision "ok", and no later one, hold the same set - in every
\* behaviour that keeps the promise.
LEMMA PromiseConverges == R!Spec => []R!Converged
<1>1. R!Init => Promised
  <2> SUFFICES ASSUME R!Init PROVE Promised
    OBVIOUS
  <2>1. /\ data \in [Hosts -> SUBSET Elem]
        /\ base = [i \in 1..Sessions |-> [h \in Hosts |-> {}]]
        /\ verdict = [i \in 1..Sessions |-> "none"]
        /\ finished = [h \in Hosts |-> 0]
    BY DEF R!Init, R!Undecided, R!Hosts, Hosts, finished
  <2> QED
    BY <2>1 DEF Promised, Shapes, InSession
<1>2. Promised /\ [R!Next]_R!absVars => Promised'
  <2> SUFFICES ASSUME Promised, [R!Next]_R!absVars PROVE Promised'
    OBVIOUS
  <2>1. CASE UNCHANGED R!absVars
    <3>1. /\ data' = data /\ base' = base /\ verdict' = verdict
          /\ finished' = finished /\ oneWay' = oneWay
      BY <2>1 DEF R!absVars, finished, oneWay
    <3> QED
      BY <3>1 DEF Promised, Shapes, InSession
  <2>2. ASSUME NEW h \in Hosts, R!Die(h) PROVE Promised'
    <3>1. /\ data' = data /\ base' = base /\ verdict' = verdict
          /\ finished' = finished /\ oneWay' = oneWay
      BY <2>2 DEF R!Die, finished, oneWay
    <3> QED
      BY <3>1 DEF Promised, Shapes, InSession
  <2> QED
    BY <2>1, <2>2, DecideKeeps, FinishKeeps DEF R!Next, R!Hosts, Hosts
<1>3. Promised => R!Converged
  <2> SUFFICES ASSUME Promised, NEW i \in 1..Sessions, verdict[i] = "ok", ~oneWay,
                      finished = [h \in Hosts |-> i]
               PROVE  data["client"] = data["server"]
    BY DEF R!Converged, R!Hosts, Hosts, finished, oneWay
  <2>1. /\ "client" \in Hosts /\ "server" \in Hosts
        /\ finished["client"] = i /\ finished["server"] = i
    BY DEF Hosts
  <2>2. InSession(i, "client") /\ InSession(i, "server")
    BY <2>1 DEF Promised
  <2> QED
    BY <2>1, <2>2 DEF InSession
<1> QED
  BY <1>1, <1>2, <1>3, PTL DEF R!Spec

\* Two hosts of equal agents that have both finished a two-way session with the decision
\* "ok", and no later one, hold the same set: what clientSyncBegin and serverSyncBegin
\* are for.
THEOREM SessionsConverge == Spec /\ Matched => []R!Converged
BY Refinement, PromiseConverges, PTL DEF Reconciliation

=============================================================================
