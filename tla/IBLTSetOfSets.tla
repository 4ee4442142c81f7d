----------------------------- MODULE IBLTSetOfSets -----------------------------
(***************************************************************************)
(* IBLTSetOfSets: a parent set of child sets.  The server pairs each child *)
(* that only the client has with one that only itself has, and both hosts  *)
(* replace theirs by the union of the two.                                 *)
(*                                                                         *)
(* The hash of a child is the child and the number of times it was hashed  *)
(* again because the hash was in use.  Tables are the children they were   *)
(* filled with; what a table of children leaves unlisted is any set of     *)
(* children but a single one, which is always alone in its cells; a table  *)
(* of elements can be emptied unless it holds all of a set of Stuck.       *)
(***************************************************************************)
EXTENDS Integers, Sequences, FiniteSets, FiniteSetsExt, SequencesExt

CONSTANTS
    Item,        \* elements of the child sets
    Child,       \* child sets that the program adds
    Stuck,       \* sets of elements that no difference of child tables can list
    Sizes,       \* values of (size, eltSize), which the handshake compares
    Sessions,    \* synchronizations in a row
    MaxChildren, \* bound: children of a parent set before a session
    MaxUpdates   \* bound: children that the program of a host adds or deletes

Hosts == {"client", "server"}
Other(h) == IF h = "client" THEN "server" ELSE "client"

ASSUME SetOfSetsAssumption ==
    /\ IsFiniteSet(Item) /\ Child \subseteq (SUBSET Item) \ {{}}
    /\ Stuck \subseteq SUBSET Item
    /\ {Sessions, MaxChildren} \subseteq Nat \ {0} /\ MaxUpdates \in Nat

VARIABLES
    size,    \* size[h]: the parameters of the outer table
    mySet,   \* mySet[h]: the child sets, in the order of myData as well
    hashes,  \* hashes[h]: myIBLT.hashes
    pc, chan, session,
    oms,     \* oms[h]: otherMinusSelf, pairs of an index and a rewritten child
    success, \* success[h]: what SyncClient or SyncServer returns
    outcome, \* history: what the server paired, left and found no partner for
    stale,   \* history: stale[h], a child was deleted while a copy was held
    updates  \* updates[h]: how often the program changed the children

parentVars ==
    <<size, mySet, hashes, pc, chan, session, oms, success, outcome, stale, updates>>

Gone == {"quit", "killed"}
Ended == {"returned"} \cup Gone
Waits == {"awaitFlag", "awaitLists", "recvParams", "recvTable"}

(***************************************************************************)
(* GenIBLT::insert and erase of a child set, addElem and delElem.          *)
(***************************************************************************)
Hash(child, n) == [child |-> child, again |-> n]
FreshHash(hs, child) ==
    Hash(child, Min({n \in 0..Len(hs) : Hash(child, n) \notin ToSet(hs)}))

Copies(cs, child) == Cardinality({i \in DOMAIN cs : cs[i] = child})
Added(p, child) ==
    [mySet |-> Append(p.mySet, child),
     hashes |-> Append(p.hashes, FreshHash(p.hashes, child)),
     stale |-> p.stale]

\* The hash that erase finds first; the child itself is found by its pointer.
FirstHashMutant(hs, child) == Len(hs)
FirstHash(hs, child) ==
    LET n == Min({n \in 0..2 * MaxChildren : Hash(child, n) \in ToSet(hs)})
    IN  CHOOSE i \in DOMAIN hs : hs[i] = Hash(child, n)
Deleted(p, i) ==
    [mySet |-> RemoveAt(p.mySet, i),
     hashes |-> RemoveAt(p.hashes, FirstHash(p.hashes, p.mySet[i])),
     stale |-> p.stale \/ Copies(p.mySet, p.mySet[i]) > 1]

Parent(h) == [mySet |-> mySet[h], hashes |-> hashes[h], stale |-> stale[h]]
Become(h, p) ==
    /\ mySet' = [mySet EXCEPT ![h] = p.mySet]
    /\ hashes' = [hashes EXCEPT ![h] = p.hashes]
    /\ stale' = [stale EXCEPT ![h] = p.stale]

NoChildren == [mySet |-> <<>>, hashes |-> <<>>, stale |-> FALSE]
AllAdded(p, children) ==
    LET q[k \in 0..Len(children)] == IF k = 0 THEN p ELSE Added(q[k - 1], children[k])
    IN  q[Len(children)]
AllDeleted(p, is) ==
    LET q[k \in 0..Len(is)] == IF k = 0 THEN p ELSE Deleted(q[k - 1], is[k])
    IN  q[Len(is)]
ParentOf(children) == AllAdded(NoChildren, children)

Outcome(by, pairs, left, single) ==
    [by |-> by, pairs |-> pairs, left |-> left, single |-> single]
Undecided == Outcome("none", {}, {}, {})

ParentsInit ==
    /\ size \in [Hosts -> Sizes]
    /\ \E start \in [Hosts -> {SetToSeq(S) : S \in SUBSET Child}] :
        /\ \A h \in Hosts : Len(start[h]) < MaxChildren
        /\ mySet = [h \in Hosts |-> ParentOf(start[h]).mySet]
        /\ hashes = [h \in Hosts |-> ParentOf(start[h]).hashes]
    /\ pc = [h \in Hosts |-> "begin"]
    /\ chan = [h \in Hosts |-> <<>>]
    /\ session = [h \in Hosts |-> 1]
    /\ oms = [h \in Hosts |-> <<>>]
    /\ success = [h \in Hosts |-> TRUE]
    /\ outcome = Undecided
    /\ stale = [h \in Hosts |-> FALSE]
    /\ updates = [h \in Hosts |-> 0]

(***************************************************************************)
(* The outer table: theirs less mine.                                      *)
(***************************************************************************)
Surplus(theirs, mine, child) == Copies(theirs, child) - Copies(mine, child)
Children(theirs, mine) == ToSet(theirs) \cup ToSet(mine)
DifferingChildren(theirs, mine) ==
    {c \in Children(theirs, mine) : Surplus(theirs, mine, c) # 0}

\* The value of a child: the exclusive-or of the hashes of all its copies on both
\* hosts, which is a hash only if it is that of one copy left over.
ValueOf(ours, others, child) ==
    LET agains(hs) == {x.again : x \in {y \in ToSet(hs) : y.child = child}}
    IN  SymDiff(agains(ours), agains(others))

\* A child that does not differ, but whose hashes do, is not listed and leaves their
\* exclusive-or in its cells: what is listed from one of these cells, and from those
\* it is then taken out of, has a value that is no hash.
Residue(theirs, mine, child) ==
    /\ Surplus(theirs.mySet, mine.mySet, child) = 0
    /\ ValueOf(theirs.hashes, mine.hashes, child) # {}
Garbled(theirs, mine) ==
    IF \E c \in Children(theirs.mySet, mine.mySet) : Residue(theirs, mine, c)
    THEN SUBSET DifferingChildren(theirs.mySet, mine.mySet)
    ELSE {{}}
IndexesOf(hs, child, value) ==
    {i \in DOMAIN hs : hs[i].child = child /\ value = {hs[i].again}}

(***************************************************************************)
(* _decodeInnerIBLT.                                                       *)
(***************************************************************************)
Decodable(D) == \A S \in Stuck : ~(S \subseteq D)
Distance(c, d) == Cardinality(SymDiff(c, d))

\* The children of the server that child can be paired with: not paired yet, and
\* with a difference that the inner table lists.
CandidatesMutant(child, negative, taken) ==
    {j \in DOMAIN negative : Decodable(SymDiff(child, negative[j]))}
Candidates(child, negative, taken) ==
    {j \in DOMAIN negative : j \notin taken /\ Decodable(SymDiff(child, negative[j]))}

\* The nearest one; of equally near ones, the one whose index is that of the
\* smallest child in mySet (which is another sequence), then the first.
Better(child, negative, own, i, j) ==
    LET di == Distance(child, negative[i])
        dj == Distance(child, negative[j])
        si == Cardinality(own[i])
        sj == Cardinality(own[j])
    IN  di < dj \/ (di = dj /\ (si < sj \/ (si = sj /\ i <= j)))

Unpaired == [taken |-> {}, pairs |-> {}, thrown |-> FALSE]
PairNext(r, child, negative, own) ==
    LET free == Candidates(child, negative, r.taken)
        best == CHOOSE i \in free :
                    \A j \in free : Better(child, negative, own, i, j)
    IN  IF r.thrown \/ free = {} THEN [r EXCEPT !.thrown = TRUE]
        ELSE [r EXCEPT !.taken = @ \cup {best},
                       !.pairs = @ \cup {<<child, negative[best]>>}]
Pair(positive, negative, own) ==
    LET r[k \in 0..Len(positive)] ==
            IF k = 0 THEN Unpaired ELSE PairNext(r[k - 1], positive[k], negative, own)
    IN  r[Len(positive)]

(***************************************************************************)
(* Both hosts.                                                             *)
(***************************************************************************)
Goto(h, label) == pc' = [pc EXCEPT ![h] = label]
Receives(h, type) == chan[h] # <<>> /\ Head(chan[h]).type = type
Answer(h, n, msgs) ==
    chan' = [chan EXCEPT ![h] = SubSeq(@, n + 1, Len(@)), ![Other(h)] = @ \o msgs]

\* Missing elements of a child, with the value that finds it.
Missing(child, value, elems) == [child |-> child, value |-> value, elems |-> elems]

\* reWrite, for every index whose hash is the one named.
ReWrite(h, i, elems) == [index |-> i, set |-> mySet[h][i] \cup elems]
ReWritten(h, list) ==
    UNION {{ReWrite(h, i, m.elems) : i \in IndexesOf(hashes[h], m.child, m.value)} :
              m \in {n \in list : n.elems # {}}}

\* The server listens, the client connects and sends its parameters.
Connect ==
    /\ \A h \in Hosts : pc[h] = "begin" /\ session[h] = session[Other(h)]
    /\ pc' = [h \in Hosts |-> IF h = "client" THEN "awaitFlag" ELSE "recvParams"]
    /\ oms' = [h \in Hosts |-> <<>>]
    /\ success' = [h \in Hosts |-> TRUE]
    /\ outcome' = Undecided
    /\ chan' = [chan EXCEPT !["server"] =
                    Append(@, [type |-> "params", size |-> size["client"]])]
    /\ UNCHANGED <<size, mySet, hashes, session, stale, updates>>

\* establishIBLTRecv.
FlagMutant(ok) == IF ok THEN <<[type |-> "flag", ok |-> ok]>> ELSE <<>>
Flag(ok) == <<[type |-> "flag", ok |-> ok]>>

ServerParams ==
    LET h == "server"
        ok == Head(chan[h]).size = size[h]
    IN
    /\ pc[h] = "recvParams"
    /\ Receives(h, "params")
    /\ Goto(h, IF ok THEN "recvTable" ELSE "post")
    /\ success' = [success EXCEPT ![h] = ok]
    /\ Answer(h, 1, Flag(ok))
    /\ UNCHANGED <<size, mySet, hashes, session, oms, outcome, stale, updates>>

ClientFlag ==
    LET h == "client"
        ok == Head(chan[h]).ok
        table == [type |-> "table", mySet |-> mySet[h], hashes |-> hashes[h]]
    IN
    /\ pc[h] = "awaitFlag"
    /\ Receives(h, "flag")
    /\ Goto(h, IF ok THEN "awaitLists" ELSE "post")
    /\ success' = [success EXCEPT ![h] = ok]
    /\ Answer(h, 1, IF ok THEN <<table>> ELSE <<>>)
    /\ UNCHANGED <<size, mySet, hashes, session, oms, outcome, stale, updates>>

\* The place of a hash in theirs.hashes is used as an index into mySet, which may be
\* shorter: what is read there then is undefined, and the process may die of it.
BeyondMySet(hs, list) ==
    \E m \in list : /\ m.elems # {}
                    /\ \E i \in IndexesOf(hs, m.child, m.value) : i > Len(mySet["server"])

\* The listed children come in any order.  A child of the client without a partner
\* makes the server throw and catch: it returns false and has sent nothing.
ServerTable ==
    LET h == "server"
        theirs == Head(chan[h])
        differing == DifferingChildren(theirs.mySet, mySet[h])
        net(c) == Surplus(theirs.mySet, mySet[h], c)
    IN
    /\ pc[h] = "recvTable"
    /\ Receives(h, "table")
    /\ \A c \in differing : net(c) \in {1, -1}
    /\ \E left \in {S \in SUBSET differing : Cardinality(S) # 1} :
       \E garbled \in Garbled(theirs, Parent(h)) :
       \E positive \in SetToSeqs({c \in differing \ left : net(c) = 1}),
          negative \in SetToSeqs({c \in differing \ left : net(c) = -1}) :
        LET value(c) ==
                IF c \in garbled THEN {} ELSE ValueOf(theirs.hashes, hashes[h], c)
            r == Pair(positive, negative, mySet[h])
            notOnThat == {Missing(p[1], value(p[1]), p[2] \ p[1]) : p \in r.pairs}
            notOnThis == {Missing(p[2], value(p[2]), p[1] \ p[2]) : p \in r.pairs}
        IN
        \/ /\ r.thrown
           /\ outcome' = Outcome("thrown", {}, left, {})
           /\ success' = [success EXCEPT ![h] = FALSE]
           /\ Answer(h, 1, <<>>)
           /\ Goto(h, "post")
           /\ UNCHANGED oms
        \/ /\ BeyondMySet(theirs.hashes, notOnThat)
           /\ ~r.thrown
           /\ Goto(h, "quit")
           /\ outcome' = Outcome("beyond", {}, left, {})
           /\ UNCHANGED <<success, oms, chan>>
        \/ /\ ~r.thrown
           /\ Goto(h, "post")
           /\ outcome' = Outcome("paired", r.pairs, left,
                                 ToSet(negative) \ {p[2] : p \in r.pairs})
           /\ success' = [success EXCEPT ![h] = left = {}]
           /\ oms' = [oms EXCEPT ![h] = SetToSeq(ReWritten(h, notOnThis))]
           /\ Answer(h, 1, <<[type |-> "list", list |-> notOnThat],
                             [type |-> "list", list |-> notOnThis]>>)
    /\ UNCHANGED <<size, mySet, hashes, session, stale, updates>>

ClientLists ==
    LET h == "client" IN
    /\ pc[h] = "awaitLists"
    /\ Receives(h, "list") /\ Len(chan[h]) > 1
    /\ oms' = [oms EXCEPT ![h] = SetToSeq(ReWritten(h, Head(chan[h]).list))]
    /\ Goto(h, "post")
    /\ Answer(h, 2, <<>>)
    /\ UNCHANGED <<size, mySet, hashes, session, success, outcome, stale, updates>>

\* postProcessing_IBLTSetOfSets: the rewritten children are added, then the old ones
\* deleted by index, from the last to the first.
EraseOrderMutant(is) ==
    CHOOSE s \in SetToSeqs(is) : \A j, k \in DOMAIN s : j < k => s[j] < s[k]
EraseOrder(is) ==
    CHOOSE s \in SetToSeqs(is) : \A j, k \in DOMAIN s : j < k => s[j] > s[k]
PostProcessed(p, changes) ==
    AllDeleted(AllAdded(p, [k \in DOMAIN changes |-> changes[k].set]),
               EraseOrder({x.index : x \in ToSet(changes)}))

PostProcess(h) ==
    /\ pc[h] = "post"
    /\ Become(h, PostProcessed(Parent(h), oms[h]))
    /\ session' = [session EXCEPT ![h] = @ + 1]
    /\ Goto(h, IF session[h] = Sessions THEN "returned" ELSE "begin")
    /\ UNCHANGED <<size, chan, oms, success, outcome, updates>>

\* The program adds or deletes a child between sessions.
ProgramUpdate(h, p) ==
    /\ pc[h] = "begin" /\ updates[h] < MaxUpdates
    /\ updates' = [updates EXCEPT ![h] = @ + 1]
    /\ Become(h, p)
    /\ UNCHANGED <<size, pc, chan, session, oms, success, outcome>>
AddElem(h, child) ==
    Len(mySet[h]) < MaxChildren /\ ProgramUpdate(h, Added(Parent(h), child))
DelElem(h, i) == ProgramUpdate(h, Deleted(Parent(h), i))

\* The process is killed.
Crash(h) ==
    /\ pc[h] \notin Ended
    /\ Goto(h, "killed")
    /\ UNCHANGED <<size, mySet, hashes, chan, session, oms, success, outcome, stale,
                   updates>>

\* What makes a host notice that the other one is gone: a receive, and connect(), which
\* is tried MAX_CONNECTS times.  A server at "begin" is in accept(), without timeout.
Notices(h) == pc[h] \in Waits \/ (h = "client" /\ pc[h] = "begin")

\* The stream is drained, or was reset because data in it was never read.
PeerGone(h) ==
    /\ Notices(h) /\ pc[Other(h)] \in Gone
    /\ chan[h] = <<>> \/ chan[Other(h)] # <<>>
    /\ Goto(h, "quit")
    /\ UNCHANGED <<size, mySet, hashes, chan, session, oms, success, outcome, stale,
                   updates>>

\* Bound: a child that one host holds twice more than the other is not modelled.
DoubledChild ==
    LET h == "server" IN
    /\ pc[h] = "recvTable"
    /\ Receives(h, "table")
    /\ \E c \in DifferingChildren(Head(chan[h]).mySet, mySet[h]) :
          Surplus(Head(chan[h]).mySet, mySet[h], c) \notin {1, -1}
    /\ Goto(h, "bound")
    /\ UNCHANGED <<size, mySet, hashes, chan, session, oms, success, outcome, stale,
                   updates>>

HostStep(h) ==
    \/ Connect
    \/ h = "client" /\ (ClientFlag \/ ClientLists)
    \/ h = "server" /\ (ServerParams \/ ServerTable \/ DoubledChild)
    \/ PostProcess(h) \/ PeerGone(h)

ParentsNext ==
    \E h \in Hosts :
        \/ HostStep(h) \/ Crash(h)
        \/ \E c \in Child : AddElem(h, c)
        \/ \E i \in DOMAIN mySet[h] : DelElem(h, i)

ParentsSpec == ParentsInit /\ [][ParentsNext]_parentVars

\* A host runs unless it waits for a message or for the other's next session.
CanRun(h) ==
    \/ pc[h] = "post"
    \/ pc[h] \in Waits /\ chan[h] # <<>>
    \/ Notices(h) /\ pc[Other(h)] \in Gone
    \/ \A g \in Hosts : pc[g] = "begin" /\ session[g] = session[h]

\* Weak fairness of HostStep(h), with CanRun(h) for ENABLED HostStep(h), which would
\* have to pair the children: each host is a single thread that keeps running.
Fairness(h) == []<>~CanRun(h) \/ []<><<HostStep(h)>>_parentVars

ParentsFairSpec == ParentsSpec /\ \A h \in Hosts : Fairness(h)

(***************************************************************************)
(* Properties.                                                             *)
(***************************************************************************)
ParentsTypeOK ==
    /\ size \in [Hosts -> Sizes]
    /\ mySet \in [Hosts -> Seq(SUBSET Item)]
    /\ \A h \in Hosts : Len(hashes[h]) = Len(mySet[h]) /\ Len(mySet[h]) <= MaxChildren
    /\ pc \in [Hosts -> Waits \cup Ended \cup {"begin", "post", "bound"}]
    /\ session \in [Hosts -> 1..Sessions + 1]
    /\ success \in [Hosts -> BOOLEAN]
    /\ stale \in [Hosts -> BOOLEAN]

\* The i-th hash is that of the i-th child, which is how every received hash finds its
\* child - until a copy of a child is deleted and the hash of another copy erased.
Aligned ==
    \A h \in Hosts : ~stale[h] =>
        \A i \in DOMAIN mySet[h] : hashes[h][i].child = mySet[h][i]

Distinct(h) == IsInjective(mySet[h])
Posted(h) == PostProcessed(Parent(h), oms[h]).mySet

\* When no host holds a child twice, and every differing child was listed and has got
\* a partner, both hosts will hold the same children, each as often, whatever the order
\* of the lists and of the pairing (SyncServer, SyncClient and the post-processing).
Converges ==
    (/\ \A h \in Hosts : pc[h] = "post" /\ ~stale[h]
     /\ \A h \in Hosts : Distinct(h)
     /\ outcome.by = "paired" /\ outcome.left = {} /\ outcome.single = {})
        => \A c \in ToSet(Posted("client")) \cup ToSet(Posted("server")) :
               Surplus(Posted("client"), Posted("server"), c) = 0

\* A session replaces children by larger ones: no child disappears and none loses an
\* element, even if the lists are partial or a hash finds the wrong child.
NothingLost ==
    [][\A h \in Hosts : PostProcess(h) =>
          /\ Len(mySet'[h]) = Len(mySet[h])
          /\ \A c \in ToSet(mySet[h]) :
                \E d \in ToSet(mySet'[h]) : c \subseteq d]_parentVars

\* Both hosts end, even if one is killed, except a server in accept() whose client is
\* gone, and they return if none is killed and the server has not died of reading
\* beyond mySet - unless the server finds a child of the client without a partner:
\* then the client waits for lists that never come.
Termination ==
    [](outcome.by # "thrown" /\ pc["server"] # "bound") =>
        /\ <>(pc["client"] \in Ended)
        /\ <>[](\/ pc["server"] \in Ended
                \/ pc["server"] = "begin" /\ pc["client"] \in Gone)
        /\ [](outcome.by # "beyond" /\ \A h \in Hosts : pc[h] # "killed")
               => \A h \in Hosts : <>(pc[h] = "returned")
=============================================================================
