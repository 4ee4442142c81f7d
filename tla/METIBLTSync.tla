------------------------------ MODULE METIBLTSync ------------------------------
(***************************************************************************)
(* MET_IBLTSync: the client sends ever more tables of its elements until   *)
(* the server can peel the differences from all of them together           *)
(* (MET_IBLT::peelAll), and both hosts keep the tables for later sessions. *)
(*                                                                         *)
(* A table is how often each element was inserted less erased; its cells   *)
(* are derived from that, with the assumptions of GenIBLT: the count is    *)
(* the sum, the key sum shows the elements of odd number.  place[i][e] is  *)
(* the set of cells of the i-th table that hold e.                         *)
(***************************************************************************)
EXTENDS Integers, Sequences, FiniteSets, FiniteSetsExt, SequencesExt

CONSTANTS
    Elem,      \* elements
    CellCount, \* cells of a table
    Places,    \* the placements of the elements, a sequence of tables each
    Sessions,  \* synchronizations of the two GenSync objects in a row
    MaxTables, \* bound: tables used in one session
    MaxCopies  \* bound: how often one element is listed or held; a host that would
               \* pass one of the two stops at pc "bound"

Hosts == {"client", "server"}
Other(h) == IF h = "client" THEN "server" ELSE "client"
Cells == 1..CellCount
Content == [Elem -> Int]

ASSUME METAssumption ==
    /\ IsFiniteSet(Elem)
    /\ {CellCount, Sessions, MaxTables, MaxCopies} \subseteq Nat \ {0}
    /\ \A p \in Places : p \in [1..MaxTables -> [Elem -> (SUBSET Cells) \ {{}}]]

VARIABLES
    place,   \* the placement, the same on both hosts
    copies,  \* copies[h][e]: how often e is in the elements of the SyncMethod
    tables,  \* tables[h]: myMET's tables
    mIndex,  \* mIndex[h]: the table in use, from 1
    pc,      \* pc[h]: where the host waits
    chan,    \* chan[h]: the messages on their way to h
    session, \* session[h]: the session that h is in
    diffMET, \* the server's differences, a table for each one received
    work,    \* diffCopy, which peelAll empties
    listed,  \* diffsPos and diffsNeg
    oms,     \* oms[h]: otherMinusSelf
    grew     \* history: the sessions in which tables were appended

peeling == <<diffMET, work, listed>>
peelVars == <<place, copies, tables, mIndex, pc, chan, session, peeling, oms, grew>>

Ended == {"returned", "quit"}
Waits == {"awaitFlag", "awaitLists", "recvTable"}
Sides == {"pos", "neg"}
Nothing == [e \in Elem |-> 0]
NothingListed == [s \in Sides |-> Nothing]

Plus(f, g) == [e \in Elem |-> f[e] + g[e]]
Minus(f, g) == [e \in Elem |-> f[e] - g[e]]
Indicator(S) == [e \in Elem |-> IF e \in S THEN 1 ELSE 0]
Support(f) == {e \in Elem : f[e] # 0}

PeelInit ==
    /\ place \in Places
    /\ copies \in [Hosts -> {Indicator(S) : S \in SUBSET Elem}]
    /\ tables = [h \in Hosts |-> <<copies[h]>>]
    /\ mIndex = [h \in Hosts |-> 1]
    /\ pc = [h \in Hosts |-> "begin"]
    /\ chan = [h \in Hosts |-> <<>>]
    /\ session = [h \in Hosts |-> 1]
    /\ diffMET = <<>> /\ work = <<>> /\ listed = NothingListed
    /\ oms = [h \in Hosts |-> Nothing]
    /\ grew = {}

(***************************************************************************)
(* The cells of table number i with content t (GenIBLT).                   *)
(***************************************************************************)
CountAt(i, t, c) == MapThenSumSet(LAMBDA e : t[e], {e \in Elem : c \in place[i][e]})
KeysAt(i, t, c) == {e \in Elem : c \in place[i][e] /\ t[e] % 2 = 1}
EmptyAt(i, t, c) == CountAt(i, t, c) = 0 /\ KeysAt(i, t, c) = {}
PureAt(i, t, c) == CountAt(i, t, c) \in {1, -1} /\ Cardinality(KeysAt(i, t, c)) = 1
EmptyTable(i, t) == \A c \in Cells : EmptyAt(i, t, c)

\* One entry of the scan of listEntries.
ListCell(i, s, c) ==
    LET n == CountAt(i, s.net, c)
        e == CHOOSE e \in KeysAt(i, s.net, c) : TRUE
        side == IF n = 1 THEN "pos" ELSE "neg"
    IN  IF PureAt(i, s.net, c)
        THEN [s EXCEPT !.net[e] = @ - n, ![side] = @ \cup {e}]
        ELSE s

ListPass(i, s) ==
    LET upTo[c \in 0..CellCount] == IF c = 0 THEN s ELSE ListCell(i, upTo[c - 1], c)
    IN  upTo[CellCount]

\* listEntries: an element that is listed is even from then on, so that after as
\* many passes as there are elements nothing is left to list.
ListEntries(i, t) ==
    LET after[n \in 0..Cardinality(Elem)] ==
            IF n = 0 THEN [net |-> t, pos |-> {}, neg |-> {}]
            ELSE ListPass(i, after[n - 1])
    IN  after[Cardinality(Elem)]

(***************************************************************************)
(* MET_IBLT::peelOnce: each table lists its entries, and what any of them  *)
(* lists is erased from those that did not.                                *)
(***************************************************************************)
ErasedMutant(removed, own) == removed
Erased(removed, own) == removed \ own

\* One table that has listed everything is enough.
RecoveredMutant(lists) == \A i \in DOMAIN lists : EmptyTable(i, lists[i].net)
Recovered(lists) == \E i \in DOMAIN lists : EmptyTable(i, lists[i].net)

PeelOnce(diffs) ==
    LET lists == [i \in DOMAIN diffs |-> ListEntries(i, diffs[i])]
        own(i) == lists[i].pos \cup lists[i].neg
        removed == UNION {own(i) : i \in DOMAIN diffs}
    IN  [left |-> [i \in DOMAIN diffs |->
                      Minus(lists[i].net, Indicator(Erased(removed, own(i))))],
         pos |-> UNION {lists[i].pos : i \in DOMAIN diffs},
         neg |-> UNION {lists[i].neg : i \in DOMAIN diffs},
         success |-> Recovered(lists)]

(***************************************************************************)
(* Both hosts.                                                             *)
(***************************************************************************)
Goto(h, label) == pc' = [pc EXCEPT ![h] = label]
Receives(h, type) == chan[h] # <<>> /\ Head(chan[h]).type = type
Answer(h, n, msgs) ==
    chan' = [chan EXCEPT ![h] = SubSeq(@, n + 1, Len(@)), ![Other(h)] = @ \o msgs]

Table(h, i) == [type |-> "table", content |-> tables[h][i]]
Flag(ok) == [type |-> "flag", ok |-> ok]
List(f) == [type |-> "list", copies |-> f]

\* The next index: a table is appended, and every element inserted into the table
\* of that index - which is the appended one only if none was appended before.
Grown(h) ==
    [Append(tables[h], Nothing) EXCEPT ![mIndex[h] + 1] = Plus(@, copies[h])]
Grow(h) ==
    /\ mIndex[h] < MaxTables
    /\ mIndex' = [mIndex EXCEPT ![h] = @ + 1]
    /\ tables' = [tables EXCEPT ![h] = Grown(h)]
    /\ grew' = grew \cup {session[h]}

\* The server listens, the client connects and sends the first table.
Connect ==
    /\ \A h \in Hosts : pc[h] = "begin" /\ session[h] = session[Other(h)]
    /\ pc' = [h \in Hosts |-> IF h = "client" THEN "awaitFlag" ELSE "recvTable"]
    /\ mIndex' = [h \in Hosts |-> 1]
    /\ diffMET' = <<>>
    /\ oms' = [h \in Hosts |-> Nothing]
    /\ chan' = [chan EXCEPT !["server"] = Append(@, Table("client", 1))]
    /\ UNCHANGED <<place, copies, tables, session, work, listed, grew>>

ClientFlag ==
    LET h == "client" IN
    /\ pc[h] = "awaitFlag"
    /\ Receives(h, "flag")
    /\ \/ /\ Head(chan[h]).ok
          /\ Goto(h, "awaitLists")
          /\ Answer(h, 1, <<>>)
          /\ UNCHANGED <<tables, mIndex, grew>>
       \/ /\ ~Head(chan[h]).ok
          /\ Grow(h)
          /\ Answer(h, 1, <<[type |-> "table", content |-> Grown(h)[mIndex[h] + 1]]>>)
          /\ UNCHANGED pc
    /\ UNCHANGED <<place, copies, session, peeling, oms>>

\* The first list is what the client lacks.
ClientLists ==
    LET h == "client" IN
    /\ pc[h] = "awaitLists"
    /\ Receives(h, "list") /\ Len(chan[h]) > 1
    /\ oms' = [oms EXCEPT ![h] = Head(chan[h]).copies]
    /\ Goto(h, "post")
    /\ Answer(h, 2, <<>>)
    /\ UNCHANGED <<place, copies, tables, mIndex, session, peeling, grew>>

ServerTable ==
    LET h == "server" IN
    /\ pc[h] = "recvTable"
    /\ Receives(h, "table")
    /\ diffMET' = Append(diffMET, Minus(tables[h][mIndex[h]], Head(chan[h]).content))
    /\ work' = diffMET'
    /\ listed' = NothingListed
    /\ Goto(h, "peeling")
    /\ Answer(h, 1, <<>>)
    /\ UNCHANGED <<place, copies, tables, mIndex, session, oms, grew>>

\* peelAll goes on while a pass lists anything ...
Within(f) == \A e \in Elem : f[e] <= MaxCopies
ServerPeels ==
    LET once == PeelOnce(work)
        now == [s \in Sides |-> Plus(listed[s], Indicator(once[s]))]
        within == Within(now["pos"]) /\ Within(now["neg"])
    IN
    /\ pc["server"] = "peeling"
    /\ once.pos \cup once.neg # {}
    /\ IF within THEN work' = once.left /\ listed' = now /\ UNCHANGED pc
       ELSE Goto("server", "bound") /\ UNCHANGED <<work, listed>>
    /\ UNCHANGED <<place, copies, tables, mIndex, chan, session, diffMET, oms, grew>>

ListsMutant == <<List(listed["neg"]), List(listed["pos"])>>
Lists == <<List(listed["pos"]), List(listed["neg"])>>

\* ... and succeeds when a table is empty in the last one.
ServerPeeled ==
    LET h == "server"
        once == PeelOnce(work)
    IN
    /\ pc[h] = "peeling"
    /\ once.pos \cup once.neg = {}
    /\ \/ /\ once.success
          /\ oms' = [oms EXCEPT ![h] = listed["neg"]]
          /\ Goto(h, "post")
          /\ Answer(h, 0, <<Flag(TRUE)>> \o Lists)
          /\ UNCHANGED <<tables, mIndex, grew>>
       \/ /\ ~once.success
          /\ Grow(h)
          /\ Goto(h, "recvTable")
          /\ Answer(h, 0, <<Flag(FALSE)>>)
          /\ UNCHANGED oms
       \/ /\ ~once.success /\ mIndex[h] = MaxTables
          /\ Goto(h, "bound")
          /\ UNCHANGED <<tables, mIndex, chan, oms, grew>>
    /\ UNCHANGED <<place, copies, session, peeling>>

\* addElem and delElem reach all the tables.
Everywhere(ts, f) == [i \in DOMAIN ts |-> Plus(ts[i], f)]

PostProcess(h) ==
    /\ pc[h] = "post"
    /\ IF Within(Plus(copies[h], oms[h]))
       THEN /\ copies' = [copies EXCEPT ![h] = Plus(@, oms[h])]
            /\ tables' = [tables EXCEPT ![h] = Everywhere(@, oms[h])]
            /\ session' = [session EXCEPT ![h] = @ + 1]
            /\ Goto(h, IF session[h] = Sessions THEN "returned" ELSE "begin")
       ELSE Goto(h, "bound") /\ UNCHANGED <<copies, tables, session>>
    /\ UNCHANGED <<place, mIndex, chan, peeling, oms, grew>>

\* The program adds or deletes an element between sessions.
Update(h, f) ==
    /\ pc[h] = "begin" /\ session[h] > 1
    /\ copies' = [copies EXCEPT ![h] = Plus(@, f)]
    /\ tables' = [tables EXCEPT ![h] = Everywhere(@, f)]
    /\ UNCHANGED <<place, mIndex, pc, chan, session, peeling, oms, grew>>
ProgramAdds(h, e) == copies[h][e] = 0 /\ Update(h, Indicator({e}))
ProgramDeletes(h, e) == copies[h][e] = 1 /\ Update(h, Minus(Nothing, Indicator({e})))

\* The process is killed.
Crash(h) ==
    /\ pc[h] \notin Ended
    /\ Goto(h, "quit")
    /\ UNCHANGED <<place, copies, tables, mIndex, chan, session, peeling, oms, grew>>

\* What makes a host notice that the other one is gone: a receive, and connect(), which
\* is tried MAX_CONNECTS times.  A server at "begin" is in accept(), without timeout.
Notices(h) == pc[h] \in Waits \/ (h = "client" /\ pc[h] = "begin")

\* The stream is drained, or was reset because data in it was never read.
PeerGone(h) ==
    /\ Notices(h) /\ pc[Other(h)] = "quit"
    /\ chan[h] = <<>> \/ chan[Other(h)] # <<>>
    /\ Goto(h, "quit")
    /\ UNCHANGED <<place, copies, tables, mIndex, chan, session, peeling, oms, grew>>

HostStep(h) ==
    \/ Connect
    \/ h = "client" /\ (ClientFlag \/ ClientLists)
    \/ h = "server" /\ (ServerTable \/ ServerPeels \/ ServerPeeled)
    \/ PostProcess(h) \/ PeerGone(h)

PeelNext ==
    \E h \in Hosts :
        \/ HostStep(h) \/ Crash(h)
        \/ \E e \in Elem : ProgramAdds(h, e) \/ ProgramDeletes(h, e)

PeelSpec == PeelInit /\ [][PeelNext]_peelVars

\* A host runs unless it waits for a message or for the other's next session.
CanRun(h) ==
    \/ pc[h] \in {"peeling", "post"}
    \/ pc[h] \in Waits /\ chan[h] # <<>>
    \/ Notices(h) /\ pc[Other(h)] = "quit"
    \/ \A g \in Hosts : pc[g] = "begin" /\ session[g] = session[h]

\* Weak fairness of HostStep(h), with CanRun(h) for ENABLED HostStep(h), which would
\* have to peel the tables: each host is a single thread that keeps running.
Fairness(h) == []<>~CanRun(h) \/ []<><<HostStep(h)>>_peelVars

FairSpec == PeelSpec /\ \A h \in Hosts : Fairness(h)

(***************************************************************************)
(* Properties.                                                             *)
(***************************************************************************)
PeelTypeOK ==
    /\ copies \in [Hosts -> [Elem -> 0..MaxCopies]]
    /\ tables \in [Hosts -> Seq(Content)]
    /\ mIndex \in [Hosts -> 1..MaxTables]
    /\ pc \in [Hosts -> Waits \cup Ended \cup {"begin", "peeling", "post", "bound"}]
    /\ session \in [Hosts -> 1..Sessions + 1]
    /\ {diffMET, work} \subseteq Seq(Content)
    /\ listed \in [Sides -> [Elem -> 0..MaxCopies]]
    /\ oms \in [Hosts -> [Elem -> 0..MaxCopies]]

\* No element is held twice, and tables were appended in one session at most.
Regular ==
    /\ \A h \in Hosts, e \in Elem : copies[h][e] <= 1
    /\ Cardinality(grew) <= 1

Lacks(h) == Support(copies[Other(h)]) \ Support(copies[h])

\* After every pass of peelAll all the tables still show the same elements, and
\* these are the differences that have not been listed: although erasures of
\* client's elements get their sign wrong, no element is lost or comes back.
PeelsTogether ==
    (pc["server"] = "peeling" /\ Regular) =>
        \A i \in DOMAIN work :
            {e \in Elem : work[i][e] % 2 = 1}
                = (Lacks("client") \cup Lacks("server"))
                      \ (Support(listed["pos"]) \cup Support(listed["neg"]))

\* A host is given every element it lacks and nothing else, if only one of the two
\* lacks any.
OneSidedExact ==
    \A h \in Hosts :
        ((\A g \in Hosts : pc[g] = "post") /\ Regular /\ Lacks(Other(h)) = {}) =>
            oms[h] = Indicator(Lacks(h)) /\ oms[Other(h)] = Nothing

\* Within tables the last of which sets every element apart the two hosts end,
\* whatever the first ones do and even if one is killed - except a server in accept()
\* whose client is gone, and as long as no element is held twice and no second
\* session appends tables.
Termination ==
    (/\ []Regular
     /\ \A e, f \in Elem : e # f => place[MaxTables][e] \cap place[MaxTables][f] = {})
        => /\ <>(pc["client"] \in Ended)
           /\ <>[](\/ pc["server"] \in Ended
                   \/ pc["server"] = "begin" /\ pc["client"] = "quit")
=============================================================================
