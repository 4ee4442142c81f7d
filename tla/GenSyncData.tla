------------------------------ MODULE GenSyncData ------------------------------
(***************************************************************************)
(* The data of a GenSync object and of its sync agents: addElem, delElem,  *)
(* clearData, addSyncAgt and delSyncAgt, through to the agents.            *)
(*                                                                         *)
(* GenSync and every agent keep pointers to elements; an agent also keeps  *)
(* a summary of their values, which is what it synchronizes with: a table  *)
(* (IBLT), a filter (Cuckoo), a multiset by value (Full) or hashes and the *)
(* evaluations of the characteristic polynomial (CPI, and CPIplain without *)
(* hashing).  The pointers are members of Object, each added anew; several *)
(* may have the same value.                                                *)
(***************************************************************************)
EXTENDS Integers, Sequences, FiniteSets, SequencesExt

CONSTANTS
    Object,
    val,                  \* val[o]: to_ZZ
    DataMax, FieldSize,   \* of the CPI agents
    FirstKinds,           \* the agents that the object is built with
    LaterKinds,           \* the agents that may be added
    MaxAgents,            \* bound on the agents
    MaxDeletions,         \* bound on the calls of delElem and clearData
    MaxRefused            \* bound on the elements that a filter refuses

Value == {val[o] : o \in Object}
Hashes == 0..(DataMax - 1)

CPIKinds == {"CPI", "CPIplain"}
BagKinds == {"IBLT", "Full", "Cuckoo"}
Kinds == CPIKinds \cup BagKinds

ASSUME DataAssumption ==
    /\ val \in [Object -> Nat]
    /\ DataMax \in Nat \ {0} /\ FieldSize \in Nat /\ FieldSize > DataMax
    /\ FirstKinds \in Seq(Kinds) /\ LaterKinds \subseteq Kinds
    /\ MaxAgents \in Nat /\ Len(FirstKinds) <= MaxAgents /\ MaxDeletions \in Nat
    /\ MaxRefused \in Nat

\* DATA_MAX is a power of two, so that _hash2 takes every value before it repeats one.
ASSUME StepAssumption == \A n \in 1..(DataMax - 1) : (n * 101) % DataMax # 0

VARIABLES
    myData,  \* the pointers, in the order of their addition
    agents,  \* mySyncVec
    status,  \* of the process
    answer,  \* what the last delElem or clearData returned
    deletions

vars == <<myData, agents, status, answer, deletions>>

\* An agent: its elements, its summary - a bag of values, or the CPI hash table and
\* how often the root at each hash is in the evaluations - and, as history, the
\* values of which a deletion has not been the inverse of an addition, and the elements
\* that its filter did not take.
Agent ==
    [kind : Kinds, elems : SUBSET Object, bag : [Value -> Int],
     table : UNION {[H -> Object] : H \in SUBSET Hashes}, roots : [Hashes -> Int],
     slipped : SUBSET Value, refused : SUBSET Object]

NewAgent(kind) ==
    [kind |-> kind, elems |-> {}, bag |-> [v \in Value |-> 0],
     table |-> <<>>, roots |-> [h \in Hashes |-> 0], slipped |-> {}, refused |-> {}]

AgentOK(a) ==
    /\ DOMAIN a = {"kind", "elems", "bag", "table", "roots", "slipped", "refused"}
    /\ a.kind \in Kinds /\ a.elems \subseteq Object /\ a.slipped \subseteq Value
    /\ a.refused \subseteq Object
    /\ a.bag \in [Value -> Int] /\ a.roots \in [Hashes -> Int]
    /\ DOMAIN a.table \subseteq Hashes /\ Range(a.table) \subseteq Object

TypeOK ==
    /\ myData \in Seq(Object)
    /\ Len(agents) <= MaxAgents /\ \A i \in DOMAIN agents : AgentOK(agents[i])
    /\ status \in {"running", "quit", "looping"}
    /\ answer \in BOOLEAN
    /\ deletions \in 0..MaxDeletions

Init ==
    /\ myData = <<>>
    /\ agents = [i \in DOMAIN FirstKinds |-> NewAgent(FirstKinds[i])]
    /\ status = "running"
    /\ answer = TRUE
    /\ deletions = 0

Held == Range(myData)
Copies(S, v) == Cardinality({o \in S : val[o] = v})

(***************************************************************************)
(* An agent's addElem.                                                     *)
(***************************************************************************)
\* _makeData(_hash + _hash2): the sum is taken in the field before it is reduced.
ProbeMutant(v, count) == (((v % DataMax) + ((count * 100) % DataMax)) % FieldSize) % DataMax
Probe(v, count) == (((v % DataMax) + ((count * 101) % DataMax)) % FieldSize) % DataMax

\* The counts at which a probe is free; the probes repeat after DataMax of them.
Free(a, v) == {count \in Hashes : Probe(v, count) \notin DOMAIN a.table}
Least(S) == CHOOSE n \in S : \A m \in S : n <= m

HashOfMutant(a, v) ==
    LET from == Cardinality(a.elems)
        free == {count \in from..(from + DataMax) : Probe(v, count) \notin DOMAIN a.table}
    IN IF a.kind = "CPI" THEN Probe(v, Least(free)) ELSE v % DataMax
HashOf(a, v) == IF a.kind = "CPI" THEN Probe(v, Least(Free(a, v))) ELSE v % DataMax

\* What addElem does with o: a hash that never comes free, while the table is not
\* full, is searched for for ever; the agent that returns false, or the value that
\* is too large, ends the process.
Outcome(a, o) ==
    CASE a.kind = "CPI" /\ Cardinality(DOMAIN a.table) < DataMax /\ Free(a, val[o]) = {}
           -> "looping"
      [] a.kind = "CPIplain" /\ (val[o] >= DataMax \/ val[o] % DataMax \in DOMAIN a.table)
           -> "quit"
      [] a.kind \in CPIKinds /\ Cardinality(DOMAIN a.table) >= DataMax
           -> "quit"
      [] OTHER -> "running"

\* An insertion into the filter of a Cuckoo agent may fail, which is logged: addElem
\* keeps the element and returns true.
MayFail(kind) == kind = "Cuckoo"

Added(a, o, fails) ==
    IF a.kind \in CPIKinds
    THEN LET h == HashOf(a, val[o])
         IN [a EXCEPT !.elems = @ \cup {o}, !.roots[h] = @ + 1,
                      !.table = [g \in DOMAIN @ \cup {h} |-> IF g = h THEN o ELSE @[g]]]
    ELSE IF fails THEN [a EXCEPT !.elems = @ \cup {o}, !.refused = @ \cup {o}]
    ELSE [a EXCEPT !.elems = @ \cup {o}, !.bag[val[o]] = @ + 1]

(***************************************************************************)
(* An agent's delElem.                                                     *)
(***************************************************************************)
\* SyncMethod::delElem looks for the pointer; IBLTSync does not ask what it found.
Deletes(a, o) == a.kind = "IBLT" \/ o \in a.elems

\* CPISync takes out the hash under which the pointer is stored, and its root.
WithoutRootMutant(a, o) == a.roots
WithoutRoot(a, o) ==
    [h \in Hashes |->
        IF h \in DOMAIN a.table /\ a.table[h] = o THEN a.roots[h] - 1 ELSE a.roots[h]]

\* FullSync erases every element of the value; CuckooSync leaves its filter alone.
EraseMutant(a, v) ==
    CASE a.kind = "Full" -> 0
      [] OTHER -> a.bag[v] - 1
BagAfter(a, v) ==
    CASE a.kind = "IBLT" -> a.bag[v] - 1
      [] a.kind = "Full" -> 0
      [] OTHER -> a.bag[v]

\* History: the deletions that leave a summary which is not that of the elements.
Slips(a, o) ==
    CASE a.kind = "IBLT" -> o \notin a.elems
      [] a.kind = "Full" -> Copies(a.elems, val[o]) > 1
      [] OTHER -> TRUE

Deleted(a, o) ==
    LET kept == {h \in DOMAIN a.table : a.table[h] # o}
    IN [a EXCEPT !.elems = @ \ {o},
                 !.bag[val[o]] = BagAfter(a, val[o]),
                 !.roots = WithoutRoot(a, o),
                 !.table = [h \in kept |-> @[h]],
                 !.slipped = IF Slips(a, o) THEN @ \cup {val[o]} ELSE @,
                 !.refused = @ \ {o}]

(***************************************************************************)
(* GenSync.                                                                *)
(***************************************************************************)
\* addElem: the agents in turn, until one fails; error_and_quit then.
AddElem(o) ==
    LET failed == {i \in DOMAIN agents : Outcome(agents[i], o) # "running"}
        reached(i) == \A j \in failed : i < j
    IN
    /\ status = "running"
    /\ o \notin Held
    /\ myData' = Append(myData, o)
    /\ \E lost \in SUBSET {i \in DOMAIN agents : MayFail(agents[i].kind)} :
          /\ \A i \in lost : Cardinality(agents[i].refused) < MaxRefused
          /\ agents' = [i \in DOMAIN agents |->
                           IF reached(i) THEN Added(agents[i], o, i \in lost) ELSE agents[i]]
    /\ status' = IF failed = {} THEN "running" ELSE Outcome(agents[Least(failed)], o)
    /\ UNCHANGED <<answer, deletions>>

\* delElem: the agents in turn, until one fails; the data only if none does.
WithoutMutant(s, o) == SelectSeq(s, LAMBDA p : val[p] # val[o])
Without(s, o) ==
    LET kept[i \in 0..Len(s)] ==
            IF i = 0 THEN <<>>
            ELSE IF s[i] = o THEN kept[i - 1] ELSE Append(kept[i - 1], s[i])
    IN kept[Len(s)]

Reached(i, failed) == \A j \in failed : i < j

Del(s, o) ==
    LET failed == {i \in DOMAIN s.agents : ~Deletes(s.agents[i], o)}
        left == [i \in DOMAIN s.agents |->
                    IF Reached(i, failed) THEN Deleted(s.agents[i], o) ELSE s.agents[i]]
    IN
    IF s.data = <<>> THEN [s EXCEPT !.ok = FALSE]
    ELSE IF failed # {} THEN [s EXCEPT !.agents = left, !.ok = FALSE]
    ELSE [data |-> Without(s.data, o), agents |-> left,
          ok |-> s.ok /\ o \in Range(s.data)]

Now == [data |-> myData, agents |-> agents, ok |-> TRUE]

Becomes(s) ==
    /\ deletions < MaxDeletions
    /\ deletions' = deletions + 1
    /\ myData' = s.data /\ agents' = s.agents /\ answer' = s.ok

DelElem(o) ==
    /\ status = "running"
    /\ Becomes(Del(Now, o))
    /\ UNCHANGED status

\* clearData: delElem on each pointer that it finds.
Cleared ==
    LET s[i \in 0..Len(myData)] == IF i = 0 THEN Now ELSE Del(s[i - 1], myData[i])
    IN s[Len(myData)]

ClearData ==
    /\ status = "running"
    /\ Becomes([Cleared EXCEPT !.ok = @ /\ Cleared.data = <<>>])
    /\ UNCHANGED status

\* addSyncAgt: the new agent is given the data, and error_and_quit ends the process
\* before the agent is inserted.  lost are the elements that its filter does not take.
Given(s, o, lost) ==
    IF s.status # "running" THEN s
    ELSE IF Outcome(s.agent, o) # "running"
         THEN [s EXCEPT !.status = Outcome(s.agent, o)]
         ELSE [s EXCEPT !.agent = Added(@, o, o \in lost)]

Filled(kind, lost) ==
    LET s[i \in 0..Len(myData)] ==
            IF i = 0 THEN [agent |-> NewAgent(kind), status |-> "running"]
            ELSE Given(s[i - 1], myData[i], lost)
    IN s[Len(myData)]

AddSyncAgt(kind, index) ==
    /\ status = "running"
    /\ Len(agents) < MaxAgents
    /\ \E lost \in SUBSET {o \in Held : MayFail(kind)} :
          LET new == Filled(kind, lost) IN
          /\ Cardinality(lost) <= MaxRefused
          /\ status' = new.status
          /\ agents' = IF new.status = "running"
                       THEN InsertAt(agents, index, new.agent) ELSE agents
    /\ UNCHANGED <<myData, answer, deletions>>

DelSyncAgt(index) ==
    /\ status = "running"
    /\ agents' = RemoveAt(agents, index)
    /\ UNCHANGED <<myData, status, answer, deletions>>

Next ==
    \/ \E o \in Object : AddElem(o) \/ DelElem(o)
    \/ ClearData
    \/ \E kind \in LaterKinds, index \in 1..(Len(agents) + 1) : AddSyncAgt(kind, index)
    \/ \E index \in DOMAIN agents : DelSyncAgt(index)

Spec == Init /\ [][Next]_vars

(***************************************************************************)
(* Properties.                                                             *)
(***************************************************************************)
Each(P(_)) == status = "running" => \A i \in DOMAIN agents : P(agents[i])

\* The agents hold the pointers that GenSync holds, although delElem stops at the
\* first agent that fails and leaves the ones before it without the element.
AgentsAgree == LET agrees(a) == a.elems = Held IN Each(agrees)

\* The evaluations of a CPI agent are those of its hash table, which stores each
\* element under one hash, after any additions and deletions.
RootsExact ==
    LET exact(a) ==
            a.kind \in CPIKinds =>
                /\ \A o \in a.elems : \E h \in DOMAIN a.table : a.table[h] = o
                /\ Cardinality(DOMAIN a.table) = Cardinality(a.elems)
                /\ \A h \in Hashes : a.roots[h] = IF h \in DOMAIN a.table THEN 1 ELSE 0
    IN Each(exact)

\* The elements that went into the summary of an agent: a filter may have refused some.
Inserted(a) == IF a.kind = "Cuckoo" THEN a.elems \ a.refused ELSE a.elems

\* The table of an IBLT, the filter of a Cuckoo and the multiset of a Full agent count
\* the elements that are held, less those that the filter did not take - but for values
\* of which an IBLT was told to delete an element it did not hold, a Full agent one of
\* several, or a Cuckoo agent any.  Of these a Full agent counts no more than it holds,
\* and a filter no fewer than went into it: it never misses one of them.
SummaryExact ==
    LET exact(a) ==
            a.kind \in BagKinds =>
                \A v \in Value :
                    IF v \notin a.slipped THEN a.bag[v] = Copies(Inserted(a), v)
                    ELSE /\ a.kind = "Full" => a.bag[v] <= Copies(a.elems, v)
                         /\ a.kind = "Cuckoo" => a.bag[v] >= Copies(Inserted(a), v)
    IN Each(exact)

\* The hashes that n elements of value v get in an empty table.
Reach(v) == {Probe(v, count) : count \in Hashes}
FirstAt(v, h) == Least({count \in Hashes : Probe(v, count) = h})
Alone(v, n) ==
    {h \in Reach(v) : Cardinality({g \in Reach(v) : FirstAt(v, g) < FirstAt(v, h)}) < n}

\* Two hosts with the same multiset have the same hashes, whatever the order in which
\* they added it, as long as nothing was deleted and no two values probe the same
\* hashes: the hashes are a function of the multiset.  Set reconciliation by
\* evaluations rests on it.
HashesByValue ==
    LET alone(a, v) == Alone(v, Copies(a.elems, v))
        function(a) ==
            (/\ a.kind = "CPI" /\ a.slipped = {}
             /\ \A v, w \in Value : v # w => alone(a, v) \cap alone(a, w) = {})
                => DOMAIN a.table = UNION {alone(a, v) : v \in Value}
    IN Each(function)

\* addElem can look for a free hash for ever, but only in a table with no more free
\* hashes than the field has elements beyond the hashes: m_bar + k and the gap below
\* the next prime.
LoopsOnlyBeyond == status = "looping" => Len(myData) > DataMax - (FieldSize - DataMax)
=============================================================================
