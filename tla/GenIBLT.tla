-------------------------------- MODULE GenIBLT --------------------------------
(***************************************************************************)
(* GenIBLT: two tables are filled by insert and erase, one is subtracted   *)
(* from the other, and the difference is emptied by listEntries or         *)
(* searched by get.                                                        *)
(*                                                                         *)
(* keySum, keyCheck and valueSum are exclusive-or sums over the same keys; *)
(* one set of keys stands for the three of them.  This takes keys whose    *)
(* sums and check hashes collide only when the sets of keys are equal, and *)
(* values that are determined by their key (IBLTSync inserts the element   *)
(* as both).  The hash functions are arbitrary: hash is chosen initially.  *)
(***************************************************************************)
EXTENDS Integers, FiniteSets

CONSTANTS
    Key,        \* keys
    Size,       \* hashTable.size()
    HashCount,  \* HashCount[k]: numHashes, or calcNumHashes(k)
    HashRange,  \* HashRange[k]: the hash values of k are 0..HashRange[k]-1
    Nets        \* Nets[t]: how often a key may be in table t, net of erasures

Tables == {"ours", "theirs"}
Cells == 1..Size
None == "none"

ASSUME GenIBLTAssumption ==
    /\ Size \in Nat \ {0}
    /\ HashCount \in [Key -> Nat \ {0}]
    /\ HashRange \in [Key -> Nat \ {0}]
    /\ IsFiniteSet(Key) /\ None \notin Key
    /\ Nets \in [Tables -> SUBSET Int]

\* The constructor's size for an expected number of entries.
TableSize(expected, numHashes) ==
    LET n == expected + expected \div 2 IN n + (n % numHashes)

VARIABLES
    hash,       \* hash[k][i]: value of the i-th hash function
    content,    \* content[t][k]: insertions of k into table t less erasures
    table,      \* table[t]: the hash table of t
    phase,      \* "build", "list", "get", "done" or "crashed"
    goal,       \* the key that get looks for
    diff,       \* the table that is emptied
    cursor,     \* the next cell of the scan
    erased,     \* nErased > 0
    positive, negative, \* what listEntries has listed
    found,      \* get has set its result argument to the value of goal
    cleared,    \* get has set its result argument to zero
    result      \* what listEntries or get returns

filled == <<hash, content, table>>
output == <<positive, negative, found, cleared, result>>
vars == <<hash, content, table, phase, goal, diff, cursor, erased, output>>

\* What a cell can hold: each insertion or erasure of a key moves the count by one
\* and puts the key in or takes it out.
Entry == {e \in [count : Int, keySum : SUBSET Key] :
              e.count % 2 = Cardinality(e.keySum) % 2}

(***************************************************************************)
(* The cells of a table.                                                   *)
(***************************************************************************)
HashFunctions(k) == [1..HashCount[k] -> 0..HashRange[k] - 1]
BucketsPerHash(k) == Size \div HashCount[k]
CellOf(k, i) == (i - 1) * BucketsPerHash(k) + (hash[k][i] % BucketsPerHash(k)) + 1
At(k) == {CellOf(k, i) : i \in 1..HashCount[k]}

Empty(entry) == entry.count = 0 /\ entry.keySum = {}
PureMutant(entry) == entry.count \in {1, -1} /\ entry.keySum # {}
Pure(entry) == entry.count \in {1, -1} /\ \E k \in Key : entry.keySum = {k}
KeyOf(entry) == CHOOSE k \in Key : k \in entry.keySum

SymDiff(S, T) == (S \ T) \cup (T \ S)

NewTable == [c \in Cells |-> [count |-> 0, keySum |-> {}]]

\* _insert: the key and the sign go into one cell of each hash function.
Inserted(t, n, k) ==
    [c \in Cells |->
        IF c \in At(k)
        THEN [count |-> t[c].count + n, keySum |-> SymDiff(t[c].keySum, {k})]
        ELSE t[c]]

SubtractMutant(t, u) ==
    [c \in Cells |-> [count |-> t[c].count - u[c].count,
                      keySum |-> t[c].keySum \ u[c].keySum]]
Subtract(t, u) ==
    [c \in Cells |-> [count |-> t[c].count - u[c].count,
                      keySum |-> SymDiff(t[c].keySum, u[c].keySum)]]

Init ==
    /\ hash \in [Key -> UNION {HashFunctions(k) : k \in Key}]
    /\ \A k \in Key : hash[k] \in HashFunctions(k)
    /\ content = [t \in Tables |-> [k \in Key |-> 0]]
    /\ table = [t \in Tables |-> NewTable]
    /\ phase = "build" /\ goal = None
    /\ diff = NewTable /\ cursor = 1 /\ erased = FALSE
    /\ positive = {} /\ negative = {}
    /\ found = FALSE /\ cleared = FALSE /\ result = FALSE

(***************************************************************************)
(* insert (n = 1) and erase (n = -1).                                      *)
(***************************************************************************)
Update(t, n, k) ==
    /\ phase = "build"
    /\ BucketsPerHash(k) > 0
    /\ content[t][k] + n \in Nets[t]
    /\ content' = [content EXCEPT ![t][k] = @ + n]
    /\ table' = [table EXCEPT ![t] = Inserted(@, n, k)]
    /\ UNCHANGED <<hash, phase, goal, diff, cursor, erased, output>>

\* Fewer cells than hash functions: hk % bucketsPerHash divides by zero.
Crash(k) ==
    /\ phase = "build"
    /\ BucketsPerHash(k) = 0
    /\ phase' = "crashed"
    /\ UNCHANGED <<filled, goal, diff, cursor, erased, output>>

(***************************************************************************)
(* listEntries on the difference of the two tables.                        *)
(***************************************************************************)
ListEntries ==
    /\ phase = "build"
    /\ phase' = "list"
    /\ diff' = Subtract(table["theirs"], table["ours"])
    /\ UNCHANGED <<filled, goal, cursor, erased, output>>

Scanning == phase \in {"list", "get"} /\ cursor \in Cells

Skip ==
    /\ Scanning
    /\ ~Pure(diff[cursor])
    /\ cursor' = cursor + 1
    /\ UNCHANGED <<filled, phase, goal, diff, erased, output>>

\* A pure entry is recorded (by listEntries) and its key taken out of all its cells.
PeelSign(entry) == -entry.count

Peel ==
    LET entry == diff[cursor]
        k == KeyOf(entry)
    IN
    /\ Scanning
    /\ Pure(entry)
    /\ k # goal
    /\ diff' = Inserted(diff, PeelSign(entry), k)
    /\ positive' = IF phase = "list" /\ entry.count = 1 THEN positive \cup {k} ELSE positive
    /\ negative' = IF phase = "list" /\ entry.count # 1 THEN negative \cup {k} ELSE negative
    /\ cursor' = cursor + 1 /\ erased' = TRUE
    /\ UNCHANGED <<filled, phase, goal, found, cleared, result>>

\* do ... while (nErased > 0)
AnotherMutant == FALSE
UntilEmptyMutant == \E c \in Cells : ~Empty(diff[c])
Another == erased

NextPass ==
    /\ phase \in {"list", "get"} /\ cursor > Size
    /\ Another
    /\ cursor' = 1 /\ erased' = FALSE
    /\ UNCHANGED <<filled, phase, goal, diff, output>>

AllEmpty == \A c \in Cells : Empty(diff[c])

Finish ==
    /\ phase \in {"list", "get"} /\ cursor > Size
    /\ ~Another
    /\ phase' = "done"
    /\ result' = (phase = "list" /\ AllEmpty)
    /\ UNCHANGED <<filled, goal, diff, cursor, erased, positive, negative, found, cleared>>

(***************************************************************************)
(* get: the key's own cells may answer at once; otherwise entries are      *)
(* peeled until a pure one holds the key.                                  *)
(***************************************************************************)
Telling(t, c) == Empty(t[c]) \/ Pure(t[c])

Answer(value, zero) ==
    /\ phase' = "done" /\ result' = TRUE
    /\ found' = value /\ cleared' = zero

\* The first telling cell of the key, in the order of the hash functions.
Get(k) ==
    LET t == Subtract(table["theirs"], table["ours"])
        telling == {i \in 1..HashCount[k] : Telling(t, CellOf(k, i))}
        first == CHOOSE i \in telling : \A j \in telling : i <= j
    IN
    /\ phase = "build"
    /\ BucketsPerHash(k) > 0
    /\ goal' = k
    /\ diff' = t
    /\ \/ /\ telling = {}
          /\ phase' = "get"
          /\ UNCHANGED <<found, cleared, result>>
       \/ /\ telling # {}
          /\ LET entry == t[CellOf(k, first)]
             IN Answer(entry.keySum = {k}, Pure(entry) /\ entry.keySum # {k})
    /\ UNCHANGED <<filled, cursor, erased, positive, negative>>

GetFound ==
    /\ Scanning
    /\ Pure(diff[cursor])
    /\ KeyOf(diff[cursor]) = goal
    /\ Answer(TRUE, FALSE)
    /\ UNCHANGED <<filled, goal, diff, cursor, erased, positive, negative>>

Scan == Skip \/ Peel \/ NextPass \/ Finish \/ GetFound

Next ==
    \/ \E t \in Tables, n \in {1, -1}, k \in Key : Update(t, n, k)
    \/ \E k \in Key : Crash(k) \/ Get(k)
    \/ ListEntries
    \/ Scan

Spec == Init /\ [][Next]_vars
FairSpec == Spec /\ WF_vars(Scan)

(***************************************************************************)
(* Properties.                                                             *)
(***************************************************************************)
TypeOK ==
    /\ content \in [Tables -> [Key -> Int]]
    /\ table \in [Tables -> [Cells -> Entry]]
    /\ phase \in {"build", "list", "get", "done", "crashed"}
    /\ goal \in Key \cup {None}
    /\ diff \in [Cells -> Entry]
    /\ cursor \in 1..Size + 1 /\ erased \in BOOLEAN
    /\ positive \in SUBSET Key /\ negative \in SUBSET Key
    /\ found \in BOOLEAN /\ cleared \in BOOLEAN /\ result \in BOOLEAN

Net(k) == content["theirs"][k] - content["ours"][k]

\* "The key must be distinct in the IBLT": no key more than once in either table.
Distinct == \A t \in Tables, k \in Key : content[t][k] \in {0, 1}

\* The keys that an exclusive-or sum over the difference can show.
Odd == {k \in Key : Net(k) % 2 = 1}
Listed == positive \cup negative
Holding(S, c) == {k \in S : c \in At(k)}

\* Keys that can never be singled out: the largest set of differing keys no cell of
\* which holds exactly one of them.
Stuck(S) == \A c \in Cells : Cardinality(Holding(S, c)) # 1
Core == UNION {S \in SUBSET Odd : Stuck(S)}

\* Whatever is inserted and erased, in which order and how often, and however the
\* scan has proceeded, each cell shows the differing keys not yet listed: no key is
\* ever listed twice and none comes back (_insert, operator-= and listEntries).
Residual ==
    phase = "list" \/ (phase = "done" /\ goal = None) =>
        \A c \in Cells : diff[c].keySum = Holding(Odd \ Listed, c)

\* With distinct keys everything listed is on the right side (listEntries).
RightSide ==
    Distinct => /\ positive \subseteq {k \in Key : Net(k) = 1}
                /\ negative \subseteq {k \in Key : Net(k) = -1}

\* With distinct keys listEntries lists every differing key but those of the core, on
\* its own side, whatever the order of the cells, and returns true exactly when none
\* is left.
PeelsExactly ==
    (Distinct /\ phase = "done" /\ goal = None) =>
        /\ positive = {k \in Odd \ Core : Net(k) = 1}
        /\ negative = {k \in Odd \ Core : Net(k) = -1}
        /\ result <=> Core = {}

\* With distinct keys a true from get is the truth about the key.
GetSound ==
    (Distinct /\ phase = "done" /\ goal # None /\ result) => (found <=> goal \in Odd)

\* Every listing and every search ends, even when keys are inserted twice or erased
\* without having been inserted (the do-while loops of listEntries and get).
Terminates == phase \in {"list", "get"} ~> phase = "done"
=============================================================================
