----------------------------- MODULE IBLTMultiset ------------------------------
(***************************************************************************)
(* IBLTMultiset and IBLTSync_Multiset: the two hosts fill their tables,    *)
(* the server subtracts its own from the client's and lists the            *)
(* difference, copy by copy, and both add what they lack; or the program   *)
(* asks the difference for a key.                                          *)
(*                                                                         *)
(* count, keySum, keyCheck and valueSum are sums over the same keys, each  *)
(* with its sign: a cell is the number of copies of every key in it, which *)
(* takes sums and check hashes to be those of other copies only if they    *)
(* are the same copies, and values to be determined by their key, as in    *)
(* addElem.  The value size is that of a ZZ, without which insert quits.   *)
(* A table is sent without the signs of its counts and sums: the client    *)
(* has no key that it has erased more often than inserted.                 *)
(***************************************************************************)
EXTENDS Integers, FiniteSets, FiniteSetsExt

CONSTANTS
    Key,         \* keys
    Zero,        \* the key 0, which adds nothing to keySum
    NumHashes,   \* N_HASH
    Buckets,     \* cells per hash function: bucketsPerHash
    Nets         \* Nets[t][k]: copies of k in table t, less erasures

Tables == {"ours", "theirs"}
None == "none"
Cells == 1..NumHashes * Buckets

ASSUME IBLTMultisetAssumption ==
    /\ IsFiniteSet(Key) /\ None \notin Key
    /\ NumHashes \in Nat \ {0} /\ Buckets \in Nat \ {0}
    /\ Nets \in [Tables -> [Key -> SUBSET Int]]
    /\ Nets["theirs"] \in [Key -> SUBSET Nat]

VARIABLES
    hash,       \* hash[k][i]: value of the i-th hash function, modulo Buckets
    content,    \* content[t][k]: copies of k that the host of t holds
    table,      \* table[t]: the hash table of t
    phase,      \* "build", "list", "get", "done" or "merged"
    goal,       \* the key that get looks for
    diff,       \* the difference, which is emptied
    cursor,     \* the next cell of the scan
    erased,     \* nErased > 0
    positive, negative, \* copies of each key that listEntries has listed
    value,      \* the key whose value is get's result
    result      \* what listEntries or get returns

filled == <<hash, content, table>>
listed == <<positive, negative>>
vars == <<hash, content, table, phase, goal, diff, cursor, erased, listed, value, result>>

(***************************************************************************)
(* Cells.                                                                  *)
(***************************************************************************)
HashFunctions == [1..NumHashes -> 0..Buckets - 1]
CellOf(k, i) == (i - 1) * Buckets + hash[k][i] + 1
At(k) == {CellOf(k, i) : i \in 1..NumHashes}

Held(entry) == {k \in Key : entry[k] # 0}
Empty(entry) == \A k \in Key : entry[k] = 0

\* isPure or isMultiPure: copies of one key, which is not 0.
PureMutant(entry) == \E k \in Key \ {Zero} : Held(entry) = {k} /\ entry[k] \in {1, -1}
Pure(entry) == \E k \in Key \ {Zero} : Held(entry) = {k}
KeyOf(entry) == CHOOSE k \in Key : Held(entry) = {k}

NoCopies == [k \in Key |-> 0]
NewTable == [c \in Cells |-> NoCopies]

\* _insertModular of n copies: one cell of each hash function.
Inserted(t, n, k) ==
    [c \in Cells |-> IF c \in At(k) THEN [t[c] EXCEPT ![k] = @ + n] ELSE t[c]]

Subtract(t, u) == [c \in Cells |-> [k \in Key |-> t[c][k] - u[c][k]]]

Init ==
    /\ hash \in [Key -> HashFunctions]
    /\ content = [t \in Tables |-> NoCopies]
    /\ table = [t \in Tables |-> NewTable]
    /\ phase = "build" /\ goal = None
    /\ diff = NewTable /\ cursor = 1 /\ erased = FALSE
    /\ positive = NoCopies /\ negative = NoCopies
    /\ value = None /\ result = FALSE

\* insert (n = 1) and erase (n = -1), addElem and delElem.
Update(t, n, k) ==
    /\ phase = "build"
    /\ content[t][k] + n \in Nets[t][k]
    /\ content' = [content EXCEPT ![t][k] = @ + n]
    /\ table' = [table EXCEPT ![t] = Inserted(@, n, k)]
    /\ UNCHANGED <<hash, phase, goal, diff, cursor, erased, listed, value, result>>

(***************************************************************************)
(* listEntries: one copy is listed and taken out at each visit of a cell   *)
(* that holds copies of one key, in passes until one finds none.           *)
(***************************************************************************)
ListEntries ==
    /\ phase = "build"
    /\ phase' = "list"
    /\ diff' = Subtract(table["theirs"], table["ours"])
    /\ UNCHANGED <<filled, goal, cursor, erased, listed, value, result>>

Scanning == phase \in {"list", "get"} /\ cursor \in Cells

Skip ==
    /\ Scanning
    /\ ~Pure(diff[cursor])
    /\ cursor' = cursor + 1
    /\ UNCHANGED <<filled, phase, goal, diff, erased, listed, value, result>>

Sign(entry) == IF entry[KeyOf(entry)] > 0 THEN 1 ELSE -1

Peel ==
    LET entry == diff[cursor]
        k == KeyOf(entry)
    IN
    /\ Scanning
    /\ Pure(entry) /\ k # goal
    /\ diff' = Inserted(diff, -Sign(entry), k)
    /\ IF phase = "list"
       THEN /\ positive' = [positive EXCEPT ![k] = @ + IF entry[k] > 0 THEN 1 ELSE 0]
            /\ negative' = [negative EXCEPT ![k] = @ + IF entry[k] < 0 THEN 1 ELSE 0]
       ELSE UNCHANGED listed
    /\ cursor' = cursor + 1 /\ erased' = TRUE
    /\ UNCHANGED <<filled, phase, goal, value, result>>

\* do ... while (nErased > 0)
AnotherMutant == \E c \in Cells : ~Empty(diff[c])
Another == erased

NextPass ==
    /\ phase \in {"list", "get"} /\ cursor \notin Cells
    /\ Another
    /\ cursor' = 1 /\ erased' = FALSE
    /\ UNCHANGED <<filled, phase, goal, diff, listed, value, result>>

Finish ==
    /\ phase \in {"list", "get"} /\ cursor \notin Cells
    /\ ~Another
    /\ phase' = "done"
    /\ result' = (phase = "list" /\ \A c \in Cells : Empty(diff[c]))
    /\ UNCHANGED <<filled, goal, diff, cursor, erased, listed, value>>

\* Each host adds what the other has more of, whether or not all was listed.
GainMutant(t) == [k \in Key |-> IF positive[k] + negative[k] > 0 THEN 1 ELSE 0]
Gain(t) == IF t = "ours" THEN positive ELSE negative

Merge ==
    /\ phase = "done" /\ goal = None
    /\ phase' = "merged"
    /\ content' = [t \in Tables |-> [k \in Key |-> content[t][k] + Gain(t)[k]]]
    /\ table' = [t \in Tables |-> [c \in Cells |-> [k \in Key |->
                    table[t][c][k] + IF c \in At(k) THEN Gain(t)[k] ELSE 0]]]
    /\ UNCHANGED <<hash, goal, diff, cursor, erased, listed, value, result>>

(***************************************************************************)
(* get: the first of the key's cells that is empty, or holds copies of one *)
(* key, answers, even if that key is another; else entries are peeled.     *)
(***************************************************************************)
TellingMutant(entry) == Empty(entry) \/ MapThenSumSet(LAMBDA k : entry[k], Key) # 0
Telling(entry) == Empty(entry) \/ Pure(entry)
Told(entry) == IF Empty(entry) THEN None ELSE CHOOSE k \in Key : k \in Held(entry)

Get(k) ==
    LET t == Subtract(table["theirs"], table["ours"])
        telling == {i \in 1..NumHashes : Telling(t[CellOf(k, i)])}
    IN
    /\ phase = "build"
    /\ goal' = k
    /\ diff' = t
    /\ IF telling = {}
       THEN phase' = "get" /\ UNCHANGED <<value, result>>
       ELSE /\ phase' = "done" /\ result' = TRUE
            /\ value' = Told(t[CellOf(k, Min(telling))])
    /\ UNCHANGED <<filled, cursor, erased, listed>>

GetFound ==
    /\ Scanning
    /\ Pure(diff[cursor]) /\ KeyOf(diff[cursor]) = goal
    /\ phase' = "done" /\ result' = TRUE /\ value' = goal
    /\ UNCHANGED <<filled, goal, diff, cursor, erased, listed>>

Scan == Skip \/ Peel \/ NextPass \/ Finish \/ GetFound

Next ==
    \/ \E t \in Tables, n \in {1, -1}, k \in Key : Update(t, n, k)
    \/ \E k \in Key : Get(k)
    \/ ListEntries \/ Scan \/ Merge

Spec == Init /\ [][Next]_vars
FairSpec == Spec /\ WF_vars(Scan)

(***************************************************************************)
(* Properties.                                                             *)
(***************************************************************************)
TypeOK ==
    /\ hash \in [Key -> HashFunctions]
    /\ content \in [Tables -> [Key -> Int]]
    /\ table \in [Tables -> [Cells -> [Key -> Int]]]
    /\ phase \in {"build", "list", "get", "done", "merged"}
    /\ goal \in Key \cup {None}
    /\ diff \in [Cells -> [Key -> Int]]
    /\ cursor \in 1..NumHashes * Buckets + 1 /\ erased \in BOOLEAN
    /\ positive \in [Key -> Nat] /\ negative \in [Key -> Nat]
    /\ value \in Key \cup {None} /\ result \in BOOLEAN

Net(k) == content["theirs"][k] - content["ours"][k]

\* Whatever was inserted and erased and however far the scan is, every cell of a key
\* has the copies that the hosts differ by, less those listed: the copies taken out in
\* one cell are out of all (_insertModular, operator-= and listEntries).
Residual ==
    (phase = "list" \/ (phase = "done" /\ goal = None)) =>
        \A c \in Cells, k \in Key :
            diff[c][k] = IF c \in At(k) THEN Net(k) - positive[k] + negative[k] ELSE 0

\* The keys that can never be alone in a cell: the largest set of differing keys no
\* cell of which holds one of them only, where 0 is never seen to be alone.
Holding(S, c) == {k \in S : c \in At(k)}
StuckSet(S) == \A c \in Cells, k \in Key : Holding(S, c) = {k} => k = Zero
Differing == {k \in Key : Net(k) # 0}
Core == UNION {S \in SUBSET Differing : StuckSet(S)}

\* listEntries lists the copies of a key all or none, on the right side, and all of
\* them for every key outside the core; it returns true exactly if the core is empty.
PeelsExactly ==
    (phase = "done" /\ goal = None) =>
        /\ \A k \in Key :
              /\ positive[k] = IF k \in Core \/ Net(k) < 0 THEN 0 ELSE Net(k)
              /\ negative[k] = IF k \in Core \/ Net(k) > 0 THEN 0 ELSE -Net(k)
        /\ result <=> Core = {}

\* get answers a key that the difference holds with its own value or not at all.  (Of
\* a key that it does not hold, get may say that it has the value of another.)
HeldKeysRight ==
    (phase = "done" /\ goal # None /\ result /\ Net(goal) # 0) => value = goal

\* A synchronization gives no host more copies of a key than the other had, and when
\* listEntries returned true both have the same (SyncServer, SyncClient).
MergesExactly ==
    [][Merge => /\ \A t \in Tables, k \in Key :
                      content'[t][k] \in {content["ours"][k], content["theirs"][k]}
                /\ result => content'["ours"] = content'["theirs"]]_vars

\* Every listing and every search ends (the do-while loops of listEntries and get).
Terminates == phase \in {"list", "get"} ~> phase = "done"
=============================================================================
