----------------------------- MODULE IBLTSetsProofs ----------------------------
(***************************************************************************)
(* Proofs about the two kinds of sets that IBLTs reconcile.  IBLTMultiset: *)
(* what listEntries lists, and what the hosts hold afterwards.             *)
(* IBLTSetOfSets: that hashes and children stay in step, that nothing is   *)
(* lost, and that a complete pairing makes the hosts equal.                *)
(***************************************************************************)
EXTENDS IBLTMultiset, IBLTSetOfSets, FiniteSetTheorems, SequenceTheorems,
        WellFoundedInduction, TLAPS

(***************************************************************************)
(* The least of some numbers.                                              *)
(***************************************************************************)
\* Of natural numbers one is the least.
LEMMA LeastNumber ==
    ASSUME NEW T \in SUBSET Nat, T # {}
    PROVE  \E x \in T : \A y \in T : x <= y
<1> DEFINE R == {ss \in Nat \X Nat : ss[1] < ss[2]}
<1>1. IsWellFoundedOn(R, Nat)
  BY NatLessThanWellFounded DEF OpToRel
<1>2. PICK x \in T : \A y \in T : <<y, x>> \notin R
  <2> HIDE DEF R
  <2> QED
    BY <1>1, WFMin
<1>3. \A y \in T : x <= y
  <2> SUFFICES ASSUME NEW y \in T PROVE x <= y
    OBVIOUS
  <2>1. <<y, x>> \in Nat \X Nat /\ <<y, x>>[1] = y /\ <<y, x>>[2] = x
    OBVIOUS
  <2>2. ~(y < x)
    BY <1>2, <2>1
  <2> QED
    BY <2>2
<1> QED
  BY <1>3

(***************************************************************************)
(* IBLTMultiset.                                                           *)
(***************************************************************************)
Listing == phase = "list" \/ (phase = "done" /\ goal = None)

\* TypeOK, without the two results that no step of listEntries reads.
Shapes ==
    /\ hash \in [Key -> HashFunctions]
    /\ content \in [Tables -> [Key -> Int]]
    /\ table \in [Tables -> [Cells -> [Key -> Int]]]
    /\ phase \in {"build", "list", "get", "done", "merged"}
    /\ goal \in Key \cup {None}
    /\ diff \in [Cells -> [Key -> Int]]
    /\ cursor \in 1..NumHashes * Buckets + 1 /\ erased \in BOOLEAN
    /\ positive \in [Key -> Nat] /\ negative \in [Key -> Nat]

\* What get looks for, and that nothing is listed before listEntries.
Goals ==
    /\ phase \in {"build", "list", "merged"} => goal = None
    /\ phase = "get" => goal \in Key
    /\ phase = "build" => positive = NoCopies /\ negative = NoCopies /\ cursor = 1

\* A table holds every copy in each cell of its key.
Filled ==
    \A t \in Tables, c \in Cells, k \in Key :
        table[t][c][k] = IF c \in At(k) THEN content[t][k] ELSE 0

\* No more copies are listed than the hosts differ by, and on one side only.
Sided ==
    Listing => \A k \in Key :
        IF Net(k) >= 0 THEN negative[k] = 0 /\ positive[k] <= Net(k)
                       ELSE positive[k] = 0 /\ negative[k] <= -Net(k)

\* A cell that holds copies of k only.
Alone(k, c) == \A j \in Key \ {k} : diff[c][j] = 0

\* No copy of a key that is stuck with others is ever listed.
CoreKept ==
    Listing => \A S \in SUBSET Differing :
        StuckSet(S) => \A k \in S : positive[k] = 0 /\ negative[k] = 0

\* A pass that has taken nothing out has met no cell with copies of one key.
Scanned ==
    /\ phase = "list" /\ ~erased => \A c \in Cells : c < cursor => ~Pure(diff[c])
    /\ phase = "done" /\ goal = None =>
          /\ \A c \in Cells : ~Pure(diff[c])
          /\ result <=> \A c \in Cells : Empty(diff[c])

MultisetInv ==
    Shapes /\ Goals /\ Filled /\ Residual /\ Sided /\ CoreKept /\ Scanned

\* Cells and tables of no copies.
LEMMA CellTypes ==
    /\ Cells \subseteq Nat
    /\ NumHashes * Buckets \in Nat \ {0}
    /\ NoCopies \in [Key -> Int] /\ NoCopies \in [Key -> Nat]
    /\ NewTable \in [Cells -> [Key -> Int]]
<1>1. NumHashes * Buckets \in Nat \ {0}
  <2>1. NumHashes \in Nat \ {0} /\ Buckets \in Nat \ {0}
    BY IBLTMultisetAssumption
  <2>2. \A m, n \in Nat \ {0} : m * n \in Nat \ {0}
    BY SMT
  <2> QED
    BY <2>1, <2>2
<1> QED
  BY <1>1 DEF Cells, NoCopies, NewTable

\* The cells of a key exist, and there is one.
LEMMA KeyCells ==
    ASSUME hash \in [Key -> HashFunctions], NEW k \in Key
    PROVE  At(k) \subseteq Cells /\ At(k) # {}
<1>1. NumHashes \in Nat \ {0} /\ Buckets \in Nat \ {0}
  BY IBLTMultisetAssumption
<1>2. \A i \in 1..NumHashes : hash[k][i] \in 0..Buckets - 1
  BY DEF HashFunctions
<1>3. ASSUME NEW i \in 1..NumHashes
      PROVE  CellOf(k, i) \in Cells
  <2> DEFINE h == hash[k][i]
  <2>1. h \in 0..Buckets - 1
    BY <1>2
  <2>2. (i - 1) * Buckets \in Nat /\ (i - 1) * Buckets <= (NumHashes - 1) * Buckets
    <3>1. \A a, b, m \in Nat : a <= b => a * m \in Nat /\ a * m <= b * m
      BY SMT
    <3>2. i - 1 \in Nat /\ NumHashes - 1 \in Nat /\ i - 1 <= NumHashes - 1
      BY <1>1
    <3> QED
      BY <1>1, <3>1, <3>2
  <2>3. (NumHashes - 1) * Buckets = NumHashes * Buckets - Buckets
    BY <1>1
  <2>4. NumHashes * Buckets \in Nat
    BY CellTypes
  <2>5. CellOf(k, i) = (i - 1) * Buckets + h + 1
    BY DEF CellOf
  <2> HIDE DEF h
  <2>6. \A p, q, b, g \in Nat : p <= q - b /\ g <= b - 1 => p + g + 1 \in 1..q
    BY SMT
  <2> QED
    BY <1>1, <2>1, <2>2, <2>3, <2>4, <2>5, <2>6 DEF Cells
<1>4. 1 \in 1..NumHashes
  BY <1>1
<1> QED
  BY <1>3, <1>4 DEF At

\* A cell that holds copies of one key, and what is left in the cells after a peeling.
LEMMA PureKey ==
    ASSUME NEW entry \in [Key -> Int], Pure(entry)
    PROVE  /\ KeyOf(entry) \in Key \ {Zero}
           /\ entry[KeyOf(entry)] # 0
           /\ \A j \in Key \ {KeyOf(entry)} : entry[j] = 0
<1>1. PICK k \in Key \ {Zero} : Held(entry) = {k}
  BY DEF Pure
<1>2. KeyOf(entry) \in Key /\ Held(entry) = {KeyOf(entry)}
  BY <1>1 DEF KeyOf
<1> QED
  BY <1>1, <1>2 DEF Held

\* What an insertion changes in a cell.
LEMMA InsertedCell ==
    ASSUME NEW t \in [Cells -> [Key -> Int]], NEW n \in Int, NEW k \in Key
    PROVE  /\ Inserted(t, n, k) \in [Cells -> [Key -> Int]]
           /\ \A c \in Cells, j \in Key :
                 Inserted(t, n, k)[c][j] =
                     IF j = k /\ c \in At(k) THEN t[c][j] + n ELSE t[c][j]
BY DEF Inserted

\* What a subtraction leaves in a cell.
LEMMA SubtractCell ==
    ASSUME NEW t \in [Cells -> [Key -> Int]], NEW u \in [Cells -> [Key -> Int]]
    PROVE  /\ Subtract(t, u) \in [Cells -> [Key -> Int]]
           /\ \A c \in Cells, j \in Key : Subtract(t, u)[c][j] = t[c][j] - u[c][j]
BY DEF Subtract

\* The invariant holds at first.
LEMMA InvInit == Init => MultisetInv
<1> SUFFICES ASSUME Init PROVE MultisetInv
  OBVIOUS
<1>1. Shapes
  <2>1. 1 \in 1..NumHashes * Buckets + 1
    BY CellTypes
  <2> QED
    BY <2>1, CellTypes DEF Init, Shapes, Tables
<1>2. Goals /\ Filled /\ Residual /\ Sided /\ CoreKept /\ Scanned
  BY CellTypes
     DEF Init, Goals, Filled, Residual, Sided, CoreKept, Scanned, Listing,
         NewTable, NoCopies, Tables
<1> QED
  BY <1>1, <1>2 DEF MultisetInv

\* The types are kept by every action.
LEMMA TypeStep ==
    ASSUME Shapes, Goals, [Next]_vars
    PROVE  Shapes'
<1> USE DEF Shapes
<1>1. ASSUME NEW t \in Tables, NEW n \in {1, -1}, NEW k \in Key, Update(t, n, k)
      PROVE  Shapes'
  <2>1. /\ content' = [content EXCEPT ![t][k] = @ + n]
        /\ table' = [table EXCEPT ![t] = Inserted(@, n, k)]
    BY <1>1 DEF Update
  <2>2. Inserted(table[t], n, k) \in [Cells -> [Key -> Int]]
    <3>1. table[t] \in [Cells -> [Key -> Int]] /\ n \in Int
      OBVIOUS
    <3> QED
      BY <3>1, InsertedCell
  <2>3. /\ content' \in [Tables -> [Key -> Int]]
        /\ table' \in [Tables -> [Cells -> [Key -> Int]]]
    BY <2>1, <2>2
  <2> QED
    BY <1>1, <2>3 DEF Update, listed
<1>2. \A t, u \in Tables : Subtract(table[t], table[u]) \in [Cells -> [Key -> Int]]
  BY SubtractCell
<1>3. ASSUME NEW k \in Key, Get(k)
      PROVE  Shapes'
  <2>1. goal' = k /\ diff' \in [Cells -> [Key -> Int]]
    BY <1>2, <1>3 DEF Get, Tables
  <2>2. phase' \in {"get", "done"}
    BY <1>3 DEF Get
  <2> QED
    BY <1>3, <2>1, <2>2 DEF Get, filled, listed
<1>4. CASE ListEntries
  <2>1. diff' \in [Cells -> [Key -> Int]]
    BY <1>2, <1>4 DEF ListEntries, Tables
  <2> QED
    BY <1>4, <2>1 DEF ListEntries, filled, listed
<1>5. CASE Skip \/ GetFound
  <2>1. CASE Skip
    <3>1. cursor \in Cells /\ cursor' = cursor + 1
      BY <2>1 DEF Skip, Scanning
    <3>2. cursor' \in 1..NumHashes * Buckets + 1
      BY <3>1, CellTypes DEF Cells
    <3> QED
      BY <2>1, <3>2 DEF Skip, filled, listed
  <2>2. CASE GetFound
    BY <2>2 DEF GetFound, filled, listed
  <2> QED
    BY <1>5, <2>1, <2>2
<1>6. CASE Peel
  <2> DEFINE entry == diff[cursor]
             k == KeyOf(entry)
  <2>1. cursor \in Cells /\ Pure(entry) /\ entry \in [Key -> Int]
    BY <1>6 DEF Peel, Scanning
  <2>2. k \in Key /\ Sign(entry) \in Int
    BY <2>1, PureKey DEF Sign
  <2>3. diff' \in [Cells -> [Key -> Int]]
    <3>1. diff' = Inserted(diff, -Sign(entry), k) /\ -Sign(entry) \in Int
      BY <1>6, <2>2 DEF Peel
    <3> QED
      BY <2>2, <3>1, InsertedCell
  <2>4. positive' \in [Key -> Nat] /\ negative' \in [Key -> Nat]
    <3> HIDE DEF k
    <3>1. CASE phase = "list"
      <4>1. /\ positive' = [positive EXCEPT ![k] = @ + IF entry[k] > 0 THEN 1 ELSE 0]
            /\ negative' = [negative EXCEPT ![k] = @ + IF entry[k] < 0 THEN 1 ELSE 0]
        BY <1>6, <3>1 DEF Peel, k
      <4> QED
        BY <2>2, <4>1
    <3>2. CASE phase # "list"
      BY <1>6, <3>2 DEF Peel, listed
    <3> QED
      BY <3>1, <3>2
  <2>5. cursor' \in 1..NumHashes * Buckets + 1
    BY <1>6, <2>1, CellTypes DEF Peel, Cells
  <2> QED
    BY <1>6, <2>3, <2>4, <2>5 DEF Peel, filled
<1>7. CASE NextPass \/ Finish
  <2>1. 1 \in 1..NumHashes * Buckets + 1
    BY CellTypes
  <2>2. CASE NextPass
    BY <2>1, <2>2 DEF NextPass, filled, listed
  <2>3. CASE Finish
    BY <2>3 DEF Finish, filled, listed
  <2> QED
    BY <1>7, <2>2, <2>3
<1>8. CASE Merge
  <2>1. \A t \in Tables : Gain(t) \in [Key -> Nat]
    BY DEF Gain
  <2>2. /\ content' \in [Tables -> [Key -> Int]]
        /\ table' \in [Tables -> [Cells -> [Key -> Int]]]
    BY <1>8, <2>1 DEF Merge
  <2> QED
    BY <1>8, <2>2 DEF Merge, listed
<1>9. CASE UNCHANGED vars
  BY <1>9 DEF vars, filled, listed
<1> QED
  BY <1>1, <1>3, <1>4, <1>5, <1>6, <1>7, <1>8, <1>9 DEF Next, Scan

\* A step keeps what get looks for.
LEMMA GoalsStep ==
    ASSUME Shapes, Goals, [Next]_vars
    PROVE  Goals'
<1>1. ASSUME NEW t \in Tables, NEW n \in {1, -1}, NEW k \in Key, Update(t, n, k)
      PROVE  Goals'
  BY <1>1 DEF Update, Goals, listed, NoCopies
<1>2. ASSUME NEW k \in Key, Get(k)
      PROVE  Goals'
  BY <1>2 DEF Get, Goals
<1>3. CASE ListEntries \/ Merge
  BY <1>3 DEF ListEntries, Merge, Goals
<1>4. CASE Scan
  BY <1>4 DEF Scan, Scanning, Skip, Peel, NextPass, Finish, GetFound, Goals, listed
<1>5. CASE UNCHANGED vars
  BY <1>5 DEF vars, filled, listed, Goals, NoCopies
<1> QED
  BY <1>1, <1>2, <1>3, <1>4, <1>5 DEF Next

\* A step keeps the tables filled.
LEMMA FilledStep ==
    ASSUME Shapes, Filled, [Next]_vars
    PROVE  Filled'
<1> USE DEF Shapes
<1>1. ASSUME NEW t \in Tables, NEW n \in {1, -1}, NEW k \in Key, Update(t, n, k)
      PROVE  Filled'
  <2>1. /\ content' = [content EXCEPT ![t][k] = @ + n]
        /\ table' = [table EXCEPT ![t] = Inserted(@, n, k)]
        /\ hash' = hash
    BY <1>1 DEF Update
  <2>2. table[t] \in [Cells -> [Key -> Int]] /\ n \in Int
    OBVIOUS
  <2>3. \A c \in Cells, j \in Key :
           Inserted(table[t], n, k)[c][j] =
               IF j = k /\ c \in At(k) THEN table[t][c][j] + n ELSE table[t][c][j]
    BY <2>2 DEF Inserted
  <2>4. \A u \in Tables, j \in Key :
           content'[u][j] = IF u = t /\ j = k THEN content[u][j] + n ELSE content[u][j]
    BY <2>1
  <2>5. \A u \in Tables : table'[u] = IF u = t THEN Inserted(table[t], n, k) ELSE table[u]
    BY <2>1
  <2>6. \A j : At(j)' = At(j)
    BY <2>1 DEF At, CellOf
  <2>7. ASSUME NEW u \in Tables, NEW c \in Cells, NEW j \in Key
        PROVE  table'[u][c][j] = IF c \in At(j) THEN content'[u][j] ELSE 0
    <3>1. table[u][c][j] = IF c \in At(j) THEN content[u][j] ELSE 0
      BY DEF Filled
    <3>2. table'[u][c][j] = IF u = t /\ j = k /\ c \in At(k) THEN table[u][c][j] + n
                                                           ELSE table[u][c][j]
      BY <2>3, <2>5
    <3> QED
      BY <3>1, <3>2, <2>4
  <2> QED
    BY <2>6, <2>7 DEF Filled
<1>2. CASE Merge
  <2>1. \A t \in Tables : Gain(t) \in [Key -> Nat]
    BY DEF Gain
  <2>2. \A j : At(j)' = At(j)
    BY <1>2 DEF Merge, At, CellOf
  <2>3. /\ \A t \in Tables, k \in Key : content'[t][k] = content[t][k] + Gain(t)[k]
        /\ \A t \in Tables, c \in Cells, k \in Key :
              table'[t][c][k] = table[t][c][k] + IF c \in At(k) THEN Gain(t)[k] ELSE 0
    BY <1>2 DEF Merge
  <2>4. ASSUME NEW t \in Tables, NEW c \in Cells, NEW j \in Key
        PROVE  table'[t][c][j] = IF c \in At(j) THEN content'[t][j] ELSE 0
    <3>1. table[t][c][j] = IF c \in At(j) THEN content[t][j] ELSE 0
      BY DEF Filled
    <3>2. content[t][j] \in Int /\ Gain(t)[j] \in Int
      BY <2>1
    <3> QED
      BY <3>1, <3>2, <2>3
  <2> QED
    BY <2>2, <2>4 DEF Filled
<1>3. ASSUME UNCHANGED filled
      PROVE  Filled'
  <2>1. hash' = hash /\ content' = content /\ table' = table
    BY <1>3 DEF filled
  <2>2. \A j : At(j)' = At(j)
    BY <2>1 DEF At, CellOf
  <2> QED
    BY <2>1, <2>2 DEF Filled
<1>4. CASE Scan \/ ListEntries \/ \E k \in Key : Get(k)
  <2>1. UNCHANGED filled
    BY <1>4 DEF Scan, Skip, Peel, NextPass, Finish, GetFound, Get, ListEntries
  <2> QED
    BY <2>1, <1>3
<1>5. CASE UNCHANGED vars
  <2>1. UNCHANGED filled
    BY <1>5 DEF vars, filled
  <2> QED
    BY <2>1, <1>3
<1> QED
  BY <1>1, <1>2, <1>4, <1>5 DEF Next

\* A step that changes nothing of a listing.
Same == UNCHANGED <<hash, content, diff, positive, negative>>
\* How a step can lead to, or stay in, a listing.
LEMMA ListingCases ==
    ASSUME Shapes, Goals, [Next]_vars, Listing'
    PROVE  ListEntries \/ (Listing /\ Same) \/ (phase = "list" /\ Peel)
<1> USE DEF Listing, Same, Goals, Shapes, filled, listed
<1>1. ASSUME NEW t \in Tables, NEW n \in {1, -1}, NEW k \in Key, Update(t, n, k)
      PROVE  FALSE
  BY <1>1 DEF Update
<1>2. ASSUME NEW k \in Key, Get(k)
      PROVE  FALSE
  <2>1. goal' = k /\ phase' \in {"get", "done"}
    BY <1>2 DEF Get
  <2> QED
    BY <2>1, IBLTMultisetAssumption
<1>3. ~Merge
  BY DEF Merge
<1>4. CASE Skip
  BY <1>4, IBLTMultisetAssumption DEF Skip, Scanning
<1>5. CASE Peel
  BY <1>5, IBLTMultisetAssumption DEF Peel, Scanning
<1>6. CASE NextPass
  BY <1>6, IBLTMultisetAssumption DEF NextPass
<1>7. CASE Finish
  BY <1>7, IBLTMultisetAssumption DEF Finish
<1>8. ~GetFound
  <2> SUFFICES ASSUME GetFound PROVE FALSE
    OBVIOUS
  <2>1. KeyOf(diff[cursor]) \in Key /\ KeyOf(diff[cursor]) = goal /\ goal' = goal
    BY PureKey DEF GetFound, Scanning
  <2> QED
    BY <2>1, IBLTMultisetAssumption DEF GetFound
<1>9. CASE UNCHANGED vars
  BY <1>9 DEF vars
<1> QED
  BY <1>1, <1>2, <1>3, <1>4, <1>5, <1>6, <1>7, <1>8, <1>9 DEF Next, Scan

\* A peeling during a listing: one copy of a key alone in the cell goes from all its
\* cells to one of the lists.
LEMMA Peeled ==
    ASSUME Shapes, Goals, Residual, phase = "list", Peel
    PROVE  \E k \in Key \ {Zero}, s \in {1, -1} :
              /\ cursor \in Cells /\ cursor \in At(k) /\ Alone(k, cursor)
              /\ IF s = 1 THEN diff[cursor][k] > 0 ELSE diff[cursor][k] < 0
              /\ \A j \in Key :
                    /\ positive'[j] = IF j = k /\ s = 1 THEN positive[j] + 1 ELSE positive[j]
                    /\ negative'[j] = IF j = k /\ s = -1 THEN negative[j] + 1 ELSE negative[j]
              /\ \A c \in Cells, j \in Key :
                    diff'[c][j] = IF j = k /\ c \in At(k) THEN diff[c][j] - s ELSE diff[c][j]
              /\ hash' = hash /\ content' = content
<1> DEFINE entry == diff[cursor]
           k == KeyOf(entry)
           s == Sign(entry)
<1>1. cursor \in Cells /\ Pure(entry) /\ entry \in [Key -> Int]
  BY DEF Peel, Scanning, Shapes
<1>2. /\ k \in Key \ {Zero} /\ entry[k] # 0 /\ entry[k] \in Int
      /\ \A j \in Key \ {k} : entry[j] = 0
  BY <1>1, PureKey
<1>3. /\ s \in {1, -1}
      /\ IF s = 1 THEN entry[k] > 0 ELSE entry[k] < 0
  BY <1>2 DEF Sign
<1>4. cursor \in At(k)
  BY <1>1, <1>2 DEF Residual
<1>5. /\ diff' = Inserted(diff, -s, k)
      /\ positive' = [positive EXCEPT ![k] = @ + IF entry[k] > 0 THEN 1 ELSE 0]
      /\ negative' = [negative EXCEPT ![k] = @ + IF entry[k] < 0 THEN 1 ELSE 0]
      /\ hash' = hash /\ content' = content
  BY DEF Peel, filled
<1>6. /\ diff \in [Cells -> [Key -> Int]]
      /\ positive \in [Key -> Nat] /\ negative \in [Key -> Nat]
  BY DEF Shapes
<1>7. Alone(k, cursor)
  BY <1>2 DEF Alone
<1> HIDE DEF k, s
<1>8. \A c \in Cells, j \in Key :
         diff'[c][j] = IF j = k /\ c \in At(k) THEN diff[c][j] - s ELSE diff[c][j]
  <2>1. -s \in Int
    BY <1>3
  <2>2. \A c \in Cells, j \in Key :
           diff'[c][j] = IF j = k /\ c \in At(k) THEN diff[c][j] + (-s) ELSE diff[c][j]
    BY <1>2, <1>5, <1>6, <2>1 DEF Inserted
  <2> QED
    BY <1>3, <1>6, <2>2
<1>9. \A j \in Key :
         /\ positive'[j] = IF j = k /\ s = 1 THEN positive[j] + 1 ELSE positive[j]
         /\ negative'[j] = IF j = k /\ s = -1 THEN negative[j] + 1 ELSE negative[j]
  BY <1>2, <1>3, <1>5, <1>6
<1> QED
  BY <1>1, <1>2, <1>3, <1>4, <1>5, <1>7, <1>8, <1>9

\* Where a key is left, its copies are what the hosts differ by less what is listed.
LEMMA ResidualStep ==
    ASSUME Shapes, Goals, Filled, Residual, [Next]_vars
    PROVE  Residual'
<1> SUFFICES ASSUME Listing', NEW c \in Cells, NEW j \in Key
             PROVE  diff'[c][j] = IF c \in At(j)'
                                  THEN Net(j)' - positive'[j] + negative'[j] ELSE 0
  BY DEF Residual, Listing
<1>1. CASE ListEntries
  <2>1. /\ diff' = Subtract(table["theirs"], table["ours"])
        /\ UNCHANGED <<hash, content, positive, negative>>
    BY <1>1 DEF ListEntries, filled, listed
  <2>2. positive[j] = 0 /\ negative[j] = 0
    BY <1>1 DEF ListEntries, Goals, NoCopies
  <2>3. At(j)' = At(j) /\ Net(j)' = Net(j)
    BY <2>1 DEF At, CellOf, Net
  <2>4. diff'[c][j] = table["theirs"][c][j] - table["ours"][c][j]
    BY <2>1 DEF Subtract
  <2>5. /\ table["theirs"][c][j] = IF c \in At(j) THEN content["theirs"][j] ELSE 0
        /\ table["ours"][c][j] = IF c \in At(j) THEN content["ours"][j] ELSE 0
    BY DEF Filled, Tables
  <2>6. content["theirs"][j] \in Int /\ content["ours"][j] \in Int
    BY DEF Shapes, Tables
  <2> QED
    BY <2>1, <2>2, <2>3, <2>4, <2>5, <2>6 DEF Net
<1>2. CASE Listing /\ Same
  <2>1. At(j)' = At(j) /\ Net(j)' = Net(j)
    BY <1>2 DEF Same, At, CellOf, Net
  <2> QED
    BY <1>2, <2>1 DEF Same, Residual, Listing
<1>3. CASE phase = "list" /\ Peel
  <2>1. PICK k \in Key \ {Zero}, s \in {1, -1} :
              /\ \A i \in Key :
                    /\ positive'[i] = IF i = k /\ s = 1 THEN positive[i] + 1 ELSE positive[i]
                    /\ negative'[i] = IF i = k /\ s = -1 THEN negative[i] + 1 ELSE negative[i]
              /\ \A d \in Cells, i \in Key :
                    diff'[d][i] = IF i = k /\ d \in At(k) THEN diff[d][i] - s ELSE diff[d][i]
              /\ hash' = hash /\ content' = content
    BY <1>3, Peeled
  <2>2. At(j)' = At(j) /\ Net(j)' = Net(j)
    BY <2>1 DEF At, CellOf, Net
  <2>3. diff[c][j] = IF c \in At(j) THEN Net(j) - positive[j] + negative[j] ELSE 0
    BY <1>3 DEF Residual
  <2>4. Net(j) \in Int /\ positive[j] \in Int /\ negative[j] \in Int
    BY DEF Shapes, Net, Tables
  <2> QED
    BY <2>1, <2>2, <2>3, <2>4
<1> QED
  BY <1>1, <1>2, <1>3, ListingCases

\* What the hosts differ by, and what is listed, are numbers.
LEMMA NetType ==
    ASSUME Shapes, NEW k \in Key
    PROVE  /\ Net(k) \in Int
           /\ positive[k] \in Nat /\ negative[k] \in Nat
BY DEF Shapes, Net, Tables

\* A copy is taken to the side that it is on, as long as there is one.
LEMMA SidedStep ==
    ASSUME Shapes, Goals, Residual, Sided, [Next]_vars
    PROVE  Sided'
<1> SUFFICES ASSUME Listing', NEW j \in Key
             PROVE  IF Net(j)' >= 0 THEN negative'[j] = 0 /\ positive'[j] <= Net(j)'
                                    ELSE positive'[j] = 0 /\ negative'[j] <= -Net(j)'
  BY DEF Sided
<1>1. CASE ListEntries
  <2>1. UNCHANGED <<content, positive, negative>>
    BY <1>1 DEF ListEntries, filled, listed
  <2>2. positive[j] = 0 /\ negative[j] = 0
    BY <1>1 DEF ListEntries, Goals, NoCopies
  <2>3. Net(j)' = Net(j)
    BY <2>1 DEF Net
  <2> QED
    BY <2>1, <2>2, <2>3, NetType
<1>2. CASE Listing /\ Same
  BY <1>2 DEF Same, Net, Sided
<1>3. CASE phase = "list" /\ Peel
  <2>1. PICK k \in Key \ {Zero}, s \in {1, -1} :
              /\ cursor \in Cells /\ cursor \in At(k)
              /\ IF s = 1 THEN diff[cursor][k] > 0 ELSE diff[cursor][k] < 0
              /\ \A i \in Key :
                    /\ positive'[i] = IF i = k /\ s = 1 THEN positive[i] + 1 ELSE positive[i]
                    /\ negative'[i] = IF i = k /\ s = -1 THEN negative[i] + 1 ELSE negative[i]
              /\ content' = content
    BY <1>3, Peeled
  <2>2. Net(j)' = Net(j)
    BY <2>1 DEF Net
  <2>3. diff[cursor][k] = Net(k) - positive[k] + negative[k]
    BY <1>3, <2>1 DEF Residual
  <2>4. IF Net(j) >= 0 THEN negative[j] = 0 /\ positive[j] <= Net(j)
                       ELSE positive[j] = 0 /\ negative[j] <= -Net(j)
    BY <1>3 DEF Sided, Listing
  <2>5. Net(j) \in Int /\ positive[j] \in Nat /\ negative[j] \in Nat
    BY NetType
  <2> QED
    BY <2>1, <2>2, <2>3, <2>4, <2>5
<1> QED
  BY <1>1, <1>2, <1>3, ListingCases

\* A key of a stuck set shares each of its cells with another key of the set, of
\* which nothing was listed either: it is not alone.
LEMMA CoreKeptStep ==
    ASSUME Shapes, Goals, Residual, CoreKept, [Next]_vars
    PROVE  CoreKept'
<1> SUFFICES ASSUME Listing', NEW S \in SUBSET Differing', StuckSet(S)', NEW j \in S
             PROVE  positive'[j] = 0 /\ negative'[j] = 0
  BY DEF CoreKept
<1>1. ASSUME UNCHANGED <<hash, content>>
      PROVE  S \subseteq Differing /\ StuckSet(S) /\ j \in Key
  BY <1>1 DEF Differing, StuckSet, Net, Holding, At, CellOf
<1>2. CASE ListEntries
  BY <1>1, <1>2 DEF ListEntries, Goals, NoCopies, filled, listed
<1>3. CASE Listing /\ Same
  BY <1>1, <1>3 DEF Same, CoreKept
<1>4. CASE phase = "list" /\ Peel
  <2>1. PICK k \in Key \ {Zero}, s \in {1, -1} :
              /\ cursor \in Cells /\ cursor \in At(k) /\ Alone(k, cursor)
              /\ \A i \in Key :
                    /\ positive'[i] = IF i = k /\ s = 1 THEN positive[i] + 1 ELSE positive[i]
                    /\ negative'[i] = IF i = k /\ s = -1 THEN negative[i] + 1 ELSE negative[i]
              /\ hash' = hash /\ content' = content
    BY <1>4, Peeled
  <2>2. S \subseteq Differing /\ StuckSet(S) /\ j \in Key
    BY <1>1, <2>1
  <2>3. \A i \in S : positive[i] = 0 /\ negative[i] = 0
    BY <1>4, <2>2 DEF CoreKept, Listing
  <2>4. k \notin S
    <3> SUFFICES ASSUME k \in S PROVE FALSE
      OBVIOUS
    <3>1. Holding(S, cursor) # {k}
      BY <2>1, <2>2 DEF StuckSet
    <3>2. PICK i \in S \ {k} : cursor \in At(i)
      BY <2>1, <3>1 DEF Holding
    <3>3. i \in Key /\ Net(i) # 0
      BY <2>2 DEF Differing
    <3>4. diff[cursor][i] = Net(i) - positive[i] + negative[i]
      BY <1>4, <2>1, <3>2, <3>3 DEF Residual
    <3>5. diff[cursor][i] = Net(i)
      <4>1. Net(i) \in Int
        BY <3>3, NetType
      <4> QED
        BY <2>3, <3>4, <4>1
    <3> QED
      BY <2>1, <3>3, <3>5 DEF Alone
  <2> QED
    BY <2>1, <2>2, <2>3, <2>4
<1> QED
  BY <1>2, <1>3, <1>4, ListingCases

\* A listing ends after a pass over every cell that has found none to take from.
LEMMA ScannedStep ==
    ASSUME Shapes, Goals, Scanned, [Next]_vars
    PROVE  Scanned'
<1> USE DEF Scanned, filled, listed
<1>1. ASSUME NEW t \in Tables, NEW n \in {1, -1}, NEW k \in Key, Update(t, n, k)
      PROVE  Scanned'
  BY <1>1 DEF Update
<1>2. ASSUME NEW k \in Key, Get(k)
      PROVE  Scanned'
  <2>1. goal' = k /\ phase' \in {"get", "done"}
    BY <1>2 DEF Get
  <2> QED
    BY <2>1, IBLTMultisetAssumption
<1>3. CASE ListEntries
  <2>1. phase' = "list" /\ cursor' = 1
    BY <1>3 DEF ListEntries, Goals
  <2> QED
    BY <2>1 DEF Cells
<1>4. CASE Skip
  <2>1. /\ phase \in {"list", "get"} /\ cursor \in Cells /\ ~Pure(diff[cursor])
        /\ cursor' = cursor + 1 /\ UNCHANGED <<phase, goal, diff, erased, result>>
    BY <1>4 DEF Skip, Scanning
  <2>2. \A c \in Cells : c < cursor + 1 => c < cursor \/ c = cursor
    BY <2>1 DEF Cells
  <2>3. phase = "list" /\ ~erased => \A c \in Cells : c < cursor' => ~Pure(diff[c])
    BY <2>1, <2>2
  <2> QED
    BY <2>1, <2>3 DEF Pure, Held
<1>5. CASE Peel
  BY <1>5 DEF Peel, Scanning
<1>6. CASE NextPass
  <2>1. cursor' = 1 /\ phase' = phase /\ phase \in {"list", "get"}
    BY <1>6 DEF NextPass
  <2> QED
    BY <2>1 DEF Cells
<1>7. CASE Finish
  <2>1. /\ phase' = "done" /\ phase \in {"list", "get"} /\ cursor \notin Cells /\ ~erased
        /\ result' = (phase = "list" /\ \A c \in Cells : Empty(diff[c]))
        /\ UNCHANGED <<goal, diff>>
    BY <1>7 DEF Finish, Another
  <2>2. CASE phase = "get"
    BY <2>1, <2>2, IBLTMultisetAssumption DEF Goals
  <2>3. CASE phase = "list"
    <3>1. \A c \in Cells : c < cursor
      BY <2>1, CellTypes DEF Shapes, Cells
    <3>2. \A c \in Cells : ~Pure(diff[c])
      BY <2>1, <2>3, <3>1
    <3> QED
      BY <2>1, <2>3, <3>2 DEF Pure, Held, Empty
  <2> QED
    BY <2>1, <2>2, <2>3
<1>8. CASE GetFound
  <2>1. goal' = goal /\ phase' = "done" /\ KeyOf(diff[cursor]) = goal
    BY <1>8 DEF GetFound
  <2>2. KeyOf(diff[cursor]) \in Key
    BY <1>8, PureKey DEF GetFound, Scanning, Shapes
  <2> QED
    BY <2>1, <2>2, IBLTMultisetAssumption
<1>9. CASE Merge
  BY <1>9 DEF Merge
<1>10. CASE UNCHANGED vars
  BY <1>10 DEF vars, Pure, Held, Empty
<1> QED
  BY <1>1, <1>2, <1>3, <1>4, <1>5, <1>6, <1>7, <1>8, <1>9, <1>10 DEF Next, Scan

\* Every step preserves the invariant.
LEMMA InvStep == MultisetInv /\ [Next]_vars => MultisetInv'
BY TypeStep, GoalsStep, FilledStep, ResidualStep, SidedStep, CoreKeptStep, ScannedStep
   DEF MultisetInv

\* The keys with copies left in the table are those of the core, of which nothing is
\* listed, and of the others nothing is left.
LEMMA Exact ==
    ASSUME MultisetInv, phase = "done", goal = None
    PROVE  /\ \A k \in Key :
                 /\ positive[k] = IF k \in Core \/ Net(k) < 0 THEN 0 ELSE Net(k)
                 /\ negative[k] = IF k \in Core \/ Net(k) > 0 THEN 0 ELSE -Net(k)
           /\ result <=> Core = {}
<1> DEFINE left(k) == Net(k) - positive[k] + negative[k]
           Rest == {k \in Key : left(k) # 0}
<1>1. /\ Shapes
      /\ \A c \in Cells, k \in Key : diff[c][k] = IF c \in At(k) THEN left(k) ELSE 0
      /\ \A k \in Key : IF Net(k) >= 0 THEN negative[k] = 0 /\ positive[k] <= Net(k)
                                       ELSE positive[k] = 0 /\ negative[k] <= -Net(k)
      /\ \A S \in SUBSET Differing :
            StuckSet(S) => \A k \in S : positive[k] = 0 /\ negative[k] = 0
      /\ \A c \in Cells : ~Pure(diff[c])
      /\ result <=> \A c \in Cells : Empty(diff[c])
  BY DEF MultisetInv, Listing, Residual, Sided, CoreKept, Scanned
<1>2. \A k \in Key : Net(k) \in Int /\ positive[k] \in Nat /\ negative[k] \in Nat
  BY <1>1, NetType
<1>3. Rest \subseteq Differing
  BY <1>1, <1>2 DEF Differing
<1>4. StuckSet(Rest)
  <2> SUFFICES ASSUME NEW c \in Cells, NEW k \in Key, Holding(Rest, c) = {k}, k # Zero
               PROVE  FALSE
    BY DEF StuckSet
  <2>1. \A i \in Key : diff[c][i] # 0 <=> i \in Holding(Rest, c)
    BY <1>1, <1>2 DEF Holding
  <2>2. Held(diff[c]) = {k}
    BY <2>1 DEF Held
  <2> QED
    BY <1>1, <2>2 DEF Pure
<1>5. Rest \subseteq Core
  BY <1>3, <1>4 DEF Core
<1>6. \A k \in Core : k \in Key /\ Net(k) # 0 /\ positive[k] = 0 /\ negative[k] = 0
  BY <1>1 DEF Core, Differing
<1>7. Core \subseteq Rest
  BY <1>2, <1>6
<1>8. (\A c \in Cells : Empty(diff[c])) <=> Rest = {}
  <2>1. ASSUME Rest = {}, NEW c \in Cells
        PROVE  Empty(diff[c])
    BY <1>1, <2>1 DEF Empty
  <2>2. ASSUME \A c \in Cells : Empty(diff[c]), NEW k \in Rest
        PROVE  FALSE
    <3>1. PICK c \in Cells : c \in At(k)
      BY <1>1, KeyCells DEF Shapes
    <3>2. diff[c][k] = left(k)
      BY <1>1, <3>1
    <3> QED
      BY <2>2, <3>2 DEF Empty
  <2> QED
    BY <2>1, <2>2
<1>9. ASSUME NEW k \in Key
      PROVE  /\ positive[k] = IF k \in Core \/ Net(k) < 0 THEN 0 ELSE Net(k)
             /\ negative[k] = IF k \in Core \/ Net(k) > 0 THEN 0 ELSE -Net(k)
  <2>1. CASE k \in Core
    BY <1>6, <2>1
  <2>2. CASE k \notin Core
    <3>1. Net(k) - positive[k] + negative[k] = 0
      BY <1>5, <2>2
    <3>2. Net(k) \in Int /\ positive[k] \in Nat /\ negative[k] \in Nat
      BY <1>2
    <3>3. IF Net(k) >= 0 THEN negative[k] = 0 /\ positive[k] <= Net(k)
                         ELSE positive[k] = 0 /\ negative[k] <= -Net(k)
      BY <1>1
    <3>4. \A n \in Int, p, q \in Nat :
             n - p + q = 0 /\ (IF n >= 0 THEN q = 0 /\ p <= n ELSE p = 0 /\ q <= -n)
                => /\ p = IF n < 0 THEN 0 ELSE n
                   /\ q = IF n > 0 THEN 0 ELSE -n
      OBVIOUS
    <3>5. /\ positive[k] = IF Net(k) < 0 THEN 0 ELSE Net(k)
          /\ negative[k] = IF Net(k) > 0 THEN 0 ELSE -Net(k)
      BY <3>1, <3>2, <3>3, <3>4
    <3> QED
      BY <2>2, <3>5
  <2> QED
    BY <2>1, <2>2
<1> QED
  BY <1>1, <1>5, <1>7, <1>8, <1>9

\* Every cell of a key has the copies that the hosts differ by, less those listed,
\* after any insertions and erasures and at every point of listEntries.
THEOREM CellsHoldTheRest == Spec => []Residual
<1>1. Init => MultisetInv
  BY InvInit
<1>2. MultisetInv /\ [Next]_vars => MultisetInv'
  BY InvStep
<1>3. MultisetInv => Residual
  BY DEF MultisetInv
<1> QED
  BY <1>1, <1>2, <1>3, PTL DEF Spec

\* listEntries lists the copies of a key all or none, on the right side, all of them
\* for every key outside the core, and returns true exactly if the core is empty.
THEOREM CopiesPeelExactly == Spec => []PeelsExactly
<1>1. Init => MultisetInv
  BY InvInit
<1>2. MultisetInv /\ [Next]_vars => MultisetInv'
  BY InvStep
<1>3. MultisetInv => PeelsExactly
  BY Exact DEF PeelsExactly
<1> QED
  BY <1>1, <1>2, <1>3, PTL DEF Spec

\* A synchronization gives no host more copies of a key than the other had, and both
\* the same if listEntries returned true (SyncServer and SyncClient).
THEOREM MergeIsExact == Spec => MergesExactly
<1>1. Init => MultisetInv
  BY InvInit
<1>2. MultisetInv /\ [Next]_vars => MultisetInv'
  BY InvStep
<1>3. ASSUME MultisetInv, Merge
      PROVE  /\ \A t \in Tables, k \in Key :
                   content'[t][k] \in {content["ours"][k], content["theirs"][k]}
             /\ result => content'["ours"] = content'["theirs"]
  <2>1. /\ \A k \in Key :
              /\ positive[k] = IF k \in Core \/ Net(k) < 0 THEN 0 ELSE Net(k)
              /\ negative[k] = IF k \in Core \/ Net(k) > 0 THEN 0 ELSE -Net(k)
        /\ result <=> Core = {}
    BY <1>3, Exact DEF Merge
  <2>2. content' = [t \in Tables |-> [k \in Key |-> content[t][k] + Gain(t)[k]]]
    BY <1>3 DEF Merge
  <2>3. \A k \in Key : /\ content["ours"][k] \in Int /\ content["theirs"][k] \in Int
                       /\ Net(k) = content["theirs"][k] - content["ours"][k]
    BY <1>3 DEF MultisetInv, Shapes, Tables, Net
  <2>4. \A k \in Key : /\ content'["ours"][k] = content["ours"][k] + positive[k]
                       /\ content'["theirs"][k] = content["theirs"][k] + negative[k]
    BY <2>2 DEF Tables, Gain
  <2>5. ASSUME NEW t \in Tables, NEW k \in Key
        PROVE  content'[t][k] \in {content["ours"][k], content["theirs"][k]}
    BY <2>1, <2>3, <2>4 DEF Tables
  <2>6. ASSUME result
        PROVE  content'["ours"] = content'["theirs"]
    <3>1. \A k \in Key : content'["ours"][k] = content'["theirs"][k]
      BY <2>1, <2>3, <2>4, <2>6
    <3>2. /\ content'["ours"] = [k \in Key |-> content["ours"][k] + Gain("ours")[k]]
          /\ content'["theirs"] = [k \in Key |-> content["theirs"][k] + Gain("theirs")[k]]
      BY <2>2 DEF Tables
    <3>3. /\ \A k \in Key : content["ours"][k] + Gain("ours")[k] = content'["ours"][k]
          /\ \A k \in Key :
                content["theirs"][k] + Gain("theirs")[k] = content'["theirs"][k]
      BY <3>2
    <3> QED
      BY <3>1, <3>2, <3>3
  <2> QED
    BY <2>5, <2>6
<1>4. MultisetInv /\ [Next]_vars =>
         [Merge => /\ \A t \in Tables, k \in Key :
                         content'[t][k] \in {content["ours"][k], content["theirs"][k]}
                   /\ result => content'["ours"] = content'["theirs"]]_vars
  BY <1>3
<1> QED
  BY <1>1, <1>2, <1>4, PTL DEF Spec, MergesExactly

\* A cell of a key that the table holds is not empty, and if it tells a key it is the
\* one that was asked for.
LEMMA GetTells ==
    ASSUME Shapes, Filled, NEW k \in Key, Get(k), result', Net(k) # 0, phase' = "done"
    PROVE  value' = k
<1> DEFINE t == Subtract(table["theirs"], table["ours"])
           telling == {i \in 1..NumHashes : Telling(t[CellOf(k, i)])}
<1>1. telling # {} /\ value' = Told(t[CellOf(k, Min(telling))])
  BY DEF Get
<1>2. Min(telling) \in telling
  <2>1. telling \in SUBSET Nat
    BY IBLTMultisetAssumption
  <2> HIDE DEF telling
  <2> QED
    BY <1>1, <2>1, LeastNumber DEF Min
<1>3. PICK c \in Cells : c \in At(k) /\ Telling(t[c]) /\ value' = Told(t[c])
  <2>1. CellOf(k, Min(telling)) \in At(k)
    BY <1>2 DEF At
  <2>2. At(k) \subseteq Cells
    BY KeyCells DEF Shapes
  <2> QED
    BY <1>1, <1>2, <2>1, <2>2
<1>4. t[c][k] # 0
  <2>1. t[c][k] = table["theirs"][c][k] - table["ours"][c][k]
    BY DEF Subtract
  <2>2. /\ table["theirs"][c][k] = content["theirs"][k]
        /\ table["ours"][c][k] = content["ours"][k]
    BY <1>3 DEF Filled, Tables
  <2> QED
    BY <2>1, <2>2 DEF Net
<1> HIDE DEF t
<1>5. ~Empty(t[c]) /\ Pure(t[c]) /\ k \in Held(t[c])
  BY <1>3, <1>4 DEF Empty, Telling, Held
<1>6. Held(t[c]) = {k}
  BY <1>5 DEF Pure
<1> QED
  BY <1>3, <1>5, <1>6 DEF Told

\* get answers a key that the difference holds with its own value or not at all.
THEOREM HeldKeysAreRight == Spec => []HeldKeysRight
<1>1. Init => MultisetInv /\ HeldKeysRight
  BY InvInit DEF Init, HeldKeysRight
<1>2. MultisetInv /\ HeldKeysRight /\ [Next]_vars => (MultisetInv /\ HeldKeysRight)'
  <2> SUFFICES ASSUME MultisetInv, HeldKeysRight, [Next]_vars
               PROVE  HeldKeysRight'
    BY InvStep
  <2> USE DEF HeldKeysRight, filled, listed
  <2>1. ASSUME NEW t \in Tables, NEW n \in {1, -1}, NEW k \in Key, Update(t, n, k)
        PROVE  HeldKeysRight'
    BY <2>1 DEF Update
  <2>2. ASSUME NEW k \in Key, Get(k)
        PROVE  HeldKeysRight'
    <3>1. goal' = k /\ content' = content
      BY <2>2 DEF Get
    <3>2. Net(goal)' = Net(k)
      BY <3>1 DEF Net
    <3> QED
      BY <2>2, <3>1, <3>2, GetTells DEF MultisetInv
  <2>3. CASE ListEntries \/ Skip \/ Peel \/ NextPass
    BY <2>3 DEF ListEntries, Skip, Peel, NextPass, Scanning
  <2>4. CASE Finish
    BY <2>4 DEF Finish, MultisetInv, Goals
  <2>5. CASE GetFound
    BY <2>5 DEF GetFound
  <2>6. CASE Merge
    BY <2>6 DEF Merge
  <2>7. CASE UNCHANGED vars
    BY <2>7 DEF vars, Net
  <2> QED
    BY <2>1, <2>2, <2>3, <2>4, <2>5, <2>6, <2>7 DEF Next, Scan
<1> QED
  BY <1>1, <1>2, PTL DEF Spec

(***************************************************************************)
(* The inductive invariant.                                                *)
(***************************************************************************)
ChildSet == SUBSET Item
HashOf == [child : ChildSet, again : 0..2 * MaxChildren]
ChildrenOf(hs) == [i \in DOMAIN hs |-> hs[i].child]
InPlace(p) == \A i \in DOMAIN p.mySet : p.hashes[i].child = p.mySet[i]

\* A child that is held once has the hash of the child as such.
Singles(p) ==
    \A i \in DOMAIN p.hashes :
        Copies(p.mySet, p.hashes[i].child) = 1 => p.hashes[i].again = 0

\* A parent: its hashes are different and are those of its children, in their places
\* unless it is stale.
Sound(p) ==
    /\ p.mySet \in Seq(ChildSet) /\ p.hashes \in Seq(HashOf) /\ p.stale \in BOOLEAN
    /\ Len(p.hashes) = Len(p.mySet)
    /\ \A i, j \in DOMAIN p.hashes : p.hashes[i] = p.hashes[j] => i = j
    /\ \A c \in ChildSet : Copies(ChildrenOf(p.hashes), c) = Copies(p.mySet, c)
    /\ p.stale \/ (InPlace(p) /\ Singles(p))

\* What is missing from children, each of which is named once.
Listed(list) ==
    /\ list \subseteq [child : ChildSet, value : SUBSET Nat, elems : ChildSet]
    /\ IsFiniteSet(list)
    /\ \A m, n \in list : m.child = n.child => m = n

\* The rewritten children of a parent, each of which is rewritten once.
Rewrites(s, changes) ==
    /\ changes \in Seq([index : DOMAIN s, set : ChildSet])
    /\ \A j, k \in DOMAIN changes : changes[j].index = changes[k].index => j = k
    /\ \A k \in DOMAIN changes : s[changes[k].index] \subseteq changes[k].set

\* A pairing of theirs, which are in children, with mine.
Pairing(pairs, theirs, mine) ==
    /\ pairs \subseteq theirs \X mine
    /\ IsFiniteSet(pairs)
    /\ \A p, q \in pairs : p[1] = q[1] \/ p[2] = q[2] => p = q

\* The messages.
FlagOf(ok) == [type |-> "flag", ok |-> ok]
ListOf(list) == [type |-> "list", list |-> list]
TableOf(h) == [type |-> "table", mySet |-> mySet[h], hashes |-> hashes[h]]

\* What is on its way to the client; when it waits for the flag nothing is paired yet.
ToClient ==
    /\ pc["client"] \in {"begin", "post", "returned"} => chan["client"] = <<>>
    /\ pc["client"] = "awaitFlag" =>
          /\ chan["client"] \in {<<>>, <<FlagOf(TRUE)>>, <<FlagOf(FALSE)>>}
          /\ outcome.by = "none"
    /\ pc["client"] = "awaitLists" =>
          \/ chan["client"] = <<>>
          \/ /\ chan["client"] =
                    <<ListOf(chan["client"][1].list), ListOf(chan["client"][2].list)>>
             /\ Listed(chan["client"][1].list)

\* What is on its way to the server.
ToServer ==
    /\ pc["server"] = "recvParams" =>
          /\ pc["client"] \in {"awaitFlag"} \cup Gone
          /\ chan["server"] = <<[type |-> "params", size |-> size["client"]]>>
          /\ chan["client"] = <<>>
    /\ pc["server"] = "recvTable" =>
          \/ /\ pc["client"] \in {"awaitFlag"} \cup Gone
             /\ chan["server"] = <<>> /\ chan["client"] = <<FlagOf(TRUE)>>
          \/ /\ pc["client"] \in {"awaitLists"} \cup Gone
             /\ chan["server"] = <<TableOf("client")>> /\ chan["client"] = <<>>
    /\ pc["server"] \in {"begin", "post", "returned"} =>
          /\ chan["server"] = <<>>
          /\ pc["client"] = "awaitFlag" => chan["client"] = <<FlagOf(FALSE)>>

\* What the server has found that the hosts miss of each other's children; a garbled
\* value is none.
ValueIn(c) == ValueOf(hashes["client"], hashes["server"], c)
ListedValue(garbled, c) == IF c \in garbled THEN {} ELSE ValueIn(c)
FoundThat(garbled, pairs) ==
    {Missing(p[1], ListedValue(garbled, p[1]), p[2] \ p[1]) : p \in pairs}
FoundThis(garbled, pairs) ==
    {Missing(p[2], ListedValue(garbled, p[2]), p[1] \ p[2]) : p \in pairs}
NotOnThat == {Missing(p[1], ValueIn(p[1]), p[2] \ p[1]) : p \in outcome.pairs}
NotOnThis == {Missing(p[2], ValueIn(p[2]), p[1] \ p[2]) : p \in outcome.pairs}
DifferBy(n) ==
    {c \in DifferingChildren(mySet["client"], mySet["server"]) :
        Surplus(mySet["client"], mySet["server"], c) = n}

\* As long as the hosts have not changed their children after a pairing; the values
\* are those of the hashes if no host holds a child twice.
Rewriting ==
    (/\ \A h \in Hosts : ~stale[h] /\ Distinct(h)
     /\ outcome.by = "paired" /\ pc["server"] = "post"
     /\ pc["client"] \in {"awaitLists", "post"}) =>
        /\ DifferingChildren(mySet["client"], mySet["server"]) =
              DifferBy(1) \cup DifferBy(-1)
        /\ Pairing(outcome.pairs, DifferBy(1), DifferBy(-1))
        /\ {p[1] : p \in outcome.pairs} = DifferBy(1) \ outcome.left
        /\ {p[2] : p \in outcome.pairs} \cup outcome.single = DifferBy(-1) \ outcome.left
        /\ oms["server"] = SetToSeq(ReWritten("server", NotOnThis))
        /\ pc["client"] = "awaitLists" =>
              chan["client"] = <<ListOf(NotOnThat), ListOf(NotOnThis)>>
        /\ pc["client"] = "post" =>
              oms["client"] = SetToSeq(ReWritten("client", NotOnThat))

\* What ParentsTypeOK leaves open, and that a host that goes on has a session left.
ParentShapes ==
    /\ hashes \in [Hosts -> Seq(HashOf)]
    /\ chan = [h \in Hosts |-> chan[h]] /\ oms = [h \in Hosts |-> oms[h]]
    /\ \A h \in Hosts : pc[h] \in Waits \cup {"begin", "post"} => session[h] <= Sessions

\* The inductive invariant.
ParentsInv ==
    /\ ParentsTypeOK /\ ParentShapes
    /\ \A h \in Hosts : Sound(Parent(h))
    /\ \A h \in Hosts : pc[h] \in Waits \cup {"post"} => Rewrites(mySet[h], oms[h])
    /\ ToClient /\ ToServer
    /\ Rewriting

(***************************************************************************)
(* Numbers and sequences.                                                  *)
(***************************************************************************)
\* How many numbers there are up to n.
LEMMA FirstNumbers ==
    ASSUME NEW n \in Nat
    PROVE  IsFiniteSet(1..n) /\ Cardinality(1..n) = n
<1>1. 1 \in Int /\ n \in Int
  OBVIOUS
<1>2. IsFiniteSet(1..n) /\ Cardinality(1..n) = IF 1 > n THEN 0 ELSE n - 1 + 1
  BY <1>1, FS_Interval, Zenon
<1> QED
  BY <1>2

\* Min finds the least of some natural numbers.
LEMMA MinIs ==
    ASSUME NEW T \in SUBSET Nat, T # {}
    PROVE  Min(T) \in T /\ \A m \in T : Min(T) <= m
BY LeastNumber DEF Min

\* Induction along 0..n, over a set of its numbers.
LEMMA Induction ==
    ASSUME NEW n \in Nat, NEW P \in SUBSET (0..n), 0 \in P,
           \A i \in 1..n : i - 1 \in P => i \in P
    PROVE  P = 0..n
<1> SUFFICES ASSUME NEW z \in 0..n, z \notin P PROVE FALSE
  OBVIOUS
<1> DEFINE T == {y \in 0..n : y \notin P}
<1>1. T \in SUBSET Nat /\ T # {}
  <2>1. z \in T
    OBVIOUS
  <2>2. \A y \in T : y \in Nat
    OBVIOUS
  <2> QED
    BY <2>1, <2>2, Zenon
<1>2. PICK x \in T : \A y \in T : x <= y
  <2> HIDE DEF T
  <2> QED
    BY <1>1, LeastNumber
<1>3. x \in 1..n /\ x - 1 \notin T /\ x - 1 \in 0..n
  BY <1>2
<1> QED
  BY <1>2, <1>3

\* A finite set as a sequence.
LEMMA SetToSeqIs ==
    ASSUME NEW S, IsFiniteSet(S)
    PROVE  /\ SetToSeq(S) \in Seq(S)
           /\ Len(SetToSeq(S)) = Cardinality(S)
           /\ \A i, j \in DOMAIN SetToSeq(S) : SetToSeq(S)[i] = SetToSeq(S)[j] => i = j
           /\ ToSet(SetToSeq(S)) = S
<1> DEFINE n == Cardinality(S)
           s == SetToSeq(S)
<1>1. n \in Nat /\ ExistsBijection(1..n, S)
  BY FS_CardinalityType
<1>2. PICK f : f \in Bijection(1..n, S)
  BY <1>1 DEF ExistsBijection
<1>3. f \in [1..n -> S] /\ IsInjective(f)
  BY <1>2 DEF Bijection, Injection, IsInjective
<1>4. s \in [1..n -> S] /\ IsInjective(s)
  BY <1>3 DEF SetToSeq
<1> HIDE DEF s, n
<1>5. s \in Seq(S) /\ Len(s) = n /\ DOMAIN s = 1..n
  BY <1>1, <1>4
<1>6. s \in Injection(1..n, S)
  BY <1>4 DEF Injection, IsInjective
<1>7. IsFiniteSet(1..n) /\ Cardinality(1..n) = n
  BY <1>1, FirstNumbers
<1>8. s \in Surjection(1..n, S)
  BY <1>6, <1>7, FS_Injection DEF n
<1>9. ToSet(s) = S
  BY <1>5, <1>8 DEF Surjection, ToSet
<1>10. \A i, j \in DOMAIN s : s[i] = s[j] => i = j
  BY <1>4 DEF IsInjective
<1> QED
  BY <1>5, <1>9, <1>10 DEF s, n

\* A set of numbers from the last to the first.
LEMMA EraseOrderIs ==
    ASSUME NEW n \in Nat, NEW is \in SUBSET (1..n)
    PROVE  /\ EraseOrder(is) \in Seq(is)
           /\ Len(EraseOrder(is)) = Cardinality(is)
           /\ ToSet(EraseOrder(is)) = is
           /\ \A j, k \in DOMAIN EraseOrder(is) :
                 j < k => EraseOrder(is)[j] > EraseOrder(is)[k]
<1> DEFINE Down(s) == \A j, k \in DOMAIN s : j < k => s[j] > s[k]
           P == {m \in 0..n : \A T \in SUBSET (1..m) : \E s \in SetToSeqs(T) : Down(s)}
<1>1. 0 \in P
  <2> SUFFICES ASSUME NEW T \in SUBSET (1..0) PROVE \E s \in SetToSeqs(T) : Down(s)
    OBVIOUS
  <2>1. T = {}
    OBVIOUS
  <2>3. Cardinality(T) = 0
    BY <2>1, FS_EmptySet
  <2>2. <<>> \in SetToSeqs(T) /\ Down(<<>>)
    BY <2>1, <2>3 DEF SetToSeqs
  <2> QED
    BY <2>2
<1>2. ASSUME NEW m \in 1..n, m - 1 \in P
      PROVE  m \in P
  <2> SUFFICES ASSUME NEW T \in SUBSET (1..m) PROVE \E s \in SetToSeqs(T) : Down(s)
    OBVIOUS
  <2>1. CASE m \notin T
    <3>1. T \in SUBSET (1..(m - 1))
      BY <2>1
    <3> QED
      BY <1>2, <3>1
  <2>2. CASE m \in T
    <3> DEFINE U == T \ {m}
    <3>1. U \in SUBSET (1..(m - 1)) /\ IsFiniteSet(U) /\ m \notin U /\ T = U \cup {m}
      <4>1. IsFiniteSet(1..(m - 1))
        BY FS_Interval
      <4>2. U \in SUBSET (1..(m - 1))
        OBVIOUS
      <4> QED
        BY <2>2, <4>1, <4>2, FS_Subset
    <3>2. PICK s \in SetToSeqs(U) : Down(s)
      BY <1>2, <3>1
    <3> DEFINE k == Cardinality(U)
               t == [i \in 1..(k + 1) |-> IF i = 1 THEN m ELSE s[i - 1]]
    <3>3. k \in Nat /\ Cardinality(T) = k + 1
      BY <3>1, FS_CardinalityType, FS_AddElement
    <3>4. s \in [1..k -> U] /\ \A i, j \in 1..k : i # j => s[i] # s[j]
      BY <3>2 DEF SetToSeqs
    <3> HIDE DEF k, U
    <3>5. \A i \in 1..k : s[i] \in U /\ s[i] # m /\ s[i] < m /\ s[i] \in Int
      <4>1. \A x \in U : x # m /\ x < m /\ x \in Int
        BY <3>1
      <4>2. \A i \in 1..k : s[i] \in U
        BY <3>4
      <4> QED
        BY <4>1, <4>2
    <3>6. t \in [1..(k + 1) -> T]
      BY <3>1, <3>3, <3>5
    <3>7. \A i \in 1..(k + 1) :
             /\ i = 1 => t[i] = m
             /\ i # 1 => i - 1 \in 1..k /\ t[i] = s[i - 1]
      BY <3>3
    <3> HIDE DEF t
    <3>8. \A i, j \in 1..(k + 1) : i # j => t[i] # t[j]
      BY <3>3, <3>4, <3>5, <3>7
    <3>9. \A i, j \in 1..(k + 1) : i < j => t[i] > t[j]
      <4>1. \A i, j \in 1..k : i < j => s[i] > s[j]
        BY <3>2, <3>4
      <4> SUFFICES ASSUME NEW i \in 1..(k + 1), NEW j \in 1..(k + 1), i < j
                   PROVE  t[i] > t[j]
        OBVIOUS
      <4>2. j - 1 \in 1..k /\ t[j] = s[j - 1]
        BY <3>3, <3>7
      <4>3. CASE i = 1
        BY <3>5, <3>7, <4>2, <4>3
      <4>4. CASE i # 1
        <5>1. i - 1 \in 1..k /\ t[i] = s[i - 1] /\ i - 1 < j - 1
          BY <3>3, <3>7, <4>4
        <5> QED
          BY <4>1, <4>2, <5>1
      <4> QED
        BY <4>3, <4>4
    <3>10. t \in SetToSeqs(T)
      BY <3>3, <3>6, <3>8 DEF SetToSeqs
    <3>11. Down(t)
      BY <3>6, <3>9
    <3> QED
      BY <3>10, <3>11
  <2> QED
    BY <2>1, <2>2
<1>3. n \in P
  <2>1. P \in SUBSET (0..n) /\ \A m \in 1..n : m - 1 \in P => m \in P
    BY <1>2
  <2> HIDE DEF P
  <2>2. P = 0..n
    BY <1>1, <2>1, Induction
  <2> QED
    BY <2>2
<1> DEFINE e == EraseOrder(is)
           k == Cardinality(is)
<1>4. e \in SetToSeqs(is) /\ Down(e)
  <2>1. \E s \in SetToSeqs(is) : Down(s)
    BY <1>3
  <2> QED
    BY <2>1 DEF EraseOrder
<1>5. IsFiniteSet(is) /\ k \in Nat
  <2>1. IsFiniteSet(1..n)
    BY FS_Interval
  <2> QED
    BY <2>1, FS_Subset, FS_CardinalityType
<1> HIDE DEF e, P
<1>6. e \in [1..k -> is] /\ \A i, j \in 1..k : i # j => e[i] # e[j]
  BY <1>4 DEF SetToSeqs
<1>7. e \in Injection(1..k, is)
  BY <1>6 DEF Injection, IsInjective
<1>8. IsFiniteSet(1..k) /\ Cardinality(1..k) = k
  BY <1>5, FirstNumbers
<1>9. e \in Surjection(1..k, is)
  BY <1>5, <1>7, <1>8, FS_Injection
<1> HIDE DEF k
<1>10. e \in Seq(is) /\ Len(e) = k /\ DOMAIN e = 1..k
  BY <1>5, <1>6
<1>11. ToSet(e) = is
  BY <1>9, <1>10 DEF Surjection, ToSet
<1> QED
  BY <1>4, <1>10, <1>11 DEF e, k

(***************************************************************************)
(* Copies of a child in a sequence.                                        *)
(***************************************************************************)
\* Where the copies of a child are.
PlacesOf(s, c) == {i \in DOMAIN s : s[i] = c}

\* The places of a child are finitely many, and as many as its copies.
LEMMA PlacesFinite ==
    ASSUME NEW S, NEW s \in Seq(S), NEW c
    PROVE  /\ IsFiniteSet(PlacesOf(s, c))
           /\ Copies(s, c) = Cardinality(PlacesOf(s, c)) /\ Copies(s, c) \in Nat
           /\ Copies(s, c) > 0 <=> c \in ToSet(s)
<1>1. Len(s) \in Nat /\ DOMAIN s = 1..Len(s) /\ IsFiniteSet(1..Len(s))
  BY FS_Interval
<1>2. PlacesOf(s, c) \in SUBSET (1..Len(s))
  BY <1>1 DEF PlacesOf
<1>3. IsFiniteSet(PlacesOf(s, c)) /\ Cardinality(PlacesOf(s, c)) \in Nat
  BY <1>1, <1>2, FS_Subset, FS_CardinalityType
<1>4. Copies(s, c) = Cardinality(PlacesOf(s, c))
  BY DEF Copies, PlacesOf
<1>5. Cardinality(PlacesOf(s, c)) = 0 <=> PlacesOf(s, c) = {}
  BY <1>3, FS_EmptySet
<1>6. c \in ToSet(s) <=> PlacesOf(s, c) # {}
  BY DEF ToSet, PlacesOf
<1> QED
  BY <1>3, <1>4, <1>5, <1>6

\* Appending a child adds one copy of it.
LEMMA AppendCopies ==
    ASSUME NEW S, NEW s \in Seq(S), NEW x \in S, NEW c
    PROVE  Copies(Append(s, x), c) = Copies(s, c) + (IF x = c THEN 1 ELSE 0)
<1> DEFINE t == Append(s, x)
           n == Len(s)
<1>1. /\ n \in Nat /\ DOMAIN s = 1..n /\ DOMAIN t = 1..(n + 1) /\ t \in Seq(S)
      /\ t[n + 1] = x /\ \A i \in 1..n : t[i] = s[i]
  OBVIOUS
<1> HIDE DEF t, n
<1>2. CASE x = c
  <2>1. PlacesOf(t, c) = PlacesOf(s, c) \cup {n + 1} /\ n + 1 \notin PlacesOf(s, c)
    BY <1>1, <1>2 DEF PlacesOf
  <2>2. Copies(t, c) = Copies(s, c) + 1
    BY <1>1, <2>1, PlacesFinite, FS_AddElement
  <2> QED
    BY <1>2, <2>2 DEF t
<1>3. CASE x # c
  <2>1. PlacesOf(t, c) = PlacesOf(s, c)
    BY <1>1, <1>3 DEF PlacesOf
  <2>2. Copies(t, c) = Copies(s, c) /\ Copies(s, c) \in Nat
    BY <1>1, <2>1, PlacesFinite
  <2> QED
    BY <1>3, <2>2 DEF t
<1> QED
  BY <1>2, <1>3

\* What removing the i-th child leaves at which place.
LEMMA RemoveIs ==
    ASSUME NEW S, NEW s \in Seq(S), NEW i \in DOMAIN s
    PROVE  /\ RemoveAt(s, i) \in Seq(S)
           /\ Len(RemoveAt(s, i)) = Len(s) - 1
           /\ \A j \in 1..(Len(s) - 1) :
                 RemoveAt(s, i)[j] = IF j < i THEN s[j] ELSE s[j + 1]
<1> DEFINE n == Len(s)
           a == SubSeq(s, 1, i - 1)
           b == SubSeq(s, i + 1, n)
<1>1. n \in Nat /\ DOMAIN s = 1..n /\ i \in 1..n /\ \A j \in 1..n : s[j] \in S
  BY ElementOfSeq
<1>2. a \in Seq(S) /\ Len(a) = i - 1 /\ \A j \in 1..(i - 1) : a[j] = s[j]
  <2>1. \A j \in 1..(i - 1) : s[j] \in S
    BY <1>1
  <2>2. /\ a \in Seq(S) /\ Len(a) = IF 1 <= i - 1 THEN i - 1 - 1 + 1 ELSE 0
        /\ \A j \in 1..(i - 1 - 1 + 1) : a[j] = s[1 + j - 1]
    <3> HIDE DEF n
    <3> QED
      BY <1>1, <2>1, SubSeqProperties
  <2> HIDE DEF a
  <2>3. \A j \in 1..(i - 1) : a[j] = s[j]
    <3>1. \A j \in 1..(i - 1) : j \in 1..(i - 1 - 1 + 1) /\ 1 + j - 1 = j
      BY <1>1
    <3> QED
      BY <2>2, <3>1
  <2> QED
    BY <1>1, <2>2, <2>3
<1>3. b \in Seq(S) /\ Len(b) = n - i /\ \A j \in 1..(n - i) : b[j] = s[i + j]
  <2>1. \A j \in (i + 1)..n : s[j] \in S
    BY <1>1
  <2>2. /\ b \in Seq(S) /\ Len(b) = IF i + 1 <= n THEN n - (i + 1) + 1 ELSE 0
        /\ \A j \in 1..(n - (i + 1) + 1) : b[j] = s[i + 1 + j - 1]
    <3> HIDE DEF n
    <3> QED
      BY <1>1, <2>1, SubSeqProperties
  <2> HIDE DEF b
  <2>3. \A j \in 1..(n - i) : b[j] = s[i + j]
    <3>1. \A j \in 1..(n - i) : j \in 1..(n - (i + 1) + 1) /\ i + 1 + j - 1 = i + j
      BY <1>1
    <3> QED
      BY <2>2, <3>1
  <2> QED
    BY <1>1, <2>2, <2>3
<1>4. /\ a \o b \in Seq(S) /\ Len(a \o b) = n - 1
      /\ \A j \in 1..(n - 1) :
            (a \o b)[j] = IF j <= i - 1 THEN a[j] ELSE b[j - (i - 1)]
  <2> HIDE DEF a, b, n
  <2>1. /\ a \o b \in Seq(S) /\ Len(a \o b) = Len(a) + Len(b)
        /\ \A j \in 1..(Len(a) + Len(b)) :
              (a \o b)[j] = IF j <= Len(a) THEN a[j] ELSE b[j - Len(a)]
    BY <1>2, <1>3, ConcatProperties
  <2> QED
    BY <1>1, <1>2, <1>3, <2>1
<1>5. RemoveAt(s, i) = a \o b
  BY DEF RemoveAt
<1> HIDE DEF a, b
<1>6. \A j \in 1..(n - 1) : (a \o b)[j] = IF j < i THEN s[j] ELSE s[j + 1]
  <2> HIDE DEF n
  <2> SUFFICES ASSUME NEW j \in 1..(n - 1)
               PROVE  (a \o b)[j] = IF j < i THEN s[j] ELSE s[j + 1]
    OBVIOUS
  <2>1. CASE j < i
    BY <1>1, <1>2, <1>4, <2>1
  <2>2. CASE ~(j < i)
    <3>1. (a \o b)[j] = b[j - (i - 1)] /\ j - (i - 1) \in 1..(n - i)
      BY <1>1, <1>4, <2>2
    <3>2. b[j - (i - 1)] = s[i + (j - (i - 1))] /\ i + (j - (i - 1)) = j + 1
      BY <1>1, <1>3, <3>1
    <3> QED
      BY <2>2, <3>1, <3>2
  <2> QED
    BY <2>1, <2>2
<1> QED
  BY <1>4, <1>5, <1>6

\* Removing a child takes one copy of it away.
LEMMA RemoveCopies ==
    ASSUME NEW S, NEW s \in Seq(S), NEW i \in DOMAIN s, NEW c
    PROVE  Copies(RemoveAt(s, i), c) = Copies(s, c) - (IF s[i] = c THEN 1 ELSE 0)
<1> DEFINE t == RemoveAt(s, i)
           n == Len(s)
           A == PlacesOf(t, c)
           B == PlacesOf(s, c) \ {i}
           f == [j \in A |-> IF j < i THEN j ELSE j + 1]
<1>1. /\ n \in Nat /\ i \in 1..n /\ t \in Seq(S) /\ DOMAIN s = 1..n
      /\ DOMAIN t = 1..(n - 1)
      /\ \A j \in 1..(n - 1) : t[j] = IF j < i THEN s[j] ELSE s[j + 1]
  <2>1. n \in Nat /\ i \in 1..n /\ DOMAIN s = 1..n
    OBVIOUS
  <2>2. /\ t \in Seq(S) /\ Len(t) = n - 1
        /\ \A j \in 1..(n - 1) : t[j] = IF j < i THEN s[j] ELSE s[j + 1]
    BY RemoveIs
  <2>3. DOMAIN t = 1..(n - 1)
    BY <2>2
  <2> QED
    BY <2>1, <2>2, <2>3
<1> HIDE DEF t, n
<1>2. f \in Injection(A, B)
  <2>1. \A j \in A : j \in 1..(n - 1) /\ f[j] \in B
    BY <1>1 DEF PlacesOf
  <2>2. \A j, k \in A : f[j] = f[k] => j = k
    BY <1>1, <2>1
  <2> QED
    BY <2>1, <2>2 DEF Injection, IsInjective
<1>3. f \in Surjection(A, B)
  <2>1. ASSUME NEW k \in B PROVE \E j \in A : f[j] = k
    <3>1. k \in 1..n /\ k # i /\ s[k] = c
      BY <1>1 DEF PlacesOf
    <3>2. CASE k < i
      <4>1. k \in A
        BY <1>1, <3>1, <3>2 DEF PlacesOf
      <4> QED
        BY <3>2, <4>1
    <3>3. CASE ~(k < i)
      <4>1. k - 1 \in A /\ ~(k - 1 < i) /\ k - 1 + 1 = k
        BY <1>1, <3>1, <3>3 DEF PlacesOf
      <4> QED
        BY <4>1
    <3> QED
      BY <3>2, <3>3
  <2> QED
    BY <1>2, <2>1 DEF Surjection, Injection
<1>4. ExistsBijection(A, B)
  BY <1>2, <1>3 DEF ExistsBijection, Bijection
<1> HIDE DEF f
<1>5. IsFiniteSet(A) /\ Copies(t, c) = Cardinality(A)
  BY <1>1, PlacesFinite
<1>6. /\ IsFiniteSet(PlacesOf(s, c)) /\ Copies(s, c) = Cardinality(PlacesOf(s, c))
      /\ Copies(s, c) \in Nat
  BY PlacesFinite
<1>7. Cardinality(B) = Cardinality(A)
  BY <1>4, <1>5, FS_Bijection
<1>8. i \in PlacesOf(s, c) <=> s[i] = c
  BY <1>1 DEF PlacesOf
<1>9. Cardinality(B) = Copies(s, c) - (IF s[i] = c THEN 1 ELSE 0)
  <2> DEFINE Q == PlacesOf(s, c)
  <2>1. Cardinality(Q \ {i}) = IF i \in Q THEN Cardinality(Q) - 1 ELSE Cardinality(Q)
    <3> HIDE DEF Q
    <3> QED
      BY <1>6, FS_RemoveElement DEF Q
  <2>2. CASE s[i] = c
    BY <1>6, <1>8, <2>1, <2>2
  <2>3. CASE s[i] # c
    BY <1>6, <1>8, <2>1, <2>3
  <2> QED
    BY <2>2, <2>3
<1> QED
  BY <1>5, <1>7, <1>9 DEF t

(***************************************************************************)
(* Adding and deleting a child.                                            *)
(***************************************************************************)
\* The children of a sequence of hashes.
LEMMA ChildrenOfIs ==
    ASSUME NEW hs \in Seq(HashOf)
    PROVE  /\ ChildrenOf(hs) \in Seq(ChildSet) /\ Len(ChildrenOf(hs)) = Len(hs)
           /\ DOMAIN hs = 1..Len(hs) /\ Len(hs) \in Nat
           /\ \A i \in 1..Len(hs) : ChildrenOf(hs)[i] = hs[i].child /\ hs[i] \in HashOf
<1>1. Len(hs) \in Nat /\ DOMAIN hs = 1..Len(hs) /\ \A i \in 1..Len(hs) : hs[i] \in HashOf
  BY ElementOfSeq
<1>2. \A i \in 1..Len(hs) : hs[i].child \in ChildSet
  BY <1>1 DEF HashOf
<1>3. ChildrenOf(hs) \in [1..Len(hs) -> ChildSet]
  BY <1>1, <1>2 DEF ChildrenOf
<1> HIDE DEF ChildSet
<1>4. ChildrenOf(hs) \in Seq(ChildSet) /\ Len(ChildrenOf(hs)) = Len(hs)
  BY <1>1, <1>3
<1> QED
  BY <1>1, <1>4 DEF ChildrenOf

\* GenIBLT::insert finds a hash that is not in use.
LEMMA FreshHashIs ==
    ASSUME NEW hs \in Seq(HashOf), Len(hs) <= 2 * MaxChildren, NEW c \in ChildSet
    PROVE  /\ FreshHash(hs, c) \in HashOf /\ FreshHash(hs, c).child = c
           /\ FreshHash(hs, c) \notin ToSet(hs)
           /\ Hash(c, 0) \notin ToSet(hs) => FreshHash(hs, c).again = 0
<1> DEFINE n == Len(hs)
           T == {m \in 0..n : Hash(c, m) \notin ToSet(hs)}
<1>1. n \in Nat /\ DOMAIN hs = 1..n
  OBVIOUS
<1>2. T # {}
  <2> SUFFICES ASSUME T = {} PROVE FALSE
    OBVIOUS
  <2> DEFINE f == [m \in 0..n |-> CHOOSE i \in 1..n : hs[i] = Hash(c, m)]
  <2>1. \A m \in 0..n : \E i \in 1..n : hs[i] = Hash(c, m)
    BY <1>1 DEF ToSet
  <2>2. \A m \in 0..n : f[m] \in 1..n /\ hs[f[m]] = Hash(c, m)
    BY <2>1
  <2>3. f \in [0..n -> 1..n]
    BY <2>2
  <2>4. /\ IsFiniteSet(0..n) /\ Cardinality(0..n) = n + 1
        /\ IsFiniteSet(1..n) /\ Cardinality(1..n) = n
    <3> HIDE DEF n
    <3>1. IsFiniteSet(0..n) /\ Cardinality(0..n) = IF 0 > n THEN 0 ELSE n - 0 + 1
      BY <1>1, FS_Interval
    <3>2. IsFiniteSet(1..n) /\ Cardinality(1..n) = IF 1 > n THEN 0 ELSE n - 1 + 1
      BY <1>1, FS_Interval
    <3> QED
      BY <1>1, <3>1, <3>2
  <2> HIDE DEF f
  <2>5. PICK x, y \in 0..n : x # y /\ f[x] = f[y]
    <3> DEFINE A == 0..n
               B == 1..n
    <3>1. Cardinality(B) < Cardinality(A)
      BY <1>1, <2>4
    <3>2. IsFiniteSet(A) /\ IsFiniteSet(B) /\ f \in [A -> B]
      BY <2>3, <2>4
    <3> HIDE DEF A, B
    <3>3. \E x, y \in A : x # y /\ f[x] = f[y]
      BY <3>1, <3>2, FS_PigeonHole
    <3> QED
      BY <3>3 DEF A
  <2>6. Hash(c, x) = Hash(c, y)
    BY <2>2, <2>5
  <2> QED
    BY <2>5, <2>6 DEF Hash
<1>3. Min(T) \in T /\ \A m \in T : Min(T) <= m
  <2>1. T \in SUBSET Nat
    BY <1>1
  <2> HIDE DEF T
  <2> QED
    BY <1>2, <2>1, MinIs
<1>4. FreshHash(hs, c) = Hash(c, Min(T))
  BY DEF FreshHash
<1>7. Hash(c, 0) \notin ToSet(hs) => Min(T) = 0
  <2> SUFFICES ASSUME Hash(c, 0) \notin ToSet(hs) PROVE Min(T) = 0
    OBVIOUS
  <2>1. 0 \in T /\ T \in SUBSET Nat
    BY <1>1
  <2>2. Min(T) \in T /\ Min(T) <= 0
    BY <1>3, <2>1
  <2> HIDE DEF T
  <2>3. Min(T) \in Nat
    BY <2>1, <2>2
  <2> QED
    BY <2>2, <2>3
<1> HIDE DEF T
<1>5. Min(T) \in 0..n /\ Hash(c, Min(T)) \notin ToSet(hs)
  BY <1>3 DEF T
<1>6. Min(T) \in 0..2 * MaxChildren
  BY <1>1, <1>5, SetOfSetsAssumption
<1> QED
  BY <1>4, <1>5, <1>6, <1>7 DEF Hash, HashOf

\* GenIBLT::erase finds a hash of a child that has one.
LEMMA FirstHashIs ==
    ASSUME NEW hs \in Seq(HashOf), NEW c \in ChildSet, Copies(ChildrenOf(hs), c) > 0
    PROVE  FirstHash(hs, c) \in DOMAIN hs /\ hs[FirstHash(hs, c)].child = c
<1> DEFINE T == {n \in 0..2 * MaxChildren : Hash(c, n) \in ToSet(hs)}
<1>1. c \in ToSet(ChildrenOf(hs))
  BY ChildrenOfIs, PlacesFinite
<1>2. PICK i \in 1..Len(hs) : ChildrenOf(hs)[i] = c
  BY <1>1, ChildrenOfIs DEF ToSet
<1>3. hs[i] \in HashOf /\ hs[i].child = c /\ i \in DOMAIN hs
  BY <1>2, ChildrenOfIs
<1>4. hs[i] = Hash(c, hs[i].again) /\ hs[i].again \in 0..2 * MaxChildren
  BY <1>3 DEF HashOf, Hash
<1>5. hs[i].again \in T
  BY <1>3, <1>4 DEF ToSet
<1>6. T \in SUBSET Nat
  OBVIOUS
<1>7. Min(T) \in T
  <2> HIDE DEF T
  <2> QED
    BY <1>5, <1>6, MinIs
<1>8. FirstHash(hs, c) = CHOOSE j \in DOMAIN hs : hs[j] = Hash(c, Min(T))
  BY DEF FirstHash
<1>9. \E j \in DOMAIN hs : hs[j] = Hash(c, Min(T))
  BY <1>7 DEF ToSet
<1> HIDE DEF T
<1>10. FirstHash(hs, c) \in DOMAIN hs /\ hs[FirstHash(hs, c)] = Hash(c, Min(T))
  BY <1>8, <1>9
<1> QED
  BY <1>10 DEF Hash

\* Every hash is that of a child that is held.
LEMMA HashesOfHeld ==
    ASSUME NEW hs \in Seq(HashOf), NEW s,
           \A k \in ChildSet : Copies(ChildrenOf(hs), k) = Copies(s, k)
    PROVE  \A i \in 1..Len(hs) : hs[i].child \in ChildSet /\ Copies(s, hs[i].child) > 0
<1> DEFINE cs == ChildrenOf(hs)
<1>1. cs \in Seq(ChildSet) /\ Len(cs) = Len(hs) /\ \A i \in 1..Len(hs) : cs[i] = hs[i].child
  BY ChildrenOfIs
<1> HIDE DEF cs
<1> SUFFICES ASSUME NEW i \in 1..Len(hs)
             PROVE  hs[i].child \in ChildSet /\ Copies(s, hs[i].child) > 0
  OBVIOUS
<1>2. cs[i] \in ChildSet /\ cs[i] \in ToSet(cs)
  <2>1. i \in DOMAIN cs
    BY <1>1
  <2> QED
    BY <1>1, <2>1, ElementOfSeq DEF ToSet
<1>3. Copies(cs, cs[i]) > 0
  BY <1>1, <1>2, PlacesFinite
<1> QED
  BY <1>1, <1>2, <1>3 DEF cs

\* Adding a child keeps a parent sound: its hash is fresh, and both come last.
LEMMA AddedSound ==
    ASSUME NEW p, Sound(p), Len(p.mySet) <= 2 * MaxChildren, NEW c \in ChildSet
    PROVE  /\ Sound(Added(p, c)) /\ Added(p, c).mySet = Append(p.mySet, c)
           /\ Added(p, c).stale = p.stale
<1> DEFINE s == p.mySet
           hs == p.hashes
           x == FreshHash(hs, c)
           q == Added(p, c)
           n == Len(s)
<1>1. /\ s \in Seq(ChildSet) /\ hs \in Seq(HashOf) /\ p.stale \in BOOLEAN
      /\ Len(hs) = n /\ n \in Nat /\ DOMAIN s = 1..n /\ DOMAIN hs = 1..n
      /\ \A i, j \in 1..n : hs[i] = hs[j] => i = j
      /\ \A k \in ChildSet : Copies(ChildrenOf(hs), k) = Copies(s, k)
      /\ p.stale \/ \A i \in 1..n : hs[i].child = s[i]
  <2>1. s \in Seq(ChildSet) /\ hs \in Seq(HashOf) /\ Len(hs) = n
    BY DEF Sound
  <2>2. n \in Nat /\ DOMAIN s = 1..n /\ DOMAIN hs = 1..n
    BY <2>1
  <2> QED
    BY <2>1, <2>2 DEF Sound, InPlace
<1>2. /\ x \in HashOf /\ x.child = c /\ x \notin ToSet(hs)
      /\ Hash(c, 0) \notin ToSet(hs) => x.again = 0
  BY <1>1, FreshHashIs
<1>11. ~p.stale => \A i \in 1..n : Copies(s, hs[i].child) = 1 => hs[i].again = 0
  BY <1>1 DEF Sound, Singles
<1>12. /\ \A i \in 1..n : hs[i].child \in ChildSet /\ Copies(s, hs[i].child) > 0
       /\ Copies(s, c) \in Nat
       /\ Copies(s, c) = 0 => Hash(c, 0) \notin ToSet(hs)
  <2>1. \A i \in 1..n : hs[i].child \in ChildSet /\ Copies(s, hs[i].child) > 0
    BY <1>1, HashesOfHeld
  <2>2. Copies(s, c) \in Nat
    BY <1>1, PlacesFinite
  <2>3. ASSUME Copies(s, c) = 0, Hash(c, 0) \in ToSet(hs) PROVE FALSE
    <3>1. PICK i \in 1..n : hs[i] = Hash(c, 0)
      BY <1>1, <2>3 DEF ToSet
    <3>2. hs[i].child = c
      BY <3>1 DEF Hash
    <3> QED
      BY <2>1, <2>3, <3>2
  <2> QED
    BY <2>1, <2>2, <2>3
<1>3. q.mySet = Append(s, c) /\ q.hashes = Append(hs, x) /\ q.stale = p.stale
  BY DEF Added
<1> HIDE DEF s, hs, x, q, n
<1>4. /\ Append(s, c) \in Seq(ChildSet) /\ Append(hs, x) \in Seq(HashOf)
      /\ Len(Append(s, c)) = n + 1 /\ Len(Append(hs, x)) = n + 1
      /\ Append(s, c)[n + 1] = c /\ Append(hs, x)[n + 1] = x
      /\ \A i \in 1..n : Append(s, c)[i] = s[i] /\ Append(hs, x)[i] = hs[i]
      /\ DOMAIN Append(s, c) = 1..(n + 1) /\ DOMAIN Append(hs, x) = 1..(n + 1)
  BY <1>1, <1>2 DEF n
<1>5. \A i \in 1..n : hs[i] # x
  BY <1>1, <1>2 DEF ToSet
<1>6. \A i, j \in 1..(n + 1) : Append(hs, x)[i] = Append(hs, x)[j] => i = j
  <2>1. \A i \in 1..(n + 1) : i = n + 1 \/ i \in 1..n
    BY <1>1
  <2> QED
    BY <1>1, <1>4, <1>5, <2>1
<1>7. ChildrenOf(Append(hs, x)) = Append(ChildrenOf(hs), c)
  <2> DEFINE a == ChildrenOf(Append(hs, x))
             b == Append(ChildrenOf(hs), c)
  <2>1. ChildrenOf(hs) \in Seq(ChildSet) /\ Len(ChildrenOf(hs)) = n
    BY <1>1, ChildrenOfIs
  <2>2. b \in Seq(ChildSet) /\ Len(b) = n + 1 /\ b[n + 1] = c
        /\ \A i \in 1..n : b[i] = ChildrenOf(hs)[i]
    <3> HIDE DEF ChildSet
    <3> QED
      BY <2>1, <1>1
  <2>3. a \in Seq(ChildSet) /\ Len(a) = n + 1
        /\ \A i \in 1..(n + 1) : a[i] = Append(hs, x)[i].child
    BY <1>4, ChildrenOfIs
  <2> HIDE DEF a, b
  <2>4. \A i \in 1..(n + 1) : a[i] = b[i]
    <3>1. \A i \in 1..n : a[i] = b[i]
      <4>1. \A i \in 1..n : ChildrenOf(hs)[i] = hs[i].child
        BY <1>1, ChildrenOfIs
      <4> QED
        BY <1>1, <1>4, <2>2, <2>3, <4>1
    <3>2. a[n + 1] = b[n + 1]
      BY <1>1, <1>2, <1>4, <2>2, <2>3
    <3> QED
      BY <1>1, <3>1, <3>2
  <2>5. a = b
    BY <2>2, <2>3, <2>4, SeqEqual
  <2> QED
    BY <2>5 DEF a, b
<1>8. ASSUME NEW k \in ChildSet
      PROVE  Copies(ChildrenOf(Append(hs, x)), k) = Copies(Append(s, c), k)
  <2>1. Copies(Append(s, c), k) = Copies(s, k) + (IF c = k THEN 1 ELSE 0)
    BY <1>1, AppendCopies
  <2>2. Copies(Append(ChildrenOf(hs), c), k) =
          Copies(ChildrenOf(hs), k) + (IF c = k THEN 1 ELSE 0)
    <3>1. ChildrenOf(hs) \in Seq(ChildSet)
      BY <1>1, ChildrenOfIs
    <3> QED
      BY <3>1, AppendCopies
  <2> QED
    BY <1>1, <1>7, <2>1, <2>2
<1>9. p.stale \/ \A i \in 1..(n + 1) : Append(hs, x)[i].child = Append(s, c)[i]
  <2>1. \A i \in 1..(n + 1) : i = n + 1 \/ i \in 1..n
    BY <1>1
  <2> QED
    BY <1>1, <1>2, <1>4, <2>1
<1>13. ASSUME ~p.stale, NEW i \in 1..(n + 1),
              Copies(Append(s, c), Append(hs, x)[i].child) = 1
       PROVE  Append(hs, x)[i].again = 0
  <2> DEFINE d == Append(hs, x)[i].child
  <2>1. Copies(Append(s, c), d) = Copies(s, d) + (IF c = d THEN 1 ELSE 0)
    BY <1>1, AppendCopies
  <2>2. CASE i = n + 1
    <3>1. d = c /\ Append(hs, x)[i] = x
      BY <1>2, <1>4, <2>2
    <3>2. Copies(s, c) = 0
      BY <1>12, <1>13, <2>1, <3>1
    <3> QED
      BY <1>2, <1>12, <3>1, <3>2
  <2>3. CASE i \in 1..n
    <3>1. Append(hs, x)[i] = hs[i]
      BY <1>4, <2>3
    <3>2. d \in ChildSet /\ Copies(s, d) > 0 /\ Copies(s, d) \in Nat
      BY <1>1, <1>12, <2>3, <3>1, PlacesFinite
    <3>3. Copies(Append(s, c), d) = 1
      BY <1>13
    <3> HIDE DEF d
    <3>4. Copies(s, d) = 1
      <4> HIDE DEF s
      <4> QED
        BY <2>1, <3>2, <3>3
    <3>5. Copies(s, hs[i].child) = 1 /\ Append(hs, x)[i].again = hs[i].again
      BY <3>1, <3>4 DEF d
    <3> QED
      BY <1>11, <1>13, <2>3, <3>5
  <2> QED
    BY <1>1, <2>2, <2>3
<1>14. p.stale \/ Singles(q)
  BY <1>3, <1>4, <1>13 DEF Singles
<1>10. Sound(q)
  BY <1>1, <1>3, <1>4, <1>6, <1>8, <1>9, <1>14 DEF Sound, InPlace
<1> QED
  BY <1>3, <1>10 DEF s, q

\* Removing a hash removes its child.
LEMMA RemoveChildren ==
    ASSUME NEW hs \in Seq(HashOf), NEW i \in DOMAIN hs
    PROVE  ChildrenOf(RemoveAt(hs, i)) = RemoveAt(ChildrenOf(hs), i)
<1> DEFINE n == Len(hs)
           cs == ChildrenOf(hs)
           a == ChildrenOf(RemoveAt(hs, i))
           b == RemoveAt(cs, i)
<1>1. /\ n \in Nat /\ DOMAIN hs = 1..n /\ cs \in Seq(ChildSet) /\ Len(cs) = n
      /\ DOMAIN cs = 1..n /\ \A j \in 1..n : cs[j] = hs[j].child
  <2>1. n \in Nat /\ DOMAIN hs = 1..n /\ cs \in Seq(ChildSet) /\ Len(cs) = n
        /\ \A j \in 1..n : cs[j] = hs[j].child
    BY ChildrenOfIs
  <2> HIDE DEF cs
  <2>2. DOMAIN cs = 1..n
    BY <2>1
  <2> QED
    BY <2>1, <2>2
<1>2. /\ RemoveAt(hs, i) \in Seq(HashOf) /\ Len(RemoveAt(hs, i)) = n - 1
      /\ \A j \in 1..(n - 1) : RemoveAt(hs, i)[j] = IF j < i THEN hs[j] ELSE hs[j + 1]
  BY RemoveIs
<1> HIDE DEF n, cs
<1>3. /\ b \in Seq(ChildSet) /\ Len(b) = n - 1
      /\ \A j \in 1..(n - 1) : b[j] = IF j < i THEN cs[j] ELSE cs[j + 1]
  BY <1>1, RemoveIs
<1>4. /\ a \in Seq(ChildSet) /\ Len(a) = n - 1
      /\ \A j \in 1..(n - 1) : a[j] = RemoveAt(hs, i)[j].child
  BY <1>2, ChildrenOfIs
<1> HIDE DEF a, b
<1>5. ASSUME NEW j \in 1..(n - 1) PROVE a[j] = b[j]
  <2>1. j \in 1..n /\ j + 1 \in 1..n
    BY <1>1
  <2>2. CASE j < i
    BY <1>1, <1>2, <1>3, <1>4, <2>1, <2>2
  <2>3. CASE ~(j < i)
    BY <1>1, <1>2, <1>3, <1>4, <2>1, <2>3
  <2> QED
    BY <2>2, <2>3
<1>6. a = b
  BY <1>3, <1>4, <1>5, SeqEqual
<1> QED
  BY <1>6 DEF a, b, cs

\* Deleting a child keeps a parent sound: the hash that is erased may be that of another
\* copy, and then the parent is stale.
LEMMA DeletedSound ==
    ASSUME NEW p, Sound(p), NEW i \in DOMAIN p.mySet
    PROVE  /\ Sound(Deleted(p, i)) /\ Deleted(p, i).mySet = RemoveAt(p.mySet, i)
           /\ ~Deleted(p, i).stale => ~p.stale
<1> DEFINE s == p.mySet
           hs == p.hashes
           c == s[i]
           f == FirstHash(hs, c)
           q == Deleted(p, i)
           n == Len(s)
<1>1. /\ s \in Seq(ChildSet) /\ hs \in Seq(HashOf) /\ p.stale \in BOOLEAN
      /\ Len(hs) = n /\ n \in Nat /\ DOMAIN s = 1..n /\ DOMAIN hs = 1..n
      /\ \A j, k \in 1..n : hs[j] = hs[k] => j = k
      /\ \A k \in ChildSet : Copies(ChildrenOf(hs), k) = Copies(s, k)
      /\ p.stale \/ \A j \in 1..n : hs[j].child = s[j]
  <2>1. s \in Seq(ChildSet) /\ hs \in Seq(HashOf) /\ Len(hs) = n
    BY DEF Sound
  <2>2. n \in Nat /\ DOMAIN s = 1..n /\ DOMAIN hs = 1..n
    BY <2>1
  <2> QED
    BY <2>1, <2>2 DEF Sound, InPlace
<1>2. i \in 1..n /\ c \in ChildSet /\ c \in ToSet(s)
  <2>1. i \in 1..n
    BY <1>1
  <2>2. c \in ChildSet
    BY <1>1, <2>1, ElementOfSeq
  <2> QED
    BY <1>1, <2>1, <2>2 DEF ToSet
<1>3. Copies(s, c) \in Nat /\ Copies(s, c) > 0
  BY <1>1, <1>2, PlacesFinite
<1>4. f \in 1..n /\ hs[f].child = c
  <2>1. Copies(ChildrenOf(hs), c) > 0
    BY <1>1, <1>2, <1>3
  <2> QED
    BY <1>1, <1>2, <2>1, FirstHashIs
<1>5. /\ q.mySet = RemoveAt(s, i) /\ q.hashes = RemoveAt(hs, f)
      /\ q.stale \in BOOLEAN
      /\ q.stale <=> (p.stale \/ Copies(s, c) > 1)
  <2>1. /\ q.mySet = RemoveAt(s, i) /\ q.hashes = RemoveAt(hs, f)
        /\ q.stale = (p.stale \/ Copies(s, c) > 1)
    BY DEF Deleted
  <2> QED
    BY <2>1, Zenon
<1> HIDE DEF s, hs, c, f, q, n
<1>6. /\ RemoveAt(s, i) \in Seq(ChildSet) /\ Len(RemoveAt(s, i)) = n - 1
      /\ \A j \in 1..(n - 1) : RemoveAt(s, i)[j] = IF j < i THEN s[j] ELSE s[j + 1]
  <2>1. s \in Seq(ChildSet) /\ i \in DOMAIN s /\ Len(s) = n
    BY <1>1, <1>2 DEF n
  <2>2. /\ RemoveAt(s, i) \in Seq(ChildSet) /\ Len(RemoveAt(s, i)) = Len(s) - 1
        /\ \A j \in 1..(Len(s) - 1) : RemoveAt(s, i)[j] = IF j < i THEN s[j] ELSE s[j + 1]
    BY <2>1, RemoveIs, Zenon
  <2> QED
    BY <2>1, <2>2, Zenon
<1>7. /\ RemoveAt(hs, f) \in Seq(HashOf) /\ Len(RemoveAt(hs, f)) = n - 1
      /\ \A j \in 1..(n - 1) : RemoveAt(hs, f)[j] = IF j < f THEN hs[j] ELSE hs[j + 1]
  <2>1. f \in DOMAIN hs /\ hs \in Seq(HashOf)
    BY <1>1, <1>4
  <2>2. /\ RemoveAt(hs, f) \in Seq(HashOf) /\ Len(RemoveAt(hs, f)) = Len(hs) - 1
        /\ \A j \in 1..(Len(hs) - 1) :
              RemoveAt(hs, f)[j] = IF j < f THEN hs[j] ELSE hs[j + 1]
    BY <2>1, RemoveIs
  <2> QED
    BY <1>1, <2>2
<1>8. DOMAIN RemoveAt(s, i) = 1..(n - 1) /\ DOMAIN RemoveAt(hs, f) = 1..(n - 1)
  BY <1>6, <1>7
<1>9. \A j, k \in 1..(n - 1) : RemoveAt(hs, f)[j] = RemoveAt(hs, f)[k] => j = k
  <2> DEFINE g(j) == IF j < f THEN j ELSE j + 1
  <2>1. \A j \in 1..(n - 1) : g(j) \in 1..n /\ RemoveAt(hs, f)[j] = hs[g(j)]
    BY <1>1, <1>4, <1>7
  <2>2. \A j, k \in 1..(n - 1) : g(j) = g(k) => j = k
    BY <1>1, <1>4
  <2> HIDE DEF g
  <2> QED
    BY <1>1, <2>1, <2>2
<1>10. ASSUME NEW k \in ChildSet
       PROVE  Copies(ChildrenOf(RemoveAt(hs, f)), k) = Copies(RemoveAt(s, i), k)
  <2> DEFINE cs == ChildrenOf(hs)
  <2>1. ChildrenOf(RemoveAt(hs, f)) = RemoveAt(cs, f)
    BY <1>1, <1>4, RemoveChildren
  <2>2. cs \in Seq(ChildSet) /\ f \in DOMAIN cs /\ cs[f] = c
    <3>1. cs \in Seq(ChildSet) /\ Len(cs) = n /\ \A j \in 1..n : cs[j] = hs[j].child
      BY <1>1, ChildrenOfIs
    <3> HIDE DEF cs
    <3> QED
      BY <1>4, <3>1
  <2> HIDE DEF cs
  <2>3. Copies(RemoveAt(cs, f), k) = Copies(cs, k) - (IF c = k THEN 1 ELSE 0)
    BY <2>2, RemoveCopies
  <2>4. Copies(RemoveAt(s, i), k) = Copies(s, k) - (IF c = k THEN 1 ELSE 0)
    BY <1>1, <1>2, RemoveCopies DEF c
  <2>5. Copies(cs, k) = Copies(s, k)
    BY <1>1 DEF cs
  <2> QED
    BY <2>1, <2>3, <2>4, <2>5
<1>11. ASSUME ~q.stale
       PROVE  \A j \in 1..(n - 1) : RemoveAt(hs, f)[j].child = RemoveAt(s, i)[j]
  <2>1. ~p.stale /\ Copies(s, c) = 1
    BY <1>3, <1>5, <1>11
  <2>2. f \in PlacesOf(s, c) /\ i \in PlacesOf(s, c)
    BY <1>1, <1>2, <1>4, <2>1 DEF PlacesOf, c
  <2>3. \E x : PlacesOf(s, c) = {x}
    <3>1. IsFiniteSet(PlacesOf(s, c)) /\ Cardinality(PlacesOf(s, c)) = 1
      BY <1>1, <2>1, PlacesFinite
    <3> QED
      BY <3>1, FS_Singleton
  <2>4. f = i
    BY <2>2, <2>3
  <2> SUFFICES ASSUME NEW j \in 1..(n - 1)
               PROVE  RemoveAt(hs, f)[j].child = RemoveAt(s, i)[j]
    OBVIOUS
  <2>5. j \in 1..n /\ j + 1 \in 1..n
    BY <1>1
  <2>6. hs[j].child = s[j] /\ hs[j + 1].child = s[j + 1]
    BY <1>1, <2>1, <2>5
  <2>7. CASE j < i
    BY <1>6, <1>7, <2>4, <2>6, <2>7
  <2>8. CASE ~(j < i)
    BY <1>6, <1>7, <2>4, <2>6, <2>8
  <2> QED
    BY <2>7, <2>8
<1>13. ASSUME ~q.stale PROVE Singles(q)
  <2>1. ~p.stale /\ Copies(s, c) = 1
    BY <1>3, <1>5, <1>13
  <2>2. \A j \in 1..n : Copies(s, hs[j].child) = 1 => hs[j].again = 0
    BY <1>1, <2>1 DEF Sound, Singles, s, hs
  <2> SUFFICES ASSUME NEW j \in 1..(n - 1),
                      Copies(RemoveAt(s, i), RemoveAt(hs, f)[j].child) = 1
               PROVE  RemoveAt(hs, f)[j].again = 0
    BY <1>5, <1>8 DEF Singles
  <2>3. PICK k \in 1..n : RemoveAt(hs, f)[j] = hs[k]
    <3>1. j \in 1..n /\ j + 1 \in 1..n
      BY <1>1
    <3> QED
      BY <1>7, <3>1
  <2> DEFINE d == hs[k].child
  <2>4. Copies(RemoveAt(s, i), d) = Copies(s, d) - (IF c = d THEN 1 ELSE 0)
    BY <1>1, <1>2, RemoveCopies DEF c
  <2>5. Copies(s, d) \in Nat
    BY <1>1, PlacesFinite
  <2>6. Copies(s, d) = 1
    BY <2>1, <2>3, <2>4, <2>5
  <2> QED
    BY <2>2, <2>3, <2>6
<1>12. Sound(q)
  <2>1. q.stale \/ (InPlace(q) /\ Singles(q))
    BY <1>5, <1>8, <1>11, <1>13 DEF InPlace
  <2>2. /\ q.mySet \in Seq(ChildSet) /\ q.hashes \in Seq(HashOf)
        /\ Len(q.hashes) = Len(q.mySet)
    BY <1>5, <1>6, <1>7
  <2>5. q.stale \in BOOLEAN
    BY <1>5, Zenon
  <2>3. \A j, k \in DOMAIN q.hashes : q.hashes[j] = q.hashes[k] => j = k
    BY <1>5, <1>8, <1>9
  <2>4. \A k \in ChildSet : Copies(ChildrenOf(q.hashes), k) = Copies(q.mySet, k)
    BY <1>5, <1>10
  <2> QED
    BY <2>1, <2>2, <2>3, <2>4, <2>5 DEF Sound
<1> QED
  BY <1>1, <1>5, <1>12 DEF s, q

(***************************************************************************)
(* The loops, step by step.                                                *)
(***************************************************************************)
\* Children are added one after the other.
LEMMA AllAddedStep ==
    ASSUME NEW p, NEW S, NEW s \in Seq(S)
    PROVE  \E q : /\ AllAdded(p, s) = q[Len(s)] /\ q[0] = p
                  /\ \A k \in 1..Len(s) : q[k] = Added(q[k - 1], s[k])
<1> DEFINE n == Len(s)
           Body(f, m) == [k \in 0..m |-> IF k = 0 THEN p ELSE Added(f[k - 1], s[k])]
           q == CHOOSE f : f = Body(f, n)
           P == {m \in 0..n : \E f : f = Body(f, m)}
<1>1. n \in Nat
  OBVIOUS
<1>2. AllAdded(p, s) = q[n]
  BY Zenon DEF AllAdded
<1> HIDE DEF n
<1>3. 0 \in P
  <2> DEFINE f == [k \in 0..0 |-> p]
  <2>1. f = Body(f, 0)
    <3>1. \A k \in 0..0 : k = 0
      OBVIOUS
    <3> QED
      BY <3>1, Zenon
  <2>2. 0 \in 0..n
    BY <1>1
  <2> HIDE DEF f, Body
  <2> QED
    BY <2>1, <2>2
<1>4. ASSUME NEW m \in 1..n, m - 1 \in P
      PROVE  m \in P
  <2>1. PICK f : f = Body(f, m - 1)
    BY <1>4
  <2> DEFINE x == Added(f[m - 1], s[m])
             g == [k \in 0..m |-> IF k = m THEN x ELSE f[k]]
  <2>2. \A k \in 0..(m - 1) : f[k] = IF k = 0 THEN p ELSE Added(f[k - 1], s[k])
    <3> HIDE DEF x
    <3> QED
      BY <2>1, Zenon
  <2>3. \A k \in 0..m : g[k] = IF k = m THEN x ELSE f[k]
    <3> HIDE DEF x
    <3> QED
      BY Zenon
  <2>4. ASSUME NEW k \in 0..m
        PROVE  g[k] = IF k = 0 THEN p ELSE Added(g[k - 1], s[k])
    <3> HIDE DEF g
    <3>1. CASE k = 0
      <4>1. k # m /\ k \in 0..(m - 1)
        BY <1>1, <3>1
      <4>2. g[k] = f[k] /\ f[k] = p
        BY <2>2, <2>3, <3>1, <4>1, Zenon
      <4> QED
        BY <3>1, <4>2
    <3>2. CASE k = m
      <4>1. m - 1 \in 0..m /\ m - 1 # m /\ k # 0
        BY <1>1, <3>2
      <4>2. g[m - 1] = f[m - 1] /\ g[k] = x
        BY <2>3, <3>2, <4>1, Zenon
      <4> QED
        BY <3>2, <4>1, <4>2, Zenon
    <3>3. CASE k # 0 /\ k # m
      <4>1. k - 1 \in 0..m /\ k - 1 # m /\ k \in 0..(m - 1)
        BY <1>1, <3>3
      <4>2. g[k - 1] = f[k - 1] /\ g[k] = f[k]
        BY <2>3, <3>3, <4>1, Zenon
      <4>3. f[k] = Added(f[k - 1], s[k])
        BY <2>2, <3>3, <4>1, Zenon
      <4> QED
        BY <3>3, <4>2, <4>3, Zenon
    <3> QED
      BY <3>1, <3>2, <3>3
  <2>5. g = Body(g, m)
    <3>1. g = [k \in 0..m |-> g[k]]
      BY Zenon
    <3> HIDE DEF g
    <3> QED
      BY <2>4, <3>1, Zenon
  <2> HIDE DEF g, Body
  <2>6. \E h : h = Body(h, m)
    BY <2>5
  <2>7. m \in 0..n
    BY <1>1
  <2> QED
    BY <2>6, <2>7
<1>5. n \in P
  <2>1. P \in SUBSET (0..n)
    OBVIOUS
  <2>2. \A m \in 1..n : m - 1 \in P => m \in P
    BY <1>4
  <2> HIDE DEF P
  <2>3. P = 0..n
    BY <1>1, <1>3, <2>1, <2>2, Induction
  <2> QED
    BY <1>1, <2>3
<1>6. q = Body(q, n)
  <2>1. \E f : f = Body(f, n)
    <3> HIDE DEF Body
    <3> QED
      BY <1>5
  <2> HIDE DEF Body
  <2> QED
    BY <2>1, Zenon
<1> HIDE DEF q
<1>7. q[0] = p
  <2>1. 0 \in 0..n
    BY <1>1
  <2> QED
    BY <1>6, <2>1, Zenon
<1>8. \A k \in 1..n : q[k] = Added(q[k - 1], s[k])
  <2>1. \A k \in 1..n : k \in 0..n /\ k # 0
    BY <1>1
  <2> QED
    BY <1>6, <2>1, Zenon
<1> QED
  BY <1>2, <1>7, <1>8 DEF n

\* Children are deleted one after the other.
Deletes(p, s, q) ==
    /\ AllDeleted(p, s) = q[Len(s)] /\ q[0] = p
    /\ \A k \in 1..Len(s) : q[k] = Deleted(q[k - 1], s[k])
LEMMA AllDeletedStep ==
    ASSUME NEW p, NEW S, NEW s \in Seq(S)
    PROVE  \E q : Deletes(p, s, q)
<1> DEFINE n == Len(s)
           Body(f, m) == [k \in 0..m |-> IF k = 0 THEN p ELSE Deleted(f[k - 1], s[k])]
           q == CHOOSE f : f = Body(f, n)
           P == {m \in 0..n : \E f : f = Body(f, m)}
<1>1. n \in Nat
  OBVIOUS
<1>2. AllDeleted(p, s) = q[n]
  BY Zenon DEF AllDeleted
<1> HIDE DEF n
<1>3. 0 \in P
  <2> DEFINE f == [k \in 0..0 |-> p]
  <2>1. f = Body(f, 0)
    <3>1. \A k \in 0..0 : k = 0
      OBVIOUS
    <3> QED
      BY <3>1, Zenon
  <2>2. 0 \in 0..n
    BY <1>1
  <2> HIDE DEF f, Body
  <2> QED
    BY <2>1, <2>2
<1>4. ASSUME NEW m \in 1..n, m - 1 \in P
      PROVE  m \in P
  <2>1. PICK f : f = Body(f, m - 1)
    BY <1>4
  <2> DEFINE x == Deleted(f[m - 1], s[m])
             g == [k \in 0..m |-> IF k = m THEN x ELSE f[k]]
  <2>2. \A k \in 0..(m - 1) : f[k] = IF k = 0 THEN p ELSE Deleted(f[k - 1], s[k])
    <3> HIDE DEF x
    <3> QED
      BY <2>1, Zenon
  <2>3. \A k \in 0..m : g[k] = IF k = m THEN x ELSE f[k]
    <3> HIDE DEF x
    <3> QED
      BY Zenon
  <2>4. ASSUME NEW k \in 0..m
        PROVE  g[k] = IF k = 0 THEN p ELSE Deleted(g[k - 1], s[k])
    <3> HIDE DEF g
    <3>1. CASE k = 0
      <4>1. k # m /\ k \in 0..(m - 1)
        BY <1>1, <3>1
      <4>2. g[k] = f[k] /\ f[k] = p
        BY <2>2, <2>3, <3>1, <4>1, Zenon
      <4> QED
        BY <3>1, <4>2
    <3>2. CASE k = m
      <4>1. m - 1 \in 0..m /\ m - 1 # m /\ k # 0
        BY <1>1, <3>2
      <4>2. g[m - 1] = f[m - 1] /\ g[k] = x
        BY <2>3, <3>2, <4>1, Zenon
      <4> QED
        BY <3>2, <4>1, <4>2, Zenon
    <3>3. CASE k # 0 /\ k # m
      <4>1. k - 1 \in 0..m /\ k - 1 # m /\ k \in 0..(m - 1)
        BY <1>1, <3>3
      <4>2. g[k - 1] = f[k - 1] /\ g[k] = f[k]
        BY <2>3, <3>3, <4>1, Zenon
      <4>3. f[k] = Deleted(f[k - 1], s[k])
        BY <2>2, <3>3, <4>1, Zenon
      <4> QED
        BY <3>3, <4>2, <4>3, Zenon
    <3> QED
      BY <3>1, <3>2, <3>3
  <2>5. g = Body(g, m)
    <3>1. g = [k \in 0..m |-> g[k]]
      BY Zenon
    <3> HIDE DEF g
    <3> QED
      BY <2>4, <3>1, Zenon
  <2> HIDE DEF g, Body
  <2>6. \E h : h = Body(h, m)
    BY <2>5
  <2>7. m \in 0..n
    BY <1>1
  <2> QED
    BY <2>6, <2>7
<1>5. n \in P
  <2>1. P \in SUBSET (0..n)
    OBVIOUS
  <2>2. \A m \in 1..n : m - 1 \in P => m \in P
    BY <1>4
  <2> HIDE DEF P
  <2>3. P = 0..n
    BY <1>1, <1>3, <2>1, <2>2, Induction
  <2> QED
    BY <1>1, <2>3
<1>6. q = Body(q, n)
  <2>1. \E f : f = Body(f, n)
    <3> HIDE DEF Body
    <3> QED
      BY <1>5
  <2> HIDE DEF Body
  <2> QED
    BY <2>1, Zenon
<1> HIDE DEF q
<1>7. q[0] = p
  <2>1. 0 \in 0..n
    BY <1>1
  <2> QED
    BY <1>6, <2>1, Zenon
<1>8. \A k \in 1..n : q[k] = Deleted(q[k - 1], s[k])
  <2>1. \A k \in 1..n : k \in 0..n /\ k # 0
    BY <1>1
  <2> QED
    BY <1>6, <2>1, Zenon
<1> QED
  BY <1>2, <1>7, <1>8 DEF n, Deletes

\* Children are paired one after the other.
LEMMA PairStep ==
    ASSUME NEW S, NEW s \in Seq(S), NEW t, NEW own
    PROVE  \E q : /\ Pair(s, t, own) = q[Len(s)] /\ q[0] = Unpaired
                  /\ \A k \in 1..Len(s) : q[k] = PairNext(q[k - 1], s[k], t, own)
<1> DEFINE n == Len(s)
           Body(f, m) == [k \in 0..m |-> IF k = 0 THEN Unpaired
                                         ELSE PairNext(f[k - 1], s[k], t, own)]
           q == CHOOSE f : f = Body(f, n)
           P == {m \in 0..n : \E f : f = Body(f, m)}
<1>1. n \in Nat
  OBVIOUS
<1>2. Pair(s, t, own) = q[n]
  BY Zenon DEF Pair
<1> HIDE DEF n
<1>3. 0 \in P
  <2> DEFINE f == [k \in 0..0 |-> Unpaired]
  <2>1. f = Body(f, 0)
    <3>1. \A k \in 0..0 : k = 0
      OBVIOUS
    <3> QED
      BY <3>1, Zenon
  <2>2. 0 \in 0..n
    BY <1>1
  <2> HIDE DEF f, Body
  <2> QED
    BY <2>1, <2>2
<1>4. ASSUME NEW m \in 1..n, m - 1 \in P
      PROVE  m \in P
  <2>1. PICK f : f = Body(f, m - 1)
    BY <1>4
  <2> DEFINE x == PairNext(f[m - 1], s[m], t, own)
             g == [k \in 0..m |-> IF k = m THEN x ELSE f[k]]
  <2>2. \A k \in 0..(m - 1) :
           f[k] = IF k = 0 THEN Unpaired ELSE PairNext(f[k - 1], s[k], t, own)
    <3> HIDE DEF x
    <3> QED
      BY <2>1, Zenon
  <2>3. \A k \in 0..m : g[k] = IF k = m THEN x ELSE f[k]
    <3> HIDE DEF x
    <3> QED
      BY Zenon
  <2>4. ASSUME NEW k \in 0..m
        PROVE  g[k] = IF k = 0 THEN Unpaired ELSE PairNext(g[k - 1], s[k], t, own)
    <3> HIDE DEF g
    <3>1. CASE k = 0
      <4>1. k # m /\ k \in 0..(m - 1)
        BY <1>1, <3>1
      <4>2. g[k] = f[k] /\ f[k] = Unpaired
        BY <2>2, <2>3, <3>1, <4>1, Zenon
      <4> QED
        BY <3>1, <4>2
    <3>2. CASE k = m
      <4>1. m - 1 \in 0..m /\ m - 1 # m /\ k # 0
        BY <1>1, <3>2
      <4>2. g[m - 1] = f[m - 1] /\ g[k] = x
        BY <2>3, <3>2, <4>1, Zenon
      <4> QED
        BY <3>2, <4>1, <4>2, Zenon
    <3>3. CASE k # 0 /\ k # m
      <4>1. k - 1 \in 0..m /\ k - 1 # m /\ k \in 0..(m - 1)
        BY <1>1, <3>3
      <4>2. g[k - 1] = f[k - 1] /\ g[k] = f[k]
        BY <2>3, <3>3, <4>1, Zenon
      <4>3. f[k] = PairNext(f[k - 1], s[k], t, own)
        BY <2>2, <3>3, <4>1, Zenon
      <4> QED
        BY <3>3, <4>2, <4>3, Zenon
    <3> QED
      BY <3>1, <3>2, <3>3
  <2>5. g = Body(g, m)
    <3>1. g = [k \in 0..m |-> g[k]]
      BY Zenon
    <3> HIDE DEF g
    <3> QED
      BY <2>4, <3>1, Zenon
  <2> HIDE DEF g, Body
  <2>6. \E h : h = Body(h, m)
    BY <2>5
  <2>7. m \in 0..n
    BY <1>1
  <2> QED
    BY <2>6, <2>7
<1>5. n \in P
  <2>1. P \in SUBSET (0..n)
    OBVIOUS
  <2>2. \A m \in 1..n : m - 1 \in P => m \in P
    BY <1>4
  <2> HIDE DEF P
  <2>3. P = 0..n
    BY <1>1, <1>3, <2>1, <2>2, Induction
  <2> QED
    BY <1>1, <2>3
<1>6. q = Body(q, n)
  <2>1. \E f : f = Body(f, n)
    <3> HIDE DEF Body
    <3> QED
      BY <1>5
  <2> HIDE DEF Body
  <2> QED
    BY <2>1, Zenon
<1> HIDE DEF q
<1>7. q[0] = Unpaired
  <2>1. 0 \in 0..n
    BY <1>1
  <2> QED
    BY <1>6, <2>1, Zenon
<1>8. \A k \in 1..n : q[k] = PairNext(q[k - 1], s[k], t, own)
  <2>1. \A k \in 1..n : k \in 0..n /\ k # 0
    BY <1>1
  <2> QED
    BY <1>6, <2>1, Zenon
<1> QED
  BY <1>2, <1>7, <1>8 DEF n

\* How often a child is among the first ones of a sequence.
Upto(s, k, c) == {j \in 1..k : s[j] = c}

\* One step of counting along a sequence.
LEMMA UptoIs ==
    ASSUME NEW s, NEW c
    PROVE  /\ Cardinality(Upto(s, 0, c)) = 0
           /\ \A k \in Nat : /\ IsFiniteSet(Upto(s, k, c))
                             /\ Cardinality(Upto(s, k, c)) \in Nat
           /\ \A k \in Nat \ {0} :
                 Cardinality(Upto(s, k, c)) =
                    Cardinality(Upto(s, k - 1, c)) + (IF s[k] = c THEN 1 ELSE 0)
<1>1. Cardinality(Upto(s, 0, c)) = 0
  <2>1. Upto(s, 0, c) = {}
    BY DEF Upto
  <2> QED
    BY <2>1, FS_EmptySet
<1>2. ASSUME NEW k \in Nat
      PROVE  IsFiniteSet(Upto(s, k, c)) /\ Cardinality(Upto(s, k, c)) \in Nat
  <2>1. IsFiniteSet(1..k)
    BY FS_Interval
  <2>2. Upto(s, k, c) \in SUBSET (1..k)
    BY DEF Upto
  <2> QED
    BY <2>1, <2>2, FS_Subset, FS_CardinalityType
<1>3. ASSUME NEW k \in Nat \ {0}
      PROVE  Cardinality(Upto(s, k, c)) =
                Cardinality(Upto(s, k - 1, c)) + (IF s[k] = c THEN 1 ELSE 0)
  <2> DEFINE U == Upto(s, k - 1, c)
  <2>1. k - 1 \in Nat
    OBVIOUS
  <2>2. IsFiniteSet(U) /\ Cardinality(U) \in Nat
    BY <1>2, <2>1
  <2>3. CASE s[k] = c
    <3>1. Upto(s, k, c) = U \cup {k} /\ k \notin U
      BY <2>3 DEF Upto
    <3> HIDE DEF U
    <3>2. Cardinality(U \cup {k}) = Cardinality(U) + 1
      BY <2>2, <3>1, FS_AddElement
    <3> QED
      BY <2>3, <3>1, <3>2 DEF U
  <2>4. CASE s[k] # c
    <3>1. Upto(s, k, c) = U
      BY <2>4 DEF Upto
    <3> QED
      BY <2>2, <2>4, <3>1
  <2> QED
    BY <2>3, <2>4
<1> QED
  BY <1>1, <1>2, <1>3

\* Adding children one after the other leaves the earlier ones in their places.
LEMMA AllAddedIs ==
    ASSUME NEW p, Sound(p), NEW s \in Seq(ChildSet),
           Len(p.mySet) + Len(s) <= 2 * MaxChildren
    PROVE  LET q == AllAdded(p, s) IN
           /\ Sound(q) /\ q.stale = p.stale
           /\ Len(q.mySet) = Len(p.mySet) + Len(s)
           /\ \A i \in DOMAIN p.mySet : q.mySet[i] = p.mySet[i]
           /\ \A c \in ChildSet : Copies(q.mySet, c) = Copies(p.mySet, c) + Copies(s, c)
<1> DEFINE n == Len(s)
           m == Len(p.mySet)
<1>1. PICK q : /\ AllAdded(p, s) = q[n] /\ q[0] = p
               /\ \A k \in 1..n : q[k] = Added(q[k - 1], s[k])
  <2> DEFINE t == s
  <2>1. t \in Seq(ChildSet)
    OBVIOUS
  <2> HIDE DEF t
  <2>2. \E q : /\ AllAdded(p, t) = q[Len(t)] /\ q[0] = p
               /\ \A k \in 1..Len(t) : q[k] = Added(q[k - 1], t[k])
    BY <2>1, AllAddedStep
  <2> QED
    BY <2>2 DEF t
<1>2. /\ n \in Nat /\ DOMAIN s = 1..n /\ \A k \in 1..n : s[k] \in ChildSet
      /\ p.mySet \in Seq(ChildSet) /\ m \in Nat /\ DOMAIN p.mySet = 1..m
      /\ m + n <= 2 * MaxChildren /\ MaxChildren \in Nat
  <2>1. p.mySet \in Seq(ChildSet)
    BY DEF Sound
  <2> QED
    BY <2>1, SetOfSetsAssumption, ElementOfSeq
<1> HIDE DEF n, m
<1> DEFINE Good(k) == /\ Sound(q[k]) /\ q[k].stale = p.stale
                      /\ Len(q[k].mySet) = m + k
                      /\ \A i \in 1..m : q[k].mySet[i] = p.mySet[i]
                      /\ \A c \in ChildSet :
                            Copies(q[k].mySet, c) =
                               Copies(p.mySet, c) + Cardinality(Upto(s, k, c))
           P == {k \in 0..n : Good(k)}
<1>3. Good(0)
  <2>1. \A c \in ChildSet : Copies(p.mySet, c) \in Nat /\ Cardinality(Upto(s, 0, c)) = 0
    BY <1>2, PlacesFinite, UptoIs
  <2> QED
    BY <1>1, <1>2, <2>1 DEF m
<1>4. ASSUME NEW k \in 1..n, Good(k - 1)
      PROVE  Good(k)
  <2> DEFINE r == q[k - 1]
  <2>1. q[k] = Added(r, s[k]) /\ s[k] \in ChildSet
    BY <1>1, <1>2
  <2>2. /\ Sound(r) /\ r.stale = p.stale /\ Len(r.mySet) = m + (k - 1)
        /\ \A i \in 1..m : r.mySet[i] = p.mySet[i]
        /\ \A c \in ChildSet : Copies(r.mySet, c) =
              Copies(p.mySet, c) + Cardinality(Upto(s, k - 1, c))
    BY <1>4
  <2>3. Len(r.mySet) <= 2 * MaxChildren
    BY <1>2, <2>2
  <2> HIDE DEF r
  <2>4. /\ Sound(q[k]) /\ q[k].mySet = Append(r.mySet, s[k]) /\ q[k].stale = p.stale
    BY <2>1, <2>2, <2>3, AddedSound
  <2>5. r.mySet \in Seq(ChildSet)
    BY <2>2 DEF Sound
  <2>6. /\ Len(Append(r.mySet, s[k])) = m + k
        /\ \A i \in 1..m : Append(r.mySet, s[k])[i] = p.mySet[i]
    <3> DEFINE u == r.mySet
    <3>1. u \in Seq(ChildSet) /\ Len(u) = m + (k - 1) /\ \A i \in 1..m : u[i] = p.mySet[i]
      BY <2>2, <2>5
    <3>2. \A i \in 1..m : i \in 1..Len(u)
      BY <1>2, <3>1
    <3> HIDE DEF ChildSet, u
    <3>3. /\ Len(Append(u, s[k])) = Len(u) + 1
          /\ \A i \in 1..Len(u) : Append(u, s[k])[i] = u[i]
      BY <2>1, <3>1
    <3>4. Len(Append(u, s[k])) = m + k
      BY <1>2, <3>1, <3>3
    <3> QED
      BY <3>1, <3>2, <3>3, <3>4 DEF u
  <2>7. ASSUME NEW c \in ChildSet
        PROVE  Copies(q[k].mySet, c) = Copies(p.mySet, c) + Cardinality(Upto(s, k, c))
    <3>1. Copies(q[k].mySet, c) = Copies(r.mySet, c) + (IF s[k] = c THEN 1 ELSE 0)
      BY <2>1, <2>4, <2>5, AppendCopies
    <3>2. k \in Nat \ {0} /\ k - 1 \in Nat
      BY <1>2
    <3>3. Cardinality(Upto(s, k, c)) =
             Cardinality(Upto(s, k - 1, c)) + (IF s[k] = c THEN 1 ELSE 0)
      BY <3>2, UptoIs
    <3>4. Cardinality(Upto(s, k - 1, c)) \in Nat /\ Copies(p.mySet, c) \in Nat
      BY <1>2, <3>2, UptoIs, PlacesFinite
    <3>5. Copies(r.mySet, c) = Copies(p.mySet, c) + Cardinality(Upto(s, k - 1, c))
      BY <2>2
    <3> QED
      BY <3>1, <3>3, <3>4, <3>5
  <2> QED
    BY <2>4, <2>6, <2>7
<1>5. Good(n)
  <2> HIDE DEF Good
  <2>1. P \in SUBSET (0..n) /\ 0 \in P
    BY <1>2, <1>3
  <2>2. \A k \in 1..n : k - 1 \in P => k \in P
    BY <1>2, <1>4
  <2> HIDE DEF P
  <2>3. P = 0..n
    BY <1>2, <2>1, <2>2, Induction
  <2> QED
    BY <1>2, <2>3 DEF P
<1>6. \A c : Upto(s, n, c) = PlacesOf(s, c)
  BY <1>2 DEF Upto, PlacesOf
<1>7. \A c : Cardinality(Upto(s, n, c)) = Copies(s, c)
  BY <1>6, PlacesFinite
<1> QED
  BY <1>1, <1>2, <1>5, <1>7 DEF n, m

\* Deleting children by their places, from the last to the first, deletes just those.
LEMMA AllDeletedIs ==
    ASSUME NEW p, Sound(p), NEW n \in Nat, n <= Len(p.mySet), NEW is \in SUBSET (1..n)
    PROVE  LET q == AllDeleted(p, EraseOrder(is)) IN
           /\ Sound(q)
           /\ Len(q.mySet) = Len(p.mySet) - Cardinality(is)
           /\ \A c \in ChildSet :
                 Copies(q.mySet, c) =
                    Copies(p.mySet, c) - Cardinality({i \in is : p.mySet[i] = c})
<1> DEFINE e == EraseOrder(is)
           l == Len(e)
           m == Len(p.mySet)
           at == [j \in 1..l |-> p.mySet[e[j]]]
<1>1. /\ e \in Seq(is) /\ l = Cardinality(is) /\ ToSet(e) = is
      /\ \A j, k \in DOMAIN e : j < k => e[j] > e[k]
  BY EraseOrderIs
<1> HIDE DEF e
<1>2. PICK q : /\ AllDeleted(p, e) = q[l] /\ q[0] = p
               /\ \A k \in 1..l : q[k] = Deleted(q[k - 1], e[k])
  <2>1. e \in Seq(is)
    BY <1>1
  <2> QED
    <3>1. \E q : Deletes(p, e, q)
      BY <2>1, AllDeletedStep, Zenon
    <3> QED
      BY <3>1, Zenon DEF Deletes
<1>3. /\ l \in Nat /\ DOMAIN e = 1..l /\ p.mySet \in Seq(ChildSet)
      /\ m \in Nat /\ DOMAIN p.mySet = 1..m
      /\ \A k \in 1..l : e[k] \in is /\ e[k] \in 1..n /\ e[k] \in 1..m
      /\ \A j, k \in 1..l : j < k => e[j] > e[k]
  <2>1. l \in Nat /\ DOMAIN e = 1..l /\ \A k \in 1..l : e[k] \in is
    BY <1>1, ElementOfSeq
  <2>2. p.mySet \in Seq(ChildSet)
    BY DEF Sound
  <2>3. m \in Nat /\ DOMAIN p.mySet = 1..m
    BY <2>2
  <2>4. \A k \in 1..l : e[k] \in 1..n /\ e[k] \in 1..m
    <3>1. ASSUME NEW x \in is PROVE x \in 1..n /\ x \in 1..m
      <4>1. x \in 1..n /\ n <= m
        OBVIOUS
      <4> HIDE DEF m
      <4> QED
        BY <2>3, <4>1
    <3> HIDE DEF l
    <3> QED
      BY <2>1, <3>1
  <2> QED
    BY <1>1, <2>1, <2>2, <2>3, <2>4
<1> HIDE DEF l, m
<1> DEFINE Before(i, k) == \A j \in 1..k : i < e[j]
           Good(k) == /\ Sound(q[k])
                      /\ Len(q[k].mySet) = m - k
                      /\ \A i \in 1..m : Before(i, k) =>
                            i \in 1..(m - k) /\ q[k].mySet[i] = p.mySet[i]
                      /\ \A c \in ChildSet :
                            Copies(q[k].mySet, c) =
                               Copies(p.mySet, c) - Cardinality(Upto(at, k, c))
           P == {k \in 0..l : Good(k)}
<1>4. Good(0)
  <2>1. \A c \in ChildSet : Copies(p.mySet, c) \in Nat /\ Cardinality(Upto(at, 0, c)) = 0
    <3> HIDE DEF at
    <3> QED
      BY <1>3, PlacesFinite, UptoIs
  <2> QED
    BY <1>2, <1>3, <2>1 DEF m
<1>5. ASSUME NEW k \in 1..l, Good(k - 1)
      PROVE  Good(k)
  <2> DEFINE r == q[k - 1]
             x == e[k]
  <2>1. q[k] = Deleted(r, x) /\ x \in 1..m /\ x \in is
    BY <1>2, <1>3
  <2>2. /\ Sound(r) /\ Len(r.mySet) = m - (k - 1)
        /\ \A i \in 1..m : Before(i, k - 1) =>
              i \in 1..(m - (k - 1)) /\ r.mySet[i] = p.mySet[i]
        /\ \A c \in ChildSet : Copies(r.mySet, c) =
              Copies(p.mySet, c) - Cardinality(Upto(at, k - 1, c))
    BY <1>5
  <2>3. Before(x, k - 1)
    BY <1>3
  <2>4. x \in 1..(m - (k - 1)) /\ r.mySet[x] = p.mySet[x]
    BY <2>1, <2>2, <2>3
  <2> HIDE DEF r, at
  <2>5. r.mySet \in Seq(ChildSet) /\ x \in DOMAIN r.mySet
    <3>1. r.mySet \in Seq(ChildSet)
      BY <2>2 DEF Sound
    <3> QED
      BY <2>2, <2>4, <3>1
  <2> HIDE DEF x
  <2>6. Sound(q[k]) /\ q[k].mySet = RemoveAt(r.mySet, x)
    BY <2>1, <2>2, <2>5, DeletedSound
  <2>7. /\ Len(q[k].mySet) = m - k
        /\ \A i \in 1..(m - k) : i < x => q[k].mySet[i] = r.mySet[i]
    <3>1. /\ Len(RemoveAt(r.mySet, x)) = Len(r.mySet) - 1
          /\ \A j \in 1..(Len(r.mySet) - 1) :
                RemoveAt(r.mySet, x)[j] = IF j < x THEN r.mySet[j] ELSE r.mySet[j + 1]
      BY <2>5, RemoveIs
    <3>2. Len(r.mySet) - 1 = m - k
      BY <1>3, <2>2
    <3> QED
      BY <2>6, <3>1, <3>2
  <2>8. ASSUME NEW i \in 1..m, Before(i, k)
        PROVE  i \in 1..(m - k) /\ q[k].mySet[i] = p.mySet[i]
    <3>1. i < x /\ Before(i, k - 1)
      BY <1>3, <2>8 DEF x
    <3>2. r.mySet[i] = p.mySet[i]
      BY <2>2, <3>1
    <3>3. i \in 1..(m - k)
      BY <1>3, <2>4, <3>1
    <3> QED
      BY <2>7, <3>1, <3>2, <3>3
  <2>9. ASSUME NEW c \in ChildSet
        PROVE  Copies(q[k].mySet, c) = Copies(p.mySet, c) - Cardinality(Upto(at, k, c))
    <3>1. Copies(q[k].mySet, c) = Copies(r.mySet, c) - (IF r.mySet[x] = c THEN 1 ELSE 0)
      BY <2>5, <2>6, RemoveCopies
    <3>2. k \in Nat \ {0} /\ k - 1 \in Nat
      BY <1>3
    <3>3. Cardinality(Upto(at, k, c)) =
             Cardinality(Upto(at, k - 1, c)) + (IF at[k] = c THEN 1 ELSE 0)
      BY <3>2, UptoIs
    <3>4. Cardinality(Upto(at, k - 1, c)) \in Nat /\ Copies(p.mySet, c) \in Nat
      BY <1>3, <3>2, UptoIs, PlacesFinite
    <3>5. Copies(r.mySet, c) = Copies(p.mySet, c) - Cardinality(Upto(at, k - 1, c))
      BY <2>2
    <3>6. at[k] = r.mySet[x]
      BY <2>4 DEF at, x
    <3> QED
      BY <3>1, <3>3, <3>4, <3>5, <3>6
  <2> HIDE DEF Before
  <2> QED
    BY <2>6, <2>7, <2>8, <2>9
<1>6. Good(l)
  <2> HIDE DEF Good
  <2>1. P \in SUBSET (0..l) /\ 0 \in P
    BY <1>3, <1>4
  <2>2. \A k \in 1..l : k - 1 \in P => k \in P
    BY <1>3, <1>5
  <2> HIDE DEF P
  <2>3. P = 0..l
    BY <1>3, <2>1, <2>2, Induction
  <2> QED
    BY <1>3, <2>3 DEF P
<1>7. ASSUME NEW c \in ChildSet
      PROVE  Cardinality(Upto(at, l, c)) = Cardinality({i \in is : p.mySet[i] = c})
  <2> DEFINE A == Upto(at, l, c)
             B == {i \in is : p.mySet[i] = c}
             f == [j \in A |-> e[j]]
  <2>1. \A j \in A : j \in 1..l /\ p.mySet[e[j]] = c
    BY DEF Upto
  <2>2. f \in [A -> B]
    BY <1>3, <2>1
  <2>3. \A i, j \in A : f[i] = f[j] => i = j
    BY <1>3, <2>1
  <2>4. \A i \in B : \E j \in A : f[j] = i
    <3> SUFFICES ASSUME NEW i \in B PROVE \E j \in A : f[j] = i
      OBVIOUS
    <3>1. PICK j \in 1..l : e[j] = i
      BY <1>1, <1>3 DEF ToSet
    <3>2. j \in A
      BY <3>1 DEF Upto
    <3> QED
      BY <3>1, <3>2
  <2> HIDE DEF A, B, f
  <2>5. f \in Bijection(A, B)
    BY <2>2, <2>3, <2>4 DEF Bijection, Injection, Surjection, IsInjective
  <2>6. IsFiniteSet(A)
    BY <1>3, UptoIs DEF A
  <2>7. Cardinality(B) = Cardinality(A)
    BY <2>5, <2>6, FS_Bijection DEF ExistsBijection
  <2> QED
    BY <2>7 DEF A, B
<1> HIDE DEF at
<1> QED
  BY <1>1, <1>2, <1>3, <1>6, <1>7 DEF e, l, m

\* The children after the post-processing: those that were not rewritten, and the
\* rewritten ones.
Places(changes) == {x.index : x \in ToSet(changes)}
Sets(changes) == [k \in DOMAIN changes |-> changes[k].set]
Kept(s, is, c) == {i \in (DOMAIN s) \ is : s[i] = c}

\* Each rewritten child has a place of its own.
LEMMA RewritesIs ==
    ASSUME NEW s \in Seq(ChildSet), NEW changes, Rewrites(s, changes)
    PROVE  /\ Sets(changes) \in Seq(ChildSet) /\ Len(Sets(changes)) = Len(changes)
           /\ Len(changes) \in Nat /\ DOMAIN changes = 1..Len(changes)
           /\ \A k \in 1..Len(changes) :
                 /\ Sets(changes)[k] = changes[k].set /\ changes[k].set \in ChildSet
                 /\ changes[k].index \in DOMAIN s
           /\ Places(changes) \in SUBSET (DOMAIN s)
           /\ Places(changes) = {changes[k].index : k \in 1..Len(changes)}
           /\ IsFiniteSet(Places(changes)) /\ Cardinality(Places(changes)) = Len(changes)
           /\ Len(changes) <= Len(s)
<1> DEFINE n == Len(changes)
           R == [index : DOMAIN s, set : ChildSet]
<1>1. /\ changes \in Seq(R) /\ n \in Nat /\ DOMAIN changes = 1..n
      /\ \A k \in 1..n : changes[k] \in R
  <2>1. changes \in Seq(R)
    BY DEF Rewrites
  <2> HIDE DEF R
  <2> QED
    BY <2>1, ElementOfSeq
<1>2. \A k \in 1..n : changes[k].set \in ChildSet /\ changes[k].index \in DOMAIN s
  BY <1>1
<1> HIDE DEF n
<1>3. Sets(changes) \in [1..n -> ChildSet]
  BY <1>1, <1>2 DEF Sets
<1>4. Sets(changes) \in Seq(ChildSet) /\ Len(Sets(changes)) = n
  BY <1>1, <1>3
<1>5. Places(changes) = {changes[k].index : k \in 1..n}
  BY <1>1 DEF Places, ToSet
<1> DEFINE f == [k \in 1..n |-> changes[k].index]
           I == Places(changes)
<1>6. f \in Bijection(1..n, I)
  <2>1. f \in [1..n -> I] /\ \A i \in I : \E k \in 1..n : f[k] = i
    BY <1>5
  <2>2. \A j, k \in 1..n : f[j] = f[k] => j = k
    BY <1>1 DEF Rewrites
  <2> HIDE DEF f
  <2> QED
    BY <2>1, <2>2 DEF Bijection, Injection, Surjection, IsInjective
<1>7. IsFiniteSet(1..n) /\ Cardinality(1..n) = n
  BY <1>1, FirstNumbers
<1>8. IsFiniteSet(I) /\ Cardinality(I) = n
  BY <1>6, <1>7, FS_Bijection DEF ExistsBijection
<1>9. I \in SUBSET (DOMAIN s)
  BY <1>2, <1>5
<1>10. n <= Len(s)
  <2>1. Len(s) \in Nat /\ DOMAIN s = 1..Len(s)
    OBVIOUS
  <2>2. IsFiniteSet(1..Len(s)) /\ Cardinality(1..Len(s)) = Len(s)
    BY <2>1, FirstNumbers
  <2>3. I \in SUBSET (1..Len(s))
    BY <1>9, <2>1
  <2> HIDE DEF I
  <2> QED
    BY <1>8, <2>2, <2>3, FS_Subset
<1> QED
  BY <1>1, <1>2, <1>3, <1>4, <1>5, <1>8, <1>9, <1>10 DEF n, Sets

\* The post-processing keeps a parent sound and leaves as many children: those that were
\* not rewritten, and the rewritten ones.
LEMMA PostProcessedIs ==
    ASSUME NEW p, Sound(p), Len(p.mySet) <= MaxChildren,
           NEW changes, Rewrites(p.mySet, changes)
    PROVE  LET q == PostProcessed(p, changes) IN
           /\ Sound(q) /\ Len(q.mySet) = Len(p.mySet)
           /\ \A c \in ChildSet :
                 Copies(q.mySet, c) =
                    Cardinality(Kept(p.mySet, Places(changes), c)) +
                    Copies(Sets(changes), c)
<1> DEFINE s == p.mySet
           m == Len(s)
           n == Len(changes)
           is == Places(changes)
           sets == Sets(changes)
           a == AllAdded(p, sets)
           q == AllDeleted(a, EraseOrder(is))
<1>1. s \in Seq(ChildSet) /\ m \in Nat /\ DOMAIN s = 1..m
  <2>1. s \in Seq(ChildSet)
    BY DEF Sound
  <2> QED
    BY <2>1
<1>2. /\ sets \in Seq(ChildSet) /\ Len(sets) = n /\ n \in Nat /\ n <= m
      /\ is \in SUBSET (1..m) /\ IsFiniteSet(is) /\ Cardinality(is) = n
  BY <1>1, RewritesIs
<1>3. m + n <= 2 * MaxChildren /\ MaxChildren \in Nat
  BY <1>1, <1>2, SetOfSetsAssumption
<1> HIDE DEF sets, is, n
<1>4. /\ Sound(a) /\ Len(a.mySet) = m + n
      /\ \A i \in 1..m : a.mySet[i] = s[i]
      /\ \A c \in ChildSet : Copies(a.mySet, c) = Copies(s, c) + Copies(sets, c)
  <2>1. Len(p.mySet) + Len(sets) <= 2 * MaxChildren
    BY <1>2, <1>3
  <2>2. /\ Sound(a) /\ Len(a.mySet) = Len(p.mySet) + Len(sets)
        /\ \A i \in DOMAIN p.mySet : a.mySet[i] = p.mySet[i]
        /\ \A c \in ChildSet : Copies(a.mySet, c) = Copies(p.mySet, c) + Copies(sets, c)
    BY <1>2, <2>1, AllAddedIs
  <2> HIDE DEF a
  <2> QED
    BY <1>1, <1>2, <2>2
<1> HIDE DEF a
<1>5. /\ Sound(q) /\ Len(q.mySet) = m + n - Cardinality(is)
      /\ \A c \in ChildSet :
            Copies(q.mySet, c) =
               Copies(a.mySet, c) - Cardinality({i \in is : a.mySet[i] = c})
  <2>1. m <= Len(a.mySet)
    BY <1>1, <1>2, <1>4
  <2>2. /\ Sound(q) /\ Len(q.mySet) = Len(a.mySet) - Cardinality(is)
        /\ \A c \in ChildSet :
              Copies(q.mySet, c) =
                 Copies(a.mySet, c) - Cardinality({i \in is : a.mySet[i] = c})
    BY <1>1, <1>2, <1>4, <2>1, AllDeletedIs
  <2> HIDE DEF q
  <2>3. Len(q.mySet) = m + n - Cardinality(is)
    BY <1>1, <1>2, <1>4, <2>2
  <2> QED
    BY <2>2, <2>3, Zenon
<1>6. PostProcessed(p, changes) = q
  BY DEF PostProcessed, a, sets, is, Sets, Places
<1> HIDE DEF q
<1>7. Len(q.mySet) = m
  BY <1>1, <1>2, <1>5
<1>8. ASSUME NEW c \in ChildSet
      PROVE  Copies(q.mySet, c) = Cardinality(Kept(s, is, c)) + Copies(sets, c)
  <2> DEFINE G == {i \in is : a.mySet[i] = c}
             W == PlacesOf(s, c)
  <2>1. G = W \cap is
    BY <1>1, <1>2, <1>4 DEF PlacesOf
  <2>2. Kept(s, is, c) = W \ is
    BY DEF Kept, PlacesOf
  <2>3. IsFiniteSet(W) /\ Copies(s, c) = Cardinality(W) /\ Copies(s, c) \in Nat
    BY <1>1, PlacesFinite
  <2> HIDE DEF G, W
  <2>4. Cardinality(W \ is) = Cardinality(W) - Cardinality(W \cap is)
    BY <2>3, FS_Difference
  <2>5. Cardinality(W \cap is) \in Nat
    BY <2>3, FS_Intersection, FS_CardinalityType
  <2>6. Copies(sets, c) \in Nat
    BY <1>2, PlacesFinite
  <2>7. Copies(q.mySet, c) = Copies(s, c) + Copies(sets, c) - Cardinality(G)
    <3>1. Copies(q.mySet, c) = Copies(a.mySet, c) - Cardinality(G)
      BY <1>5, Zenon DEF G
    <3>2. Copies(a.mySet, c) = Copies(s, c) + Copies(sets, c)
      BY <1>4
    <3>3. IsFiniteSet(G) /\ Cardinality(G) \in Nat
      BY <2>1, <2>3, FS_Intersection, FS_CardinalityType
    <3> QED
      BY <2>3, <2>6, <3>1, <3>2, <3>3
  <2> QED
    BY <2>1, <2>2, <2>3, <2>4, <2>5, <2>6, <2>7
<1> QED
  BY <1>5, <1>6, <1>7, <1>8 DEF is, sets

\* No child is lost by it.
LEMMA KeptOrGrown ==
    ASSUME NEW p, Sound(p), Len(p.mySet) <= MaxChildren,
           NEW changes, Rewrites(p.mySet, changes)
    PROVE  \A c \in ToSet(p.mySet) :
              \E d \in ToSet(PostProcessed(p, changes).mySet) : c \subseteq d
<1> DEFINE s == p.mySet
           q == PostProcessed(p, changes)
           is == Places(changes)
           sets == Sets(changes)
           n == Len(changes)
<1>1. s \in Seq(ChildSet)
  BY DEF Sound
<1>2. /\ sets \in Seq(ChildSet) /\ Len(sets) = n /\ n \in Nat /\ DOMAIN changes = 1..n
      /\ is = {changes[k].index : k \in 1..n}
      /\ \A k \in 1..n : sets[k] = changes[k].set /\ changes[k].set \in ChildSet
  BY <1>1, RewritesIs
<1>3. /\ Sound(q)
      /\ \A c \in ChildSet :
            Copies(q.mySet, c) = Cardinality(Kept(s, is, c)) + Copies(sets, c)
  BY PostProcessedIs
<1> HIDE DEF q, is, sets, n
<1>4. q.mySet \in Seq(ChildSet)
  BY <1>3 DEF Sound
<1>5. ASSUME NEW c \in ChildSet
      PROVE  /\ Cardinality(Kept(s, is, c)) \in Nat /\ Copies(sets, c) \in Nat
             /\ Kept(s, is, c) # {} => Cardinality(Kept(s, is, c)) > 0
  <2>1. IsFiniteSet(PlacesOf(s, c)) /\ Kept(s, is, c) \in SUBSET PlacesOf(s, c)
    BY <1>1, PlacesFinite DEF Kept, PlacesOf
  <2>2. IsFiniteSet(Kept(s, is, c))
    BY <2>1, FS_Subset
  <2> QED
    BY <1>2, <2>2, PlacesFinite, FS_CardinalityType, FS_EmptySet
<1> SUFFICES ASSUME NEW c \in ToSet(s)
             PROVE  \E d \in ToSet(q.mySet) : c \subseteq d
  BY DEF q
<1>6. PICK i \in DOMAIN s : s[i] = c
  BY DEF ToSet
<1>7. c \in ChildSet
  BY <1>1, <1>6, ElementOfSeq
<1>8. CASE i \notin is
  <2>1. Kept(s, is, c) # {}
    BY <1>6, <1>8 DEF Kept
  <2>2. Copies(q.mySet, c) > 0
    BY <1>3, <1>5, <1>7, <2>1
  <2>3. c \in ToSet(q.mySet)
    BY <1>4, <2>2, PlacesFinite
  <2> QED
    BY <2>3
<1>9. CASE i \in is
  <2>1. PICK k \in 1..n : changes[k].index = i
    BY <1>2, <1>9
  <2> DEFINE d == changes[k].set
  <2>2. d \in ChildSet /\ sets[k] = d
    BY <1>2
  <2>3. c \subseteq d
    BY <1>2, <1>6, <2>1 DEF Rewrites
  <2>4. d \in ToSet(sets)
    <3>1. k \in DOMAIN sets
      BY <1>2
    <3> QED
      BY <2>2, <3>1 DEF ToSet
  <2> HIDE DEF d
  <2>5. Copies(sets, d) > 0
    BY <1>2, <2>4, PlacesFinite
  <2>6. Copies(q.mySet, d) > 0
    BY <1>3, <1>5, <2>2, <2>5
  <2>7. d \in ToSet(q.mySet)
    BY <1>4, <2>6, PlacesFinite
  <2> QED
    BY <2>3, <2>7
<1> QED
  BY <1>8, <1>9

(***************************************************************************)
(* The pairing of the children that differ.                                *)
(***************************************************************************)
\* An order of a finite set.
LEMMA SeqsOf ==
    ASSUME NEW A, IsFiniteSet(A), NEW s \in SetToSeqs(A)
    PROVE  /\ s \in Seq(A) /\ Len(s) = Cardinality(A) /\ DOMAIN s = 1..Len(s)
           /\ Len(s) \in Nat /\ ToSet(s) = A /\ \A i \in 1..Len(s) : s[i] \in A
           /\ \A i, j \in 1..Len(s) : s[i] = s[j] => i = j
<1> DEFINE n == Cardinality(A)
<1>1. n \in Nat
  BY FS_CardinalityType
<1>2. s \in [1..n -> A] /\ \A i, j \in 1..n : i # j => s[i] # s[j]
  BY DEF SetToSeqs
<1> HIDE DEF n
<1>3. s \in Seq(A) /\ Len(s) = n /\ DOMAIN s = 1..n
  BY <1>1, <1>2
<1>4. s \in Injection(1..n, A)
  BY <1>2 DEF Injection, IsInjective
<1>5. IsFiniteSet(1..n) /\ Cardinality(1..n) = n
  BY <1>1, FirstNumbers
<1>6. s \in Surjection(1..n, A)
  BY <1>4, <1>5, FS_Injection DEF n
<1>7. ToSet(s) = A
  BY <1>3, <1>6 DEF Surjection, ToSet
<1> QED
  BY <1>1, <1>2, <1>3, <1>7 DEF n

\* Sets of children are finite.
LEMMA ChildSize ==
    ASSUME NEW c \in ChildSet
    PROVE  IsFiniteSet(c) /\ Cardinality(c) \in Nat
<1>1. IsFiniteSet(Item)
  BY SetOfSetsAssumption
<1> QED
  BY <1>1, FS_Subset, FS_CardinalityType DEF ChildSet

\* The distance of two children is a natural number.
LEMMA DistanceIs ==
    ASSUME NEW c \in ChildSet, NEW d \in ChildSet
    PROVE  Distance(c, d) \in Nat
<1>1. SymDiff(c, d) \in ChildSet
  BY DEF SymDiff, ChildSet
<1> QED
  BY <1>1, ChildSize DEF Distance

\* Among the candidates there is a best one.
LEMMA BestIs ==
    ASSUME NEW c \in ChildSet, NEW t \in Seq(ChildSet), NEW own \in Seq(ChildSet),
           Len(t) <= Len(own), NEW free \in SUBSET (DOMAIN t), free # {}
    PROVE  \E i \in free : \A j \in free : Better(c, t, own, i, j)
<1> DEFINE dist(i) == Distance(c, t[i])
           sz(i) == Cardinality(own[i])
           D == {dist(i) : i \in free}
<1>1. \A i \in free : i \in Nat /\ dist(i) \in Nat /\ sz(i) \in Nat
  <2> SUFFICES ASSUME NEW i \in free PROVE i \in Nat /\ dist(i) \in Nat /\ sz(i) \in Nat
    OBVIOUS
  <2>1. i \in 1..Len(t) /\ i \in 1..Len(own)
    OBVIOUS
  <2>2. t[i] \in ChildSet /\ own[i] \in ChildSet
    BY <2>1, ElementOfSeq
  <2>3. dist(i) \in Nat
    BY <2>2, DistanceIs
  <2>4. sz(i) \in Nat
    BY <2>2, ChildSize
  <2> QED
    BY <2>1, <2>3, <2>4
<1> HIDE DEF dist, sz
<1>2. PICK d \in D : \A y \in D : d <= y
  <2>1. D \in SUBSET Nat /\ D # {}
    BY <1>1
  <2> HIDE DEF D
  <2> QED
    BY <2>1, LeastNumber
<1> DEFINE near == {i \in free : dist(i) = d}
           Z == {sz(i) : i \in near}
<1>3. PICK z \in Z : \A y \in Z : z <= y
  <2>1. Z \in SUBSET Nat /\ Z # {}
    BY <1>1, <1>2
  <2> HIDE DEF Z
  <2> QED
    BY <2>1, LeastNumber
<1> DEFINE small == {i \in near : sz(i) = z}
<1>4. PICK i \in small : \A y \in small : i <= y
  <2>1. small \in SUBSET Nat /\ small # {}
    BY <1>1, <1>3
  <2> HIDE DEF small
  <2> QED
    BY <2>1, LeastNumber
<1>5. i \in free /\ dist(i) = d /\ sz(i) = z
  BY <1>4
<1>6. ASSUME NEW j \in free
      PROVE  dist(i) < dist(j) \/
                (dist(i) = dist(j) /\ (sz(i) < sz(j) \/ (sz(i) = sz(j) /\ i <= j)))
  <2>1. dist(i) <= dist(j) /\ dist(i) \in Nat /\ dist(j) \in Nat /\ sz(i) \in Nat
        /\ sz(j) \in Nat
    BY <1>1, <1>2, <1>5
  <2>2. CASE dist(i) = dist(j)
    <3>1. j \in near
      BY <1>5, <2>2
    <3>2. sz(i) <= sz(j)
      BY <1>3, <1>5, <3>1
    <3>3. CASE sz(i) = sz(j)
      <4>1. j \in small
        BY <1>5, <3>1, <3>3
      <4> QED
        BY <1>4, <2>2, <3>3, <4>1
    <3> QED
      BY <2>1, <2>2, <3>2, <3>3
  <2> QED
    BY <2>1, <2>2
<1>7. \A j \in free : Better(c, t, own, i, j)
  BY <1>6 DEF Better, dist, sz
<1> QED
  BY <1>5, <1>7

\* Who is paired: each child of the client with one of the server, each time another.
LEMMA PairIs ==
    ASSUME NEW A \in SUBSET ChildSet, NEW B \in SUBSET ChildSet,
           IsFiniteSet(A), IsFiniteSet(B),
           NEW s \in SetToSeqs(A), NEW t \in SetToSeqs(B),
           NEW own \in Seq(ChildSet), Cardinality(B) <= Len(own),
           ~Pair(s, t, own).thrown
    PROVE  /\ Pairing(Pair(s, t, own).pairs, A, B)
           /\ {p[1] : p \in Pair(s, t, own).pairs} = A
<1> DEFINE n == Len(s)
<1>1. /\ s \in Seq(A) /\ n \in Nat /\ DOMAIN s = 1..n /\ ToSet(s) = A
      /\ \A i \in 1..n : s[i] \in A
      /\ \A i, j \in 1..n : s[i] = s[j] => i = j
  BY SeqsOf
<1>2. /\ t \in Seq(B) /\ \A i \in DOMAIN t : t[i] \in B
      /\ \A i, j \in DOMAIN t : t[i] = t[j] => i = j
      /\ Len(t) <= Len(own)
  BY SeqsOf
<1>3. PICK q : /\ Pair(s, t, own) = q[n] /\ q[0] = Unpaired
               /\ \A k \in 1..n : q[k] = PairNext(q[k - 1], s[k], t, own)
  BY <1>1, PairStep
<1> HIDE DEF n
<1> DEFINE R == [taken : SUBSET (DOMAIN t), pairs : SUBSET (A \X B), thrown : BOOLEAN]
           Chosen(k, g) ==
              /\ g \in [1..k -> DOMAIN t]
              /\ \A i, j \in 1..k : g[i] = g[j] => i = j
              /\ q[k].taken = {g[i] : i \in 1..k}
              /\ q[k].pairs = {<<s[i], t[g[i]]>> : i \in 1..k}
           Good(k) == q[k] \in R /\ (q[k].thrown \/ \E g : Chosen(k, g))
           P == {k \in 0..n : Good(k)}
<1>4. Good(0)
  <2> DEFINE g == [i \in 1..0 |-> 1]
  <2>1. 1..0 = {}
    OBVIOUS
  <2>2. g \in [1..0 -> DOMAIN t] /\ \A i, j \in 1..0 : g[i] = g[j] => i = j
    BY <2>1
  <2>3. {g[i] : i \in 1..0} = {} /\ {<<s[i], t[g[i]]>> : i \in 1..0} = {}
    BY <2>1
  <2>4. q[0].taken = {} /\ q[0].pairs = {} /\ q[0] \in R
    BY <1>3 DEF Unpaired
  <2> HIDE DEF g, R
  <2>5. Chosen(0, g)
    BY <2>2, <2>3, <2>4, Zenon
  <2> HIDE DEF Chosen
  <2> QED
    BY <2>4, <2>5
<1>5. ASSUME NEW k \in 1..n, Good(k - 1)
      PROVE  Good(k)
  <2> DEFINE r == q[k - 1]
             free == Candidates(s[k], t, r.taken)
             best == CHOOSE i \in free : \A j \in free : Better(s[k], t, own, i, j)
  <2>1. q[k] = IF r.thrown \/ free = {} THEN [r EXCEPT !.thrown = TRUE]
               ELSE [r EXCEPT !.taken = @ \cup {best},
                              !.pairs = @ \cup {<<s[k], t[best]>>}]
    BY <1>3, Zenon DEF PairNext
  <2>2. r \in R /\ (r.thrown \/ \E g : Chosen(k - 1, g))
    BY <1>5, Zenon
  <2> HIDE DEF Chosen, r, best, free
  <2>3. CASE r.thrown \/ free = {}
    <3>1. q[k] = [r EXCEPT !.thrown = TRUE]
      BY <2>1, <2>3
    <3>2. q[k] \in R /\ q[k].thrown
      BY <2>2, <3>1
    <3> QED
      BY <3>2
  <2>4. CASE ~r.thrown /\ free # {}
    <3>1. PICK g : Chosen(k - 1, g)
      BY <2>2, <2>4
    <3>2. /\ g \in [1..(k - 1) -> DOMAIN t]
          /\ \A i, j \in 1..(k - 1) : g[i] = g[j] => i = j
          /\ r.taken = {g[i] : i \in 1..(k - 1)}
          /\ r.pairs = {<<s[i], t[g[i]]>> : i \in 1..(k - 1)}
      BY <3>1, Zenon DEF Chosen, r
    <3>3. free \in SUBSET (DOMAIN t) /\ \A i \in free : i \notin r.taken
      BY DEF free, Candidates
    <3>4. best \in free
      <4>1. s[k] \in ChildSet /\ t \in Seq(ChildSet)
        <5>1. s[k] \in ChildSet
          BY <1>1
        <5> HIDE DEF ChildSet
        <5>2. t \in Seq(ChildSet)
          BY <1>2, SeqMonotonic
        <5> QED
          BY <5>1, <5>2
      <4>2. \E i \in free : \A j \in free : Better(s[k], t, own, i, j)
        BY <1>2, <2>4, <3>3, <4>1, BestIs
      <4> QED
        BY <4>2, Zenon DEF best
    <3>5. /\ q[k] = [r EXCEPT !.taken = @ \cup {best},
                              !.pairs = @ \cup {<<s[k], t[best]>>}]
          /\ best \in DOMAIN t /\ t[best] \in B /\ s[k] \in A /\ best \notin r.taken
      BY <1>1, <1>2, <2>1, <2>4, <3>3, <3>4
    <3>6. /\ q[k].taken = r.taken \cup {best}
          /\ q[k].pairs = r.pairs \cup {<<s[k], t[best]>>}
          /\ q[k] \in R
      <4> DEFINE ta == r.taken \cup {best}
                 pa == r.pairs \cup {<<s[k], t[best]>>}
      <4>1. ta \in SUBSET (DOMAIN t) /\ pa \in SUBSET (A \X B) /\ r.thrown \in BOOLEAN
        BY <2>2, <3>5
      <4>2. q[k] = [r EXCEPT !.taken = ta, !.pairs = pa]
        BY <3>5
      <4> HIDE DEF ta, pa
      <4>3. q[k].taken = ta /\ q[k].pairs = pa /\ q[k] \in R
        BY <2>2, <4>1, <4>2
      <4> QED
        BY <4>3 DEF ta, pa
    <3> DEFINE h == [i \in 1..k |-> IF i = k THEN best ELSE g[i]]
    <3>7. /\ h[k] = best /\ \A i \in 1..(k - 1) : h[i] = g[i] /\ i \in 1..k
          /\ \A i \in 1..k : i = k \/ i \in 1..(k - 1)
          /\ h \in [1..k -> DOMAIN t]
      BY <1>1, <3>2, <3>5
    <3> HIDE DEF h, R
    <3>8. k \in 1..k
      BY <1>1
    <3>9. \A i, j \in 1..k : h[i] = h[j] => i = j
      <4>1. \A i \in 1..(k - 1) : g[i] # best
        BY <3>2, <3>5
      <4> QED
        BY <3>2, <3>7, <4>1
    <3>10. q[k].taken = {h[i] : i \in 1..k}
      BY <3>2, <3>6, <3>7, <3>8
    <3>11. q[k].pairs = {<<s[i], t[h[i]]>> : i \in 1..k}
      BY <3>2, <3>6, <3>7, <3>8
    <3>12. Chosen(k, h)
      BY <3>7, <3>9, <3>10, <3>11 DEF Chosen
    <3> QED
      BY <3>6, <3>12
  <2> QED
    BY <2>3, <2>4
<1>6. Good(n)
  <2> HIDE DEF Good
  <2>1. P \in SUBSET (0..n) /\ 0 \in P
    BY <1>1, <1>4
  <2>2. \A k \in 1..n : k - 1 \in P => k \in P
    BY <1>1, <1>5
  <2> HIDE DEF P
  <2>3. P = 0..n
    BY <1>1, <2>1, <2>2, Induction
  <2> QED
    BY <1>1, <2>3 DEF P
<1> HIDE DEF R
<1>7. PICK g : Chosen(n, g)
  <2> HIDE DEF Chosen
  <2> QED
    BY <1>3, <1>6
<1> DEFINE ps == q[n].pairs
           f == [i \in 1..n |-> <<s[i], t[g[i]]>>]
<1>8. ps = {<<s[i], t[g[i]]>> : i \in 1..n}
  BY <1>7
<1>9. ps \subseteq A \X B
  BY <1>1, <1>2, <1>7, <1>8
<1>10. \A x, y \in ps : x[1] = y[1] \/ x[2] = y[2] => x = y
  <2>1. \A i, j \in 1..n : s[i] = s[j] \/ t[g[i]] = t[g[j]] => i = j
    BY <1>1, <1>2, <1>7
  <2> QED
    BY <1>8, <2>1
<1>11. {x[1] : x \in ps} = A
  <2>1. A = {s[i] : i \in 1..n}
    BY <1>1 DEF ToSet
  <2>2. \A x \in ps : \E i \in 1..n : x[1] = s[i]
    BY <1>8
  <2>3. \A i \in 1..n : \E x \in ps : x[1] = s[i]
    <3>1. \A i \in 1..n : <<s[i], t[g[i]]>> \in ps
      BY <1>8
    <3> HIDE DEF ps
    <3> QED
      BY <3>1
  <2> HIDE DEF ps
  <2> QED
    BY <2>1, <2>2, <2>3
<1>12. IsFiniteSet(ps)
  <2>1. f \in [1..n -> ps] /\ \A x \in ps : \E i \in 1..n : f[i] = x
    BY <1>8
  <2>2. IsFiniteSet(1..n)
    BY <1>1, FS_Interval
  <2> HIDE DEF f, ps
  <2>3. f \in Surjection(1..n, ps)
    BY <2>1 DEF Surjection
  <2> QED
    BY <2>2, <2>3, FS_Surjection
<1> QED
  BY <1>3, <1>9, <1>10, <1>11, <1>12 DEF Pairing

\* The children that a host rewrites, from a list of what is missing.
LEMMA ReWrittenIs ==
    ASSUME NEW h \in Hosts, Sound(Parent(h)), NEW list, Listed(list)
    PROVE  /\ Rewrites(mySet[h], SetToSeq(ReWritten(h, list)))
           /\ IsFiniteSet(ReWritten(h, list))
<1> DEFINE s == mySet[h]
           hs == hashes[h]
           W == ReWritten(h, list)
<1>1. /\ s \in Seq(ChildSet) /\ hs \in Seq(HashOf) /\ DOMAIN hs = DOMAIN s
      /\ DOMAIN s = 1..Len(s) /\ Len(s) \in Nat
  <2>1. s \in Seq(ChildSet) /\ hs \in Seq(HashOf) /\ Len(hs) = Len(s)
    BY DEF Sound, Parent
  <2> QED
    BY <2>1
<1>2. \A m \in list : m.child \in ChildSet /\ m.elems \in ChildSet
  BY DEF Listed
<1>3. \A x \in W : \E m \in list :
         \E i \in IndexesOf(hs, m.child, m.value) : x = ReWrite(h, i, m.elems)
  BY DEF ReWritten
<1> HIDE DEF W
<1>4. \A m \in list : \A i \in IndexesOf(hs, m.child, m.value) :
         /\ i \in DOMAIN s /\ hs[i].child = m.child
         /\ ReWrite(h, i, m.elems).index = i
         /\ ReWrite(h, i, m.elems).set = s[i] \cup m.elems
         /\ ReWrite(h, i, m.elems) \in [index : DOMAIN s, set : ChildSet]
  <2> SUFFICES ASSUME NEW m \in list, NEW i \in IndexesOf(hs, m.child, m.value)
               PROVE  /\ i \in DOMAIN s /\ hs[i].child = m.child
                      /\ ReWrite(h, i, m.elems).index = i
                      /\ ReWrite(h, i, m.elems).set = s[i] \cup m.elems
                      /\ ReWrite(h, i, m.elems) \in [index : DOMAIN s, set : ChildSet]
    OBVIOUS
  <2>1. i \in DOMAIN s /\ hs[i].child = m.child
    BY <1>1 DEF IndexesOf
  <2>2. s[i] \in ChildSet
    BY <1>1, <2>1, ElementOfSeq
  <2>3. s[i] \cup m.elems \in ChildSet
    BY <1>2, <2>2 DEF ChildSet
  <2> QED
    BY <2>1, <2>3 DEF ReWrite
<1>5. \A x \in W : /\ x \in [index : DOMAIN s, set : ChildSet]
                   /\ s[x.index] \subseteq x.set
  BY <1>3, <1>4
<1>6. \A x, y \in W : x.index = y.index => x = y
  <2> SUFFICES ASSUME NEW x \in W, NEW y \in W, x.index = y.index PROVE x = y
    OBVIOUS
  <2>1. PICK m \in list :
           \E i \in IndexesOf(hs, m.child, m.value) : x = ReWrite(h, i, m.elems)
    BY <1>3
  <2>2. PICK i \in IndexesOf(hs, m.child, m.value) : x = ReWrite(h, i, m.elems)
    BY <2>1
  <2>3. PICK n \in list :
           \E j \in IndexesOf(hs, n.child, n.value) : y = ReWrite(h, j, n.elems)
    BY <1>3
  <2>4. PICK j \in IndexesOf(hs, n.child, n.value) : y = ReWrite(h, j, n.elems)
    BY <2>3
  <2>5. i = j /\ m.child = n.child
    BY <1>4, <2>2, <2>4
  <2>6. m = n
    BY <2>5 DEF Listed
  <2> QED
    BY <2>2, <2>4, <2>5, <2>6
<1>7. IsFiniteSet(W)
  <2> DEFINE f == [x \in W |-> x.index]
  <2>1. f \in [W -> DOMAIN s] /\ \A x, y \in W : f[x] = f[y] => x = y
    BY <1>5, <1>6
  <2>2. IsFiniteSet(DOMAIN s)
    BY <1>1, FS_Interval
  <2> HIDE DEF f
  <2>3. f \in Injection(W, DOMAIN s)
    BY <2>1 DEF Injection, IsInjective
  <2> QED
    BY <2>2, <2>3, FS_Injection
<1> DEFINE c == SetToSeq(W)
<1>8. /\ c \in Seq(W) /\ \A i, j \in DOMAIN c : c[i] = c[j] => i = j
  BY <1>7, SetToSeqIs
<1> HIDE DEF c
<1>9. \A i \in DOMAIN c : c[i] \in W
  BY <1>8
<1>10. c \in Seq([index : DOMAIN s, set : ChildSet])
  <2> DEFINE R == [index : DOMAIN s, set : ChildSet]
  <2>1. W \subseteq R
    BY <1>5
  <2> HIDE DEF R
  <2>2. c \in Seq(W)
    BY <1>8
  <2>3. c \in Seq(R)
    BY <2>1, <2>2, SeqMonotonic
  <2> QED
    BY <2>3 DEF R
<1>11. Rewrites(s, c)
  BY <1>5, <1>6, <1>8, <1>9, <1>10 DEF Rewrites
<1> QED
  BY <1>7, <1>11 DEF c, W

(***************************************************************************)
(* The invariant holds at first and is preserved by every step.            *)
(***************************************************************************)

\* Queues of no, one and two messages.
LEMMA Queues ==
    ASSUME NEW x, NEW y
    PROVE  /\ Head(<<x>>) = x /\ Head(<<x, y>>) = x
           /\ Len(<<x>>) = 1 /\ Len(<<x, y>>) = 2
           /\ <<x>> # <<>> /\ <<x, y>> # <<>>
           /\ SubSeq(<<x>>, 1 + 1, Len(<<x>>)) = <<>>
           /\ SubSeq(<<x, y>>, 2 + 1, Len(<<x, y>>)) = <<>>
           /\ <<>> \o <<x>> = <<x>> /\ <<>> \o <<x, y>> = <<x, y>> /\ <<>> \o <<>> = <<>>
           /\ Append(<<>>, x) = <<x>>
<1>1. <<>> \o <<x>> = <<x>> /\ <<>> \o <<x, y>> = <<x, y>> /\ <<>> \o <<>> = <<>>
  OBVIOUS
<1>2. Append(<<>>, x) = <<x>>
  OBVIOUS
<1>3. /\ SubSeq(<<x>>, 1 + 1, Len(<<x>>)) = <<>>
      /\ SubSeq(<<x, y>>, 2 + 1, Len(<<x, y>>)) = <<>>
  OBVIOUS
<1> QED
  BY <1>1, <1>2, <1>3

\* There are two hosts.
LEMMA TwoHosts ==
    /\ Other("client") = "server" /\ Other("server") = "client"
    /\ \A h \in Hosts : h = "client" \/ h = "server"
    /\ "client" \in Hosts /\ "server" \in Hosts
BY DEF Other, Hosts

\* Whether a parent is sound depends on its three fields only.
LEMMA SoundFields ==
    ASSUME NEW p, NEW q, Sound(p),
           q.mySet = p.mySet, q.hashes = p.hashes, q.stale = p.stale
    PROVE  Sound(q)
BY Zenon DEF Sound, InPlace, Singles

\* A parent without children is sound.
LEMMA NoChildrenSound ==
    Sound(NoChildren)
<1>1. NoChildren.mySet = <<>> /\ NoChildren.hashes = <<>> /\ NoChildren.stale = FALSE
  BY DEF NoChildren
<1>2. ChildrenOf(<<>>) = <<>>
  BY DEF ChildrenOf
<1>3. <<>> \in Seq(ChildSet) /\ <<>> \in Seq(HashOf) /\ DOMAIN <<>> = {} /\ Len(<<>>) = 0
  OBVIOUS
<1> QED
  BY <1>1, <1>2, <1>3 DEF Sound, InPlace, Singles

\* What the types and the invariant say of a host's parent.
LEMMA ParentIs ==
    ASSUME NEW h \in Hosts
    PROVE  /\ Parent(h).mySet = mySet[h] /\ Parent(h).hashes = hashes[h]
           /\ Parent(h).stale = stale[h]
BY DEF Parent

\* The first children of a parent are those of some set, each added once.
LEMMA FirstChildren ==
    ASSUME NEW S \in SUBSET Child, Len(SetToSeq(S)) < MaxChildren
    PROVE  /\ Sound(ParentOf(SetToSeq(S))) /\ ~ParentOf(SetToSeq(S)).stale
           /\ Len(ParentOf(SetToSeq(S)).mySet) = Len(SetToSeq(S))
<1> DEFINE s == SetToSeq(S)
<1>1. IsFiniteSet(S)
  <2>1. IsFiniteSet(SUBSET Item)
    BY FS_SUBSET, SetOfSetsAssumption
  <2>2. S \subseteq SUBSET Item
    BY SetOfSetsAssumption
  <2> QED
    BY <2>1, <2>2, FS_Subset
<1>2. s \in Seq(S)
  BY <1>1, SetToSeqIs
<1>3. S \subseteq ChildSet
  BY SetOfSetsAssumption DEF ChildSet
<1>4. s \in Seq(ChildSet) /\ Len(s) \in Nat
  <2> HIDE DEF s
  <2> QED
    BY <1>2, <1>3, SeqMonotonic
<1>5. NoChildren.mySet = <<>> /\ NoChildren.stale = FALSE /\ Len(<<>>) = 0
  BY DEF NoChildren
<1>6. Len(NoChildren.mySet) + Len(s) <= 2 * MaxChildren
  BY <1>4, <1>5, SetOfSetsAssumption
<1> HIDE DEF s
<1>7. /\ Sound(AllAdded(NoChildren, s))
      /\ AllAdded(NoChildren, s).stale = NoChildren.stale
      /\ Len(AllAdded(NoChildren, s).mySet) = Len(NoChildren.mySet) + Len(s)
  BY <1>4, <1>6, NoChildrenSound, AllAddedIs
<1> QED
  BY <1>4, <1>5, <1>7 DEF ParentOf, s

\* The invariant holds at first.
LEMMA ParentsInvInit ==
    ParentsInit => ParentsInv
<1> SUFFICES ASSUME ParentsInit PROVE ParentsInv
  OBVIOUS
<1>1. PICK start \in [Hosts -> {SetToSeq(S) : S \in SUBSET Child}] :
        /\ \A h \in Hosts : Len(start[h]) < MaxChildren
        /\ mySet = [h \in Hosts |-> ParentOf(start[h]).mySet]
        /\ hashes = [h \in Hosts |-> ParentOf(start[h]).hashes]
  BY DEF ParentsInit
<1>2. ASSUME NEW h \in Hosts
      PROVE  /\ Sound(Parent(h)) /\ Len(mySet[h]) <= MaxChildren
             /\ pc[h] = "begin" /\ chan[h] = <<>> /\ session[h] = 1
  <2>1. PICK S \in SUBSET Child : start[h] = SetToSeq(S)
    BY <1>1
  <2>2. Len(SetToSeq(S)) < MaxChildren
    BY <1>1, <2>1
  <2> DEFINE p == ParentOf(start[h])
  <2>3. Sound(p) /\ ~p.stale /\ Len(p.mySet) < MaxChildren
    BY <2>1, <2>2, FirstChildren
  <2>4. p.stale = FALSE
    BY <2>3 DEF Sound
  <2>5. mySet[h] = p.mySet /\ hashes[h] = p.hashes /\ stale[h] = FALSE
    BY <1>1 DEF ParentsInit
  <2>6. Sound(Parent(h))
    <3> HIDE DEF p
    <3> QED
      BY <2>3, <2>4, <2>5, SoundFields, ParentIs
  <2>7. Len(p.mySet) \in Nat
    BY <2>3, LenProperties DEF Sound
  <2> QED
    BY <2>3, <2>5, <2>6, <2>7, SetOfSetsAssumption DEF ParentsInit
<1>3. \A h \in Hosts :
         /\ mySet[h] \in Seq(ChildSet) /\ hashes[h] \in Seq(HashOf)
         /\ Len(hashes[h]) = Len(mySet[h])
  BY <1>2, ParentIs DEF Sound
<1>4. ParentShapes
  BY <1>1, <1>2, <1>3, SetOfSetsAssumption DEF ParentShapes, ParentsInit
<1>5. ParentsTypeOK
  BY <1>1, <1>2, <1>3, SetOfSetsAssumption DEF ParentsTypeOK, ParentsInit, ChildSet
<1>6. ToClient /\ ToServer /\ Rewriting
  BY <1>2, TwoHosts DEF ToClient, ToServer, Rewriting
<1>7. \A h \in Hosts : pc[h] \notin Waits \cup {"post"}
  BY <1>2 DEF Waits
<1> QED
  BY <1>2, <1>4, <1>5, <1>6, <1>7 DEF ParentsInv

\* What an answer does to the queues.
LEMMA AnswerIs ==
    ASSUME chan = [k \in Hosts |-> chan[k]],
           NEW h \in Hosts, NEW n, NEW msgs, Answer(h, n, msgs)
    PROVE  /\ chan'[h] = SubSeq(chan[h], n + 1, Len(chan[h]))
           /\ chan'[Other(h)] = chan[Other(h)] \o msgs
           /\ chan' = [k \in Hosts |-> chan'[k]]
<1>1. Other(h) # h /\ Other(h) \in Hosts
  BY DEF Other, Hosts
<1> DEFINE a == SubSeq(chan[h], n + 1, Len(chan[h]))
           b == chan[Other(h)] \o msgs
<1>2. chan' = [chan EXCEPT ![h] = a, ![Other(h)] = b]
  BY <1>1 DEF Answer
<1> HIDE DEF a, b
<1>3. chan'[h] = a /\ chan'[Other(h)] = b /\ chan' = [k \in Hosts |-> chan'[k]]
  BY <1>1, <1>2
<1> QED
  BY <1>3 DEF a, b

\* Nothing to rewrite.
LEMMA NoRewrites ==
    ASSUME NEW s
    PROVE  Rewrites(s, <<>>)
BY DEF Rewrites

\* A parent that did not change is as sound as it was.
LEMMA SameParents ==
    ASSUME UNCHANGED <<mySet, hashes, stale>>, \A h \in Hosts : Sound(Parent(h))
    PROVE  \A h \in Hosts : Sound(Parent(h))'
<1> SUFFICES ASSUME NEW h \in Hosts PROVE Sound(Parent(h))'
  OBVIOUS
<1>1. Parent(h)' = Parent(h)
  BY DEF Parent
<1> QED
  BY <1>1

\* Connecting starts with empty channels and nothing to rewrite.
LEMMA ConnectInv ==
    ASSUME ParentsInv, Connect
    PROVE  ParentsInv'
<1>1. /\ pc["client"] = "begin" /\ pc["server"] = "begin"
      /\ pc'["client"] = "awaitFlag" /\ pc'["server"] = "recvParams"
      /\ chan["client"] = <<>> /\ chan["server"] = <<>>
  BY TwoHosts DEF Connect, ParentsInv, ToClient, ToServer, Hosts
<1>2. /\ chan'["client"] = <<>>
      /\ chan'["server"] = <<[type |-> "params", size |-> size["client"]]>>
      /\ chan' = [h \in Hosts |-> chan'[h]] /\ oms' = [h \in Hosts |-> oms'[h]]
      /\ \A h \in Hosts : oms'[h] = <<>>
  <2>1. PICK m : m = [type |-> "params", size |-> size["client"]]
    OBVIOUS
  <2>2. chan = [h \in Hosts |-> chan[h]] /\ oms' = [h \in Hosts |-> <<>>]
    BY DEF Connect, ParentsInv, ParentShapes
  <2>3. chan' = [chan EXCEPT !["server"] = Append(chan["server"], m)]
    BY <2>1, Zenon DEF Connect
  <2>4. DOMAIN chan = Hosts /\ "client" \in Hosts /\ "server" \in Hosts
    BY <2>2, TwoHosts
  <2>5. /\ chan'["client"] = chan["client"] /\ chan'["server"] = Append(chan["server"], m)
        /\ chan' = [h \in Hosts |-> chan'[h]]
    BY <2>3, <2>4
  <2>6. Append(<<>>, m) = <<m>>
    BY Queues, Zenon
  <2>7. oms' = [h \in Hosts |-> oms'[h]] /\ \A h \in Hosts : oms'[h] = <<>>
    BY <2>2
  <2> QED
    BY <1>1, <2>1, <2>5, <2>6, <2>7, Zenon
<1>3. \A h \in Hosts : Sound(Parent(h))'
  BY SameParents DEF ParentsInv, Connect
<1>4. ParentsTypeOK'
  BY DEF ParentsInv, ParentsTypeOK, Connect, Waits, Ended
<1>5. \A h \in Hosts : Rewrites(mySet[h], oms[h])'
  <2> SUFFICES ASSUME NEW h \in Hosts PROVE Rewrites(mySet'[h], oms'[h])
    OBVIOUS
  <2>1. oms'[h] = <<>>
    BY <1>2
  <2> QED
    BY <2>1, NoRewrites
<1>6. ParentShapes'
  BY <1>1, <1>2, TwoHosts DEF ParentsInv, ParentShapes, Connect, Waits
<1>7. ToClient' /\ ToServer'
  BY <1>1, <1>2 DEF Connect, ToClient, ToServer, Undecided, Outcome
<1>8. Rewriting'
  BY <1>1 DEF Rewriting
<1> QED
  BY <1>3, <1>4, <1>5, <1>6, <1>7, <1>8 DEF ParentsInv

\* The server answers the parameters with a flag; the client waits for it or is gone.
LEMMA ServerParamsInv ==
    ASSUME ParentsInv, ServerParams
    PROVE  ParentsInv'
<1> DEFINE ok == Head(chan["server"]).size = size["server"]
<1>1. /\ pc["server"] = "recvParams" /\ pc["client"] \in {"awaitFlag"} \cup Gone
      /\ chan["server"] = <<[type |-> "params", size |-> size["client"]]>>
      /\ chan["client"] = <<>> /\ ok \in BOOLEAN
  BY DEF ServerParams, ParentsInv, ToServer
<1> HIDE DEF ok
<1>2. /\ chan'["server"] = <<>> /\ chan'["client"] = <<FlagOf(ok)>>
      /\ chan' = [h \in Hosts |-> chan'[h]]
  <2>1. Answer("server", 1, <<FlagOf(ok)>>)
    BY DEF ServerParams, Flag, FlagOf, ok
  <2>2. chan = [h \in Hosts |-> chan[h]]
    BY DEF ParentsInv, ParentShapes
  <2>3. /\ chan'["server"] = SubSeq(chan["server"], 1 + 1, Len(chan["server"]))
        /\ chan'["client"] = chan["client"] \o <<FlagOf(ok)>>
        /\ chan' = [h \in Hosts |-> chan'[h]]
    BY <2>1, <2>2, AnswerIs, TwoHosts, Zenon
  <2> QED
    BY <1>1, <2>3, Queues
<1>3. /\ pc'["client"] = pc["client"]
      /\ pc'["server"] = IF ok THEN "recvTable" ELSE "post"
      /\ pc' \in [Hosts -> Waits \cup Ended \cup {"begin", "post", "bound"}]
      /\ success' \in [Hosts -> BOOLEAN]
  BY <1>1, TwoHosts DEF ServerParams, Goto, ParentsInv, ParentsTypeOK, Waits, Ended, ok
<1>4. UNCHANGED <<size, mySet, hashes, session, oms, outcome, stale, updates>>
  BY DEF ServerParams
<1>5. \A h \in Hosts : Sound(Parent(h))'
  BY <1>4, SameParents DEF ParentsInv
<1>6. ParentsTypeOK'
  BY <1>3, <1>4 DEF ParentsInv, ParentsTypeOK
<1>7. \A h \in Hosts : pc'[h] \in Waits \cup {"post"} => pc[h] \in Waits
  BY <1>1, <1>3, TwoHosts DEF Waits, Gone
<1>8. \A h \in Hosts : pc'[h] \in Waits \cup {"post"} => Rewrites(mySet[h], oms[h])'
  BY <1>4, <1>7 DEF ParentsInv
<1>9. ParentShapes'
  BY <1>1, <1>2, <1>3, <1>4, TwoHosts DEF ParentsInv, ParentShapes, Waits
<1>10. ToClient' /\ ToServer'
  BY <1>1, <1>2, <1>3, <1>4 DEF ParentsInv, ToClient, ToServer, FlagOf, Gone
<1>11. Rewriting'
  BY <1>1, <1>3 DEF Rewriting, Gone
<1> QED
  BY <1>5, <1>6, <1>8, <1>9, <1>10, <1>11 DEF ParentsInv

\* The client answers a flag that is set with its table.
LEMMA ClientFlagInv ==
    ASSUME ParentsInv, ClientFlag
    PROVE  ParentsInv'
<1> DEFINE ok == Head(chan["client"]).ok
           msgs == IF ok THEN <<TableOf("client")>> ELSE <<>>
<1>1. /\ pc["client"] = "awaitFlag" /\ outcome.by = "none"
      /\ chan["client"] \in {<<FlagOf(TRUE)>>, <<FlagOf(FALSE)>>}
  BY DEF ClientFlag, ParentsInv, ToClient, Receives
<1>2. ok \in BOOLEAN /\ chan["client"] = <<FlagOf(ok)>>
  <2>1. FlagOf(TRUE).ok = TRUE /\ FlagOf(FALSE).ok = FALSE
    BY DEF FlagOf
  <2>2. CASE chan["client"] = <<FlagOf(TRUE)>>
    <3>1. ok = TRUE
      BY <2>1, <2>2, Queues
    <3> QED
      BY <2>2, <3>1
  <2>3. CASE chan["client"] = <<FlagOf(FALSE)>>
    <3>1. ok = FALSE
      BY <2>1, <2>3, Queues
    <3> QED
      BY <2>3, <3>1
  <2> QED
    BY <1>1, <2>2, <2>3
<1>3. /\ pc["server"] = "recvTable" => ok /\ chan["server"] = <<>>
      /\ pc["server"] \in {"begin", "post", "returned"} => ~ok /\ chan["server"] = <<>>
      /\ pc["server"] # "recvParams"
  BY <1>1, <1>2, Queues DEF ParentsInv, ToServer, FlagOf
<1> HIDE DEF ok
<1>4. /\ chan'["client"] = <<>> /\ chan'["server"] = chan["server"] \o msgs
      /\ chan' = [h \in Hosts |-> chan'[h]]
  BY <1>2, Queues, TwoHosts DEF ClientFlag, Answer, ParentsInv, ParentShapes, TableOf, ok
<1>5. /\ pc'["server"] = pc["server"]
      /\ pc'["client"] = IF ok THEN "awaitLists" ELSE "post"
      /\ pc' \in [Hosts -> Waits \cup Ended \cup {"begin", "post", "bound"}]
      /\ success' \in [Hosts -> BOOLEAN]
  BY <1>2, TwoHosts DEF ClientFlag, Goto, ParentsInv, ParentsTypeOK, Waits, Ended, ok
<1>6. UNCHANGED <<size, mySet, hashes, session, oms, outcome, stale, updates>>
  BY DEF ClientFlag
<1>7. \A h \in Hosts : Sound(Parent(h))'
  BY <1>6, SameParents DEF ParentsInv
<1>8. ParentsTypeOK'
  BY <1>5, <1>6 DEF ParentsInv, ParentsTypeOK
<1>9. \A h \in Hosts : pc'[h] \in Waits \cup {"post"} => pc[h] \in Waits \cup {"post"}
  BY <1>1, <1>5, TwoHosts DEF Waits
<1>10. \A h \in Hosts : pc'[h] \in Waits \cup {"post"} => Rewrites(mySet[h], oms[h])'
  BY <1>6, <1>9 DEF ParentsInv
<1>11. ParentShapes'
  BY <1>1, <1>4, <1>5, <1>6, TwoHosts DEF ParentsInv, ParentShapes, Waits
<1>12. TableOf("client")' = TableOf("client")
  BY <1>6 DEF TableOf
<1>13. ToClient'
  BY <1>4, <1>5 DEF ToClient
<1>14. ToServer'
  <2>1. pc["server"] = "recvTable" =>
           /\ pc'["client"] = "awaitLists" /\ chan'["server"] = <<TableOf("client")>>
    BY <1>3, <1>4, <1>5, Queues
  <2>2. pc["server"] \in {"begin", "post", "returned"} =>
           /\ pc'["client"] = "post" /\ chan'["server"] = <<>>
    BY <1>3, <1>4, <1>5, Queues
  <2> QED
    BY <1>3, <1>4, <1>5, <1>12, <2>1, <2>2 DEF ToServer
<1>15. Rewriting'
  BY <1>1, <1>6 DEF Rewriting
<1> QED
  BY <1>7, <1>8, <1>10, <1>11, <1>13, <1>14, <1>15 DEF ParentsInv

\* A host that stops leaves the rest as it is.
LEMMA StopInv ==
    ASSUME ParentsInv, NEW h \in Hosts, NEW label \in Gone \cup {"bound"}, Goto(h, label),
           label = "bound" => h = "server",
           outcome' = outcome \/ (h = "server" /\ pc["client"] # "awaitFlag"),
           UNCHANGED <<size, mySet, hashes, chan, session, oms, success, stale, updates>>
    PROVE  ParentsInv'
<1>1. /\ pc' = [pc EXCEPT ![h] = label]
      /\ pc \in [Hosts -> Waits \cup Ended \cup {"begin", "post", "bound"}]
  BY DEF Goto, ParentsInv, ParentsTypeOK
<1>2. /\ pc' \in [Hosts -> Waits \cup Ended \cup {"begin", "post", "bound"}]
      /\ \A k \in Hosts : pc'[k] = IF k = h THEN label ELSE pc[k]
  BY <1>1 DEF Ended
<1>3. \A k \in Hosts : Sound(Parent(k))'
  BY SameParents DEF ParentsInv
<1>4. ParentsTypeOK'
  BY <1>2 DEF ParentsInv, ParentsTypeOK
<1>5. \A k \in Hosts : pc'[k] \in Waits \cup {"begin", "post"} => pc'[k] = pc[k]
  BY <1>2 DEF Waits, Gone
<1>6. \A k \in Hosts : pc'[k] \in Waits \cup {"post"} => Rewrites(mySet[k], oms[k])'
  BY <1>5 DEF ParentsInv, Waits
<1>7. ParentShapes'
  BY <1>5 DEF ParentsInv, ParentShapes
<1>8. /\ pc'["client"] = pc["client"] \/ pc'["client"] \in Gone
      /\ pc'["server"] = pc["server"] \/ pc'["server"] \in Gone \cup {"bound"}
  BY <1>2, TwoHosts
<1>9. ToClient'
  BY <1>8 DEF ParentsInv, ToClient, Gone
<1>10. TableOf("client")' = TableOf("client")
  BY DEF TableOf
<1>11. ToServer'
  BY <1>8, <1>10 DEF ParentsInv, ToServer, Gone
<1>12. Rewriting'
  <2> SUFFICES ASSUME /\ outcome'.by = "paired" /\ pc'["server"] = "post"
                      /\ pc'["client"] \in {"awaitLists", "post"}
               PROVE  Rewriting'
    BY DEF Rewriting
  <2>1. pc'["server"] = pc["server"] /\ pc'["client"] = pc["client"]
    BY <1>8 DEF Gone
  <2>2. outcome' = outcome
    BY <1>2, TwoHosts DEF Gone
  <2> QED
    BY <2>1, <2>2 DEF ParentsInv, Rewriting, NotOnThat, NotOnThis, ValueIn, DifferBy,
                      ReWritten, ReWrite, Distinct
<1> QED
  BY <1>3, <1>4, <1>6, <1>7, <1>9, <1>11, <1>12 DEF ParentsInv

\* A host that changes its children between sessions or at the end of one.
LEMMA BecomeInv ==
    ASSUME ParentsInv, NEW h \in Hosts, pc[h] \in {"begin", "post"},
           NEW label \in {"begin", "returned"}, Goto(h, label),
           NEW q, Become(h, q), Sound(q), Len(q.mySet) <= MaxChildren,
           session' \in [Hosts -> 1..Sessions + 1],
           label = "begin" => session'[h] <= Sessions,
           \A k \in Hosts : k # h => session'[k] = session[k],
           UNCHANGED <<size, chan, oms, success, outcome>>
    PROVE  ParentsInv'
<1>1. /\ pc' = [pc EXCEPT ![h] = label]
      /\ pc \in [Hosts -> Waits \cup Ended \cup {"begin", "post", "bound"}]
  BY DEF Goto, ParentsInv, ParentsTypeOK
<1>2. /\ pc' \in [Hosts -> Waits \cup Ended \cup {"begin", "post", "bound"}]
      /\ \A k \in Hosts : pc'[k] = IF k = h THEN label ELSE pc[k]
  BY <1>1 DEF Ended
<1>3. /\ q.mySet \in Seq(SUBSET Item) /\ q.hashes \in Seq(HashOf) /\ q.stale \in BOOLEAN
      /\ Len(q.hashes) = Len(q.mySet)
  BY DEF Sound, ChildSet
<1>4. /\ mySet' \in [Hosts -> Seq(SUBSET Item)] /\ hashes' \in [Hosts -> Seq(HashOf)]
      /\ stale' \in [Hosts -> BOOLEAN]
      /\ mySet'[h] = q.mySet /\ hashes'[h] = q.hashes /\ stale'[h] = q.stale
      /\ \A k \in Hosts : k # h => /\ mySet'[k] = mySet[k] /\ hashes'[k] = hashes[k]
                                   /\ stale'[k] = stale[k]
  BY <1>3 DEF ParentsInv, ParentsTypeOK, ParentShapes, Become
<1>5. ASSUME NEW k \in Hosts
      PROVE  Sound(Parent(k))'
  <2>1. /\ Parent(k)'.mySet = mySet'[k] /\ Parent(k)'.hashes = hashes'[k]
        /\ Parent(k)'.stale = stale'[k]
    BY DEF Parent
  <2>2. CASE k = h
    <3>1. Sound(Parent(k)')
      BY <1>4, <2>1, <2>2, SoundFields
    <3> QED
      BY <3>1
  <2>3. CASE k # h
    <3>1. Sound(Parent(k))
      BY DEF ParentsInv
    <3>2. Sound(Parent(k)')
      <4>1. /\ Parent(k)'.mySet = Parent(k).mySet /\ Parent(k)'.hashes = Parent(k).hashes
            /\ Parent(k)'.stale = Parent(k).stale
        BY <1>4, <2>1, <2>3, ParentIs, Zenon
      <4> QED
        BY <3>1, <4>1, SoundFields, Zenon
    <3> QED
      BY <3>2
  <2> QED
    BY <2>2, <2>3
<1>6. ParentsTypeOK'
  <2>1. \A k \in Hosts : Len(hashes'[k]) = Len(mySet'[k]) /\ Len(mySet'[k]) <= MaxChildren
    <3> SUFFICES ASSUME NEW k \in Hosts
                 PROVE  Len(hashes'[k]) = Len(mySet'[k]) /\ Len(mySet'[k]) <= MaxChildren
      OBVIOUS
    <3>1. CASE k = h
      BY <1>3, <1>4, <3>1
    <3>2. CASE k # h
      BY <1>4, <3>2 DEF ParentsInv, ParentsTypeOK
    <3> QED
      BY <3>1, <3>2
  <2> QED
    BY <1>2, <1>4, <2>1 DEF ParentsInv, ParentsTypeOK
<1>7. ASSUME NEW k \in Hosts, pc'[k] \in Waits \cup {"post"}
      PROVE  Rewrites(mySet[k], oms[k])'
  <2>1. k # h
    BY <1>2, <1>7 DEF Waits
  <2>2. Rewrites(mySet[k], oms[k]) /\ mySet'[k] = mySet[k] /\ oms'[k] = oms[k]
    BY <1>2, <1>4, <1>7, <2>1 DEF ParentsInv
  <2> QED
    BY <2>2
<1>8. ParentShapes'
  <2>1. \A k \in Hosts :
           pc'[k] \in Waits \cup {"begin", "post"} => session'[k] <= Sessions
    BY <1>2 DEF ParentsInv, ParentShapes, Waits
  <2> QED
    BY <1>4, <2>1 DEF ParentsInv, ParentShapes
<1>9. /\ pc'["client"] = pc["client"]
         \/ /\ pc["client"] \in {"begin", "post"}
            /\ pc'["client"] \in {"begin", "returned"}
      /\ pc'["server"] = pc["server"]
         \/ /\ pc["server"] \in {"begin", "post"}
            /\ pc'["server"] \in {"begin", "returned"}
  BY <1>2, TwoHosts
<1>10. ToClient'
  BY <1>9 DEF ParentsInv, ToClient
<1>11. ToServer'
  <2>1. CASE h = "client"
    BY <1>9, <2>1 DEF ParentsInv, ToServer, Gone
  <2>2. CASE h = "server"
    <3>1. TableOf("client")' = TableOf("client")
      BY <1>4, <2>2, TwoHosts DEF TableOf
    <3> QED
      BY <1>9, <2>2, <3>1 DEF ParentsInv, ToServer
  <2> QED
    BY <2>1, <2>2, TwoHosts
<1>12. Rewriting'
  BY <1>2, TwoHosts DEF Rewriting
<1> QED
  BY <1>5, <1>6, <1>7, <1>8, <1>10, <1>11, <1>12 DEF ParentsInv

\* The post-processing, which ends a session.
LEMMA PostProcessInv ==
    ASSUME ParentsInv, NEW h \in Hosts, PostProcess(h)
    PROVE  /\ ParentsInv'
           /\ mySet'[h] = PostProcessed(Parent(h), oms[h]).mySet
           /\ Len(mySet'[h]) = Len(mySet[h])
<1> DEFINE q == PostProcessed(Parent(h), oms[h])
           label == IF session[h] = Sessions THEN "returned" ELSE "begin"
<1>1. Sound(Parent(h)) /\ Rewrites(mySet[h], oms[h]) /\ Len(mySet[h]) <= MaxChildren
  BY DEF ParentsInv, PostProcess, ParentsTypeOK
<1>2. Sound(q) /\ Len(q.mySet) = Len(mySet[h])
  BY <1>1, PostProcessedIs, ParentIs
<1>3. session[h] \in 1..Sessions
  BY SetOfSetsAssumption DEF ParentsInv, ParentShapes, ParentsTypeOK, PostProcess
<1>4. /\ session' = [session EXCEPT ![h] = session[h] + 1]
      /\ session \in [Hosts -> 1..Sessions + 1]
  BY DEF PostProcess, ParentsInv, ParentsTypeOK
<1>5. /\ session' \in [Hosts -> 1..Sessions + 1] /\ session'[h] = session[h] + 1
      /\ \A k \in Hosts : k # h => session'[k] = session[k]
  BY <1>3, <1>4, SetOfSetsAssumption
<1>6. label \in {"begin", "returned"} /\ (label = "begin" => session'[h] <= Sessions)
  BY <1>3, <1>5, SetOfSetsAssumption
<1>7. /\ pc[h] \in {"begin", "post"} /\ Goto(h, label) /\ Become(h, q)
      /\ UNCHANGED <<size, chan, oms, success, outcome>>
  BY DEF PostProcess
<1>8. mySet'[h] = q.mySet
  <2> HIDE DEF q
  <2> QED
    BY <1>7 DEF Become, ParentsInv, ParentsTypeOK
<1>9. Len(q.mySet) <= MaxChildren
  BY <1>1, <1>2
<1> HIDE DEF label, q
<1>10. ParentsInv'
  BY <1>2, <1>5, <1>6, <1>7, <1>9, BecomeInv
<1> QED
  BY <1>2, <1>8, <1>10 DEF q

\* The program adds or deletes a child.
LEMMA UpdateInv ==
    ASSUME ParentsInv, NEW h \in Hosts,
           \/ \E c \in Child : AddElem(h, c)
           \/ \E i \in DOMAIN mySet[h] : DelElem(h, i)
    PROVE  ParentsInv'
<1>1. /\ Sound(Parent(h)) /\ Len(mySet[h]) <= MaxChildren
      /\ mySet[h] \in Seq(ChildSet)
  BY DEF ParentsInv, ParentsTypeOK, ChildSet
<1>2. Len(mySet[h]) \in Nat
  BY <1>1, LenProperties
<1>3. ASSUME NEW q, ProgramUpdate(h, q), Sound(q), Len(q.mySet) <= MaxChildren
      PROVE  ParentsInv'
  <2>1. /\ pc[h] = "begin" /\ Become(h, q)
        /\ UNCHANGED <<size, pc, chan, session, oms, success, outcome>>
    BY <1>3 DEF ProgramUpdate
  <2>2. /\ Goto(h, "begin") /\ session[h] <= Sessions
        /\ session' \in [Hosts -> 1..Sessions + 1]
    BY <2>1 DEF Goto, ParentsInv, ParentsTypeOK, ParentShapes
  <2> QED
    BY <1>3, <2>1, <2>2, BecomeInv
<1>4. ASSUME NEW c \in Child, AddElem(h, c)
      PROVE  ParentsInv'
  <2>1. c \in ChildSet
    BY SetOfSetsAssumption DEF ChildSet
  <2> DEFINE q == Added(Parent(h), c)
  <2>2. Sound(q) /\ q.mySet = Append(mySet[h], c)
    BY <1>1, <1>2, <2>1, AddedSound, ParentIs, SetOfSetsAssumption
  <2>3. Len(mySet[h]) < MaxChildren /\ ProgramUpdate(h, q)
    BY <1>4 DEF AddElem
  <2>4. Len(Append(mySet[h], c)) = Len(mySet[h]) + 1
    BY <1>1, <2>1, AppendProperties
  <2>5. Len(q.mySet) <= MaxChildren
    BY <1>2, <2>2, <2>3, <2>4, SetOfSetsAssumption
  <2> HIDE DEF q
  <2> QED
    BY <1>3, <2>2, <2>3, <2>5
<1>5. ASSUME NEW i \in DOMAIN mySet[h], DelElem(h, i)
      PROVE  ParentsInv'
  <2> DEFINE q == Deleted(Parent(h), i)
  <2>1. Sound(q) /\ q.mySet = RemoveAt(mySet[h], i)
    BY <1>1, DeletedSound, ParentIs
  <2>2. Len(RemoveAt(mySet[h], i)) = Len(mySet[h]) - 1
    BY <1>1, RemoveIs
  <2>3. ProgramUpdate(h, q)
    BY <1>5 DEF DelElem
  <2>4. Len(q.mySet) <= MaxChildren
    BY <1>1, <1>2, <2>1, <2>2, SetOfSetsAssumption
  <2> HIDE DEF q
  <2> QED
    BY <1>3, <2>1, <2>3, <2>4
<1> QED
  BY <1>4, <1>5

\* The client finds its children that miss elements, and rewrites them.
LEMMA ClientListsInv ==
    ASSUME ParentsInv, ClientLists
    PROVE  ParentsInv'
<1> DEFINE l == chan["client"][1].list
<1>1. /\ pc["client"] = "awaitLists" /\ chan["client"] # <<>> /\ Listed(l)
      /\ chan["client"] = <<ListOf(l), ListOf(chan["client"][2].list)>>
  BY DEF ClientLists, ParentsInv, ToClient, Receives
<1>2. Head(chan["client"]) = ListOf(l)
  <2> HIDE DEF l
  <2> QED
    BY <1>1, Queues, Zenon
<1>3. Head(chan["client"]).list = l
  BY <1>2 DEF ListOf
<1>4. /\ chan'["client"] = <<>>
      /\ chan["server"] = <<>> => chan'["server"] = <<>>
      /\ chan' = [h \in Hosts |-> chan'[h]]
  <2> DEFINE x == ListOf(l)
             y == ListOf(chan["client"][2].list)
  <2> HIDE DEF x, y
  <2>1. chan["client"] = <<x, y>>
    BY <1>1 DEF x, y
  <2>2. Answer("client", 2, <<>>)
    BY DEF ClientLists
  <2>3. chan = [h \in Hosts |-> chan[h]]
    BY DEF ParentsInv, ParentShapes
  <2>4. /\ chan'["client"] = SubSeq(chan["client"], 2 + 1, Len(chan["client"]))
        /\ chan'["server"] = chan["server"] \o <<>>
        /\ chan' = [h \in Hosts |-> chan'[h]]
    BY <2>2, <2>3, AnswerIs, TwoHosts, Zenon
  <2>5. SubSeq(chan["client"], 2 + 1, Len(chan["client"])) = <<>>
    BY <2>1, Queues
  <2> QED
    BY <2>4, <2>5, Queues
<1>5. /\ UNCHANGED <<size, mySet, hashes, session, success, outcome, stale, updates>>
      /\ oms'["client"] = SetToSeq(ReWritten("client", l))
      /\ oms'["server"] = oms["server"]
      /\ oms' = [h \in Hosts |-> oms'[h]]
  <2> HIDE DEF l
  <2>1. oms' = [oms EXCEPT !["client"] = SetToSeq(ReWritten("client", l))]
    BY <1>3 DEF ClientLists
  <2>2. oms = [h \in Hosts |-> oms[h]]
    BY DEF ParentsInv, ParentShapes
  <2> QED
    BY <2>1, <2>2, TwoHosts DEF ClientLists
<1>6. /\ pc'["client"] = "post" /\ pc'["server"] = pc["server"]
      /\ pc' \in [Hosts -> Waits \cup Ended \cup {"begin", "post", "bound"}]
  BY TwoHosts DEF ClientLists, Goto, ParentsInv, ParentsTypeOK
<1>7. pc["server"] \notin {"recvParams", "recvTable"}
  BY <1>1 DEF ParentsInv, ToServer, Gone
<1>8. Rewrites(mySet["client"], SetToSeq(ReWritten("client", l)))
  <2> HIDE DEF l
  <2>1. Sound(Parent("client"))
    BY TwoHosts DEF ParentsInv
  <2> QED
    BY <1>1, <2>1, TwoHosts, ReWrittenIs
<1>9. \A h \in Hosts : Sound(Parent(h))'
  BY <1>5, SameParents DEF ParentsInv
<1>10. ParentsTypeOK'
  BY <1>5, <1>6 DEF ParentsInv, ParentsTypeOK
<1>11. ASSUME NEW h \in Hosts, pc'[h] \in Waits \cup {"post"}
       PROVE  Rewrites(mySet[h], oms[h])'
  <2> HIDE DEF l
  <2>1. CASE h = "client"
    <3>1. oms'[h] = SetToSeq(ReWritten("client", l)) /\ mySet'[h] = mySet["client"]
      BY <1>5, <2>1
    <3> QED
      BY <1>8, <3>1
  <2>2. CASE h = "server"
    <3>1. oms'[h] = oms[h] /\ mySet'[h] = mySet[h] /\ pc'[h] = pc[h]
      BY <1>5, <1>6, <2>2
    <3>2. Rewrites(mySet[h], oms[h])
      BY <1>11, <3>1 DEF ParentsInv
    <3> QED
      BY <3>1, <3>2
  <2> QED
    BY <2>1, <2>2, TwoHosts
<1>12. ParentShapes'
  BY <1>1, <1>4, <1>5, <1>6, TwoHosts DEF ParentsInv, ParentShapes, Waits
<1>13. ToClient'
  BY <1>4, <1>6 DEF ToClient
<1>14. ToServer'
  BY <1>4, <1>6, <1>7 DEF ParentsInv, ToServer
<1>15. Rewriting'
  <2> SUFFICES ASSUME outcome.by = "paired", pc'["server"] = "post",
                      \A h \in Hosts : ~stale[h] /\ Distinct(h)
               PROVE  Rewriting'
    BY <1>5 DEF Rewriting, Distinct
  <2>1. /\ outcome.by = "paired" /\ pc["server"] = "post"
        /\ pc["client"] \in {"awaitLists", "post"}
    BY <1>1, <1>6
  <2>2. /\ DifferingChildren(mySet["client"], mySet["server"]) =
              DifferBy(1) \cup DifferBy(-1)
        /\ Pairing(outcome.pairs, DifferBy(1), DifferBy(-1))
        /\ {p[1] : p \in outcome.pairs} = DifferBy(1) \ outcome.left
        /\ {p[2] : p \in outcome.pairs} \cup outcome.single = DifferBy(-1) \ outcome.left
        /\ oms["server"] = SetToSeq(ReWritten("server", NotOnThis))
        /\ chan["client"] = <<ListOf(NotOnThat), ListOf(NotOnThis)>>
    BY <1>1, <2>1 DEF ParentsInv, Rewriting
  <2>3. l = NotOnThat
    <3>1. chan["client"][1] = ListOf(NotOnThat)
      <4> DEFINE x == ListOf(NotOnThat)
                 y == ListOf(NotOnThis)
      <4> HIDE DEF x, y
      <4>1. chan["client"] = <<x, y>>
        BY <2>2 DEF x, y
      <4>2. chan["client"][1] = x
        BY <4>1
      <4> QED
        BY <4>2 DEF x
    <3> QED
      BY <3>1 DEF ListOf
  <2>4. /\ \A n \in {1, -1} : DifferBy(n)' = DifferBy(n)
        /\ NotOnThat' = NotOnThat /\ NotOnThis' = NotOnThis
    BY <1>5 DEF DifferBy, NotOnThat, NotOnThis, ValueIn
  <2>5. \A h \in Hosts : \A s : ReWritten(h, s)' = ReWritten(h, s)
    BY <1>5 DEF ReWritten, ReWrite
  <2>6. oms'["server"] = SetToSeq(ReWritten("server", NotOnThis))
    BY <1>5, <2>2
  <2>7. oms'["client"] = SetToSeq(ReWritten("client", NotOnThat))
    BY <1>5, <2>3
  <2> QED
    BY <1>5, <1>6, <2>2, <2>4, <2>5, <2>6, <2>7, TwoHosts DEF Rewriting
<1> QED
  BY <1>9, <1>10, <1>11, <1>12, <1>13, <1>14, <1>15 DEF ParentsInv

\* The image of a finite set is finite and not larger.
LEMMA ImageIs ==
    ASSUME NEW S, IsFiniteSet(S), NEW f, DOMAIN f = S, f = [x \in S |-> f[x]]
    PROVE  /\ IsFiniteSet({f[x] : x \in S})
           /\ Cardinality({f[x] : x \in S}) <= Cardinality(S)
<1> DEFINE T == {f[x] : x \in S}
<1>1. f \in Surjection(S, T)
  BY DEF Surjection
<1> QED
  BY <1>1, FS_Surjection

\* There are finitely many children, and as many in a parent as its set has at most.
LEMMA ChildrenFinite ==
    ASSUME NEW A \in SUBSET ChildSet
    PROVE  /\ IsFiniteSet(A) /\ Cardinality(A) \in Nat
           /\ \A s \in Seq(ChildSet) : A \subseteq ToSet(s) => Cardinality(A) <= Len(s)
<1>1. IsFiniteSet(ChildSet)
  BY FS_SUBSET, SetOfSetsAssumption DEF ChildSet
<1>2. IsFiniteSet(A) /\ Cardinality(A) \in Nat
  BY <1>1, FS_Subset, FS_CardinalityType
<1>3. ASSUME NEW s \in Seq(ChildSet), A \subseteq ToSet(s)
      PROVE  Cardinality(A) <= Len(s)
  <2>1. Len(s) \in Nat /\ DOMAIN s = 1..Len(s)
    BY LenProperties
  <2>2. IsFiniteSet(1..Len(s)) /\ Cardinality(1..Len(s)) = Len(s)
    BY <2>1, FirstNumbers
  <2>3. ToSet(s) = {s[i] : i \in 1..Len(s)}
    BY <2>1 DEF ToSet
  <2>4. IsFiniteSet(ToSet(s)) /\ Cardinality(ToSet(s)) <= Len(s)
    <3> DEFINE f == [i \in 1..Len(s) |-> s[i]]
    <3>1. DOMAIN f = 1..Len(s) /\ f = [i \in 1..Len(s) |-> f[i]]
      OBVIOUS
    <3>2. {f[i] : i \in 1..Len(s)} = ToSet(s)
      BY <2>3
    <3> HIDE DEF f
    <3>3. /\ IsFiniteSet({f[i] : i \in 1..Len(s)})
          /\ Cardinality({f[i] : i \in 1..Len(s)}) <= Cardinality(1..Len(s))
      BY <2>2, <3>1, ImageIs
    <3> QED
      BY <2>2, <3>2, <3>3
  <2>5. Cardinality(A) <= Cardinality(ToSet(s)) /\ Cardinality(ToSet(s)) \in Nat
    BY <1>3, <2>4, FS_Subset, FS_CardinalityType
  <2> QED
    BY <1>2, <2>1, <2>4, <2>5
<1> QED
  BY <1>2, <1>3

\* What children differ by.
LEMMA SurplusIs ==
    ASSUME NEW s \in Seq(ChildSet), NEW t \in Seq(ChildSet)
    PROVE  /\ \A c : Surplus(s, t, c) \in Int
           /\ \A c : Surplus(s, t, c) > 0 => c \in ToSet(s)
           /\ \A c : Surplus(s, t, c) < 0 => c \in ToSet(t)
           /\ DifferingChildren(s, t) \subseteq ChildSet
<1>1. \A c : /\ Copies(s, c) \in Nat /\ Copies(t, c) \in Nat
             /\ Copies(s, c) > 0 <=> c \in ToSet(s)
             /\ Copies(t, c) > 0 <=> c \in ToSet(t)
  BY PlacesFinite
<1>2. ToSet(s) \subseteq ChildSet /\ ToSet(t) \subseteq ChildSet
  BY ElementOfSeq DEF ToSet
<1> QED
  BY <1>1, <1>2 DEF Surplus, DifferingChildren, Children

\* The value of a child is a set of numbers.
LEMMA ValueIs ==
    ASSUME NEW a \in Seq(HashOf), NEW b \in Seq(HashOf), NEW c
    PROVE  ValueOf(a, b, c) \in SUBSET Nat
<1>1. ToSet(a) \subseteq HashOf /\ ToSet(b) \subseteq HashOf
  BY ElementOfSeq DEF ToSet
<1>2. \A x \in HashOf : x.again \in Nat
  BY SetOfSetsAssumption DEF HashOf
<1> QED
  BY <1>1, <1>2 DEF ValueOf, SymDiff

\* What a pairing finds missing names each child once, on both sides.
LEMMA MissingListed ==
    ASSUME NEW A \in SUBSET ChildSet, NEW B \in SUBSET ChildSet, NEW pairs, NEW garbled,
           Pairing(pairs, A, B), \A h \in Hosts : hashes[h] \in Seq(HashOf)
    PROVE  Listed(FoundThat(garbled, pairs)) /\ Listed(FoundThis(garbled, pairs))
<1> DEFINE f == [p \in pairs |-> Missing(p[1], ListedValue(garbled, p[1]), p[2] \ p[1])]
           g == [p \in pairs |-> Missing(p[2], ListedValue(garbled, p[2]), p[1] \ p[2])]
           F == {f[p] : p \in pairs}
           G == {g[p] : p \in pairs}
<1>1. \A p \in pairs : p[1] \in A /\ p[2] \in B
  BY DEF Pairing
<1>2. \A p \in pairs : /\ p[1] \in ChildSet /\ p[2] \in ChildSet
                       /\ p[2] \ p[1] \in ChildSet /\ p[1] \ p[2] \in ChildSet
  BY <1>1 DEF ChildSet
<1>3. \A c : ListedValue(garbled, c) \in SUBSET Nat
  BY TwoHosts, ValueIs DEF ValueIn, ListedValue
<1>4. \A p \in pairs : /\ f[p].child = p[1] /\ g[p].child = p[2]
                       /\ f[p] \in [child : ChildSet, value : SUBSET Nat, elems : ChildSet]
                       /\ g[p] \in [child : ChildSet, value : SUBSET Nat, elems : ChildSet]
  BY <1>2, <1>3 DEF Missing
<1>5. \A p, q \in pairs : p[1] = q[1] \/ p[2] = q[2] => p = q
  BY DEF Pairing
<1>6. IsFiniteSet(pairs)
  BY DEF Pairing
<1>7. /\ DOMAIN f = pairs /\ f = [p \in pairs |-> f[p]]
      /\ DOMAIN g = pairs /\ g = [p \in pairs |-> g[p]]
  OBVIOUS
<1>8. F = FoundThat(garbled, pairs) /\ G = FoundThis(garbled, pairs)
  BY Zenon DEF FoundThat, FoundThis
<1> HIDE DEF f, g
<1>9. IsFiniteSet(F) /\ IsFiniteSet(G)
  BY <1>6, <1>7, ImageIs
<1>10. Listed(F) /\ Listed(G)
  BY <1>4, <1>5, <1>9 DEF Listed
<1> QED
  BY <1>8, <1>10

\* A parent without doubles holds each child once or not at all.
LEMMA DistinctCopies ==
    ASSUME NEW s \in Seq(ChildSet), IsInjective(s), NEW c
    PROVE  Copies(s, c) = IF c \in ToSet(s) THEN 1 ELSE 0
<1>1. /\ Copies(s, c) = Cardinality(PlacesOf(s, c))
      /\ Copies(s, c) \in Nat
      /\ Copies(s, c) > 0 <=> c \in ToSet(s)
  BY PlacesFinite
<1>2. ASSUME c \in ToSet(s) PROVE Copies(s, c) = 1
  <2>1. PICK i \in DOMAIN s : s[i] = c
    BY <1>2 DEF ToSet
  <2>2. PlacesOf(s, c) = {i}
    BY <2>1 DEF PlacesOf, IsInjective
  <2>3. Cardinality({i}) = 1
    BY FS_Singleton
  <2> QED
    BY <1>1, <2>2, <2>3
<1> QED
  BY <1>1, <1>2

\* A child that is held once by each of two aligned parents has the same hash in both.
LEMMA EqualHashes ==
    ASSUME NEW p, Sound(p), ~p.stale, NEW q, Sound(q), ~q.stale,
           NEW c \in ToSet(p.mySet), Copies(p.mySet, c) = 1,
           c \in ToSet(q.mySet), Copies(q.mySet, c) = 1
    PROVE  ValueOf(p.hashes, q.hashes, c) = {}
<1> DEFINE agains(hs) == {x.again : x \in {y \in ToSet(hs) : y.child = c}}
<1>1. ASSUME NEW r, Sound(r), ~r.stale, c \in ToSet(r.mySet), Copies(r.mySet, c) = 1
      PROVE  agains(r.hashes) = {0}
  <2>1. /\ DOMAIN r.hashes = DOMAIN r.mySet
        /\ \A j \in DOMAIN r.mySet : r.hashes[j].child = r.mySet[j]
        /\ \A j \in DOMAIN r.hashes : r.hashes[j].child = c => r.hashes[j].again = 0
    BY <1>1 DEF Sound, InPlace, Singles
  <2>2. PICK i \in DOMAIN r.mySet : r.mySet[i] = c
    BY <1>1 DEF ToSet
  <2>3. /\ r.hashes[i] \in ToSet(r.hashes) /\ r.hashes[i].child = c
        /\ r.hashes[i].again = 0
    BY <2>1, <2>2 DEF ToSet
  <2>4. \A y \in ToSet(r.hashes) : y.child = c => y.again = 0
    BY <2>1 DEF ToSet
  <2> QED
    BY <2>3, <2>4
<1>2. agains(p.hashes) = {0} /\ agains(q.hashes) = {0}
  BY <1>1
<1>3. ValueOf(p.hashes, q.hashes, c) = SymDiff(agains(p.hashes), agains(q.hashes))
  BY DEF ValueOf
<1> HIDE DEF agains
<1> QED
  BY <1>2, <1>3 DEF SymDiff

\* Between two hosts that hold no child twice no value is garbled.
LEMMA NothingGarbled ==
    ASSUME \A h \in Hosts : Sound(Parent(h)) /\ ~stale[h] /\ Distinct(h),
           NEW theirs, theirs.mySet = mySet["client"], theirs.hashes = hashes["client"],
           NEW garbled \in Garbled(theirs, Parent("server"))
    PROVE  garbled = {}
<1> DEFINE p == Parent("client")
           q == Parent("server")
<1>1. /\ p.mySet = theirs.mySet /\ p.hashes = theirs.hashes
      /\ Sound(p) /\ ~p.stale /\ IsInjective(p.mySet)
      /\ Sound(q) /\ ~q.stale /\ IsInjective(q.mySet)
  BY ParentIs, TwoHosts DEF Distinct
<1> HIDE DEF p, q
<1>2. ASSUME NEW c \in Children(theirs.mySet, q.mySet), Residue(theirs, q, c)
      PROVE  FALSE
  <2>1. Copies(p.mySet, c) - Copies(q.mySet, c) = 0
    BY <1>1, <1>2 DEF Residue, Surplus
  <2>2. /\ Copies(p.mySet, c) = IF c \in ToSet(p.mySet) THEN 1 ELSE 0
        /\ Copies(q.mySet, c) = IF c \in ToSet(q.mySet) THEN 1 ELSE 0
    <3>1. p.mySet \in Seq(ChildSet) /\ q.mySet \in Seq(ChildSet)
      BY <1>1 DEF Sound
    <3> QED
      BY <1>1, <3>1, DistinctCopies
  <2>3. c \in ToSet(p.mySet) \cup ToSet(q.mySet)
    BY <1>1 DEF Children
  <2>4. /\ c \in ToSet(p.mySet) /\ Copies(p.mySet, c) = 1
        /\ c \in ToSet(q.mySet) /\ Copies(q.mySet, c) = 1
    BY <2>1, <2>2, <2>3
  <2>5. ValueOf(p.hashes, q.hashes, c) = {}
    BY <1>1, <2>4, EqualHashes
  <2> QED
    BY <1>1, <1>2, <2>5 DEF Residue
<1>3. Garbled(theirs, q) = {{}}
  BY <1>2 DEF Garbled
<1> QED
  BY <1>3 DEF q

\* The server compares the client's table with its own, pairs the children that differ
\* and tells the client.
LEMMA ServerTableInv ==
    ASSUME ParentsInv, ServerTable
    PROVE  ParentsInv'
<1> DEFINE x == Head(chan["server"])
           D == DifferingChildren(x.mySet, mySet["server"])
           net(c) == Surplus(x.mySet, mySet["server"], c)
           val(garbled, c) ==
              IF c \in garbled THEN {} ELSE ValueOf(x.hashes, hashes["server"], c)
           A(left) == {c \in D \ left : net(c) = 1}
           B(left) == {c \in D \ left : net(c) = -1}
           thatOf(garbled, pairs) ==
              {Missing(p[1], val(garbled, p[1]), p[2] \ p[1]) : p \in pairs}
           thisOf(garbled, pairs) ==
              {Missing(p[2], val(garbled, p[2]), p[1] \ p[2]) : p \in pairs}
<1>1. /\ pc["server"] = "recvTable" /\ chan["server"] # <<>>
      /\ \A c \in D : net(c) \in {1, -1}
      /\ UNCHANGED <<size, mySet, hashes, session, stale, updates>>
  BY DEF ServerTable, Receives
<1>2. PICK left \in {S \in SUBSET D : Cardinality(S) # 1},
            garbled \in Garbled(x, Parent("server")) :
        \E pos \in SetToSeqs(A(left)), neg \in SetToSeqs(B(left)) :
        LET r == Pair(pos, neg, mySet["server"])
            that == thatOf(garbled, r.pairs)
            this == thisOf(garbled, r.pairs)
        IN
        \/ /\ r.thrown
           /\ outcome' = Outcome("thrown", {}, left, {})
           /\ success' = [success EXCEPT !["server"] = FALSE]
           /\ Answer("server", 1, <<>>)
           /\ Goto("server", "post")
           /\ UNCHANGED oms
        \/ /\ BeyondMySet(x.hashes, that)
           /\ ~r.thrown
           /\ Goto("server", "quit")
           /\ outcome' = Outcome("beyond", {}, left, {})
           /\ UNCHANGED <<success, oms, chan>>
        \/ /\ ~r.thrown
           /\ Goto("server", "post")
           /\ outcome' = Outcome("paired", r.pairs, left,
                                 ToSet(neg) \ {p[2] : p \in r.pairs})
           /\ success' = [success EXCEPT !["server"] = left = {}]
           /\ oms' = [oms EXCEPT !["server"] = SetToSeq(ReWritten("server", this))]
           /\ Answer("server", 1, <<[type |-> "list", list |-> that],
                                    [type |-> "list", list |-> this]>>)
  BY Zenon DEF ServerTable
<1>3. PICK pos \in SetToSeqs(A(left)), neg \in SetToSeqs(B(left)) :
        LET r == Pair(pos, neg, mySet["server"])
            that == thatOf(garbled, r.pairs)
            this == thisOf(garbled, r.pairs)
        IN
        \/ /\ r.thrown
           /\ outcome' = Outcome("thrown", {}, left, {})
           /\ success' = [success EXCEPT !["server"] = FALSE]
           /\ Answer("server", 1, <<>>)
           /\ Goto("server", "post")
           /\ UNCHANGED oms
        \/ /\ BeyondMySet(x.hashes, that)
           /\ ~r.thrown
           /\ Goto("server", "quit")
           /\ outcome' = Outcome("beyond", {}, left, {})
           /\ UNCHANGED <<success, oms, chan>>
        \/ /\ ~r.thrown
           /\ Goto("server", "post")
           /\ outcome' = Outcome("paired", r.pairs, left,
                                 ToSet(neg) \ {p[2] : p \in r.pairs})
           /\ success' = [success EXCEPT !["server"] = left = {}]
           /\ oms' = [oms EXCEPT !["server"] = SetToSeq(ReWritten("server", this))]
           /\ Answer("server", 1, <<[type |-> "list", list |-> that],
                                    [type |-> "list", list |-> this]>>)
  BY <1>2, Zenon
<1> DEFINE that(pairs) == thatOf(garbled, pairs)
           this(pairs) == thisOf(garbled, pairs)
<1> DEFINE r == Pair(pos, neg, mySet["server"])
           single == ToSet(neg) \ {p[2] : p \in r.pairs}
           mine == mySet["server"]
           theirs == mySet["client"]
<1>4. /\ pc["client"] \in {"awaitLists"} \cup Gone
      /\ chan["server"] = <<TableOf("client")>> /\ chan["client"] = <<>>
  BY <1>1 DEF ParentsInv, ToServer
<1>5. x = TableOf("client")
  BY <1>4, Queues, Zenon
<1>6. x.mySet = theirs /\ x.hashes = hashes["client"]
  BY <1>5 DEF TableOf
<1>7. /\ D = DifferingChildren(theirs, mine)
      /\ \A c : net(c) = Surplus(theirs, mine, c)
      /\ \A c : val(garbled, c) = ListedValue(garbled, c)
  BY <1>6 DEF ValueIn, ListedValue
<1>8. theirs \in Seq(ChildSet) /\ mine \in Seq(ChildSet)
  BY TwoHosts DEF ParentsInv, ParentsTypeOK, ChildSet
<1>9. \A pairs :
         that(pairs) = FoundThat(garbled, pairs) /\ this(pairs) = FoundThis(garbled, pairs)
  <2> HIDE DEF D, net, val, x
  <2> QED
    BY <1>7 DEF FoundThat, FoundThis
<1> HIDE DEF D, net, val, x, that, this
<1>10. /\ D \subseteq ChildSet
       /\ A(left) \subseteq ChildSet /\ B(left) \subseteq ChildSet
       /\ B(left) \subseteq ToSet(mine)
  BY <1>7, <1>8, SurplusIs
<1>11. /\ IsFiniteSet(A(left)) /\ IsFiniteSet(B(left))
       /\ Cardinality(B(left)) <= Len(mine)
  BY <1>8, <1>10, ChildrenFinite
<1>12. ~r.thrown => /\ Pairing(r.pairs, A(left), B(left))
                    /\ {p[1] : p \in r.pairs} = A(left)
  <2> HIDE DEF A, B
  <2> QED
    BY <1>3, <1>8, <1>10, <1>11, PairIs
<1>13. ToSet(neg) = B(left)
  <2> HIDE DEF A, B
  <2> QED
    BY <1>3, <1>11, SeqsOf
<1>14. ~r.thrown => Listed(that(r.pairs)) /\ Listed(this(r.pairs))
  <2> HIDE DEF A, B, r
  <2>1. \A h \in Hosts : hashes[h] \in Seq(HashOf)
    BY DEF ParentsInv, ParentShapes
  <2> QED
    BY <1>9, <1>10, <1>12, <2>1, MissingListed
<1>15. chan = [h \in Hosts |-> chan[h]] /\ oms = [h \in Hosts |-> oms[h]]
  BY DEF ParentsInv, ParentShapes
<1>16. \A msgs : Answer("server", 1, msgs) =>
          /\ chan'["server"] = <<>> /\ chan'["client"] = <<>> \o msgs
          /\ chan' = [h \in Hosts |-> chan'[h]]
  <2> SUFFICES ASSUME NEW msgs, Answer("server", 1, msgs)
               PROVE  /\ chan'["server"] = <<>> /\ chan'["client"] = <<>> \o msgs
                      /\ chan' = [h \in Hosts |-> chan'[h]]
    OBVIOUS
  <2>1. /\ chan'["server"] = SubSeq(chan["server"], 1 + 1, Len(chan["server"]))
        /\ chan'["client"] = chan["client"] \o msgs
        /\ chan' = [h \in Hosts |-> chan'[h]]
    BY <1>15, AnswerIs, TwoHosts, Zenon
  <2>2. SubSeq(chan["server"], 1 + 1, Len(chan["server"])) = <<>>
    <3> DEFINE y == TableOf("client")
    <3> HIDE DEF y
    <3>1. chan["server"] = <<y>>
      BY <1>4 DEF y
    <3> QED
      BY <3>1, Queues
  <2> QED
    BY <1>4, <2>1, <2>2
<1>17. \A h \in Hosts : Sound(Parent(h)) /\ Sound(Parent(h))'
  BY <1>1, SameParents DEF ParentsInv
<1>18. CASE BeyondMySet(x.hashes, that(r.pairs)) /\ Goto("server", "quit")
            /\ UNCHANGED <<success, oms, chan>>
  <2>1. pc["client"] # "awaitFlag"
    BY <1>4 DEF Gone
  <2>2. "quit" \in Gone \cup {"bound"} /\ "quit" # "bound"
    BY DEF Gone
  <2> QED
    BY <1>1, <1>18, <2>1, <2>2, StopInv, TwoHosts
<1>19. ASSUME NEW msgs, Answer("server", 1, msgs), Goto("server", "post"),
              NEW ok \in BOOLEAN, success' = [success EXCEPT !["server"] = ok]
       PROVE  /\ ParentsTypeOK' /\ ToServer'
              /\ pc'["server"] = "post" /\ pc'["client"] = pc["client"]
  <2>1. /\ pc'["server"] = "post" /\ pc'["client"] = pc["client"]
        /\ pc' \in [Hosts -> Waits \cup Ended \cup {"begin", "post", "bound"}]
        /\ success' \in [Hosts -> BOOLEAN]
    BY <1>19, TwoHosts DEF Goto, ParentsInv, ParentsTypeOK
  <2>2. ParentsTypeOK'
    BY <1>1, <2>1 DEF ParentsInv, ParentsTypeOK
  <2>3. ToServer'
    BY <1>4, <1>16, <1>19, <2>1 DEF ToServer, Gone
  <2> QED
    BY <2>1, <2>2, <2>3
<1>20. CASE /\ r.thrown
            /\ outcome' = Outcome("thrown", {}, left, {})
            /\ success' = [success EXCEPT !["server"] = FALSE]
            /\ Answer("server", 1, <<>>)
            /\ Goto("server", "post")
            /\ UNCHANGED oms
  <2>1. /\ ParentsTypeOK' /\ ToServer'
        /\ pc'["server"] = "post" /\ pc'["client"] = pc["client"]
    BY <1>19, <1>20
  <2>2. /\ chan'["server"] = <<>> /\ chan'["client"] = <<>>
        /\ chan' = [h \in Hosts |-> chan'[h]]
    BY <1>16, <1>20, Queues
  <2>3. ParentShapes'
    BY <1>1, <1>20, <2>1, <2>2, TwoHosts DEF ParentsInv, ParentShapes, Waits
  <2>4. ToClient'
    BY <1>4, <2>1, <2>2 DEF ToClient, Gone
  <2>5. outcome'.by = "thrown"
    BY <1>20 DEF Outcome
  <2>6. Rewriting'
    BY <2>5 DEF Rewriting
  <2>7. ASSUME NEW h \in Hosts, pc'[h] \in Waits \cup {"post"}
        PROVE  Rewrites(mySet[h], oms[h])'
    <3>1. pc[h] \in Waits \cup {"post"}
      BY <1>1, <2>1, <2>7, TwoHosts DEF Waits
    <3>2. Rewrites(mySet[h], oms[h])
      BY <3>1 DEF ParentsInv
    <3> QED
      BY <1>1, <1>20, <3>2
  <2> QED
    BY <1>17, <2>1, <2>3, <2>4, <2>6, <2>7 DEF ParentsInv
<1>21. CASE /\ ~r.thrown
            /\ Goto("server", "post")
            /\ outcome' = Outcome("paired", r.pairs, left, single)
            /\ success' = [success EXCEPT !["server"] = left = {}]
            /\ oms' = [oms EXCEPT !["server"] = SetToSeq(ReWritten("server", this(r.pairs)))]
            /\ Answer("server", 1, <<[type |-> "list", list |-> that(r.pairs)],
                                     [type |-> "list", list |-> this(r.pairs)]>>)
  <2> DEFINE m == <<ListOf(that(r.pairs)), ListOf(this(r.pairs))>>
             ok == left = {}
             new == SetToSeq(ReWritten("server", this(r.pairs)))
  <2>1. Answer("server", 1, m) /\ ok \in BOOLEAN
    BY <1>21 DEF ListOf
  <2>2. /\ ParentsTypeOK' /\ ToServer'
        /\ pc'["server"] = "post" /\ pc'["client"] = pc["client"]
    <3> HIDE DEF m
    <3> QED
      BY <1>19, <1>21, <2>1
  <2>3. /\ chan'["server"] = <<>> /\ chan'["client"] = m
        /\ chan' = [h \in Hosts |-> chan'[h]]
    <3>1. <<>> \o m = m
      BY Queues
    <3> HIDE DEF m
    <3> QED
      BY <1>16, <2>1, <3>1
  <2>4. /\ oms'["server"] = new /\ oms'["client"] = oms["client"]
        /\ oms' = [h \in Hosts |-> oms'[h]]
    <3> HIDE DEF new
    <3>1. oms' = [oms EXCEPT !["server"] = new]
      BY <1>21 DEF new
    <3> QED
      BY <1>15, <3>1, TwoHosts
  <2>5. Rewrites(mine, new)
    BY <1>14, <1>17, <1>21, TwoHosts, ReWrittenIs
  <2> HIDE DEF m, new, r
  <2>6. ParentShapes'
    BY <1>1, <2>2, <2>3, <2>4, TwoHosts DEF ParentsInv, ParentShapes, Waits
  <2>7. /\ chan'["client"][1].list = that(r.pairs)
        /\ chan'["client"][2].list = this(r.pairs)
    BY <2>3 DEF m, ListOf
  <2>8. ToClient'
    BY <1>4, <1>14, <1>21, <2>2, <2>3, <2>7 DEF ToClient, Gone, m
  <2>9. ASSUME NEW h \in Hosts, pc'[h] \in Waits \cup {"post"}
        PROVE  Rewrites(mySet[h], oms[h])'
    <3>1. CASE h = "server"
      BY <1>1, <2>4, <2>5, <3>1
    <3>2. CASE h = "client"
      <4>1. Rewrites(mySet[h], oms[h])
        BY <2>2, <2>9, <3>2 DEF ParentsInv
      <4> QED
        BY <1>1, <2>4, <3>2, <4>1
    <3> QED
      BY <3>1, <3>2, TwoHosts
  <2>10. /\ outcome'.by = "paired" /\ outcome'.pairs = r.pairs /\ outcome'.left = left
         /\ outcome'.single = single
    BY <1>21 DEF Outcome
  <2>11. /\ D = DifferingChildren(theirs, mine)'
         /\ \A n \in {1, -1} : DifferBy(n)' = {c \in D : net(c) = n}
    BY <1>1, <1>7 DEF DifferBy
  <2>12. D = DifferBy(1)' \cup DifferBy(-1)'
    BY <1>1, <2>11
  <2>13. /\ A(left) = DifferBy(1)' \ left /\ B(left) = DifferBy(-1)' \ left
    BY <2>11
  <2> HIDE DEF A, B
  <2>14. Pairing(r.pairs, DifferBy(1)', DifferBy(-1)')
    BY <1>12, <1>21, <2>13 DEF Pairing, r
  <2>15. {p[2] : p \in r.pairs} \cup single = B(left)
    BY <1>12, <1>13, <1>21 DEF Pairing, r
  <2>16. ASSUME \A h \in Hosts : ~stale[h] /\ Distinct(h)
         PROVE  that(r.pairs) = NotOnThat' /\ this(r.pairs) = NotOnThis'
    <3>1. garbled = {}
      BY <1>2, <1>6, <1>17, <2>16, NothingGarbled
    <3> QED
      <4>1. \A c : ListedValue(garbled, c) = ValueIn(c) /\ ValueIn(c)' = ValueIn(c)
        BY <1>1, <3>1 DEF ListedValue, ValueIn
      <4>2. \A p : /\ Missing(p[1], ListedValue(garbled, p[1]), p[2] \ p[1])
                       = Missing(p[1], ValueIn(p[1])', p[2] \ p[1])
                    /\ Missing(p[2], ListedValue(garbled, p[2]), p[1] \ p[2])
                       = Missing(p[2], ValueIn(p[2])', p[1] \ p[2])
        BY <4>1
      <4>3. NotOnThat' = {Missing(p[1], ValueIn(p[1])', p[2] \ p[1]) : p \in r.pairs}
        BY <2>10 DEF NotOnThat
      <4>4. NotOnThis' = {Missing(p[2], ValueIn(p[2])', p[1] \ p[2]) : p \in r.pairs}
        BY <2>10 DEF NotOnThis
      <4>5. FoundThat(garbled, r.pairs) = NotOnThat'
        BY <4>2, <4>3 DEF FoundThat
      <4>6. FoundThis(garbled, r.pairs) = NotOnThis'
        BY <4>2, <4>4 DEF FoundThis
      <4> QED
        BY <1>9, <4>5, <4>6
  <2>17. ASSUME \A h \in Hosts : ~stale[h] /\ Distinct(h)
         PROVE  new = SetToSeq(ReWritten("server", NotOnThis))'
    <3>1. this(r.pairs) = NotOnThis'
      BY <2>16, <2>17
    <3> QED
      BY <1>1, <3>1 DEF new, ReWritten, ReWrite
  <2>18. Rewriting'
    <3>0. SUFFICES ASSUME \A h \in Hosts : ~stale[h] /\ Distinct(h)
                   PROVE  Rewriting'
      BY <1>1 DEF Rewriting, Distinct
    <3>1. pc'["client"] # "post"
      BY <1>4, <2>2 DEF Gone
    <3>2. DifferingChildren(mySet["client"], mySet["server"])' =
             DifferBy(1)' \cup DifferBy(-1)'
      BY <2>11, <2>12
    <3>3. Pairing(outcome.pairs, DifferBy(1), DifferBy(-1))'
      BY <2>10, <2>14
    <3>4. {p[1] : p \in outcome'.pairs} = DifferBy(1)' \ outcome'.left
      BY <1>12, <1>21, <2>10, <2>13 DEF r
    <3>5. {p[2] : p \in outcome'.pairs} \cup outcome'.single = DifferBy(-1)' \ outcome'.left
      BY <2>10, <2>13, <2>15
    <3>6. chan'["client"] = <<ListOf(NotOnThat'), ListOf(NotOnThis')>>
      BY <2>3, <2>16, <3>0 DEF m
    <3> QED
      BY <2>4, <2>17, <3>0, <3>1, <3>2, <3>3, <3>4, <3>5, <3>6 DEF Rewriting, ListOf
  <2> QED
    BY <1>17, <2>2, <2>6, <2>8, <2>9, <2>18 DEF ParentsInv
<1> QED
  BY <1>3, <1>18, <1>20, <1>21 DEF that, this

(***************************************************************************)
(* What the hosts hold after a session, when every hash finds its child.   *)
(***************************************************************************)
\* The child at place i becomes set.  What x stands for is at at[x] and becomes u[x].
\* Whatever is rewritten is rewritten for an entry of the list that brings elements.
ReWritesFor(h, m) ==
    {ReWrite(h, i, m.elems) : i \in IndexesOf(hashes[h], m.child, m.value)}
LEMMA ReWrittenFor ==
    ASSUME NEW h, NEW list, NEW y \in ReWritten(h, list)
    PROVE  \E m \in {n \in list : n.elems # {}} : y \in ReWritesFor(h, m)
<1>1. y \in UNION {ReWritesFor(h, m) : m \in {n \in list : n.elems # {}}}
  BY DEF ReWritten, ReWritesFor
<1> QED
  BY <1>1

Change(i, set) == [index |-> i, set |-> set]
Changes(P, at, u) == {Change(at[x], u[x]) : x \in P}
Becoming(P, u, c) == {x \in P : u[x] = c}

\* The rewritten children, if x stands for a child at at[x] that becomes u[x].
LEMMA ChangesAre ==
    ASSUME NEW s \in Seq(ChildSet), NEW changes, Rewrites(s, changes),
           NEW P, NEW at, NEW u, \A x, y \in P : at[x] = at[y] => x = y,
           ToSet(changes) = Changes(P, at, u), NEW c
    PROVE  /\ \A i : i \in Places(changes) <=> \E x \in P : i = at[x]
           /\ Copies(Sets(changes), c) = Cardinality(Becoming(P, u, c))
<1> DEFINE n == Len(changes)
           A == Becoming(P, u, c)
           B == PlacesOf(Sets(changes), c)
<1>1. \A x, y \in P : at[x] = at[y] => x = y
  OBVIOUS
<1>2. /\ Sets(changes) \in Seq(ChildSet) /\ Len(Sets(changes)) = n /\ n \in Nat
      /\ DOMAIN changes = 1..n
      /\ \A k \in 1..n : Sets(changes)[k] = changes[k].set
      /\ Places(changes) = {changes[k].index : k \in 1..n}
  BY RewritesIs
<1>3. \A j, k \in 1..n : changes[j].index = changes[k].index => j = k
  BY <1>2 DEF Rewrites
<1>4. /\ \A y : y \in ToSet(changes) <=> \E k \in 1..n : y = changes[k]
      /\ \A y : y \in Changes(P, at, u) <=> \E x \in P : y = Change(at[x], u[x])
  <2>1. \A y : y \in ToSet(changes) <=> \E k \in 1..n : y = changes[k]
    BY <1>2 DEF ToSet
  <2>2. \A y : y \in Changes(P, at, u) <=> \E x \in P : y = Change(at[x], u[x])
    BY DEF Changes
  <2> QED
    BY <2>1, <2>2
<1>5. \A k \in 1..n : \E x \in P : changes[k] = Change(at[x], u[x])
  BY <1>4, Zenon
<1>6. \A x \in P : \E k \in 1..n : changes[k] = Change(at[x], u[x])
  BY <1>4, Zenon
<1>7. \A i, j, a, b : /\ Change(i, a).index = i /\ Change(i, a).set = a
                      /\ Change(i, a) = Change(j, b) => i = j
  BY DEF Change
<1>8. \A i : i \in Places(changes) <=> \E x \in P : i = at[x]
  <2>1. ASSUME NEW i \in Places(changes) PROVE \E x \in P : i = at[x]
    BY <1>2, <1>5, <1>7
  <2>2. ASSUME NEW x \in P PROVE at[x] \in Places(changes)
    <3>1. PICK k \in 1..n : changes[k] = Change(at[x], u[x])
      BY <1>6
    <3>2. changes[k].index = at[x]
      BY <1>7, <3>1
    <3> QED
      BY <1>2, <3>2
  <2> QED
    BY <2>1, <2>2
<1>9. \A x : x \in A <=> x \in P /\ u[x] = c
  BY DEF Becoming
<1> HIDE DEF A
<1> DEFINE first(x) == CHOOSE j \in 1..n : changes[j] = Change(at[x], u[x])
           f == [x \in A |-> first(x)]
<1>10. \A x \in A : f[x] \in 1..n /\ changes[f[x]] = Change(at[x], u[x])
  BY <1>6, <1>9
<1> HIDE DEF first
<1> HIDE DEF f
<1>11. \A k : k \in B <=> (k \in 1..n /\ changes[k].set = c)
  <2>1. DOMAIN Sets(changes) = 1..n
    BY <1>2
  <2> QED
    BY <1>2, <2>1 DEF PlacesOf
<1>12. f \in Injection(A, B)
  <2>1. \A x \in A : f[x] \in B
    <3> SUFFICES ASSUME NEW x \in A PROVE f[x] \in B
      OBVIOUS
    <3>1. f[x] \in 1..n /\ changes[f[x]] = Change(at[x], u[x]) /\ u[x] = c
      BY <1>10, <1>9
    <3>2. changes[f[x]].set = c
      BY <1>7, <3>1
    <3> QED
      BY <1>11, <3>1, <3>2
  <2>2. \A x, y \in A : f[x] = f[y] => x = y
    <3> SUFFICES ASSUME NEW x \in A, NEW y \in A, f[x] = f[y] PROVE x = y
      OBVIOUS
    <3>1. Change(at[x], u[x]) = Change(at[y], u[y])
      BY <1>10
    <3>2. at[x] = at[y]
      BY <1>7, <3>1
    <3> QED
      BY <1>1, <1>9, <3>2
  <2>3. DOMAIN f = A /\ f = [x \in A |-> f[x]]
    BY DEF f
  <2> HIDE DEF B
  <2>4. f \in [A -> B]
    BY <2>1, <2>3
  <2> QED
    BY <2>2, <2>4 DEF Injection, IsInjective
<1>13. f \in Surjection(A, B)
  <2>1. ASSUME NEW k \in B PROVE \E x \in A : f[x] = k
    <3>1. k \in 1..n /\ changes[k].set = c
      BY <1>11
    <3>2. PICK x \in P : changes[k] = Change(at[x], u[x])
      BY <1>5, <3>1
    <3>3. x \in A
      BY <1>7, <1>9, <3>1, <3>2
    <3>4. f[x] \in 1..n /\ changes[f[x]].index = changes[k].index
      BY <1>10, <3>2, <3>3
    <3>5. f[x] = k
      BY <1>3, <3>1, <3>4
    <3> QED
      BY <3>3, <3>5
  <2>2. f \in [A -> B]
    BY <1>12 DEF Injection
  <2> HIDE DEF B
  <2> QED
    BY <2>1, <2>2 DEF Surjection
<1>14. IsFiniteSet(B) /\ Copies(Sets(changes), c) = Cardinality(B)
  BY <1>2, PlacesFinite
<1>15. Cardinality(B) = Cardinality(A)
  <2> HIDE DEF B
  <2>1. ExistsBijection(A, B)
    BY <1>12, <1>13 DEF ExistsBijection, Bijection
  <2>2. IsFiniteSet(A)
    BY <1>12, <1>14, FS_Injection
  <2> QED
    BY <2>1, <2>2, FS_Bijection
<1> HIDE DEF B
<1>16. Copies(Sets(changes), c) = Cardinality(A)
  BY <1>14, <1>15
<1> QED
  BY <1>8, <1>16, Zenon DEF A

\* Pairs, each of which stands for a child own[x] of one host and oth[x] of the other.
Owns(P, own) == {own[x] : x \in P}
Wanted(P, own, oth, v) == {Missing(own[x], v[x], oth[x] \ own[x]) : x \in P}
Joined(P, own, oth, c) == {x \in P : own[x] \cup oth[x] = c}

\* What a host that is to rewrite its children knows of the pairs: v[x] is the value of
\* own[x], and no child is in two pairs.
Posting(h, P, own, oth, v) ==
    /\ Sound(Parent(h)) /\ ~stale[h] /\ Distinct(h) /\ Len(mySet[h]) <= MaxChildren
    /\ IsFiniteSet(P) /\ own \in [P -> ToSet(mySet[h])] /\ oth \in [P -> ChildSet]
    /\ \A x, y \in P : own[x] = own[y] => x = y
    /\ \A x \in P : \A i \in DOMAIN mySet[h] :
          mySet[h][i] = own[x] => v[x] = {hashes[h][i].again}
    /\ oms[h] = SetToSeq(ReWritten(h, Wanted(P, own, oth, v)))
    /\ Rewrites(mySet[h], oms[h])

\* The children of that host after the session: those that are in no pair, and the union
\* of each pair.
LEMMA PostedIs ==
    ASSUME NEW h \in Hosts, NEW P, NEW own, NEW oth, NEW v, Posting(h, P, own, oth, v),
           NEW c \in ChildSet
    PROVE  Copies(Posted(h), c) =
              Cardinality(({c} \cap ToSet(mySet[h])) \ Owns(P, own)) +
              Cardinality(Joined(P, own, oth, c))
<1>1. /\ Sound(Parent(h)) /\ ~stale[h] /\ Distinct(h) /\ Len(mySet[h]) <= MaxChildren
      /\ IsFiniteSet(P) /\ own \in [P -> ToSet(mySet[h])] /\ oth \in [P -> ChildSet]
      /\ \A x, y \in P : own[x] = own[y] => x = y
      /\ \A x \in P : \A i \in DOMAIN mySet[h] :
            mySet[h][i] = own[x] => v[x] = {hashes[h][i].again}
      /\ oms[h] = SetToSeq(ReWritten(h, Wanted(P, own, oth, v)))
      /\ Rewrites(mySet[h], oms[h])
  BY Zenon DEF Posting
<1> USE <1>1
<1> DEFINE s == mySet[h]
           hs == hashes[h]
           at == [x \in P |-> CHOOSE i \in DOMAIN s : s[i] = own[x]]
           Q == {x \in P : ~(oth[x] \subseteq own[x])}
           u == [x \in P |-> own[x] \cup oth[x]]
           W == Changes(Q, at, u)
           L == {Missing(own[x], v[x], oth[x] \ own[x]) : x \in P}
           K == Kept(s, Places(oms[h]), c)
           U == {x \in Q : own[x] \cup oth[x] = c}
           V == {x \in P \ Q : own[x] \cup oth[x] = c}
           C == ({c} \cap ToSet(s)) \ {own[x] : x \in P}
<1>2. /\ s \in Seq(ChildSet) /\ hs \in Seq(HashOf) /\ DOMAIN hs = DOMAIN s
      /\ DOMAIN s = 1..Len(s) /\ Len(s) \in Nat
      /\ \A i \in DOMAIN s : hs[i].child = s[i]
      /\ \A i, j \in DOMAIN s : s[i] = s[j] => i = j
      /\ \A i \in DOMAIN s : s[i] \in ChildSet
  <2>1. s \in Seq(ChildSet) /\ hs \in Seq(HashOf) /\ Len(hs) = Len(s)
    BY ParentIs DEF Sound
  <2>2. \A i \in DOMAIN s : hs[i].child = s[i]
    BY ParentIs DEF Sound, InPlace
  <2>3. \A i, j \in DOMAIN s : s[i] = s[j] => i = j
    BY DEF Distinct, IsInjective
  <2> QED
    BY <2>1, <2>2, <2>3, ElementOfSeq
<1>3. \A x \in P : at[x] \in DOMAIN s /\ s[at[x]] = own[x]
  BY DEF ToSet
<1>4. \A x \in P : own[x] \in ChildSet /\ oth[x] \in ChildSet /\ v[x] = {hs[at[x]].again}
  <2>1. \A x \in P : s[at[x]] = own[x] => v[x] = {hs[at[x]].again}
    BY <1>3
  <2> HIDE DEF at
  <2> QED
    BY <1>2, <1>3, <2>1
<1>5. at \in [P -> DOMAIN s]
  <2>1. DOMAIN at = P /\ at = [x \in P |-> at[x]]
    OBVIOUS
  <2> HIDE DEF at
  <2> QED
    BY <1>3, <2>1
<1> HIDE DEF at
<1>6. \A x, y \in P : at[x] = at[y] => x = y
  <2> SUFFICES ASSUME NEW x \in P, NEW y \in P, at[x] = at[y] PROVE x = y
    OBVIOUS
  <2>1. own[x] = own[y]
    BY <1>3
  <2> QED
    BY <2>1
<1>7. ASSUME NEW x \in P
      PROVE  IndexesOf(hs, own[x], v[x]) = {at[x]}
  <2>1. hs[at[x]].child = own[x] /\ at[x] \in DOMAIN hs /\ v[x] = {hs[at[x]].again}
    BY <1>2, <1>3, <1>4
  <2>2. \A i \in DOMAIN hs : hs[i].child = own[x] => i = at[x]
    BY <1>2, <1>3
  <2> QED
    BY <2>1, <2>2 DEF IndexesOf
<1>8. ReWritten(h, L) = W
  <2>1. \A y : y \in W <=> \E x \in Q : y = Change(at[x], own[x] \cup oth[x])
    <3>1. \A x \in Q : u[x] = own[x] \cup oth[x]
      OBVIOUS
    <3> HIDE DEF u, Q
    <3>2. ASSUME NEW y \in W
          PROVE  \E x \in Q : y = Change(at[x], own[x] \cup oth[x])
      <4>1. PICK x \in Q : y = Change(at[x], u[x])
        BY DEF Changes
      <4>2. y = Change(at[x], own[x] \cup oth[x])
        BY <3>1, <4>1
      <4> QED
        BY <4>2
    <3>3. ASSUME NEW x \in Q
          PROVE  Change(at[x], own[x] \cup oth[x]) \in W
      <4>1. Change(at[x], u[x]) \in W
        BY DEF Changes
      <4> QED
        BY <3>1, <4>1
    <3> HIDE DEF W
    <3>4. ASSUME NEW y
          PROVE  y \in W <=> \E x \in Q : y = Change(at[x], own[x] \cup oth[x])
      <4>1. ASSUME NEW x \in Q, y = Change(at[x], own[x] \cup oth[x])
            PROVE  y \in W
        BY <3>3, <4>1, Zenon
      <4>2. y \in W => \E x \in Q : y = Change(at[x], own[x] \cup oth[x])
        BY <3>2, Zenon
      <4> QED
        BY <4>1, <4>2, Zenon
    <3> QED
      BY <3>4, Zenon
  <2> HIDE DEF W
  <2>2. \A x \in P : /\ Missing(own[x], v[x], oth[x] \ own[x]).child = own[x]
                     /\ Missing(own[x], v[x], oth[x] \ own[x]).value = v[x]
                     /\ Missing(own[x], v[x], oth[x] \ own[x]).elems = oth[x] \ own[x]
    BY DEF Missing
  <2>3. \A x \in P : ReWrite(h, at[x], oth[x] \ own[x]) = Change(at[x], own[x] \cup oth[x])
    BY <1>3 DEF ReWrite, Change
  <2>4. \A x \in P : x \in Q <=> oth[x] \ own[x] # {}
    OBVIOUS
  <2>5. ASSUME NEW y \in ReWritten(h, L)
        PROVE  y \in W
    <3>1. PICK m \in {n \in L : n.elems # {}} : y \in ReWritesFor(h, m)
      <4> HIDE DEF L
      <4> QED
        BY ReWrittenFor, Zenon
    <3>2. PICK x \in P : m = Missing(own[x], v[x], oth[x] \ own[x])
      BY <3>1
    <3>3. m.elems = oth[x] \ own[x] /\ IndexesOf(hs, m.child, m.value) = {at[x]}
      BY <1>7, <2>2, <3>2
    <3>4. m.elems # {}
      BY <3>1
    <3>5. y = ReWrite(h, at[x], oth[x] \ own[x])
      <4> HIDE DEF L
      <4> QED
        BY <3>1, <3>3 DEF ReWritesFor
    <3>6. y = Change(at[x], own[x] \cup oth[x]) /\ x \in Q
      BY <2>3, <2>4, <3>3, <3>4, <3>5
    <3> QED
      BY <2>1, <3>6
  <2>6. ASSUME NEW y \in W
        PROVE  y \in ReWritten(h, L)
    <3>1. PICK x \in Q : y = Change(at[x], own[x] \cup oth[x])
      BY <2>1
    <3> DEFINE m == Missing(own[x], v[x], oth[x] \ own[x])
    <3>2. m \in L
      BY <3>1
    <3>3. /\ m.elems = oth[x] \ own[x] /\ m.elems # {}
          /\ IndexesOf(hs, m.child, m.value) = {at[x]}
      BY <1>7, <2>2, <2>4, <3>1
    <3>4. y = ReWrite(h, at[x], m.elems)
      BY <2>3, <3>1, <3>3
    <3> HIDE DEF m, L
    <3>5. y \in {ReWrite(h, i, m.elems) : i \in IndexesOf(hs, m.child, m.value)}
      BY <3>3, <3>4
    <3>6. m \in {n \in L : n.elems # {}}
      BY <3>2, <3>3
    <3> QED
      <4> DEFINE M == {n \in L : n.elems # {}}
                 F(n) == {ReWrite(h, i, n.elems) : i \in IndexesOf(hs, n.child, n.value)}
      <4>1. ReWritten(h, L) = UNION {F(n) : n \in M}
        BY Zenon DEF ReWritten
      <4>2. m \in M /\ y \in F(m)
        BY <3>5, <3>6
      <4> HIDE DEF M, F
      <4> QED
        BY <4>1, <4>2
  <2> QED
    BY <2>5, <2>6
<1>9. /\ \A i : i \in Places(oms[h]) <=> \E x \in Q : i = at[x]
      /\ Copies(Sets(oms[h]), c) = Cardinality(U)
  <2> DEFINE t == s
             changes == oms[h]
             g == [x \in Q |-> Change(at[x], u[x])]
  <2>1. t \in Seq(ChildSet) /\ Rewrites(t, changes)
    BY <1>2
  <2>2. \A x, y \in Q : at[x] = at[y] => x = y
    BY <1>6
  <2>3. IsFiniteSet(Q)
    BY FS_Subset
  <2>4. changes = SetToSeq(W)
    <3>1. L = Wanted(P, own, oth, v)
      BY Zenon DEF Wanted
    <3> HIDE DEF W, L
    <3> QED
      BY <1>8, <3>1
  <2>5. U = Becoming(Q, u, c)
    BY DEF Becoming
  <2>6. W = {Change(at[x], u[x]) : x \in Q}
    BY Zenon DEF Changes
  <2>7. DOMAIN g = Q /\ g = [x \in Q |-> g[x]] /\ W = {g[x] : x \in Q}
    <3> HIDE DEF W, Q, u
    <3> QED
      BY <2>6
  <2> HIDE DEF t, changes, g, W, Q, u, U, L
  <2>8. IsFiniteSet(W)
    BY <2>3, <2>7, ImageIs
  <2>9. ToSet(changes) = Changes(Q, at, u)
    <3>1. ToSet(changes) = W
      BY <2>4, <2>8, SetToSeqIs
    <3> QED
      BY <3>1, Zenon DEF W
  <2>10. /\ \A i : i \in Places(changes) <=> \E x \in Q : i = at[x]
         /\ Copies(Sets(changes), c) = Cardinality(Becoming(Q, u, c))
    BY <2>1, <2>2, <2>9, ChangesAre
  <2> QED
    BY <2>5, <2>10, Zenon DEF changes
<1>10. Copies(Posted(h), c) = Cardinality(K) + Copies(Sets(oms[h]), c)
  BY PostProcessedIs, ParentIs DEF Posted
<1>11. \A i : i \in K <=> /\ i \in DOMAIN s /\ s[i] = c
                          /\ \A x \in Q : at[x] # i
  BY <1>9 DEF Kept
<1>12. /\ IsFiniteSet(U) /\ IsFiniteSet(V) /\ U \cap V = {}
       /\ Cardinality(U) \in Nat /\ Cardinality(V) \in Nat
       /\ U \cup V = {x \in P : own[x] \cup oth[x] = c}
  <2>1. IsFiniteSet(U) /\ IsFiniteSet(V)
    BY FS_Subset
  <2> QED
    BY <2>1, FS_CardinalityType
<1>13. Cardinality({x \in P : own[x] \cup oth[x] = c}) = Cardinality(U) + Cardinality(V)
  <2> DEFINE T == {x \in P : own[x] \cup oth[x] = c}
  <2>1. U \cup V = T
    BY <1>12
  <2> HIDE DEF U, V, T
  <2>2. Cardinality(U \cup V) = Cardinality(U) + Cardinality(V) - Cardinality(U \cap V)
    BY <1>12, FS_Union
  <2>3. Cardinality(U \cap V) = 0
    BY <1>12, FS_EmptySet
  <2>4. Cardinality(U) \in Nat /\ Cardinality(V) \in Nat
    BY <1>12
  <2>5. Cardinality(U \cup V) = Cardinality(U) + Cardinality(V)
    BY <2>2, <2>3, <2>4
  <2>6. Cardinality(T) = Cardinality(U) + Cardinality(V)
    BY <2>1, <2>5, Zenon
  <2> QED
    BY <2>6 DEF T
<1>14. /\ \A x : x \in V <=> x \in P /\ x \notin Q /\ own[x] = c
       /\ \A d : d \in C <=> d = c /\ c \in ToSet(s) /\ \A x \in P : own[x] # c
       /\ \A x \in Q : x \in P
  <2>1. \A x : x \in V <=> x \in P /\ x \notin Q /\ own[x] = c
    <3>1. \A x \in P : x \notin Q => own[x] \cup oth[x] = own[x]
      OBVIOUS
    <3> HIDE DEF Q
    <3> QED
      BY <3>1
  <2>2. \A d : d \in C <=> d = c /\ c \in ToSet(s) /\ \A x \in P : own[x] # c
    OBVIOUS
  <2> QED
    BY <2>1, <2>2
<1>15. Cardinality(K) = Cardinality(C) + Cardinality(V)
  <2> HIDE DEF K, C, V, Q
  <2>1. CASE c \notin ToSet(s)
    <3>1. K = {}
      BY <1>11, <2>1 DEF ToSet
    <3>2. C = {}
      BY <1>14, <2>1
    <3>3. V = {}
      BY <1>14, <2>1
    <3> QED
      BY <3>1, <3>2, <3>3, FS_EmptySet
  <2>2. CASE c \in ToSet(s) /\ \A x \in P : own[x] # c
    <3>1. PICK i \in DOMAIN s : s[i] = c
      BY <2>2 DEF ToSet
    <3>2. \A x \in Q : at[x] # i
      BY <1>3, <1>14, <2>2, <3>1
    <3>3. K = {i}
      BY <1>2, <1>11, <3>1, <3>2
    <3>4. C = {c}
      BY <1>14, <2>2
    <3>5. V = {}
      BY <1>14, <2>2
    <3>6. Cardinality({i}) = 1 /\ Cardinality({c}) = 1 /\ Cardinality({}) = 0
      BY FS_EmptySet, FS_Singleton, Zenon
    <3> QED
      BY <3>3, <3>4, <3>5, <3>6
  <2>3. ASSUME NEW x \in P, own[x] = c
        PROVE  Cardinality(K) = Cardinality(C) + Cardinality(V)
    <3>1. at[x] \in DOMAIN s /\ s[at[x]] = c
      BY <1>3, <2>3
    <3>2. C = {}
      BY <1>14, <2>3
    <3>3. \A y \in P : own[y] = c => y = x
      BY <2>3
    <3>4. CASE x \in Q
      <4>1. K = {}
        <5>1. ASSUME NEW i \in K PROVE FALSE
          BY <1>2, <1>11, <3>1, <3>4
        <5> QED
          BY <5>1
      <4>2. V = {}
        BY <1>14, <3>3, <3>4
      <4> QED
        BY <3>2, <4>1, <4>2, FS_EmptySet
    <3>5. CASE x \notin Q
      <4>1. at[x] \in K
        <5>1. \A y \in Q : at[y] # at[x]
          BY <1>6, <1>14, <2>3, <3>5
        <5> QED
          BY <1>11, <3>1, <5>1
      <4>2. K = {at[x]}
        BY <1>2, <1>11, <3>1, <4>1
      <4>3. V = {x}
        BY <1>14, <2>3, <3>3, <3>5
      <4>4. Cardinality({at[x]}) = 1 /\ Cardinality({x}) = 1 /\ Cardinality({}) = 0
        BY FS_EmptySet, FS_Singleton, Zenon
      <4> QED
        BY <3>2, <4>2, <4>3, <4>4
    <3> QED
      BY <3>4, <3>5
  <2> QED
    BY <2>1, <2>2, <2>3
<1>16. Cardinality(C) \in Nat
  <2>1. C \subseteq {c} /\ IsFiniteSet({c})
    BY FS_Singleton
  <2> HIDE DEF C
  <2> QED
    BY <2>1, FS_Subset, FS_CardinalityType
<1> HIDE DEF K, U, V, C
<1>17. Copies(Posted(h), c) =
          Cardinality(C) + Cardinality({x \in P : own[x] \cup oth[x] = c})
  BY <1>9, <1>10, <1>12, <1>13, <1>15, <1>16
<1> QED
  BY <1>17, Zenon DEF C, Owns, Joined

\* The value of a child that only one of two aligned parents holds, and once, is the
\* number of its hash.
LEMMA ValueOfOne ==
    ASSUME NEW p, Sound(p), ~p.stale, NEW q, Sound(q), ~q.stale,
           IsInjective(p.mySet), NEW i \in DOMAIN p.mySet,
           p.mySet[i] \notin ToSet(q.mySet)
    PROVE  /\ ValueOf(p.hashes, q.hashes, p.mySet[i]) = {p.hashes[i].again}
           /\ ValueOf(q.hashes, p.hashes, p.mySet[i]) = {p.hashes[i].again}
<1> DEFINE c == p.mySet[i]
           agains(hs) == {x.again : x \in {y \in ToSet(hs) : y.child = c}}
<1>1. /\ DOMAIN p.hashes = DOMAIN p.mySet /\ DOMAIN q.hashes = DOMAIN q.mySet
      /\ \A j \in DOMAIN p.mySet : p.hashes[j].child = p.mySet[j]
      /\ \A j \in DOMAIN q.mySet : q.hashes[j].child = q.mySet[j]
  BY DEF Sound, InPlace
<1>2. agains(p.hashes) = {p.hashes[i].again}
  <2>1. {y \in ToSet(p.hashes) : y.child = c} = {p.hashes[i]}
    BY <1>1 DEF ToSet, IsInjective
  <2> QED
    BY <2>1
<1>3. agains(q.hashes) = {}
  <2>1. {y \in ToSet(q.hashes) : y.child = c} = {}
    BY <1>1 DEF ToSet
  <2> QED
    BY <2>1
<1>4. /\ ValueOf(p.hashes, q.hashes, c) = SymDiff(agains(p.hashes), agains(q.hashes))
      /\ ValueOf(q.hashes, p.hashes, c) = SymDiff(agains(q.hashes), agains(p.hashes))
  BY DEF ValueOf
<1> HIDE DEF agains
<1> QED
  BY <1>2, <1>3, <1>4 DEF SymDiff

\* When the hosts hold no child twice, those that only one of them holds are the ones
\* that differ, and every other child of one host is one of the other as well.
LEMMA DifferingAre ==
    ASSUME ParentsInv, \A h \in Hosts : Distinct(h)
    PROVE  /\ DifferBy(1) = ToSet(mySet["client"]) \ ToSet(mySet["server"])
           /\ DifferBy(-1) = ToSet(mySet["server"]) \ ToSet(mySet["client"])
<1> DEFINE s == mySet["client"]
           t == mySet["server"]
<1>1. s \in Seq(ChildSet) /\ t \in Seq(ChildSet) /\ IsInjective(s) /\ IsInjective(t)
  BY TwoHosts DEF ParentsInv, ParentsTypeOK, ChildSet, Distinct
<1> HIDE DEF s, t
<1>2. \A c : /\ Copies(s, c) = IF c \in ToSet(s) THEN 1 ELSE 0
             /\ Copies(t, c) = IF c \in ToSet(t) THEN 1 ELSE 0
  BY <1>1, DistinctCopies
<1>3. \A c : Surplus(s, t, c) = (IF c \in ToSet(s) THEN 1 ELSE 0)
                                   - (IF c \in ToSet(t) THEN 1 ELSE 0)
  BY <1>2, Zenon DEF Surplus
<1>4. \A n, c : c \in DifferBy(n) <=> /\ c \in ToSet(s) \cup ToSet(t)
                                        /\ Surplus(s, t, c) # 0 /\ Surplus(s, t, c) = n
  BY DEF DifferBy, DifferingChildren, Children, s, t
<1>5. ToSet(s) \ ToSet(t) = DifferBy(1)
  BY <1>3, <1>4
<1>6. ToSet(t) \ ToSet(s) = DifferBy(-1)
  BY <1>3, <1>4
<1> QED
  BY <1>5, <1>6 DEF s, t

\* One host after a session in which all children that differ are paired.
LEMMA PostedUnions ==
    ASSUME ParentsInv, \A h \in Hosts : pc[h] = "post" /\ ~stale[h],
           \A h \in Hosts : Distinct(h),
           outcome.by = "paired", outcome.left = {}, outcome.single = {},
           NEW c \in ChildSet
    PROVE  LET common == ToSet(mySet["client"]) \cap ToSet(mySet["server"])
               unions == {p \in outcome.pairs : p[1] \cup p[2] = c}
           IN  \A h \in Hosts :
                  Copies(Posted(h), c) =
                     Cardinality({c} \cap common) + Cardinality(unions)
<1> DEFINE s == mySet["client"]
           t == mySet["server"]
           P == outcome.pairs
           S == ToSet(s)
           T == ToSet(t)
           unions == {p \in P : p[1] \cup p[2] = c}
           one == [p \in P |-> p[1]]
           two == [p \in P |-> p[2]]
           v1 == [p \in P |-> ValueIn(p[1])]
           v2 == [p \in P |-> ValueIn(p[2])]
<1>1. /\ Pairing(P, S \ T, T \ S)
      /\ {p[1] : p \in P} = S \ T /\ {p[2] : p \in P} = T \ S
      /\ oms["server"] = SetToSeq(ReWritten("server", NotOnThis))
      /\ oms["client"] = SetToSeq(ReWritten("client", NotOnThat))
  <2>1. pc["client"] = "post" /\ pc["server"] = "post"
    BY TwoHosts
  <2>2. /\ Pairing(P, DifferBy(1), DifferBy(-1))
        /\ {p[1] : p \in P} = DifferBy(1) \ {}
        /\ {p[2] : p \in P} \cup {} = DifferBy(-1) \ {}
        /\ oms["server"] = SetToSeq(ReWritten("server", NotOnThis))
        /\ oms["client"] = SetToSeq(ReWritten("client", NotOnThat))
    BY <2>1 DEF ParentsInv, Rewriting
  <2> QED
    BY <2>2, DifferingAre
<1>2. \A h \in Hosts : /\ Sound(Parent(h)) /\ Rewrites(mySet[h], oms[h])
                       /\ Len(mySet[h]) <= MaxChildren /\ ~stale[h] /\ Distinct(h)
  BY DEF ParentsInv, ParentsTypeOK
<1>3. /\ s \in Seq(ChildSet) /\ t \in Seq(ChildSet)
      /\ S \subseteq ChildSet /\ T \subseteq ChildSet
  <2>1. s \in Seq(ChildSet) /\ t \in Seq(ChildSet)
    BY TwoHosts DEF ParentsInv, ParentsTypeOK, ChildSet
  <2> QED
    BY <2>1, ElementOfSeq DEF ToSet
<1>4. /\ \A p \in P : p[1] \in S \ T /\ p[2] \in T \ S
      /\ \A p, q \in P : p[1] = q[1] \/ p[2] = q[2] => p = q
      /\ IsFiniteSet(P)
  BY <1>1 DEF Pairing
<1>5. /\ \A i \in DOMAIN s : s[i] \in S \ T => ValueIn(s[i]) = {hashes["client"][i].again}
      /\ \A i \in DOMAIN t : t[i] \in T \ S => ValueIn(t[i]) = {hashes["server"][i].again}
  <2> DEFINE a == Parent("client")
             b == Parent("server")
  <2>1. /\ a.mySet = s /\ a.hashes = hashes["client"] /\ ~a.stale /\ Sound(a)
        /\ b.mySet = t /\ b.hashes = hashes["server"] /\ ~b.stale /\ Sound(b)
        /\ IsInjective(s) /\ IsInjective(t)
    BY <1>2, ParentIs, TwoHosts DEF Distinct
  <2> HIDE DEF a, b
  <2>2. ASSUME NEW i \in DOMAIN s, s[i] \in S \ T
        PROVE  ValueIn(s[i]) = {hashes["client"][i].again}
    <3>1. ValueOf(a.hashes, b.hashes, a.mySet[i]) = {a.hashes[i].again}
      BY <2>1, <2>2, ValueOfOne
    <3> QED
      BY <2>1, <3>1 DEF ValueIn
  <2>3. ASSUME NEW i \in DOMAIN t, t[i] \in T \ S
        PROVE  ValueIn(t[i]) = {hashes["server"][i].again}
    <3>1. ValueOf(a.hashes, b.hashes, b.mySet[i]) = {b.hashes[i].again}
      BY <2>1, <2>3, ValueOfOne
    <3> QED
      BY <2>1, <3>1 DEF ValueIn
  <2> QED
    BY <2>2, <2>3
<1>6. /\ NotOnThat = Wanted(P, one, two, v1)
      /\ NotOnThis = Wanted(P, two, one, v2)
  <2>1. \A p \in P : /\ one[p] = p[1] /\ two[p] = p[2]
                     /\ v1[p] = ValueIn(p[1]) /\ v2[p] = ValueIn(p[2])
    OBVIOUS
  <2> HIDE DEF one, two, v1, v2
  <2>2. \A p \in P : /\ Missing(one[p], v1[p], two[p] \ one[p])
                           = Missing(p[1], ValueIn(p[1]), p[2] \ p[1])
                     /\ Missing(two[p], v2[p], one[p] \ two[p])
                           = Missing(p[2], ValueIn(p[2]), p[1] \ p[2])
    BY <2>1
  <2> QED
    BY <2>2 DEF NotOnThat, NotOnThis, Wanted
<1>7. /\ one \in [P -> S] /\ two \in [P -> T]
      /\ one \in [P -> ChildSet] /\ two \in [P -> ChildSet]
      /\ \A p, q \in P : one[p] = one[q] => p = q
      /\ \A p, q \in P : two[p] = two[q] => p = q
      /\ Owns(P, one) = S \ T /\ Owns(P, two) = T \ S
      /\ Joined(P, one, two, c) = unions /\ Joined(P, two, one, c) = unions
  <2>1. \A p \in P : one[p] = p[1] /\ two[p] = p[2]
    OBVIOUS
  <2>2. /\ DOMAIN one = P /\ one = [p \in P |-> one[p]]
        /\ DOMAIN two = P /\ two = [p \in P |-> two[p]]
    OBVIOUS
  <2> HIDE DEF S, T, one, two
  <2>3. /\ one \in [P -> S] /\ two \in [P -> T]
        /\ one \in [P -> ChildSet] /\ two \in [P -> ChildSet]
    <3>1. \A p \in P : one[p] \in S /\ two[p] \in T
      BY <1>4, <2>1
    <3>2. one \in [P -> S] /\ two \in [P -> T]
      BY <2>2, <3>1
    <3>3. \A p \in P : one[p] \in ChildSet /\ two[p] \in ChildSet
      BY <1>3, <3>1
    <3>4. one \in [P -> ChildSet] /\ two \in [P -> ChildSet]
      BY <2>2, <3>3
    <3> QED
      BY <3>2, <3>4
  <2>4. /\ \A p, q \in P : one[p] = one[q] => p = q
        /\ \A p, q \in P : two[p] = two[q] => p = q
    BY <1>4, <2>1
  <2>5. /\ Owns(P, one) = {p[1] : p \in P}
        /\ Owns(P, two) = {p[2] : p \in P}
    BY <2>1 DEF Owns
  <2>6. /\ Joined(P, one, two, c) = unions
        /\ Joined(P, two, one, c) = unions
    BY <2>1 DEF Joined
  <2> QED
    BY <1>1, <2>3, <2>4, <2>5, <2>6
<1>8. /\ \A p \in P : \A i \in DOMAIN s :
            s[i] = one[p] => v1[p] = {hashes["client"][i].again}
      /\ \A p \in P : \A i \in DOMAIN t :
            t[i] = two[p] => v2[p] = {hashes["server"][i].again}
  <2> HIDE DEF S, T
  <2> QED
    BY <1>4, <1>5
<1> HIDE DEF one, two, v1, v2
<1>9. Copies(Posted("client"), c) =
         Cardinality(({c} \cap S) \ Owns(P, one)) +
         Cardinality(Joined(P, one, two, c))
  <2> DEFINE h == "client"
  <2>1. h \in Hosts
    BY TwoHosts
  <2>2. Posting(h, P, one, two, v1)
    BY <1>1, <1>2, <1>4, <1>6, <1>7, <1>8, TwoHosts, Zenon DEF Posting
  <2> QED
    BY <2>1, <2>2, PostedIs
<1>10. Copies(Posted("server"), c) =
         Cardinality(({c} \cap T) \ Owns(P, two)) +
         Cardinality(Joined(P, two, one, c))
  <2> DEFINE h == "server"
  <2>1. h \in Hosts
    BY TwoHosts
  <2>2. Posting(h, P, two, one, v2)
    BY <1>1, <1>2, <1>4, <1>6, <1>7, <1>8, TwoHosts, Zenon DEF Posting
  <2> QED
    BY <2>1, <2>2, PostedIs
<1>11. /\ ({c} \cap S) \ (S \ T) = {c} \cap (S \cap T)
       /\ ({c} \cap T) \ (T \ S) = {c} \cap (S \cap T)
  BY Zenon
<1>12. \A h \in Hosts : Copies(Posted(h), c) =
          Cardinality({c} \cap (S \cap T)) + Cardinality(unions)
  BY <1>7, <1>9, <1>10, <1>11, TwoHosts
<1> QED
  BY <1>12

(***************************************************************************)
(* The theorems.                                                           *)
(***************************************************************************)

\* Every step preserves the invariant.
LEMMA ParentsInvStep ==
    ParentsInv /\ [ParentsNext]_parentVars => ParentsInv'
<1> SUFFICES ASSUME ParentsInv, [ParentsNext]_parentVars PROVE ParentsInv'
  OBVIOUS
<1>1. ASSUME NEW h \in Hosts, HostStep(h)
      PROVE  ParentsInv'
  <2>1. CASE Connect
    BY <2>1, ConnectInv
  <2>2. CASE ClientFlag
    BY <2>2, ClientFlagInv
  <2>3. CASE ClientLists
    BY <2>3, ClientListsInv
  <2>4. CASE ServerParams
    BY <2>4, ServerParamsInv
  <2>5. CASE ServerTable
    BY <2>5, ServerTableInv
  <2>6. CASE DoubledChild
    BY <2>6, StopInv, TwoHosts DEF DoubledChild
  <2>7. CASE PostProcess(h)
    BY <2>7, PostProcessInv
  <2>8. CASE PeerGone(h)
    BY <2>8, StopInv DEF PeerGone, Gone
  <2> QED
    BY <1>1, <2>1, <2>2, <2>3, <2>4, <2>5, <2>6, <2>7, <2>8 DEF HostStep
<1>2. ASSUME NEW h \in Hosts, Crash(h)
      PROVE  ParentsInv'
  BY <1>2, StopInv DEF Crash, Gone
<1>3. ASSUME NEW h \in Hosts,
             \/ \E c \in Child : AddElem(h, c)
             \/ \E i \in DOMAIN mySet[h] : DelElem(h, i)
      PROVE  ParentsInv'
  BY <1>3, UpdateInv
<1>4. ASSUME UNCHANGED parentVars
      PROVE  ParentsInv'
  <2>1. UNCHANGED <<size, mySet, hashes, pc, chan, session, oms, success, outcome,
                    stale, updates>>
    BY <1>4 DEF parentVars
  <2>2. \A h \in Hosts : Sound(Parent(h))'
    BY <2>1, SameParents DEF ParentsInv
  <2>3. ParentsTypeOK' /\ ParentShapes'
    BY <2>1 DEF ParentsInv, ParentsTypeOK, ParentShapes
  <2>4. \A h \in Hosts : pc'[h] \in Waits \cup {"post"} => Rewrites(mySet[h], oms[h])'
    BY <2>1 DEF ParentsInv
  <2>5. TableOf("client")' = TableOf("client")
    BY <2>1 DEF TableOf
  <2>6. ToClient' /\ ToServer'
    BY <2>1, <2>5 DEF ParentsInv, ToClient, ToServer
  <2>7. Rewriting'
    BY <2>1 DEF ParentsInv, Rewriting, NotOnThat, NotOnThis, ValueIn, DifferBy, ReWritten,
                ReWrite, Distinct
  <2> QED
    BY <2>2, <2>3, <2>4, <2>6, <2>7 DEF ParentsInv
<1> QED
  BY <1>1, <1>2, <1>3, <1>4 DEF ParentsNext

\* The invariant holds in every state.
LEMMA ParentsInvariant ==
    ParentsSpec => []ParentsInv
<1> QED
  BY ParentsInvInit, ParentsInvStep, PTL DEF ParentsSpec

\* The parents, the program counters and the results have their types, there are as
\* many hashes as children, and never more children than the bound.
THEOREM ParentsTypeCorrect ==
    ParentsSpec => []ParentsTypeOK
<1>1. ParentsInv => ParentsTypeOK
  BY DEF ParentsInv
<1> QED
  BY <1>1, ParentsInvariant, PTL

\* Until a copy of a child is deleted while another is held, the i-th hash is that of
\* the i-th child, through additions, deletions and the post-processing.
THEOREM HashesAligned ==
    ParentsSpec => []Aligned
<1>1. ASSUME ParentsInv PROVE Aligned
  <2> SUFFICES ASSUME NEW h \in Hosts, ~stale[h], NEW i \in DOMAIN mySet[h]
               PROVE  hashes[h][i].child = mySet[h][i]
    BY DEF Aligned
  <2>1. Sound(Parent(h))
    BY <1>1 DEF ParentsInv
  <2> QED
    BY <2>1, ParentIs DEF Sound, InPlace
<1> QED
  BY <1>1, ParentsInvariant, PTL

\* No session loses a child or an element of one: the post-processing of any lists that
\* a host can have received leaves as many children, and each old one is in a new one.
THEOREM ChildrenOnlyGrow ==
    ParentsSpec => NothingLost
<1>1. ASSUME ParentsInv, NEW h \in Hosts, PostProcess(h)
      PROVE  /\ Len(mySet'[h]) = Len(mySet[h])
             /\ \A c \in ToSet(mySet[h]) : \E d \in ToSet(mySet'[h]) : c \subseteq d
  <2>1. /\ mySet'[h] = PostProcessed(Parent(h), oms[h]).mySet
        /\ Len(mySet'[h]) = Len(mySet[h])
    BY <1>1, PostProcessInv
  <2>2. Sound(Parent(h)) /\ Rewrites(mySet[h], oms[h]) /\ Len(mySet[h]) <= MaxChildren
    BY <1>1 DEF ParentsInv, ParentsTypeOK, PostProcess
  <2>3. \A c \in ToSet(mySet[h]) :
           \E d \in ToSet(PostProcessed(Parent(h), oms[h]).mySet) : c \subseteq d
    BY <2>2, KeptOrGrown, ParentIs
  <2> QED
    BY <2>1, <2>3
<1>2. ParentsInv =>
        [\A h \in Hosts : PostProcess(h) =>
           /\ Len(mySet'[h]) = Len(mySet[h])
           /\ \A c \in ToSet(mySet[h]) :
                 \E d \in ToSet(mySet'[h]) : c \subseteq d]_parentVars
  BY <1>1
<1> QED
  BY <1>2, ParentsInvariant, PTL DEF NothingLost

\* Two hosts whose differing children were all listed and paired end the session with the
\* same children, each as often, in whatever order the lists were and the pairs found.
THEOREM HostsConverge ==
    ParentsSpec => []Converges
<1>1. ASSUME ParentsInv PROVE Converges
  <2> SUFFICES ASSUME \A h \in Hosts : pc[h] = "post" /\ ~stale[h],
                      \A h \in Hosts : Distinct(h),
                      outcome.by = "paired", outcome.left = {}, outcome.single = {},
                      NEW c \in ToSet(Posted("client")) \cup ToSet(Posted("server"))
               PROVE  Surplus(Posted("client"), Posted("server"), c) = 0
    BY DEF Converges
  <2>1. ASSUME NEW h \in Hosts
        PROVE  Posted(h) \in Seq(ChildSet)
    <3>1. Sound(Parent(h)) /\ Rewrites(mySet[h], oms[h]) /\ Len(mySet[h]) <= MaxChildren
      BY <1>1 DEF ParentsInv, ParentsTypeOK
    <3>2. Sound(PostProcessed(Parent(h), oms[h]))
      BY <3>1, PostProcessedIs, ParentIs
    <3> QED
      BY <3>2 DEF Sound, Posted
  <2>2. c \in ChildSet
    <3>1. \A h \in Hosts : ToSet(Posted(h)) \subseteq ChildSet
      BY <2>1, ElementOfSeq DEF ToSet
    <3> QED
      BY <3>1, TwoHosts
  <2>3. Copies(Posted("client"), c) = Copies(Posted("server"), c)
    BY <1>1, <2>2, PostedUnions, TwoHosts
  <2>4. Copies(Posted("client"), c) \in Nat
    BY <2>1, TwoHosts, PlacesFinite
  <2> QED
    BY <2>3, <2>4 DEF Surplus
<1> QED
  BY <1>1, ParentsInvariant, PTL
================================================================================
