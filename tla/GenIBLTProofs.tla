----------------------------- MODULE GenIBLTProofs -----------------------------
(***************************************************************************)
(* Theorems about GenIBLT, for any keys, hash functions and table size.    *)
(***************************************************************************)
EXTENDS GenIBLT, FiniteSetTheorems, WellFoundedInduction, TLAPS

(***************************************************************************)
(* Sizes of finite sets, and the least of some numbers.                    *)
(***************************************************************************)
\* Splitting two finite sets: what they share accounts for the difference between
\* their sizes and the sizes of what they do not share.
LEMMA SizeDifference ==
    ASSUME NEW A, NEW B, IsFiniteSet(A), IsFiniteSet(B)
    PROVE  /\ Cardinality(A) \in Nat /\ Cardinality(B) \in Nat
           /\ Cardinality(A \ B) \in Nat /\ Cardinality(B \ A) \in Nat
           /\ Cardinality(A) - Cardinality(B) = Cardinality(A \ B) - Cardinality(B \ A)
<1>1. IsFiniteSet(A \ B) /\ IsFiniteSet(B \ A) /\ IsFiniteSet(A \cap B)
  BY FS_Difference, FS_Intersection
<1>2. /\ Cardinality(A \ B) = Cardinality(A) - Cardinality(A \cap B)
      /\ Cardinality(B \ A) = Cardinality(B) - Cardinality(B \cap A)
  BY FS_Difference
<1>3. Cardinality(A \cap B) = Cardinality(B \cap A)
  <2>1. A \cap B = B \cap A
    OBVIOUS
  <2> QED
    BY <2>1, Zenon
<1>4. /\ Cardinality(A) \in Nat /\ Cardinality(B) \in Nat
      /\ Cardinality(A \ B) \in Nat /\ Cardinality(B \ A) \in Nat
      /\ Cardinality(A \cap B) \in Nat
  BY <1>1, FS_CardinalityType
<1> DEFINE a == Cardinality(A)
           b == Cardinality(B)
           c == Cardinality(A \cap B)
           d == Cardinality(B \cap A)
           x == Cardinality(A \ B)
           y == Cardinality(B \ A)
<1>5. /\ a \in Nat /\ b \in Nat /\ c \in Nat /\ x \in Nat /\ y \in Nat
      /\ x = a - c /\ y = b - d /\ c = d
  BY <1>2, <1>3, <1>4, Zenon
<1> HIDE DEF a, b, c, d, x, y
<1>6. a - b = x - y
  BY <1>5
<1> QED
  BY <1>5, <1>6, Zenon DEF a, b, x, y

\* Taking an element out.
LEMMA SizeWithout ==
    ASSUME NEW S, NEW k \in S, IsFiniteSet(S)
    PROVE  /\ Cardinality(S) \in Nat /\ Cardinality(S \ {k}) \in Nat
           /\ Cardinality(S \ {k}) = Cardinality(S) - 1
<1>1. Cardinality(S) \in Nat
  BY FS_CardinalityType
<1>2. IsFiniteSet(S \ {k}) /\ Cardinality(S \ {k}) = Cardinality(S) - 1
  BY FS_RemoveElement
<1>3. Cardinality(S \ {k}) \in Nat
  BY <1>2, FS_CardinalityType
<1> QED
  BY <1>1, <1>2, <1>3

\* Adding one.
LEMMA SizeWith ==
    ASSUME NEW S, NEW k, k \notin S, IsFiniteSet(S)
    PROVE  /\ Cardinality(S) \in Nat
           /\ IsFiniteSet(S \cup {k}) /\ Cardinality(S \cup {k}) = Cardinality(S) + 1
<1>1. Cardinality(S) \in Nat
  BY FS_CardinalityType
<1>2. IsFiniteSet(S \cup {k}) /\ Cardinality(S \cup {k}) = Cardinality(S) + 1
  BY FS_AddElement
<1> QED
  BY <1>1, <1>2

\* Of natural numbers one is the least.
LEMMA LeastNumber ==
    ASSUME NEW T \in SUBSET Nat, T # {}
    PROVE  \E x \in T : \A y \in T : x <= y
<1> DEFINE R == {ss \in Nat \X Nat : ss[1] < ss[2]}
<1>1. IsWellFoundedOn(R, Nat)
  BY NatLessThanWellFounded DEF OpToRel
<1>2. PICK x \in T : \A y \in T : <<y, x>> \notin R
  <2> HIDE DEF R
  <2> QED
    BY <1>1, WFMin
<1>3. \A y \in T : x <= y
  <2> SUFFICES ASSUME NEW y \in T PROVE x <= y
    OBVIOUS
  <2>1. <<y, x>> \in Nat \X Nat /\ <<y, x>>[1] = y /\ <<y, x>>[2] = x
    OBVIOUS
  <2>2. ~(y < x)
    BY <1>2, <2>1
  <2> QED
    BY <2>2
<1> QED
  BY <1>3

(***************************************************************************)
(* The keys that a cell shows.                                             *)
(***************************************************************************)
OddIn(t) == {k \in Key : content[t][k] % 2 = 1}
Listing == phase = "list" \/ (phase = "done" /\ goal = None)
Cell == [count : Int, keySum : SUBSET Key]

Shapes ==
    /\ content \in [Tables -> [Key -> Int]]
    /\ table \in [Tables -> [Cells -> Cell]]
    /\ diff \in [Cells -> Cell]
    /\ cursor \in 1..Size + 1
    /\ positive \in SUBSET Key /\ negative \in SUBSET Key

\* A table shows the keys it holds an odd number of times.
Filled ==
    \A t \in Tables, c \in Cells : table[t][c].keySum = Holding(OddIn(t), c)

\* Nothing is listed before the scan, and a scan of listEntries has no goal.
Fresh ==
    /\ phase = "build" => positive = {} /\ negative = {} /\ goal = None
    /\ phase = "get" => goal # None

ListedOdd == Listing => Listed \subseteq Odd

KeysInv == Shapes /\ Filled /\ Fresh /\ ListedOdd /\ Residual

LEMMA HoldingRemove ==
    ASSUME NEW S, NEW k, NEW c
    PROVE  Holding(S \ {k}, c) = IF c \in At(k) THEN Holding(S, c) \ {k} ELSE Holding(S, c)
BY DEF Holding

LEMMA InsertedType ==
    ASSUME NEW t \in [Cells -> Cell], NEW n \in Int, NEW k \in Key
    PROVE  Inserted(t, n, k) \in [Cells -> Cell]
<1>1. \A c \in Cells : t[c].count + n \in Int /\ SymDiff(t[c].keySum, {k}) \in SUBSET Key
  BY DEF SymDiff, Cell
<1>2. \A c \in Cells :
         [count |-> t[c].count + n, keySum |-> SymDiff(t[c].keySum, {k})] \in Cell
  BY <1>1 DEF Cell
<1> QED
  BY <1>2 DEF Inserted

LEMMA InsertedCell ==
    ASSUME NEW t, NEW n, NEW k, NEW c \in Cells
    PROVE  /\ Inserted(t, n, k)[c].keySum =
                 IF c \in At(k) THEN SymDiff(t[c].keySum, {k}) ELSE t[c].keySum
           /\ Inserted(t, n, k)[c].count =
                 IF c \in At(k) THEN t[c].count + n ELSE t[c].count
BY DEF Inserted

LEMMA SubtractType ==
    ASSUME NEW t \in [Cells -> Cell], NEW u \in [Cells -> Cell]
    PROVE  Subtract(t, u) \in [Cells -> Cell]
<1>1. \A c \in Cells : /\ t[c].count - u[c].count \in Int
                       /\ SymDiff(t[c].keySum, u[c].keySum) \in SUBSET Key
  BY DEF SymDiff, Cell
<1>2. \A c \in Cells :
         [count |-> t[c].count - u[c].count,
          keySum |-> SymDiff(t[c].keySum, u[c].keySum)] \in Cell
  BY <1>1 DEF Cell
<1> QED
  BY <1>2 DEF Subtract

LEMMA SubtractCell ==
    ASSUME NEW t, NEW u, NEW c \in Cells
    PROVE  /\ Subtract(t, u)[c].keySum = SymDiff(t[c].keySum, u[c].keySum)
           /\ Subtract(t, u)[c].count = t[c].count - u[c].count
BY DEF Subtract

\* A pure entry names one key.
LEMMA PureKey ==
    ASSUME NEW e \in Cell, Pure(e)
    PROVE  /\ KeyOf(e) \in Key /\ e.keySum = {KeyOf(e)}
           /\ e.count \in {1, -1} /\ PeelSign(e) \in {1, -1} /\ PeelSign(e) = -e.count
<1>1. PICK k \in Key : e.keySum = {k}
  BY DEF Pure
<1>2. KeyOf(e) = k
  BY <1>1 DEF KeyOf
<1> QED
  BY <1>1, <1>2 DEF Pure, PeelSign

LEMMA KeysInit == Init => KeysInv
<1> SUFFICES ASSUME Init PROVE KeysInv
  OBVIOUS
<1>1. NewTable \in [Cells -> Cell]
  BY DEF NewTable, Cell
<1>2. Shapes
  BY <1>1, GenIBLTAssumption DEF Init, Shapes, Tables
<1>3. Filled
  BY DEF Init, Filled, NewTable, Holding, OddIn
<1>4. Fresh /\ ListedOdd /\ Residual
  BY DEF Init, Fresh, ListedOdd, Listing, Residual
<1> QED
  BY <1>2, <1>3, <1>4 DEF KeysInv

LEMMA ParityFlip ==
    \A a \in Int, n \in {1, -1} : (a + n) % 2 = 1 <=> a % 2 # 1
OBVIOUS

\* insert and erase.
LEMMA KeysUpdate ==
    ASSUME KeysInv, NEW t \in Tables, NEW n \in {1, -1}, NEW k \in Key, Update(t, n, k)
    PROVE  KeysInv'
<1>1. /\ content \in [Tables -> [Key -> Int]] /\ table \in [Tables -> [Cells -> Cell]]
      /\ content[t] \in [Key -> Int] /\ content[t][k] \in Int
      /\ table[t] \in [Cells -> Cell] /\ n \in Int
  BY DEF KeysInv, Shapes
<1>2. /\ content' = [content EXCEPT ![t][k] = content[t][k] + n]
      /\ table' = [table EXCEPT ![t] = Inserted(table[t], n, k)]
      /\ phase = "build"
      /\ UNCHANGED <<hash, phase, goal, diff, cursor, positive, negative>>
  BY <1>1 DEF Update, output
<1>3. content' \in [Tables -> [Key -> Int]] /\ table' \in [Tables -> [Cells -> Cell]]
  <2>1. Inserted(table[t], n, k) \in [Cells -> Cell]
    BY <1>1, InsertedType
  <2>2. table' \in [Tables -> [Cells -> Cell]]
    BY <1>1, <1>2, <2>1
  <2>3. content[t][k] + n \in Int
    BY <1>1
  <2> QED
    BY <1>1, <1>2, <2>2, <2>3
<1>4. Shapes'
  BY <1>2, <1>3 DEF KeysInv, Shapes
<1>5. ASSUME NEW u \in Tables, NEW c \in Cells
      PROVE  table'[u][c].keySum = Holding(OddIn(u), c)'
  <2>1. table[u][c].keySum = Holding(OddIn(u), c)
    BY DEF KeysInv, Filled
  <2>2. At(k)' = At(k) /\ \A j \in Key : At(j)' = At(j)
    BY <1>2 DEF At, CellOf, BucketsPerHash
  <2>3. CASE u # t
    <3>1. content'[u] = content[u] /\ table'[u] = table[u]
      BY <1>1, <1>2, <2>3
    <3> QED
      BY <2>1, <2>2, <3>1 DEF Holding, OddIn
  <2>4. CASE u = t
    <3>1. /\ content'[u][k] = content[u][k] + n
          /\ \A j \in Key \ {k} : content'[u][j] = content[u][j]
          /\ table'[u] = Inserted(table[u], n, k)
      BY <1>1, <1>2, <2>4
    <3>2. content'[u][k] % 2 = 1 <=> content[u][k] % 2 # 1
      BY <1>1, <2>4, <3>1, ParityFlip
    <3>3. OddIn(u)' = SymDiff(OddIn(u), {k})
      BY <3>1, <3>2 DEF OddIn, SymDiff
    <3>4. table'[u][c].keySum =
             IF c \in At(k) THEN SymDiff(table[u][c].keySum, {k}) ELSE table[u][c].keySum
      BY <3>1 DEF Inserted
    <3>5. Holding(OddIn(u), c)' = {j \in SymDiff(OddIn(u), {k}) : c \in At(j)}
      <4>1. \A j \in SymDiff(OddIn(u), {k}) : At(j)' = At(j)
        BY <2>2 DEF OddIn, SymDiff
      <4>2. Holding(OddIn(u), c)' = {j \in OddIn(u)' : c \in At(j)'}
        BY DEF Holding
      <4> QED
        BY <3>3, <4>1, <4>2
    <3> QED
      BY <2>1, <3>4, <3>5 DEF Holding, SymDiff
  <2> QED
    BY <2>3, <2>4
<1>6. Filled'
  BY <1>5 DEF Filled
<1>7. Fresh' /\ ListedOdd' /\ Residual'
  BY <1>2 DEF KeysInv, Fresh, ListedOdd, Listing, Residual
<1> QED
  BY <1>4, <1>6, <1>7 DEF KeysInv

\* operator-=: the difference shows the keys of odd net content.
LEMMA DifferenceShowsOdd ==
    ASSUME Shapes, Filled, NEW c \in Cells
    PROVE  Subtract(table["theirs"], table["ours"])[c].keySum = Holding(Odd, c)
<1>1. /\ table["theirs"] \in [Cells -> Cell] /\ table["ours"] \in [Cells -> Cell]
      /\ table["theirs"][c].keySum = Holding(OddIn("theirs"), c)
      /\ table["ours"][c].keySum = Holding(OddIn("ours"), c)
  BY DEF Shapes, Filled, Tables
<1>2. \A a, b \in Int : (a - b) % 2 = 1 <=> ~(a % 2 = 1 <=> b % 2 = 1)
  OBVIOUS
<1>3. \A k \in Key : content["theirs"][k] \in Int /\ content["ours"][k] \in Int
  BY DEF Shapes, Tables
<1>4. Odd = SymDiff(OddIn("theirs"), OddIn("ours"))
  BY <1>2, <1>3 DEF Odd, Net, OddIn, SymDiff
<1> QED
  BY <1>1, <1>4, SubtractCell DEF Holding, SymDiff

\* The scan of listEntries and of get.
LEMMA KeysPeel ==
    ASSUME KeysInv, Peel
    PROVE  KeysInv'
<1> DEFINE entry == diff[cursor]
           k == KeyOf(entry)
           n == PeelSign(entry)
<1>1. /\ cursor \in Cells /\ diff \in [Cells -> Cell] /\ entry \in Cell /\ Pure(entry)
  BY DEF Peel, Scanning, KeysInv, Shapes
<1>2. k \in Key /\ entry.keySum = {k} /\ entry.count \in {1, -1} /\ n \in Int
  BY <1>1, PureKey
<1>3. /\ diff' = Inserted(diff, n, k)
      /\ \/ phase = "list" /\ Listed' = Listed \cup {k}
         \/ phase = "get"
      /\ positive' \in {positive, positive \cup {k}}
      /\ negative' \in {negative, negative \cup {k}}
      /\ cursor' = cursor + 1
      /\ UNCHANGED <<hash, content, table, phase, goal>>
  BY <1>1, <1>2 DEF Peel, filled, Scanning, Listed
<1> HIDE DEF entry, k, n
<1>4. diff' \in [Cells -> Cell]
  BY <1>1, <1>2, <1>3, InsertedType
<1>5. cursor' \in 1..Size + 1
  BY <1>1, <1>3, GenIBLTAssumption DEF Cells
<1>6. Shapes'
  BY <1>2, <1>3, <1>4, <1>5 DEF KeysInv, Shapes
<1>7. /\ \A j \in Key : At(j)' = At(j)
      /\ Odd' = Odd /\ \A t \in Tables : OddIn(t)' = OddIn(t)
  BY <1>3 DEF At, CellOf, BucketsPerHash, Odd, Net, OddIn
<1>8. Filled' /\ Fresh'
  BY <1>3, <1>7 DEF KeysInv, Filled, Fresh, Holding, OddIn, Peel, Scanning
<1>9. CASE phase = "get"
  BY <1>3, <1>6, <1>8, <1>9 DEF KeysInv, ListedOdd, Listing, Residual
<1>10. CASE phase = "list"
  <2>1. k \in Odd \ Listed /\ cursor \in At(k)
    <3>1. entry.keySum = Holding(Odd \ Listed, cursor)
      BY <1>1, <1>10 DEF KeysInv, Residual, entry
    <3> QED
      BY <1>2, <3>1 DEF Holding
  <2>2. Listed' = Listed \cup {k}
    BY <1>3, <1>10
  <2>3. Listed' \subseteq Odd
    BY <1>10, <2>1, <2>2 DEF KeysInv, ListedOdd, Listing
  <2>4. ASSUME NEW c \in Cells
        PROVE  diff'[c].keySum = Holding(Odd \ Listed, c)'
    <3>1. diff[c].keySum = Holding(Odd \ Listed, c)
      BY <1>10 DEF KeysInv, Residual
    <3>2. diff'[c].keySum = IF c \in At(k) THEN SymDiff(diff[c].keySum, {k}) ELSE diff[c].keySum
      BY <1>3 DEF Inserted
    <3>3. Holding(Odd \ Listed, c)' = {j \in Odd \ (Listed \cup {k}) : c \in At(j)}
      <4>1. \A j \in Odd : At(j)' = At(j)
        BY <1>7 DEF Odd
      <4>2. Holding(Odd \ Listed, c)' = {j \in Odd' \ Listed' : c \in At(j)'}
        BY DEF Holding
      <4> QED
        BY <1>7, <2>2, <4>1, <4>2
    <3> QED
      BY <2>1, <3>1, <3>2, <3>3 DEF Holding, SymDiff
  <2> QED
    BY <1>6, <1>7, <1>8, <2>3, <2>4 DEF KeysInv, ListedOdd, Residual
<1> QED
  BY <1>9, <1>10 DEF Peel, Scanning

\* The steps that leave the table alone.
LEMMA KeysOther ==
    ASSUME KeysInv,
           \/ \E k \in Key : Crash(k) \/ Get(k)
           \/ ListEntries \/ Skip \/ NextPass \/ Finish \/ GetFound
    PROVE  KeysInv'
<1>1. UNCHANGED <<hash, content, table, positive, negative>>
  BY DEF Crash, Get, ListEntries, Skip, NextPass, Finish, GetFound, filled, output
<1>2. /\ \A j \in Key : At(j)' = At(j)
      /\ Odd' = Odd /\ Listed' = Listed /\ \A t \in Tables : OddIn(t)' = OddIn(t)
  BY <1>1 DEF At, CellOf, BucketsPerHash, Odd, Net, OddIn, Listed
<1>3. \A c : Holding(Odd \ Listed, c)' = Holding(Odd \ Listed, c)
  BY <1>2 DEF Holding, Odd
<1>4. Filled'
  BY <1>1, <1>2 DEF KeysInv, Filled, Holding, OddIn
<1>5. /\ table["theirs"] \in [Cells -> Cell] /\ table["ours"] \in [Cells -> Cell]
      /\ Subtract(table["theirs"], table["ours"]) \in [Cells -> Cell]
  BY SubtractType DEF KeysInv, Shapes, Tables
<1>6. CASE \/ \E k \in Key : Crash(k)
           \/ Skip \/ NextPass \/ Finish \/ GetFound
  <2>1. /\ UNCHANGED <<diff, goal>>
        /\ cursor' \in 1..Size + 1
    <3>1. cursor \in 1..Size + 1 /\ Size \in Nat \ {0}
      BY GenIBLTAssumption DEF KeysInv, Shapes
    <3>2. UNCHANGED <<diff, goal>> /\ (cursor' = cursor \/ cursor' = 1 \/ Skip)
      BY <1>6 DEF Crash, Skip, NextPass, Finish, GetFound
    <3> QED
      BY <3>1, <3>2 DEF Skip, Scanning, Cells
  <2>2. Listing' => Listing
    BY <1>6 DEF Crash, Skip, NextPass, Finish, GetFound, Answer, Scanning, Listing,
                KeysInv, Fresh, filled
  <2>3. Shapes'
    BY <1>1, <2>1 DEF KeysInv, Shapes
  <2>4. Fresh'
    BY <1>1, <1>6, <2>1 DEF Crash, Skip, NextPass, Finish, GetFound, Answer, Scanning,
                            KeysInv, Fresh
  <2> QED
    BY <1>2, <1>3, <1>4, <2>1, <2>2, <2>3, <2>4
    DEF KeysInv, ListedOdd, Residual, Listing
<1>7. CASE ListEntries
  <2>1. /\ phase = "build" /\ phase' = "list" /\ UNCHANGED <<goal, cursor>>
        /\ diff' = Subtract(table["theirs"], table["ours"])
    BY <1>7 DEF ListEntries
  <2>2. Shapes' /\ Fresh'
    BY <1>1, <1>5, <2>1 DEF KeysInv, Shapes, Fresh
  <2>3. Listed = {}
    BY <2>1 DEF KeysInv, Fresh, Listed
  <2>4. \A c \in Cells : diff'[c].keySum = Holding(Odd \ Listed, c)'
    BY <1>3, <2>1, <2>3, DifferenceShowsOdd DEF KeysInv
  <2> QED
    BY <1>2, <1>4, <2>2, <2>3, <2>4 DEF KeysInv, ListedOdd, Residual
<1>8. ASSUME NEW k \in Key, Get(k)
      PROVE  KeysInv'
  <2>1. /\ goal' = k /\ phase' \in {"get", "done"} /\ UNCHANGED cursor
        /\ diff' = Subtract(table["theirs"], table["ours"])
    BY <1>8 DEF Get, Answer
  <2>2. goal' # None
    BY <2>1, GenIBLTAssumption
  <2>3. Shapes' /\ Fresh' /\ ListedOdd' /\ Residual'
    BY <1>1, <1>5, <2>1, <2>2 DEF KeysInv, Shapes, Fresh, ListedOdd, Listing, Residual
  <2> QED
    BY <1>4, <2>3 DEF KeysInv
<1> QED
  BY <1>6, <1>7, <1>8

LEMMA KeysStep == KeysInv /\ [Next]_vars => KeysInv'
<1> SUFFICES ASSUME KeysInv, [Next]_vars PROVE KeysInv'
  OBVIOUS
<1>1. CASE UNCHANGED vars
  <2>1. /\ \A j \in Key : At(j)' = At(j)
        /\ \A c : Holding(Odd \ Listed, c)' = Holding(Odd \ Listed, c)
    BY <1>1 DEF vars, filled, output, At, CellOf, BucketsPerHash, Holding, Odd, Net, Listed
  <2> QED
    BY <1>1, <2>1 DEF vars, filled, output, KeysInv, Shapes, Filled, OddIn, Fresh,
                      ListedOdd, Listing, Listed, Odd, Net, Residual, Holding
<1>2. CASE Next
  BY <1>2, KeysUpdate, KeysPeel, KeysOther DEF Next, Scan
<1> QED
  BY <1>1, <1>2

\* Whatever is inserted and erased, how often and in which order, each cell shows at
\* every point of listEntries the keys of odd net content that it has not listed yet:
\* nothing is listed twice and nothing comes back (_insert, operator-=, listEntries).
THEOREM CellsShowTheRest == Spec => []Residual
<1>1. Init => KeysInv
  BY KeysInit
<1>2. KeysInv /\ [Next]_vars => KeysInv'
  BY KeysStep
<1>3. KeysInv => Residual
  BY DEF KeysInv
<1> QED
  BY <1>1, <1>2, <1>3, PTL DEF Spec

(***************************************************************************)
(* Tables of distinct keys: what is listed, and on which side.             *)
(***************************************************************************)
Sets == \A t \in Tables : Nets[t] \subseteq {0, 1}

Plus == {k \in Key : Net(k) = 1}
Minus == {k \in Key : Net(k) = -1}

\* A key is held at most once, and only where there is a cell for it; a cell counts
\* the keys that it shows.
Counted ==
    /\ \A t \in Tables, k \in Key :
          content[t][k] \in {0, 1} /\ (content[t][k] = 1 => BucketsPerHash(k) > 0)
    /\ \A t \in Tables, c \in Cells :
          table[t][c].count = Cardinality(Holding(OddIn(t), c))

Sided == positive \subseteq Plus /\ negative \subseteq Minus

\* The count of a cell under listEntries is the difference between the two sides.
Balanced ==
    Listing => \A c \in Cells :
        diff[c].count = Cardinality(Holding(Plus \ positive, c))
                        - Cardinality(Holding(Minus \ negative, c))

\* A set of keys that are stuck with one another is never broken into.
CoreKept ==
    Listing => \A S \in SUBSET Odd : Stuck(S) => S \cap Listed = {}

\* The cells behind the scan hold no pure entry unless something was peeled.
Scanned ==
    /\ phase = "list" /\ ~erased =>
          \A c \in Cells : c < cursor => ~Pure(diff[c])
    /\ phase = "done" /\ goal = None =>
          /\ \A c \in Cells : ~Pure(diff[c])
          /\ result <=> AllEmpty
    /\ phase = "build" => cursor = 1 /\ ~erased

SetsInv ==
    /\ KeysInv /\ Counted /\ Sided /\ Balanced /\ CoreKept /\ Scanned
    /\ hash \in [Key -> UNION {HashFunctions(k) : k \in Key}]
    /\ \A k \in Key : hash[k] \in HashFunctions(k)

LEMMA HoldingFinite ==
    ASSUME NEW S \in SUBSET Key, NEW c
    PROVE  IsFiniteSet(Holding(S, c)) /\ Cardinality(Holding(S, c)) \in Nat
<1>1. Holding(S, c) \in SUBSET Key
  BY DEF Holding
<1>2. IsFiniteSet(Holding(S, c))
  BY <1>1, FS_Subset, GenIBLTAssumption
<1> QED
  BY <1>2, FS_CardinalityType

\* The differing keys are those of one side and those of the other.
LEMMA SidesOfOdd ==
    ASSUME Counted
    PROVE  /\ Odd = Plus \cup Minus /\ Plus \cap Minus = {}
           /\ Plus = OddIn("theirs") \ OddIn("ours")
           /\ Minus = OddIn("ours") \ OddIn("theirs")
<1>1. \A k \in Key : content["theirs"][k] \in {0, 1} /\ content["ours"][k] \in {0, 1}
  BY DEF Counted, Tables
<1>2. \A k \in Key : /\ Net(k) \in {-1, 0, 1}
                     /\ content["theirs"][k] % 2 = content["theirs"][k]
                     /\ content["ours"][k] % 2 = content["ours"][k]
  BY <1>1 DEF Net
<1>3. \A x \in Int : x \in {-1, 0, 1} => (x % 2 = 1 <=> x = 1 \/ x = -1)
  OBVIOUS
<1>4. \A k \in Key : Net(k) % 2 = 1 <=> Net(k) = 1 \/ Net(k) = -1
  BY <1>2, <1>3
<1>5. Odd = Plus \cup Minus /\ Plus \cap Minus = {}
  BY <1>4 DEF Odd, Plus, Minus
<1>6. \A k \in Key :
         /\ Net(k) = 1 <=> content["theirs"][k] = 1 /\ content["ours"][k] # 1
         /\ Net(k) = -1 <=> content["ours"][k] = 1 /\ content["theirs"][k] # 1
  BY <1>1 DEF Net
<1> QED
  BY <1>2, <1>5, <1>6 DEF Plus, Minus, OddIn

\* The cells of a key: at least one when the table has a cell per hash function.
LEMMA SomeCell ==
    ASSUME NEW k \in Key, hash[k] \in HashFunctions(k), BucketsPerHash(k) > 0
    PROVE  \E c \in Cells : c \in At(k)
<1> DEFINE b == BucketsPerHash(k)
           v == hash[k][1]
<1>1. HashCount[k] \in Nat \ {0} /\ HashRange[k] \in Nat \ {0} /\ Size \in Nat \ {0}
  BY GenIBLTAssumption
<1>2. v \in Nat /\ 1 \in 1..HashCount[k]
  BY <1>1 DEF HashFunctions
<1>3. b \in Nat \ {0} /\ b <= Size
  <2>1. \A x \in Nat, y \in Nat \ {0} : x \div y \in Nat /\ x \div y <= x
    OBVIOUS
  <2>2. Size \div HashCount[k] \in Nat /\ Size \div HashCount[k] <= Size
    BY <1>1, <2>1
  <2> QED
    BY <2>2 DEF BucketsPerHash
<1> HIDE DEF b, v
<1>4. v % b \in 0..b - 1
  BY <1>2, <1>3
<1>5. CellOf(k, 1) = (v % b) + 1
  <2>1. CellOf(k, 1) = (1 - 1) * b + (v % b) + 1
    BY DEF CellOf, b, v
  <2>2. (1 - 1) * b = 0
    BY <1>3
  <2> QED
    BY <1>4, <2>1, <2>2
<1>6. CellOf(k, 1) \in Cells
  BY <1>1, <1>3, <1>4, <1>5 DEF Cells
<1> QED
  BY <1>2, <1>6 DEF At

LEMMA SetsInit == Init => SetsInv
<1> SUFFICES ASSUME Init PROVE SetsInv
  OBVIOUS
<1>1. KeysInv
  BY KeysInit
<1>2. Counted
  <2>1. \A t \in Tables, c \in Cells : Holding(OddIn(t), c) = {}
    BY DEF Init, Holding, OddIn
  <2> QED
    <3>1. \A t \in Tables, c \in Cells : table[t][c].count = 0
      BY DEF Init, NewTable
    <3>2. \A t \in Tables, k \in Key : content[t][k] = 0
      BY DEF Init
    <3> QED
      BY <2>1, <3>1, <3>2, FS_EmptySet DEF Counted
<1>3. Sided /\ Balanced /\ CoreKept /\ Scanned
  BY DEF Init, Sided, Balanced, CoreKept, Scanned, Listing
<1> QED
  BY <1>1, <1>2, <1>3 DEF Init, SetsInv

\* insert and erase, of a key that is absent and of one that is present.
LEMMA SetsUpdate ==
    ASSUME Sets, SetsInv,
           NEW t \in Tables, NEW n \in {1, -1}, NEW k \in Key, Update(t, n, k)
    PROVE  SetsInv'
<1>1. /\ content \in [Tables -> [Key -> Int]] /\ table \in [Tables -> [Cells -> Cell]]
      /\ content[t][k] + n \in {0, 1} /\ content[t][k] \in {0, 1}
      /\ BucketsPerHash(k) > 0
  BY DEF SetsInv, KeysInv, Shapes, Counted, Update, Sets
<1>2. /\ content' = [content EXCEPT ![t][k] = content[t][k] + n]
      /\ table' = [table EXCEPT ![t] = Inserted(table[t], n, k)]
      /\ phase = "build"
      /\ UNCHANGED <<hash, phase, goal, diff, cursor, erased, positive, negative>>
  BY <1>1 DEF Update, output
<1>3. KeysInv'
  BY KeysUpdate DEF SetsInv
<1>4. /\ \A j \in Key : BucketsPerHash(j)' = BucketsPerHash(j)
      /\ \A j \in Key : At(j)' = At(j)
  BY <1>2 DEF At, CellOf, BucketsPerHash
<1>5. ASSUME NEW u \in Tables, NEW j \in Key
      PROVE  content'[u][j] \in {0, 1} /\ (content'[u][j] = 1 => BucketsPerHash(j)' > 0)
  <2>1. content'[u][j] = IF u = t /\ j = k THEN content[t][k] + n ELSE content[u][j]
    BY <1>1, <1>2
  <2> QED
    BY <1>1, <1>4, <2>1 DEF SetsInv, Counted
<1>6. ASSUME NEW u \in Tables, NEW c \in Cells
      PROVE  table'[u][c].count = Cardinality(Holding(OddIn(u), c)')
  <2>1. table[u][c].count = Cardinality(Holding(OddIn(u), c))
    BY DEF SetsInv, Counted
  <2> DEFINE H == Holding(OddIn(u), c)
             H1 == {j \in OddIn(u)' : c \in At(j)}
  <2>2. Holding(OddIn(u), c)' = H1
    <3>1. \A j \in OddIn(u)' : At(j)' = At(j)
      BY <1>4 DEF OddIn
    <3>2. Holding(OddIn(u), c)' = {j \in OddIn(u)' : c \in At(j)'}
      BY DEF Holding
    <3> QED
      BY <3>1, <3>2
  <2>3. IsFiniteSet(H) /\ Cardinality(H) \in Nat
    BY HoldingFinite DEF OddIn
  <2>4. CASE u # t
    <3>1. content'[u] = content[u] /\ table'[u] = table[u]
      BY <1>1, <1>2, <2>4
    <3>2. H1 = H
      BY <3>1 DEF OddIn, Holding
    <3> QED
      BY <2>1, <2>2, <3>1, <3>2
  <2>5. CASE u = t
    <3>1. /\ content'[u][k] = content[u][k] + n
          /\ \A j \in Key \ {k} : content'[u][j] = content[u][j]
          /\ table'[u] = Inserted(table[u], n, k)
      BY <1>1, <1>2, <2>5
    <3>2. table'[u][c].count = IF c \in At(k) THEN table[u][c].count + n ELSE table[u][c].count
      BY <3>1 DEF Inserted
    <3>3. CASE c \notin At(k)
      <4>1. H1 = H
        BY <3>1, <3>3 DEF OddIn, Holding
      <4> QED
        BY <2>1, <2>2, <3>2, <3>3, <4>1
    <3>4. CASE c \in At(k) /\ n = 1
      <4>1. content[u][k] = 0 /\ content'[u][k] = 1
        BY <1>1, <2>5, <3>1, <3>4
      <4>2. k \notin H /\ H1 = H \cup {k}
        BY <3>1, <3>4, <4>1 DEF OddIn, Holding
      <4>3. Cardinality(H1) = Cardinality(H) + 1
        BY <2>3, <4>2, SizeWith
      <4> QED
        BY <2>1, <2>2, <3>2, <3>4, <4>3
    <3>5. CASE c \in At(k) /\ n = -1
      <4>1. content[u][k] = 1 /\ content'[u][k] = 0
        BY <1>1, <2>5, <3>1, <3>5
      <4>2. k \in H /\ H1 = H \ {k}
        BY <3>1, <3>5, <4>1 DEF OddIn, Holding
      <4>3. Cardinality(H1) = Cardinality(H) - 1 /\ Cardinality(H) \in Nat
        BY <2>3, <4>2, SizeWithout
      <4> QED
        BY <2>1, <2>2, <3>2, <3>5, <4>3
    <3> QED
      BY <3>3, <3>4, <3>5
  <2> QED
    BY <2>4, <2>5
<1>7. Counted'
  BY <1>5, <1>6 DEF Counted
<1>8. Sided' /\ Balanced' /\ CoreKept' /\ Scanned'
  BY <1>2 DEF SetsInv, KeysInv, Fresh, Sided, Balanced, CoreKept, Scanned, Listing
<1> QED
  BY <1>2, <1>3, <1>7, <1>8 DEF SetsInv, HashFunctions

\* What depends on the contents and the hash functions alone.
LEMMA SameContent ==
    ASSUME SetsInv, UNCHANGED <<hash, content, table>>
    PROVE  /\ Odd' = Odd /\ Plus' = Plus /\ Minus' = Minus
           /\ \A k \in Key : At(k)' = At(k)
           /\ \A c \in Cells, S \in SUBSET Key : Holding(S, c)' = Holding(S, c)
           /\ \A S \in SUBSET Odd : Stuck(S)' <=> Stuck(S)
           /\ Counted'
           /\ hash' \in [Key -> UNION {HashFunctions(k) : k \in Key}]
           /\ \A k \in Key : hash'[k] \in HashFunctions(k)
<1>1. Odd' = Odd /\ Plus' = Plus /\ Minus' = Minus
  BY DEF Odd, Plus, Minus, Net
<1>2. \A k \in Key : At(k)' = At(k)
  BY DEF At, CellOf, BucketsPerHash
<1>3. \A c \in Cells, S \in SUBSET Key : Holding(S, c)' = Holding(S, c)
  BY <1>2 DEF Holding
<1>4. \A S \in SUBSET Odd : Stuck(S)' <=> Stuck(S)
  <2> SUFFICES ASSUME NEW S \in SUBSET Odd PROVE Stuck(S)' <=> Stuck(S)
    OBVIOUS
  <2>1. \A c \in Cells : Holding(S, c)' = Holding(S, c)
    BY <1>3 DEF Odd
  <2>2. Stuck(S)' <=> \A c \in Cells : Cardinality(Holding(S, c)') # 1
    BY DEF Stuck
  <2> QED
    BY <2>1, <2>2 DEF Stuck
<1>5. Counted'
  <2>1. \A t \in Tables : OddIn(t)' = OddIn(t) /\ OddIn(t) \in SUBSET Key
    BY DEF OddIn
  <2>2. \A t \in Tables, c \in Cells : Holding(OddIn(t), c)' = Holding(OddIn(t), c)
    BY <1>2, <2>1 DEF Holding
  <2> QED
    BY <2>2 DEF SetsInv, Counted, BucketsPerHash
<1> QED
  BY <1>1, <1>2, <1>3, <1>4, <1>5 DEF SetsInv, HashFunctions

\* A cell that shows a single key counts it on the key's own side.
LEMMA SingleKey ==
    ASSUME SetsInv, Listing, NEW c \in Cells, NEW k, diff[c].keySum = {k}
    PROVE  /\ k \in Odd \ Listed /\ c \in At(k)
           /\ \/ k \in Plus /\ diff[c].count = 1
              \/ k \in Minus /\ diff[c].count = -1
<1> DEFINE P == Holding(Plus \ positive, c)
           M == Holding(Minus \ negative, c)
<1>1. diff[c].keySum = Holding(Odd \ Listed, c)
  BY DEF SetsInv, KeysInv, Residual, Listing
<1>2. k \in Odd \ Listed /\ c \in At(k)
  BY <1>1 DEF Holding
<1>3. Odd = Plus \cup Minus /\ Plus \cap Minus = {}
  BY SidesOfOdd DEF SetsInv
<1>4. (Odd \ Listed) = (Plus \ positive) \cup (Minus \ negative)
  BY <1>3 DEF SetsInv, Sided, Listed
<1>5. P \cup M = {k} /\ P \cap M = {}
  BY <1>1, <1>3, <1>4 DEF Holding
<1>6. diff[c].count = Cardinality(P) - Cardinality(M)
  BY DEF SetsInv, Balanced
<1>7. Cardinality({}) = 0 /\ Cardinality({k}) = 1
  BY FS_EmptySet, FS_Singleton
<1>8. CASE k \in Plus
  <2>1. P = {k} /\ M = {}
    BY <1>3, <1>5, <1>8 DEF Holding
  <2> HIDE DEF P, M
  <2> QED
    BY <1>2, <1>6, <1>7, <1>8, <2>1
<1>9. CASE k \in Minus
  <2>1. P = {} /\ M = {k}
    BY <1>3, <1>5, <1>9 DEF Holding
  <2> HIDE DEF P, M
  <2> QED
    BY <1>2, <1>6, <1>7, <1>9, <2>1
<1> QED
  BY <1>2, <1>3, <1>8, <1>9

\* Taking a key out of the side that holds it.
LEMMA CountWithout ==
    ASSUME NEW S \in SUBSET Key, NEW k \in S, NEW c
    PROVE  Cardinality(Holding(S \ {k}, c)) =
              IF c \in At(k) THEN Cardinality(Holding(S, c)) - 1
                             ELSE Cardinality(Holding(S, c))
<1>1. IsFiniteSet(Holding(S, c))
  BY HoldingFinite
<1>2. CASE c \in At(k)
  <2>1. k \in Holding(S, c) /\ Holding(S \ {k}, c) = Holding(S, c) \ {k}
    BY <1>2 DEF Holding
  <2> QED
    BY <1>1, <1>2, <2>1, SizeWithout
<1>3. CASE c \notin At(k)
  <2>1. Holding(S \ {k}, c) = Holding(S, c)
    BY <1>3 DEF Holding
  <2> QED
    BY <1>3, <2>1
<1> QED
  BY <1>2, <1>3

LEMMA SetsPeel ==
    ASSUME SetsInv, Peel
    PROVE  SetsInv'
<1> DEFINE entry == diff[cursor]
           k == KeyOf(entry)
<1>1. /\ cursor \in Cells /\ diff \in [Cells -> Cell] /\ entry \in Cell /\ Pure(entry)
  BY DEF Peel, Scanning, SetsInv, KeysInv, Shapes
<1>2. k \in Key /\ entry.keySum = {k} /\ PeelSign(entry) = -entry.count
  BY <1>1, PureKey
<1>3. KeysInv'
  BY KeysPeel DEF SetsInv
<1>4. /\ diff' = Inserted(diff, PeelSign(entry), k)
      /\ erased' = TRUE
      /\ UNCHANGED <<hash, content, table, phase, goal>>
  BY DEF Peel, filled
<1>5. CASE phase = "get"
  <2>1. UNCHANGED <<positive, negative>>
    BY <1>5 DEF Peel
  <2> QED
    BY <1>3, <1>4, <1>5, <2>1, SameContent
    DEF SetsInv, Sided, Balanced, CoreKept, Scanned, Listing
<1>6. CASE phase = "list"
  <2> HIDE DEF entry, k
  <2>1. Listing /\ Listing'
    BY <1>4, <1>6 DEF Listing
  <2>2. /\ k \in Odd \ Listed /\ cursor \in At(k)
        /\ \/ k \in Plus /\ entry.count = 1
           \/ k \in Minus /\ entry.count = -1
    BY <1>1, <1>2, <2>1, SingleKey DEF entry
  <2>3. Odd = Plus \cup Minus /\ Plus \cap Minus = {}
    BY SidesOfOdd DEF SetsInv
  <2>4. /\ k \in Plus => positive' = positive \cup {k} /\ negative' = negative
        /\ k \in Minus => positive' = positive /\ negative' = negative \cup {k}
    BY <1>6, <2>2, <2>3 DEF Peel, entry, k
  <2>5. Sided'
    BY <1>4, <2>2, <2>4, SameContent DEF SetsInv, Sided
  <2>6. Listed' = Listed \cup {k}
    BY <2>2, <2>4 DEF Listed
  <2>7. ASSUME NEW c \in Cells
        PROVE  diff'[c].count = Cardinality(Holding(Plus \ positive, c)')
                                - Cardinality(Holding(Minus \ negative, c)')
    <3> DEFINE p == Cardinality(Holding(Plus \ positive, c))
               m == Cardinality(Holding(Minus \ negative, c))
    <3>1. p \in Nat /\ m \in Nat
      BY HoldingFinite DEF Plus, Minus
    <3>2. diff[c].count = p - m
      BY <2>1 DEF SetsInv, Balanced
    <3>3. diff'[c].count = IF c \in At(k) THEN diff[c].count + PeelSign(entry)
                                          ELSE diff[c].count
      BY <1>4 DEF Inserted
    <3>4. /\ Holding(Plus \ positive, c)' = Holding(Plus \ positive', c)
          /\ Holding(Minus \ negative, c)' = Holding(Minus \ negative', c)
      <4>1. /\ Plus' = Plus /\ Minus' = Minus
            /\ \A j \in Key : At(j)' = At(j)
        BY <1>4, SameContent
      <4> QED
        BY <4>1 DEF Holding, Plus, Minus
    <3>5. CASE k \in Plus
      <4>1. /\ Plus \ positive' = (Plus \ positive) \ {k} /\ k \in Plus \ positive
            /\ Minus \ negative' = Minus \ negative
        BY <2>2, <2>4, <3>5 DEF Listed
      <4>2. Cardinality(Holding(Plus \ positive', c)) = IF c \in At(k) THEN p - 1 ELSE p
        BY <4>1, CountWithout DEF Plus
      <4>3. PeelSign(entry) = -1
        BY <1>2, <2>2, <2>3, <3>5
      <4> HIDE DEF p, m
      <4>4. Cardinality(Holding(Minus \ negative', c)) = m
        BY <4>1 DEF m
      <4> QED
        BY <3>1, <3>2, <3>3, <3>4, <4>2, <4>3, <4>4
    <3>6. CASE k \in Minus
      <4>1. /\ Minus \ negative' = (Minus \ negative) \ {k} /\ k \in Minus \ negative
            /\ Plus \ positive' = Plus \ positive
        BY <2>2, <2>4, <3>6 DEF Listed
      <4>2. Cardinality(Holding(Minus \ negative', c)) = IF c \in At(k) THEN m - 1 ELSE m
        BY <4>1, CountWithout DEF Minus
      <4>3. PeelSign(entry) = 1
        BY <1>2, <2>2, <2>3, <3>6
      <4> HIDE DEF p, m
      <4>4. Cardinality(Holding(Plus \ positive', c)) = p
        BY <4>1 DEF p
      <4> QED
        BY <3>1, <3>2, <3>3, <3>4, <4>2, <4>3, <4>4
    <3> QED
      BY <2>2, <3>5, <3>6
  <2>8. Balanced'
    BY <2>7 DEF Balanced
  <2>9. ASSUME NEW S \in SUBSET Odd, Stuck(S)
        PROVE  S \cap (Listed \cup {k}) = {}
    <3>1. S \cap Listed = {}
      BY <2>1, <2>9 DEF SetsInv, CoreKept
    <3>2. Holding(Odd \ Listed, cursor) = {k}
      BY <1>1, <1>2, <1>6 DEF SetsInv, KeysInv, Residual, entry
    <3>3. k \in S => Holding(S, cursor) = {k}
      BY <2>2, <3>1, <3>2 DEF Holding
    <3>4. Cardinality({k}) = 1
      BY FS_Singleton
    <3> QED
      BY <1>1, <2>9, <3>1, <3>3, <3>4 DEF Stuck
  <2>10. CoreKept'
    BY <1>4, <2>6, <2>9, SameContent DEF CoreKept
  <2>11. Scanned'
    BY <1>4, <1>6 DEF Scanned
  <2> QED
    BY <1>3, <1>4, <2>5, <2>8, <2>10, <2>11, SameContent DEF SetsInv
<1> QED
  BY <1>5, <1>6 DEF Peel, Scanning

LEMMA SetsList ==
    ASSUME SetsInv, ListEntries
    PROVE  SetsInv'
<1>1. /\ phase = "build" /\ phase' = "list"
      /\ diff' = Subtract(table["theirs"], table["ours"])
      /\ UNCHANGED <<hash, content, table, goal, cursor, erased, positive, negative>>
  BY DEF ListEntries, filled, output
<1>2. KeysInv'
  BY KeysOther DEF SetsInv
<1>3. positive = {} /\ negative = {} /\ cursor = 1 /\ ~erased
  BY <1>1 DEF SetsInv, KeysInv, Fresh, Scanned
<1>4. /\ Plus = OddIn("theirs") \ OddIn("ours")
      /\ Minus = OddIn("ours") \ OddIn("theirs")
  BY SidesOfOdd DEF SetsInv
<1>5. ASSUME NEW c \in Cells
      PROVE  diff'[c].count = Cardinality(Holding(Plus \ positive, c)')
                              - Cardinality(Holding(Minus \ negative, c)')
  <2> DEFINE A == Holding(OddIn("theirs"), c)
             B == Holding(OddIn("ours"), c)
  <2>1. /\ table["theirs"][c].count = Cardinality(A)
        /\ table["ours"][c].count = Cardinality(B)
    BY DEF SetsInv, Counted, Tables
  <2>2. diff'[c].count = Cardinality(A) - Cardinality(B)
    BY <1>1, <2>1 DEF Subtract
  <2>3. Holding(Plus \ positive, c)' = A \ B /\ Holding(Minus \ negative, c)' = B \ A
    <3>1. Holding(Plus \ positive, c)' = Holding(Plus, c) /\ Holding(Minus \ negative, c)' = Holding(Minus, c)
      <4>1. Plus' = Plus /\ Minus' = Minus /\ \A j \in Key : At(j)' = At(j)
        BY <1>1, SameContent
      <4> QED
        BY <1>1, <1>3, <4>1 DEF Holding, Plus, Minus
    <3> QED
      BY <1>4, <3>1 DEF Holding
  <2>4. IsFiniteSet(A) /\ IsFiniteSet(B)
    BY HoldingFinite DEF OddIn
  <2> HIDE DEF A, B
  <2> QED
    BY <2>2, <2>3, <2>4, SizeDifference
<1>6. Balanced'
  BY <1>5 DEF Balanced
<1>7. Sided' /\ CoreKept' /\ Scanned'
  <2>1. Listed' = {}
    BY <1>1, <1>3 DEF Listed
  <2>2. cursor' = 1 /\ \A c \in Cells : ~(c < 1)
    BY <1>1, <1>3, GenIBLTAssumption DEF Cells
  <2> QED
    BY <1>1, <1>3, <2>1, <2>2 DEF Sided, CoreKept, Scanned
<1> QED
  BY <1>1, <1>2, <1>6, <1>7, SameContent DEF SetsInv

\* The other steps neither fill a table nor change what is left of the difference.
LEMMA SetsOther ==
    ASSUME SetsInv,
           \/ \E k \in Key : Crash(k) \/ Get(k)
           \/ Skip \/ NextPass \/ Finish \/ GetFound
    PROVE  SetsInv'
<1>1. UNCHANGED <<hash, content, table, positive, negative>>
  BY DEF Crash, Get, Skip, NextPass, Finish, GetFound, filled, output
<1>2. KeysInv'
  BY KeysOther DEF SetsInv
<1>3. Sided'
  BY <1>1, SameContent DEF SetsInv, Sided
<1>4. cursor \in 1..Size + 1 /\ Size \in Nat \ {0} /\ diff \in [Cells -> Cell]
  BY GenIBLTAssumption DEF SetsInv, KeysInv, Shapes
<1>5. CASE \E k \in Key : Crash(k) \/ Get(k)
  <2>1. goal' # None \/ phase' = "crashed"
    BY <1>5, GenIBLTAssumption DEF Crash, Get
  <2>2. phase' \in {"crashed", "get", "done"}
    BY <1>5 DEF Crash, Get, Answer
  <2>3. Balanced' /\ CoreKept' /\ Scanned'
    BY <2>1, <2>2 DEF Balanced, CoreKept, Scanned, Listing
  <2> QED
    BY <1>1, <1>2, <1>3, <2>3, SameContent DEF SetsInv
<1>6. CASE GetFound
  <2>1. diff[cursor] \in Cell /\ Pure(diff[cursor]) /\ goal' = KeyOf(diff[cursor])
    BY <1>4, <1>6 DEF GetFound, Scanning
  <2>2. goal' # None /\ phase' = "done"
    BY <1>6, <2>1, PureKey, GenIBLTAssumption DEF GetFound, Answer
  <2>3. Balanced' /\ CoreKept' /\ Scanned'
    BY <2>2 DEF Balanced, CoreKept, Scanned, Listing
  <2> QED
    BY <1>1, <1>2, <1>3, <2>3, SameContent DEF SetsInv
<1>7. CASE Skip \/ NextPass \/ Finish
  <2>1. UNCHANGED <<diff, goal>> /\ (Listing' => Listing)
    BY <1>7 DEF Skip, NextPass, Finish, Listing, SetsInv, KeysInv, Fresh
  <2>2. Balanced'
    <3>1. Plus' = Plus /\ Minus' = Minus /\ \A j \in Key : At(j)' = At(j)
      BY <1>1, SameContent
    <3>2. \A c : /\ Holding(Plus \ positive, c)' = Holding(Plus \ positive, c)
                 /\ Holding(Minus \ negative, c)' = Holding(Minus \ negative, c)
      BY <1>1, <3>1 DEF Holding, Plus, Minus
    <3> QED
      BY <2>1, <3>2 DEF SetsInv, Balanced
  <2>3. CoreKept'
    BY <1>1, <2>1, SameContent DEF SetsInv, CoreKept, Listed
  <2>4. Scanned'
    <3>1. CASE Skip
      <4>1. /\ ~Pure(diff[cursor]) /\ cursor' = cursor + 1
            /\ UNCHANGED <<phase, diff, erased>> /\ phase \in {"list", "get"}
        BY <3>1 DEF Skip, Scanning
      <4>2. \A c \in Cells : c < cursor + 1 => c < cursor \/ c = cursor
        BY <1>4 DEF Cells
      <4> QED
        BY <4>1, <4>2 DEF SetsInv, Scanned
    <3>2. CASE NextPass
      <4>1. cursor' = 1 /\ phase' \in {"list", "get"}
        BY <3>2 DEF NextPass
      <4>2. \A c \in Cells : ~(c < 1)
        BY GenIBLTAssumption DEF Cells
      <4> QED
        BY <4>1, <4>2 DEF Scanned
    <3>3. CASE Finish
      <4>1. /\ cursor > Size /\ ~erased /\ phase' = "done" /\ UNCHANGED <<diff, goal>>
            /\ phase \in {"list", "get"} /\ result' = (phase = "list" /\ AllEmpty)
        BY <3>3 DEF Finish, Another
      <4>2. \A c \in Cells : c < cursor
        BY <1>4, <4>1 DEF Cells
      <4>3. goal = None => phase = "list"
        BY <4>1 DEF SetsInv, KeysInv, Fresh
      <4>4. AllEmpty' = AllEmpty
        BY <4>1 DEF AllEmpty
      <4> QED
        BY <4>1, <4>2, <4>3, <4>4 DEF SetsInv, Scanned
    <3> QED
      BY <1>7, <3>1, <3>2, <3>3
  <2> QED
    BY <1>1, <1>2, <1>3, <2>2, <2>3, <2>4, SameContent DEF SetsInv
<1> QED
  BY <1>5, <1>6, <1>7

LEMMA SetsStep ==
    ASSUME Sets, SetsInv, [Next]_vars
    PROVE  SetsInv'
<1>1. CASE UNCHANGED vars
  <2>1. /\ UNCHANGED <<hash, content, table, phase, goal, diff, cursor, erased>>
        /\ UNCHANGED <<positive, negative, result>>
    BY <1>1 DEF vars, filled, output
  <2>2. KeysInv'
    BY <1>1, KeysStep DEF SetsInv
  <2>3. Plus' = Plus /\ Minus' = Minus /\ \A j \in Key : At(j)' = At(j)
    BY <2>1, SameContent
  <2>4. \A c : /\ Holding(Plus \ positive, c)' = Holding(Plus \ positive, c)
               /\ Holding(Minus \ negative, c)' = Holding(Minus \ negative, c)
    BY <2>1, <2>3 DEF Holding, Plus, Minus
  <2>5. Sided' /\ Balanced' /\ CoreKept' /\ Scanned'
    BY <2>1, <2>3, <2>4, SameContent
    DEF SetsInv, Sided, Balanced, CoreKept, Scanned, Listing, Listed, AllEmpty
  <2> QED
    BY <2>1, <2>2, <2>5, SameContent DEF SetsInv
<1>2. CASE Next
  BY <1>2, SetsUpdate, SetsPeel, SetsList, SetsOther DEF Next, Scan
<1> QED
  BY <1>1, <1>2

\* What the invariant says once listEntries has returned.
LEMMA ListedAll ==
    ASSUME SetsInv, phase = "done", goal = None
    PROVE  /\ Listed = Odd \ Core
           /\ result <=> Core = {}
<1> DEFINE Rest == Odd \ Listed
<1>1. Listing /\ Listed \subseteq Odd /\ diff \in [Cells -> Cell]
  BY DEF Listing, SetsInv, KeysInv, ListedOdd, Shapes
<1>2. \A c \in Cells : diff[c].keySum = Holding(Rest, c)
  BY DEF SetsInv, KeysInv, Residual
<1>3. Rest \in SUBSET Key
  BY DEF Odd
<1>4. Stuck(Rest)
  <2> SUFFICES ASSUME NEW c \in Cells, Cardinality(Holding(Rest, c)) = 1
               PROVE  FALSE
    BY DEF Stuck
  <2>1. PICK k : Holding(Rest, c) = {k}
    BY <1>3, HoldingFinite, FS_Singleton
  <2>2. diff[c].keySum = {k}
    BY <1>2, <2>1
  <2>3. k \in Key /\ diff[c].count \in {1, -1}
    BY <1>1, <2>2, SingleKey DEF Odd
  <2>4. Pure(diff[c])
    BY <2>2, <2>3 DEF Pure
  <2> QED
    BY <2>4 DEF SetsInv, Scanned
<1>5. Rest \subseteq Core
  BY <1>4 DEF Core
<1>6. Core \subseteq Rest
  <2>1. \A S \in SUBSET Odd : Stuck(S) => S \subseteq Rest
    BY <1>1 DEF SetsInv, CoreKept
  <2> QED
    BY <2>1 DEF Core
<1>7. Listed = Odd \ Core
  BY <1>1, <1>5, <1>6
<1>8. Core = {} <=> Rest = {}
  BY <1>5, <1>6
<1>9. ASSUME AllEmpty
      PROVE  Rest = {}
  <2> SUFFICES ASSUME NEW k \in Rest PROVE FALSE
    OBVIOUS
  <2>1. BucketsPerHash(k) > 0
    <3>1. k \in Key /\ (content["theirs"][k] = 1 \/ content["ours"][k] = 1)
      <4>1. k \in OddIn("theirs") \/ k \in OddIn("ours")
        BY SidesOfOdd DEF SetsInv
      <4>2. \A t \in Tables : \A j \in OddIn(t) : j \in Key /\ content[t][j] = 1
        BY DEF SetsInv, Counted, OddIn
      <4> QED
        BY <4>1, <4>2 DEF Tables
    <3> QED
      BY <3>1 DEF SetsInv, Counted, Tables
  <2>2. PICK c \in Cells : c \in At(k)
    BY <1>3, <2>1, SomeCell DEF SetsInv
  <2>3. k \in diff[c].keySum
    BY <1>2, <2>2 DEF Holding
  <2> QED
    BY <1>9, <2>3 DEF AllEmpty, Empty
<1>10. ASSUME Rest = {}
       PROVE  AllEmpty
  <2> SUFFICES ASSUME NEW c \in Cells PROVE Empty(diff[c])
    BY DEF AllEmpty
  <2>1. diff[c].keySum = {}
    BY <1>2, <1>10 DEF Holding
  <2>2. Plus \ positive = {} /\ Minus \ negative = {}
    <3>1. Odd = Plus \cup Minus /\ Plus \cap Minus = {}
      BY SidesOfOdd DEF SetsInv
    <3> QED
      BY <1>10, <3>1 DEF SetsInv, Sided, Listed
  <2>3. Holding(Plus \ positive, c) = {} /\ Holding(Minus \ negative, c) = {}
    BY <2>2 DEF Holding
  <2>4. diff[c].count = Cardinality({}) - Cardinality({})
    BY <1>1, <2>3 DEF SetsInv, Balanced
  <2> QED
    BY <2>1, <2>4, FS_EmptySet DEF Empty
<1>11. result <=> AllEmpty
  BY DEF SetsInv, Scanned
<1> QED
  BY <1>7, <1>8, <1>9, <1>10, <1>11

\* For tables whose keys are distinct, everything listEntries lists is a difference,
\* and on its own side.
THEOREM ListedOnTheRightSide ==
    ASSUME Sets
    PROVE  Spec => []RightSide
<1>1. Init => SetsInv
  BY SetsInit
<1>2. SetsInv /\ [Next]_vars => SetsInv'
  BY SetsStep
<1>3. SetsInv => RightSide
  BY DEF SetsInv, Sided, RightSide, Plus, Minus
<1> QED
  BY <1>1, <1>2, <1>3, PTL DEF Spec

\* For tables whose keys are distinct, listEntries lists every difference but those of
\* the core, the largest set of keys that share all their cells with one another, and
\* it returns true exactly when there is no core - for every size of the table, number
\* of hash functions and hash values, and any order of insertions and erasures.
THEOREM PeelingIsExact ==
    ASSUME Sets
    PROVE  Spec => []PeelsExactly
<1>1. Init => SetsInv
  BY SetsInit
<1>2. SetsInv /\ [Next]_vars => SetsInv'
  BY SetsStep
<1>3. SetsInv => PeelsExactly
  <2> SUFFICES ASSUME SetsInv, phase = "done", goal = None
               PROVE  /\ positive = {k \in Odd \ Core : Net(k) = 1}
                      /\ negative = {k \in Odd \ Core : Net(k) = -1}
                      /\ result <=> Core = {}
    BY DEF PeelsExactly
  <2>1. Listed = Odd \ Core /\ (result <=> Core = {})
    BY ListedAll
  <2>2. /\ \A k \in positive : Net(k) = 1
        /\ \A k \in negative : Net(k) = -1
    BY DEF SetsInv, Sided, Plus, Minus
  <2> QED
    BY <2>1, <2>2 DEF Listed
<1> QED
  BY <1>1, <1>2, <1>3, PTL DEF Spec

(***************************************************************************)
(* get: what becomes of the key it looks for, in any tables.               *)
(***************************************************************************)
Goals == phase = "list" => goal = None
Hashed == \A k \in Key : hash[k] \in HashFunctions(k)

\* What is peeled is another key: the key looked for stays in its cells.
Seeking ==
    phase = "get" =>
        \A c \in Cells : goal \in diff[c].keySum <=> goal \in Odd /\ c \in At(goal)

Told == (phase = "done" /\ goal # None /\ result) => (found <=> goal \in Odd)

GetInv == KeysInv /\ Goals /\ Hashed /\ Seeking /\ Told

\* Every hash function leads to a cell.
LEMMA CellsOf ==
    ASSUME NEW k \in Key, hash[k] \in HashFunctions(k), BucketsPerHash(k) > 0,
           NEW i \in 1..HashCount[k]
    PROVE  CellOf(k, i) \in Cells
<1> DEFINE b == BucketsPerHash(k)
           n == HashCount[k]
           v == hash[k][i]
<1>1. n \in Nat \ {0} /\ HashRange[k] \in Nat \ {0} /\ Size \in Nat \ {0}
  BY GenIBLTAssumption
<1>2. v \in Nat /\ i \in Nat \ {0} /\ i <= n
  BY <1>1 DEF HashFunctions
<1>3. b \in Nat \ {0} /\ n * b <= Size
  <2>1. \A x \in Nat, y \in Nat \ {0} : x \div y \in Nat /\ y * (x \div y) <= x
    OBVIOUS
  <2>2. Size \div n \in Nat /\ n * (Size \div n) <= Size
    BY <1>1, <2>1
  <2> QED
    BY <2>2 DEF BucketsPerHash
<1>4. CellOf(k, i) = (i - 1) * b + (v % b) + 1
  BY DEF CellOf
<1> HIDE DEF b, n, v
<1>5. v % b \in Nat /\ v % b <= b - 1
  BY <1>2, <1>3
<1>6. (i - 1) * b \in Nat /\ (i - 1) * b <= n * b - b
  <2>1. \A p, q, m \in Nat : p <= q => p * m \in Nat /\ p * m <= q * m
    BY SMT
  <2>2. (i - 1) * b \in Nat /\ (i - 1) * b <= (n - 1) * b
    BY <1>1, <1>2, <1>3, <2>1
  <2>3. (n - 1) * b = n * b - b
    BY <1>1, <1>3
  <2> QED
    BY <2>2, <2>3
<1>7. n * b \in Nat
  BY <1>1, <1>3
<1>8. \A p, r, q, m, z \in Nat : p <= q - m /\ r <= m - 1 /\ q <= z => p + r + 1 \in 1..z
  BY SMT
<1> QED
  BY <1>1, <1>3, <1>4, <1>5, <1>6, <1>7, <1>8 DEF Cells

\* The cell that answers shows whether the key is there.
LEMMA FirstTells ==
    ASSUME GetInv, NEW k \in Key, Get(k), phase' = "done"
    PROVE  found' <=> k \in Odd
<1> DEFINE t == Subtract(table["theirs"], table["ours"])
           telling == {i \in 1..HashCount[k] : Telling(t, CellOf(k, i))}
           first == CHOOSE i \in telling : \A j \in telling : i <= j
<1>1. telling # {} /\ found' = (t[CellOf(k, first)].keySum = {k})
  BY DEF Get, Answer
<1>2. first \in telling
  <2>1. telling \in SUBSET Nat
    BY GenIBLTAssumption
  <2> HIDE DEF telling
  <2> QED
    BY <1>1, <2>1, LeastNumber
<1> DEFINE c == CellOf(k, first)
<1>3. c \in Cells /\ c \in At(k) /\ Telling(t, c)
  <2>1. BucketsPerHash(k) > 0
    BY DEF Get
  <2> HIDE DEF first
  <2> QED
    BY <1>2, <2>1, CellsOf DEF GetInv, Hashed, At
<1>4. t[c].keySum = Holding(Odd, c)
  BY <1>3, DifferenceShowsOdd DEF GetInv, KeysInv
<1>5. k \in t[c].keySum <=> k \in Odd
  BY <1>3, <1>4 DEF Holding
<1> HIDE DEF t
<1>6. t[c].keySum = {} \/ \E j \in Key : t[c].keySum = {j}
  BY <1>3 DEF Telling, Empty, Pure
<1> QED
  BY <1>1, <1>5, <1>6

LEMMA GetStep ==
    ASSUME GetInv, [Next]_vars
    PROVE  GetInv'
<1>1. KeysInv'
  BY KeysStep DEF GetInv
<1>2. hash' = hash
  BY DEF Next, Scan, Update, Crash, Get, ListEntries, Skip, Peel, NextPass, Finish, GetFound,
         vars, filled
<1>3. Hashed'
  BY <1>2 DEF GetInv, Hashed, HashFunctions
<1> SUFFICES Goals' /\ Seeking' /\ Told'
  BY <1>1, <1>3 DEF GetInv
<1>4. ASSUME UNCHANGED content
      PROVE  Odd' = Odd /\ \A k, c : (c \in At(k))' <=> c \in At(k)
  BY <1>2, <1>4 DEF Odd, Net, At, CellOf, BucketsPerHash
<1>5. ASSUME NEW t \in Tables, NEW n \in {1, -1}, NEW k \in Key, Update(t, n, k)
      PROVE  Goals' /\ Seeking' /\ Told'
  BY <1>5 DEF Update, Goals, Seeking, Told
<1>6. ASSUME NEW k \in Key, Crash(k)
      PROVE  Goals' /\ Seeking' /\ Told'
  BY <1>6 DEF Crash, Goals, Seeking, Told
<1>7. ASSUME NEW k \in Key, Get(k)
      PROVE  Goals' /\ Seeking' /\ Told'
  <2>1. /\ goal' = k /\ phase' \in {"get", "done"} /\ content' = content
        /\ diff' = Subtract(table["theirs"], table["ours"])
    BY <1>7 DEF Get, Answer, filled
  <2>2. \A c \in Cells : diff'[c].keySum = Holding(Odd, c)
    BY <2>1, DifferenceShowsOdd DEF GetInv, KeysInv
  <2>3. Seeking'
    BY <1>4, <1>7, <2>1, <2>2 DEF Seeking, Holding
  <2> QED
    BY <1>4, <1>7, <2>1, <2>3, FirstTells DEF Goals, Told
<1>8. CASE ListEntries
  <2>1. goal' = None /\ phase' = "list"
    BY <1>8 DEF ListEntries, GetInv, KeysInv, Fresh
  <2> QED
    BY <2>1 DEF Goals, Seeking, Told
<1>9. ASSUME UNCHANGED <<content, phase, goal>>,
             \A c \in Cells : goal \in diff'[c].keySum <=> goal \in diff[c].keySum
      PROVE  Goals' /\ Seeking'
  <2>1. Goals'
    BY <1>9 DEF GetInv, Goals
  <2>2. /\ goal' = goal /\ phase' = phase /\ Odd' = Odd
        /\ \A c : (c \in At(goal))' <=> c \in At(goal)
    BY <1>4, <1>9
  <2>3. Seeking'
    BY <1>9, <2>2 DEF GetInv, Seeking
  <2> QED
    BY <2>1, <2>3
<1>10. CASE Skip \/ NextPass \/ Peel
  <2>1. UNCHANGED <<content, phase, goal>> /\ phase \in {"list", "get"}
    BY <1>10 DEF Skip, NextPass, Peel, Scanning, filled
  <2>2. CASE Skip \/ NextPass
    <3>1. diff' = diff
      BY <2>2 DEF Skip, NextPass
    <3> QED
      BY <1>9, <2>1, <3>1 DEF Told
  <2>3. CASE Peel
    <3> DEFINE k == KeyOf(diff[cursor])
               n == PeelSign(diff[cursor])
    <3>1. k # goal /\ diff' = Inserted(diff, n, k)
      BY <2>3 DEF Peel
    <3> HIDE DEF k, n
    <3>2. \A c \in Cells : goal \in diff'[c].keySum <=> goal \in diff[c].keySum
      BY <3>1 DEF Inserted, SymDiff
    <3> QED
      BY <1>9, <2>1, <3>2 DEF Told
  <2> QED
    BY <1>10, <2>2, <2>3
<1>11. CASE Finish
  <2>1. phase' = "done" /\ goal' = goal /\ result' = (phase = "list" /\ AllEmpty)
    BY <1>11 DEF Finish
  <2>2. goal' # None => ~result'
    BY <2>1 DEF GetInv, Goals
  <2> QED
    BY <2>1, <2>2 DEF Goals, Seeking, Told
<1>12. CASE GetFound
  <2>1. /\ cursor \in Cells /\ phase \in {"list", "get"} /\ Pure(diff[cursor])
        /\ diff[cursor] \in Cell /\ KeyOf(diff[cursor]) = goal
        /\ UNCHANGED <<content, goal>> /\ phase' = "done" /\ found' = TRUE
    BY <1>12 DEF GetFound, Scanning, Answer, filled, GetInv, KeysInv, Shapes
  <2>2. goal \in Key /\ goal \in diff[cursor].keySum
    BY <2>1, PureKey
  <2>3. goal \in Odd
    BY <2>1, <2>2, GenIBLTAssumption DEF GetInv, Goals, Seeking
  <2>4. goal' \in Odd'
    BY <1>4, <2>1, <2>3
  <2> QED
    BY <2>1, <2>4 DEF Goals, Seeking, Told
<1>13. CASE UNCHANGED vars
  <2>1. UNCHANGED <<content, phase, goal, diff, found, result>>
    BY <1>13 DEF vars, filled, output
  <2>2. Odd' = Odd
    BY <1>4, <2>1
  <2>3. Told'
    BY <2>1, <2>2 DEF GetInv, Told
  <2> QED
    BY <1>9, <2>1, <2>3
<1> QED
  BY <1>5, <1>6, <1>7, <1>8, <1>10, <1>11, <1>12, <1>13 DEF Next, Scan

\* When get returns true, what it says of the key is the truth: for every size of the
\* table, hash functions and history, erased keys and peelings on the way included.
THEOREM GetTellsTheTruth == Spec => []GetSound
<1>1. Init => GetInv
  BY KeysInit DEF Init, GetInv, Goals, Hashed, Seeking, Told
<1>2. GetInv /\ [Next]_vars => GetInv'
  BY GetStep
<1>3. GetInv => GetSound
  BY DEF GetInv, Told, GetSound
<1> QED
  BY <1>1, <1>2, <1>3, PTL DEF Spec
=============================================================================
