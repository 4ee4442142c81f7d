-------------------------- MODULE DataPeelingProofs --------------------------
(***************************************************************************)
(* Theorems about GenSyncData and METIBLTSync: what is done to all data,   *)
(* one by one.                                                             *)
(*                                                                         *)
(* GenSyncData, for any elements, values, agents and field.  Holds(a, S)   *)
(* says what an agent is that holds the elements S, in the form of its     *)
(* kind.  Every addition to it and every deletion from it keeps that, so   *)
(* every agent holds the data while the process runs; the loops of         *)
(* clearData and addSyncAgt keep it by induction on the data.              *)
(*                                                                         *)
(* METIBLTSync, for any elements, cells, placements and number of tables   *)
(* and sessions.  Scanned(t, r) says what a scan may have made of a table  *)
(* t; the entries it lists one by one keep that, by induction on the cells *)
(* and on the passes.  PeelInv says what the hosts and their tables are in *)
(* each phase of a session.                                                *)
(***************************************************************************)
EXTENDS GenSyncData, METIBLTSync, FiniteSetTheorems, SequenceTheorems,
        WellFoundedInduction, TLAPS

(***************************************************************************)
(* Numbers, loops and sequences.                                           *)
(***************************************************************************)
\* Of natural numbers one is the least.
LEMMA LeastNumber ==
    ASSUME NEW T \in SUBSET Nat, T # {}
    PROVE  \E x \in T : \A y \in T : x <= y
<1> DEFINE R == {ss \in Nat \X Nat : ss[1] < ss[2]}
<1>1. IsWellFoundedOn(R, Nat)
  BY NatLessThanWellFounded DEF OpToRel
<1>2. PICK x \in T : \A y \in T : <<y, x>> \notin R
  <2> HIDE DEF R
  <2> QED
    BY <1>1, WFMin
<1>3. \A y \in T : x <= y
  <2> SUFFICES ASSUME NEW y \in T PROVE x <= y
    OBVIOUS
  <2>1. <<y, x>> \in Nat \X Nat /\ <<y, x>>[1] = y /\ <<y, x>>[2] = x
    OBVIOUS
  <2>2. ~(y < x)
    BY <1>2, <2>1
  <2> QED
    BY <2>2
<1> QED
  BY <1>3

\* Least chooses the least number of a set.
LEMMA LeastIs ==
    ASSUME NEW T \in SUBSET Nat, T # {}
    PROVE  Least(T) \in T /\ \A m \in T : Least(T) <= m
BY LeastNumber DEF Least

\* Induction along 0..n, over a set of its numbers.
LEMMA Induction ==
    ASSUME NEW n \in Nat, NEW P \in SUBSET (0..n), 0 \in P,
           \A i \in 1..n : i - 1 \in P => i \in P
    PROVE  P = 0..n
<1> SUFFICES ASSUME NEW z \in 0..n, z \notin P PROVE FALSE
  OBVIOUS
<1> DEFINE T == {y \in 0..n : y \notin P}
<1>1. T \in SUBSET Nat /\ T # {}
  <2>1. z \in T
    OBVIOUS
  <2>2. \A y \in T : y \in Nat
    OBVIOUS
  <2> QED
    BY <2>1, <2>2, Zenon
<1>2. PICK x \in T : \A y \in T : x <= y
  <2> HIDE DEF T
  <2> QED
    BY <1>1, LeastNumber
<1>3. x \in 1..n /\ x - 1 \notin T /\ x - 1 \in 0..n
  BY <1>2
<1> QED
  BY <1>2, <1>3

\* A loop of n steps over the states S, of which step i turns x into G[i][x], can be run.
Loops(n, S) == [1..n -> [S -> S]]
Runs(f, n, S, start, G) ==
    f \in [0..n -> S] /\ f[0] = start /\ \A i \in 1..n : f[i] = G[i][f[i - 1]]

\* A loop has a run, and every state of the run is one of the states of the loop.
LEMMA LoopRuns ==
    ASSUME NEW n \in Nat, NEW S, NEW start \in S, NEW G \in Loops(n, S)
    PROVE  \E f : Runs(f, n, S, start, G)
<1> USE DEF Loops
<1> DEFINE Run(f, m) == /\ f[0] = start
                        /\ \A i \in 1..m : f[i] = G[i][f[i - 1]]
           P == {m \in 0..n : \E f \in [0..n -> S] : Run(f, m)}
<1>1. 0 \in P
  <2> DEFINE f == [i \in 0..n |-> start]
  <2>1. 0 \in 0..n /\ f \in [0..n -> S] /\ Run(f, 0)
    OBVIOUS
  <2> HIDE DEF f, Run
  <2> QED
    BY <2>1
<1>2. ASSUME NEW m \in 1..n, m - 1 \in P
      PROVE  m \in P
  <2>1. PICK f \in [0..n -> S] : Run(f, m - 1)
    BY <1>2
  <2> DEFINE g == [f EXCEPT ![m] = G[m][f[m - 1]]]
  <2>2. f[m - 1] \in S /\ g \in [0..n -> S]
    OBVIOUS
  <2>3. \A i \in 0..n : g[i] = IF i = m THEN G[m][f[m - 1]] ELSE f[i]
    OBVIOUS
  <2> HIDE DEF g
  <2>4. g[0] = start
    BY <2>1, <2>3
  <2>5. ASSUME NEW i \in 1..m PROVE g[i] = G[i][g[i - 1]]
    <3>1. g[i - 1] = f[i - 1]
      BY <2>3
    <3>2. CASE i = m
      <4>1. g[m] = G[m][f[m - 1]]
        BY <2>3
      <4> QED
        BY <3>1, <3>2, <4>1
    <3>3. CASE i # m
      <4>1. i \in 1..(m - 1)
        BY <3>3
      <4>2. f[i] = G[i][f[i - 1]]
        BY <2>1, <4>1
      <4> QED
        BY <2>3, <3>1, <3>3, <4>2
    <3> QED
      BY <3>2, <3>3
  <2>6. Run(g, m)
    BY <2>4, <2>5
  <2> HIDE DEF Run
  <2> QED
    BY <2>2, <2>6
<1>3. P = 0..n
  <2>1. P \in SUBSET (0..n)
    OBVIOUS
  <2>2. \A m \in 1..n : m - 1 \in P => m \in P
    BY <1>2
  <2> HIDE DEF P
  <2> QED
    BY <1>1, <2>1, <2>2, Induction
<1> HIDE DEF P
<1>4. n \in P
  BY <1>3
<1> USE DEF P
<1>5. \E f \in [0..n -> S] : Run(f, n)
  <2> HIDE DEF Run
  <2> QED
    BY <1>4
<1> QED
  BY <1>5 DEF Runs

\* k: what list::remove has kept after each element.
Filters(k, s, o) ==
    /\ Without(s, o) = k[Len(s)]
    /\ k[0] = <<>>
    /\ \A i \in 1..Len(s) :
          k[i] = IF s[i] = o THEN k[i - 1] ELSE Append(k[i - 1], s[i])

\* Without is such a run along the list.
LEMMA WithoutStep ==
    ASSUME NEW s \in Seq(Object), NEW o
    PROVE  \E k : Filters(k, s, o)
<1> DEFINE Body(f) ==
              [i \in 0..Len(s) |->
                 IF i = 0 THEN <<>>
                 ELSE IF s[i] = o THEN f[i - 1] ELSE Append(f[i - 1], s[i])]
           kept == CHOOSE f : f = Body(f)
           S == Seq(Object)
           G == [i \in 1..Len(s) |-> [x \in S |-> IF s[i] = o THEN x ELSE Append(x, s[i])]]
<1>1. Without(s, o) = kept[Len(s)]
  BY Zenon DEF Without
<1>3. Len(s) \in Nat /\ <<>> \in S
  OBVIOUS
<1>4. G \in Loops(Len(s), S)
  BY DEF Loops
<1>5. PICK k : Runs(k, Len(s), S, <<>>, G)
  <2> HIDE DEF S, G
  <2> QED
    BY <1>3, <1>4, LoopRuns
<1>6. \A i \in 1..Len(s) : k[i] = IF s[i] = o THEN k[i - 1] ELSE Append(k[i - 1], s[i])
  <2> SUFFICES ASSUME NEW i \in 1..Len(s)
               PROVE  k[i] = IF s[i] = o THEN k[i - 1] ELSE Append(k[i - 1], s[i])
    OBVIOUS
  <2>1. k[i - 1] \in S /\ k[i] = G[i][k[i - 1]]
    <3> HIDE DEF S, G
    <3> QED
      BY <1>5 DEF Runs
  <2> QED
    BY <2>1
<1>7. k[0] = <<>> /\ k = [i \in 0..Len(s) |-> k[i]]
  <2> HIDE DEF S, G
  <2> QED
    BY <1>5 DEF Runs
<1>8. k = Body(k)
  <2>1. \A i \in 0..Len(s) : i # 0 => i \in 1..Len(s)
    BY <1>3
  <2>2. \A i \in 0..Len(s) :
           k[i] = IF i = 0 THEN <<>>
                  ELSE IF s[i] = o THEN k[i - 1] ELSE Append(k[i - 1], s[i])
    BY <1>6, <1>7, <2>1, Zenon
  <2> QED
    BY <1>7, <2>2, Zenon
<1>9. kept = Body(kept)
  <2> HIDE DEF Body
  <2> QED
    BY <1>8, Zenon
<1> HIDE DEF kept
<1>10. kept[0] = <<>>
  BY <1>3, <1>9
<1>11. \A i \in 1..Len(s) :
          kept[i] = IF s[i] = o THEN kept[i - 1] ELSE Append(kept[i - 1], s[i])
  <2>1. \A i \in 1..Len(s) : i \in 0..Len(s) /\ i # 0
    BY <1>3
  <2> QED
    BY <1>9, <2>1, Zenon
<1>12. Filters(kept, s, o)
  BY <1>1, <1>10, <1>11 DEF Filters
<1> QED
  BY <1>12

Distinct(s) == \A i, j \in DOMAIN s : s[i] = s[j] => i = j

\* What list::remove leaves.
LEMMA WithoutIs ==
    ASSUME NEW s \in Seq(Object), NEW o
    PROVE  /\ Without(s, o) \in Seq(Object)
           /\ Range(Without(s, o)) = Range(s) \ {o}
           /\ Distinct(s) => Distinct(Without(s, o))
<1>0. PICK k : Filters(k, s, o)
  BY WithoutStep
<1>1. /\ Without(s, o) = k[Len(s)]
      /\ k[0] = <<>>
      /\ \A i \in 1..Len(s) :
            k[i] = IF s[i] = o THEN k[i - 1] ELSE Append(k[i - 1], s[i])
  BY <1>0 DEF Filters
<1> DEFINE Upto(i) == {s[j] : j \in 1..i}
           Good(i) == /\ k[i] \in Seq(Object)
                      /\ Range(k[i]) = Upto(i) \ {o}
                      /\ Distinct(s) => Distinct(k[i])
           P == {i \in 0..Len(s) : Good(i)}
<1>2. Len(s) \in Nat /\ DOMAIN s = 1..Len(s)
  OBVIOUS
<1>3. Good(0)
  BY <1>1 DEF Range, Distinct
<1>4. ASSUME NEW i \in 1..Len(s), Good(i - 1)
      PROVE  Good(i)
  <2>1. Upto(i) = Upto(i - 1) \cup {s[i]}
    BY <1>2
  <2>2. CASE s[i] = o
    <3>1. k[i] = k[i - 1]
      BY <1>1, <2>2
    <3>2. Upto(i) \ {o} = Upto(i - 1) \ {o}
      BY <2>1, <2>2
    <3> HIDE DEF Upto
    <3> QED
      BY <1>4, <3>1, <3>2
  <2>3. CASE s[i] # o
    <3> DEFINE t == k[i - 1]
    <3>1. k[i] = Append(t, s[i]) /\ t \in Seq(Object) /\ s[i] \in Object
      <4>1. k[i] = Append(k[i - 1], s[i])
        BY <1>1, <2>3
      <4>2. s[i] \in Object
        BY <1>2
      <4> QED
        BY <1>4, <4>1, <4>2
    <3>2. /\ Len(t) \in Nat /\ DOMAIN t = 1..Len(t)
          /\ k[i] \in Seq(Object) /\ DOMAIN k[i] = 1..(Len(t) + 1)
          /\ k[i][Len(t) + 1] = s[i]
          /\ \A j \in 1..Len(t) : k[i][j] = t[j]
      <4> HIDE DEF t
      <4> QED
        BY <3>1
    <3> HIDE DEF t
    <3>3. Range(k[i]) = Range(t) \cup {s[i]}
      BY <3>2 DEF Range
    <3>4. Range(t) = Upto(i - 1) \ {o}
      BY <1>4 DEF t
    <3>5. Range(k[i]) = Upto(i) \ {o}
      <4> HIDE DEF Upto
      <4> QED
        BY <2>1, <2>3, <3>3, <3>4
    <3>6. ASSUME Distinct(s) PROVE Distinct(k[i])
      <4>1. s[i] \notin Upto(i - 1)
        BY <1>2, <3>6 DEF Distinct
      <4>2. \A j \in 1..Len(t) : t[j] # s[i]
        <5>1. s[i] \notin Range(t)
          BY <3>4, <4>1
        <5> QED
          BY <3>2, <5>1 DEF Range
      <4>3. Distinct(t)
        BY <1>4, <3>6 DEF t
      <4> QED
        BY <3>2, <4>2, <4>3 DEF Distinct
    <3> QED
      BY <3>2, <3>5, <3>6
  <2> QED
    BY <2>2, <2>3
<1>5. P = 0..Len(s)
  <2> HIDE DEF Good
  <2>1. P \in SUBSET (0..Len(s)) /\ 0 \in P
    BY <1>2, <1>3
  <2>2. \A i \in 1..Len(s) : i - 1 \in P => i \in P
    BY <1>2, <1>4
  <2> HIDE DEF P
  <2> QED
    BY <1>2, <2>1, <2>2, Induction
<1>6. Good(Len(s))
  <2> HIDE DEF Good
  <2> QED
    BY <1>2, <1>5
<1>7. Upto(Len(s)) = Range(s)
  BY <1>2 DEF Range
<1> HIDE DEF Upto
<1> QED
  BY <1>1, <1>6, <1>7

\* How many numbers there are up to n.
LEMMA FirstNumbers ==
    ASSUME NEW n \in Nat
    PROVE  IsFiniteSet(1..n) /\ Cardinality(1..n) = n
<1>1. 1 \in Int /\ n \in Int
  OBVIOUS
<1>2. IsFiniteSet(1..n) /\ Cardinality(1..n) = IF 1 > n THEN 0 ELSE n - 1 + 1
  BY <1>1, FS_Interval, Zenon
<1> QED
  BY <1>2

\* The size of a sequence whose elements are distinct.
LEMMA DistinctSize ==
    ASSUME NEW s \in Seq(Object), Distinct(s)
    PROVE  IsFiniteSet(Range(s)) /\ Cardinality(Range(s)) = Len(s)
<1>1. Len(s) \in Nat /\ DOMAIN s = 1..Len(s)
  OBVIOUS
<1>2. IsFiniteSet(1..Len(s)) /\ Cardinality(1..Len(s)) = Len(s)
  BY <1>1, FirstNumbers
<1>3. s \in [1..Len(s) -> Range(s)]
  BY <1>1 DEF Range
<1>4. s \in Injection(1..Len(s), Range(s))
  BY <1>1, <1>3 DEF Distinct, Injection, IsInjective
<1>5. s \in Surjection(1..Len(s), Range(s))
  BY <1>1, <1>3 DEF Surjection, Range
<1>6. ExistsBijection(1..Len(s), Range(s))
  BY <1>4, <1>5 DEF ExistsBijection, Bijection
<1> QED
  BY <1>2, <1>6, FS_Bijection

(***************************************************************************)
(* Numbers.                                                                *)
(***************************************************************************)
\* A remainder is below the modulus.
LEMMA Modulo ==
    ASSUME NEW a \in Nat, NEW n \in Nat \ {0}
    PROVE  a % n \in 0..(n - 1)
OBVIOUS

\* A probe is one of the hashes.
LEMMA ProbeType ==
    ASSUME NEW v \in Nat, NEW count \in Nat
    PROVE  Probe(v, count) \in Hashes
<1>1. DataMax \in Nat \ {0} /\ FieldSize \in Nat \ {0}
  BY DataAssumption
<1>2. v % DataMax \in Nat /\ (count * 101) % DataMax \in Nat
  <2>1. count * 101 \in Nat
    OBVIOUS
  <2> QED
    BY <1>1, <2>1, Modulo
<1> DEFINE x == (v % DataMax) + ((count * 101) % DataMax)
<1>3. x \in Nat
  BY <1>2
<1> HIDE DEF x
<1>4. x % FieldSize \in Nat
  BY <1>1, <1>3, Modulo
<1>5. (x % FieldSize) % DataMax \in Hashes
  BY <1>1, <1>4, Modulo DEF Hashes
<1> QED
  BY <1>5 DEF Probe, x

(***************************************************************************)
(* An agent.                                                               *)
(***************************************************************************)
Tables == UNION {[H -> Object] : H \in SUBSET Hashes}

\* A hash table maps some of the hashes to elements.
LEMMA TableIs ==
    \A t : t \in Tables <=> \E H \in SUBSET Hashes : t \in [H -> Object]
BY DEF Tables

\* There are DataMax hashes.
LEMMA HashesFinite ==
    IsFiniteSet(Hashes) /\ \A H \in SUBSET Hashes : IsFiniteSet(H) /\ Cardinality(H) \in Nat
<1>1. IsFiniteSet(Hashes)
  BY DataAssumption, FS_Interval DEF Hashes
<1> QED
  BY <1>1, FS_Subset, FS_CardinalityType

\* Values are natural numbers.
LEMMA ValueTypes ==
    /\ \A o \in Object : val[o] \in Nat /\ val[o] \in Value
    /\ \A v \in Value : v \in Nat
BY DataAssumption DEF Value

\* The types of the parts of an agent.
LEMMA AgentFields ==
    ASSUME NEW a \in Agent
    PROVE  /\ a.kind \in Kinds /\ a.elems \in SUBSET Object /\ a.slipped \in SUBSET Value
           /\ a.refused \in SUBSET Object
           /\ a.bag \in [Value -> Int] /\ a.roots \in [Hashes -> Int]
           /\ DOMAIN a.table \in SUBSET Hashes /\ a.table \in [DOMAIN a.table -> Object]
<1>1. a.table \in Tables
  BY DEF Agent, Tables
<1>2. PICK H \in SUBSET Hashes : a.table \in [H -> Object]
  BY <1>1, TableIs
<1>3. DOMAIN a.table = H
  BY <1>2
<1> QED
  BY <1>2, <1>3 DEF Agent

\* The hash under which a running CPI agent stores an element is free.
LEMMA HashIsFree ==
    ASSUME NEW a \in Agent, NEW o \in Object, a.kind \in CPIKinds, Outcome(a, o) = "running"
    PROVE  /\ HashOf(a, val[o]) \in Hashes \ DOMAIN a.table
           /\ a.kind = "CPI" => Free(a, val[o]) # {}
<1>1. /\ DOMAIN a.table \in SUBSET Hashes /\ Cardinality(DOMAIN a.table) \in Nat
      /\ DataMax \in Nat \ {0} /\ val[o] \in Nat
  BY AgentFields, HashesFinite, ValueTypes, DataAssumption
<1>2. Cardinality(DOMAIN a.table) < DataMax
  BY <1>1 DEF Outcome, CPIKinds
<1>3. CASE a.kind = "CPI"
  <2>1. Free(a, val[o]) # {}
    BY <1>2, <1>3 DEF Outcome
  <2>2. Free(a, val[o]) \in SUBSET Nat
    BY DEF Free, Hashes
  <2>3. Least(Free(a, val[o])) \in Free(a, val[o])
    BY <2>1, <2>2, LeastIs
  <2>4. Probe(val[o], Least(Free(a, val[o]))) \in Hashes \ DOMAIN a.table
    <3> DEFINE n == Least(Free(a, val[o]))
    <3>1. n \in Nat /\ Probe(val[o], n) \notin DOMAIN a.table
      BY <2>3 DEF Free, Hashes
    <3> HIDE DEF n
    <3>2. Probe(val[o], n) \in Hashes
      BY <1>1, <3>1, ProbeType
    <3> QED
      BY <3>1, <3>2 DEF n
  <2> QED
    BY <1>3, <2>1, <2>4 DEF HashOf
<1>4. CASE a.kind = "CPIplain"
  <2>1. val[o] % DataMax \notin DOMAIN a.table
    BY <1>4 DEF Outcome
  <2>2. val[o] % DataMax \in Hashes
    BY <1>1, Modulo DEF Hashes
  <2> QED
    BY <1>4, <2>1, <2>2 DEF HashOf
<1> QED
  BY <1>3, <1>4 DEF CPIKinds

\* The table of an agent that has taken element o at hash h,
Entered(new, old, h, o) ==
    /\ DOMAIN new = DOMAIN old \cup {h}
    /\ \A g \in DOMAIN old \cup {h} : new[g] = IF g = h THEN o ELSE old[g]

\* and what addElem has made of the parts of an agent.
Takes(b, a, o, fails) ==
    /\ b \in Agent /\ b.kind = a.kind /\ b.slipped = a.slipped
    /\ b.elems = a.elems \cup {o}
    /\ a.kind \notin CPIKinds =>
         /\ b.table = a.table /\ b.roots = a.roots
         /\ b.bag = IF fails THEN a.bag ELSE [a.bag EXCEPT ![val[o]] = @ + 1]
         /\ b.refused = IF fails THEN a.refused \cup {o} ELSE a.refused
    /\ a.kind \in CPIKinds =>
         /\ b.bag = a.bag /\ b.refused = a.refused
         /\ b.roots = [a.roots EXCEPT ![HashOf(a, val[o])] = @ + 1]
         /\ Entered(b.table, a.table, HashOf(a, val[o]), o)

LEMMA AddedIs ==
    ASSUME NEW a \in Agent, NEW o \in Object, Outcome(a, o) = "running", NEW fails \in BOOLEAN
    PROVE  Takes(Added(a, o, fails), a, o, fails)
<1> DEFINE b == Added(a, o, fails)
           h == HashOf(a, val[o])
<1>1. /\ a.kind \in Kinds /\ a.elems \in SUBSET Object /\ a.slipped \in SUBSET Value
      /\ a.refused \in SUBSET Object
      /\ a.bag \in [Value -> Int] /\ a.roots \in [Hashes -> Int]
      /\ DOMAIN a.table \in SUBSET Hashes /\ a.table \in [DOMAIN a.table -> Object]
      /\ a = [kind |-> a.kind, elems |-> a.elems, bag |-> a.bag, table |-> a.table,
              roots |-> a.roots, slipped |-> a.slipped, refused |-> a.refused]
  BY AgentFields DEF Agent
<1>2. CASE a.kind \notin CPIKinds
  <2> DEFINE c == IF fails THEN a.bag ELSE [a.bag EXCEPT ![val[o]] = @ + 1]
             u == IF fails THEN a.refused \cup {o} ELSE a.refused
  <2>1. b = [kind |-> a.kind, elems |-> a.elems \cup {o}, bag |-> c, table |-> a.table,
             roots |-> a.roots, slipped |-> a.slipped, refused |-> u]
    <3>1. CASE fails
      <4>1. b = [a EXCEPT !.elems = @ \cup {o}, !.refused = @ \cup {o}]
        BY <1>2, <3>1 DEF Added
      <4> HIDE DEF b
      <4> QED
        BY <1>1, <3>1, <4>1
    <3>2. CASE ~fails
      <4> DEFINE d == [a.bag EXCEPT ![val[o]] = @ + 1]
      <4>1. b = [a EXCEPT !.elems = @ \cup {o}, !.bag = d]
        BY <1>2, <3>2 DEF Added
      <4>2. c = d /\ u = a.refused
        BY <3>2
      <4> HIDE DEF b, c, d, u
      <4> QED
        BY <1>1, <4>1, <4>2
    <3> QED
      BY <3>1, <3>2
  <2>2. c \in [Value -> Int]
    <3>1. a.bag[val[o]] + 1 \in Int
      BY <1>1, ValueTypes
    <3> QED
      BY <1>1, <3>1
  <2>3. a.table \in UNION {[H -> Object] : H \in SUBSET Hashes}
    BY DEF Agent
  <2>4. u \in SUBSET Object
    BY <1>1
  <2>5. b \in Agent
    <3> HIDE DEF b, c, u
    <3> QED
      BY <1>1, <2>1, <2>2, <2>3, <2>4 DEF Agent
  <2> HIDE DEF b, c, u
  <2>6. /\ b.kind = a.kind /\ b.slipped = a.slipped /\ b.elems = a.elems \cup {o}
        /\ b.table = a.table /\ b.roots = a.roots /\ b.bag = c /\ b.refused = u
    BY <2>1
  <2> QED
    BY <1>2, <2>5, <2>6, Zenon DEF b, c, u, Takes
<1>3. CASE a.kind \in CPIKinds
  <2> DEFINE t == [g \in DOMAIN a.table \cup {h} |-> IF g = h THEN o ELSE a.table[g]]
             r == [a.roots EXCEPT ![h] = @ + 1]
  <2>1. b = [kind |-> a.kind, elems |-> a.elems \cup {o}, bag |-> a.bag, table |-> t,
             roots |-> r, slipped |-> a.slipped, refused |-> a.refused]
    BY <1>1, <1>3 DEF Added
  <2>2. h \in Hashes \ DOMAIN a.table
    BY <1>3, HashIsFree
  <2> HIDE DEF h, b
  <2>3. r \in [Hashes -> Int]
    <3>1. a.roots[h] + 1 \in Int
      BY <1>1, <2>2
    <3> QED
      BY <1>1, <3>1
  <2>4. DOMAIN a.table \cup {h} \in SUBSET Hashes /\ t \in [DOMAIN a.table \cup {h} -> Object]
    BY <1>1, <2>2
  <2>5. DOMAIN t = DOMAIN a.table \cup {h}
    OBVIOUS
  <2>6. \A g \in DOMAIN a.table \cup {h} : t[g] = IF g = h THEN o ELSE a.table[g]
    OBVIOUS
  <2> HIDE DEF t, r
  <2>7. t \in UNION {[H -> Object] : H \in SUBSET Hashes}
    BY <2>4, TableIs DEF Tables
  <2>8. b \in Agent
    BY <1>1, <2>1, <2>3, <2>7 DEF Agent
  <2>9. /\ b.kind = a.kind /\ b.slipped = a.slipped /\ b.elems = a.elems \cup {o}
        /\ b.table = t /\ b.roots = r /\ b.bag = a.bag /\ b.refused = a.refused
    BY <2>1
  <2>10. DOMAIN b.table = DOMAIN a.table \cup {h}
    BY <2>5, <2>9
  <2>11. \A g \in DOMAIN a.table \cup {h} : b.table[g] = IF g = h THEN o ELSE a.table[g]
    BY <2>6, <2>9
  <2>12. Entered(b.table, a.table, h, o)
    BY <2>10, <2>11, Zenon DEF Entered
  <2> QED
    BY <1>3, <2>8, <2>9, <2>12, Zenon DEF b, h, r, Takes
<1> QED
  BY <1>2, <1>3

(***************************************************************************)
(* The hashes that the copies of a value get.                              *)
(***************************************************************************)
Before(v, h) == {g \in Reach(v) : FirstAt(v, g) < FirstAt(v, h)}

\* A hash that is reached is first probed at some count.
LEMMA FirstIs ==
    ASSUME NEW v \in Nat, NEW h \in Reach(v)
    PROVE  /\ h \in Hashes /\ FirstAt(v, h) \in Hashes /\ Probe(v, FirstAt(v, h)) = h
           /\ \A count \in Hashes : Probe(v, count) = h => FirstAt(v, h) <= count
<1> DEFINE T == {count \in Hashes : Probe(v, count) = h}
<1>1. T \in SUBSET Nat /\ T # {}
  BY DEF Reach, Hashes
<1>2. Least(T) \in T /\ \A m \in T : Least(T) <= m
  <2> HIDE DEF T
  <2> QED
    BY <1>1, LeastIs
<1>3. FirstAt(v, h) = Least(T)
  BY DEF FirstAt
<1>4. h \in Hashes
  <2>1. PICK count \in Hashes : h = Probe(v, count)
    BY DEF Reach
  <2>2. count \in Nat
    BY DEF Hashes
  <2> QED
    BY <2>1, <2>2, ProbeType
<1> QED
  BY <1>2, <1>3, <1>4

\* What is probed before a hash is a finite set of hashes.
LEMMA BeforeIs ==
    ASSUME NEW v \in Nat, NEW h \in Reach(v)
    PROVE  /\ Before(v, h) \in SUBSET Reach(v) /\ IsFiniteSet(Before(v, h))
           /\ Cardinality(Before(v, h)) \in Nat /\ h \notin Before(v, h)
           /\ \A n : h \in Alone(v, n) <=> Cardinality(Before(v, h)) < n
<1>1. Before(v, h) \in SUBSET Reach(v) /\ Reach(v) \in SUBSET Hashes
  BY FirstIs DEF Before
<1>2. Before(v, h) \in SUBSET Hashes
  BY <1>1
<1>3. h \notin Before(v, h)
  <2>1. FirstAt(v, h) \in Nat
    BY FirstIs DEF Hashes
  <2> QED
    BY <2>1 DEF Before
<1> QED
  BY <1>1, <1>2, <1>3, HashesFinite DEF Alone, Before

\* Of what is probed before h, one comes last.
LEMMA BeforeLast ==
    ASSUME NEW v \in Nat, NEW h \in Reach(v), Before(v, h) # {}
    PROVE  \E e \in Before(v, h) : Before(v, h) = Before(v, e) \cup {e}
<1> DEFINE T == {DataMax - FirstAt(v, g) : g \in Before(v, h)}
<1>1. Before(v, h) \in SUBSET Reach(v)
  BY BeforeIs
<1>2. DataMax \in Nat
  BY DataAssumption
<1>3. T \in SUBSET Nat /\ T # {}
  <2>1. \A g \in Before(v, h) : FirstAt(v, g) \in 0..(DataMax - 1)
    BY <1>1, FirstIs DEF Hashes
  <2>2. \A g \in Before(v, h) : DataMax - FirstAt(v, g) \in Nat
    BY <1>2, <2>1
  <2> QED
    BY <2>2
<1>4. PICK x \in T : \A y \in T : x <= y
  <2> HIDE DEF T
  <2> QED
    BY <1>3, LeastNumber
<1>5. PICK e \in Before(v, h) : x = DataMax - FirstAt(v, e)
  BY <1>4
<1>6. ASSUME NEW g \in Before(v, h), g # e
      PROVE  g \in Before(v, e)
  <2>1. /\ g \in Reach(v) /\ e \in Reach(v)
        /\ FirstAt(v, g) \in Int /\ FirstAt(v, e) \in Int
    BY <1>1, FirstIs DEF Hashes
  <2>2. FirstAt(v, g) # FirstAt(v, e)
    BY <1>6, <2>1, FirstIs
  <2>3. x <= DataMax - FirstAt(v, g)
    BY <1>4
  <2>4. FirstAt(v, g) < FirstAt(v, e)
    BY <1>2, <1>5, <2>1, <2>2, <2>3
  <2> QED
    BY <2>1, <2>4 DEF Before
<1>7. ASSUME NEW g \in Before(v, e)
      PROVE  g \in Before(v, h)
  <2>1. /\ g \in Reach(v) /\ e \in Reach(v)
        /\ FirstAt(v, g) \in Int /\ FirstAt(v, e) \in Int /\ FirstAt(v, h) \in Int
        /\ FirstAt(v, g) < FirstAt(v, e) /\ FirstAt(v, e) < FirstAt(v, h)
    BY <1>1, FirstIs DEF Hashes, Before
  <2>2. FirstAt(v, g) < FirstAt(v, h)
    BY <2>1
  <2> QED
    BY <2>1, <2>2 DEF Before
<1>8. Before(v, h) = Before(v, e) \cup {e}
  BY <1>6, <1>7
<1> QED
  BY <1>8

\* The next copy of a value gets the next of its hashes, if the hashes that are taken
\* are those of its other copies and some that this copy would not reach.
LEMMA NextAlone ==
    ASSUME NEW v \in Nat, NEW n \in Nat, NEW T,
           Alone(v, n) \subseteq T, Alone(v, n + 1) \cap (T \ Alone(v, n)) = {},
           {count \in Hashes : Probe(v, count) \notin T} # {}
    PROVE  Alone(v, n + 1)
             = Alone(v, n) \cup {Probe(v, Least({count \in Hashes : Probe(v, count) \notin T}))}
<1> DEFINE F == {count \in Hashes : Probe(v, count) \notin T}
           h == Probe(v, Least(F))
           U == Reach(v) \ Alone(v, n)
           rank(g) == Cardinality(Before(v, g))
<1>1. Least(F) \in F /\ \A m \in F : Least(F) <= m
  <2>1. F \in SUBSET Nat
    BY DEF Hashes
  <2> HIDE DEF F
  <2> QED
    BY <2>1, LeastIs DEF F
<1>2. h \in Reach(v) /\ h \notin T /\ FirstAt(v, h) = Least(F)
  <2>1. Least(F) \in Hashes /\ h \notin T /\ h \in Reach(v)
    BY <1>1 DEF Reach
  <2>2. FirstAt(v, h) \in F /\ FirstAt(v, h) <= Least(F)
    <3> HIDE DEF h
    <3>1. FirstAt(v, h) \in F
      BY <2>1, FirstIs
    <3> QED
      BY <2>1, <3>1, FirstIs DEF h
  <2>3. FirstAt(v, h) \in Int /\ Least(F) \in Int /\ Least(F) <= FirstAt(v, h)
    <3>1. F \in SUBSET Int
      BY DEF Hashes
    <3> HIDE DEF F, h
    <3> QED
      BY <1>1, <2>2, <3>1
  <2>4. FirstAt(v, h) = Least(F)
    <3> HIDE DEF F, h
    <3> QED
      BY <2>2, <2>3
  <2> QED
    BY <2>1, <2>4
<1> HIDE DEF h
<1>3. h \in U /\ U \in SUBSET Reach(v)
  BY <1>2
<1>4. PICK g \in U : \A x \in U : FirstAt(v, g) <= FirstAt(v, x)
  <2> DEFINE N == {FirstAt(v, x) : x \in U}
  <2>1. N \in SUBSET Nat /\ N # {}
    BY <1>3, FirstIs DEF Hashes
  <2>2. PICK y \in N : \A z \in N : y <= z
    <3> HIDE DEF N
    <3> QED
      BY <2>1, LeastNumber
  <2> QED
    BY <2>2
<1> HIDE DEF U
<1>5. g \in Reach(v) /\ g \notin Alone(v, n) /\ rank(g) \in Nat
  BY <1>4, BeforeIs DEF U
<1>6. Before(v, g) \subseteq Alone(v, n)
  <2> SUFFICES ASSUME NEW x \in Before(v, g), x \in U PROVE FALSE
    BY DEF U, Before
  <2>1. FirstAt(v, x) \in Int /\ FirstAt(v, g) \in Int
    BY <1>5, FirstIs DEF Before, Hashes
  <2>2. FirstAt(v, x) < FirstAt(v, g) /\ FirstAt(v, g) <= FirstAt(v, x)
    BY <1>4 DEF Before
  <2> QED
    BY <2>1, <2>2
<1>7. rank(g) <= n
  <2>1. CASE Before(v, g) = {}
    <3>1. rank(g) = 0
      BY <2>1, FS_EmptySet
    <3> QED
      BY <3>1
  <2>2. CASE Before(v, g) # {}
    <3>1. PICK e \in Before(v, g) : Before(v, g) = Before(v, e) \cup {e}
      BY <1>5, <2>2, BeforeLast
    <3>2. e \in Reach(v) /\ e \in Alone(v, n)
      BY <1>6 DEF Before
    <3>3. rank(e) \in Nat /\ rank(e) < n /\ e \notin Before(v, e) /\ IsFiniteSet(Before(v, e))
      BY <3>2, BeforeIs
    <3>4. rank(g) = rank(e) + 1
      BY <3>1, <3>3, FS_AddElement
    <3> HIDE DEF rank
    <3> QED
      BY <3>3, <3>4
  <2> QED
    BY <2>1, <2>2
<1>8. g \in Alone(v, n + 1)
  <2>1. rank(g) < n + 1
    BY <1>5, <1>7
  <2> QED
    BY <1>5, <2>1, BeforeIs
<1>9. g = h
  <2> SUFFICES ASSUME g # h PROVE FALSE
    OBVIOUS
  <2>1. FirstAt(v, g) <= FirstAt(v, h) /\ FirstAt(v, g) # FirstAt(v, h)
    BY <1>2, <1>3, <1>4, <1>5, FirstIs
  <2>2. FirstAt(v, g) \in Int /\ FirstAt(v, h) \in Int
    BY <1>2, <1>5, FirstIs DEF Hashes
  <2>3. ~(Least(F) <= FirstAt(v, g))
    BY <1>2, <2>1, <2>2
  <2>4. g \in T
    <3>1. FirstAt(v, g) \notin F
      BY <1>1, <2>3
    <3> QED
      BY <1>5, <3>1, FirstIs
  <2> QED
    BY <1>5, <1>8, <2>4
<1>10. ASSUME NEW x \in Alone(v, n + 1), x \notin Alone(v, n)
       PROVE  x = h
  <2> SUFFICES ASSUME x # h PROVE FALSE
    OBVIOUS
  <2>1. x \in Reach(v) /\ x \in U
    BY <1>10 DEF U, Alone
  <2>2. rank(x) \in Nat /\ rank(x) < n + 1 /\ IsFiniteSet(Before(v, x))
    BY <1>10, <2>1, BeforeIs
  <2>3. FirstAt(v, h) <= FirstAt(v, x) /\ FirstAt(v, h) # FirstAt(v, x)
    BY <1>2, <1>4, <1>9, <2>1, FirstIs
  <2>4. FirstAt(v, x) \in Int /\ FirstAt(v, h) \in Int
    BY <1>2, <2>1, FirstIs DEF Hashes
  <2>5. FirstAt(v, h) < FirstAt(v, x)
    BY <2>3, <2>4
  <2>6. Before(v, h) \cup {h} \in SUBSET Before(v, x)
    <3>1. h \in Before(v, x)
      BY <1>2, <2>5 DEF Before
    <3>2. ASSUME NEW y \in Before(v, h) PROVE y \in Before(v, x)
      <4>1. y \in Reach(v) /\ FirstAt(v, y) \in Int /\ FirstAt(v, y) < FirstAt(v, h)
        BY FirstIs DEF Before, Hashes
      <4>2. FirstAt(v, y) < FirstAt(v, x)
        BY <2>4, <2>5, <4>1
      <4> QED
        BY <4>1, <4>2 DEF Before
    <3> QED
      BY <3>1, <3>2
  <2>7. Cardinality(Before(v, h) \cup {h}) <= rank(x)
    BY <2>2, <2>6, FS_Subset
  <2>8. Cardinality(Before(v, h) \cup {h}) = rank(h) + 1
    BY <1>2, BeforeIs, FS_AddElement
  <2>9. rank(h) \in Nat /\ ~(rank(h) < n)
    BY <1>5, <1>9, BeforeIs
  <2> HIDE DEF rank
  <2> QED
    BY <2>2, <2>7, <2>8, <2>9
<1>11. ASSUME NEW x \in Alone(v, n) PROVE x \in Alone(v, n + 1)
  <2>1. x \in Reach(v)
    BY DEF Alone
  <2>2. rank(x) \in Nat /\ rank(x) < n
    BY <2>1, BeforeIs
  <2>3. rank(x) < n + 1
    BY <2>2
  <2> QED
    BY <2>1, <2>3, BeforeIs
<1> QED
  BY <1>8, <1>9, <1>10, <1>11 DEF h

(***************************************************************************)
(* The invariant of an agent that holds the elements S.                    *)
(***************************************************************************)
Stored(a, S) ==
    /\ \A g, h \in DOMAIN a.table : a.table[g] = a.table[h] => g = h
    /\ \A h \in DOMAIN a.table : a.table[h] \in S
    /\ \A o \in S : \E h \in DOMAIN a.table : a.table[h] = o
    /\ Cardinality(DOMAIN a.table) = Cardinality(S)
    /\ \A h \in Hashes : a.roots[h] = IF h \in DOMAIN a.table THEN 1 ELSE 0

\* The bag of an agent counts T, as far as values have not slipped.
Tally(a, T) ==
    \A v \in Value :
        IF v \notin a.slipped THEN a.bag[v] = Copies(T, v)
        ELSE /\ a.kind = "Full" => a.bag[v] <= Copies(T, v)
             /\ a.kind = "Cuckoo" => a.bag[v] >= Copies(T, v)

\* The elements of S that went into the summary.
Into(a, S) == IF a.kind = "Cuckoo" THEN S \ a.refused ELSE S
Counted(a, S) == Tally(a, Into(a, S))

Apart(S) ==
    \A v, w \in Value : v # w => Alone(v, Copies(S, v)) \cap Alone(w, Copies(S, w)) = {}

ByValue(a, S) ==
    a.slipped = {} /\ Apart(S) => DOMAIN a.table = UNION {Alone(v, Copies(S, v)) : v \in Value}

Holds(a, S) ==
    /\ a \in Agent
    /\ a.elems = S /\ a.refused \subseteq S
    /\ a.kind \in CPIKinds => Stored(a, S)
    /\ a.kind \in BagKinds => Counted(a, S)
    /\ a.kind = "CPI" => ByValue(a, S)

\* One more element is one more copy of its value and of no other.
LEMMA CopiesWith ==
    ASSUME NEW S \in SUBSET Object, IsFiniteSet(S), NEW o \in Object, o \notin S
    PROVE  \A v : /\ Copies(S, v) \in Nat
                  /\ Copies(S \cup {o}, v)
                        = IF v = val[o] THEN Copies(S, v) + 1 ELSE Copies(S, v)
<1> SUFFICES ASSUME NEW v
             PROVE  /\ Copies(S, v) \in Nat
                    /\ Copies(S \cup {o}, v)
                        = IF v = val[o] THEN Copies(S, v) + 1 ELSE Copies(S, v)
  OBVIOUS
<1> DEFINE T == {p \in S : val[p] = v}
           Q == {p \in S \cup {o} : val[p] = v}
<1>1. IsFiniteSet(T) /\ o \notin T
  BY FS_Subset
<1>2. Q = IF v = val[o] THEN T \cup {o} ELSE T
  OBVIOUS
<1>3. Copies(S, v) = Cardinality(T) /\ Copies(S \cup {o}, v) = Cardinality(Q)
  BY DEF Copies
<1> HIDE DEF T, Q
<1>4. Cardinality(T) \in Nat
  BY <1>1, FS_CardinalityType
<1>5. Cardinality(T \cup {o}) = Cardinality(T) + 1
  BY <1>1, FS_AddElement
<1> QED
  BY <1>2, <1>3, <1>4, <1>5

\* One element less is one copy less of its value and of no other.
LEMMA CopiesWithout ==
    ASSUME NEW S \in SUBSET Object, IsFiniteSet(S), NEW o \in S
    PROVE  \A v : /\ Copies(S, v) \in Nat
                  /\ Copies(S \ {o}, v)
                        = IF v = val[o] THEN Copies(S, v) - 1 ELSE Copies(S, v)
<1> SUFFICES ASSUME NEW v
             PROVE  /\ Copies(S, v) \in Nat
                    /\ Copies(S \ {o}, v)
                        = IF v = val[o] THEN Copies(S, v) - 1 ELSE Copies(S, v)
  OBVIOUS
<1> DEFINE T == {p \in S : val[p] = v}
           Q == {p \in S \ {o} : val[p] = v}
<1>1. IsFiniteSet(T) /\ (v = val[o] => o \in T)
  BY FS_Subset
<1>2. Q = IF v = val[o] THEN T \ {o} ELSE T
  OBVIOUS
<1>3. Copies(S, v) = Cardinality(T) /\ Copies(S \ {o}, v) = Cardinality(Q)
  BY DEF Copies
<1> HIDE DEF T, Q
<1>4. Cardinality(T) \in Nat
  BY <1>1, FS_CardinalityType
<1>5. o \in T => Cardinality(T \ {o}) = Cardinality(T) - 1
  BY <1>1, FS_RemoveElement
<1> QED
  BY <1>1, <1>2, <1>3, <1>4, <1>5

\* An agent that holds S and is given o holds both.
LEMMA HoldsMore ==
    ASSUME NEW a, NEW S \in SUBSET Object, IsFiniteSet(S), Holds(a, S),
           NEW o \in Object, o \notin S, Outcome(a, o) = "running",
           NEW fails \in BOOLEAN, fails => a.kind = "Cuckoo"
    PROVE  Holds(Added(a, o, fails), S \cup {o})
<1> DEFINE b == Added(a, o, fails)
           h == HashOf(a, val[o])
           R == S \cup {o}
<1>1. a \in Agent /\ a.elems = S /\ a.refused \subseteq S
  BY DEF Holds
<1>0. Takes(b, a, o, fails)
  BY <1>1, AddedIs
<1>2. b \in Agent /\ b.kind = a.kind /\ b.slipped = a.slipped /\ b.elems = R
  BY <1>0, <1>1 DEF Takes
<1>3. /\ DOMAIN a.table \in SUBSET Hashes /\ IsFiniteSet(DOMAIN a.table)
      /\ a.bag \in [Value -> Int] /\ a.roots \in [Hashes -> Int]
  BY <1>1, AgentFields, HashesFinite
<1>4. a.kind \in CPIKinds =>
        /\ b.roots = [a.roots EXCEPT ![h] = @ + 1]
        /\ DOMAIN b.table = DOMAIN a.table \cup {h}
        /\ \A g \in DOMAIN a.table \cup {h} : b.table[g] = IF g = h THEN o ELSE a.table[g]
        /\ h \in Hashes \ DOMAIN a.table
  <2> SUFFICES ASSUME a.kind \in CPIKinds
               PROVE  /\ b.roots = [a.roots EXCEPT ![h] = @ + 1]
                      /\ DOMAIN b.table = DOMAIN a.table \cup {h}
                      /\ \A g \in DOMAIN a.table \cup {h} :
                            b.table[g] = IF g = h THEN o ELSE a.table[g]
                      /\ h \in Hashes \ DOMAIN a.table
    OBVIOUS
  <2>1. h \in Hashes \ DOMAIN a.table
    BY <1>1, HashIsFree
  <2>2. /\ b.roots = [a.roots EXCEPT ![h] = @ + 1]
        /\ DOMAIN b.table = DOMAIN a.table \cup {h}
        /\ \A g \in DOMAIN a.table \cup {h} :
              b.table[g] = IF g = h THEN o ELSE a.table[g]
    <3>1. Entered(b.table, a.table, h, o) /\ b.roots = [a.roots EXCEPT ![h] = @ + 1]
      BY <1>0, Zenon DEF Takes
    <3>2. /\ DOMAIN b.table = DOMAIN a.table \cup {h}
          /\ \A g \in DOMAIN a.table \cup {h} :
                b.table[g] = IF g = h THEN o ELSE a.table[g]
      BY <3>1, Zenon DEF Entered
    <3> QED
      BY <3>1, <3>2, Zenon
  <2> QED
    BY <2>1, <2>2, Zenon
<1>5. /\ a.kind \notin CPIKinds =>
            /\ b.bag = IF fails THEN a.bag ELSE [a.bag EXCEPT ![val[o]] = @ + 1]
            /\ b.refused = IF fails THEN a.refused \cup {o} ELSE a.refused
      /\ a.kind \in CPIKinds => b.refused = a.refused
  BY <1>0, Zenon DEF Takes
<1>6. \A v : /\ Copies(S, v) \in Nat
             /\ Copies(R, v) = IF v = val[o] THEN Copies(S, v) + 1 ELSE Copies(S, v)
  BY CopiesWith
<1> HIDE DEF b
<1>7. ASSUME a.kind \in CPIKinds PROVE Stored(b, R)
  <2> HIDE DEF h
  <2>1. Stored(a, S)
    BY <1>7 DEF Holds
  <2>2. \A f, g \in DOMAIN b.table : b.table[f] = b.table[g] => f = g
    BY <1>4, <1>7, <2>1 DEF Stored
  <2>3. \A g \in DOMAIN b.table : b.table[g] \in R
    BY <1>4, <1>7, <2>1 DEF Stored
  <2>4. ASSUME NEW p \in R PROVE \E g \in DOMAIN b.table : b.table[g] = p
    <3>1. CASE p = o
      BY <1>4, <1>7, <3>1
    <3>2. CASE p # o
      <4>1. PICK g \in DOMAIN a.table : a.table[g] = p
        BY <2>1, <3>2 DEF Stored
      <4>2. g # h /\ g \in DOMAIN b.table
        BY <1>4, <1>7
      <4> QED
        BY <1>4, <1>7, <4>1, <4>2
    <3> QED
      BY <3>1, <3>2
  <2>5. Cardinality(DOMAIN b.table) = Cardinality(R)
    <3>1. Cardinality(DOMAIN b.table) = Cardinality(DOMAIN a.table) + 1
      BY <1>3, <1>4, <1>7, FS_AddElement
    <3>2. Cardinality(R) = Cardinality(S) + 1
      BY FS_AddElement
    <3> QED
      BY <2>1, <3>1, <3>2 DEF Stored
  <2>6. ASSUME NEW g \in Hashes
        PROVE  b.roots[g] = IF g \in DOMAIN b.table THEN 1 ELSE 0
    <3>1. a.roots[g] = IF g \in DOMAIN a.table THEN 1 ELSE 0
      BY <2>1 DEF Stored
    <3>2. b.roots[g] = IF g = h THEN a.roots[g] + 1 ELSE a.roots[g]
      BY <1>3, <1>4, <1>7
    <3> QED
      BY <1>4, <1>7, <3>1, <3>2
  <2> QED
    BY <2>2, <2>3, <2>4, <2>5, <2>6 DEF Stored
<1>8. ASSUME a.kind \in BagKinds PROVE Counted(b, R)
  <2> DEFINE T == Into(a, S)
             Q == Into(b, R)
  <2>1. Tally(a, T) /\ a.kind \notin CPIKinds
    BY <1>8 DEF Holds, Counted, BagKinds, CPIKinds
  <2>2. b.slipped = a.slipped /\ b.kind = a.kind
    BY <1>2
  <2>3. T \in SUBSET Object /\ IsFiniteSet(T) /\ o \notin T
    <3>1. T \subseteq S
      BY DEF Into
    <3> HIDE DEF T
    <3> QED
      BY <3>1, FS_Subset
  <2>4. CASE fails
    <3>1. Q = T /\ b.bag = a.bag
      BY <1>1, <1>5, <2>1, <2>2, <2>4 DEF Into
    <3> HIDE DEF T, Q
    <3> QED
      BY <2>1, <2>2, <3>1 DEF Tally, Counted, Q
  <2>5. CASE ~fails
    <3>1. Q = T \cup {o}
      BY <1>1, <1>5, <2>1, <2>2, <2>5 DEF Into
    <3>2. b.bag = [a.bag EXCEPT ![val[o]] = @ + 1]
      BY <1>5, <2>1, <2>5
    <3> HIDE DEF T, Q
    <3> SUFFICES ASSUME NEW v \in Value
                 PROVE  IF v \notin b.slipped THEN b.bag[v] = Copies(Q, v)
                        ELSE /\ b.kind = "Full" => b.bag[v] <= Copies(Q, v)
                             /\ b.kind = "Cuckoo" => b.bag[v] >= Copies(Q, v)
      BY DEF Counted, Tally, Q
    <3>3. b.bag[v] = IF v = val[o] THEN a.bag[v] + 1 ELSE a.bag[v]
      BY <1>3, <3>2
    <3>4. /\ a.bag[v] \in Int /\ Copies(T, v) \in Int
          /\ Copies(Q, v) = IF v = val[o] THEN Copies(T, v) + 1 ELSE Copies(T, v)
      BY <1>3, <2>3, <3>1, CopiesWith
    <3>5. IF v \notin a.slipped THEN a.bag[v] = Copies(T, v)
          ELSE /\ a.kind = "Full" => a.bag[v] <= Copies(T, v)
               /\ a.kind = "Cuckoo" => a.bag[v] >= Copies(T, v)
      BY <2>1 DEF Tally
    <3> DEFINE x == a.bag[v]
               y == b.bag[v]
               m == Copies(T, v)
               n == Copies(Q, v)
    <3> HIDE DEF x, y, m, n
    <3> QED
      BY <2>2, <3>3, <3>4, <3>5 DEF x, y, m, n
  <2> QED
    BY <2>4, <2>5
<1>9. ASSUME a.kind = "CPI" PROVE ByValue(b, R)
  <2> DEFINE v == val[o]
             n == Copies(S, v)
  <2> SUFFICES ASSUME b.slipped = {}, Apart(R)
               PROVE  DOMAIN b.table = UNION {Alone(w, Copies(R, w)) : w \in Value}
    BY DEF ByValue
  <2>1. v \in Value /\ v \in Nat /\ n \in Nat /\ Value \in SUBSET Nat
    BY <1>6, ValueTypes
  <2>2. Copies(R, v) = n + 1 /\ \A w \in Value : w # v => Copies(R, w) = Copies(S, w)
    BY <1>6
  <2> HIDE DEF v, n
  <2>3. Alone(v, n) \subseteq Alone(v, n + 1)
    <3> SUFFICES ASSUME NEW g \in Alone(v, n) PROVE g \in Alone(v, n + 1)
      OBVIOUS
    <3>1. g \in Reach(v)
      BY DEF Alone
    <3>2. Cardinality(Before(v, g)) \in Nat /\ Cardinality(Before(v, g)) < n
      BY <2>1, <3>1, BeforeIs
    <3>3. Cardinality(Before(v, g)) < n + 1
      BY <2>1, <3>2
    <3> QED
      BY <2>1, <3>1, <3>3, BeforeIs
  <2>4. \A w \in Value : w # v => Alone(v, n + 1) \cap Alone(w, Copies(S, w)) = {}
    BY <2>1, <2>2 DEF Apart
  <2>5. Apart(S)
    <3> SUFFICES ASSUME NEW x \in Value, NEW y \in Value, x # y
                 PROVE  Alone(x, Copies(S, x)) \cap Alone(y, Copies(S, y)) = {}
      BY DEF Apart
    <3>1. CASE x = v
      BY <2>3, <2>4, <3>1 DEF n
    <3>2. CASE y = v
      BY <2>3, <2>4, <3>2 DEF n
    <3>3. CASE x # v /\ y # v
      <4>1. Alone(x, Copies(R, x)) \cap Alone(y, Copies(R, y)) = {}
        BY DEF Apart
      <4> QED
        BY <2>2, <3>3, <4>1
    <3> QED
      BY <3>1, <3>2, <3>3
  <2>6. DOMAIN a.table = UNION {Alone(w, Copies(S, w)) : w \in Value}
    BY <1>2, <1>9, <2>5 DEF Holds, ByValue
  <2>7. /\ Alone(v, n) \subseteq DOMAIN a.table
        /\ Alone(v, n + 1) \cap (DOMAIN a.table \ Alone(v, n)) = {}
    BY <2>1, <2>4, <2>6 DEF n
  <2>8. Free(a, v) = {count \in Hashes : Probe(v, count) \notin DOMAIN a.table}
    BY DEF Free
  <2>9. Free(a, v) # {}
    BY <1>1, <1>9, HashIsFree DEF CPIKinds, v
  <2>10. Alone(v, n + 1) = Alone(v, n) \cup {Probe(v, Least(Free(a, v)))}
    BY <2>1, <2>7, <2>8, <2>9, NextAlone
  <2>11. h = Probe(v, Least(Free(a, v)))
    BY <1>9 DEF HashOf, v
  <2>12. DOMAIN b.table = DOMAIN a.table \cup {h}
    BY <1>4, <1>9 DEF CPIKinds
  <2> HIDE DEF h
  <2>13. ASSUME NEW g \in DOMAIN b.table
         PROVE  \E w \in Value : g \in Alone(w, Copies(R, w))
    <3>1. CASE g = h
      BY <2>1, <2>2, <2>10, <2>11, <3>1
    <3>2. CASE g # h
      <4>1. PICK w \in Value : g \in Alone(w, Copies(S, w))
        BY <2>6, <2>12, <3>2
      <4>2. CASE w = v
        BY <2>1, <2>2, <2>3, <4>1, <4>2 DEF n
      <4>3. CASE w # v
        BY <2>2, <4>1, <4>3
      <4> QED
        BY <4>2, <4>3
    <3> QED
      BY <3>1, <3>2
  <2>14. ASSUME NEW w \in Value, NEW g \in Alone(w, Copies(R, w))
         PROVE  g \in DOMAIN b.table
    <3>1. CASE w = v
      <4>1. g \in Alone(v, n) \cup {h}
        BY <2>2, <2>10, <2>11, <3>1
      <4> QED
        BY <2>7, <2>12, <4>1
    <3>2. CASE w # v
      <4>1. g \in Alone(w, Copies(S, w))
        BY <2>2, <3>2
      <4> QED
        BY <2>6, <2>12, <4>1
    <3> QED
      BY <3>1, <3>2
  <2> QED
    BY <2>13, <2>14
<1>10. b.refused \subseteq R
  BY <1>1, <1>5
<1> QED
  BY <1>2, <1>7, <1>8, <1>9, <1>10 DEF Holds, b

\* What delElem does to the parts of an agent.
LEMMA DeletedIs ==
    ASSUME NEW a \in Agent, NEW o \in Object
    PROVE  /\ Deleted(a, o) \in Agent
           /\ Deleted(a, o).kind = a.kind
           /\ Deleted(a, o).elems = a.elems \ {o}
           /\ Deleted(a, o).bag = [a.bag EXCEPT ![val[o]] = BagAfter(a, val[o])]
           /\ Deleted(a, o).roots = WithoutRoot(a, o)
           /\ Deleted(a, o).slipped
                = IF Slips(a, o) THEN a.slipped \cup {val[o]} ELSE a.slipped
           /\ Deleted(a, o).refused = a.refused \ {o}
           /\ DOMAIN Deleted(a, o).table = {h \in DOMAIN a.table : a.table[h] # o}
           /\ \A h \in DOMAIN Deleted(a, o).table : Deleted(a, o).table[h] = a.table[h]
<1> DEFINE b == Deleted(a, o)
           kept == {h \in DOMAIN a.table : a.table[h] # o}
           t == [h \in kept |-> a.table[h]]
           g == [a.bag EXCEPT ![val[o]] = BagAfter(a, val[o])]
           r == WithoutRoot(a, o)
           l == IF Slips(a, o) THEN a.slipped \cup {val[o]} ELSE a.slipped
<1>1. /\ a.kind \in Kinds /\ a.elems \in SUBSET Object /\ a.slipped \in SUBSET Value
      /\ a.refused \in SUBSET Object
      /\ a.bag \in [Value -> Int] /\ a.roots \in [Hashes -> Int]
      /\ DOMAIN a.table \in SUBSET Hashes /\ a.table \in [DOMAIN a.table -> Object]
      /\ a = [kind |-> a.kind, elems |-> a.elems, bag |-> a.bag, table |-> a.table,
              roots |-> a.roots, slipped |-> a.slipped, refused |-> a.refused]
  BY AgentFields DEF Agent
<1>2. b = [kind |-> a.kind, elems |-> a.elems \ {o}, bag |-> g, table |-> t,
           roots |-> r, slipped |-> l, refused |-> a.refused \ {o}]
  <2>1. b = [a EXCEPT !.elems = a.elems \ {o}, !.bag = g, !.roots = r, !.table = t,
                      !.slipped = l, !.refused = a.refused \ {o}]
    BY DEF Deleted
  <2> HIDE DEF b, g, r, t, l
  <2> QED
    BY <1>1, <2>1
<1>3. g \in [Value -> Int]
  <2>1. a.bag[val[o]] \in Int
    BY <1>1, ValueTypes
  <2>2. BagAfter(a, val[o]) \in Int
    BY <2>1 DEF BagAfter
  <2> QED
    BY <1>1, <2>2
<1>4. r \in [Hashes -> Int]
  BY <1>1 DEF WithoutRoot
<1>5. l \in SUBSET Value
  BY <1>1, ValueTypes
<1>6. kept \in SUBSET Hashes /\ t \in [kept -> Object] /\ DOMAIN t = kept
      /\ \A h \in kept : t[h] = a.table[h]
  BY <1>1
<1> HIDE DEF b, g, t, r, l, kept
<1>7. t \in UNION {[H -> Object] : H \in SUBSET Hashes}
  BY <1>6, TableIs DEF Tables
<1>8. b \in Agent
  BY <1>1, <1>2, <1>3, <1>4, <1>5, <1>7 DEF Agent
<1>9. /\ b.kind = a.kind /\ b.elems = a.elems \ {o} /\ b.bag = g /\ b.roots = r
      /\ b.slipped = l /\ b.table = t /\ b.refused = a.refused \ {o}
  BY <1>2
<1>10. DOMAIN b.table = kept /\ \A h \in DOMAIN b.table : b.table[h] = a.table[h]
  BY <1>6, <1>9
<1> QED
  BY <1>8, <1>9, <1>10, Zenon DEF b, g, r, l, kept

\* An agent that holds S and deletes o holds the rest.
LEMMA HoldsFewer ==
    ASSUME NEW a, NEW S \in SUBSET Object, IsFiniteSet(S), Holds(a, S),
           NEW o \in Object, Deletes(a, o)
    PROVE  Holds(Deleted(a, o), S \ {o})
<1> DEFINE b == Deleted(a, o)
           R == S \ {o}
<1>1. a \in Agent /\ a.elems = S /\ a.refused \subseteq S
  BY DEF Holds
<1>2. /\ b \in Agent /\ b.kind = a.kind /\ b.elems = R
      /\ b.bag = [a.bag EXCEPT ![val[o]] = BagAfter(a, val[o])]
      /\ b.roots = WithoutRoot(a, o)
      /\ b.slipped = IF Slips(a, o) THEN a.slipped \cup {val[o]} ELSE a.slipped
      /\ b.refused = a.refused \ {o}
      /\ DOMAIN b.table = {h \in DOMAIN a.table : a.table[h] # o}
      /\ \A h \in DOMAIN b.table : b.table[h] = a.table[h]
  BY <1>1, DeletedIs, Zenon
<1>3. /\ DOMAIN a.table \in SUBSET Hashes /\ IsFiniteSet(DOMAIN a.table)
      /\ a.bag \in [Value -> Int] /\ a.roots \in [Hashes -> Int]
  BY <1>1, AgentFields, HashesFinite
<1> HIDE DEF b
<1>4. ASSUME a.kind \in CPIKinds PROVE Stored(b, R)
  <2>1. Stored(a, S) /\ o \in S
    BY <1>1, <1>4 DEF Holds, Deletes, CPIKinds
  <2>2. PICK h \in DOMAIN a.table : a.table[h] = o
    BY <2>1 DEF Stored
  <2>3. DOMAIN b.table = DOMAIN a.table \ {h}
    BY <1>2, <2>1, <2>2 DEF Stored
  <2>4. \A f, g \in DOMAIN b.table : b.table[f] = b.table[g] => f = g
    BY <1>2, <2>1, <2>3 DEF Stored
  <2>5. \A g \in DOMAIN b.table : b.table[g] \in R
    BY <1>2, <2>1, <2>3 DEF Stored
  <2>6. ASSUME NEW p \in R PROVE \E g \in DOMAIN b.table : b.table[g] = p
    <3>1. PICK g \in DOMAIN a.table : a.table[g] = p
      BY <2>1 DEF Stored
    <3>2. g \in DOMAIN b.table
      BY <1>2, <3>1
    <3> QED
      BY <1>2, <3>1, <3>2
  <2>7. Cardinality(DOMAIN b.table) = Cardinality(R)
    <3>1. Cardinality(DOMAIN b.table) = Cardinality(DOMAIN a.table) - 1
      <4>1. Cardinality(DOMAIN a.table \ {h}) = Cardinality(DOMAIN a.table) - 1
        BY <1>3, <2>2, FS_RemoveElement
      <4> QED
        BY <2>3, <4>1
    <3>2. Cardinality(R) = Cardinality(S) - 1
      BY <2>1, FS_RemoveElement
    <3> QED
      BY <2>1, <3>1, <3>2 DEF Stored
  <2>8. ASSUME NEW g \in Hashes
        PROVE  b.roots[g] = IF g \in DOMAIN b.table THEN 1 ELSE 0
    <3>1. a.roots[g] = IF g \in DOMAIN a.table THEN 1 ELSE 0
      BY <2>1 DEF Stored
    <3>2. b.roots[g] = IF g \in DOMAIN a.table /\ a.table[g] = o
                       THEN a.roots[g] - 1 ELSE a.roots[g]
      BY <1>2 DEF WithoutRoot
    <3>3. g \in DOMAIN b.table <=> g \in DOMAIN a.table /\ a.table[g] # o
      BY <1>2
    <3> QED
      BY <3>1, <3>2, <3>3
  <2> QED
    BY <2>4, <2>5, <2>6, <2>7, <2>8 DEF Stored
<1>5. ASSUME a.kind \in BagKinds PROVE Counted(b, R)
  <2> DEFINE T == Into(a, S)
             Q == Into(b, R)
  <2>1. Tally(a, T) /\ (a.kind # "Cuckoo" => T = S)
    BY <1>5 DEF Holds, Counted, Into
  <2>2. Q = T \ {o} /\ T \subseteq S
    BY <1>1, <1>2 DEF Into
  <2> HIDE DEF T
  <2>3. T \in SUBSET Object /\ IsFiniteSet(T) /\ \A v : Copies(T, v) \in Nat
    <3>1. IsFiniteSet(T)
      BY <2>2, FS_Subset
    <3>2. ASSUME NEW v PROVE Copies(T, v) \in Nat
      <4>1. {p \in T : val[p] = v} \in SUBSET T
        OBVIOUS
      <4> QED
        BY <3>1, <4>1, FS_Subset, FS_CardinalityType DEF Copies
    <3> QED
      BY <2>2, <3>1, <3>2
  <2>4. o \in T => \A v : Copies(Q, v) = IF v = val[o] THEN Copies(T, v) - 1 ELSE Copies(T, v)
    <3>1. ASSUME o \in T, NEW v
          PROVE  Copies(T \ {o}, v) = IF v = val[o] THEN Copies(T, v) - 1 ELSE Copies(T, v)
      BY <2>3, <3>1, CopiesWithout
    <3> HIDE DEF Q
    <3> QED
      BY <2>2, <3>1
  <2>5. o \notin T => Q = T
    BY <2>2
  <2> HIDE DEF R, Q
  <2> SUFFICES ASSUME NEW v \in Value
               PROVE  IF v \notin b.slipped THEN b.bag[v] = Copies(Q, v)
                      ELSE /\ b.kind = "Full" => b.bag[v] <= Copies(Q, v)
                           /\ b.kind = "Cuckoo" => b.bag[v] >= Copies(Q, v)
    BY DEF Counted, Tally, Q
  <2>6. IF v \notin a.slipped THEN a.bag[v] = Copies(T, v)
        ELSE /\ a.kind = "Full" => a.bag[v] <= Copies(T, v)
             /\ a.kind = "Cuckoo" => a.bag[v] >= Copies(T, v)
    BY <2>1 DEF Tally
  <2>7. b.bag[v] = IF v = val[o] THEN BagAfter(a, val[o]) ELSE a.bag[v]
    BY <1>2, <1>3
  <2>8. a.bag[v] \in Int /\ Copies(T, v) \in Nat
    BY <1>3, <2>3
  <2>9. CASE v # val[o]
    <3>1. Copies(Q, v) = Copies(T, v)
      BY <2>4, <2>5, <2>9
    <3>2. b.bag[v] = a.bag[v] /\ (v \in b.slipped <=> v \in a.slipped)
      BY <1>2, <2>7, <2>9
    <3> QED
      BY <1>2, <2>6, <3>1, <3>2
  <2>10. CASE v = val[o]
    <3>1. CASE a.kind = "IBLT"
      <4>1. b.bag[v] = a.bag[v] - 1
        BY <2>7, <2>10, <3>1 DEF BagAfter
      <4>2. CASE v \in b.slipped
        BY <1>2, <3>1, <4>2
      <4>3. CASE v \notin b.slipped
        <5>1. o \in T /\ v \notin a.slipped
          BY <1>1, <1>2, <2>1, <2>10, <3>1, <4>3 DEF Slips
        <5>2. Copies(Q, v) = Copies(T, v) - 1 /\ a.bag[v] = Copies(T, v)
          BY <2>4, <2>6, <2>10, <5>1
        <5> QED
          BY <4>1, <4>3, <5>2
      <4> QED
        BY <4>2, <4>3
    <3>2. CASE a.kind = "Full"
      <4>1. o \in T /\ b.bag[v] = 0
        BY <1>1, <2>1, <2>7, <2>10, <3>2 DEF BagAfter, Deletes
      <4>2. Copies(Q, v) = Copies(T, v) - 1
        BY <2>4, <2>10, <4>1
      <4>3. Copies(Q, v) \in Nat
        <5>1. IsFiniteSet(Q)
          BY <2>2, <2>3, FS_RemoveElement
        <5>2. {p \in Q : val[p] = v} \in SUBSET Q
          OBVIOUS
        <5> QED
          BY <5>1, <5>2, FS_Subset, FS_CardinalityType DEF Copies
      <4>4. CASE v \in b.slipped
        BY <1>2, <3>2, <4>1, <4>3, <4>4
      <4>5. CASE v \notin b.slipped
        <5>1. ~(Copies(T, v) > 1)
          BY <1>1, <1>2, <2>1, <2>10, <3>2, <4>5 DEF Slips
        <5> QED
          BY <2>8, <4>1, <4>2, <4>3, <4>5, <5>1
      <4> QED
        BY <4>4, <4>5
    <3>3. CASE a.kind = "Cuckoo"
      <4>1. v \in b.slipped /\ b.kind = "Cuckoo"
        BY <1>2, <2>10, <3>3 DEF Slips
      <4>2. b.bag[v] = a.bag[v]
        BY <2>7, <2>10, <3>3 DEF BagAfter
      <4>3. a.bag[v] >= Copies(T, v)
        BY <2>6, <2>8, <3>3
      <4>4. b.bag[v] >= Copies(Q, v)
        BY <2>4, <2>5, <2>8, <2>10, <4>2, <4>3
      <4> QED
        BY <4>1, <4>4
    <3> QED
      BY <1>5, <3>1, <3>2, <3>3 DEF BagKinds
  <2> QED
    BY <2>9, <2>10
<1>6. ASSUME a.kind = "CPI" PROVE ByValue(b, R)
  <2>1. b.slipped # {}
    BY <1>2, <1>6 DEF Slips
  <2> QED
    BY <2>1 DEF ByValue
<1>7. b.refused \subseteq R
  BY <1>1, <1>2
<1> QED
  BY <1>2, <1>4, <1>5, <1>6, <1>7 DEF Holds, b

(***************************************************************************)
(* The loops over the data.                                                *)
(***************************************************************************)
States == {s \in [data : Seq(Object), agents : Seq(Agent), ok : BOOLEAN] :
              /\ Distinct(s.data)
              /\ Len(s.agents) = Len(agents)
              /\ \A i \in DOMAIN s.agents : Holds(s.agents[i], Range(s.data))}

\* delElem leaves agents that hold the data that it leaves, whichever of them fails.
LEMMA DelIn ==
    ASSUME NEW s \in States, NEW o \in Object
    PROVE  Del(s, o) \in States
<1> DEFINE failed == {i \in DOMAIN s.agents : ~Deletes(s.agents[i], o)}
           left == [i \in DOMAIN s.agents |->
                       IF Reached(i, failed) THEN Deleted(s.agents[i], o) ELSE s.agents[i]]
           S == Range(s.data)
<1>1. /\ s.data \in Seq(Object) /\ s.agents \in Seq(Agent) /\ s.ok \in BOOLEAN
      /\ s = [data |-> s.data, agents |-> s.agents, ok |-> s.ok]
      /\ Distinct(s.data) /\ Len(s.agents) = Len(agents)
      /\ \A i \in DOMAIN s.agents : Holds(s.agents[i], S)
  BY DEF States
<1>2. IsFiniteSet(S) /\ S \in SUBSET Object
  BY <1>1, DistinctSize DEF Range
<1>3. ASSUME NEW d \in Seq(Object), NEW A \in Seq(Agent), NEW k \in BOOLEAN,
             Distinct(d), Len(A) = Len(agents),
             \A i \in DOMAIN A : Holds(A[i], Range(d))
      PROVE  [data |-> d, agents |-> A, ok |-> k] \in States
  BY <1>3 DEF States
<1>4. left \in Seq(Agent) /\ Len(left) = Len(s.agents) /\ DOMAIN left = DOMAIN s.agents
  <2>1. \A i \in DOMAIN s.agents : s.agents[i] \in Agent /\ Deleted(s.agents[i], o) \in Agent
    <3> SUFFICES ASSUME NEW i \in DOMAIN s.agents
                 PROVE  s.agents[i] \in Agent /\ Deleted(s.agents[i], o) \in Agent
      OBVIOUS
    <3>1. s.agents[i] \in Agent
      BY <1>1
    <3> QED
      BY <3>1, DeletedIs
  <2>2. DOMAIN s.agents = 1..Len(s.agents) /\ Len(s.agents) \in Nat
    BY <1>1
  <2> HIDE DEF failed
  <2>3. left \in [1..Len(s.agents) -> Agent]
    BY <2>1, <2>2
  <2> HIDE DEF left
  <2> QED
    BY <2>2, <2>3
<1>5. CASE s.data = <<>>
  <2>1. Del(s, o) = [data |-> s.data, agents |-> s.agents, ok |-> FALSE]
    BY <1>1, <1>5 DEF Del
  <2> QED
    BY <1>1, <1>3, <2>1
<1>6. CASE s.data # <<>> /\ failed # {}
  <2>1. Del(s, o) = [data |-> s.data, agents |-> left, ok |-> FALSE]
    <3>1. Del(s, o) = [s EXCEPT !.agents = left, !.ok = FALSE]
      BY <1>6 DEF Del
    <3> HIDE DEF left
    <3> QED
      BY <1>1, <3>1
  <2>2. o \notin S
    <3>1. PICK i \in DOMAIN s.agents : ~Deletes(s.agents[i], o)
      BY <1>6
    <3>2. s.agents[i].elems = S
      BY <1>1, <3>1 DEF Holds
    <3> QED
      BY <3>1, <3>2 DEF Deletes
  <2>3. ASSUME NEW i \in DOMAIN left PROVE Holds(left[i], S)
    <3>1. Holds(s.agents[i], S) /\ i \in DOMAIN s.agents
      BY <1>1, <1>4
    <3>2. CASE Reached(i, failed)
      <4>1. i \notin failed
        <5>1. i \in Int
          BY <1>1, <3>1
        <5> HIDE DEF failed
        <5> QED
          BY <3>2, <5>1 DEF Reached
      <4>2. left[i] = Deleted(s.agents[i], o) /\ Deletes(s.agents[i], o)
        BY <3>1, <3>2, <4>1
      <4>3. S \ {o} = S
        BY <2>2
      <4> HIDE DEF left, failed, S
      <4>4. Holds(Deleted(s.agents[i], o), S \ {o})
        BY <1>2, <3>1, <4>2, HoldsFewer
      <4> QED
        BY <4>2, <4>3, <4>4
    <3>3. CASE ~Reached(i, failed)
      BY <3>1, <3>3
    <3> QED
      BY <3>2, <3>3
  <2> HIDE DEF left
  <2> QED
    BY <1>1, <1>3, <1>4, <2>1, <2>3
<1>7. CASE s.data # <<>> /\ failed = {}
  <2> DEFINE d == Without(s.data, o)
             k == s.ok /\ o \in S
  <2>1. Del(s, o) = [data |-> d, agents |-> left, ok |-> k]
    BY <1>7 DEF Del
  <2>2. d \in Seq(Object) /\ Distinct(d) /\ Range(d) = S \ {o}
    BY <1>1, WithoutIs
  <2>3. ASSUME NEW i \in DOMAIN left PROVE Holds(left[i], S \ {o})
    <3>1. Holds(s.agents[i], S) /\ i \in DOMAIN s.agents
      BY <1>1, <1>4
    <3>2. left[i] = Deleted(s.agents[i], o) /\ Deletes(s.agents[i], o)
      BY <1>7, <3>1 DEF Reached
    <3> HIDE DEF left, failed, S
    <3>3. Holds(Deleted(s.agents[i], o), S \ {o})
      BY <1>2, <3>1, <3>2, HoldsFewer
    <3> QED
      BY <3>2, <3>3
  <2>4. k \in BOOLEAN
    BY <1>1
  <2> HIDE DEF left, d, k, S
  <2> QED
    BY <1>1, <1>3, <1>4, <2>1, <2>2, <2>3, <2>4
<1> QED
  BY <1>5, <1>6, <1>7

\* So do the calls of delElem that clearData makes.
LEMMA ClearedIn ==
    ASSUME Now \in States, myData \in Seq(Object)
    PROVE  Cleared \in States
<1> DEFINE n == Len(myData)
           Body(f) == [i \in 0..Len(myData) |-> IF i = 0 THEN Now ELSE Del(f[i - 1], myData[i])]
           run == CHOOSE f : f = Body(f)
           G == [i \in 1..n |-> [x \in States |-> Del(x, myData[i])]]
<1>1. Cleared = run[n]
  BY Zenon DEF Cleared
<1>2. n \in Nat /\ \A i \in 1..n : myData[i] \in Object
  OBVIOUS
<1>3. G \in Loops(n, States)
  <2>1. \A i \in 1..n : \A x \in States : Del(x, myData[i]) \in States
    BY <1>2, DelIn
  <2> QED
    BY <2>1 DEF Loops
<1>4. \A i \in 1..n : \A x \in States : G[i][x] = Del(x, myData[i])
  OBVIOUS
<1>5. PICK k : Runs(k, n, States, Now, G)
  <2> HIDE DEF n, G
  <2> QED
    BY <1>2, <1>3, LoopRuns
<1> HIDE DEF G
<1>6. k = Body(k)
  <2>1. \A i \in 0..n : k[i] = IF i = 0 THEN Now ELSE Del(k[i - 1], myData[i])
    <3> SUFFICES ASSUME NEW i \in 0..n, i # 0 PROVE k[i] = Del(k[i - 1], myData[i])
      BY <1>5 DEF Runs
    <3>1. i \in 1..n /\ i - 1 \in 0..n
      BY <1>2
    <3>2. k[i - 1] \in States /\ k[i] = G[i][k[i - 1]]
      BY <1>5, <3>1 DEF Runs
    <3> QED
      BY <1>4, <3>1, <3>2
  <2>2. k = [i \in 0..n |-> k[i]]
    BY <1>5 DEF Runs
  <2> QED
    BY <2>1, <2>2, Zenon
<1>7. run = Body(run)
  <2> HIDE DEF Body
  <2> QED
    BY <1>6, Zenon
<1> HIDE DEF run
<1> DEFINE P == {i \in 0..n : run[i] \in States}
<1>8. P = 0..n
  <2>1. P \in SUBSET (0..n) /\ 0 \in P
    BY <1>2, <1>7
  <2>2. ASSUME NEW i \in 1..n, i - 1 \in P PROVE i \in P
    <3>1. i \in 0..n /\ i # 0 /\ i - 1 \in 0..n /\ run[i - 1] \in States
      BY <1>2, <2>2
    <3>2. run[i] = Del(run[i - 1], myData[i])
      BY <1>7, <3>1, Zenon
    <3> QED
      BY <1>2, <3>1, <3>2, DelIn
  <2> HIDE DEF P
  <2> QED
    BY <1>2, <2>1, <2>2, Induction
<1> QED
  BY <1>1, <1>2, <1>8

(***************************************************************************)
(* The search that does not end.                                           *)
(***************************************************************************)
\* A number is a multiple of the modulus and its remainder.
LEMMA ModuloIs ==
    ASSUME NEW a \in Nat, NEW n \in Nat \ {0}
    PROVE  \E q \in Nat : a = (q * n) + (a % n)
<1>1. a \div n \in Nat /\ a = ((a \div n) * n) + (a % n)
  OBVIOUS
<1> QED
  BY <1>1

\* A multiple of the modulus has no remainder.
LEMMA NoModulo ==
    ASSUME NEW q \in Nat, NEW n \in Nat \ {0}
    PROVE  (q * n) % n = 0
OBVIOUS

\* A number below the modulus is its own remainder.
LEMMA SmallModulo ==
    ASSUME NEW n \in Nat \ {0}, NEW a \in 0..(n - 1)
    PROVE  a % n = a
OBVIOUS

\* The difference of numbers with the same remainder has none.
LEMMA SameModulo ==
    ASSUME NEW n \in Nat \ {0}, NEW a \in Nat, NEW b \in Nat, a <= b, a % n = b % n
    PROVE  (b - a) % n = 0
<1>1. PICK q \in Nat : a = (q * n) + (a % n)
  BY ModuloIs
<1>2. PICK r \in Nat : b = (r * n) + (b % n)
  BY ModuloIs
<1>3. PICK m \in Nat : m = a % n /\ m = b % n
  BY Modulo
<1>4. PICK x \in Int : x = q * n
  OBVIOUS
<1>5. PICK y \in Int : y = r * n
  OBVIOUS
<1>6. b - a = y - x
  BY <1>1, <1>2, <1>3, <1>4, <1>5
<1>7. (r * n) - (q * n) = (r - q) * n
  OBVIOUS
<1>8. b - a = (r - q) * n
  BY <1>4, <1>5, <1>6, <1>7
<1>9. r - q \in Nat
  BY <1>8
<1> QED
  BY <1>8, <1>9, NoModulo

\* _hash2 takes as many values as there are hashes, and the reduction from the field to
\* the hashes makes no more of them equal than the field has elements beyond the hashes.
LEMMA ReachIsLarge ==
    ASSUME NEW v \in Nat
    PROVE  /\ IsFiniteSet(Reach(v)) /\ Cardinality(Reach(v)) \in Nat
           /\ Cardinality(Reach(v)) >= DataMax - (FieldSize - DataMax)
<1> DEFINE D == DataMax
           F == FieldSize
           x == v % DataMax
           m(c) == (c * 101) % DataMax
           y(c) == (x + m(c)) % FieldSize
           Y == {y(c) : c \in Hashes}
<1>1. D \in Nat \ {0} /\ F \in Nat \ {0} /\ F > D /\ Hashes = 0..(D - 1)
  BY DataAssumption DEF Hashes
<1>2. x \in Nat /\ \A c \in Hashes : c \in Nat /\ m(c) \in 0..(D - 1) /\ x + m(c) \in Nat
  <2>1. x \in Nat
    BY <1>1, Modulo
  <2>2. ASSUME NEW c \in Hashes PROVE c \in Nat /\ m(c) \in 0..(D - 1)
    <3>1. c * 101 \in Nat /\ c \in Nat
      BY <1>1
    <3> QED
      BY <1>1, <3>1, Modulo
  <2> HIDE DEF x, m
  <2> QED
    BY <1>1, <2>1, <2>2
<1>3. \A c \in Hashes : y(c) \in 0..(F - 1) /\ Probe(v, c) = y(c) % D
  <2> SUFFICES ASSUME NEW c \in Hashes
               PROVE  y(c) \in 0..(F - 1) /\ Probe(v, c) = y(c) % D
    OBVIOUS
  <2>1. x + m(c) \in Nat
    BY <1>2
  <2>2. (x + m(c)) % F \in 0..(F - 1)
    <3> HIDE DEF x, m, F
    <3> QED
      BY <1>1, <2>1, Modulo
  <2>3. Probe(v, c) = y(c) % D
    BY DEF Probe
  <2> QED
    BY <2>2, <2>3
<1>4. ASSUME NEW c \in Hashes, NEW d \in Hashes, c < d
      PROVE  m(c) # m(d)
  <2> SUFFICES ASSUME m(c) = m(d) PROVE FALSE
    OBVIOUS
  <2>1. c * 101 \in Nat /\ d * 101 \in Nat /\ c * 101 <= d * 101
    BY <1>1, <1>4
  <2>2. (d * 101 - c * 101) % D = 0
    BY <1>1, <2>1, SameModulo
  <2>3. d - c \in 1..(D - 1) /\ d * 101 - c * 101 = (d - c) * 101
    BY <1>1, <1>4
  <2> QED
    BY <2>2, <2>3, StepAssumption
<1> HIDE DEF m, x
<1>5. ASSUME NEW c \in Hashes, NEW d \in Hashes, y(c) = y(d), m(c) <= m(d)
      PROVE  m(c) = m(d)
  <2> DEFINE a == x + m(c)
             b == x + m(d)
  <2>0. /\ m(c) \in 0..(D - 1) /\ m(d) \in 0..(D - 1) /\ x \in Nat /\ m(c) <= m(d)
        /\ D \in Nat /\ F \in Nat /\ D < F
    BY <1>1, <1>2, <1>5
  <2>1. a \in Nat /\ b \in Nat /\ a <= b /\ b - a = m(d) - m(c)
    BY <2>0
  <2>2. a % F = b % F
    BY <1>5
  <2> HIDE DEF a, b, F
  <2>3. (b - a) % F = 0
    BY <1>1, <2>1, <2>2, SameModulo
  <2>4. m(d) - m(c) \in 0..(F - 1)
    BY <2>0
  <2>5. (m(d) - m(c)) % F = m(d) - m(c)
    BY <1>1, <2>4, SmallModulo
  <2>6. m(d) - m(c) = 0
    BY <2>1, <2>3, <2>5
  <2> QED
    BY <2>0, <2>6
<1>6. ASSUME NEW c \in Hashes, NEW d \in Hashes, y(c) = y(d)
      PROVE  c = d
  <2>1. m(c) \in Int /\ m(d) \in Int /\ c \in Int /\ d \in Int
    BY <1>2
  <2> HIDE DEF y
  <2>2. m(c) = m(d)
    BY <1>5, <1>6, <2>1
  <2> QED
    BY <1>4, <2>1, <2>2
<1> HIDE DEF y
<1>7. IsFiniteSet(Y) /\ Cardinality(Y) = D
  <2> DEFINE f == [c \in Hashes |-> y(c)]
  <2>1. f \in Injection(Hashes, Y)
    BY <1>6 DEF Injection, IsInjective
  <2>2. f \in Surjection(Hashes, Y)
    BY DEF Surjection
  <2>3. ExistsBijection(Hashes, Y)
    BY <2>1, <2>2 DEF ExistsBijection, Bijection
  <2>4. IsFiniteSet(Hashes) /\ Cardinality(Hashes) = D
    BY <1>1, FS_Interval
  <2> HIDE DEF Y
  <2> QED
    BY <2>3, <2>4, FS_Bijection
<1>8. Y \ Hashes \in SUBSET (D..(F - 1))
  BY <1>1, <1>3
<1>9. Y \cap Hashes \in SUBSET Reach(v)
  <2> SUFFICES ASSUME NEW c \in Hashes, y(c) \in Hashes PROVE y(c) \in Reach(v)
    OBVIOUS
  <2>1. Probe(v, c) = y(c)
    BY <1>1, <1>3, SmallModulo
  <2> QED
    BY <2>1 DEF Reach
<1>10. IsFiniteSet(D..(F - 1)) /\ Cardinality(D..(F - 1)) = F - D
  BY <1>1, FS_Interval
<1> HIDE DEF Y
<1>11. Cardinality(Y \ Hashes) <= F - D
  BY <1>8, <1>10, FS_Subset
<1>12. /\ Cardinality(Y \ Hashes) = Cardinality(Y) - Cardinality(Y \cap Hashes)
       /\ IsFiniteSet(Y \cap Hashes) /\ IsFiniteSet(Y \ Hashes)
  BY <1>7, FS_Difference, FS_Intersection
<1>13. Reach(v) \in SUBSET Hashes /\ IsFiniteSet(Reach(v)) /\ Cardinality(Reach(v)) \in Nat
  <2>1. Reach(v) \in SUBSET Hashes
    BY FirstIs
  <2> QED
    BY <2>1, HashesFinite
<1>14. Cardinality(Y \cap Hashes) <= Cardinality(Reach(v))
  BY <1>9, <1>13, FS_Subset
<1>15. Cardinality(Y \cap Hashes) \in Nat /\ Cardinality(Y \ Hashes) \in Nat
  BY <1>12, FS_CardinalityType
<1>16. Cardinality(Reach(v)) >= D - (F - D)
  BY <1>1, <1>7, <1>11, <1>12, <1>13, <1>14, <1>15
<1> QED
  BY <1>13, <1>16

\* So the search for a hash ends while that many hashes are free.
LEMMA LoopsWhenFull ==
    ASSUME NEW a, NEW S \in SUBSET Object, IsFiniteSet(S), Holds(a, S),
           NEW o \in Object, Outcome(a, o) = "looping"
    PROVE  Cardinality(S) \in Nat /\ Cardinality(S) >= DataMax - (FieldSize - DataMax)
<1>1. a \in Agent /\ a.kind = "CPI" /\ Free(a, val[o]) = {}
  BY DEF Holds, Outcome
<1>2. /\ DOMAIN a.table \in SUBSET Hashes /\ IsFiniteSet(DOMAIN a.table)
      /\ Cardinality(DOMAIN a.table) = Cardinality(S) /\ Cardinality(DOMAIN a.table) \in Nat
  BY <1>1, AgentFields, HashesFinite DEF Holds, Stored, CPIKinds
<1>3. Reach(val[o]) \in SUBSET DOMAIN a.table
  BY <1>1 DEF Reach, Free
<1>4. Cardinality(Reach(val[o])) <= Cardinality(DOMAIN a.table)
  BY <1>2, <1>3, FS_Subset
<1>5. /\ Cardinality(Reach(val[o])) \in Nat
      /\ Cardinality(Reach(val[o])) >= DataMax - (FieldSize - DataMax)
  BY ValueTypes, ReachIsLarge
<1>6. DataMax \in Int /\ FieldSize \in Int
  BY DataAssumption
<1> QED
  BY <1>2, <1>4, <1>5, <1>6

\* An addition succeeds, ends the process or never returns.
LEMMA OutcomeType ==
    \A a, o : Outcome(a, o) \in {"running", "quit", "looping"}
BY DEF Outcome

\* A new agent holds nothing.
LEMMA NewHolds ==
    ASSUME NEW kind \in Kinds
    PROVE  Holds(NewAgent(kind), {})
<1> DEFINE a == NewAgent(kind)
<1>1. /\ a.kind = kind /\ a.elems = {} /\ a.slipped = {} /\ a.table = <<>> /\ a.refused = {}
      /\ a.bag = [v \in Value |-> 0] /\ a.roots = [h \in Hashes |-> 0]
  BY DEF NewAgent
<1>2. DOMAIN a.table = {} /\ a.table \in [{} -> Object]
  BY <1>1
<1>3. a \in Agent
  <2>1. {} \in SUBSET Hashes
    OBVIOUS
  <2>2. a.table \in UNION {[H -> Object] : H \in SUBSET Hashes}
    BY <1>2, <2>1, TableIs, Zenon DEF Tables
  <2>3. a = [kind |-> a.kind, elems |-> a.elems, bag |-> a.bag, table |-> a.table,
             roots |-> a.roots, slipped |-> a.slipped, refused |-> a.refused]
    BY DEF NewAgent
  <2> HIDE DEF a
  <2>4. /\ a.kind \in Kinds /\ a.elems \in SUBSET Object /\ a.slipped \in SUBSET Value
        /\ a.bag \in [Value -> Int] /\ a.roots \in [Hashes -> Int] /\ a.refused \in SUBSET Object
    BY <1>1
  <2> QED
    BY <2>2, <2>3, <2>4 DEF Agent
<1> HIDE DEF a
<1>4. \A v : Copies({}, v) = 0
  BY FS_EmptySet DEF Copies
<1>5. Stored(a, {})
  BY <1>1, <1>2 DEF Stored
<1>6. Counted(a, {})
  BY <1>1, <1>4 DEF Counted, Tally, Into
<1>7. ByValue(a, {})
  <2>1. ASSUME NEW v \in Value, NEW h \in Alone(v, 0) PROVE FALSE
    <3>1. h \in Reach(v) /\ v \in Nat
      BY ValueTypes DEF Alone
    <3>2. Cardinality(Before(v, h)) \in Nat /\ Cardinality(Before(v, h)) < 0
      BY <3>1, BeforeIs
    <3> QED
      BY <3>2
  <2>2. UNION {Alone(v, Copies({}, v)) : v \in Value} = {}
    BY <1>4, <2>1
  <2> QED
    BY <1>2, <2>2 DEF ByValue
<1> QED
  BY <1>1, <1>3, <1>5, <1>6, <1>7 DEF Holds, a

\* What addSyncAgt does with the data: the new agent holds it, or the process ends.
LEMMA FilledIs ==
    ASSUME myData \in Seq(Object), Distinct(myData), NEW kind \in Kinds,
           NEW lost \in SUBSET {o \in Held : MayFail(kind)}
    PROVE  /\ Filled(kind, lost).status \in {"running", "quit", "looping"}
           /\ Filled(kind, lost).status = "running" => Holds(Filled(kind, lost).agent, Held)
           /\ Filled(kind, lost).status = "looping"
                => Len(myData) > DataMax - (FieldSize - DataMax)
<1> DEFINE n == Len(myData)
           start == [agent |-> NewAgent(kind), status |-> "running"]
           Body(f) == [i \in 0..Len(myData) |->
                          IF i = 0 THEN [agent |-> NewAgent(kind), status |-> "running"]
                          ELSE Given(f[i - 1], myData[i], lost)]
           run == CHOOSE f : f = Body(f)
           T == [agent : Agent, status : {"running", "quit", "looping"}]
           G == [i \in 1..n |-> [x \in T |-> Given(x, myData[i], lost)]]
<1>1. Filled(kind, lost) = run[n]
  BY Zenon DEF Filled
<1>2. n \in Nat /\ \A i \in 1..n : myData[i] \in Object
  OBVIOUS
<1>3. ASSUME NEW x \in T, NEW o \in Object
      PROVE  /\ Given(x, o, lost) \in T
             /\ x.status # "running" => Given(x, o, lost) = x
             /\ x.status = "running" /\ Outcome(x.agent, o) # "running"
                  => Given(x, o, lost).status = Outcome(x.agent, o)
             /\ x.status = "running" /\ Outcome(x.agent, o) = "running"
                  => /\ Given(x, o, lost).status = "running"
                     /\ Given(x, o, lost).agent = Added(x.agent, o, o \in lost)
                     /\ Given(x, o, lost).agent.kind = x.agent.kind
  <2>1. CASE x.status # "running"
    BY <2>1 DEF Given
  <2>2. CASE x.status = "running" /\ Outcome(x.agent, o) # "running"
    <3>1. Given(x, o, lost) = [x EXCEPT !.status = Outcome(x.agent, o)]
      BY <2>2 DEF Given
    <3> QED
      BY <2>2, <3>1, OutcomeType
  <2>3. CASE x.status = "running" /\ Outcome(x.agent, o) = "running"
    <3>1. Given(x, o, lost) = [x EXCEPT !.agent = Added(x.agent, o, o \in lost)]
      BY <2>3 DEF Given
    <3>2. /\ Added(x.agent, o, o \in lost) \in Agent
          /\ Added(x.agent, o, o \in lost).kind = x.agent.kind
      <4>1. (o \in lost) \in BOOLEAN
        OBVIOUS
      <4>2. Takes(Added(x.agent, o, o \in lost), x.agent, o, o \in lost)
        BY <2>3, <4>1, AddedIs
      <4> QED
        BY <4>2 DEF Takes
    <3> QED
      BY <2>3, <3>1, <3>2
  <2> QED
    BY <2>1, <2>2, <2>3
<1>4. G \in Loops(n, T)
  <2>1. \A i \in 1..n : \A x \in T : Given(x, myData[i], lost) \in T
    BY <1>2, <1>3
  <2> HIDE DEF T
  <2> QED
    BY <2>1 DEF Loops
<1>5. \A i \in 1..n : \A x \in T : G[i][x] = Given(x, myData[i], lost)
  OBVIOUS
<1>6. start \in T
  <2>1. NewAgent(kind) \in Agent
    BY NewHolds DEF Holds
  <2> QED
    BY <2>1
<1> HIDE DEF T
<1>7. PICK k : Runs(k, n, T, start, G)
  <2> HIDE DEF n, G, start
  <2> QED
    BY <1>2, <1>4, <1>6, LoopRuns
<1> HIDE DEF G
<1>8. k = Body(k)
  <2>1. \A i \in 0..n : k[i] = IF i = 0 THEN start ELSE Given(k[i - 1], myData[i], lost)
    <3> SUFFICES ASSUME NEW i \in 0..n, i # 0 PROVE k[i] = Given(k[i - 1], myData[i], lost)
      BY <1>7 DEF Runs
    <3>1. i \in 1..n /\ i - 1 \in 0..n
      BY <1>2
    <3>2. k[i - 1] \in T /\ k[i] = G[i][k[i - 1]]
      BY <1>7, <3>1 DEF Runs
    <3> QED
      BY <1>5, <3>1, <3>2
  <2>2. k = [i \in 0..n |-> k[i]]
    BY <1>7 DEF Runs
  <2> QED
    BY <2>1, <2>2, Zenon
<1>9. run = Body(run)
  <2> HIDE DEF Body
  <2> QED
    BY <1>8, Zenon
<1> HIDE DEF run
<1> DEFINE Upto(i) == {myData[j] : j \in 1..i}
           Good(i) == /\ run[i] \in T
                      /\ run[i].status = "running" =>
                            Holds(run[i].agent, Upto(i)) /\ run[i].agent.kind = kind
                      /\ run[i].status = "looping"
                           => Len(myData) > DataMax - (FieldSize - DataMax)
           P == {i \in 0..n : Good(i)}
<1>10. Good(0)
  <2>1. run[0] = start
    BY <1>2, <1>9
  <2>2. Upto(0) = {}
    OBVIOUS
  <2>3. start.status = "running" /\ start.agent = NewAgent(kind) /\ NewAgent(kind).kind = kind
    BY DEF NewAgent
  <2> HIDE DEF Upto, start
  <2> QED
    BY <1>6, <2>1, <2>2, <2>3, NewHolds
<1>11. ASSUME NEW i \in 1..n, Good(i - 1) PROVE Good(i)
  <2> DEFINE x == run[i - 1]
             o == myData[i]
             S == Upto(i - 1)
  <2>1. i \in 0..n /\ i # 0 /\ i - 1 \in 0..n /\ o \in Object
    BY <1>2
  <2>2. run[i] = Given(x, o, lost)
    BY <1>9, <2>1, Zenon
  <2>3. S \in SUBSET Object /\ Upto(i) = S \cup {o}
    BY <1>2, <2>1
  <2>4. IsFiniteSet(S) /\ Cardinality(S) = i - 1 /\ o \notin S
    <3> DEFINE s == SubSeq(myData, 1, i - 1)
    <3>1. s \in Seq(Object) /\ Len(s) = i - 1 /\ \A j \in 1..(i - 1) : s[j] = myData[j]
      BY <2>1
    <3>2. DOMAIN s = 1..(i - 1) /\ DOMAIN myData = 1..n
      BY <1>2, <3>1
    <3> HIDE DEF s
    <3>3. Distinct(s)
      BY <1>2, <3>1, <3>2 DEF Distinct
    <3>4. Range(s) = S
      BY <3>1, <3>2 DEF Range
    <3>5. o \notin S
      BY <1>2, <3>2 DEF Distinct
    <3> HIDE DEF S, o
    <3> QED
      BY <3>1, <3>3, <3>4, <3>5, DistinctSize
  <2>5. /\ x \in T
        /\ x.status = "running" => Holds(x.agent, S) /\ x.agent.kind = kind
        /\ x.status = "looping" => Len(myData) > DataMax - (FieldSize - DataMax)
    BY <1>11
  <2> HIDE DEF x, S, o, Upto
  <2>6. run[i] \in T
    BY <1>3, <2>1, <2>2, <2>5
  <2>7. CASE x.status # "running"
    BY <1>3, <2>1, <2>2, <2>5, <2>6, <2>7
  <2>8. CASE x.status = "running" /\ Outcome(x.agent, o) = "running"
    <3>1. Holds(Added(x.agent, o, o \in lost), S \cup {o})
      <4>1. o \in lost => x.agent.kind = "Cuckoo"
        BY <2>5, <2>8 DEF MayFail
      <4>2. (o \in lost) \in BOOLEAN
        OBVIOUS
      <4> QED
        BY <2>1, <2>3, <2>4, <2>5, <2>8, <4>1, <4>2, HoldsMore
    <3>2. /\ run[i].status = "running" /\ run[i].agent = Added(x.agent, o, o \in lost)
          /\ run[i].agent.kind = kind
      BY <1>3, <2>1, <2>2, <2>5, <2>8
    <3> QED
      BY <2>3, <2>6, <3>1, <3>2
  <2>9. CASE x.status = "running" /\ Outcome(x.agent, o) # "running"
    <3>1. run[i].status = Outcome(x.agent, o)
      BY <1>3, <2>1, <2>2, <2>5, <2>9
    <3>2. ASSUME Outcome(x.agent, o) = "looping"
          PROVE  Len(myData) > DataMax - (FieldSize - DataMax)
      <4>1. Cardinality(S) >= DataMax - (FieldSize - DataMax)
        BY <2>1, <2>3, <2>4, <2>5, <2>9, <3>2, LoopsWhenFull
      <4>2. DataMax \in Int /\ FieldSize \in Int /\ i - 1 < n /\ n \in Int /\ i \in Int
        BY <1>2, DataAssumption
      <4> QED
        BY <2>4, <4>1, <4>2
    <3> QED
      BY <2>6, <2>9, <3>1, <3>2
  <2> QED
    BY <2>7, <2>8, <2>9
<1>12. P = 0..n
  <2> HIDE DEF Good
  <2>1. P \in SUBSET (0..n) /\ 0 \in P
    BY <1>2, <1>10
  <2>2. \A i \in 1..n : i - 1 \in P => i \in P
    BY <1>2, <1>11
  <2> HIDE DEF P
  <2> QED
    BY <1>2, <2>1, <2>2, Induction
<1>13. Good(n)
  <2> HIDE DEF Good
  <2> QED
    BY <1>2, <1>12
<1>14. Upto(n) = Held
  BY <1>2 DEF Held, Range
<1> HIDE DEF Upto
<1> QED
  BY <1>1, <1>13, <1>14 DEF T

(***************************************************************************)
(* The object.                                                             *)
(***************************************************************************)
Types ==
    /\ myData \in Seq(Object)
    /\ agents \in Seq(Agent) /\ Len(agents) <= MaxAgents
    /\ status \in {"running", "quit", "looping"}
    /\ answer \in BOOLEAN
    /\ deletions \in 0..MaxDeletions

InHand == status = "running" => \A i \in DOMAIN agents : Holds(agents[i], Held)

IInv == Types /\ Distinct(myData) /\ InHand /\ LoopsOnlyBeyond

\* The initial state.
LEMMA InitIn == Init => IInv
<1> SUFFICES ASSUME Init PROVE IInv
  OBVIOUS
<1>1. Len(FirstKinds) \in Nat /\ DOMAIN FirstKinds = 1..Len(FirstKinds)
  BY DataAssumption
<1>2. \A i \in DOMAIN FirstKinds : FirstKinds[i] \in Kinds
  BY DataAssumption
<1>3. \A i \in DOMAIN FirstKinds : NewAgent(FirstKinds[i]) \in Agent
  BY <1>2, NewHolds DEF Holds
<1>4. agents \in [1..Len(FirstKinds) -> Agent]
  BY <1>1, <1>3 DEF Init
<1>5. agents \in Seq(Agent) /\ Len(agents) = Len(FirstKinds)
  BY <1>1, <1>4
<1>6. Types
  BY <1>5, DataAssumption DEF Types, Init
<1>7. Held = {}
  BY DEF Held, Range, Init
<1>8. InHand
  BY <1>1, <1>2, <1>7, NewHolds DEF InHand, Init
<1> QED
  BY <1>6, <1>8 DEF IInv, Distinct, LoopsOnlyBeyond, Init

\* The elements that GenSync holds are as many as its pointers.
LEMMA HeldIs ==
    ASSUME Types, Distinct(myData)
    PROVE  /\ Held \in SUBSET Object /\ IsFiniteSet(Held)
           /\ Cardinality(Held) = Len(myData) /\ Len(myData) \in Nat
<1>1. myData \in Seq(Object) /\ Held = Range(myData)
  BY DEF Types, Held
<1>2. IsFiniteSet(Range(myData)) /\ Cardinality(Range(myData)) = Len(myData)
  BY <1>1, DistinctSize
<1>3. Range(myData) \in SUBSET Object
  BY <1>1 DEF Range
<1> QED
  BY <1>1, <1>2, <1>3

\* addElem: until the first agent that fails, which ends the process.
LEMMA AddElemKeeps ==
    ASSUME IInv, NEW o \in Object, AddElem(o)
    PROVE  IInv'
<1> DEFINE failed == {i \in DOMAIN agents : Outcome(agents[i], o) # "running"}
           reached(i) == \A j \in failed : i < j
           S == Held
<1> PICK lost \in SUBSET {i \in DOMAIN agents : MayFail(agents[i].kind)} :
         agents' = [i \in DOMAIN agents |->
                       IF reached(i) THEN Added(agents[i], o, i \in lost) ELSE agents[i]]
  BY DEF AddElem
<1>1. /\ status = "running" /\ o \notin Held /\ myData' = Append(myData, o)
      /\ agents' = [i \in DOMAIN agents |->
                       IF reached(i) THEN Added(agents[i], o, i \in lost) ELSE agents[i]]
      /\ status' = IF failed = {} THEN "running" ELSE Outcome(agents[Least(failed)], o)
      /\ answer' = answer /\ deletions' = deletions
  BY DEF AddElem
<1>2. /\ Types /\ Distinct(myData) /\ \A i \in DOMAIN agents : Holds(agents[i], S)
      /\ S \in SUBSET Object /\ IsFiniteSet(S) /\ Cardinality(S) = Len(myData)
      /\ Len(myData) \in Nat
  BY <1>1, HeldIs DEF IInv, InHand
<1>3. /\ DOMAIN agents = 1..Len(agents) /\ Len(agents) \in Nat /\ failed \in SUBSET Nat
      /\ \A i \in DOMAIN agents : agents[i] \in Agent
  BY <1>2 DEF Types
<1>4. ASSUME NEW i \in DOMAIN agents, reached(i)
      PROVE  Outcome(agents[i], o) = "running"
  <2>1. i \notin failed
    <3>1. i \in Int
      BY <1>3
    <3> HIDE DEF failed
    <3> QED
      BY <1>4, <3>1
  <2> QED
    BY <2>1
<1>5. agents' \in Seq(Agent) /\ Len(agents') = Len(agents) /\ DOMAIN agents' = DOMAIN agents
  <2>1. ASSUME NEW i \in DOMAIN agents, reached(i)
        PROVE  Added(agents[i], o, i \in lost) \in Agent
    <3>1. (i \in lost) \in BOOLEAN
      OBVIOUS
    <3>2. Takes(Added(agents[i], o, i \in lost), agents[i], o, i \in lost)
      BY <1>3, <1>4, <2>1, <3>1, AddedIs
    <3> QED
      BY <3>2 DEF Takes
  <2> HIDE DEF reached
  <2>2. agents' \in [1..Len(agents) -> Agent]
    BY <1>1, <1>3, <2>1
  <2> QED
    BY <1>3, <2>2
<1>6. /\ myData' \in Seq(Object) /\ Len(myData') = Len(myData) + 1
      /\ DOMAIN myData' = 1..(Len(myData) + 1) /\ DOMAIN myData = 1..Len(myData)
      /\ myData'[Len(myData) + 1] = o /\ \A i \in 1..Len(myData) : myData'[i] = myData[i]
  <2>1. myData \in Seq(Object)
    BY <1>2 DEF Types
  <2>2. myData' = Append(myData, o)
    BY <1>1
  <2>3. myData' \in Seq(Object) /\ Len(myData') = Len(myData) + 1
    BY <2>1, <2>2
  <2>4. DOMAIN myData' = 1..(Len(myData) + 1) /\ DOMAIN myData = 1..Len(myData)
    BY <2>1, <2>3
  <2>5. myData'[Len(myData) + 1] = o
    BY <2>1, <2>2
  <2>6. \A i \in 1..Len(myData) : myData'[i] = myData[i]
    BY <2>1, <2>2
  <2> QED
    BY <2>3, <2>4, <2>5, <2>6
<1>7. Held' = S \cup {o}
  <2>1. Held' = {myData'[i] : i \in 1..(Len(myData) + 1)}
    BY <1>6 DEF Held, Range
  <2>2. S = {myData[i] : i \in 1..Len(myData)}
    BY <1>6 DEF Held, Range
  <2>3. \A i \in Int : i \in 1..(Len(myData) + 1) <=> i \in 1..Len(myData) \/ i = Len(myData) + 1
    BY <1>2
  <2> HIDE DEF S
  <2> QED
    BY <1>6, <2>1, <2>2, <2>3
<1>8. Distinct(myData)'
  <2>1. \A i \in 1..Len(myData) : myData[i] # o
    BY <1>1, <1>6 DEF Held, Range
  <2> QED
    BY <1>2, <1>6, <2>1 DEF Distinct
<1> HIDE DEF S
<1>9. status' \in {"running", "quit", "looping"}
  <2> HIDE DEF failed
  <2> QED
    BY <1>1, OutcomeType
<1>10. Types'
  BY <1>1, <1>2, <1>5, <1>6, <1>9 DEF Types
<1>11. InHand'
  <2> SUFFICES ASSUME status' = "running", NEW i \in DOMAIN agents
               PROVE  Holds(agents'[i], S \cup {o})
    BY <1>5, <1>7 DEF InHand
  <2>1. failed = {}
    <3> SUFFICES ASSUME failed # {} PROVE FALSE
      OBVIOUS
    <3>1. Least(failed) \in failed
      <4> HIDE DEF failed
      <4> QED
        BY <1>3, LeastIs
    <3>2. Outcome(agents[Least(failed)], o) # "running"
      BY <3>1
    <3> HIDE DEF failed
    <3> QED
      BY <1>1, <3>2
  <2>2. reached(i)
    BY <2>1
  <2>3. /\ agents'[i] = Added(agents[i], o, i \in lost) /\ Outcome(agents[i], o) = "running"
        /\ i \in lost => agents[i].kind = "Cuckoo"
    BY <1>1, <1>4, <2>2 DEF MayFail
  <2>4. Holds(agents[i], S) /\ o \notin S
    BY <1>1, <1>2 DEF S
  <2> HIDE DEF failed, reached
  <2>5. Holds(Added(agents[i], o, i \in lost), S \cup {o})
    <3>1. (i \in lost) \in BOOLEAN
      OBVIOUS
    <3> QED
      BY <1>2, <2>3, <2>4, <3>1, HoldsMore
  <2> QED
    BY <2>3, <2>5
<1>12. LoopsOnlyBeyond'
  <2> SUFFICES ASSUME status' = "looping"
               PROVE  Len(myData') > DataMax - (FieldSize - DataMax)
    BY DEF LoopsOnlyBeyond
  <2> DEFINE i == Least(failed)
  <2>1. failed # {} /\ Outcome(agents[i], o) = "looping"
    BY <1>1
  <2>2. i \in failed
    <3> HIDE DEF failed
    <3> QED
      BY <1>3, <2>1, LeastIs
  <2>3. Holds(agents[i], S)
    BY <1>2, <2>2
  <2> HIDE DEF i, failed
  <2>4. Cardinality(S) >= DataMax - (FieldSize - DataMax)
    BY <1>2, <2>1, <2>3, LoopsWhenFull
  <2>5. DataMax \in Int /\ FieldSize \in Int
    BY DataAssumption
  <2> QED
    BY <1>2, <1>6, <2>4, <2>5
<1> QED
  BY <1>8, <1>10, <1>11, <1>12 DEF IInv

\* Now and the deletions that follow are states whose agents hold the data.
LEMMA NowIn ==
    ASSUME IInv, status = "running"
    PROVE  Now \in States
BY DEF IInv, Types, InHand, Now, States, Held

\* The data and the agents of such a state keep the invariant.
LEMMA BecomesKeeps ==
    ASSUME IInv, status = "running", NEW s \in States, NEW k \in BOOLEAN,
           Becomes([s EXCEPT !.ok = k]), UNCHANGED status
    PROVE  IInv'
<1> DEFINE r == [s EXCEPT !.ok = k]
<1>1. /\ s.data \in Seq(Object) /\ s.agents \in Seq(Agent)
      /\ Distinct(s.data) /\ Len(s.agents) = Len(agents)
      /\ \A i \in DOMAIN s.agents : Holds(s.agents[i], Range(s.data))
      /\ r.data = s.data /\ r.agents = s.agents /\ r.ok = k
  BY DEF States
<1>2. /\ deletions < MaxDeletions /\ deletions' = deletions + 1
      /\ myData' = r.data /\ agents' = r.agents /\ answer' = r.ok
  BY DEF Becomes
<1> HIDE DEF r
<1>3. Types /\ MaxDeletions \in Nat
  BY DataAssumption DEF IInv
<1>4. deletions' \in 0..MaxDeletions
  BY <1>2, <1>3 DEF Types
<1>5. Types'
  BY <1>1, <1>2, <1>3, <1>4 DEF Types
<1>6. Distinct(myData)' /\ Held' = Range(s.data)
  BY <1>1, <1>2 DEF Held, Distinct
<1>7. InHand'
  BY <1>1, <1>2, <1>6 DEF InHand
<1>8. LoopsOnlyBeyond'
  BY DEF LoopsOnlyBeyond
<1> QED
  BY <1>5, <1>6, <1>7, <1>8 DEF IInv

\* delElem.
LEMMA DelElemKeeps ==
    ASSUME IInv, NEW o \in Object, DelElem(o)
    PROVE  IInv'
<1>1. status = "running" /\ Becomes(Del(Now, o)) /\ UNCHANGED status
  BY DEF DelElem
<1> DEFINE s == Del(Now, o)
<1>2. s \in States
  BY <1>1, NowIn, DelIn
<1> HIDE DEF s
<1>3. s.ok \in BOOLEAN /\ s = [s EXCEPT !.ok = s.ok]
  BY <1>2 DEF States
<1>4. Becomes([s EXCEPT !.ok = s.ok])
  BY <1>1, <1>3 DEF s
<1> QED
  BY <1>1, <1>2, <1>3, <1>4, BecomesKeeps

\* clearData.
LEMMA ClearDataKeeps ==
    ASSUME IInv, ClearData
    PROVE  IInv'
<1> DEFINE s == Cleared
           k == s.ok /\ s.data = <<>>
<1>1. status = "running" /\ UNCHANGED status
  BY DEF ClearData
<1>2. Becomes([s EXCEPT !.ok = k])
  BY DEF ClearData
<1>3. s \in States
  BY <1>1, NowIn, ClearedIn DEF IInv, Types
<1>4. k \in BOOLEAN
  BY <1>3 DEF States
<1> HIDE DEF s, k
<1> QED
  BY <1>1, <1>2, <1>3, <1>4, BecomesKeeps

\* An insertion keeps the type of a sequence.
LEMMA InsertIs ==
    ASSUME NEW S, NEW s \in Seq(S), NEW e \in S, NEW index \in 1..(Len(s) + 1)
    PROVE  InsertAt(s, index, e) \in Seq(S) /\ Len(InsertAt(s, index, e)) = Len(s) + 1
<1> DEFINE a == SubSeq(s, 1, index - 1)
           b == <<e>>
           c == SubSeq(s, index, Len(s))
<1>1. Len(s) \in Nat /\ index \in Int /\ index - 1 \in Int /\ 1 <= index /\ index <= Len(s) + 1
  OBVIOUS
<1>2. \A i \in 1..Len(s) : s[i] \in S
  OBVIOUS
<1>3. a \in Seq(S) /\ Len(a) = index - 1
  <2>1. \A i \in 1..(index - 1) : s[i] \in S
    BY <1>1, <1>2
  <2>2. a \in Seq(S) /\ Len(a) = IF 1 <= index - 1 THEN index - 1 - 1 + 1 ELSE 0
    BY <1>1, <2>1, SubSeqProperties
  <2> HIDE DEF a
  <2> QED
    BY <1>1, <2>2
<1>4. b \in Seq(S) /\ Len(b) = 1
  OBVIOUS
<1>5. c \in Seq(S) /\ Len(c) = Len(s) + 1 - index
  <2>1. \A i \in index..Len(s) : s[i] \in S
    BY <1>1, <1>2
  <2>2. c \in Seq(S) /\ Len(c) = IF index <= Len(s) THEN Len(s) - index + 1 ELSE 0
    BY <1>1, <2>1, SubSeqProperties
  <2> HIDE DEF c
  <2> QED
    BY <1>1, <2>2
<1>6. InsertAt(s, index, e) = (a \o b) \o c
  BY DEF InsertAt
<1> HIDE DEF a, b, c
<1>7. a \o b \in Seq(S) /\ Len(a \o b) = Len(a) + Len(b)
  BY <1>3, <1>4, ConcatProperties
<1>8. (a \o b) \o c \in Seq(S) /\ Len((a \o b) \o c) = Len(a \o b) + Len(c)
  BY <1>5, <1>7, ConcatProperties
<1>9. Len((a \o b) \o c) = Len(s) + 1
  BY <1>1, <1>3, <1>4, <1>5, <1>7, <1>8
<1> QED
  BY <1>6, <1>8, <1>9

\* A removal keeps the type of a sequence.
LEMMA RemoveIs ==
    ASSUME NEW S, NEW s \in Seq(S), NEW index \in DOMAIN s
    PROVE  RemoveAt(s, index) \in Seq(S) /\ Len(RemoveAt(s, index)) = Len(s) - 1
<1> DEFINE a == SubSeq(s, 1, index - 1)
           c == SubSeq(s, index + 1, Len(s))
<1>1. /\ Len(s) \in Nat /\ index \in Int /\ index - 1 \in Int /\ index + 1 \in Int
      /\ 1 <= index /\ index <= Len(s)
  OBVIOUS
<1>2. \A i \in 1..Len(s) : s[i] \in S
  OBVIOUS
<1>3. a \in Seq(S) /\ Len(a) = index - 1
  <2>1. \A i \in 1..(index - 1) : s[i] \in S
    BY <1>1, <1>2
  <2>2. a \in Seq(S) /\ Len(a) = IF 1 <= index - 1 THEN index - 1 - 1 + 1 ELSE 0
    BY <1>1, <2>1, SubSeqProperties
  <2> HIDE DEF a
  <2> QED
    BY <1>1, <2>2
<1>4. c \in Seq(S) /\ Len(c) = Len(s) - index
  <2>1. \A i \in (index + 1)..Len(s) : s[i] \in S
    BY <1>1, <1>2
  <2>2. c \in Seq(S) /\ Len(c) = IF index + 1 <= Len(s) THEN Len(s) - (index + 1) + 1 ELSE 0
    BY <1>1, <2>1, SubSeqProperties
  <2> HIDE DEF c
  <2> QED
    BY <1>1, <2>2
<1>5. RemoveAt(s, index) = a \o c
  BY DEF RemoveAt
<1> HIDE DEF a, c
<1>6. a \o c \in Seq(S) /\ Len(a \o c) = Len(a) + Len(c)
  BY <1>3, <1>4, ConcatProperties
<1>7. Len(a \o c) = Len(s) - 1
  BY <1>1, <1>3, <1>4, <1>6
<1> QED
  BY <1>5, <1>6, <1>7

\* addSyncAgt.
LEMMA AddSyncAgtKeeps ==
    ASSUME IInv, NEW kind \in LaterKinds, NEW index \in 1..(Len(agents) + 1),
           AddSyncAgt(kind, index)
    PROVE  IInv'
<1> PICK lost \in SUBSET {o \in Held : MayFail(kind)} :
         /\ status' = Filled(kind, lost).status
         /\ agents' = IF Filled(kind, lost).status = "running"
                      THEN InsertAt(agents, index, Filled(kind, lost).agent) ELSE agents
  BY DEF AddSyncAgt
<1> DEFINE f == Filled(kind, lost)
<1>1. /\ status = "running" /\ Len(agents) < MaxAgents /\ status' = f.status
      /\ agents' = IF f.status = "running" THEN InsertAt(agents, index, f.agent) ELSE agents
      /\ myData' = myData /\ answer' = answer /\ deletions' = deletions
  BY DEF AddSyncAgt
<1>2. /\ Types /\ Distinct(myData) /\ \A i \in DOMAIN agents : Holds(agents[i], Held)
      /\ kind \in Kinds
  BY <1>1, DataAssumption DEF IInv, InHand
<1>3. /\ f.status \in {"running", "quit", "looping"}
      /\ f.status = "running" => Holds(f.agent, Held)
      /\ f.status = "looping" => Len(myData) > DataMax - (FieldSize - DataMax)
  BY <1>2, FilledIs DEF Types
<1> HIDE DEF f
<1>4. Held' = Held /\ Distinct(myData)'
  BY <1>1, <1>2 DEF Held, Distinct
<1>5. LoopsOnlyBeyond'
  BY <1>1, <1>3 DEF LoopsOnlyBeyond
<1>6. CASE f.status # "running"
  <2>1. Types'
    BY <1>1, <1>2, <1>3, <1>6 DEF Types
  <2>2. InHand'
    BY <1>1, <1>6 DEF InHand
  <2> QED
    BY <1>4, <1>5, <2>1, <2>2 DEF IInv
<1>7. CASE f.status = "running"
  <2> DEFINE A == InsertAt(agents, index, f.agent)
             S == {a \in Agent : Holds(a, Held)}
  <2>1. f.agent \in S /\ agents \in Seq(S) /\ agents \in Seq(Agent)
    BY <1>2, <1>3, <1>7 DEF Types, Holds
  <2>2. A \in Seq(S) /\ A \in Seq(Agent) /\ Len(A) = Len(agents) + 1
    <3>1. A \in Seq(S) /\ Len(A) = Len(agents) + 1
      <4> HIDE DEF S
      <4> QED
        BY <2>1, InsertIs
    <3> HIDE DEF A
    <3> QED
      BY <3>1
  <2>3. agents' = A
    BY <1>1, <1>7
  <2> HIDE DEF A
  <2>4. Len(A) <= MaxAgents
    <3>1. Len(agents) \in Nat /\ MaxAgents \in Nat
      BY <2>1, DataAssumption
    <3> QED
      BY <1>1, <2>2, <3>1
  <2>5. Types'
    BY <1>1, <1>2, <1>3, <2>2, <2>3, <2>4 DEF Types
  <2>6. \A i \in DOMAIN A : Holds(A[i], Held)
    BY <2>2
  <2>7. InHand'
    BY <1>4, <2>3, <2>6 DEF InHand
  <2> QED
    BY <1>4, <1>5, <2>5, <2>7 DEF IInv
<1> QED
  BY <1>6, <1>7

\* delSyncAgt.
LEMMA DelSyncAgtKeeps ==
    ASSUME IInv, NEW index \in DOMAIN agents, DelSyncAgt(index)
    PROVE  IInv'
<1> DEFINE A == RemoveAt(agents, index)
<1>1. /\ status = "running" /\ agents' = A
      /\ myData' = myData /\ status' = status /\ answer' = answer /\ deletions' = deletions
  BY DEF DelSyncAgt
<1>2. Types /\ Distinct(myData) /\ \A i \in DOMAIN agents : Holds(agents[i], Held)
  BY <1>1 DEF IInv, InHand
<1> DEFINE S == {a \in Agent : Holds(a, Held)}
<1>3. agents \in Seq(S) /\ agents \in Seq(Agent)
  BY <1>2 DEF Types
<1>4. A \in Seq(S) /\ A \in Seq(Agent) /\ Len(A) = Len(agents) - 1
  <2>1. A \in Seq(S) /\ Len(A) = Len(agents) - 1
    <3> HIDE DEF S
    <3> QED
      BY <1>3, RemoveIs
  <2> HIDE DEF A
  <2> QED
    BY <2>1
<1> HIDE DEF A
<1>5. Len(A) <= MaxAgents
  <2>1. Len(agents) \in Nat /\ MaxAgents \in Nat /\ Len(agents) <= MaxAgents
    BY <1>2, <1>3, DataAssumption DEF Types
  <2> QED
    BY <1>4, <2>1
<1>6. Types'
  BY <1>1, <1>2, <1>4, <1>5 DEF Types
<1>7. Held' = Held /\ Distinct(myData)' /\ LoopsOnlyBeyond'
  BY <1>1, <1>2 DEF Held, Distinct, LoopsOnlyBeyond
<1>8. \A i \in DOMAIN A : Holds(A[i], Held)
  BY <1>4
<1>9. InHand'
  BY <1>1, <1>7, <1>8 DEF InHand
<1> QED
  BY <1>6, <1>7, <1>9 DEF IInv

\* The agents hold the data, each in the form of its kind, whatever was called.
LEMMA DataInvariance == Spec => []IInv
<1>1. IInv /\ [Next]_vars => IInv'
  <2> SUFFICES ASSUME IInv, [Next]_vars PROVE IInv'
    OBVIOUS
  <2>1. CASE UNCHANGED vars
    BY <2>1 DEF vars, IInv, Types, Distinct, InHand, Held, LoopsOnlyBeyond
  <2> QED
    BY <2>1, AddElemKeeps, DelElemKeeps, ClearDataKeeps, AddSyncAgtKeeps, DelSyncAgtKeeps
       DEF Next
<1> QED
  BY <1>1, InitIn, PTL DEF Spec

\* Data, agents, summaries and hash tables have their types.
THEOREM DataTypeCorrect == Spec => []TypeOK
<1>1. IInv => TypeOK
  <2> SUFFICES ASSUME IInv PROVE TypeOK
    OBVIOUS
  <2>1. ASSUME NEW i \in DOMAIN agents PROVE AgentOK(agents[i])
    <3>1. agents[i] \in Agent
      BY DEF IInv, Types
    <3>2. DOMAIN agents[i] = {"kind", "elems", "bag", "table", "roots", "slipped", "refused"}
      BY <3>1 DEF Agent
    <3> QED
      BY <3>1, <3>2, AgentFields DEF AgentOK, Range
  <2> QED
    BY <2>1 DEF IInv, Types, TypeOK
<1> QED
  BY <1>1, DataInvariance, PTL

\* AgentsAgree: the agents hold the pointers that GenSync holds, whatever failed.
THEOREM AgentsHoldTheData == Spec => []AgentsAgree
<1>1. IInv => AgentsAgree
  BY DEF IInv, InHand, Holds, AgentsAgree, Each
<1> QED
  BY <1>1, DataInvariance, PTL

\* RootsExact: the evaluations of a CPI agent are those of its hash table.
THEOREM RootsAreExact == Spec => []RootsExact
<1>1. IInv => RootsExact
  BY DEF IInv, InHand, Holds, Stored, RootsExact, Each
<1> QED
  BY <1>1, DataInvariance, PTL

\* SummaryExact: tables, filters and multisets count the elements that went into them,
\* with the exceptions that deletions by value or by pointer make; a filter never counts
\* fewer of a value than it took, whatever was deleted.
THEOREM SummariesAreExact == Spec => []SummaryExact
<1>1. IInv => SummaryExact
  <2> SUFFICES ASSUME IInv, status = "running", NEW i \in DOMAIN agents,
                      agents[i].kind \in BagKinds, NEW v \in Value
               PROVE  LET a == agents[i] IN
                      IF v \notin a.slipped THEN a.bag[v] = Copies(Inserted(a), v)
                      ELSE /\ a.kind = "Full" => a.bag[v] <= Copies(a.elems, v)
                           /\ a.kind = "Cuckoo" => a.bag[v] >= Copies(Inserted(a), v)
    BY DEF SummaryExact, Each
  <2> DEFINE a == agents[i]
  <2>1. Holds(a, Held)
    BY DEF IInv, InHand
  <2> HIDE DEF a
  <2>2. /\ a.elems = Held /\ Tally(a, Into(a, Held)) /\ Inserted(a) = Into(a, Held)
        /\ a.kind = "Full" => Into(a, Held) = Held
    BY <2>1 DEF Holds, Counted, Into, Inserted, a
  <2>3. IF v \notin a.slipped THEN a.bag[v] = Copies(Into(a, Held), v)
        ELSE /\ a.kind = "Full" => a.bag[v] <= Copies(Into(a, Held), v)
             /\ a.kind = "Cuckoo" => a.bag[v] >= Copies(Into(a, Held), v)
    BY <2>2, Zenon DEF Tally
  <2> QED
    BY <2>2, <2>3, Zenon DEF a
<1> QED
  BY <1>1, DataInvariance, PTL

\* HashesByValue: without deletions the hashes are a function of the multiset of values.
THEOREM HashesAreByValue == Spec => []HashesByValue
<1>1. IInv => HashesByValue
  BY DEF IInv, InHand, Holds, ByValue, Apart, HashesByValue, Each
<1> QED
  BY <1>1, DataInvariance, PTL

\* LoopsOnlyBeyond: the search for a hash ends in a table with more free hashes than the
\* field has elements beyond the hashes.
THEOREM SearchesEnd == Spec => []LoopsOnlyBeyond
<1>1. IInv => LoopsOnlyBeyond
  BY DEF IInv
<1> QED
  BY <1>1, DataInvariance, PTL

(***************************************************************************)
(* MET_IBLTSync: the tables that are peeled together.                      *)
(***************************************************************************)
Odd(f) == {e \in Elem : f[e] % 2 = 1}
NonNegative(f) == \A e \in Elem : f[e] >= 0
NonPositive(f) == \A e \in Elem : f[e] <= 0

\* What the server's tables hold more than the client's, and the elements that differ.
Surplus == Minus(copies["server"], copies["client"])
Differ == Lacks("client") \cup Lacks("server")
Found == Support(listed["pos"]) \cup Support(listed["neg"])

\* Where the hosts are in a session, unless they are dead.
Dead == {"quit", "bound"}
Sits(c, s) == pc["client"] \in c \cup Dead /\ pc["server"] \in s \cup Dead
Aside == {"begin", "post", "returned"}
Holding(toClient, toServer) == chan["client"] = toClient /\ chan["server"] = toServer
SameSession == session["client"] = session["server"]

Parted == Sits(Aside, Aside) /\ Holding(<<>>, <<>>)
TableSent ==
    /\ Sits({"awaitFlag"}, {"recvTable"}) /\ SameSession
    /\ Holding(<<>>, <<Table("client", mIndex["client"])>>)
    /\ mIndex["server"] = mIndex["client"] /\ Len(diffMET) = mIndex["server"] - 1
Peels ==
    /\ Sits({"awaitFlag"}, {"peeling"}) /\ SameSession
    /\ Holding(<<>>, <<>>)
    /\ mIndex["server"] = mIndex["client"] /\ Len(diffMET) = mIndex["server"]
Refused ==
    /\ Sits({"awaitFlag"}, {"recvTable"}) /\ SameSession
    /\ Holding(<<Flag(FALSE)>>, <<>>)
    /\ mIndex["server"] = mIndex["client"] + 1 /\ Len(diffMET) = mIndex["client"]

\* What the client is to be given, and the server, when only one of them lacks elements.
Exactly(toClient, toServer) ==
    /\ Lacks("server") = {} => toClient = Indicator(Lacks("client")) /\ toServer = Nothing
    /\ Lacks("client") = {} => toServer = Indicator(Lacks("server")) /\ toClient = Nothing
Answered ==
    \E f, g \in [Elem -> 0..MaxCopies] :
        /\ \/ Sits({"awaitFlag"}, Aside) /\ Holding(<<Flag(TRUE), List(f), List(g)>>, <<>>)
           \/ Sits({"awaitLists"}, Aside) /\ Holding(<<List(f), List(g)>>, <<>>)
        /\ pc["server"] = "post" /\ Regular => Exactly(f, oms["server"])
Between ==
    Parted /\ (Regular /\ (\A h \in Hosts : pc[h] = "post")
                => Exactly(oms["client"], oms["server"]))

InSession == {"awaitFlag", "recvTable", "peeling"}

\* The sessions in which tables were appended are over, or this is the one.
GrewInv ==
    /\ grew \subseteq 1..Sessions
    /\ \A h \in Hosts :
          /\ Len(tables[h]) > 1 => grew # {}
          /\ \A n \in grew : n <= session[h] /\ (pc[h] = "begin" => n < session[h])
          /\ pc[h] \in InSession /\ Len(tables[h]) > mIndex[h]
                => \E n \in grew : n < session[h]

\* The tables hold what the host holds.
TablesInv == Regular => \A h \in Hosts : \A i \in 1..Len(tables[h]) : tables[h][i] = copies[h]

\* All the tables show the same elements, those not listed yet, and on one side if all
\* that differ are.
Shows(f, S) ==
    /\ Odd(f) = S
    /\ Lacks("server") = {} => NonNegative(f)
    /\ Lacks("client") = {} => NonPositive(f)
ListedInv ==
    /\ Found \subseteq Differ
    /\ Lacks("server") = {} => listed["pos"] = Indicator(Found) /\ listed["neg"] = Nothing
    /\ Lacks("client") = {} => listed["neg"] = Indicator(Found) /\ listed["pos"] = Nothing
PeelingInv ==
    pc["server"] = "peeling" /\ Regular =>
        /\ \A i \in 1..Len(work) : Shows(work[i], Differ \ Found)
        /\ ListedInv

Differences ==
    Regular => \A i \in 1..Len(diffMET) : diffMET[i] = Surplus

Phase ==
    \/ Between \/ Answered
    \/ (TableSent \/ Peels \/ Refused) /\ Differences

PeelTypes ==
    /\ place \in Places
    /\ PeelTypeOK
    /\ DOMAIN chan = Hosts
    /\ \A h \in Hosts : /\ mIndex[h] <= Len(tables[h])
                        /\ pc[h] \notin Dead \cup {"returned"} => session[h] <= Sessions
    /\ pc["server"] = "peeling" => Len(work) = Len(diffMET) /\ Len(work) > 0

PeelInv == PeelTypes /\ Phase /\ GrewInv /\ TablesInv /\ PeelingInv

(***************************************************************************)
(* The count of a cell.                                                    *)
(***************************************************************************)
\* What the constants are.
LEMMA PeelConstants ==
    /\ IsFiniteSet(Elem)
    /\ CellCount \in Nat \ {0} /\ Sessions \in Nat \ {0}
    /\ MaxTables \in Nat \ {0} /\ MaxCopies \in Nat \ {0}
    /\ \A p \in Places, i \in 1..MaxTables, e \in Elem :
          p[i][e] \in SUBSET Cells /\ p[i][e] # {}
BY METAssumption

\* The count of a cell is the sum over the elements in it, added up one by one; it has the
\* sign of the numbers in the table when these have one.
LEMMA CountSigns ==
    ASSUME NEW i, NEW t \in Content, NEW c
    PROVE  /\ NonNegative(t) => CountAt(i, t, c) >= 0
           /\ NonPositive(t) => CountAt(i, t, c) <= 0
<1> DEFINE S == {e \in Elem : c \in place[i][e]}
<1>0. IsFiniteSet(S) /\ \A x \in S : t[x] \in Int /\ x \in Elem
  <2>1. S \subseteq Elem
    OBVIOUS
  <2>2. \A e \in S : t[e] \in Int
    BY <2>1 DEF Content
  <2> QED
    BY <2>1, <2>2, PeelConstants, FS_Subset
<1> DEFINE pick(s) == CHOOSE x \in s : TRUE
           Sum(k) == [s \in SUBSET S |-> IF s = {} THEN 0 ELSE t[pick(s)] + k[s \ {pick(s)}]]
           total == CHOOSE k : k = Sum(k)
           Small(m) == {s \in SUBSET S : Cardinality(s) <= m}
<1>b. CountAt(i, t, c) = total[S]
  BY DEF CountAt, MapThenSumSet, MapThenFoldSet
<1> HIDE DEF S
<1>1. PICK n \in Nat : n = Cardinality(S)
  BY <1>0, FS_CardinalityType
<1>2. \A s \in SUBSET S : /\ IsFiniteSet(s) /\ Cardinality(s) \in 0..n
                          /\ s # {} => /\ pick(s) \in s /\ s \ {pick(s)} \in SUBSET S
                                       /\ Cardinality(s \ {pick(s)}) = Cardinality(s) - 1
                          /\ Cardinality(s) = 0 => s = {}
  <2> SUFFICES ASSUME NEW s \in SUBSET S
               PROVE  /\ IsFiniteSet(s) /\ Cardinality(s) \in 0..n
                      /\ s # {} => /\ pick(s) \in s /\ s \ {pick(s)} \in SUBSET S
                                   /\ Cardinality(s \ {pick(s)}) = Cardinality(s) - 1
                      /\ Cardinality(s) = 0 => s = {}
    OBVIOUS
  <2>1. IsFiniteSet(s) /\ Cardinality(s) <= n /\ Cardinality(s) \in Nat
    BY <1>0, <1>1, FS_Subset, FS_CardinalityType
  <2>2. Cardinality(s) = 0 => s = {}
    BY <2>1, FS_EmptySet
  <2>3. ASSUME s # {} PROVE pick(s) \in s
    BY <2>3
  <2>4. ASSUME s # {}
        PROVE  Cardinality(s \ {pick(s)}) = Cardinality(s) - 1
    BY <2>1, <2>3, <2>4, FS_RemoveElement
  <2> QED
    BY <2>1, <2>2, <2>3, <2>4
<1> HIDE DEF pick
<1>a. /\ \A m \in Nat : Small(m) \subseteq SUBSET S
      /\ \A s \in Small(0) : s = {}
      /\ \A s \in SUBSET S : s \in Small(n)
      /\ \A m \in 1..n : \A s \in Small(m) : s # {} => s \ {pick(s)} \in Small(m - 1)
  <2>1. ASSUME NEW s \in Small(0) PROVE s = {}
    <3>1. s \in SUBSET S /\ Cardinality(s) <= 0 /\ Cardinality(s) \in 0..n
      BY <1>2
    <3>2. Cardinality(s) = 0
      BY <3>1
    <3> QED
      BY <1>2, <3>1, <3>2
  <2>2. ASSUME NEW s \in SUBSET S PROVE s \in Small(n)
    <3>1. Cardinality(s) \in 0..n
      BY <1>2
    <3>2. Cardinality(s) <= n
      BY <3>1
    <3> QED
      BY <3>2
  <2>3. ASSUME NEW m \in 1..n, NEW s \in Small(m), s # {}
        PROVE  s \ {pick(s)} \in Small(m - 1)
    <3>1. s \ {pick(s)} \in SUBSET S /\ Cardinality(s \ {pick(s)}) = Cardinality(s) - 1
      BY <1>2, <2>3
    <3>2. PICK d \in 0..n : d = Cardinality(s)
      BY <1>2
    <3>3. d - 1 <= m - 1
      BY <3>2
    <3> QED
      BY <3>1, <3>2, <3>3
  <2> QED
    BY <2>1, <2>2, <2>3
<1> HIDE DEF Small
<1>3. \E k : k = Sum(k)
  <2> DEFINE Step(k, s) == IF s = {} THEN 0 ELSE t[pick(s)] + k[s \ {pick(s)}]
             P == {m \in 0..n : \E k \in [SUBSET S -> Int] : \A s \in Small(m) : k[s] = Step(k, s)}
  <2>1. \A k \in [SUBSET S -> Int] :
           /\ Sum(k) \in [SUBSET S -> Int]
           /\ \A s \in SUBSET S : Sum(k)[s] = Step(k, s)
    <3> SUFFICES ASSUME NEW k \in [SUBSET S -> Int], NEW s \in SUBSET S
                 PROVE  Step(k, s) \in Int
      OBVIOUS
    <3>1. CASE s = {}
      BY <3>1
    <3>2. CASE s # {}
      <4>1. pick(s) \in S /\ s \ {pick(s)} \in SUBSET S
        BY <1>2, <3>2
      <4>2. t[pick(s)] \in Int /\ k[s \ {pick(s)}] \in Int
        BY <1>0, <4>1
      <4> QED
        BY <3>2, <4>2
    <3> QED
      BY <3>1, <3>2
  <2> HIDE DEF Sum
  <2>2. 0 \in P
    <3>1. [s \in SUBSET S |-> 0] \in [SUBSET S -> Int]
      OBVIOUS
    <3>2. \A s \in Small(0) : s \in SUBSET S /\ s = {}
      BY <1>a
    <3>0. PICK z : z = [s \in SUBSET S |-> 0]
      OBVIOUS
    <3>3. \A s \in Small(0) : z[s] = Step(z, s)
      BY <3>0, <3>2
    <3>4. 0 \in 0..n
      BY <1>1
    <3> HIDE DEF Step
    <3> QED
      BY <3>0, <3>1, <3>3, <3>4, Zenon
  <2>3. ASSUME NEW m \in 1..n, m - 1 \in P PROVE m \in P
    <3>1. PICK k \in [SUBSET S -> Int] : \A s \in Small(m - 1) : k[s] = Step(k, s)
      BY <2>3
    <3>2. ASSUME NEW s \in Small(m) PROVE Sum(k)[s] = Step(Sum(k), s)
      <4>1. CASE s = {}
        <5>1. s \in SUBSET S
          BY <4>1
        <5>2. Sum(k)[s] = Step(k, s)
          BY <2>1, <5>1
        <5> QED
          BY <4>1, <5>2
      <4>2. CASE s # {}
        <5>0. s \in SUBSET S
          BY <1>1, <1>a
        <5>1. s \ {pick(s)} \in Small(m - 1) /\ s \ {pick(s)} \in SUBSET S
          BY <1>1, <1>a, <4>2
        <5>2. k[s \ {pick(s)}] = Sum(k)[s \ {pick(s)}]
          BY <2>1, <3>1, <5>1, Zenon
        <5>3. Sum(k)[s] = Step(k, s)
          BY <2>1, <5>0
        <5>4. Step(k, s) = Step(Sum(k), s)
          BY <4>2, <5>2
        <5> QED
          BY <5>3, <5>4
      <4> QED
        BY <4>1, <4>2
    <3>3. Sum(k) \in [SUBSET S -> Int] /\ m \in 0..n
      <4>1. Sum(k) \in [SUBSET S -> Int]
        BY <2>1
      <4>2. m \in 0..n
        BY <1>1
      <4> QED
        BY <4>1, <4>2
    <3> HIDE DEF Step
    <3> QED
      BY <3>2, <3>3, Zenon
  <2>4. n \in P
    <3> HIDE DEF P
    <3>1. P \in SUBSET (0..n)
      BY DEF P
    <3>2. P = 0..n
      BY <1>1, <2>2, <2>3, <3>1, Induction, Zenon
    <3> QED
      BY <1>1, <3>2
  <2>5. PICK k \in [SUBSET S -> Int] : \A s \in Small(n) : k[s] = Step(k, s)
    BY <2>4
  <2>6. \A s \in SUBSET S : k[s] = Sum(k)[s]
    <3> QED
      BY <1>a, <2>1, <2>5, Zenon
  <2>7. k = Sum(k)
    <3>1. Sum(k) \in [SUBSET S -> Int]
      BY <2>1
    <3> QED
      BY <2>6, <3>1
  <2> QED
    BY <2>7
<1>4. total = Sum(total)
  <2> HIDE DEF Sum
  <2> QED
    BY <1>3
<1> HIDE DEF total
<1>6. /\ total[{}] = 0
      /\ \A s \in SUBSET S : s # {} => total[s] = t[pick(s)] + total[s \ {pick(s)}]
  BY <1>4
<1> HIDE DEF Sum
<1>7. ASSUME NEW Sign \in SUBSET Int, 0 \in Sign, \A x, y \in Sign : x + y \in Sign,
             \A x \in S : t[x] \in Sign
      PROVE  total[S] \in Sign
  <2> DEFINE P == {m \in 0..n : \A s \in Small(m) : total[s] \in Sign}
  <2>1. 0 \in P
    <3>1. \A s \in Small(0) : total[s] = 0
      BY <1>6, <1>a
    <3> QED
      BY <1>1, <1>7, <3>1
  <2>2. ASSUME NEW m \in 1..n, m - 1 \in P PROVE m \in P
    <3> SUFFICES ASSUME NEW s \in Small(m) PROVE total[s] \in Sign
      OBVIOUS
    <3>1. CASE s = {}
      BY <1>6, <1>7, <3>1
    <3>2. CASE s # {}
      <4>0. s \in SUBSET S
        BY <1>a
      <4>1. s \ {pick(s)} \in Small(m - 1) /\ pick(s) \in S
        BY <1>2, <1>a, <3>2, <4>0
      <4>2. total[s \ {pick(s)}] \in Sign /\ t[pick(s)] \in Sign
        BY <1>7, <2>2, <4>1
      <4>3. t[pick(s)] + total[s \ {pick(s)}] \in Sign
        BY <1>7, <4>2
      <4> QED
        BY <1>6, <3>2, <4>0, <4>3
    <3> QED
      BY <3>1, <3>2
  <2>3. n \in P
    <3> HIDE DEF P
    <3>1. P \in SUBSET (0..n)
      BY DEF P
    <3>2. P = 0..n
      BY <1>1, <2>1, <2>2, <3>1, Induction, Zenon
    <3> QED
      BY <1>1, <3>2
  <2>4. S \in Small(n)
    BY <1>a
  <2> QED
    BY <2>3, <2>4
<1>8. ASSUME NonNegative(t) PROVE total[S] >= 0
  <2>1. \A x \in S : t[x] \in Nat
    BY <1>0, <1>8 DEF NonNegative
  <2>2. Nat \in SUBSET Int /\ 0 \in Nat /\ \A x, y \in Nat : x + y \in Nat
    OBVIOUS
  <2>3. total[S] \in Nat
    BY <1>7, <2>1, <2>2, Zenon
  <2> QED
    BY <2>3
<1>9. ASSUME NonPositive(t) PROVE total[S] <= 0
  <2> DEFINE Down == {k \in Int : k <= 0}
  <2>1. \A x \in S : t[x] \in Down
    BY <1>0, <1>9 DEF NonPositive
  <2>2. Down \in SUBSET Int /\ 0 \in Down /\ \A x, y \in Down : x + y \in Down
    OBVIOUS
  <2>3. total[S] \in Down
    <3> HIDE DEF Down
    <3> QED
      BY <1>7, <2>1, <2>2, Zenon
  <2> QED
    BY <2>3
<1> QED
  BY <1>b, <1>8, <1>9

(***************************************************************************)
(* The scan of one table.                                                  *)
(***************************************************************************)
Scans == [net : Content, pos : SUBSET Elem, neg : SUBSET Elem]

\* What a scan has made of table t: it has listed some of the elements of odd number,
\* once each, and on the one side that there is when no number is of the other sign.
Scanned(t, r) ==
    /\ r \in Scans
    /\ r.pos \cup r.neg \subseteq Odd(t)
    /\ Odd(r.net) = Odd(t) \ (r.pos \cup r.neg)
    /\ NonNegative(t) => NonNegative(r.net) /\ r.neg = {}
    /\ NonPositive(t) => NonPositive(r.net) /\ r.pos = {}

\* A pure cell shows an element of odd number, and its count has the sign of the table.
LEMMA PureCell ==
    ASSUME NEW i \in 1..MaxTables, NEW t \in Content, NEW c \in Cells, PureAt(i, t, c)
    PROVE  \E k \in Odd(t), n \in {1, -1} :
              /\ (CHOOSE e \in KeysAt(i, t, c) : TRUE) = k
              /\ CountAt(i, t, c) = n
              /\ NonNegative(t) => n = 1
              /\ NonPositive(t) => n = -1
<1>4. PICK n \in {1, -1} : n = CountAt(i, t, c)
  BY DEF PureAt
<1>5. Cardinality(KeysAt(i, t, c)) = 1
  BY DEF PureAt
<1>6. KeysAt(i, t, c) # {}
  BY <1>5, FS_EmptySet
<1>7. PICK k : k = CHOOSE e \in KeysAt(i, t, c) : TRUE
  OBVIOUS
<1>8. k \in KeysAt(i, t, c)
  BY <1>6, <1>7
<1>9. k \in Odd(t)
  BY <1>8 DEF KeysAt, Odd
<1>10. NonNegative(t) => n >= 0
  BY <1>4, CountSigns
<1>11. NonPositive(t) => n <= 0
  BY <1>4, CountSigns
<1>12. (NonNegative(t) => n = 1) /\ (NonPositive(t) => n = -1)
  BY <1>10, <1>11
<1> QED
  BY <1>4, <1>7, <1>9, <1>12, Zenon

\* One entry of the scan.
LEMMA ScansOne ==
    ASSUME NEW i \in 1..MaxTables, NEW t \in Content, NEW c \in Cells,
           NEW r, Scanned(t, r)
    PROVE  Scanned(t, ListCell(i, r, c))
<1>1. r.net \in Content /\ r.pos \in SUBSET Elem /\ r.neg \in SUBSET Elem /\ r \in Scans
  BY DEF Scanned, Scans
<1>2. CASE ~PureAt(i, r.net, c)
  BY <1>2 DEF ListCell
<1>3. CASE PureAt(i, r.net, c)
  <2>1. PICK k \in Odd(r.net), n \in {1, -1} :
           /\ (CHOOSE e \in KeysAt(i, r.net, c) : TRUE) = k
           /\ CountAt(i, r.net, c) = n
           /\ NonNegative(r.net) => n = 1
           /\ NonPositive(r.net) => n = -1
    BY <1>1, <1>3, PureCell
  <2>2. ListCell(i, r, c)
          = [r EXCEPT !.net[k] = @ - n, ![IF n = 1 THEN "pos" ELSE "neg"] = @ \cup {k}]
    BY <1>3, <2>1 DEF ListCell
  <2>3. PICK f : f = [r.net EXCEPT ![k] = r.net[k] - n]
    OBVIOUS
  <2>4. k \in Elem /\ r.net[k] \in Int /\ r.net[k] % 2 = 1
    BY <1>1 DEF Odd, Content
  <2>5. /\ f \in Content
        /\ \A e \in Elem : f[e] = IF e = k THEN r.net[k] - n ELSE r.net[e]
    BY <1>1, <2>3, <2>4 DEF Content
  <2>6. Odd(f) = Odd(r.net) \ {k}
    <3>1. (r.net[k] - n) % 2 # 1
      BY <2>4
    <3> QED
      BY <2>5, <3>1 DEF Odd
  <2>7. NonNegative(r.net) => NonNegative(f)
    <3>1. NonNegative(r.net) => n = 1 /\ r.net[k] >= 0
      BY <2>1, <2>4 DEF NonNegative
    <3>2. NonNegative(r.net) => r.net[k] - n >= 0
      BY <2>4, <3>1
    <3> QED
      BY <2>5, <3>2 DEF NonNegative
  <2>8. NonPositive(r.net) => NonPositive(f)
    <3>1. NonPositive(r.net) => n = -1 /\ r.net[k] <= 0
      BY <2>1, <2>4 DEF NonPositive
    <3>2. NonPositive(r.net) => r.net[k] - n <= 0
      BY <2>4, <3>1
    <3> QED
      BY <2>5, <3>2 DEF NonPositive
  <2>9. CASE n = 1
    <3>1. ListCell(i, r, c) = [net |-> f, pos |-> r.pos \cup {k}, neg |-> r.neg]
      BY <1>1, <2>2, <2>3, <2>9 DEF Scans
    <3>2. ~NonPositive(r.net)
      BY <2>1, <2>9
    <3>3. PICK q : q = ListCell(i, r, c)
      OBVIOUS
    <3>4. q.net = f /\ q.pos = r.pos \cup {k} /\ q.neg = r.neg /\ q \in Scans
      BY <1>1, <2>4, <2>5, <3>1, <3>3 DEF Scans
    <3> QED
      BY <1>1, <2>6, <2>7, <3>2, <3>3, <3>4 DEF Scanned
  <2>10. CASE n = -1
    <3>0. n # 1
      BY <2>10
    <3>1. ListCell(i, r, c) = [net |-> f, pos |-> r.pos, neg |-> r.neg \cup {k}]
      BY <1>1, <2>2, <2>3, <3>0 DEF Scans
    <3>2. ~NonNegative(r.net)
      BY <2>1, <2>10
    <3>3. PICK q : q = ListCell(i, r, c)
      OBVIOUS
    <3>4. q.net = f /\ q.pos = r.pos /\ q.neg = r.neg \cup {k} /\ q \in Scans
      BY <1>1, <2>4, <2>5, <3>1, <3>3 DEF Scans
    <3> QED
      BY <1>1, <2>6, <2>8, <3>2, <3>3, <3>4 DEF Scanned
  <2> QED
    BY <2>9, <2>10
<1> QED
  BY <1>2, <1>3

\* A pass over the cells.
LEMMA ScansAll ==
    ASSUME NEW i \in 1..MaxTables, NEW t \in Content, NEW r, Scanned(t, r)
    PROVE  Scanned(t, ListPass(i, r))
<1> DEFINE S == {q \in Scans : Scanned(t, q)}
           G == [c \in 1..CellCount |-> [q \in S |-> ListCell(i, q, c)]]
           Body(k) == [c \in 0..CellCount |-> IF c = 0 THEN r ELSE ListCell(i, k[c - 1], c)]
           upTo == CHOOSE k : k = Body(k)
           P == {c \in 0..CellCount : upTo[c] \in S}
<1>1. CellCount \in Nat /\ CellCount \in 0..CellCount /\ 0 \in 0..CellCount
  BY PeelConstants
<1>2. r \in S
  BY DEF Scanned
<1>3. \A c \in 1..CellCount : \A q \in S : ListCell(i, q, c) \in S
  <2> SUFFICES ASSUME NEW c \in 1..CellCount, NEW q \in S
               PROVE  ListCell(i, q, c) \in S
    OBVIOUS
  <2>1. c \in Cells
    BY DEF Cells
  <2>2. Scanned(t, ListCell(i, q, c))
    BY <2>1, ScansOne
  <2> QED
    BY <2>2 DEF Scanned
<1> HIDE DEF S
<1>4. G \in Loops(CellCount, S)
  BY <1>3 DEF Loops
<1>5. PICK k : Runs(k, CellCount, S, r, G)
  <2> HIDE DEF G
  <2> QED
    BY <1>1, <1>2, <1>4, LoopRuns
<1>6. k = Body(k)
  <2>1. \A c \in 0..CellCount : k[c] = IF c = 0 THEN r ELSE ListCell(i, k[c - 1], c)
    <3> SUFFICES ASSUME NEW c \in 0..CellCount, c # 0 PROVE k[c] = ListCell(i, k[c - 1], c)
      BY <1>5 DEF Runs
    <3>1. c \in 1..CellCount /\ c - 1 \in 0..CellCount
      BY <1>1
    <3>2. k[c - 1] \in S /\ k[c] = G[c][k[c - 1]]
      <4> HIDE DEF G
      <4> QED
        BY <1>5, <3>1 DEF Runs
    <3> QED
      BY <3>1, <3>2
  <2>2. k = [c \in 0..CellCount |-> k[c]]
    BY <1>5 DEF Runs
  <2> QED
    BY <2>1, <2>2, Zenon
<1>7. upTo = Body(upTo)
  <2> HIDE DEF Body
  <2> QED
    BY <1>6, Zenon
<1>8. ListPass(i, r) = upTo[CellCount]
  BY DEF ListPass
<1> HIDE DEF upTo
<1>9. P = 0..CellCount
  <2>1. 0 \in P
    BY <1>1, <1>2, <1>7
  <2>2. ASSUME NEW c \in 1..CellCount, c - 1 \in P PROVE c \in P
    <3>1. c \in 0..CellCount /\ c # 0
      BY <1>1
    <3>2. upTo[c] = ListCell(i, upTo[c - 1], c)
      BY <1>7, <3>1
    <3>3. upTo[c - 1] \in S
      BY <2>2
    <3> QED
      BY <1>3, <3>1, <3>2, <3>3
  <2>3. P \in SUBSET (0..CellCount)
    OBVIOUS
  <2> HIDE DEF P
  <2> QED
    BY <1>1, <2>1, <2>2, <2>3, Induction, Zenon
<1>10. upTo[CellCount] \in S
  BY <1>1, <1>9
<1> QED
  BY <1>8, <1>10 DEF S

\* All passes.
LEMMA ScansTable ==
    ASSUME NEW i \in 1..MaxTables, NEW t \in Content
    PROVE  Scanned(t, ListEntries(i, t))
<1> DEFINE n == Cardinality(Elem)
           S == {q \in Scans : Scanned(t, q)}
           start == [net |-> t, pos |-> {}, neg |-> {}]
           G == [c \in 1..n |-> [q \in S |-> ListPass(i, q)]]
           Body(k) == [c \in 0..n |-> IF c = 0 THEN start ELSE ListPass(i, k[c - 1])]
           after == CHOOSE k : k = Body(k)
           P == {c \in 0..n : after[c] \in S}
<1>0. ListEntries(i, t) = after[n]
  BY DEF ListEntries
<1>1. n \in Nat /\ n \in 0..n /\ 0 \in 0..n
  <2>1. n \in Nat
    BY PeelConstants, FS_CardinalityType
  <2> HIDE DEF n
  <2> QED
    BY <2>1
<1>2. start \in S
  BY DEF Scanned, Scans
<1>3. \A q \in S : ListPass(i, q) \in S
  <2> SUFFICES ASSUME NEW q \in S PROVE ListPass(i, q) \in S
    OBVIOUS
  <2>1. Scanned(t, ListPass(i, q))
    BY ScansAll
  <2> QED
    BY <2>1 DEF Scanned
<1> HIDE DEF S, n, start
<1>4. G \in Loops(n, S)
  BY <1>3 DEF Loops
<1>5. PICK k : Runs(k, n, S, start, G)
  <2> HIDE DEF G
  <2> QED
    BY <1>1, <1>2, <1>4, LoopRuns
<1>6. k = Body(k)
  <2>1. \A c \in 0..n : k[c] = IF c = 0 THEN start ELSE ListPass(i, k[c - 1])
    <3> SUFFICES ASSUME NEW c \in 0..n, c # 0 PROVE k[c] = ListPass(i, k[c - 1])
      BY <1>5 DEF Runs
    <3>1. c \in 1..n /\ c - 1 \in 0..n
      BY <1>1
    <3>2. k[c - 1] \in S /\ k[c] = G[c][k[c - 1]]
      <4> HIDE DEF G
      <4> QED
        BY <1>5, <3>1 DEF Runs
    <3> QED
      BY <3>1, <3>2
  <2>2. k = [c \in 0..n |-> k[c]]
    BY <1>5 DEF Runs
  <2> QED
    BY <2>1, <2>2, Zenon
<1>7. after = Body(after)
  <2> HIDE DEF Body
  <2> QED
    BY <1>6, Zenon
<1> HIDE DEF after
<1>9. P = 0..n
  <2>1. 0 \in P
    BY <1>1, <1>2, <1>7
  <2>2. ASSUME NEW c \in 1..n, c - 1 \in P PROVE c \in P
    <3>1. c \in 0..n /\ c # 0
      BY <1>1
    <3>2. after[c] = ListPass(i, after[c - 1])
      BY <1>7, <3>1
    <3>3. after[c - 1] \in S
      BY <2>2
    <3> QED
      BY <1>3, <3>1, <3>2, <3>3
  <2>3. P \in SUBSET (0..n)
    OBVIOUS
  <2> HIDE DEF P
  <2> QED
    BY <1>1, <2>1, <2>2, <2>3, Induction, Zenon
<1>10. after[n] \in S
  BY <1>1, <1>9
<1> QED
  BY <1>0, <1>10 DEF S

(***************************************************************************)
(* One pass over all the tables.                                           *)
(***************************************************************************)
\* What table i of ws is after its scan.
Entries(ws, i) == ListEntries(i, ws[i])
OwnOf(ws, i) == Entries(ws, i).pos \cup Entries(ws, i).neg
RemovedBy(ws) == UNION {OwnOf(ws, i) : i \in 1..Len(ws)}
Rests(ws, i) ==
    Minus(Entries(ws, i).net, Indicator(Erased(RemovedBy(ws), OwnOf(ws, i))))

\* The results of a pass by name.
LEMMA PassFields ==
    ASSUME NEW ws \in Seq(Content)
    PROVE  /\ PeelOnce(ws).left = [i \in 1..Len(ws) |-> Rests(ws, i)]
           /\ \A e : e \in PeelOnce(ws).pos <=> \E i \in 1..Len(ws) : e \in Entries(ws, i).pos
           /\ \A e : e \in PeelOnce(ws).neg <=> \E i \in 1..Len(ws) : e \in Entries(ws, i).neg
           /\ RemovedBy(ws) = PeelOnce(ws).pos \cup PeelOnce(ws).neg
           /\ PeelOnce(ws).success
                => \E i \in 1..Len(ws) : EmptyTable(i, Entries(ws, i).net)
<1>1. DOMAIN ws = 1..Len(ws)
  OBVIOUS
<1>2. PICK lists : lists = [i \in 1..Len(ws) |-> ListEntries(i, ws[i])]
  OBVIOUS
<1>3. \A i \in 1..Len(ws) : lists[i] = Entries(ws, i)
  BY <1>2 DEF Entries
<1>4. DOMAIN lists = 1..Len(ws)
  BY <1>2
<1>5. PICK I : I = 1..Len(ws)
  OBVIOUS
<1>6. PICK removed : removed = UNION {lists[i].pos \cup lists[i].neg : i \in I}
  OBVIOUS
<1>7. removed = RemovedBy(ws)
  BY <1>3, <1>5, <1>6 DEF RemovedBy, OwnOf
<1>8. PeelOnce(ws)
        = [left |-> [i \in I |-> Minus(lists[i].net,
                                      Indicator(Erased(removed, lists[i].pos \cup lists[i].neg)))],
           pos |-> UNION {lists[i].pos : i \in I},
           neg |-> UNION {lists[i].neg : i \in I},
           success |-> Recovered(lists)]
  BY <1>1, <1>2, <1>5, <1>6, Zenon DEF PeelOnce
<1>9. PeelOnce(ws).left = [i \in I |-> Minus(lists[i].net,
                              Indicator(Erased(removed, lists[i].pos \cup lists[i].neg)))]
  BY <1>8
<1>10. PeelOnce(ws).pos = UNION {lists[i].pos : i \in I}
       /\ PeelOnce(ws).neg = UNION {lists[i].neg : i \in I}
       /\ PeelOnce(ws).success = Recovered(lists)
  BY <1>8
<1>11. \A i \in I : Minus(lists[i].net, Indicator(Erased(removed, lists[i].pos \cup lists[i].neg)))
                      = Rests(ws, i)
  BY <1>3, <1>5, <1>7, Zenon DEF Rests, OwnOf
<1>12. PeelOnce(ws).left = [i \in I |-> Rests(ws, i)]
  BY <1>9, <1>11, Zenon
<1>13. /\ \A e : e \in PeelOnce(ws).pos <=> \E i \in I : e \in Entries(ws, i).pos
       /\ \A e : e \in PeelOnce(ws).neg <=> \E i \in I : e \in Entries(ws, i).neg
  <2>1. /\ \A e : e \in UNION {lists[i].pos : i \in I} <=> \E i \in I : e \in lists[i].pos
        /\ \A e : e \in UNION {lists[i].neg : i \in I} <=> \E i \in I : e \in lists[i].neg
    OBVIOUS
  <2> QED
    BY <1>3, <1>5, <1>10, <2>1, Zenon
<1>15. RemovedBy(ws) = PeelOnce(ws).pos \cup PeelOnce(ws).neg
  <2>1. \A e : e \in RemovedBy(ws)
                 <=> \E i \in I : e \in Entries(ws, i).pos \/ e \in Entries(ws, i).neg
    BY <1>5 DEF RemovedBy, OwnOf
  <2> QED
    BY <1>13, <2>1
<1>14. Recovered(lists) => \E i \in I : EmptyTable(i, Entries(ws, i).net)
  BY <1>3, <1>4, <1>5, Zenon DEF Recovered
<1> QED
  BY <1>5, <1>10, <1>12, <1>13, <1>14, <1>15, Zenon

\* Each table after the scan.
LEMMA EntriesOf ==
    ASSUME NEW ws \in Seq(Content), Len(ws) <= MaxTables, NEW i \in 1..Len(ws)
    PROVE  /\ i \in 1..MaxTables /\ ws[i] \in Content
           /\ Scanned(ws[i], Entries(ws, i))
           /\ Entries(ws, i).net \in Content
           /\ Entries(ws, i).pos \in SUBSET Elem /\ Entries(ws, i).neg \in SUBSET Elem
<1>1. i \in 1..MaxTables /\ ws[i] \in Content
  <2>1. Len(ws) \in Nat /\ MaxTables \in Nat
    BY PeelConstants
  <2> QED
    BY <2>1
<1>2. Scanned(ws[i], Entries(ws, i))
  BY <1>1, ScansTable DEF Entries
<1> QED
  BY <1>1, <1>2 DEF Scanned, Scans

\* The types of a pass.
LEMMA PassTypes ==
    ASSUME NEW ws \in Seq(Content), Len(ws) <= MaxTables
    PROVE  /\ PeelOnce(ws).left \in Seq(Content) /\ Len(PeelOnce(ws).left) = Len(ws)
           /\ PeelOnce(ws).pos \in SUBSET Elem /\ PeelOnce(ws).neg \in SUBSET Elem
<1>1. \A i \in 1..Len(ws) : Rests(ws, i) \in Content
  <2> SUFFICES ASSUME NEW i \in 1..Len(ws) PROVE Rests(ws, i) \in Content
    OBVIOUS
  <2>1. Entries(ws, i).net \in Content
    BY EntriesOf
  <2> QED
    BY <2>1 DEF Rests, Minus, Indicator, Content
<1>2. PICK left : left = [i \in 1..Len(ws) |-> Rests(ws, i)]
  OBVIOUS
<1>3. left \in Seq(Content) /\ Len(left) = Len(ws)
  BY <1>1, <1>2
<1>4. \A i \in 1..Len(ws) : /\ Entries(ws, i).pos \in SUBSET Elem
                            /\ Entries(ws, i).neg \in SUBSET Elem
  BY EntriesOf, Zenon
<1>5. PeelOnce(ws).pos \in SUBSET Elem
  BY <1>4, PassFields
<1>6. PeelOnce(ws).neg \in SUBSET Elem
  BY <1>4, PassFields
<1> QED
  BY <1>2, <1>3, <1>5, <1>6, PassFields

\* Tables that show the same elements, D, show the same after a pass: those that no table
\* has listed.
LEMMA PassKeeps ==
    ASSUME NEW ws \in Seq(Content), Len(ws) <= MaxTables, NEW D,
           \A i \in 1..Len(ws) : Odd(ws[i]) = D
    PROVE  LET now == PeelOnce(ws).pos \cup PeelOnce(ws).neg
           IN  /\ now \subseteq D
               /\ \A i \in 1..Len(ws) : Odd(PeelOnce(ws).left[i]) = D \ now
<1>1. PICK now : now = PeelOnce(ws).pos \cup PeelOnce(ws).neg
  OBVIOUS
<1>2. now = RemovedBy(ws)
  BY <1>1, PassFields
<1>3. \A i \in 1..Len(ws) : /\ OwnOf(ws, i) \subseteq D
                            /\ Odd(Entries(ws, i).net) = D \ OwnOf(ws, i)
                            /\ Entries(ws, i).net \in Content
  <2> SUFFICES ASSUME NEW i \in 1..Len(ws)
               PROVE  /\ OwnOf(ws, i) \subseteq D
                      /\ Odd(Entries(ws, i).net) = D \ OwnOf(ws, i)
                      /\ Entries(ws, i).net \in Content
    BY Zenon
  <2>1. Scanned(ws[i], Entries(ws, i)) /\ Entries(ws, i).net \in Content
    BY EntriesOf, Zenon
  <2>2. Odd(ws[i]) = D
    OBVIOUS
  <2> QED
    BY <2>1, <2>2 DEF Scanned, OwnOf
<1>4. now \subseteq D
  BY <1>2, <1>3 DEF RemovedBy
<1>5. ASSUME NEW i \in 1..Len(ws)
      PROVE  Odd(PeelOnce(ws).left[i]) = D \ now
  <2>1. PICK f, own : f = Entries(ws, i).net /\ own = OwnOf(ws, i)
    OBVIOUS
  <2>2. f \in Content /\ Odd(f) = D \ own /\ own \subseteq D
    BY <1>3, <2>1
  <2>3. own \subseteq now
    BY <1>2, <2>1 DEF RemovedBy
  <2>4. PeelOnce(ws).left[i] = Minus(f, Indicator(now \ own))
    <3>1. PeelOnce(ws).left = [j \in 1..Len(ws) |-> Rests(ws, j)]
      BY PassFields
    <3>2. PeelOnce(ws).left[i] = Rests(ws, i)
      BY <3>1
    <3> QED
      BY <1>2, <2>1, <3>2 DEF Rests, Erased
  <2>5. \A e \in Elem : Minus(f, Indicator(now \ own))[e]
                          = IF e \in now \ own THEN f[e] - 1 ELSE f[e]
    BY <2>2 DEF Minus, Indicator, Content
  <2>6. \A e \in now \ own : e \in Elem => f[e] % 2 = 1
    BY <1>4, <2>2 DEF Odd
  <2>7. \A e \in Elem : f[e] \in Int
    BY <2>2 DEF Content
  <2>8. \A e \in Elem : e \in now \ own => (f[e] - 1) % 2 # 1
    BY <2>6, <2>7
  <2>9. Odd(Minus(f, Indicator(now \ own))) = Odd(f) \ (now \ own)
    BY <2>5, <2>8 DEF Odd
  <2> QED
    BY <2>2, <2>3, <2>4, <2>9
<1> QED
  BY <1>1, <1>4, <1>5

\* When all the tables are of one sign, they are after a pass, which lists on one side.
LEMMA PassSides ==
    ASSUME NEW ws \in Seq(Content), Len(ws) <= MaxTables, NEW D,
           \A i \in 1..Len(ws) : Odd(ws[i]) = D
    PROVE  /\ (\A i \in 1..Len(ws) : NonNegative(ws[i]))
                => PeelOnce(ws).neg = {} /\ \A i \in 1..Len(ws) : NonNegative(PeelOnce(ws).left[i])
           /\ (\A i \in 1..Len(ws) : NonPositive(ws[i]))
                => PeelOnce(ws).pos = {} /\ \A i \in 1..Len(ws) : NonPositive(PeelOnce(ws).left[i])
<1>1. \A i \in 1..Len(ws) :
         /\ PeelOnce(ws).left[i]
              = Minus(Entries(ws, i).net, Indicator(RemovedBy(ws) \ OwnOf(ws, i)))
         /\ Entries(ws, i).net \in Content
         /\ OwnOf(ws, i) \subseteq D
         /\ Odd(Entries(ws, i).net) = D \ OwnOf(ws, i)
         /\ NonNegative(ws[i]) => NonNegative(Entries(ws, i).net) /\ Entries(ws, i).neg = {}
         /\ NonPositive(ws[i]) => NonPositive(Entries(ws, i).net) /\ Entries(ws, i).pos = {}
  <2> SUFFICES ASSUME NEW i \in 1..Len(ws)
               PROVE  /\ PeelOnce(ws).left[i]
                           = Minus(Entries(ws, i).net, Indicator(RemovedBy(ws) \ OwnOf(ws, i)))
                      /\ Entries(ws, i).net \in Content
                      /\ OwnOf(ws, i) \subseteq D
                      /\ Odd(Entries(ws, i).net) = D \ OwnOf(ws, i)
                      /\ NonNegative(ws[i]) => NonNegative(Entries(ws, i).net)
                                               /\ Entries(ws, i).neg = {}
                      /\ NonPositive(ws[i]) => NonPositive(Entries(ws, i).net)
                                               /\ Entries(ws, i).pos = {}
    BY Zenon
  <2>1. PeelOnce(ws).left = [j \in 1..Len(ws) |-> Rests(ws, j)]
    BY PassFields
  <2>2. PeelOnce(ws).left[i] = Rests(ws, i)
    BY <2>1
  <2>3. Scanned(ws[i], Entries(ws, i)) /\ Entries(ws, i).net \in Content
    BY EntriesOf
  <2> QED
    BY <2>2, <2>3 DEF Rests, Erased, Scanned, OwnOf
<1>2. ASSUME \A i \in 1..Len(ws) : NonNegative(ws[i])
      PROVE  PeelOnce(ws).neg = {}
  <2>1. \A i \in 1..Len(ws) : Entries(ws, i).neg = {}
    BY <1>1, <1>2
  <2> QED
    BY <2>1, PassFields
<1>3. ASSUME \A i \in 1..Len(ws) : NonPositive(ws[i])
      PROVE  PeelOnce(ws).pos = {}
  <2>1. \A i \in 1..Len(ws) : Entries(ws, i).pos = {}
    BY <1>1, <1>3
  <2> QED
    BY <2>1, PassFields
<1>4. RemovedBy(ws) \subseteq D
  BY <1>1 DEF RemovedBy
<1>5. ASSUME NEW i \in 1..Len(ws), NonNegative(ws[i])
      PROVE  NonNegative(PeelOnce(ws).left[i])
  <2>1. PICK f, T : f = Entries(ws, i).net /\ T = RemovedBy(ws) \ OwnOf(ws, i)
    OBVIOUS
  <2>2. /\ f \in Content /\ NonNegative(f) /\ T \subseteq Odd(f)
        /\ PeelOnce(ws).left[i] = Minus(f, Indicator(T))
    BY <1>1, <1>4, <1>5, <2>1
  <2> SUFFICES ASSUME NEW e \in Elem PROVE Minus(f, Indicator(T))[e] >= 0
    BY <2>2 DEF NonNegative
  <2>3. f[e] \in Int /\ f[e] >= 0 /\ (e \in T => f[e] % 2 = 1)
    BY <2>2 DEF NonNegative, Odd, Content
  <2>4. Minus(f, Indicator(T))[e] = IF e \in T THEN f[e] - 1 ELSE f[e]
    BY <2>3 DEF Minus, Indicator
  <2> QED
    BY <2>3, <2>4
<1>6. ASSUME NEW i \in 1..Len(ws), NonPositive(ws[i])
      PROVE  NonPositive(PeelOnce(ws).left[i])
  <2>1. PICK f, T : f = Entries(ws, i).net /\ T = RemovedBy(ws) \ OwnOf(ws, i)
    OBVIOUS
  <2>2. /\ f \in Content /\ NonPositive(f)
        /\ PeelOnce(ws).left[i] = Minus(f, Indicator(T))
    BY <1>1, <1>6, <2>1
  <2> SUFFICES ASSUME NEW e \in Elem PROVE Minus(f, Indicator(T))[e] <= 0
    BY <2>2 DEF NonPositive
  <2>3. f[e] \in Int /\ f[e] <= 0
    BY <2>2 DEF NonPositive, Content
  <2>4. Minus(f, Indicator(T))[e] = IF e \in T THEN f[e] - 1 ELSE f[e]
    BY <2>3 DEF Minus, Indicator
  <2> QED
    BY <2>3, <2>4
<1> QED
  BY <1>2, <1>3, <1>5, <1>6

\* When a pass lists nothing and one of the tables is empty, all of them show nothing.
LEMMA LastPass ==
    ASSUME place \in Places, NEW ws \in Seq(Content), Len(ws) <= MaxTables, NEW D,
           \A i \in 1..Len(ws) : Odd(ws[i]) = D,
           PeelOnce(ws).pos \cup PeelOnce(ws).neg = {}, PeelOnce(ws).success
    PROVE  D = {}
<1>1. PICK i \in 1..Len(ws) : EmptyTable(i, Entries(ws, i).net)
  BY PassFields
<1>2. /\ i \in 1..MaxTables /\ Scanned(ws[i], Entries(ws, i))
  BY EntriesOf
<1>3. OwnOf(ws, i) = {}
  <2>1. OwnOf(ws, i) \subseteq PeelOnce(ws).pos \cup PeelOnce(ws).neg
    BY PassFields DEF OwnOf
  <2> QED
    BY <2>1
<1>4. Odd(Entries(ws, i).net) = D
  BY <1>2, <1>3 DEF Scanned, OwnOf
<1>5. \A e \in Elem : Entries(ws, i).net[e] % 2 # 1
  <2> SUFFICES ASSUME NEW e \in Elem, Entries(ws, i).net[e] % 2 = 1 PROVE FALSE
    OBVIOUS
  <2>1. PICK c \in Cells : c \in place[i][e]
    BY <1>2, PeelConstants
  <2>2. KeysAt(i, Entries(ws, i).net, c) = {}
    BY <1>1 DEF EmptyTable, EmptyAt
  <2> QED
    BY <2>1, <2>2 DEF KeysAt
<1> QED
  BY <1>4, <1>5 DEF Odd

(***************************************************************************)
(* What every step needs.                                                  *)
(***************************************************************************)
Labels == Waits \cup Ended \cup {"begin", "peeling", "post", "bound"}
Copied == [Elem -> 0..MaxCopies]

\* The types, one host at a time.
LEMMA HostTypes ==
    ASSUME PeelTypes, NEW h \in Hosts
    PROVE  /\ copies[h] \in Copied /\ oms[h] \in Copied
           /\ tables[h] \in Seq(Content) /\ pc[h] \in Labels
           /\ mIndex[h] \in 1..MaxTables /\ session[h] \in 1..Sessions + 1
           /\ mIndex[h] <= Len(tables[h])
           /\ pc[h] \notin Dead \cup {"returned"} => session[h] <= Sessions
           /\ listed["pos"] \in Copied /\ listed["neg"] \in Copied
           /\ diffMET \in Seq(Content) /\ work \in Seq(Content)
<1>1. /\ copies \in [Hosts -> Copied] /\ oms \in [Hosts -> Copied]
      /\ tables \in [Hosts -> Seq(Content)] /\ pc \in [Hosts -> Labels]
      /\ mIndex \in [Hosts -> 1..MaxTables] /\ session \in [Hosts -> 1..Sessions + 1]
      /\ listed \in [Sides -> Copied]
      /\ diffMET \in Seq(Content) /\ work \in Seq(Content)
  BY DEF PeelTypes, PeelTypeOK, Copied, Labels
<1>2. "pos" \in Sides /\ "neg" \in Sides
  BY DEF Sides
<1>3. /\ mIndex[h] <= Len(tables[h])
      /\ pc[h] \notin Dead \cup {"returned"} => session[h] <= Sessions
  BY Zenon DEF PeelTypes
<1> QED
  BY <1>1, <1>2, <1>3, Zenon

\* Contents of tables, and sums and differences of them.
LEMMA Contents ==
    /\ \A f \in Copied : f \in Content
    /\ Nothing \in Copied
    /\ \A f, g \in Content : Plus(f, g) \in Content /\ Minus(f, g) \in Content
    /\ \A f \in Content : Plus(Nothing, f) = f
    /\ \A S : Indicator(S) \in Copied
    /\ \A f, g \in Copied : Within(Plus(f, g)) => Plus(f, g) \in Copied
<1>0. MaxCopies \in Nat /\ MaxCopies >= 1
  BY PeelConstants
<1>1. \A f \in Copied : f \in Content
  BY <1>0 DEF Copied, Content
<1>2. Nothing \in Copied
  BY <1>0 DEF Copied, Nothing
<1>3. \A f, g \in Content : Plus(f, g) \in Content /\ Minus(f, g) \in Content
  BY DEF Content, Plus, Minus
<1>4. \A f \in Content : Plus(Nothing, f) = f
  BY DEF Content, Plus, Nothing
<1>5. \A S : Indicator(S) \in Copied
  BY <1>0 DEF Indicator, Copied
<1>6. \A f, g \in Copied : Within(Plus(f, g)) => Plus(f, g) \in Copied
  BY <1>0 DEF Within, Plus, Copied
<1> QED
  BY <1>1, <1>2, <1>3, <1>4, <1>5, <1>6

\* Regular is only ever lost: when the copies do not become fewer, or an element that was
\* held once is deleted, and no session in which tables were appended is forgotten.
LEMMA RegularBack ==
    ASSUME PeelTypes, copies' \in [Hosts -> Copied], Regular',
           grew \subseteq grew', grew' \subseteq 1..Sessions,
           \A h \in Hosts, e \in Elem : copies[h][e] <= copies'[h][e] \/ copies[h][e] <= 1
    PROVE  Regular
<1>1. Cardinality(grew') <= 1 /\ \A h \in Hosts, e \in Elem : copies'[h][e] <= 1
  BY DEF Regular
<1>2. IsFiniteSet(grew')
  <2>1. Sessions \in Nat
    BY PeelConstants
  <2>2. IsFiniteSet(1..Sessions)
    BY <2>1, FS_Interval
  <2> QED
    BY <2>2, FS_Subset
<1>3. IsFiniteSet(grew) /\ Cardinality(grew) <= Cardinality(grew')
  BY <1>2, FS_Subset
<1>4. Cardinality(grew) \in Nat /\ Cardinality(grew') \in Nat
  BY <1>2, <1>3, FS_CardinalityType
<1>5. Cardinality(grew) <= 1
  BY <1>1, <1>3, <1>4
<1>6. ASSUME NEW h \in Hosts, NEW e \in Elem PROVE copies[h][e] <= 1
  <2>1. copies[h][e] \in 0..MaxCopies
    BY HostTypes DEF Copied
  <2>2. copies'[h][e] <= 1
    BY <1>1
  <2>3. CASE copies[h][e] <= 1
    BY <2>3
  <2>4. CASE copies[h][e] <= copies'[h][e]
    <3>1. copies'[h] \in [Elem -> 0..MaxCopies]
      BY DEF Copied
    <3> QED
      BY <2>1, <2>2, <2>4, <3>1, PeelConstants
  <2> QED
    BY <2>3, <2>4
<1> QED
  BY <1>5, <1>6 DEF Regular

\* While the copies and the sessions of the tables stay, so does what is said about them.
LEMMA CopiesStay ==
    ASSUME copies' = copies, grew' = grew
    PROVE  /\ Regular' <=> Regular
           /\ Surplus' = Surplus /\ Differ' = Differ
           /\ \A h \in Hosts : Lacks(h)' = Lacks(h)
           /\ \A f, g : Exactly(f, g)' <=> Exactly(f, g)
<1>1. Regular' <=> Regular
  BY DEF Regular
<1>2. Surplus' = Surplus
  BY DEF Surplus, Minus
<1>3. \A h \in Hosts : Lacks(h)' = Lacks(h)
  BY DEF Lacks, Support, Other
<1>4. Lacks("client")' = Lacks("client") /\ Lacks("server")' = Lacks("server")
  BY <1>3 DEF Hosts
<1>5. Differ' = Differ
  BY <1>4 DEF Differ
<1>6. ASSUME NEW f, NEW g PROVE Exactly(f, g)' <=> Exactly(f, g)
  <2>1. PICK c, s : c = Lacks("client") /\ s = Lacks("server")
    OBVIOUS
  <2>2. Exactly(f, g) <=> /\ s = {} => f = Indicator(c) /\ g = Nothing
                          /\ c = {} => g = Indicator(s) /\ f = Nothing
    BY <2>1, Zenon DEF Exactly
  <2>3. Exactly(f, g)' <=> /\ s = {} => f = Indicator(c) /\ g = Nothing
                           /\ c = {} => g = Indicator(s) /\ f = Nothing
    <3>1. Indicator(Lacks("client"))' = Indicator(c)
      BY <1>4, <2>1, Zenon DEF Indicator
    <3>2. Indicator(Lacks("server"))' = Indicator(s)
      BY <1>4, <2>1, Zenon DEF Indicator
    <3>3. Nothing' = Nothing
      BY DEF Nothing
    <3>4. Lacks("client")' = c /\ Lacks("server")' = s
      BY <1>4, <2>1, Zenon
    <3> QED
      BY <3>1, <3>2, <3>3, <3>4, Zenon DEF Exactly
  <2> QED
    BY <2>2, <2>3, Zenon
<1> QED
  BY <1>1, <1>2, <1>3, <1>5, <1>6

\* Of hosts that hold no element twice, what the tables differ by shows what the hosts do.
LEMMA SurplusShows ==
    ASSUME PeelTypes, Regular
    PROVE  Surplus \in Content /\ Shows(Surplus, Differ)
<1>1. PICK c, s \in Copied : c = copies["client"] /\ s = copies["server"]
  <2>1. "client" \in Hosts /\ "server" \in Hosts
    BY DEF Hosts
  <2> QED
    BY <2>1, HostTypes
<1>2. \A e \in Elem : c[e] \in {0, 1} /\ s[e] \in {0, 1}
  <2> SUFFICES ASSUME NEW e \in Elem PROVE c[e] \in {0, 1} /\ s[e] \in {0, 1}
    OBVIOUS
  <2>1. c[e] <= 1 /\ s[e] <= 1
    BY <1>1 DEF Regular, Hosts
  <2>2. c[e] \in 0..MaxCopies /\ s[e] \in 0..MaxCopies
    BY DEF Copied
  <2> QED
    BY <2>1, <2>2, PeelConstants
<1>3. /\ Lacks("client") = {e \in Elem : s[e] # 0 /\ c[e] = 0}
      /\ Lacks("server") = {e \in Elem : c[e] # 0 /\ s[e] = 0}
  BY <1>1 DEF Lacks, Support, Other
<1>4. Surplus = [e \in Elem |-> s[e] - c[e]]
  BY <1>1 DEF Surplus, Minus
<1>5. Surplus \in Content
  BY <1>2, <1>4 DEF Content
<1>6. \A e \in Elem : Surplus[e] % 2 = 1 <=> s[e] # c[e]
  BY <1>2, <1>4
<1>7. Odd(Surplus) = Differ
  BY <1>2, <1>3, <1>6 DEF Odd, Differ
<1>8. Lacks("server") = {} => NonNegative(Surplus)
  <2> SUFFICES ASSUME Lacks("server") = {}, NEW e \in Elem PROVE Surplus[e] >= 0
    BY DEF NonNegative
  <2>1. ~(c[e] # 0 /\ s[e] = 0)
    BY <1>3
  <2> QED
    BY <1>2, <1>4, <2>1
<1>9. Lacks("client") = {} => NonPositive(Surplus)
  <2> SUFFICES ASSUME Lacks("client") = {}, NEW e \in Elem PROVE Surplus[e] <= 0
    BY DEF NonPositive
  <2>1. ~(s[e] # 0 /\ c[e] = 0)
    BY <1>3
  <2> QED
    BY <1>2, <1>4, <2>1
<1> QED
  BY <1>5, <1>7, <1>8, <1>9 DEF Shows

\* What is found of nothing listed.
LEMMA NothingFound ==
    ASSUME listed' = NothingListed
    PROVE  Found' = {} /\ ListedInv'
<1>1. listed'["pos"] = Nothing /\ listed'["neg"] = Nothing
  BY DEF NothingListed, Sides
<1>2. Found' = {}
  BY <1>1 DEF Found, Support, Nothing
<1>3. Indicator({}) = Nothing
  BY DEF Indicator, Nothing
<1> QED
  BY <1>1, <1>2, <1>3 DEF ListedInv

\* The next table of a host in a session.  It has the host's elements, as all the others
\* have, unless this is not the first session in which tables are appended.
LEMMA GrowsTables ==
    ASSUME PeelTypes, GrewInv, TablesInv, NEW h \in Hosts,
           pc[h] \in InSession, session[h] <= Sessions
    PROVE  /\ Grown(h) \in Seq(Content) /\ Len(Grown(h)) = Len(tables[h]) + 1
           /\ mIndex[h] + 1 \in 1..Len(Grown(h))
           /\ session[h] \in 1..Sessions
           /\ Cardinality(grew \cup {session[h]}) <= 1 /\ Regular
                => \A i \in 1..Len(Grown(h)) : Grown(h)[i] = copies[h]
<1>1. PICK t \in Seq(Content), n \in Nat \ {0}, c \in Content :
         t = tables[h] /\ n = mIndex[h] /\ c = copies[h]
  <2>1. mIndex[h] \in Nat \ {0}
    BY HostTypes, PeelConstants
  <2> QED
    BY <2>1, HostTypes, Contents
<1>2. n <= Len(t) /\ Len(t) \in Nat
  BY <1>1, HostTypes
<1>3. Nothing \in Content
  BY Contents
<1>4. PICK u \in Seq(Content) : /\ u = Append(t, Nothing)
                                /\ Len(u) = Len(t) + 1
                                /\ \A i \in 1..Len(t) : u[i] = t[i]
                                /\ u[Len(t) + 1] = Nothing
  BY <1>2, <1>3, AppendProperties
<1>5. n + 1 \in 1..Len(u)
  BY <1>2, <1>4
<1>6. Grown(h) = [u EXCEPT ![n + 1] = Plus(u[n + 1], c)]
  BY <1>1, <1>4 DEF Grown
<1>7. Plus(u[n + 1], c) \in Content
  <2>1. u[n + 1] \in Content
    BY <1>5
  <2> QED
    BY <2>1, Contents
<1>8. Grown(h) \in Seq(Content) /\ Len(Grown(h)) = Len(u)
  BY <1>5, <1>6, <1>7, ExceptSeq
<1>9. session[h] \in 1..Sessions
  <2>1. session[h] \in 1..Sessions + 1 /\ Sessions \in Nat
    BY HostTypes, PeelConstants
  <2> QED
    BY <2>1
<1>10. ASSUME Cardinality(grew \cup {session[h]}) <= 1, Regular
       PROVE  \A i \in 1..Len(Grown(h)) : Grown(h)[i] = copies[h]
  <2>1. \A k \in grew : k = session[h]
    <3> SUFFICES ASSUME NEW k \in grew, k # session[h] PROVE FALSE
      OBVIOUS
    <3>1. IsFiniteSet(grew \cup {session[h]})
      <4>1. grew \cup {session[h]} \subseteq 1..Sessions
        BY <1>9 DEF GrewInv
      <4>2. IsFiniteSet(1..Sessions)
        BY PeelConstants, FS_Interval
      <4> QED
        BY <4>1, <4>2, FS_Subset
    <3>2. {k, session[h]} \subseteq grew \cup {session[h]}
      OBVIOUS
    <3>3. Cardinality({k, session[h]}) = 2
      <4>1. IsFiniteSet({k}) /\ Cardinality({k}) = 1
        BY FS_Singleton
      <4>4. session[h] \notin {k}
        OBVIOUS
      <4>2. Cardinality({k} \cup {session[h]}) = 2
        <5>1. PICK K, s : K = {k} /\ s = session[h]
          OBVIOUS
        <5>2. Cardinality(K \cup {s}) = Cardinality(K) + 1
          BY <4>1, <4>4, <5>1, FS_AddElement
        <5>3. Cardinality(K) = 1
          BY <4>1, <5>1, Zenon
        <5>4. Cardinality(K \cup {s}) = 2
          BY <5>2, <5>3
        <5> QED
          BY <5>1, <5>4, Zenon
      <4>3. {k} \cup {session[h]} = {k, session[h]}
        OBVIOUS
      <4> QED
        BY <4>2, <4>3
    <3>4. Cardinality({k, session[h]}) <= Cardinality(grew \cup {session[h]})
      BY <3>1, <3>2, FS_Subset
    <3>5. Cardinality(grew \cup {session[h]}) \in Nat
      BY <3>1, FS_CardinalityType
    <3> QED
      BY <1>10, <3>3, <3>4, <3>5
  <2>2. ~(Len(t) > n)
    <3>1. Len(t) > n => \E k \in grew : k < session[h]
      BY <1>1 DEF GrewInv
    <3> QED
      BY <1>9, <2>1, <3>1
  <2>3. n = Len(t)
    BY <1>2, <2>2
  <2>4. \A i \in 1..Len(t) : t[i] = c
    BY <1>1, <1>10 DEF TablesInv
  <2>5. Plus(u[n + 1], c) = c
    BY <1>4, <2>3, Contents
  <2>6. \A i \in 1..Len(u) : Grown(h)[i] = IF i = n + 1 THEN c ELSE u[i]
    BY <1>6, <2>5
  <2>7. \A i \in 1..Len(u) : i # n + 1 => u[i] = c
    BY <1>2, <1>4, <2>3, <2>4
  <2> QED
    BY <1>1, <1>8, <2>6, <2>7
<1>11. Len(Grown(h)) = Len(tables[h]) + 1 /\ mIndex[h] + 1 \in 1..Len(Grown(h))
  BY <1>1, <1>4, <1>5, <1>8
<1> QED
  BY <1>8, <1>9, <1>10, <1>11

(***************************************************************************)
(* The invariant, at the start and when a host stops.                      *)
(***************************************************************************)
LEMMA PeelStarts == PeelInit => PeelInv
<1> SUFFICES ASSUME PeelInit PROVE PeelInv
  OBVIOUS
<1>0. /\ {Sessions, MaxTables, MaxCopies} \subseteq Nat \ {0}
      /\ "client" \in Hosts /\ "server" \in Hosts
  BY PeelConstants DEF Hosts
<1>1. /\ copies \in [Hosts -> Copied] /\ oms \in [Hosts -> Copied]
      /\ listed \in [Sides -> Copied]
  <2>1. \A S \in SUBSET Elem : Indicator(S) \in Copied
    BY Contents
  <2>2. {Indicator(S) : S \in SUBSET Elem} \subseteq Copied
    BY <2>1
  <2>3. copies \in [Hosts -> {Indicator(S) : S \in SUBSET Elem}]
    BY DEF PeelInit
  <2>4. copies \in [Hosts -> Copied]
    BY <2>2, <2>3
  <2>5. Nothing \in Copied
    BY Contents
  <2> QED
    BY <2>4, <2>5 DEF PeelInit, NothingListed
<1>2. tables \in [Hosts -> Seq(Content)] /\ \A h \in Hosts : /\ Len(tables[h]) = 1
                                                            /\ tables[h][1] = copies[h]
  <2>1. tables = [h \in Hosts |-> <<copies[h]>>]
    BY DEF PeelInit
  <2>2. \A h \in Hosts : copies[h] \in Content
    BY <1>1, Contents
  <2>3. \A h \in Hosts : <<copies[h]>> \in Seq(Content)
    BY <2>2
  <2>4. \A h \in Hosts : tables[h] = <<copies[h]>>
    BY <2>1
  <2>5. \A h \in Hosts : Len(tables[h]) = 1 /\ tables[h][1] = copies[h]
    BY <2>4
  <2> QED
    BY <2>1, <2>3, <2>5
<1>3. /\ place \in Places
      /\ mIndex = [h \in Hosts |-> 1] /\ session = [h \in Hosts |-> 1]
      /\ pc = [h \in Hosts |-> "begin"] /\ chan = [h \in Hosts |-> <<>>]
      /\ diffMET = <<>> /\ work = <<>> /\ grew = {}
  BY DEF PeelInit
<1>4. PeelTypeOK
  <2>1. mIndex \in [Hosts -> 1..MaxTables] /\ session \in [Hosts -> 1..Sessions + 1]
    BY <1>0, <1>3
  <2>2. diffMET \in Seq(Content) /\ work \in Seq(Content)
    BY <1>3
  <2>3. pc \in [Hosts -> Labels]
    BY <1>3 DEF Labels
  <2> QED
    BY <1>1, <1>2, <2>1, <2>2, <2>3 DEF PeelTypeOK, Copied, Labels
<1>5. PeelTypes
  <2>1. \A h \in Hosts : mIndex[h] = 1 /\ session[h] = 1 /\ pc[h] = "begin"
    BY <1>3
  <2>2. \A h \in Hosts : mIndex[h] <= Len(tables[h]) /\ session[h] <= Sessions
    BY <1>0, <1>2, <2>1
  <2>3. pc["server"] # "peeling"
    BY <1>0, <2>1
  <2> QED
    BY <1>3, <1>4, <2>2, <2>3 DEF PeelTypes
<1>6. \A h \in Hosts : pc[h] = "begin" /\ chan[h] = <<>>
  BY <1>3
<1>7. Between
  BY <1>0, <1>6 DEF Between, Parted, Sits, Holding, Aside
<1>8. GrewInv
  <2>1. \A h \in Hosts : ~(Len(tables[h]) > 1) /\ pc[h] \notin InSession
    <3> SUFFICES ASSUME NEW h \in Hosts
                 PROVE  ~(Len(tables[h]) > 1) /\ pc[h] \notin InSession
      OBVIOUS
    <3>1. Len(tables[h]) = 1
      BY <1>2
    <3>2. pc[h] = "begin"
      BY <1>6
    <3> QED
      BY <3>1, <3>2 DEF InSession
  <2>2. \A n \in grew : FALSE
    BY <1>3
  <2>3. grew \subseteq 1..Sessions
    BY <1>3
  <2> QED
    BY <2>1, <2>2, <2>3, Zenon DEF GrewInv
<1>9. TablesInv
  <2> SUFFICES ASSUME NEW h \in Hosts, NEW i \in 1..Len(tables[h])
               PROVE  tables[h][i] = copies[h]
    BY DEF TablesInv
  <2>1. Len(tables[h]) = 1
    BY <1>2
  <2>2. i \in 1..1
    BY <2>1
  <2>3. i = 1
    BY <2>2
  <2> QED
    BY <1>2, <2>3
<1>10. PeelingInv
  BY <1>0, <1>6 DEF PeelingInv
<1> QED
  BY <1>5, <1>7, <1>8, <1>9, <1>10 DEF PeelInv, Phase

\* A host that stays where it is, or stops, leaves the session where it is.
LEMMA PhaseStays ==
    ASSUME Phase,
           UNCHANGED <<copies, tables, mIndex, chan, session, diffMET, oms, grew>>,
           \A h \in Hosts : pc'[h] \in {pc[h]} \cup Dead
    PROVE  Phase'
<1>0. /\ copies' = copies /\ grew' = grew /\ tables' = tables /\ mIndex' = mIndex
      /\ chan' = chan /\ session' = session /\ diffMET' = diffMET /\ oms' = oms
  OBVIOUS
<1>1. \A c, s : Sits(c, s) => Sits(c, s)'
  BY DEF Sits, Hosts
<1>2. \A h \in Hosts : pc'[h] = "post" => pc[h] = "post"
  BY DEF Dead
<1>3. /\ Regular' <=> Regular
      /\ Surplus' = Surplus
      /\ \A f, g : Exactly(f, g)' <=> Exactly(f, g)
  BY <1>0, CopiesStay
<1>4. \A f, g : Holding(f, g)' <=> Holding(f, g)
  BY <1>0 DEF Holding
<1>5. CASE Between
  <2>1. Parted'
    BY <1>1, <1>4, <1>5 DEF Between, Parted
  <2>2. (Regular /\ \A h \in Hosts : pc[h] = "post")' => Exactly(oms["client"], oms["server"])'
    BY <1>0, <1>2, <1>3, <1>5, Zenon DEF Between
  <2> QED
    BY <2>1, <2>2 DEF Phase, Between
<1>6. CASE Answered
  <2>1. PICK f, g \in [Elem -> 0..MaxCopies] :
          /\ \/ Sits({"awaitFlag"}, Aside) /\ Holding(<<Flag(TRUE), List(f), List(g)>>, <<>>)
             \/ Sits({"awaitLists"}, Aside) /\ Holding(<<List(f), List(g)>>, <<>>)
          /\ pc["server"] = "post" /\ Regular => Exactly(f, oms["server"])
    BY <1>6 DEF Answered
  <2>2. \/ /\ Sits({"awaitFlag"}, Aside)'
           /\ Holding(<<Flag(TRUE), List(f), List(g)>>, <<>>)'
        \/ Sits({"awaitLists"}, Aside)' /\ Holding(<<List(f), List(g)>>, <<>>)'
    BY <1>1, <1>4, <2>1
  <2>3. pc'["server"] = "post" /\ Regular' => Exactly(f, oms["server"])'
    <3>1. "server" \in Hosts
      BY DEF Hosts
    <3> QED
      BY <1>0, <1>2, <1>3, <2>1, <3>1, Zenon
  <2> QED
    BY <2>2, <2>3 DEF Phase, Answered
<1>7. CASE (TableSent \/ Peels \/ Refused) /\ Differences
  <2>1. SameSession' <=> SameSession
    BY <1>0 DEF SameSession
  <2>2. Differences'
    BY <1>0, <1>3, <1>7 DEF Differences
  <2>3. Table("client", mIndex["client"])' = Table("client", mIndex["client"])
    BY <1>0 DEF Table
  <2>4. Len(diffMET)' = Len(diffMET)
    BY <1>0
  <2>5. TableSent => TableSent'
    BY <1>0, <1>1, <1>4, <2>1, <2>3, <2>4 DEF TableSent
  <2>6. Peels => Peels'
    BY <1>0, <1>1, <1>4, <2>1, <2>4 DEF Peels
  <2>7. Refused => Refused'
    BY <1>0, <1>1, <1>4, <2>1, <2>4 DEF Refused
  <2> QED
    BY <1>7, <2>2, <2>5, <2>6, <2>7 DEF Phase
<1> QED
  BY <1>5, <1>6, <1>7 DEF Phase

\* A host that stops.
LEMMA StopKeeps ==
    ASSUME PeelInv, NEW h \in Hosts, NEW d \in Dead, Goto(h, d),
           UNCHANGED <<place, copies, tables, mIndex, chan, session, peeling, oms, grew>>
    PROVE  PeelInv'
<1>0. /\ place' = place /\ copies' = copies /\ grew' = grew /\ tables' = tables
      /\ mIndex' = mIndex /\ chan' = chan /\ session' = session
      /\ diffMET' = diffMET /\ work' = work /\ listed' = listed /\ oms' = oms
  BY DEF peeling
<1>1. pc \in [Hosts -> Labels] /\ d \in Labels /\ pc' = [pc EXCEPT ![h] = d]
  BY DEF PeelInv, PeelTypes, PeelTypeOK, Labels, Dead, Goto, Ended
<1>2. /\ pc' \in [Hosts -> Labels]
      /\ \A g \in Hosts : pc'[g] \in {pc[g]} \cup Dead
  BY <1>1
<1>3. /\ "server" \in Hosts
      /\ \A g \in Hosts : /\ pc'[g] \notin Dead \cup {"returned"} => pc'[g] = pc[g]
                          /\ pc'[g] \in InSession \cup {"begin"} => pc'[g] = pc[g]
  BY <1>2 DEF Dead, InSession, Hosts
<1>4. PeelTypes'
  <2>1. PeelTypeOK'
    BY <1>0, <1>2 DEF PeelInv, PeelTypes, PeelTypeOK, Labels
  <2>2. \A g \in Hosts : /\ mIndex[g] <= Len(tables[g])
                         /\ pc'[g] \notin Dead \cup {"returned"} => session[g] <= Sessions
    BY <1>3 DEF PeelInv, PeelTypes
  <2>3. pc'["server"] = "peeling" => Len(work) = Len(diffMET) /\ Len(work) > 0
    BY <1>3 DEF PeelInv, PeelTypes, InSession
  <2>4. place \in Places /\ DOMAIN chan = Hosts
    BY DEF PeelInv, PeelTypes
  <2> QED
    BY <1>0, <2>1, <2>2, <2>3, <2>4 DEF PeelTypes
<1>5. Phase'
  <2>1. Phase
    BY DEF PeelInv
  <2> QED
    BY <1>0, <1>2, <2>1, PhaseStays
<1>6. GrewInv'
  <2>1. GrewInv
    BY DEF PeelInv
  <2>2. \A g \in Hosts : /\ pc'[g] = "begin" => pc[g] = "begin"
                         /\ pc'[g] \in InSession => pc[g] \in InSession
    BY <1>3
  <2> QED
    BY <1>0, <2>1, <2>2 DEF GrewInv
<1>7. /\ Regular' <=> Regular
      /\ Differ' = Differ
      /\ \A g \in Hosts : Lacks(g)' = Lacks(g)
  BY <1>0, CopiesStay
<1>8. TablesInv'
  BY <1>0, <1>7 DEF PeelInv, TablesInv
<1>9. PeelingInv'
  <2>1. pc'["server"] = "peeling" => pc["server"] = "peeling"
    BY <1>3 DEF InSession
  <2>2. /\ Lacks("server")' = Lacks("server") /\ Lacks("client")' = Lacks("client")
        /\ Found' = Found
    BY <1>0, <1>7 DEF Hosts, Found
  <2>3. \A f, S : Shows(f, S)' <=> Shows(f, S)
    BY <2>2, Zenon DEF Shows
  <2>4. ListedInv' <=> ListedInv
    BY <1>0, <1>7, <2>2 DEF ListedInv
  <2>5. PeelingInv
    BY DEF PeelInv
  <2> QED
    BY <1>0, <1>7, <2>1, <2>2, <2>3, <2>4, <2>5 DEF PeelingInv
<1> QED
  BY <1>4, <1>5, <1>6, <1>8, <1>9 DEF PeelInv

(***************************************************************************)
(* The client's steps.                                                     *)
(***************************************************************************)
\* Where the hosts are in each phase of a session.
LEMMA Whereabouts ==
    /\ Between => /\ pc["client"] \in Aside \cup Dead /\ pc["server"] \in Aside \cup Dead
                  /\ chan["client"] = <<>> /\ chan["server"] = <<>>
    /\ Answered => /\ pc["client"] \in {"awaitFlag", "awaitLists"} \cup Dead
                   /\ pc["server"] \in Aside \cup Dead /\ chan["server"] = <<>>
    /\ TableSent => /\ pc["client"] \in {"awaitFlag"} \cup Dead
                    /\ pc["server"] \in {"recvTable"} \cup Dead /\ chan["client"] = <<>>
    /\ Peels => /\ pc["client"] \in {"awaitFlag"} \cup Dead
                /\ pc["server"] \in {"peeling"} \cup Dead
                /\ chan["client"] = <<>> /\ chan["server"] = <<>>
    /\ Refused => /\ pc["client"] \in {"awaitFlag"} \cup Dead
                  /\ pc["server"] \in {"recvTable"} \cup Dead
                  /\ chan["client"] = <<Flag(FALSE)>> /\ chan["server"] = <<>>
<1>1. Between => /\ pc["client"] \in Aside \cup Dead /\ pc["server"] \in Aside \cup Dead
                 /\ chan["client"] = <<>> /\ chan["server"] = <<>>
  BY DEF Between, Parted, Sits, Holding
<1>2. Answered => /\ pc["client"] \in {"awaitFlag", "awaitLists"} \cup Dead
                  /\ pc["server"] \in Aside \cup Dead /\ chan["server"] = <<>>
  BY DEF Answered, Sits, Holding
<1>3. TableSent => /\ pc["client"] \in {"awaitFlag"} \cup Dead
                   /\ pc["server"] \in {"recvTable"} \cup Dead /\ chan["client"] = <<>>
  BY DEF TableSent, Sits, Holding
<1>4. Peels => /\ pc["client"] \in {"awaitFlag"} \cup Dead
               /\ pc["server"] \in {"peeling"} \cup Dead
               /\ chan["client"] = <<>> /\ chan["server"] = <<>>
  BY DEF Peels, Sits, Holding
<1>5. Refused => /\ pc["client"] \in {"awaitFlag"} \cup Dead
                 /\ pc["server"] \in {"recvTable"} \cup Dead
                 /\ chan["client"] = <<Flag(FALSE)>> /\ chan["server"] = <<>>
  BY DEF Refused, Sits, Holding
<1> QED
  BY <1>1, <1>2, <1>3, <1>4, <1>5

\* TablesInv, while neither the tables nor the copies change.
LEMMA TablesStay ==
    ASSUME TablesInv, copies' = copies, tables' = tables, Regular' => Regular
    PROVE  TablesInv'
BY DEF TablesInv

LEMMA ConnectKeeps ==
    ASSUME PeelInv, Connect
    PROVE  PeelInv'
<1>0. /\ place' = place /\ copies' = copies /\ tables' = tables /\ session' = session
      /\ work' = work /\ listed' = listed /\ grew' = grew
      /\ diffMET' = <<>> /\ mIndex' = [h \in Hosts |-> 1]
      /\ oms' = [h \in Hosts |-> Nothing]
      /\ pc' = [h \in Hosts |-> IF h = "client" THEN "awaitFlag" ELSE "recvTable"]
      /\ \A h \in Hosts : pc[h] = "begin" /\ session[h] = session[Other(h)]
  BY DEF Connect
<1>1. /\ "client" \in Hosts /\ "server" \in Hosts /\ Other("client") = "server"
      /\ \A h \in Hosts : h = "client" \/ h = "server"
  BY DEF Hosts, Other
<1>2. /\ pc'["client"] = "awaitFlag" /\ pc'["server"] = "recvTable"
      /\ mIndex'["client"] = 1 /\ mIndex'["server"] = 1
      /\ pc["client"] = "begin" /\ session["client"] = session["server"]
  BY <1>0, <1>1
<1>3. chan["client"] = <<>> /\ chan["server"] = <<>>
  BY <1>2, Whereabouts DEF PeelInv, Phase, Dead
<1>4. /\ DOMAIN chan = Hosts /\ DOMAIN chan' = Hosts
      /\ chan'["client"] = <<>> /\ chan'["server"] = <<Table("client", 1)>>
  <2>1. DOMAIN chan = Hosts
    BY DEF PeelInv, PeelTypes
  <2>2. chan' = [chan EXCEPT !["server"] = Append(chan["server"], Table("client", 1))]
    BY DEF Connect
  <2>3. DOMAIN chan' = Hosts /\ chan'["client"] = chan["client"]
        /\ chan'["server"] = Append(chan["server"], Table("client", 1))
    BY <1>1, <2>1, <2>2
  <2>4. Append(<<>>, Table("client", 1)) = <<Table("client", 1)>>
    OBVIOUS
  <2> QED
    BY <1>3, <2>1, <2>3, <2>4
<1>5. PeelTypes'
  <2>1. /\ 1 \in 1..MaxTables
        /\ \A h \in Hosts : Len(tables[h]) >= 1 /\ session[h] <= Sessions
    <3> SUFFICES ASSUME NEW h \in Hosts
                 PROVE  1 \in 1..MaxTables /\ Len(tables[h]) >= 1 /\ session[h] <= Sessions
      BY <1>1
    <3>1. pc[h] = "begin" /\ PeelTypes
      BY <1>0 DEF PeelInv
    <3>2. mIndex[h] \in 1..MaxTables /\ mIndex[h] <= Len(tables[h]) /\ Len(tables[h]) \in Nat
          /\ (pc[h] \notin Dead \cup {"returned"} => session[h] <= Sessions)
      BY <3>1, HostTypes
    <3>3. 1 \in 1..MaxTables
      BY PeelConstants
    <3> QED
      BY <3>1, <3>2, <3>3 DEF Dead
  <2>2. mIndex' \in [Hosts -> 1..MaxTables] /\ oms' \in [Hosts -> Copied]
        /\ pc' \in [Hosts -> Labels]
    BY <1>0, <2>1, Contents DEF Labels, Waits
  <2>3. diffMET' \in Seq(Content)
    BY <1>0
  <2>4. PeelTypeOK'
    BY <1>0, <2>2, <2>3 DEF PeelInv, PeelTypes, PeelTypeOK, Labels, Copied
  <2>5. \A h \in Hosts : mIndex'[h] <= Len(tables[h]) /\ session[h] <= Sessions
    BY <1>0, <2>1
  <2>6. pc'["server"] # "peeling"
    BY <1>2
  <2>7. place \in Places
    BY DEF PeelInv, PeelTypes
  <2> QED
    BY <1>0, <1>4, <2>4, <2>5, <2>6, <2>7, Zenon DEF PeelTypes
<1>6. Phase'
  <2>1. Sits({"awaitFlag"}, {"recvTable"})'
    BY <1>2 DEF Sits
  <2>2. SameSession'
    BY <1>0, <1>2 DEF SameSession
  <2>3. Table("client", mIndex["client"])' = Table("client", 1)
    BY <1>0, <1>2 DEF Table
  <2>4. Holding(<<>>, <<Table("client", mIndex["client"])>>)'
    BY <1>4, <2>3 DEF Holding
  <2>5. Len(diffMET)' = 0
    BY <1>0
  <2>6. TableSent'
    BY <1>2, <2>1, <2>2, <2>4, <2>5 DEF TableSent
  <2>7. Differences'
    BY <2>5 DEF Differences
  <2> QED
    BY <2>6, <2>7 DEF Phase
<1>7. GrewInv'
  <2>1. GrewInv
    BY DEF PeelInv
  <2>2. ASSUME NEW h \in Hosts, Len(tables[h]) > 1
        PROVE  \E n \in grew : n < session[h]
    BY <1>0, <2>1, <2>2 DEF GrewInv
  <2>3. \A h \in Hosts : pc'[h] # "begin" /\ mIndex'[h] = 1
    BY <1>1, <1>2
  <2> QED
    BY <1>0, <2>1, <2>2, <2>3 DEF GrewInv
<1>8. TablesInv'
  <2>1. Regular' <=> Regular
    BY <1>0, CopiesStay
  <2> QED
    BY <1>0, <2>1, TablesStay DEF PeelInv
<1>9. PeelingInv'
  BY <1>2 DEF PeelingInv
<1> QED
  BY <1>5, <1>6, <1>7, <1>8, <1>9 DEF PeelInv

\* What is on its way after a host has taken n messages and sent some.
LEMMA Answering ==
    ASSUME DOMAIN chan = Hosts, NEW h \in Hosts, NEW n, NEW msgs, Answer(h, n, msgs)
    PROVE  /\ DOMAIN chan' = Hosts
           /\ chan'[h] = SubSeq(chan[h], n + 1, Len(chan[h]))
           /\ chan'[Other(h)] = chan[Other(h)] \o msgs
<1>1. Other(h) \in Hosts /\ Other(h) # h
  BY DEF Hosts, Other
<1>2. chan' = [chan EXCEPT ![h] = SubSeq(chan[h], n + 1, Len(chan[h])),
                           ![Other(h)] = chan[Other(h)] \o msgs]
  BY <1>1 DEF Answer
<1> QED
  BY <1>1, <1>2

LEMMA ClientAnswers ==
    ASSUME DOMAIN chan = Hosts, NEW n, NEW msgs, Answer("client", n, msgs)
    PROVE  /\ DOMAIN chan' = Hosts
           /\ chan'["client"] = SubSeq(chan["client"], n + 1, Len(chan["client"]))
           /\ chan'["server"] = chan["server"] \o msgs
<1>1. "client" \in Hosts /\ Other("client") = "server"
  BY DEF Hosts, Other
<1>2. /\ DOMAIN chan' = Hosts
      /\ chan'["client"] = SubSeq(chan["client"], n + 1, Len(chan["client"]))
      /\ chan'[Other("client")] = chan[Other("client")] \o msgs
  BY <1>1, Answering, Zenon
<1> QED
  BY <1>1, <1>2, Zenon

LEMMA ServerAnswers ==
    ASSUME DOMAIN chan = Hosts, NEW n, NEW msgs, Answer("server", n, msgs)
    PROVE  /\ DOMAIN chan' = Hosts
           /\ chan'["server"] = SubSeq(chan["server"], n + 1, Len(chan["server"]))
           /\ chan'["client"] = chan["client"] \o msgs
<1>1. "server" \in Hosts /\ Other("server") = "client"
  BY DEF Hosts, Other
<1>2. /\ DOMAIN chan' = Hosts
      /\ chan'["server"] = SubSeq(chan["server"], n + 1, Len(chan["server"]))
      /\ chan'[Other("server")] = chan[Other("server")] \o msgs
  BY <1>1, Answering, Zenon
<1> QED
  BY <1>1, <1>2, Zenon

\* The client is told that its tables were enough.
LEMMA AcceptKeeps ==
    ASSUME PeelInv, ClientFlag, Head(chan["client"]).ok
    PROVE  PeelInv'
<1>0. /\ place' = place /\ copies' = copies /\ tables' = tables /\ mIndex' = mIndex
      /\ session' = session /\ diffMET' = diffMET /\ work' = work /\ listed' = listed
      /\ oms' = oms /\ grew' = grew
      /\ pc["client"] = "awaitFlag" /\ chan["client"] # <<>>
      /\ pc' = [pc EXCEPT !["client"] = "awaitLists"]
      /\ Answer("client", 1, <<>>)
  BY DEF ClientFlag, Receives, peeling, Goto
<1>1. /\ "client" \in Hosts /\ "server" \in Hosts /\ Other("client") = "server"
      /\ \A h \in Hosts : h = "client" \/ h = "server"
  BY DEF Hosts, Other
<1>2. PeelTypes /\ Phase /\ GrewInv /\ TablesInv /\ PeelingInv
  BY DEF PeelInv
<1>3. pc \in [Hosts -> Labels] /\ DOMAIN chan = Hosts
  BY <1>2 DEF PeelTypes, PeelTypeOK, Labels
<1>4. /\ pc' \in [Hosts -> Labels]
      /\ pc'["client"] = "awaitLists" /\ pc'["server"] = pc["server"]
  BY <1>0, <1>1, <1>3 DEF Labels, Waits
<1>5. /\ DOMAIN chan' = Hosts
      /\ chan'["client"] = SubSeq(chan["client"], 2, Len(chan["client"]))
      /\ chan'["server"] = chan["server"] \o <<>>
  <2>1. /\ DOMAIN chan' = Hosts
        /\ chan'["client"] = SubSeq(chan["client"], 1 + 1, Len(chan["client"]))
        /\ chan'["server"] = chan["server"] \o <<>>
    <3>1. Answer("client", 1, <<>>)
      BY <1>0
    <3> QED
      BY <1>3, <3>1, ClientAnswers, Zenon
  <2> QED
    BY <2>1
<1>6. Answered
  <2>1. ~Refused
    <3>1. Refused => chan["client"] = <<Flag(FALSE)>>
      BY Whereabouts
    <3>2. ~Head(<<Flag(FALSE)>>).ok
      BY DEF Flag
    <3> QED
      BY <3>1, <3>2
  <2>2. ~Between /\ ~TableSent /\ ~Peels
    BY <1>0, Whereabouts DEF Aside, Dead
  <2> QED
    BY <1>2, <2>1, <2>2 DEF Phase
<1>7. PICK f, g \in [Elem -> 0..MaxCopies] :
         /\ Sits({"awaitFlag"}, Aside) /\ Holding(<<Flag(TRUE), List(f), List(g)>>, <<>>)
         /\ pc["server"] = "post" /\ Regular => Exactly(f, oms["server"])
  BY <1>0, <1>6 DEF Answered, Sits, Dead
<1>8. chan'["client"] = <<List(f), List(g)>> /\ chan'["server"] = <<>>
  <2>1. chan["client"] = <<Flag(TRUE), List(f), List(g)>> /\ chan["server"] = <<>>
    BY <1>7 DEF Holding
  <2>2. ASSUME NEW a, NEW b, NEW c
        PROVE  SubSeq(<<a, b, c>>, 2, Len(<<a, b, c>>)) = <<b, c>>
    <3>1. PICK T : T = {a, b, c}
      OBVIOUS
    <3>2. PICK s : s = <<a, b, c>>
      OBVIOUS
    <3>3. s \in Seq(T) /\ Len(s) = 3 /\ s[2] = b /\ s[3] = c
      BY <3>1, <3>2
    <3>4. PICK u : u = SubSeq(s, 2, 3)
      OBVIOUS
    <3>5. u \in Seq(T) /\ Len(u) = 2 /\ u[1] = b /\ u[2] = c
      <4>1. \A i \in 2..3 : s[i] \in T
        BY <3>1, <3>3
      <4> QED
        BY <3>3, <3>4, <4>1, SubSeqProperties
    <3>6. PICK v : v = <<b, c>>
      OBVIOUS
    <3>7. v \in Seq(T) /\ Len(v) = 2 /\ v[1] = b /\ v[2] = c
      BY <3>1, <3>6
    <3>8. u = v
      <4>1. \A i \in 1..Len(u) : i = 1 \/ i = 2
        BY <3>5
      <4>2. \A i \in 1..Len(u) : u[i] = v[i]
        BY <3>5, <3>7, <4>1
      <4> QED
        BY <3>5, <3>7, <4>2, SeqEqual
    <3> QED
      BY <3>2, <3>3, <3>4, <3>6, <3>8
  <2>3. <<>> \o <<>> = <<>>
    OBVIOUS
  <2> QED
    BY <1>5, <2>1, <2>2, <2>3
<1>9. Phase'
  <2>1. Sits({"awaitLists"}, Aside)'
    BY <1>4, <1>7 DEF Sits
  <2>2. Holding(<<List(f), List(g)>>, <<>>)'
    BY <1>8 DEF Holding
  <2>3. pc'["server"] = "post" /\ Regular' => Exactly(f, oms["server"])'
    <3>1. (Regular' <=> Regular) /\ \A u, v : Exactly(u, v)' <=> Exactly(u, v)
      BY <1>0, CopiesStay
    <3> QED
      BY <1>0, <1>4, <1>7, <3>1
  <2> QED
    BY <2>1, <2>2, <2>3 DEF Phase, Answered
<1>10. PeelTypes'
  <2>1. PeelTypeOK'
    BY <1>0, <1>2, <1>4 DEF PeelTypes, PeelTypeOK, Labels
  <2>2. \A h \in Hosts : /\ mIndex[h] <= Len(tables[h])
                         /\ pc'[h] \notin Dead \cup {"returned"} => session[h] <= Sessions
    BY <1>0, <1>1, <1>2, <1>4 DEF PeelTypes, Dead
  <2>3. pc'["server"] = "peeling" => Len(work) = Len(diffMET) /\ Len(work) > 0
    BY <1>2, <1>4 DEF PeelTypes
  <2>4. place \in Places
    BY <1>2 DEF PeelTypes
  <2> QED
    BY <1>0, <1>5, <2>1, <2>2, <2>3, <2>4 DEF PeelTypes
<1>11. GrewInv'
  <2>1. \A h \in Hosts : /\ pc'[h] = "begin" => pc[h] = "begin"
                         /\ pc'[h] \in InSession => pc[h] \in InSession
    BY <1>1, <1>4 DEF InSession
  <2> QED
    BY <1>0, <1>2, <2>1 DEF GrewInv
<1>12. TablesInv'
  <2>1. Regular' <=> Regular
    BY <1>0, CopiesStay
  <2> QED
    BY <1>0, <1>2, <2>1, TablesStay
<1>13. PeelingInv'
  <2>1. pc'["server"] # "peeling"
    BY <1>4, <1>6, Whereabouts DEF Aside, Dead
  <2> QED
    BY <2>1 DEF PeelingInv
<1> QED
  BY <1>9, <1>10, <1>11, <1>12, <1>13 DEF PeelInv

\* The client takes the two lists.
LEMMA ClientListsKeeps ==
    ASSUME PeelInv, ClientLists
    PROVE  PeelInv'
<1>0. /\ place' = place /\ copies' = copies /\ tables' = tables /\ mIndex' = mIndex
      /\ session' = session /\ diffMET' = diffMET /\ work' = work /\ listed' = listed
      /\ grew' = grew
      /\ oms' = [oms EXCEPT !["client"] = Head(chan["client"]).copies]
      /\ pc["client"] = "awaitLists"
      /\ pc' = [pc EXCEPT !["client"] = "post"]
      /\ Answer("client", 2, <<>>)
  BY DEF ClientLists, peeling, Goto
<1>1. /\ "client" \in Hosts /\ "server" \in Hosts /\ Other("client") = "server"
      /\ \A h \in Hosts : h = "client" \/ h = "server"
  BY DEF Hosts, Other
<1>2. PeelTypes /\ Phase /\ GrewInv /\ TablesInv /\ PeelingInv
  BY DEF PeelInv
<1>3. pc \in [Hosts -> Labels] /\ DOMAIN chan = Hosts /\ oms \in [Hosts -> Copied]
  BY <1>2 DEF PeelTypes, PeelTypeOK, Labels, Copied
<1>4. /\ pc' \in [Hosts -> Labels]
      /\ pc'["client"] = "post" /\ pc'["server"] = pc["server"]
  BY <1>0, <1>1, <1>3 DEF Labels
<1>5. /\ DOMAIN chan' = Hosts
      /\ chan'["client"] = SubSeq(chan["client"], 3, Len(chan["client"]))
      /\ chan'["server"] = chan["server"] \o <<>>
  <2>1. /\ DOMAIN chan' = Hosts
        /\ chan'["client"] = SubSeq(chan["client"], 2 + 1, Len(chan["client"]))
        /\ chan'["server"] = chan["server"] \o <<>>
    <3>1. Answer("client", 2, <<>>)
      BY <1>0
    <3> QED
      BY <1>3, <3>1, ClientAnswers, Zenon
  <2> QED
    BY <2>1
<1>6. Answered
  BY <1>0, <1>2, Whereabouts DEF Phase, Aside, Dead
<1>7. PICK f, g \in [Elem -> 0..MaxCopies] :
         /\ Sits({"awaitLists"}, Aside) /\ Holding(<<List(f), List(g)>>, <<>>)
         /\ pc["server"] = "post" /\ Regular => Exactly(f, oms["server"])
  BY <1>0, <1>6 DEF Answered, Sits, Dead
<1>8. chan["client"] = <<List(f), List(g)>> /\ chan["server"] = <<>>
  BY <1>7 DEF Holding
<1>9. /\ chan'["client"] = <<>> /\ chan'["server"] = <<>>
      /\ oms' \in [Hosts -> Copied] /\ oms'["client"] = f /\ oms'["server"] = oms["server"]
  <2>1. \A b, c : SubSeq(<<b, c>>, 3, Len(<<b, c>>)) = <<>>
    OBVIOUS
  <2>2. <<>> \o <<>> = <<>>
    OBVIOUS
  <2>3. Head(<<List(f), List(g)>>).copies = f
    BY DEF List
  <2>4. f \in Copied
    BY <1>7 DEF Copied
  <2>5. chan'["client"] = <<>>
    BY <1>5, <1>8, <2>1
  <2>6. chan'["server"] = <<>>
    BY <1>5, <1>8, <2>2
  <2>7. oms' = [oms EXCEPT !["client"] = f]
    BY <1>0, <1>8, <2>3
  <2> QED
    BY <1>1, <1>3, <2>4, <2>5, <2>6, <2>7
<1>10. Phase'
  <2>1. Sits(Aside, Aside)'
    BY <1>4, <1>7 DEF Sits, Aside
  <2>2. Parted'
    BY <1>9, <2>1 DEF Parted, Holding
  <2>3. (Regular /\ \A h \in Hosts : pc[h] = "post")' => Exactly(oms["client"], oms["server"])'
    <3>1. (Regular' <=> Regular) /\ \A u, v : Exactly(u, v)' <=> Exactly(u, v)
      BY <1>0, CopiesStay
    <3>2. (\A h \in Hosts : pc[h] = "post")' => pc["server"] = "post"
      BY <1>1, <1>4
    <3> QED
      BY <1>7, <1>9, <3>1, <3>2
  <2> QED
    BY <2>2, <2>3 DEF Phase, Between
<1>11. PeelTypes'
  <2>1. PeelTypeOK'
    BY <1>0, <1>2, <1>4, <1>9 DEF PeelTypes, PeelTypeOK, Labels, Copied
  <2>2. \A h \in Hosts : /\ mIndex[h] <= Len(tables[h])
                         /\ pc'[h] \notin Dead \cup {"returned"} => session[h] <= Sessions
    BY <1>0, <1>1, <1>2, <1>4 DEF PeelTypes, Dead
  <2>3. pc'["server"] = "peeling" => Len(work) = Len(diffMET) /\ Len(work) > 0
    BY <1>2, <1>4 DEF PeelTypes
  <2>4. place \in Places
    BY <1>2 DEF PeelTypes
  <2> QED
    BY <1>0, <1>5, <2>1, <2>2, <2>3, <2>4 DEF PeelTypes
<1>12. GrewInv'
  <2>1. \A h \in Hosts : /\ pc'[h] = "begin" => pc[h] = "begin"
                         /\ pc'[h] \in InSession => pc[h] \in InSession
    BY <1>1, <1>4 DEF InSession
  <2> QED
    BY <1>0, <1>2, <2>1 DEF GrewInv
<1>13. TablesInv'
  <2>1. Regular' <=> Regular
    BY <1>0, CopiesStay
  <2> QED
    BY <1>0, <1>2, <2>1, TablesStay
<1>14. PeelingInv'
  <2>1. pc'["server"] # "peeling"
    BY <1>4, <1>6, Whereabouts DEF Aside, Dead
  <2> QED
    BY <2>1 DEF PeelingInv
<1> QED
  BY <1>10, <1>11, <1>12, <1>13, <1>14 DEF PeelInv

(***************************************************************************)
(* A host goes on to its next table.                                       *)
(***************************************************************************)
LEMMA GrowKeeps ==
    ASSUME PeelInv, NEW h \in Hosts, Grow(h), pc[h] \in InSession, SameSession,
           copies' = copies, session' = session,
           \A g \in Hosts : /\ pc'[g] # "begin"
                            /\ pc'[g] \in InSession => pc[g] \in InSession
    PROVE  /\ tables' \in [Hosts -> Seq(Content)] /\ mIndex' \in [Hosts -> 1..MaxTables]
           /\ \A g \in Hosts : mIndex'[g] <= Len(tables'[g])
           /\ tables'[h] = Grown(h) /\ mIndex'[h] = mIndex[h] + 1
           /\ \A g \in Hosts \ {h} : tables'[g] = tables[g] /\ mIndex'[g] = mIndex[g]
           /\ Regular' => Regular
           /\ GrewInv' /\ TablesInv'
<1>1. PeelTypes /\ GrewInv /\ TablesInv
  BY DEF PeelInv
<1>2. session[h] <= Sessions
  BY <1>1, HostTypes DEF InSession, Dead
<1>3. /\ Grown(h) \in Seq(Content) /\ Len(Grown(h)) = Len(tables[h]) + 1
      /\ mIndex[h] + 1 \in 1..Len(Grown(h))
      /\ session[h] \in 1..Sessions
      /\ Cardinality(grew \cup {session[h]}) <= 1 /\ Regular
           => \A i \in 1..Len(Grown(h)) : Grown(h)[i] = copies[h]
  BY <1>1, <1>2, GrowsTables
<1>4. /\ tables \in [Hosts -> Seq(Content)] /\ mIndex \in [Hosts -> 1..MaxTables]
      /\ copies \in [Hosts -> Copied]
  BY <1>1 DEF PeelTypes, PeelTypeOK, Copied
<1>5. /\ mIndex[h] < MaxTables
      /\ mIndex' = [mIndex EXCEPT ![h] = mIndex[h] + 1]
      /\ tables' = [tables EXCEPT ![h] = Grown(h)]
      /\ grew' = grew \cup {session[h]}
  BY DEF Grow
<1>6. /\ tables' \in [Hosts -> Seq(Content)]
      /\ tables'[h] = Grown(h)
      /\ \A g \in Hosts \ {h} : tables'[g] = tables[g]
  BY <1>3, <1>4, <1>5
<1>7. /\ mIndex' \in [Hosts -> 1..MaxTables]
      /\ mIndex'[h] = mIndex[h] + 1
      /\ \A g \in Hosts \ {h} : mIndex'[g] = mIndex[g]
  <2>1. MaxTables \in Nat /\ mIndex[h] \in 1..MaxTables
    BY <1>4, PeelConstants
  <2>2. mIndex[h] + 1 \in 1..MaxTables
    BY <1>5, <2>1
  <2> QED
    BY <1>4, <1>5, <2>2
<1>8. \A g \in Hosts : mIndex'[g] <= Len(tables'[g])
  <2> SUFFICES ASSUME NEW g \in Hosts PROVE mIndex'[g] <= Len(tables'[g])
    OBVIOUS
  <2>1. CASE g = h
    <3>1. mIndex'[g] \in 1..Len(Grown(h))
      BY <1>3, <1>7, <2>1
    <3> QED
      BY <1>6, <2>1, <3>1
  <2>2. CASE g # h
    <3>1. mIndex[g] <= Len(tables[g])
      BY <1>1, HostTypes
    <3> QED
      BY <1>6, <1>7, <2>2, <3>1
  <2> QED
    BY <2>1, <2>2
<1>9. grew' \subseteq 1..Sessions /\ grew \subseteq grew'
  BY <1>1, <1>3, <1>5 DEF GrewInv
<1>10. Regular' => Regular
  <2>1. \A g \in Hosts, e \in Elem : copies[g][e] <= copies'[g][e]
    <3> SUFFICES ASSUME NEW g \in Hosts, NEW e \in Elem PROVE copies[g][e] <= copies'[g][e]
      OBVIOUS
    <3>1. copies[g][e] \in 0..MaxCopies
      BY <1>4 DEF Copied
    <3> QED
      BY <3>1, PeelConstants
  <2>2. copies' \in [Hosts -> Copied]
    BY <1>4
  <2> QED
    BY <1>1, <1>9, <2>1, <2>2, RegularBack
<1>11. GrewInv'
  <2> SUFFICES ASSUME NEW g \in Hosts
               PROVE  /\ Len(tables'[g]) > 1 => grew' # {}
                      /\ \A n \in grew' : n <= session[g]
                      /\ pc'[g] \in InSession /\ Len(tables'[g]) > mIndex'[g]
                           => \E n \in grew' : n < session[g]
    BY <1>9 DEF GrewInv
  <2>1. grew' # {}
    BY <1>5
  <2>2. ASSUME NEW n \in grew' PROVE n <= session[g]
    <3>1. session[g] = session[h]
      BY DEF SameSession, Hosts
    <3>2. session[g] \in Nat
      BY <1>3, <3>1
    <3>3. n \in grew => n <= session[g]
      BY <1>1 DEF GrewInv
    <3> QED
      BY <1>5, <2>2, <3>1, <3>2, <3>3
  <2>3. ASSUME pc'[g] \in InSession, Len(tables'[g]) > mIndex'[g]
        PROVE  \E n \in grew' : n < session[g]
    <3>1. Len(tables[g]) > mIndex[g]
      <4>1. CASE g = h
        <5>1. mIndex[h] \in Nat /\ Len(tables[h]) \in Nat
          BY <1>4, PeelConstants
        <5> QED
          BY <1>3, <1>6, <1>7, <2>3, <4>1, <5>1
      <4>2. CASE g # h
        BY <1>6, <1>7, <2>3, <4>2
      <4> QED
        BY <4>1, <4>2
    <3>2. PICK n \in grew : n < session[g]
      BY <1>1, <2>3, <3>1 DEF GrewInv
    <3> QED
      BY <1>9, <3>2
  <2> QED
    BY <2>1, <2>2, <2>3
<1>12. TablesInv'
  <2> SUFFICES ASSUME Regular', NEW g \in Hosts, NEW i \in 1..Len(tables'[g])
               PROVE  tables'[g][i] = copies[g]
    BY DEF TablesInv
  <2>1. Regular
    BY <1>10
  <2>2. CASE g = h
    <3>1. Cardinality(grew \cup {session[h]}) <= 1
      BY <1>5 DEF Regular
    <3> QED
      BY <1>3, <1>6, <2>1, <2>2, <3>1
  <2>3. CASE g # h
    BY <1>1, <1>6, <2>1, <2>3 DEF TablesInv
  <2> QED
    BY <2>2, <2>3
<1> QED
  BY <1>6, <1>7, <1>8, <1>10, <1>11, <1>12

\* The client sends the next table.
LEMMA ClientGrows ==
    ASSUME PeelInv, ClientFlag, ~Head(chan["client"]).ok
    PROVE  PeelInv'
<1>0. /\ place' = place /\ copies' = copies /\ session' = session
      /\ diffMET' = diffMET /\ work' = work /\ listed' = listed /\ oms' = oms
      /\ pc["client"] = "awaitFlag" /\ chan["client"] # <<>>
      /\ pc' = pc /\ Grow("client")
      /\ Answer("client", 1, <<[type |-> "table",
                                content |-> Grown("client")[mIndex["client"] + 1]]>>)
  BY DEF ClientFlag, Receives, peeling
<1>1. /\ "client" \in Hosts /\ "server" \in Hosts /\ Other("client") = "server"
      /\ "server" \in Hosts \ {"client"}
      /\ \A h \in Hosts : h = "client" \/ h = "server"
  BY DEF Hosts, Other
<1>2. PeelTypes /\ Phase
  BY DEF PeelInv
<1>3. Refused /\ Differences
  <2>1. ~Answered
    <3>1. SUFFICES ASSUME NEW f, NEW g,
                          chan["client"] = <<Flag(TRUE), List(f), List(g)>>
                   PROVE  FALSE
      BY <1>0 DEF Answered, Sits, Holding, Dead
    <3>2. Head(<<Flag(TRUE), List(f), List(g)>>) = Flag(TRUE)
      OBVIOUS
    <3> QED
      BY <3>1, <3>2 DEF Flag
  <2>2. ~Between /\ ~TableSent /\ ~Peels
    BY <1>0, Whereabouts DEF Aside, Dead
  <2> QED
    BY <1>2, <2>1, <2>2 DEF Phase
<1>4. /\ SameSession /\ mIndex["server"] = mIndex["client"] + 1
      /\ Len(diffMET) = mIndex["client"]
      /\ chan["client"] = <<Flag(FALSE)>> /\ chan["server"] = <<>>
      /\ Sits({"awaitFlag"}, {"recvTable"})
  BY <1>3 DEF Refused, Holding
<1>5. \A g \in Hosts : pc[g] # "begin"
  BY <1>1, <1>4 DEF Sits, Dead
<1>6. /\ tables' \in [Hosts -> Seq(Content)] /\ mIndex' \in [Hosts -> 1..MaxTables]
      /\ \A g \in Hosts : mIndex'[g] <= Len(tables'[g])
      /\ tables'["client"] = Grown("client") /\ mIndex'["client"] = mIndex["client"] + 1
      /\ mIndex'["server"] = mIndex["server"]
      /\ Regular' => Regular
      /\ GrewInv' /\ TablesInv'
  <2>1. pc["client"] \in InSession
    BY <1>0 DEF InSession
  <2> QED
    BY <1>0, <1>1, <1>4, <1>5, <2>1, GrowKeeps
<1>7. /\ DOMAIN chan' = Hosts
      /\ chan'["client"] = <<>>
      /\ chan'["server"] = <<Table("client", mIndex["client"])'>>
  <2>1. DOMAIN chan = Hosts
    BY <1>2 DEF PeelTypes
  <2>2. PICK m : m = [type |-> "table", content |-> Grown("client")[mIndex["client"] + 1]]
    OBVIOUS
  <2>3. /\ DOMAIN chan' = Hosts
        /\ chan'["client"] = SubSeq(chan["client"], 1 + 1, Len(chan["client"]))
        /\ chan'["server"] = chan["server"] \o <<m>>
    <3>1. Answer("client", 1, <<m>>)
      BY <1>0, <2>2
    <3> QED
      BY <2>1, <3>1, ClientAnswers, Zenon
  <2>4. \A x : SubSeq(<<x>>, 1 + 1, Len(<<x>>)) = <<>> /\ <<>> \o <<x>> = <<x>>
    OBVIOUS
  <2>5. m = Table("client", mIndex["client"])'
    BY <1>6, <2>2 DEF Table
  <2> QED
    BY <1>4, <2>3, <2>4, <2>5
<1>8. Phase'
  <2>1. Sits({"awaitFlag"}, {"recvTable"})'
    BY <1>0, <1>4 DEF Sits
  <2>2. SameSession'
    BY <1>0, <1>4 DEF SameSession
  <2>3. Holding(<<>>, <<Table("client", mIndex["client"])>>)'
    BY <1>7 DEF Holding
  <2>4. mIndex["client"] \in Nat
    BY <1>1, <1>2, HostTypes, PeelConstants
  <2>5. mIndex'["server"] = mIndex'["client"] /\ Len(diffMET)' = mIndex'["server"] - 1
    BY <1>0, <1>4, <1>6, <2>4
  <2>6. TableSent'
    BY <2>1, <2>2, <2>3, <2>5 DEF TableSent
  <2>7. Differences'
    <3>1. Surplus' = Surplus
      BY <1>0 DEF Surplus, Minus
    <3> QED
      BY <1>0, <1>3, <1>6, <3>1 DEF Differences
  <2> QED
    BY <2>6, <2>7 DEF Phase
<1>9. PeelTypes'
  <2>1. PeelTypeOK'
    BY <1>0, <1>2, <1>6 DEF PeelTypes, PeelTypeOK
  <2>2. \A h \in Hosts : pc[h] \notin Dead \cup {"returned"} => session[h] <= Sessions
    BY <1>2 DEF PeelTypes
  <2>3. pc["server"] = "peeling" => Len(work) = Len(diffMET) /\ Len(work) > 0
    BY <1>2 DEF PeelTypes
  <2>4. place \in Places
    BY <1>2 DEF PeelTypes
  <2> QED
    BY <1>0, <1>6, <1>7, <2>1, <2>2, <2>3, <2>4 DEF PeelTypes
<1>10. PeelingInv'
  <2>1. pc'["server"] # "peeling"
    BY <1>0, <1>4 DEF Sits, Dead
  <2> QED
    BY <2>1 DEF PeelingInv
<1> QED
  BY <1>6, <1>8, <1>9, <1>10 DEF PeelInv

(***************************************************************************)
(* The server's steps.                                                     *)
(***************************************************************************)
LEMMA ServerTableKeeps ==
    ASSUME PeelInv, ServerTable
    PROVE  PeelInv'
<1>0. /\ place' = place /\ copies' = copies /\ tables' = tables /\ mIndex' = mIndex
      /\ session' = session /\ oms' = oms /\ grew' = grew
      /\ pc["server"] = "recvTable"
      /\ chan["server"] # <<>> /\ Head(chan["server"]).type = "table"
      /\ diffMET' = Append(diffMET, Minus(tables["server"][mIndex["server"]],
                                          Head(chan["server"]).content))
      /\ work' = diffMET' /\ listed' = NothingListed
      /\ pc' = [pc EXCEPT !["server"] = "peeling"]
      /\ Answer("server", 1, <<>>)
  BY DEF ServerTable, Receives, Goto
<1>1. /\ "client" \in Hosts /\ "server" \in Hosts /\ Other("server") = "client"
      /\ \A h \in Hosts : h = "client" \/ h = "server"
  BY DEF Hosts, Other
<1>2. PeelTypes /\ Phase /\ GrewInv /\ TablesInv
  BY DEF PeelInv
<1>3. TableSent /\ Differences
  BY <1>0, <1>2, Whereabouts DEF Phase, Aside, Dead
<1>4. /\ Sits({"awaitFlag"}, {"recvTable"}) /\ SameSession
      /\ chan["client"] = <<>>
      /\ chan["server"] = <<Table("client", mIndex["client"])>>
      /\ mIndex["server"] = mIndex["client"] /\ Len(diffMET) = mIndex["server"] - 1
  BY <1>3 DEF TableSent, Holding
<1>5. pc \in [Hosts -> Labels] /\ DOMAIN chan = Hosts
  BY <1>2 DEF PeelTypes, PeelTypeOK, Labels
<1>6. /\ pc' \in [Hosts -> Labels]
      /\ pc'["client"] = pc["client"] /\ pc'["server"] = "peeling"
  BY <1>0, <1>1, <1>5 DEF Labels
<1>7. DOMAIN chan' = Hosts /\ chan'["server"] = <<>> /\ chan'["client"] = <<>>
  <2>1. /\ DOMAIN chan' = Hosts
        /\ chan'["server"] = SubSeq(chan["server"], 1 + 1, Len(chan["server"]))
        /\ chan'["client"] = chan["client"] \o <<>>
    <3>1. Answer("server", 1, <<>>)
      BY <1>0
    <3> QED
      BY <1>5, <3>1, ServerAnswers, Zenon
  <2>2. \A x : SubSeq(<<x>>, 1 + 1, Len(<<x>>)) = <<>> /\ <<>> \o <<>> = <<>>
    OBVIOUS
  <2> QED
    BY <1>4, <2>1, <2>2
<1>8. PICK n \in 1..MaxTables, c, s \in Seq(Content) :
         /\ n = mIndex["server"] /\ n = mIndex["client"]
         /\ c = tables["client"] /\ s = tables["server"]
         /\ n <= Len(c) /\ n <= Len(s)
  <2>1. /\ mIndex["server"] \in 1..MaxTables
        /\ tables["client"] \in Seq(Content) /\ tables["server"] \in Seq(Content)
        /\ mIndex["client"] <= Len(tables["client"])
        /\ mIndex["server"] <= Len(tables["server"])
    BY <1>1, <1>2, HostTypes
  <2> QED
    BY <1>4, <2>1
<1>9. n \in 1..Len(c) /\ n \in 1..Len(s) /\ n \in Nat \ {0} /\ Len(diffMET) = n - 1
  BY <1>4, <1>8, PeelConstants
<1>10. s[n] \in Content /\ c[n] \in Content
  BY <1>9
<1>11. PICK d \in Content : d = Minus(s[n], c[n])
  BY <1>10, Contents
<1>12. diffMET \in Seq(Content)
  BY <1>1, <1>2, HostTypes
<1>13. diffMET' = Append(diffMET, d)
  <2>1. Head(chan["server"]).content = c[n]
    <3>1. Table("client", mIndex["client"]).content = c[n]
      BY <1>8 DEF Table
    <3>2. \A x : Head(<<x>>) = x
      OBVIOUS
    <3> QED
      BY <1>4, <3>1, <3>2
  <2> QED
    BY <1>0, <1>8, <1>11, <2>1
<1>14. /\ diffMET' \in Seq(Content) /\ Len(diffMET') = n
       /\ \A i \in 1..n - 1 : diffMET'[i] = diffMET[i]
       /\ diffMET'[n] = d
  <2>1. Len(diffMET) + 1 = n
    BY <1>9
  <2> QED
    BY <1>9, <1>12, <1>13, <2>1, AppendProperties
<1>15. /\ (Regular' <=> Regular) /\ Surplus' = Surplus /\ Differ' = Differ
       /\ Lacks("client")' = Lacks("client") /\ Lacks("server")' = Lacks("server")
  BY <1>0, <1>1, CopiesStay
<1>16. Regular => \A i \in 1..n : diffMET'[i] = Surplus
  <2> SUFFICES ASSUME Regular, NEW i \in 1..n PROVE diffMET'[i] = Surplus
    OBVIOUS
  <2>1. d = Surplus
    <3>1. s[n] = copies["server"] /\ c[n] = copies["client"]
      BY <1>1, <1>2, <1>8, <1>9 DEF TablesInv
    <3> QED
      BY <1>11, <3>1 DEF Surplus
  <2>2. CASE i = n
    BY <1>14, <2>1, <2>2
  <2>3. CASE i # n
    <3>1. i \in 1..n - 1 /\ i \in 1..Len(diffMET)
      BY <1>9, <2>3
    <3> QED
      BY <1>3, <1>14, <3>1 DEF Differences
  <2> QED
    BY <2>2, <2>3
<1>17. Phase'
  <2>1. Sits({"awaitFlag"}, {"peeling"})'
    BY <1>4, <1>6 DEF Sits
  <2>2. SameSession'
    BY <1>0, <1>4 DEF SameSession
  <2>3. Holding(<<>>, <<>>)'
    BY <1>7 DEF Holding
  <2>4. Peels'
    BY <1>0, <1>8, <1>14, <2>1, <2>2, <2>3 DEF Peels
  <2>5. Differences'
    BY <1>14, <1>15, <1>16 DEF Differences
  <2> QED
    BY <2>4, <2>5 DEF Phase
<1>18. PeelTypes'
  <2>1. listed' \in [Sides -> Copied]
    BY <1>0, Contents DEF NothingListed
  <2>2. PeelTypeOK'
    BY <1>0, <1>2, <1>6, <1>14, <2>1 DEF PeelTypes, PeelTypeOK, Labels, Copied
  <2>3. \A h \in Hosts : /\ mIndex[h] <= Len(tables[h])
                         /\ pc'[h] \notin Dead \cup {"returned"} => session[h] <= Sessions
    BY <1>0, <1>1, <1>2, <1>6 DEF PeelTypes, Dead
  <2>4. Len(work)' = Len(diffMET)' /\ Len(work)' > 0
    BY <1>0, <1>9, <1>14
  <2>5. place \in Places
    BY <1>2 DEF PeelTypes
  <2> QED
    BY <1>0, <1>7, <2>2, <2>3, <2>4, <2>5 DEF PeelTypes
<1>19. GrewInv'
  <2>1. \A h \in Hosts : /\ pc'[h] = "begin" => pc[h] = "begin"
                         /\ pc'[h] \in InSession => pc[h] \in InSession
    BY <1>0, <1>1, <1>6 DEF InSession
  <2> QED
    BY <1>0, <1>2, <2>1 DEF GrewInv
<1>20. TablesInv'
  BY <1>0, <1>2, <1>15, TablesStay
<1>21. PeelingInv'
  <2> SUFFICES ASSUME Regular
               PROVE  /\ \A i \in 1..Len(work') : Shows(work[i], Differ \ Found)'
                      /\ ListedInv'
    BY <1>15 DEF PeelingInv
  <2>1. Found' = {} /\ ListedInv'
    BY <1>0, NothingFound
  <2>2. (Differ \ Found)' = Differ
    BY <1>15, <2>1
  <2>3. Shows(Surplus, Differ)
    BY <1>2, SurplusShows
  <2>4. \A i \in 1..Len(work') : work'[i] = Surplus
    BY <1>0, <1>14, <1>16
  <2>5. \A i \in 1..Len(work') : Shows(work[i], Differ \ Found)'
    BY <1>15, <2>2, <2>3, <2>4 DEF Shows
  <2> QED
    BY <2>1, <2>5
<1> QED
  BY <1>17, <1>18, <1>19, <1>20, <1>21 DEF PeelInv

\* The server peels: where that is, and what the tables show.
LEMMA Peeling ==
    ASSUME PeelInv, pc["server"] = "peeling"
    PROVE  /\ Peels /\ Differences
           /\ place \in Places /\ work \in Seq(Content) /\ Len(work) <= MaxTables
           /\ Len(work) = Len(diffMET) /\ Len(work) > 0
           /\ Regular => /\ ListedInv
                         /\ \A i \in 1..Len(work) :
                               /\ Odd(work[i]) = Differ \ Found
                               /\ Lacks("server") = {} => NonNegative(work[i])
                               /\ Lacks("client") = {} => NonPositive(work[i])
<1>1. PeelTypes /\ Phase /\ PeelingInv
  BY DEF PeelInv
<1>2. Peels /\ Differences
  BY <1>1, Whereabouts DEF Phase, Aside, Dead
<1>3. Len(work) = Len(diffMET) /\ Len(work) > 0 /\ place \in Places
  BY <1>1 DEF PeelTypes
<1>4. work \in Seq(Content) /\ Len(work) <= MaxTables
  <2>1. "server" \in Hosts
    BY DEF Hosts
  <2>2. mIndex["server"] \in 1..MaxTables /\ work \in Seq(Content)
    BY <1>1, <2>1, HostTypes
  <2>3. Len(diffMET) = mIndex["server"]
    BY <1>2 DEF Peels
  <2> QED
    BY <1>3, <2>2, <2>3
<1>5. Regular => /\ ListedInv
                 /\ \A i \in 1..Len(work) : Shows(work[i], Differ \ Found)
  BY <1>1 DEF PeelingInv
<1> QED
  BY <1>2, <1>3, <1>4, <1>5 DEF Shows

\* What is listed on one side after a pass that lists P there.
LEMMA ListedGrows ==
    ASSUME NEW p \in Copied, NEW P \in SUBSET Elem
    PROVE  /\ Support(Plus(p, Indicator(P))) = Support(p) \cup P
           /\ \A S \in SUBSET Elem : p = Indicator(S) /\ S \cap P = {}
                => Plus(p, Indicator(P)) = Indicator(S \cup P)
           /\ p = Nothing /\ P = {} => Plus(p, Indicator(P)) = Nothing
<1>1. \A e \in Elem : p[e] \in Nat
  BY PeelConstants DEF Copied
<1>2. \A e \in Elem : Plus(p, Indicator(P))[e] = IF e \in P THEN p[e] + 1 ELSE p[e]
  BY <1>1 DEF Plus, Indicator
<1>3. Support(Plus(p, Indicator(P))) = Support(p) \cup P
  BY <1>1, <1>2 DEF Support
<1>4. ASSUME NEW S \in SUBSET Elem, p = Indicator(S), S \cap P = {}
      PROVE  Plus(p, Indicator(P)) = Indicator(S \cup P)
  <2>1. \A e \in Elem : p[e] + Indicator(P)[e] = IF e \in S \cup P THEN 1 ELSE 0
    BY <1>4 DEF Indicator
  <2> QED
    BY <2>1 DEF Plus, Indicator
<1>5. ASSUME p = Nothing, P = {}
      PROVE  Plus(p, Indicator(P)) = Nothing
  BY <1>5 DEF Plus, Indicator, Nothing
<1> QED
  BY <1>3, <1>4, <1>5

LEMMA ServerPeelsKeeps ==
    ASSUME PeelInv, ServerPeels
    PROVE  PeelInv'
<1>1. /\ "client" \in Hosts /\ "server" \in Hosts /\ "server" # "client"
      /\ \A h \in Hosts : h = "client" \/ h = "server"
  BY DEF Hosts
<1>2. PICK once, now :
         /\ once = PeelOnce(work)
         /\ now = [s \in Sides |-> Plus(listed[s], Indicator(once[s]))]
  OBVIOUS
<1>3. CASE ~(Within(now["pos"]) /\ Within(now["neg"]))
  <2>1. /\ Goto("server", "bound")
        /\ UNCHANGED <<place, copies, tables, mIndex, chan, session, peeling, oms, grew>>
    BY <1>2, <1>3 DEF ServerPeels, peeling
  <2>2. "bound" \in Dead
    BY DEF Dead
  <2> QED
    BY <1>1, <2>1, <2>2, StopKeeps, Zenon
<1>4. CASE Within(now["pos"]) /\ Within(now["neg"])
  <2>0. /\ place' = place /\ copies' = copies /\ tables' = tables /\ mIndex' = mIndex
        /\ session' = session /\ oms' = oms /\ grew' = grew /\ chan' = chan /\ pc' = pc
        /\ diffMET' = diffMET /\ work' = once.left /\ listed' = now
        /\ pc["server"] = "peeling"
    BY <1>2, <1>4 DEF ServerPeels
  <2>1. PeelTypes /\ Phase /\ GrewInv /\ TablesInv
    BY DEF PeelInv
  <2>2. /\ work \in Seq(Content) /\ Len(work) <= MaxTables
        /\ Len(work) = Len(diffMET) /\ Len(work) > 0
        /\ Regular => /\ ListedInv
                      /\ \A i \in 1..Len(work) :
                            /\ Odd(work[i]) = Differ \ Found
                            /\ Lacks("server") = {} => NonNegative(work[i])
                            /\ Lacks("client") = {} => NonPositive(work[i])
    BY <2>0, Peeling
  <2>3. PICK P \in SUBSET Elem, N \in SUBSET Elem : P = once.pos /\ N = once.neg
    BY <1>2, <2>2, PassTypes
  <2>4. work' \in Seq(Content) /\ Len(work') = Len(work)
    BY <1>2, <2>0, <2>2, PassTypes
  <2>5. PICK p \in Copied, q \in Copied : p = listed["pos"] /\ q = listed["neg"]
    BY <1>1, <2>1, HostTypes
  <2>6. /\ listed' = [s \in Sides |-> now[s]]
        /\ now["pos"] = Plus(p, Indicator(P)) /\ now["neg"] = Plus(q, Indicator(N))
    BY <1>2, <2>0, <2>3, <2>5 DEF Sides
  <2>7. listed' \in [Sides -> Copied]
    <3>1. Indicator(P) \in Copied /\ Indicator(N) \in Copied
      BY Contents
    <3>2. now["pos"] \in Copied /\ now["neg"] \in Copied
      BY <1>4, <2>6, <3>1, Contents
    <3>3. \A s \in Sides : now[s] \in Copied
      BY <3>2 DEF Sides
    <3> QED
      BY <2>6, <3>3
  <2>8. PeelTypes'
    <3>1. PeelTypeOK'
      BY <2>0, <2>1, <2>4, <2>7 DEF PeelTypes, PeelTypeOK, Copied
    <3>2. \A h \in Hosts : /\ mIndex[h] <= Len(tables[h])
                           /\ pc[h] \notin Dead \cup {"returned"} => session[h] <= Sessions
      BY <2>1 DEF PeelTypes
    <3>3. Len(work)' = Len(diffMET)' /\ Len(work)' > 0
      BY <2>0, <2>2, <2>4
    <3>4. place \in Places /\ DOMAIN chan = Hosts
      BY <2>1 DEF PeelTypes
    <3> QED
      BY <2>0, <3>1, <3>2, <3>3, <3>4 DEF PeelTypes
  <2>9. Phase'
    <3>1. \A h \in Hosts : pc'[h] \in {pc[h]} \cup Dead
      BY <2>0
    <3> QED
      BY <2>0, <2>1, <3>1, PhaseStays
  <2>10. GrewInv'
    BY <2>0, <2>1 DEF GrewInv
  <2>11. /\ (Regular' <=> Regular) /\ Differ' = Differ
         /\ Lacks("client")' = Lacks("client") /\ Lacks("server")' = Lacks("server")
    BY <1>1, <2>0, CopiesStay
  <2>12. TablesInv'
    BY <2>0, <2>1, <2>11, TablesStay
  <2>13. ASSUME Regular
         PROVE  (\A i \in 1..Len(work) : Shows(work[i], Differ \ Found))' /\ ListedInv'
    <3>1. P \cup N \subseteq Differ \ Found
          /\ \A i \in 1..Len(work) : Odd(work'[i]) = (Differ \ Found) \ (P \cup N)
      <4>1. \A i \in 1..Len(work) : Odd(work[i]) = Differ \ Found
        BY <2>2, <2>13
      <4> QED
        BY <1>2, <2>0, <2>2, <2>3, <4>1, PassKeeps, Zenon
    <3>2. /\ Lacks("server") = {}
               => N = {} /\ \A i \in 1..Len(work) : NonNegative(work'[i])
          /\ Lacks("client") = {}
               => P = {} /\ \A i \in 1..Len(work) : NonPositive(work'[i])
      <4>1. \A i \in 1..Len(work) : Odd(work[i]) = Differ \ Found
        BY <2>2, <2>13
      <4>2. /\ (\A i \in 1..Len(work) : NonNegative(work[i]))
                 => N = {} /\ \A i \in 1..Len(work) : NonNegative(work'[i])
            /\ (\A i \in 1..Len(work) : NonPositive(work[i]))
                 => P = {} /\ \A i \in 1..Len(work) : NonPositive(work'[i])
        BY <1>2, <2>0, <2>2, <2>3, <4>1, PassSides, Zenon
      <4> QED
        BY <2>2, <2>13, <4>2
    <3>3. Found = Support(p) \cup Support(q)
          /\ Found' = Support(p) \cup P \cup Support(q) \cup N
      <4>1. Found = Support(p) \cup Support(q)
        BY <2>5 DEF Found
      <4>2. /\ Support(Plus(p, Indicator(P))) = Support(p) \cup P
            /\ Support(Plus(q, Indicator(N))) = Support(q) \cup N
        BY ListedGrows
      <4>3. Found' = Support(Plus(p, Indicator(P))) \cup Support(Plus(q, Indicator(N)))
        BY <2>0, <2>6 DEF Found
      <4> QED
        BY <4>1, <4>2, <4>3
    <3>4. Found' = Found \cup (P \cup N)
      BY <3>3
    <3>5. Found \in SUBSET Elem
      BY <3>3 DEF Support
    <3>6. Found' \subseteq Differ
      BY <2>2, <2>13, <3>1, <3>4 DEF ListedInv
    <3>7. ASSUME Lacks("server") = {}
          PROVE  listed'["pos"] = Indicator(Found') /\ listed'["neg"] = Nothing
      <4>1. p = Indicator(Found) /\ q = Nothing /\ N = {}
        BY <2>2, <2>5, <2>13, <3>2, <3>7 DEF ListedInv
      <4>2. Found \cap P = {} /\ Found' = Found \cup P
        BY <3>1, <3>4, <4>1
      <4>3. Plus(p, Indicator(P)) = Indicator(Found \cup P)
        BY <3>5, <4>1, <4>2, ListedGrows
      <4>4. Plus(q, Indicator(N)) = Nothing
        BY <4>1, ListedGrows
      <4> QED
        BY <2>0, <2>6, <4>2, <4>3, <4>4
    <3>8. ASSUME Lacks("client") = {}
          PROVE  listed'["neg"] = Indicator(Found') /\ listed'["pos"] = Nothing
      <4>1. q = Indicator(Found) /\ p = Nothing /\ P = {}
        BY <2>2, <2>5, <2>13, <3>2, <3>8 DEF ListedInv
      <4>2. Found \cap N = {} /\ Found' = Found \cup N
        BY <3>1, <3>4, <4>1
      <4>3. Plus(q, Indicator(N)) = Indicator(Found \cup N)
        BY <3>5, <4>1, <4>2, ListedGrows
      <4>4. Plus(p, Indicator(P)) = Nothing
        BY <4>1, ListedGrows
      <4> QED
        BY <2>0, <2>6, <4>2, <4>3, <4>4
    <3>9. ListedInv'
      BY <2>11, <3>6, <3>7, <3>8 DEF ListedInv, Indicator, Nothing
    <3>10. ASSUME NEW i \in 1..Len(work')
           PROVE  Shows(work[i], Differ \ Found)'
      <4>1. i \in 1..Len(work)
        BY <2>4
      <4>2. Odd(work'[i]) = Differ' \ Found'
        BY <2>11, <3>1, <3>4, <4>1
      <4>3. /\ Lacks("server")' = {} => NonNegative(work'[i])
            /\ Lacks("client")' = {} => NonPositive(work'[i])
        BY <2>11, <3>2, <4>1
      <4> QED
        BY <4>2, <4>3 DEF Shows
    <3> QED
      BY <3>9, <3>10
  <2>14. PeelingInv'
    BY <2>11, <2>13 DEF PeelingInv
  <2> QED
    BY <2>8, <2>9, <2>10, <2>12, <2>14 DEF PeelInv
<1> QED
  BY <1>3, <1>4

\* The server has peeled everything and sends what it listed.
LEMMA SuccessKeeps ==
    ASSUME PeelInv, ServerPeeled, PeelOnce(work).success
    PROVE  PeelInv'
<1>0. /\ place' = place /\ copies' = copies /\ session' = session /\ tables' = tables
      /\ mIndex' = mIndex /\ diffMET' = diffMET /\ work' = work /\ listed' = listed
      /\ grew' = grew
      /\ pc["server"] = "peeling" /\ PeelOnce(work).pos \cup PeelOnce(work).neg = {}
      /\ oms' = [oms EXCEPT !["server"] = listed["neg"]]
      /\ pc' = [pc EXCEPT !["server"] = "post"]
      /\ Answer("server", 0, <<Flag(TRUE)>> \o Lists)
  BY DEF ServerPeeled, peeling, Goto
<1>1. /\ "client" \in Hosts /\ "server" \in Hosts /\ Other("server") = "client"
      /\ \A h \in Hosts : h = "client" \/ h = "server"
  BY DEF Hosts, Other
<1>2. PeelTypes /\ Phase /\ GrewInv /\ TablesInv
  BY DEF PeelInv
<1>3. /\ Peels
      /\ place \in Places /\ work \in Seq(Content) /\ Len(work) <= MaxTables
      /\ Regular => /\ ListedInv
                    /\ \A i \in 1..Len(work) : Odd(work[i]) = Differ \ Found
  BY <1>0, Peeling
<1>4. /\ Sits({"awaitFlag"}, {"peeling"})
      /\ chan["client"] = <<>> /\ chan["server"] = <<>>
  BY <1>3 DEF Peels, Holding
<1>5. /\ pc \in [Hosts -> Labels] /\ oms \in [Hosts -> Copied] /\ DOMAIN chan = Hosts
  BY <1>2 DEF PeelTypes, PeelTypeOK, Labels, Copied
<1>6. PICK f, g \in [Elem -> 0..MaxCopies] : f = listed["pos"] /\ g = listed["neg"]
  BY <1>1, <1>2, HostTypes DEF Copied
<1>7. /\ pc' \in [Hosts -> Labels] /\ pc'["client"] = pc["client"] /\ pc'["server"] = "post"
      /\ oms' \in [Hosts -> Copied] /\ oms'["server"] = g
  BY <1>0, <1>1, <1>5, <1>6 DEF Labels, Copied
<1>8. /\ DOMAIN chan' = Hosts /\ chan'["server"] = <<>>
      /\ chan'["client"] = <<Flag(TRUE), List(f), List(g)>>
  <2>1. PICK m : m = <<Flag(TRUE)>> \o Lists
    OBVIOUS
  <2>2. /\ DOMAIN chan' = Hosts
        /\ chan'["server"] = SubSeq(chan["server"], 0 + 1, Len(chan["server"]))
        /\ chan'["client"] = chan["client"] \o m
    <3>1. Answer("server", 0, m)
      BY <1>0, <2>1 DEF Answer
    <3> QED
      BY <1>5, <3>1, ServerAnswers, Zenon
  <2>3. m = <<Flag(TRUE), List(f), List(g)>>
    <3>1. Lists = <<List(f), List(g)>>
      BY <1>6 DEF Lists
    <3>2. ASSUME NEW a, NEW b, NEW c
          PROVE  <<a>> \o <<b, c>> = <<a, b, c>>
      <4>1. PICK T : T = {a, b, c}
        OBVIOUS
      <4>2. PICK u, v, w : u = <<a>> /\ v = <<b, c>> /\ w = <<a, b, c>>
        OBVIOUS
      <4>3. u \in Seq(T) /\ Len(u) = 1 /\ u[1] = a
        BY <4>1, <4>2
      <4>4. v \in Seq(T) /\ Len(v) = 2 /\ v[1] = b /\ v[2] = c
        BY <4>1, <4>2
      <4>5. w \in Seq(T) /\ Len(w) = 3 /\ w[1] = a /\ w[2] = b /\ w[3] = c
        BY <4>1, <4>2
      <4>6. /\ u \o v \in Seq(T) /\ Len(u \o v) = 3
            /\ (u \o v)[1] = a /\ (u \o v)[2] = b /\ (u \o v)[3] = c
        <5>1. u \in Seq(T) /\ v \in Seq(T)
          BY <4>3, <4>4
        <5>2. /\ u \o v \in Seq(T) /\ Len(u \o v) = Len(u) + Len(v)
              /\ \A i \in 1..Len(u) + Len(v) :
                    (u \o v)[i] = IF i <= Len(u) THEN u[i] ELSE v[i - Len(u)]
          BY <5>1, ConcatProperties
        <5>3. PICK x : x = u \o v
          OBVIOUS
        <5>4. /\ x \in Seq(T) /\ Len(x) = 1 + 2
              /\ \A i \in 1..1 + 2 : x[i] = IF i <= 1 THEN u[i] ELSE v[i - 1]
          BY <4>3, <4>4, <5>2, <5>3, Zenon
        <5>5. x[1] = u[1] /\ x[2] = v[1] /\ x[3] = v[2]
          BY <5>4
        <5> QED
          BY <4>3, <4>4, <5>3, <5>4, <5>5
      <4>7. \A i \in 1..3 : i = 1 \/ i = 2 \/ i = 3
        OBVIOUS
      <4>8. \A i \in 1..3 : (u \o v)[i] = w[i]
        BY <4>3, <4>4, <4>5, <4>6, <4>7
      <4>9. u \o v = w
        BY <4>5, <4>6, <4>8, SeqEqual
      <4> QED
        BY <4>2, <4>9
    <3> QED
      BY <2>1, <3>1, <3>2
  <2>4. \A a, b, c : <<>> \o <<a, b, c>> = <<a, b, c>>
    OBVIOUS
  <2>5. SubSeq(<<>>, 0 + 1, Len(<<>>)) = <<>>
    OBVIOUS
  <2> QED
    BY <1>4, <2>2, <2>3, <2>4, <2>5
<1>9. Regular => Exactly(f, g)
  <2> SUFFICES ASSUME Regular PROVE Exactly(f, g)
    OBVIOUS
  <2>1. Differ \ Found = {}
    <3>1. \A i \in 1..Len(work) : Odd(work[i]) = Differ \ Found
      BY <1>3
    <3> QED
      BY <1>0, <1>3, <3>1, LastPass
  <2>2. ListedInv
    BY <1>3
  <2>3. Found = Differ
    BY <2>1, <2>2 DEF ListedInv
  <2>4. ASSUME Lacks("server") = {}
        PROVE  f = Indicator(Lacks("client")) /\ g = Nothing
    <3>1. Found = Lacks("client")
      BY <2>3, <2>4 DEF Differ
    <3> QED
      BY <1>6, <2>2, <2>4, <3>1 DEF ListedInv
  <2>5. ASSUME Lacks("client") = {}
        PROVE  g = Indicator(Lacks("server")) /\ f = Nothing
    <3>1. Found = Lacks("server")
      BY <2>3, <2>5 DEF Differ
    <3> QED
      BY <1>6, <2>2, <2>5, <3>1 DEF ListedInv
  <2> QED
    BY <2>4, <2>5 DEF Exactly
<1>10. (Regular' <=> Regular) /\ \A u, v : Exactly(u, v)' <=> Exactly(u, v)
  BY <1>0, CopiesStay
<1>11. Phase'
  <2>1. Sits({"awaitFlag"}, Aside)'
    BY <1>4, <1>7 DEF Sits, Aside
  <2>2. Holding(<<Flag(TRUE), List(f), List(g)>>, <<>>)'
    BY <1>8 DEF Holding
  <2>3. pc'["server"] = "post" /\ Regular' => Exactly(f, oms["server"])'
    BY <1>7, <1>9, <1>10
  <2> QED
    BY <2>1, <2>2, <2>3 DEF Phase, Answered
<1>12. PeelTypes'
  <2>1. PeelTypeOK'
    BY <1>0, <1>2, <1>7 DEF PeelTypes, PeelTypeOK, Labels, Copied
  <2>2. \A h \in Hosts : /\ mIndex[h] <= Len(tables[h])
                         /\ pc'[h] \notin Dead \cup {"returned"} => session[h] <= Sessions
    BY <1>0, <1>1, <1>2, <1>7 DEF PeelTypes, Dead
  <2>3. pc'["server"] # "peeling"
    BY <1>7
  <2> QED
    BY <1>0, <1>3, <1>8, <2>1, <2>2, <2>3 DEF PeelTypes
<1>13. GrewInv'
  <2>1. \A h \in Hosts : /\ pc'[h] = "begin" => pc[h] = "begin"
                         /\ pc'[h] \in InSession => pc[h] \in InSession
    BY <1>1, <1>7 DEF InSession
  <2> QED
    BY <1>0, <1>2, <2>1 DEF GrewInv
<1>14. TablesInv'
  BY <1>0, <1>2, <1>10, TablesStay
<1>15. PeelingInv'
  BY <1>7 DEF PeelingInv
<1> QED
  BY <1>11, <1>12, <1>13, <1>14, <1>15 DEF PeelInv

\* The server asks for the next table, or there is none.
LEMMA GrowthEnds ==
    ASSUME PeelInv, ServerPeeled, ~PeelOnce(work).success, Grow("server")
    PROVE  mIndex["server"] # MaxTables
<1>1. "server" \in Hosts /\ PeelTypes
  BY DEF PeelInv, Hosts
<1>2. mIndex["server"] \in 1..MaxTables /\ MaxTables \in Nat
  BY <1>1, HostTypes, PeelConstants
<1> QED
  BY <1>2 DEF Grow

LEMMA FailureKeeps ==
    ASSUME PeelInv, ServerPeeled, ~PeelOnce(work).success
    PROVE  PeelInv'
<1>1. /\ "client" \in Hosts /\ "server" \in Hosts /\ Other("server") = "client"
      /\ "client" \in Hosts \ {"server"}
      /\ \A h \in Hosts : h = "client" \/ h = "server"
  BY DEF Hosts, Other
<1>2. CASE mIndex["server"] = MaxTables
  <2>1. /\ Goto("server", "bound")
        /\ UNCHANGED <<place, copies, tables, mIndex, chan, session, peeling, oms, grew>>
    BY <1>2, GrowthEnds DEF ServerPeeled
  <2>2. "bound" \in Dead
    BY DEF Dead
  <2> QED
    BY <1>1, <2>1, <2>2, StopKeeps, Zenon
<1>3. CASE mIndex["server"] # MaxTables
  <2>0. /\ place' = place /\ copies' = copies /\ session' = session /\ oms' = oms
        /\ diffMET' = diffMET /\ work' = work /\ listed' = listed
        /\ pc["server"] = "peeling" /\ Grow("server")
        /\ pc' = [pc EXCEPT !["server"] = "recvTable"]
        /\ Answer("server", 0, <<Flag(FALSE)>>)
    BY <1>3 DEF ServerPeeled, peeling, Goto
  <2>1. PeelTypes /\ Phase
    BY DEF PeelInv
  <2>2. /\ Peels /\ Differences /\ place \in Places
    BY <2>0, Peeling
  <2>3. /\ Sits({"awaitFlag"}, {"peeling"}) /\ SameSession
        /\ chan["client"] = <<>> /\ chan["server"] = <<>>
        /\ mIndex["server"] = mIndex["client"] /\ Len(diffMET) = mIndex["server"]
    BY <2>2 DEF Peels, Holding
  <2>4. pc \in [Hosts -> Labels] /\ DOMAIN chan = Hosts
    BY <2>1 DEF PeelTypes, PeelTypeOK, Labels
  <2>5. /\ pc' \in [Hosts -> Labels]
        /\ pc'["client"] = pc["client"] /\ pc'["server"] = "recvTable"
    BY <1>1, <2>0, <2>4 DEF Labels, Waits
  <2>6. \A g \in Hosts : /\ pc'[g] # "begin"
                         /\ pc'[g] \in InSession => pc[g] \in InSession
    BY <1>1, <2>0, <2>3, <2>5 DEF Sits, Dead, InSession
  <2>7. /\ tables' \in [Hosts -> Seq(Content)] /\ mIndex' \in [Hosts -> 1..MaxTables]
        /\ \A g \in Hosts : mIndex'[g] <= Len(tables'[g])
        /\ mIndex'["server"] = mIndex["server"] + 1
        /\ mIndex'["client"] = mIndex["client"]
        /\ Regular' => Regular
        /\ GrewInv' /\ TablesInv'
    <3>1. pc["server"] \in InSession
      BY <2>0 DEF InSession
    <3> QED
      BY <1>1, <2>0, <2>3, <2>6, <3>1, GrowKeeps
  <2>8. /\ DOMAIN chan' = Hosts /\ chan'["server"] = <<>>
        /\ chan'["client"] = <<Flag(FALSE)>>
    <3>1. /\ DOMAIN chan' = Hosts
          /\ chan'["server"] = SubSeq(chan["server"], 0 + 1, Len(chan["server"]))
          /\ chan'["client"] = chan["client"] \o <<Flag(FALSE)>>
      <4>1. Answer("server", 0, <<Flag(FALSE)>>)
        BY <2>0
      <4> QED
        BY <2>4, <4>1, ServerAnswers, Zenon
    <3>2. \A x : <<>> \o <<x>> = <<x>>
      OBVIOUS
    <3>3. SubSeq(<<>>, 0 + 1, Len(<<>>)) = <<>>
      OBVIOUS
    <3> QED
      BY <2>3, <3>1, <3>2, <3>3
  <2>9. Phase'
    <3>1. Sits({"awaitFlag"}, {"recvTable"})'
      BY <2>3, <2>5 DEF Sits
    <3>2. SameSession'
      BY <2>0, <2>3 DEF SameSession
    <3>3. Holding(<<Flag(FALSE)>>, <<>>)'
      BY <2>8 DEF Holding, Flag
    <3>4. Refused'
      BY <2>0, <2>3, <2>7, <3>1, <3>2, <3>3 DEF Refused
    <3>5. Surplus' = Surplus
      BY <2>0 DEF Surplus, Minus
    <3>6. Differences'
      BY <2>0, <2>2, <2>7, <3>5 DEF Differences
    <3> QED
      BY <3>4, <3>6 DEF Phase
  <2>10. PeelTypes'
    <3>1. PeelTypeOK'
      BY <2>0, <2>1, <2>5, <2>7 DEF PeelTypes, PeelTypeOK, Labels
    <3>2. \A h \in Hosts : pc'[h] \notin Dead \cup {"returned"} => session[h] <= Sessions
      BY <1>1, <2>0, <2>1, <2>5 DEF PeelTypes, Dead
    <3>3. pc'["server"] # "peeling"
      BY <2>5
    <3> QED
      BY <2>0, <2>2, <2>7, <2>8, <3>1, <3>2, <3>3 DEF PeelTypes
  <2>11. PeelingInv'
    BY <2>5 DEF PeelingInv
  <2> QED
    BY <2>7, <2>9, <2>10, <2>11 DEF PeelInv
<1> QED
  BY <1>2, <1>3

(***************************************************************************)
(* Adding to what a host holds, after a session and between sessions.      *)
(***************************************************************************)
\* All the tables of a host with f added.
LEMMA EverywhereAdds ==
    ASSUME NEW ts \in Seq(Content), NEW f \in Content
    PROVE  /\ Everywhere(ts, f) \in Seq(Content)
           /\ Len(Everywhere(ts, f)) = Len(ts)
           /\ \A i \in 1..Len(ts) : Everywhere(ts, f)[i] = Plus(ts[i], f)
<1>1. DOMAIN ts = 1..Len(ts) /\ Len(ts) \in Nat
  OBVIOUS
<1>2. PICK u : u = [i \in 1..Len(ts) |-> Plus(ts[i], f)]
  OBVIOUS
<1>3. Everywhere(ts, f) = u
  BY <1>1, <1>2 DEF Everywhere
<1>4. \A i \in 1..Len(ts) : Plus(ts[i], f) \in Content
  <2>1. \A i \in 1..Len(ts) : ts[i] \in Content
    OBVIOUS
  <2> QED
    BY <2>1, Contents
<1>5. u \in Seq(Content) /\ Len(u) = Len(ts)
  BY <1>1, <1>2, <1>4
<1> QED
  BY <1>2, <1>3, <1>5

\* A host that is in no session adds f to what it holds and to its tables: it stays
\* regular if it was, goes on with the next session or waits for it.
LEMMA AddKeeps ==
    ASSUME PeelInv, NEW h \in Hosts, pc[h] \in {"begin", "post"}, NEW f \in Content,
           copies' = [copies EXCEPT ![h] = Plus(copies[h], f)],
           tables' = [tables EXCEPT ![h] = Everywhere(tables[h], f)],
           copies' \in [Hosts -> Copied],
           \A e \in Elem : copies[h][e] <= copies'[h][e] \/ copies[h][e] <= 1,
           place' = place, mIndex' = mIndex, chan' = chan,
           diffMET' = diffMET, work' = work, listed' = listed, oms' = oms, grew' = grew,
           pc' \in [Hosts -> Labels], session' \in [Hosts -> 1..Sessions + 1],
           pc'[h] \in {"begin", "returned"},
           \A g \in Hosts \ {h} : pc'[g] = pc[g] /\ session'[g] = session[g],
           session'[h] >= session[h], pc[h] = "post" => session'[h] > session[h],
           pc'[h] = "begin" => session'[h] <= Sessions
    PROVE  PeelInv'
<1>1. /\ "client" \in Hosts /\ "server" \in Hosts
      /\ \A g \in Hosts : g = "client" \/ g = "server"
  BY DEF Hosts
<1>2. PeelTypes /\ Phase /\ GrewInv /\ TablesInv
  BY DEF PeelInv
<1>3. Between \/ (Answered /\ h = "server")
  <2>1. pc[h] \notin Dead \cup {"awaitFlag", "awaitLists", "recvTable", "peeling"}
    BY DEF Dead
  <2>2. ~TableSent /\ ~Peels /\ ~Refused
    BY <1>1, <2>1, Whereabouts
  <2>3. Answered => h # "client"
    BY <2>1, Whereabouts
  <2>4. Phase
    BY <1>2
  <2>5. Between \/ Answered
    BY <2>2, <2>4, Zenon DEF Phase
  <2> QED
    BY <1>1, <2>3, <2>5, Zenon
<1>4. /\ tables \in [Hosts -> Seq(Content)] /\ copies \in [Hosts -> Copied]
      /\ session \in [Hosts -> 1..Sessions + 1] /\ Sessions \in Nat
  BY <1>2, PeelConstants DEF PeelTypes, PeelTypeOK, Copied
<1>5. /\ Everywhere(tables[h], f) \in Seq(Content)
      /\ Len(Everywhere(tables[h], f)) = Len(tables[h])
      /\ \A i \in 1..Len(tables[h]) : Everywhere(tables[h], f)[i] = Plus(tables[h][i], f)
  BY <1>4, EverywhereAdds
<1>6. /\ tables' \in [Hosts -> Seq(Content)]
      /\ tables'[h] = Everywhere(tables[h], f) /\ copies'[h] = Plus(copies[h], f)
      /\ \A g \in Hosts \ {h} : tables'[g] = tables[g] /\ copies'[g] = copies[g]
  BY <1>4, <1>5
<1>7. \A g \in Hosts : Len(tables'[g]) = Len(tables[g])
  BY <1>5, <1>6
<1>8. Regular' => Regular
  <2>1. \A g \in Hosts, e \in Elem : copies[g][e] <= copies'[g][e] \/ copies[g][e] <= 1
    <3> SUFFICES ASSUME NEW g \in Hosts, NEW e \in Elem, g # h
                 PROVE  copies[g][e] <= copies'[g][e]
      OBVIOUS
    <3>1. copies[g][e] \in 0..MaxCopies
      BY <1>4 DEF Copied
    <3>2. copies'[g] = copies[g]
      BY <1>6
    <3> QED
      BY <3>1, <3>2, PeelConstants
  <2>2. grew \subseteq grew' /\ grew' \subseteq 1..Sessions
    BY <1>2 DEF GrewInv
  <2> QED
    BY <1>2, <2>1, <2>2, RegularBack
<1>9. pc'["server"] # "peeling"
  <2>1. pc["server"] # "peeling"
    BY <1>3, Whereabouts DEF Aside, Dead
  <2> QED
    BY <1>1, <2>1
<1>10. PeelTypes'
  <2>1. PeelTypeOK'
    BY <1>2, <1>6 DEF PeelTypes, PeelTypeOK, Copied, Labels
  <2>2. \A g \in Hosts : /\ mIndex[g] <= Len(tables[g])
                         /\ pc[g] \notin Dead \cup {"returned"} => session[g] <= Sessions
    BY <1>2 DEF PeelTypes
  <2>3. \A g \in Hosts : pc'[g] \notin Dead \cup {"returned"} => session'[g] <= Sessions
    BY <2>2
  <2>4. place \in Places /\ DOMAIN chan = Hosts
    BY <1>2 DEF PeelTypes
  <2> QED
    BY <1>7, <1>9, <2>1, <2>2, <2>3, <2>4 DEF PeelTypes
<1>11. Phase'
  <2>1. pc'[h] # "post" /\ pc'[h] \in Aside
    BY DEF Aside
  <2>2. CASE Between
    <3>1. Parted
      BY <2>2 DEF Between
    <3>2. Parted'
      BY <1>1, <2>1, <3>1 DEF Parted, Sits, Holding
    <3> QED
      BY <2>1, <3>2 DEF Phase, Between
  <2>3. CASE Answered /\ h = "server"
    <3>1. PICK u, v \in [Elem -> 0..MaxCopies] :
            \/ Sits({"awaitFlag"}, Aside) /\ Holding(<<Flag(TRUE), List(u), List(v)>>, <<>>)
            \/ Sits({"awaitLists"}, Aside) /\ Holding(<<List(u), List(v)>>, <<>>)
      BY <2>3 DEF Answered
    <3>2. \A c : Sits(c, Aside) => Sits(c, Aside)'
      BY <1>1, <2>1, <2>3 DEF Sits
    <3>3. \A x, y : Holding(x, y) => Holding(x, y)'
      BY DEF Holding
    <3>4. \/ /\ Sits({"awaitFlag"}, Aside)'
             /\ Holding(<<Flag(TRUE), List(u), List(v)>>, <<>>)'
          \/ Sits({"awaitLists"}, Aside)' /\ Holding(<<List(u), List(v)>>, <<>>)'
      BY <3>1, <3>2, <3>3
    <3>5. pc'["server"] # "post"
      BY <2>1, <2>3
    <3> QED
      BY <3>4, <3>5 DEF Phase, Answered
  <2> QED
    BY <1>3, <2>2, <2>3
<1>12. GrewInv'
  <2> SUFFICES ASSUME NEW g \in Hosts
               PROVE  /\ Len(tables[g]) > 1 => grew # {}
                      /\ \A n \in grew : /\ n <= session'[g]
                                         /\ pc'[g] = "begin" => n < session'[g]
                      /\ pc'[g] \in InSession /\ Len(tables[g]) > mIndex[g]
                           => \E n \in grew : n < session'[g]
    BY <1>2, <1>7 DEF GrewInv
  <2>1. /\ Len(tables[g]) > 1 => grew # {}
        /\ \A n \in grew : /\ n <= session[g]
                           /\ pc[g] = "begin" => n < session[g]
        /\ pc[g] \in InSession /\ Len(tables[g]) > mIndex[g]
             => \E n \in grew : n < session[g]
    BY <1>2 DEF GrewInv
  <2>2. CASE g # h
    BY <2>1, <2>2
  <2>3. CASE g = h
    <3>1. pc'[g] \notin InSession
      BY <2>3 DEF InSession
    <3>2. ASSUME NEW n \in grew
          PROVE  n <= session'[g] /\ (pc'[g] = "begin" => n < session'[g])
      <4>1. n \in Nat /\ session[g] \in Nat /\ session'[g] \in Nat
        BY <1>2, <1>4 DEF GrewInv
      <4>2. n <= session[g] /\ (pc[g] = "begin" => n < session[g])
        BY <2>1
      <4>3. pc[g] = "begin" \/ session'[g] > session[g]
        BY <2>3
      <4>4. session'[g] >= session[g]
        BY <2>3
      <4> QED
        BY <4>1, <4>2, <4>3, <4>4
    <3> QED
      BY <2>1, <3>1, <3>2
  <2> QED
    BY <2>2, <2>3
<1>13. TablesInv'
  <2> SUFFICES ASSUME Regular, NEW g \in Hosts, NEW i \in 1..Len(tables'[g])
               PROVE  tables'[g][i] = copies'[g]
    BY <1>8 DEF TablesInv
  <2>1. i \in 1..Len(tables[g])
    BY <1>7
  <2>2. tables[g][i] = copies[g]
    BY <1>2, <2>1 DEF TablesInv
  <2>3. CASE g = h
    BY <1>5, <1>6, <2>1, <2>2, <2>3
  <2>4. CASE g # h
    BY <1>6, <2>2, <2>4
  <2> QED
    BY <2>3, <2>4
<1>14. PeelingInv'
  BY <1>9 DEF PeelingInv
<1> QED
  BY <1>10, <1>11, <1>12, <1>13, <1>14 DEF PeelInv

LEMMA PostProcessKeeps ==
    ASSUME PeelInv, NEW h \in Hosts, PostProcess(h)
    PROVE  PeelInv'
<1>1. PeelTypes
  BY DEF PeelInv
<1>2. CASE ~Within(Plus(copies[h], oms[h]))
  <2>1. /\ Goto(h, "bound")
        /\ UNCHANGED <<place, copies, tables, mIndex, chan, session, peeling, oms, grew>>
    BY <1>2 DEF PostProcess
  <2>2. "bound" \in Dead
    BY DEF Dead
  <2> QED
    BY <2>1, <2>2, StopKeeps, Zenon
<1>3. CASE Within(Plus(copies[h], oms[h]))
  <2>0. /\ place' = place /\ mIndex' = mIndex /\ chan' = chan
        /\ diffMET' = diffMET /\ work' = work /\ listed' = listed
        /\ oms' = oms /\ grew' = grew
        /\ pc[h] = "post"
        /\ copies' = [copies EXCEPT ![h] = Plus(copies[h], oms[h])]
        /\ tables' = [tables EXCEPT ![h] = Everywhere(tables[h], oms[h])]
        /\ session' = [session EXCEPT ![h] = session[h] + 1]
        /\ pc' = [pc EXCEPT ![h] = IF session[h] = Sessions THEN "returned" ELSE "begin"]
    BY <1>3 DEF PostProcess, peeling, Goto
  <2>1. /\ copies \in [Hosts -> Copied] /\ oms[h] \in Copied
        /\ session \in [Hosts -> 1..Sessions + 1] /\ pc \in [Hosts -> Labels]
        /\ Sessions \in Nat
    BY <1>1, PeelConstants DEF PeelTypes, PeelTypeOK, Copied, Labels
  <2>2. session[h] \in 1..Sessions
    <3>1. session[h] <= Sessions /\ session[h] \in 1..Sessions + 1
      BY <1>1, <2>0, HostTypes DEF Dead
    <3> QED
      BY <2>1, <3>1
  <2>3. /\ session' \in [Hosts -> 1..Sessions + 1]
        /\ session'[h] = session[h] + 1
        /\ \A g \in Hosts \ {h} : session'[g] = session[g]
    BY <2>0, <2>1, <2>2
  <2>4. /\ pc' \in [Hosts -> Labels]
        /\ pc'[h] = IF session[h] = Sessions THEN "returned" ELSE "begin"
        /\ \A g \in Hosts \ {h} : pc'[g] = pc[g]
    BY <2>0, <2>1 DEF Labels, Ended
  <2>5. copies' \in [Hosts -> Copied] /\ copies'[h] = Plus(copies[h], oms[h])
    <3>1. Plus(copies[h], oms[h]) \in Copied
      BY <1>3, <2>1, Contents
    <3> QED
      BY <2>0, <2>1, <3>1
  <2>6. \A e \in Elem : copies[h][e] <= copies'[h][e]
    <3> SUFFICES ASSUME NEW e \in Elem PROVE copies[h][e] <= copies'[h][e]
      OBVIOUS
    <3>1. copies[h][e] \in 0..MaxCopies /\ oms[h][e] \in 0..MaxCopies
      BY <2>1 DEF Copied
    <3>2. copies'[h][e] = copies[h][e] + oms[h][e]
      BY <2>5 DEF Plus
    <3> QED
      BY <3>1, <3>2, PeelConstants
  <2>7. oms[h] \in Content
    BY <2>1, Contents
  <2>8. /\ pc'[h] \in {"begin", "returned"} /\ session'[h] > session[h]
        /\ session'[h] >= session[h] /\ (pc'[h] = "begin" => session'[h] <= Sessions)
    BY <2>1, <2>2, <2>3, <2>4
  <2> QED
    BY <2>0, <2>3, <2>4, <2>5, <2>6, <2>7, <2>8, AddKeeps
<1> QED
  BY <1>2, <1>3

LEMMA UpdateKeeps ==
    ASSUME PeelInv, NEW h \in Hosts, NEW e \in Elem,
           ProgramAdds(h, e) \/ ProgramDeletes(h, e)
    PROVE  PeelInv'
<1>1. PeelTypes
  BY DEF PeelInv
<1>2. PICK f \in Content :
         /\ Update(h, f)
         /\ \/ copies[h][e] = 0 /\ f = Indicator({e})
            \/ copies[h][e] = 1 /\ f = Minus(Nothing, Indicator({e}))
  <2>1. Indicator({e}) \in Content /\ Minus(Nothing, Indicator({e})) \in Content
    BY Contents
  <2> QED
    BY <2>1 DEF ProgramAdds, ProgramDeletes
<1>0. /\ place' = place /\ mIndex' = mIndex /\ chan' = chan /\ pc' = pc
      /\ session' = session
      /\ diffMET' = diffMET /\ work' = work /\ listed' = listed
      /\ oms' = oms /\ grew' = grew
      /\ pc[h] = "begin"
      /\ copies' = [copies EXCEPT ![h] = Plus(copies[h], f)]
      /\ tables' = [tables EXCEPT ![h] = Everywhere(tables[h], f)]
  BY <1>2 DEF Update, peeling
<1>3. /\ copies \in [Hosts -> Copied] /\ pc \in [Hosts -> Labels]
      /\ session \in [Hosts -> 1..Sessions + 1] /\ session[h] <= Sessions
      /\ Sessions \in Nat
  <2>1. session[h] <= Sessions
    BY <1>0, <1>1, HostTypes DEF Dead
  <2> QED
    BY <1>1, <2>1, PeelConstants DEF PeelTypes, PeelTypeOK, Copied, Labels
<1>4. \A d \in Elem : f[d] = IF d = e THEN IF copies[h][e] = 0 THEN 1 ELSE -1 ELSE 0
  BY <1>2 DEF Indicator, Minus, Nothing
<1>5. copies'[h] = Plus(copies[h], f)
  BY <1>0, <1>3
<1>6. \A d \in Elem : copies'[h][d] = copies[h][d] + f[d]
  BY <1>5 DEF Plus
<1>7. \A d \in Elem : /\ copies'[h][d] \in 0..MaxCopies
                      /\ copies[h][d] <= copies'[h][d] \/ copies[h][d] <= 1
  <2> SUFFICES ASSUME NEW d \in Elem
               PROVE  /\ copies'[h][d] \in 0..MaxCopies
                      /\ copies[h][d] <= copies'[h][d] \/ copies[h][d] <= 1
    OBVIOUS
  <2>1. PICK k \in 0..MaxCopies : k = copies[h][d]
    BY <1>3 DEF Copied
  <2>2. copies'[h][d] = k + f[d]
    BY <1>6, <2>1
  <2>3. CASE d = e
    <3>1. (k = 0 /\ f[d] = 1) \/ (k = 1 /\ f[d] = -1)
      <4>1. k = 0 \/ k = 1
        BY <1>2, <2>1, <2>3
      <4>2. f[d] = IF k = 0 THEN 1 ELSE -1
        BY <1>4, <2>1, <2>3
      <4> QED
        BY <4>1, <4>2
    <3> QED
      BY <2>1, <2>2, <3>1, PeelConstants
  <2>4. CASE d # e
    <3>1. f[d] = 0
      BY <1>4, <2>4
    <3> QED
      BY <2>1, <2>2, <3>1, PeelConstants
  <2> QED
    BY <2>3, <2>4
<1>8. copies' \in [Hosts -> Copied]
  <2>1. copies'[h] \in Copied
    BY <1>5, <1>7 DEF Plus, Copied
  <2> QED
    BY <1>0, <1>3, <1>5, <2>1
<1>9. session[h] >= session[h] /\ session'[h] <= Sessions
  BY <1>0, <1>3
<1> QED
  BY <1>0, <1>3, <1>7, <1>8, <1>9, AddKeeps

(***************************************************************************)
(* The theorems.                                                           *)
(***************************************************************************)
LEMMA PeelStep ==
    ASSUME PeelInv, PeelNext
    PROVE  PeelInv'
<1>1. PICK h \in Hosts :
         \/ HostStep(h) \/ Crash(h)
         \/ \E e \in Elem : ProgramAdds(h, e) \/ ProgramDeletes(h, e)
  BY DEF PeelNext
<1>2. "quit" \in Dead
  BY DEF Dead
<1>3. CASE Connect
  BY <1>3, ConnectKeeps
<1>4. CASE ClientFlag
  BY <1>4, AcceptKeeps, ClientGrows
<1>5. CASE ClientLists
  BY <1>5, ClientListsKeeps
<1>6. CASE ServerTable
  BY <1>6, ServerTableKeeps
<1>7. CASE ServerPeels
  BY <1>7, ServerPeelsKeeps
<1>8. CASE ServerPeeled
  BY <1>8, SuccessKeeps, FailureKeeps
<1>9. CASE PostProcess(h)
  BY <1>9, PostProcessKeeps
<1>10. CASE PeerGone(h)
  BY <1>2, <1>10, StopKeeps DEF PeerGone
<1>11. CASE Crash(h)
  BY <1>2, <1>11, StopKeeps DEF Crash
<1>12. CASE \E e \in Elem : ProgramAdds(h, e) \/ ProgramDeletes(h, e)
  BY <1>12, UpdateKeeps
<1> QED
  BY <1>1, <1>3, <1>4, <1>5, <1>6, <1>7, <1>8, <1>9, <1>10, <1>11, <1>12 DEF HostStep

LEMMA PeelStutter ==
    ASSUME PeelInv, UNCHANGED peelVars
    PROVE  PeelInv'
<1>0. /\ place' = place /\ copies' = copies /\ grew' = grew /\ tables' = tables
      /\ mIndex' = mIndex /\ chan' = chan /\ session' = session /\ pc' = pc
      /\ diffMET' = diffMET /\ work' = work /\ listed' = listed /\ oms' = oms
  BY DEF peelVars, peeling
<1>1. PeelTypes'
  BY <1>0 DEF PeelInv, PeelTypes, PeelTypeOK
<1>2. Phase'
  <2>1. \A h \in Hosts : pc'[h] \in {pc[h]} \cup Dead
    BY <1>0
  <2>2. Phase
    BY DEF PeelInv
  <2> QED
    BY <1>0, <2>1, <2>2, PhaseStays
<1>3. GrewInv'
  BY <1>0 DEF PeelInv, GrewInv
<1>4. /\ Regular' <=> Regular
      /\ Differ' = Differ
      /\ \A g \in Hosts : Lacks(g)' = Lacks(g)
  BY <1>0, CopiesStay
<1>5. TablesInv'
  BY <1>0, <1>4, TablesStay DEF PeelInv
<1>6. PeelingInv'
  <2>1. /\ Lacks("server")' = Lacks("server") /\ Lacks("client")' = Lacks("client")
        /\ Found' = Found
    BY <1>0, <1>4 DEF Hosts, Found
  <2>2. \A f, S : Shows(f, S)' <=> Shows(f, S)
    BY <2>1, Zenon DEF Shows
  <2>3. ListedInv' <=> ListedInv
    BY <1>0, <1>4, <2>1 DEF ListedInv
  <2>4. PeelingInv
    BY DEF PeelInv
  <2> QED
    BY <1>0, <1>4, <2>1, <2>2, <2>3, <2>4 DEF PeelingInv
<1> QED
  BY <1>1, <1>2, <1>3, <1>5, <1>6 DEF PeelInv

LEMMA PeelInvariant == PeelSpec => []PeelInv
<1>1. PeelInv /\ [PeelNext]_peelVars => PeelInv'
  BY PeelStep, PeelStutter
<1> QED
  BY <1>1, PeelStarts, PTL DEF PeelSpec

\* The tables, their indices, the lists and the copies keep their types: a table is appended
\* before its index is used (MET_IBLT::getNextIBLT, insert), however the hosts grow them.
THEOREM PeelTypeCorrect == PeelSpec => []PeelTypeOK
<1>1. PeelInv => PeelTypeOK
  BY DEF PeelInv, PeelTypes
<1> QED
  BY <1>1, PeelInvariant, PTL

\* After every pass of peelAll all the tables show the same elements, the differences that
\* have not been listed, whatever cells they share: for any placement and any tables.
THEOREM TablesPeelTogether == PeelSpec => []PeelsTogether
<1>1. PeelInv => PeelsTogether
  <2> SUFFICES ASSUME PeelInv, pc["server"] = "peeling", Regular, NEW i \in DOMAIN work
               PROVE  Odd(work[i]) = Differ \ Found
    BY DEF PeelsTogether, Odd, Differ, Found
  <2>1. /\ work \in Seq(Content)
        /\ \A j \in 1..Len(work) : Odd(work[j]) = Differ \ Found
    BY Peeling
  <2>2. DOMAIN work = 1..Len(work)
    BY <2>1
  <2> QED
    BY <2>1, <2>2
<1> QED
  BY <1>1, PeelInvariant, PTL

\* When only one host lacks elements, it is given exactly these and the other nothing: the
\* signs, which peelAll gets wrong when both lack some, are right then.
THEOREM OneSideIsExact == PeelSpec => []OneSidedExact
<1>1. PeelInv => OneSidedExact
  <2> SUFFICES ASSUME PeelInv, \A g \in Hosts : pc[g] = "post", Regular,
                      NEW h \in Hosts, Lacks(Other(h)) = {}
               PROVE  oms[h] = Indicator(Lacks(h)) /\ oms[Other(h)] = Nothing
    BY DEF OneSidedExact
  <2>1. pc["client"] = "post" /\ pc["server"] = "post"
    BY DEF Hosts
  <2>2. Between
    BY <2>1, Whereabouts DEF PeelInv, Phase, Dead
  <2>3. Exactly(oms["client"], oms["server"])
    BY <2>2 DEF Between
  <2>4. CASE h = "client"
    <3>1. Other(h) = "server"
      BY <2>4 DEF Other
    <3> QED
      BY <2>3, <2>4, <3>1 DEF Exactly
  <2>5. CASE h = "server"
    <3>1. Other(h) = "client"
      BY <2>5 DEF Other
    <3> QED
      BY <2>3, <2>5, <3>1 DEF Exactly
  <2> QED
    BY <2>4, <2>5 DEF Hosts
<1> QED
  BY <1>1, PeelInvariant, PTL
=============================================================================
