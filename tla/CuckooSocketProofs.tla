--------------------------- MODULE CuckooSocketProofs ---------------------------
(***************************************************************************)
(* Theorems about the two parts that the synchronizations are built on and *)
(* that know nothing of them: the cuckoo filter (module Cuckoo, a theorem  *)
(* of FilterSpec) and the strings of a socket (module CommSocket, a        *)
(* theorem of Spec).                                                       *)
(*                                                                         *)
(* The cuckoo filter has no false negatives, and an insertion that fails   *)
(* restores it, for any items, hash and fingerprint functions and sizes.   *)
(* The invariant: the items with a fingerprint other than 0 own the full   *)
(* entries, one each, in one of their two buckets.  During a chain one     *)
(* item, whose fingerprint is in hand, owns none, and the stack restores   *)
(* the filter in which the chain began.                                    *)
(*                                                                         *)
(* The socket, for any strings, pieces, capacity, retries and deaths: all  *)
(* the bytes that the client sends have a place in one long sequence,      *)
(* where string m starts after start[m] bytes and recvBytes is the number  *)
(* of bytes that the server has read.  What is in the stream is the part   *)
(* of the sequence from there on, until the server has received an empty   *)
(* string.                                                                 *)
(***************************************************************************)
EXTENDS Cuckoo, CommSocket, FiniteSetTheorems, SequenceTheorems, TLAPS

(***************************************************************************)
(* The cuckoo filter.                                                      *)
(***************************************************************************)
Nonzero(S) == {x \in S : fp[x] # 0}

\* own assigns the items of S the full entries of filter t.
Owns(own, S, t) ==
    /\ \A x, y \in Nonzero(S) : own[x] = own[y] => x = y
    /\ \A x \in Nonzero(S) : t[own[x]] = fp[x] /\ BucketOf(own[x]) \in Pair(x)
    /\ \A s \in Slots : t[s] # 0 => \E x \in Nonzero(S) : own[x] = s
Owned(S, t) == \E own \in [Nonzero(S) -> Slots] : Owns(own, S, t)

InHand(h) ==
    /\ fp[h] = hand /\ bucket \in Pair(h)
    /\ Owned((stored \cup {item}) \ {h}, table)

\* The stack, taken from the top, turns filter t into b: of each slot the lowest
\* entry of the stack counts.
Undoes(t, st, b) ==
    \A s \in Slots :
        \/ \E i \in 1..Len(st) :
               /\ st[i].slot = s /\ st[i].f = b[s]
               /\ \A j \in 1..Len(st) : j < i => st[j].slot # s
        \/ /\ t[s] = b[s]
           /\ \A i \in 1..Len(st) : st[i].slot # s

IdleInv == phase = "idle" => Owned(stored, table)
ChainInv ==
    phase = "kicking" =>
        /\ item \notin stored /\ Suitable(item)
        /\ Full(table, bucket)
        /\ \E h \in stored \cup {item} : InHand(h)
BeforeInv == phase # "idle" => Owned(stored, before) /\ Undoes(table, stack, before)
SuitableInv == \A x \in stored : Suitable(x)

FilterInv == FilterTypeOK /\ IdleInv /\ ChainInv /\ BeforeInv /\ SuitableInv

USE CuckooAssumption

(***************************************************************************)
(* Ownership.                                                              *)
(***************************************************************************)

\* The two buckets of a suitable item lead to one another, and so an item with the
\* same fingerprint in one of them has the same pair.
LEMMA PairClosed ==
    ASSUME NEW x \in Item, Suitable(x), NEW b \in Pair(x)
    PROVE  /\ Pair(x) \subseteq Buckets
           /\ alternative[b][fp[x]] \in Pair(x)
           /\ Pair(x) = {b, alternative[b][fp[x]]}
<1>1. hash[x] \in Buckets /\ fp[x] \in Fingerprint
  OBVIOUS
<1>2. SecondBucket(x) \in Buckets
  BY <1>1 DEF SecondBucket
<1>3. CASE b = hash[x]
  BY <1>1, <1>2, <1>3 DEF Pair, SecondBucket
<1>4. CASE b = SecondBucket(x)
  BY <1>1, <1>2, <1>4 DEF Pair, Suitable
<1> QED
  BY <1>3, <1>4 DEF Pair

\* addToBucket: an item without an entry gets an empty one of one of its buckets.
LEMMA Place ==
    ASSUME NEW S \in SUBSET Item, NEW t \in Filter, NEW x \in S,
           Owned(S \ {x}, t),
           NEW s \in Slots, t[s] = 0, BucketOf(s) \in Pair(x)
    PROVE  Owned(S, [t EXCEPT ![s] = fp[x]])
<1> DEFINE u == [t EXCEPT ![s] = fp[x]]
           N == Nonzero(S \ {x})
<1>1. PICK own \in [N -> Slots] : Owns(own, S \ {x}, t)
  BY DEF Owned
<1>2. u \in [Slots -> Fingerprint] /\ t \in [Slots -> Fingerprint] /\ fp[x] \in Fingerprint
  BY DEF Filter
<1>3. CASE fp[x] = 0
  <2>1. u = t
    BY <1>2, <1>3
  <2>2. Nonzero(S) = N
    BY <1>3 DEF Nonzero
  <2>3. Owns(own, S, u)
    BY <1>1, <2>1, <2>2, Zenon DEF Owns
  <2> QED
    BY <2>2, <2>3 DEF Owned
<1>4. CASE fp[x] # 0
  <2> DEFINE new == [y \in Nonzero(S) |-> IF y = x THEN s ELSE own[y]]
  <2>1. Nonzero(S) = N \cup {x} /\ x \notin N
    BY <1>4 DEF Nonzero
  <2>2. \A y \in N : new[y] = own[y] /\ own[y] \in Slots /\ t[own[y]] # 0 /\ own[y] # s
    BY <1>1, <2>1 DEF Owns, Nonzero
  <2>3. new[x] = s /\ new \in [Nonzero(S) -> Slots]
    BY <2>1, <2>2
  <2>4. \A y, z \in Nonzero(S) : new[y] = new[z] => y = z
    BY <1>1, <2>1, <2>2, <2>3 DEF Owns
  <2>5. \A y \in Nonzero(S) : u[new[y]] = fp[y] /\ BucketOf(new[y]) \in Pair(y)
    BY <1>1, <1>2, <2>1, <2>2, <2>3 DEF Owns
  <2>6. \A r \in Slots : u[r] # 0 => \E y \in Nonzero(S) : new[y] = r
    <3> SUFFICES ASSUME NEW r \in Slots, u[r] # 0
                 PROVE  \E y \in Nonzero(S) : new[y] = r
      OBVIOUS
    <3>1. CASE r = s
      BY <2>1, <2>3, <3>1
    <3>2. CASE r # s
      BY <1>1, <1>2, <2>1, <2>2, <3>2 DEF Owns
    <3> QED
      BY <3>1, <3>2
  <2>7. Owns(new, S, u)
    BY <2>4, <2>5, <2>6, Zenon DEF Owns
  <2> QED
    BY <2>3, <2>7, Zenon DEF Owned
<1> QED
  BY <1>3, <1>4

\* A kick: the item h in hand takes the entry of its owner y, which then has none.
LEMMA Displace ==
    ASSUME NEW S \in SUBSET Item, NEW t \in Filter, NEW h \in S,
           Owned(S \ {h}, t),
           NEW s \in Slots, t[s] # 0, BucketOf(s) \in Pair(h)
    PROVE  \E y \in S : /\ fp[y] = t[s] /\ BucketOf(s) \in Pair(y)
                        /\ Owned(S \ {y}, [t EXCEPT ![s] = fp[h]])
<1> DEFINE u == [t EXCEPT ![s] = fp[h]]
           N == Nonzero(S \ {h})
<1>1. PICK own \in [N -> Slots] : Owns(own, S \ {h}, t)
  BY DEF Owned
<1>2. u \in [Slots -> Fingerprint] /\ t \in [Slots -> Fingerprint] /\ fp[h] \in Fingerprint
  BY DEF Filter
<1>3. PICK y \in N : own[y] = s
  BY <1>1 DEF Owns
<1>4. y \in S /\ y # h /\ fp[y] = t[s] /\ BucketOf(s) \in Pair(y) /\ fp[y] # 0
  BY <1>1, <1>3 DEF Owns, Nonzero
<1> DEFINE M == Nonzero(S \ {y})
           new == [x \in M |-> IF x = h THEN s ELSE own[x]]
<1>5. \A x \in M : x = h \/ (x \in N /\ x # y)
  BY DEF Nonzero
<1>6. \A x \in M : x # h => new[x] = own[x] /\ own[x] \in Slots /\ own[x] # s
  BY <1>1, <1>3, <1>5 DEF Owns
<1>7. (h \in M => new[h] = s) /\ new \in [M -> Slots]
  BY <1>6
<1>8. \A x, z \in M : new[x] = new[z] => x = z
  BY <1>1, <1>5, <1>6, <1>7 DEF Owns
<1>9. \A x \in M : u[new[x]] = fp[x] /\ BucketOf(new[x]) \in Pair(x)
  BY <1>1, <1>2, <1>5, <1>6, <1>7 DEF Owns
<1>10. \A r \in Slots : u[r] # 0 => \E x \in M : new[x] = r
  <2> SUFFICES ASSUME NEW r \in Slots, u[r] # 0
               PROVE  \E x \in M : new[x] = r
    OBVIOUS
  <2>1. CASE r = s
    <3>1. h \in M
      BY <1>2, <1>4, <2>1 DEF Nonzero
    <3> QED
      BY <1>7, <2>1, <3>1
  <2>2. CASE r # s
    <3>1. t[r] # 0
      BY <1>2, <2>2
    <3>2. PICK x \in N : own[x] = r
      BY <1>1, <3>1 DEF Owns
    <3>3. x \in M /\ x # h
      BY <1>3, <2>2, <3>2 DEF Nonzero
    <3> QED
      BY <1>6, <3>2, <3>3
  <2> QED
    BY <2>1, <2>2
<1>11. Owns(new, S \ {y}, u)
  BY <1>8, <1>9, <1>10, Zenon DEF Owns
<1>12. Owned(S \ {y}, u)
  BY <1>7, <1>11, Zenon DEF Owned
<1> QED
  BY <1>4, <1>12

\* erase: the entry that is emptied may be another item's, which then takes over the
\* entry of the one erased.
LEMMA Release ==
    ASSUME NEW S \in SUBSET Item, NEW t \in Filter, NEW x \in S,
           \A y \in S : Suitable(y),
           Owned(S, t),
           NEW s \in Slots, t[s] = fp[x], BucketOf(s) \in Pair(x)
    PROVE  Owned(S \ {x}, [t EXCEPT ![s] = 0])
<1> DEFINE u == [t EXCEPT ![s] = 0]
           M == Nonzero(S \ {x})
<1>1. PICK own \in [Nonzero(S) -> Slots] : Owns(own, S, t)
  BY DEF Owned
<1>2. u \in [Slots -> Fingerprint] /\ t \in [Slots -> Fingerprint]
  BY DEF Filter
<1>3. CASE fp[x] = 0
  <2>1. u = t /\ M = Nonzero(S)
    BY <1>2, <1>3 DEF Nonzero
  <2>2. Owns(own, S \ {x}, u)
    BY <1>1, <2>1, Zenon DEF Owns
  <2> QED
    BY <2>1, <2>2, Zenon DEF Owned
<1>4. CASE fp[x] # 0
  <2>1. PICK y \in Nonzero(S) : own[y] = s
    BY <1>1, <1>4 DEF Owns
  <2>2. y \in S /\ fp[y] = fp[x] /\ BucketOf(s) \in Pair(y)
    BY <1>1, <2>1 DEF Owns, Nonzero
  <2>3. Pair(y) = Pair(x)
    <3>1. x \in Item /\ y \in Item /\ Suitable(x) /\ Suitable(y)
      BY <2>2
    <3>2. /\ Pair(x) = {BucketOf(s), alternative[BucketOf(s)][fp[x]]}
          /\ Pair(y) = {BucketOf(s), alternative[BucketOf(s)][fp[y]]}
      BY <2>2, <3>1, PairClosed, Zenon
    <3> QED
      BY <2>2, <3>2
  <2>4. x \in Nonzero(S) /\ x \in S
    BY <1>4 DEF Nonzero
  <2> DEFINE new == [z \in M |-> IF z = y THEN own[x] ELSE own[z]]
  <2>5. M = Nonzero(S) \ {x}
    BY DEF Nonzero
  <2>6. new \in [M -> Slots]
    BY <2>4, <2>5
  <2>7. \A z \in M : new[z] # s
    BY <1>1, <2>1, <2>4, <2>5 DEF Owns
  <2>8. \A z, w \in M : new[z] = new[w] => z = w
    BY <1>1, <2>1, <2>4, <2>5 DEF Owns
  <2>9. \A z \in M : u[new[z]] = fp[z] /\ BucketOf(new[z]) \in Pair(z)
    <3> SUFFICES ASSUME NEW z \in M
                 PROVE  u[new[z]] = fp[z] /\ BucketOf(new[z]) \in Pair(z)
      OBVIOUS
    <3>1. u[new[z]] = t[new[z]]
      BY <1>2, <2>6, <2>7
    <3>2. CASE z = y
      BY <1>1, <2>2, <2>3, <2>4, <3>1, <3>2 DEF Owns
    <3>3. CASE z # y
      BY <1>1, <2>5, <3>1, <3>3 DEF Owns
    <3> QED
      BY <3>2, <3>3
  <2>10. \A r \in Slots : u[r] # 0 => \E z \in M : new[z] = r
    <3> SUFFICES ASSUME NEW r \in Slots, u[r] # 0
                 PROVE  \E z \in M : new[z] = r
      OBVIOUS
    <3>1. r # s /\ t[r] # 0
      BY <1>2
    <3>2. PICK z \in Nonzero(S) : own[z] = r
      BY <1>1, <3>1 DEF Owns
    <3>3. CASE z = x
      <4>1. y # x /\ y \in M
        BY <2>1, <2>5, <3>1, <3>2, <3>3
      <4> QED
        BY <3>2, <3>3, <4>1
    <3>4. CASE z # x
      BY <2>1, <2>5, <3>1, <3>2, <3>4
    <3> QED
      BY <3>3, <3>4
  <2>11. Owns(new, S \ {x}, u)
    BY <2>8, <2>9, <2>10, Zenon DEF Owns
  <2> QED
    BY <2>6, <2>11, Zenon DEF Owned
<1> QED
  BY <1>3, <1>4

(***************************************************************************)
(* The stack of original slots.                                            *)
(***************************************************************************)
Slot == [slot : Slots, f : Fingerprint]

\* A kick overwrites entry s and pushes what it held.
LEMMA Push ==
    ASSUME NEW t \in Filter, NEW st \in Seq(Slot), NEW b \in Filter,
           Undoes(t, st, b), NEW s \in Slots, NEW f \in Fingerprint
    PROVE  Undoes([t EXCEPT ![s] = f], Append(st, [slot |-> s, f |-> t[s]]), b)
<1> DEFINE u == [t EXCEPT ![s] = f]
           top == [slot |-> s, f |-> t[s]]
           new == Append(st, top)
<1>1. u \in [Slots -> Fingerprint] /\ t \in [Slots -> Fingerprint]
  BY DEF Filter
<1>2. /\ Len(st) \in Nat /\ Len(new) = Len(st) + 1
      /\ \A i \in 1..Len(st) : new[i] = st[i]
      /\ new[Len(st) + 1] = top
  BY DEF Slot
<1> SUFFICES ASSUME NEW r \in Slots
             PROVE  \/ \E i \in 1..Len(new) :
                           /\ new[i].slot = r /\ new[i].f = b[r]
                           /\ \A j \in 1..Len(new) : j < i => new[j].slot # r
                    \/ /\ u[r] = b[r]
                       /\ \A i \in 1..Len(new) : new[i].slot # r
  BY Zenon DEF Undoes
<1> HIDE DEF new, u
<1>3. CASE \E i \in 1..Len(st) :
               /\ st[i].slot = r /\ st[i].f = b[r]
               /\ \A j \in 1..Len(st) : j < i => st[j].slot # r
  <2>1. PICK i \in 1..Len(st) :
               /\ st[i].slot = r /\ st[i].f = b[r]
               /\ \A j \in 1..Len(st) : j < i => st[j].slot # r
    BY <1>3
  <2>2. i \in 1..Len(new) /\ new[i].slot = r /\ new[i].f = b[r]
    BY <1>2, <2>1
  <2>3. ASSUME NEW j \in 1..Len(new), j < i PROVE new[j].slot # r
    <3>1. j \in 1..Len(st)
      BY <1>2, <2>1, <2>3
    <3> QED
      BY <1>2, <2>1, <2>3, <3>1, Zenon
  <2> QED
    BY <2>2, <2>3
<1>4. CASE t[r] = b[r] /\ \A i \in 1..Len(st) : st[i].slot # r
  <2>1. CASE r = s
    <3>1. /\ Len(st) + 1 \in 1..Len(new)
          /\ new[Len(st) + 1].slot = r /\ new[Len(st) + 1].f = b[r]
      BY <1>2, <1>4, <2>1
    <3>2. ASSUME NEW j \in 1..Len(new), j < Len(st) + 1 PROVE new[j].slot # r
      <4>1. j \in 1..Len(st)
        BY <1>2, <3>2
      <4> QED
        BY <1>2, <1>4, <4>1, Zenon
    <3> QED
      BY <3>1, <3>2
  <2>2. CASE r # s
    <3>1. u[r] = b[r]
      BY <1>1, <1>4, <2>2 DEF u
    <3>2. ASSUME NEW i \in 1..Len(new) PROVE new[i].slot # r
      <4>1. i \in 1..Len(st) \/ i = Len(st) + 1
        BY <1>2, <3>2
      <4>2. CASE i \in 1..Len(st)
        BY <1>2, <1>4, <4>2, Zenon
      <4>3. CASE i = Len(st) + 1
        BY <1>2, <2>2, <4>3
      <4> QED
        BY <4>1, <4>2, <4>3
    <3> QED
      BY <3>1, <3>2
  <2> QED
    BY <2>1, <2>2
<1> QED
  BY <1>3, <1>4 DEF Undoes

\* _restore_filter writes the top of the stack back.
LEMMA Pop ==
    ASSUME NEW t \in Filter, NEW st \in Seq(Slot), st # <<>>, NEW b \in Filter,
           Undoes(t, st, b)
    PROVE  LET n == Len(st)
               top == st[n]
               rest == [i \in 1..(n - 1) |-> st[i]]
           IN  /\ top \in Slot
               /\ rest \in Seq(Slot) /\ Len(rest) = n - 1
               /\ Undoes([t EXCEPT ![top.slot] = top.f], rest, b)
<1> DEFINE n == Len(st)
           top == st[n]
           rest == [i \in 1..(n - 1) |-> st[i]]
           u == [t EXCEPT ![top.slot] = top.f]
<1>1. n \in Nat \ {0} /\ \A i \in 1..n : st[i] \in Slot
  OBVIOUS
<1>2. top \in Slot /\ top.slot \in Slots /\ top.f \in Fingerprint
  BY <1>1 DEF Slot
<1>3. rest \in Seq(Slot) /\ Len(rest) = n - 1 /\ \A i \in 1..(n - 1) : rest[i] = st[i]
  BY <1>1
<1>4. u \in [Slots -> Fingerprint] /\ t \in [Slots -> Fingerprint]
  BY <1>2 DEF Filter
<1>5. ASSUME NEW r \in Slots
      PROVE  \/ \E i \in 1..Len(rest) :
                    /\ rest[i].slot = r /\ rest[i].f = b[r]
                    /\ \A j \in 1..Len(rest) : j < i => rest[j].slot # r
             \/ /\ u[r] = b[r]
                /\ \A i \in 1..Len(rest) : rest[i].slot # r
  <2> HIDE DEF rest
  <2>1. CASE \E i \in 1..n :
                 /\ st[i].slot = r /\ st[i].f = b[r]
                 /\ \A j \in 1..n : j < i => st[j].slot # r
    <3>1. PICK i \in 1..n :
                 /\ st[i].slot = r /\ st[i].f = b[r]
                 /\ \A j \in 1..n : j < i => st[j].slot # r
      BY <2>1
    <3>2. CASE i = n
      <4>1. u[r] = b[r]
        BY <1>4, <3>1, <3>2
      <4>2. ASSUME NEW j \in 1..Len(rest) PROVE rest[j].slot # r
        <5>1. j \in 1..n - 1 /\ j \in 1..n /\ j < n
          BY <1>1, <1>3, <4>2
        <5> QED
          BY <1>3, <3>1, <3>2, <5>1, Zenon
      <4> QED
        BY <4>1, <4>2
    <3>3. CASE i # n
      <4>1. i \in 1..Len(rest) /\ rest[i].slot = r /\ rest[i].f = b[r]
        BY <1>1, <1>3, <3>1, <3>3
      <4>2. \A j \in 1..Len(rest) : j < i => rest[j].slot # r
        BY <1>1, <1>3, <3>1
      <4> QED
        BY <4>1, <4>2
    <3> QED
      BY <3>2, <3>3
  <2>2. CASE t[r] = b[r] /\ \A i \in 1..n : st[i].slot # r
    <3>1. u[r] = b[r]
      BY <1>1, <1>4, <2>2
    <3>2. \A i \in 1..Len(rest) : rest[i].slot # r
      BY <1>1, <1>3, <2>2
    <3> QED
      BY <3>1, <3>2
  <2> QED
    BY <2>1, <2>2 DEF Undoes
<1>6. Undoes(u, rest, b)
  BY <1>5, Zenon DEF Undoes
<1> QED
  BY <1>2, <1>3, <1>6

(***************************************************************************)
(* The invariant.                                                          *)
(***************************************************************************)
LEMMA InitInv == FilterInit => FilterInv
<1> SUFFICES ASSUME FilterInit PROVE FilterInv
  OBVIOUS
<1>1. 0 \in Buckets
  BY DEF Buckets
<1>2. FilterTypeOK
  BY <1>1 DEF FilterInit, FilterTypeOK, Filter, Phases
<1>3. Nonzero(stored) = {}
  BY DEF FilterInit, Nonzero
<1> DEFINE own == [x \in {} |-> 0]
<1>4. own \in [Nonzero(stored) -> Slots]
  BY <1>3
<1>5. Owns(own, stored, table)
  BY <1>3 DEF Owns, FilterInit
<1>6. Owned(stored, table)
  BY <1>4, <1>5 DEF Owned
<1> QED
  BY <1>2, <1>6 DEF FilterInv, IdleInv, ChainInv, BeforeInv, SuitableInv, FilterInit

\* What addToBucket does, for an item that owns no entry yet.
LEMMA AddInv ==
    ASSUME NEW S \in SUBSET Item, NEW t \in Filter, NEW x \in S, Suitable(x),
           NEW b \in Pair(x), Owned(S \ {x}, t), AddTo(t, b, fp[x])
    PROVE  table' \in Filter /\ Owned(S, table')
<1>1. PICK e \in Entries : t[<<b, e>>] = 0 /\ table' = [t EXCEPT ![<<b, e>>] = fp[x]]
  BY DEF AddTo, First
<1>2. b \in Buckets /\ fp[x] \in Fingerprint
  BY PairClosed
<1>3. <<b, e>> \in Slots /\ BucketOf(<<b, e>>) = b
  BY <1>2 DEF Slots, BucketOf
<1>4. table' \in Filter
  BY <1>1, <1>2 DEF Filter
<1>5. Owned(S, [t EXCEPT ![<<b, e>>] = fp[x]])
  BY <1>1, <1>3, Place
<1> QED
  BY <1>1, <1>4, <1>5

LEMMA InsertInv == ASSUME FilterInv, NEW x \in Item, Insert(x) PROVE FilterInv'
<1> USE DEF FilterInv
<1>1. /\ phase = "idle" /\ x \notin stored /\ Suitable(x)
      /\ stored \in SUBSET Item /\ table \in Filter /\ Owned(stored, table)
  BY DEF Insert, FilterTypeOK, IdleInv
<1>2. hash[x] \in Pair(x) /\ SecondBucket(x) \in Pair(x)
  BY DEF Pair
<1>3. CASE /\ \E b \in Pair(x) : AddTo(table, b, fp[x])
           /\ stored' = stored \cup {x}
           /\ UNCHANGED <<phase, chain>>
  <2>1. PICK b \in Pair(x) : AddTo(table, b, fp[x])
    BY <1>3
  <2>2. /\ stored \cup {x} \in SUBSET Item
        /\ (stored \cup {x}) \ {x} = stored
    BY <1>1
  <2>3. table' \in Filter /\ Owned(stored \cup {x}, table')
    BY <1>1, <2>1, <2>2, AddInv
  <2>4. FilterTypeOK'
    BY <1>3, <2>2, <2>3 DEF FilterTypeOK, chain
  <2>5. IdleInv' /\ ChainInv' /\ BeforeInv'
    BY <1>1, <1>3, <2>3 DEF IdleInv, ChainInv, BeforeInv
  <2>6. SuitableInv'
    BY <1>1, <1>3 DEF SuitableInv, Suitable, SecondBucket
  <2> QED
    BY <2>4, <2>5, <2>6
<1>4. CASE /\ \A b \in Pair(x) : Full(table, b)
           /\ phase' = "kicking"
           /\ item' = x /\ hand' = fp[x] /\ stack' = <<>> /\ before' = table
           /\ bucket' \in Pair(x)
           /\ UNCHANGED <<table, stored>>
  <2>1. bucket' \in Buckets /\ fp[x] \in Fingerprint
    BY <1>1, <1>4, PairClosed
  <2>2. FilterTypeOK'
    BY <1>4, <2>1 DEF FilterTypeOK, Phases
  <2>3. Undoes(table, <<>>, table)
    BY DEF Undoes
  <2>4. BeforeInv'
    BY <1>1, <1>4, <2>3 DEF BeforeInv
  <2>5. (stored \cup {x}) \ {x} = stored
    BY <1>1
  <2>6. ChainInv'
    <3>1. item' \notin stored' /\ Suitable(item)' /\ Full(table, bucket)'
      BY <1>1, <1>4 DEF Suitable, SecondBucket, Full, Holds
    <3>2. InHand(x)'
      BY <1>1, <1>4, <2>5 DEF InHand
    <3> QED
      BY <1>4, <3>1, <3>2 DEF ChainInv
  <2>7. IdleInv' /\ SuitableInv'
    BY <1>4 DEF IdleInv, SuitableInv, Suitable, SecondBucket
  <2> QED
    BY <2>2, <2>4, <2>6, <2>7
<1> QED
  BY <1>2, <1>3, <1>4 DEF Insert

LEMMA KickInv == ASSUME FilterInv, Kick PROVE FilterInv'
<1> DEFINE S == stored \cup {item}
<1>1. /\ phase = "kicking"
      /\ item \in Item /\ item \notin stored /\ Suitable(item)
      /\ stored \in SUBSET Item /\ S \in SUBSET Item
      /\ table \in Filter /\ before \in Filter /\ stack \in Seq(Slot)
      /\ hand \in Fingerprint /\ bucket \in Buckets
      /\ Full(table, bucket)
      /\ Undoes(table, stack, before) /\ Owned(stored, before)
      /\ \A x \in S : Suitable(x)
  BY DEF Kick, FilterInv, FilterTypeOK, ChainInv, BeforeInv, SuitableInv, Slot
<1>2. PICK h \in S : fp[h] = hand /\ bucket \in Pair(h) /\ Owned(S \ {h}, table)
  BY <1>1 DEF FilterInv, ChainInv, InHand
<1>3. PICK e \in Entries :
        LET s == <<bucket, e>>
            victim == table[s]
            other == OtherBucket(victim)
            placed == [table EXCEPT ![s] = hand]
        IN
        \/ /\ AddTo(placed, other, victim)
           /\ stored' = stored \cup {item}
           /\ phase' = "idle" /\ stack' = <<>>
           /\ UNCHANGED <<item, hand, bucket, before>>
        \/ /\ Full(placed, other)
           /\ table' = placed
           /\ stack' = Append(stack, [slot |-> s, f |-> Original(victim)])
           /\ hand' = victim /\ bucket' = other
           /\ UNCHANGED <<phase, item, stored, before>>
  BY DEF Kick
<1> DEFINE s == <<bucket, e>>
           victim == table[s]
           other == alternative[bucket][victim]
           placed == [table EXCEPT ![s] = hand]
<1>4. s \in Slots /\ BucketOf(s) = bucket
  BY <1>1 DEF Slots, BucketOf
<1>5. victim \in Fingerprint /\ victim # 0
  BY <1>1, <1>4 DEF Filter, Full, Holds
<1>6. placed \in Filter
  BY <1>1 DEF Filter
<1>7. PICK y \in S : fp[y] = victim /\ bucket \in Pair(y) /\ Owned(S \ {y}, placed)
  <2>1. BucketOf(s) \in Pair(h) /\ placed = [table EXCEPT ![s] = fp[h]]
    BY <1>2, <1>4
  <2>2. \E y \in S : /\ fp[y] = table[s] /\ BucketOf(s) \in Pair(y)
                     /\ Owned(S \ {y}, [table EXCEPT ![s] = fp[h]])
    <3> HIDE DEF s, S, placed
    <3> QED
      BY <1>1, <1>2, <1>4, <1>5, <2>1, Displace
  <2> QED
    BY <1>4, <2>1, <2>2, Zenon
<1>8. y \in Item /\ Suitable(y) /\ other \in Pair(y) /\ other \in Buckets
  BY <1>1, <1>7, PairClosed
<1>9. CASE /\ AddTo(placed, other, victim)
           /\ stored' = stored \cup {item}
           /\ phase' = "idle" /\ stack' = <<>>
           /\ UNCHANGED <<item, hand, bucket, before>>
  <2>1. table' \in Filter /\ Owned(S, table')
    <3> HIDE DEF placed, other, victim
    <3> QED
      BY <1>1, <1>6, <1>7, <1>8, <1>9, AddInv
  <2>2. FilterTypeOK'
    BY <1>1, <1>9, <2>1 DEF FilterTypeOK, Phases, FilterInv
  <2>3. IdleInv' /\ ChainInv' /\ BeforeInv'
    BY <1>9, <2>1 DEF IdleInv, ChainInv, BeforeInv
  <2>4. SuitableInv'
    BY <1>1, <1>9 DEF SuitableInv, Suitable, SecondBucket
  <2> QED
    BY <2>2, <2>3, <2>4 DEF FilterInv
<1>10. CASE /\ Full(placed, other)
            /\ table' = placed
            /\ stack' = Append(stack, [slot |-> s, f |-> victim])
            /\ hand' = victim /\ bucket' = other
            /\ UNCHANGED <<phase, item, stored, before>>
  <2>1. [slot |-> s, f |-> victim] \in Slot
    BY <1>4, <1>5 DEF Slot
  <2>2. stack' \in Seq(Slot) /\ Len(stack') = Len(stack) + 1
    <3> HIDE DEF s, victim
    <3> QED
      BY <1>1, <1>10, <2>1
  <2>3. Len(stack) < MaxKicks
    BY DEF Kick, KicksLeft
  <2>4. FilterTypeOK'
    <3>1. Len(stack') <= MaxKicks
      <4>1. Len(stack) \in Nat
        BY <1>1
      <4> QED
        BY <2>2, <2>3, <4>1
    <3> HIDE DEF placed, other, victim, s
    <3> QED
      BY <1>1, <1>5, <1>6, <1>8, <1>10, <2>2, <3>1 DEF FilterTypeOK, Phases, Slot
  <2>5. Undoes(table', stack', before')
    BY <1>1, <1>4, <1>10, Push
  <2>6. InHand(y)'
    BY <1>7, <1>8, <1>10 DEF InHand
  <2>7. Full(table, bucket)'
    BY <1>10
  <2>8. ChainInv' /\ BeforeInv' /\ IdleInv'
    <3> HIDE DEF placed, other, victim, s
    <3> QED
      BY <1>1, <1>7, <1>10, <2>5, <2>6, <2>7
      DEF ChainInv, BeforeInv, IdleInv, Suitable, SecondBucket
  <2>9. SuitableInv'
    BY <1>1, <1>10 DEF SuitableInv, Suitable, SecondBucket
  <2> QED
    BY <2>4, <2>8, <2>9 DEF FilterInv
<1> QED
  BY <1>3, <1>9, <1>10 DEF OtherBucket, Original

LEMMA GiveUpInv == ASSUME FilterInv, GiveUp PROVE FilterInv'
BY DEF GiveUp, FilterInv, FilterTypeOK, Phases, chain, IdleInv, ChainInv, BeforeInv, SuitableInv,
       Suitable, SecondBucket

LEMMA RestoreInv == ASSUME FilterInv, Restore PROVE FilterInv'
<1>1. /\ phase = "restoring" /\ stack # <<>>
      /\ table \in Filter /\ before \in Filter /\ stack \in Seq(Slot)
      /\ Undoes(table, stack, before) /\ Owned(stored, before)
      /\ UNCHANGED <<phase, item, hand, bucket, before, stored>>
  BY DEF Restore, FilterInv, FilterTypeOK, BeforeInv, Slot
<1> DEFINE top == stack[Len(stack)]
           rest == [i \in 1..(Len(stack) - 1) |-> stack[i]]
<1>2. /\ top \in Slot
      /\ rest \in Seq(Slot) /\ Len(rest) = Len(stack) - 1
      /\ Undoes([table EXCEPT ![top.slot] = top.f], rest, before)
  BY <1>1, Pop
<1>3. /\ table' = [table EXCEPT ![top.slot] = top.f]
      /\ stack' = rest
  <2>1. Len(stack) \in Nat
    BY <1>1
  <2>2. \A i \in 1..(Len(stack) - 1) : i < Len(stack)
    BY <2>1
  <2> QED
    BY <2>2 DEF Restore, Top
<1>4. table' \in Filter
  BY <1>1, <1>2, <1>3 DEF Filter, Slot
<1> HIDE DEF top, rest
<1>5. Len(stack') <= MaxKicks
  <2>1. Len(stack) \in Nat /\ Len(stack) <= MaxKicks
    BY <1>1 DEF FilterInv, FilterTypeOK
  <2>2. Len(stack') = Len(stack) - 1
    BY <1>2, <1>3
  <2> QED
    BY <2>1, <2>2
<1>6. FilterTypeOK'
  BY <1>1, <1>2, <1>3, <1>4, <1>5 DEF FilterTypeOK, Slot, FilterInv
<1>7. BeforeInv' /\ IdleInv' /\ ChainInv'
  BY <1>1, <1>2, <1>3 DEF BeforeInv, IdleInv, ChainInv
<1>8. SuitableInv'
  BY <1>1 DEF SuitableInv, Suitable, SecondBucket, FilterInv
<1> QED
  BY <1>6, <1>7, <1>8 DEF FilterInv

\* With nothing left to restore the filter is the one in which the chain began.
LEMMA Restored ==
    ASSUME FilterInv, phase = "restoring", stack = <<>>
    PROVE  table = before
<1>1. table \in [Slots -> Fingerprint] /\ before \in [Slots -> Fingerprint]
  BY DEF FilterInv, FilterTypeOK, Filter
<1>2. \A s \in Slots : table[s] = before[s]
  BY DEF FilterInv, BeforeInv, Undoes
<1> QED
  BY <1>1, <1>2

LEMMA FailInv == ASSUME FilterInv, Fail PROVE FilterInv'
<1>1. table = before /\ Owned(stored, before)
  BY Restored DEF Fail, FilterInv, BeforeInv
<1>2. IdleInv'
  BY <1>1 DEF Fail, IdleInv
<1> QED
  BY <1>2 DEF Fail, FilterInv, FilterTypeOK, Phases, chain, ChainInv, BeforeInv, SuitableInv,
              Suitable, SecondBucket

LEMMA EraseInv == ASSUME FilterInv, NEW x \in Item, Erase(x) PROVE FilterInv'
<1>1. /\ phase = "idle" /\ x \in stored
      /\ stored \in SUBSET Item /\ table \in Filter /\ Owned(stored, table)
      /\ \A y \in stored : Suitable(y)
      /\ stored' = stored \ {x}
      /\ UNCHANGED <<phase, chain>>
  BY DEF Erase, FilterInv, FilterTypeOK, IdleInv, SuitableInv
<1>2. PICK b \in Pair(x), e \in Entries :
         table[<<b, e>>] = fp[x] /\ table' = [table EXCEPT ![<<b, e>>] = 0]
  BY DEF Erase, First
<1>3. <<b, e>> \in Slots /\ BucketOf(<<b, e>>) = b
  BY <1>1, PairClosed DEF Slots, BucketOf
<1>4. Owned(stored \ {x}, [table EXCEPT ![<<b, e>>] = 0])
  BY <1>1, <1>2, <1>3, Release
<1>5. table' \in Filter
  BY <1>1, <1>2 DEF Filter
<1>6. FilterTypeOK'
  BY <1>1, <1>5 DEF FilterTypeOK, chain, FilterInv
<1>7. IdleInv' /\ ChainInv' /\ BeforeInv'
  BY <1>1, <1>2, <1>4 DEF IdleInv, ChainInv, BeforeInv
<1>8. SuitableInv'
  BY <1>1 DEF SuitableInv, Suitable, SecondBucket
<1> QED
  BY <1>6, <1>7, <1>8 DEF FilterInv

LEMMA NextInv == FilterInv /\ [FilterNext]_filterVars => FilterInv'
<1> SUFFICES ASSUME FilterInv, [FilterNext]_filterVars PROVE FilterInv'
  OBVIOUS
<1>1. ASSUME NEW x \in Item, Insert(x) PROVE FilterInv'
  BY <1>1, InsertInv
<1>2. ASSUME NEW x \in Item, Erase(x) PROVE FilterInv'
  BY <1>2, EraseInv
<1>3. CASE Kick
  BY <1>3, KickInv
<1>4. CASE GiveUp
  BY <1>4, GiveUpInv
<1>5. CASE Restore
  BY <1>5, RestoreInv
<1>6. CASE Fail
  BY <1>6, FailInv
<1>7. CASE UNCHANGED filterVars
  BY <1>7 DEF filterVars, chain, FilterInv, FilterTypeOK, IdleInv, ChainInv, BeforeInv, SuitableInv,
              InHand, Full, Holds, Suitable, SecondBucket
<1> QED
  BY <1>1, <1>2, <1>3, <1>4, <1>5, <1>6, <1>7 DEF FilterNext

(***************************************************************************)
(* Theorems.                                                               *)
(***************************************************************************)

\* Every variable keeps its type; in particular no chain is longer than maxKicks.
THEOREM FilterTypeCorrect == FilterSpec => []FilterTypeOK
<1>1. FilterInv => FilterTypeOK
  BY DEF FilterInv
<1> QED
  BY <1>1, InitInv, NextInv, PTL DEF FilterSpec

\* Whatever is inserted, evicted, restored and erased, every item that was inserted
\* and not erased is found, unless its fingerprint is 0 (Cuckoo::lookup).
THEOREM NothingIsLost == FilterSpec => []NoFalseNegatives
<1>1. FilterInv => NoFalseNegatives
  <2> SUFFICES ASSUME FilterInv, phase = "idle", NEW x \in stored, fp[x] # 0
               PROVE  Lookup(x)
    BY DEF NoFalseNegatives
  <2>1. PICK own \in [Nonzero(stored) -> Slots] : Owns(own, stored, table)
    BY DEF FilterInv, IdleInv, Owned
  <2>2. x \in Nonzero(stored)
    BY DEF Nonzero
  <2>3. /\ own[x] \in Slots /\ table[own[x]] = fp[x]
        /\ BucketOf(own[x]) \in Pair(x)
    BY <2>1, <2>2 DEF Owns
  <2>4. PICK b \in Buckets, e \in Entries : own[x] = <<b, e>>
    BY <2>3 DEF Slots
  <2>5. b \in Pair(x) /\ table[<<b, e>>] = fp[x]
    BY <2>3, <2>4 DEF BucketOf
  <2> QED
    BY <2>5 DEF Lookup, Holds
<1> QED
  BY <1>1, InitInv, NextInv, PTL DEF FilterSpec

\* An insertion that fails leaves every entry as it was (_restore_filter).
THEOREM FailedInsertRestores == FilterSpec => FailureRestores
<1>1. FilterInv /\ [FilterNext]_filterVars =>
        [(phase = "restoring" /\ phase' = "idle") => table' = before]_filterVars
  <2> SUFFICES ASSUME FilterInv, [FilterNext]_filterVars, phase = "restoring", phase' = "idle"
               PROVE  table' = before
    OBVIOUS
  <2>1. Fail
    BY DEF FilterNext, Insert, Erase, Kick, GiveUp, Restore, filterVars
  <2> QED
    BY <2>1, Restored DEF Fail
<1> QED
  BY <1>1, InitInv, NextInv, PTL DEF FilterSpec, FailureRestores
LEMMA SlotsFinite == IsFiniteSet(Slots)
<1>1. IsFiniteSet(Buckets) /\ IsFiniteSet(Entries)
  BY FS_Interval DEF Buckets, Entries
<1> QED
  BY <1>1, FS_Product DEF Slots

\* The entries that could be x's are exactly those owned by items like x.
LEMMA OwnersOfAlike ==
    ASSUME FilterTypeOK, SuitableInv, Owned(stored, table),
           NEW x \in Item, Suitable(x), fp[x] # 0
    PROVE  Cardinality({s \in Slots : BucketOf(s) \in Pair(x) /\ table[s] = fp[x]})
               = Cardinality(Alike(x))
<1> DEFINE A == Alike(x)
           T == {s \in Slots : BucketOf(s) \in Pair(x) /\ table[s] = fp[x]}
<1>1. PICK own \in [Nonzero(stored) -> Slots] : Owns(own, stored, table)
  BY DEF Owned
<1>2. A \subseteq Nonzero(stored)
  BY DEF Alike, Nonzero
<1>3. \A y \in A : own[y] \in T
  BY <1>1, <1>2, Zenon DEF Owns, Alike
<1>4. \A s \in T : \E y \in A : own[y] = s
  <2> SUFFICES ASSUME NEW s \in T PROVE \E y \in A : own[y] = s
    OBVIOUS
  <2>1. PICK y \in Nonzero(stored) : own[y] = s
    BY <1>1 DEF Owns
  <2>2. y \in stored /\ y \in Item /\ Suitable(y)
    BY DEF Nonzero, FilterTypeOK, SuitableInv
  <2>3. fp[y] = fp[x] /\ BucketOf(s) \in Pair(y) /\ BucketOf(s) \in Pair(x)
    BY <1>1, <2>1, Zenon DEF Owns
  <2>4. /\ Pair(x) = {BucketOf(s), alternative[BucketOf(s)][fp[x]]}
        /\ Pair(y) = {BucketOf(s), alternative[BucketOf(s)][fp[y]]}
    BY <2>2, <2>3, PairClosed, Zenon
  <2> QED
    BY <2>1, <2>2, <2>3, <2>4 DEF Alike
<1> DEFINE f == [y \in A |-> own[y]]
<1> HIDE DEF A, T
<1>5. \A y, z \in A : own[y] = own[z] => y = z
  BY <1>1, <1>2, Zenon DEF Owns
<1>6. f \in Injection(A, T) /\ f \in Surjection(A, T)
  BY <1>3, <1>4, <1>5 DEF Injection, IsInjective, Surjection
<1>7. IsFiniteSet(T)
  BY SlotsFinite, FS_Subset DEF T
<1>8. Cardinality(A) = Cardinality(T)
  BY <1>6, <1>7, FS_Injection
<1> QED
  BY <1>8 DEF A, T

\* The entries that hold an item's fingerprint in its buckets are as many as the stored
\* items to which they could belong, after any evictions and erasures (Cuckoo::insert,
\* _restore_filter and erase).
THEOREM EveryCopyHasItsItem == FilterSpec => []CopiesExact
<1>1. FilterInv => CopiesExact
  BY OwnersOfAlike DEF FilterInv, IdleInv, CopiesExact
<1> QED
  BY <1>1, InitInv, NextInv, PTL DEF FilterSpec

Hosts == {"client", "server"}
Byte == [kind : {"number", "char"}, of : Nat, at : Nat]

(***************************************************************************)
(* Sequences of bytes.                                                     *)
(***************************************************************************)
\* The first k bytes and the rest.
LEMMA Cut ==
    ASSUME NEW s \in Seq(Byte), NEW k \in 0..Len(s)
    PROVE  /\ SubSeq(s, 1, k) \in Seq(Byte) /\ Len(SubSeq(s, 1, k)) = k
           /\ \A i \in 1..k : SubSeq(s, 1, k)[i] = s[i]
           /\ SubSeq(s, k + 1, Len(s)) \in Seq(Byte) /\ Len(SubSeq(s, k + 1, Len(s))) = Len(s) - k
           /\ \A i \in 1..Len(s) - k : SubSeq(s, k + 1, Len(s))[i] = s[k + i]
<1>1. Len(s) \in Nat /\ k \in Nat /\ k + 1 \in Int /\ Len(s) \in Int /\ 1 \in Int /\ k \in Int
      /\ \A i \in 1..Len(s) : s[i] \in Byte
  OBVIOUS
<1>2. /\ SubSeq(s, 1, k) \in Seq(Byte) /\ Len(SubSeq(s, 1, k)) = IF 1 <= k THEN k - 1 + 1 ELSE 0
      /\ \A i \in 1..(k - 1 + 1) : SubSeq(s, 1, k)[i] = s[1 + i - 1]
  <2>1. \A i \in 1..k : s[i] \in Byte
    BY <1>1
  <2> QED
    BY <1>1, <2>1, SubSeqProperties
<1>3. /\ SubSeq(s, k + 1, Len(s)) \in Seq(Byte)
      /\ Len(SubSeq(s, k + 1, Len(s))) = IF k + 1 <= Len(s) THEN Len(s) - (k + 1) + 1 ELSE 0
      /\ \A i \in 1..(Len(s) - (k + 1) + 1) : SubSeq(s, k + 1, Len(s))[i] = s[(k + 1) + i - 1]
  <2>1. \A i \in (k + 1)..Len(s) : s[i] \in Byte
    BY <1>1
  <2> QED
    BY <1>1, <2>1, SubSeqProperties
<1> QED
  BY <1>1, <1>2, <1>3

\* A long tells its number; a string and the terminating zero are sequences of bytes.
LEMMA Encodings ==
    ASSUME NEW n \in Nat, NEW m \in Nat
    PROVE  /\ Long(n) \in Seq(Byte) /\ Len(Long(n)) = XmitLong
           /\ \A l \in Nat : Long(l) = Long(n) => l = n
           /\ Chars(m, n) \in Seq(Byte) /\ Len(Chars(m, n)) = n
           /\ Primitive(m, n) \in Seq(Byte)
           /\ Len(Primitive(m, n)) = IF n = 0 THEN 1 ELSE n
           /\ n # 0 => Primitive(m, n) = Chars(m, n)
           /\ Chars(m, 0) = <<>>
<1>1. XmitLong \in Nat \ {0}
  BY CommSocketAssumption
<1>2. Long(n) \in Seq(Byte) /\ Len(Long(n)) = XmitLong
  BY <1>1 DEF Long, Number, Byte
<1>3. ASSUME NEW l \in Nat, Long(l) = Long(n) PROVE l = n
  <2>1. Long(l)[1] = Number(l) /\ Long(n)[1] = Number(n)
    BY <1>1 DEF Long
  <2>2. Number(l).of = l /\ Number(n).of = n
    BY DEF Number
  <2> QED
    BY <1>3, <2>1, <2>2
<1>4. Chars(m, n) \in Seq(Byte) /\ Len(Chars(m, n)) = n
  BY DEF Chars, Byte
<1>5. Chars(m, 0) = <<>>
  BY DEF Chars
<1>6. <<Number(0)>> \in Seq(Byte) /\ Len(<<Number(0)>>) = 1
  BY DEF Number, Byte
<1> QED
  BY <1>2, <1>3, <1>4, <1>5, <1>6 DEF Primitive

\* The greatest of one number, and the smaller of two.
LEMMA Extremes ==
    ASSUME NEW x \in Nat, NEW y \in Nat
    PROVE  Max({x}) = x /\ Min({x, y}) \in {x, y} /\ Min({x, y}) <= x /\ Min({x, y}) <= y
<1>1. Max({x}) = x
  <2>1. \E z \in {x} : \A w \in {x} : z >= w
    OBVIOUS
  <2>2. Max({x}) \in {x}
    BY <2>1 DEF Max
  <2> QED
    BY <2>2
<1>2. Min({x, y}) \in {x, y} /\ \A w \in {x, y} : Min({x, y}) <= w
  <2>1. \E z \in {x, y} : \A w \in {x, y} : z <= w
    <3>1. CASE x <= y
      BY <3>1
    <3>2. CASE y <= x
      BY <3>2
    <3> QED
      BY <3>1, <3>2
  <2>2. \A w \in {x, y} : Min({x, y}) <= w
    BY <2>1 DEF Min
  <2> QED
    BY <2>1, <2>2 DEF Min
<1> QED
  BY <1>1, <1>2

(***************************************************************************)
(* The invariant.                                                          *)
(***************************************************************************)
\* TypeOK with the types of the sequences, and how many strings each side has been
\* through.
Shapes ==
    /\ TypeOK /\ DOMAIN pc = Hosts
    /\ stream \in Seq(Byte) /\ toSend \in Seq(Byte) /\ received \in Seq(Seq(Byte))
    /\ pc["client"] \in ClientSends => Len(sent) > 0
    /\ pc["client"] \in {"answer", "closed"} => Len(sent) = Strings
    /\ pc["client"] = "connect" =>
          /\ recv = 0 /\ xmit = 0 /\ stream = <<>>
          /\ pc["server"] \in {"begin", "accept", "quit"}
    /\ pc["server"] \in {"begin", "accept"} => received = <<>>
    /\ pc["server"] \in {"long", "chars"} => Len(received) < Strings
    /\ pc["server"] = "closed" => Len(received) = Strings

\* The bytes of a string, and the k-th of string m.
Size(n) == XmitLong + (IF n = 0 THEN 1 ELSE n)
ByteOf(m, k) ==
    IF k <= XmitLong THEN Long(sent[m])[k] ELSE Primitive(m, sent[m])[k - XmitLong]

\* All that the kernel has taken.
Out == recv + Len(stream)

\* String m comes after start[m] bytes.
Offsets(start) ==
    /\ start \in [1..Len(sent) + 1 -> Nat]
    /\ start[1] = 0
    /\ \A m \in 1..Len(sent) : start[m + 1] = start[m] + Size(sent[m])
    /\ \A m \in 1..Len(sent), n \in 1..Len(sent) + 1 : m < n => start[m + 1] <= start[n]

\* What the server has read, and is about to read.
ServerAt(start) ==
    LET r == Len(received) + 1 IN
    /\ pc["server"] # "astray" /\ r <= Len(sent) + 1
    /\ pc["server"] # "chars" => recv = start[r]
    /\ pc["server"] = "chars" =>
          r <= Len(sent) /\ recv = start[r] + XmitLong /\ need = sent[r]

\* What the client has given the kernel, and has still to give.
ClientAt(start) ==
    LET n == Len(sent) IN
    /\ Out <= start[n + 1]
    /\ pc["client"] \in {"connect", "ready", "answer", "closed"} => Out = start[n + 1]
    /\ pc["client"] = "long" => start[n] <= Out /\ Out + Len(toSend) = start[n] + XmitLong
    /\ pc["client"] = "chars" =>
          start[n] + XmitLong <= Out /\ Out + Len(toSend) = start[n + 1]
    /\ pc["client"] \in ClientSends =>
          \A j \in 1..Len(toSend) : toSend[j] = ByteOf(n, Out - start[n] + j)

\* The stream is the part of the sequence that is sent and not yet read.
Content(start) ==
    \A m \in 1..Len(sent) : \A k \in 1..Size(sent[m]) :
        start[m] + k - recv \in 1..Len(stream)
            => stream[start[m] + k - recv] = ByteOf(m, k)

Synced(start) == Offsets(start) /\ ServerAt(start) /\ ClientAt(start) /\ Content(start)

Link == \E start : Synced(start)

\* The server has received an empty string.
Astray == \E i \in 1..Len(received) : i <= Len(sent) /\ sent[i] = 0

\* Every string received is intact, or comes after an empty one.
Whole ==
    \A m \in 1..Len(received) :
        \/ \E i \in 1..m - 1 : i <= Len(sent) /\ sent[i] = 0
        \/ m <= Len(sent) /\ received[m] = Chars(m, sent[m])

Counted == ~fragmented => xmit = Out

IInv ==
    /\ Shapes
    /\ Counted
    /\ Whole
    /\ pc["server"] = "quit" \/ Astray \/ Link

(***************************************************************************)
(* What the steps have in common.                                          *)
(***************************************************************************)
\* A step of one process leaves the other where it is.
LEMMA Places ==
    ASSUME Shapes, NEW h \in Hosts, NEW label, Goto(h, label)
    PROVE  /\ DOMAIN pc' = Hosts /\ pc'[h] = label
           /\ \A g \in Hosts \ {h} : pc'[g] = pc[g]
BY DEF Shapes, Goto, Hosts

\* The bytes of a long are those of at most one length.
LEMMA Numbers ==
    ASSUME NEW s, NEW L, L = {n \in Lengths : s = Long(n)}, L # {}
    PROVE  \E n \in Lengths : s = Long(n) /\ Max(L) = n
<1>1. PICK n \in Lengths : s = Long(n)
  OBVIOUS
<1>2. Lengths \subseteq Nat
  BY CommSocketAssumption
<1>3. \A l \in L : l = n
  BY <1>1, <1>2, Encodings
<1>4. L = {n}
  BY <1>1, <1>3
<1>5. Max(L) = n
  BY <1>2, <1>4, Extremes
<1> QED
  BY <1>1, <1>5

\* A receive takes the first n bytes.
LEMMA Reads ==
    ASSUME Shapes, NEW n \in Nat, Read(n)
    PROVE  /\ n \in 0..Len(stream) /\ Len(stream) \in Nat
           /\ stream' \in Seq(Byte) /\ Len(stream') = Len(stream) - n
           /\ \A i \in 1..Len(stream) - n : stream'[i] = stream[n + i]
           /\ recv' = recv + n /\ Out' = Out
<1>1. stream \in Seq(Byte) /\ Len(stream) \in Nat /\ recv \in Nat
  BY DEF Shapes, TypeOK
<1>2. n \in 0..Len(stream)
  BY <1>1 DEF Read
<1>3. /\ stream' \in Seq(Byte) /\ Len(stream') = Len(stream) - n
      /\ \A i \in 1..Len(stream) - n : stream'[i] = stream[n + i]
  BY <1>1, <1>2, Cut DEF Read
<1>4. recv' = recv + n
  BY DEF Read
<1> QED
  BY <1>1, <1>2, <1>3, <1>4 DEF Out

\* A send appends the first k bytes of those that are left.
LEMMA Sends ==
    ASSUME Shapes, NEW k \in 1..Capacity, Send(k)
    PROVE  /\ k \in 1..Len(toSend) /\ Len(stream) \in Nat /\ Len(toSend) \in Nat
           /\ Len(stream) + k <= Capacity
           /\ stream' \in Seq(Byte) /\ Len(stream') = Len(stream) + k
           /\ \A i \in 1..Len(stream) : stream'[i] = stream[i]
           /\ \A i \in 1..k : stream'[Len(stream) + i] = toSend[i]
           /\ Out' = Out + k
<1>1. /\ stream \in Seq(Byte) /\ Len(stream) \in Nat /\ recv \in Nat
      /\ toSend \in Seq(Byte) /\ Len(toSend) \in Nat /\ Capacity \in Nat
      /\ Capacity - Len(stream) \in Nat
  BY CommSocketAssumption DEF Shapes, TypeOK
<1>2. k \in 1..Len(toSend) /\ Len(stream) + k <= Capacity
  <2>1. k \in 1..Min({Len(toSend), Capacity - Len(stream)})
    BY DEF Send
  <2>2. PICK x \in Nat : x = Capacity - Len(stream)
    BY <1>1
  <2>3. PICK l \in Nat : l = Len(toSend)
    BY <1>1
  <2>4. Min({l, x}) \in {l, x} /\ Min({l, x}) <= l /\ Min({l, x}) <= x
    BY Extremes, Zenon
  <2>5. PICK y \in Nat : y = Min({l, x})
    BY <2>4, Zenon
  <2>6. k \in 1..y /\ y <= l /\ y <= x
    BY <2>1, <2>2, <2>3, <2>4, <2>5, Zenon
  <2> QED
    BY <1>1, <2>2, <2>3, <2>6
<1>3. \A t : t = SubSeq(toSend, 1, k)
         => t \in Seq(Byte) /\ Len(t) = k /\ \A i \in 1..k : t[i] = toSend[i]
  BY <1>1, <1>2, Cut
<1>4. PICK t : t = SubSeq(toSend, 1, k)
  OBVIOUS
<1>5. stream' = stream \o t /\ recv' = recv
  BY <1>4 DEF Send
<1>6. /\ stream' \in Seq(Byte) /\ Len(stream') = Len(stream) + k
      /\ \A i \in 1..Len(stream) + k :
            stream'[i] = IF i <= Len(stream) THEN stream[i] ELSE t[i - Len(stream)]
  <2>1. t \in Seq(Byte) /\ Len(t) = k
    BY <1>3, <1>4
  <2>2. /\ stream \o t \in Seq(Byte) /\ Len(stream \o t) = Len(stream) + Len(t)
        /\ \A i \in 1..Len(stream) + Len(t) :
              (stream \o t)[i] = IF i <= Len(stream) THEN stream[i] ELSE t[i - Len(stream)]
    BY <1>1, <2>1, ConcatProperties
  <2> QED
    BY <1>5, <2>1, <2>2
<1>7. ASSUME NEW i \in 1..k
      PROVE  stream'[Len(stream) + i] = toSend[i]
  <2>1. PICK j \in Nat : j = Len(stream) + i
    BY <1>1
  <2>2. j \in 1..Len(stream) + k /\ ~ (j <= Len(stream)) /\ j - Len(stream) = i
    BY <1>1, <1>2, <2>1
  <2>3. stream'[j] = t[j - Len(stream)]
    BY <1>6, <2>2, Zenon
  <2>4. t[i] = toSend[i]
    BY <1>3, <1>4, Zenon
  <2> QED
    BY <2>1, <2>2, <2>3, <2>4, Zenon
<1> QED
  BY <1>1, <1>2, <1>5, <1>6, <1>7 DEF Out

(***************************************************************************)
(* Shapes.                                                                 *)
(***************************************************************************)
\* The initial shapes.
LEMMA ShapesStart == Init => Shapes
<1> SUFFICES ASSUME Init PROVE Shapes
  OBVIOUS
<1>1. MaxConnects \in Nat /\ Capacity \in Nat /\ Strings \in Nat \ {0}
  BY CommSocketAssumption
<1>2. <<>> \in Seq(Byte) /\ <<>> \in Seq(Seq(Byte)) /\ <<>> \in Seq(Lengths)
      /\ Len(<<>>) = 0
  OBVIOUS
<1>3. pc["client"] = "connect" /\ pc["server"] = "begin" /\ DOMAIN pc = Hosts
  <2>1. DOMAIN [client |-> "connect", server |-> "begin"] = {"client", "server"}
    OBVIOUS
  <2>2. pc = [client |-> "connect", server |-> "begin"]
    BY DEF Init
  <2>3. DOMAIN pc = Hosts
    BY <2>1, <2>2 DEF Hosts
  <2>4. pc["client"] = "connect" /\ pc["server"] = "begin"
    BY <2>2
  <2> QED
    BY <2>3, <2>4
<1>4. /\ count = 0 /\ sent = <<>> /\ toSend = <<>> /\ stream = <<>>
      /\ need = 0 /\ received = <<>> /\ xmit = 0 /\ recv = 0
  BY DEF Init
<1>5. TypeOK
  <2>1. answer \in BOOLEAN /\ fragmented \in BOOLEAN
    BY DEF Init
  <2>2. /\ count \in 0..MaxConnects + 1 /\ sent \in Seq(Lengths)
        /\ Len(sent) <= Strings /\ Len(stream) <= Capacity /\ Len(received) <= Strings
        /\ need \in Nat /\ xmit \in Nat /\ recv \in Nat
    BY <1>1, <1>2, <1>4
  <2> QED
    BY <1>3, <2>1, <2>2 DEF TypeOK
<1> QED
  BY <1>1, <1>2, <1>3, <1>4, <1>5 DEF Shapes, ClientSends

\* The steps of connecting and ending.
LEMMA ShapesLocal ==
    ASSUME Shapes,
           Listen \/ ConnectFails \/ Connect \/ ClientAnswer \/ \E h \in Hosts : Quit(h)
    PROVE  Shapes'
<1>1. MaxConnects \in Nat /\ count \in Nat
  BY CommSocketAssumption DEF Shapes, TypeOK
<1>2. CASE Listen
  BY <1>2, Places DEF Listen, buffers, Shapes, TypeOK, ClientSends, Ended, Hosts
<1>3. CASE ConnectFails
  <2>1. count' \in 0..MaxConnects + 1
    <3>1. count' = Min({count + 1, MaxConnects + 1})
      BY <1>3 DEF ConnectFails
    <3>2. PICK x \in Nat : x = count + 1
      BY <1>1
    <3>3. PICK y \in Nat : y = MaxConnects + 1
      BY <1>1
    <3>4. Min({x, y}) \in {x, y} /\ Min({x, y}) <= y
      BY Extremes, Zenon
    <3>5. count' \in {x, y} /\ count' <= y
      BY <3>1, <3>2, <3>3, <3>4, Zenon
    <3> QED
      BY <3>3, <3>5
  <2>2. PICK l \in {"quit", "connect"} : Goto("client", l)
    BY <1>3 DEF ConnectFails
  <2>3. pc'["client"] = l /\ pc'["server"] = pc["server"] /\ DOMAIN pc' = Hosts
        /\ pc["client"] = "connect"
    BY <1>3, <2>2, Places DEF Hosts, ConnectFails
  <2> QED
    BY <1>3, <2>1, <2>3 DEF ConnectFails, buffers, Shapes, TypeOK, ClientSends, Ended
<1>4. CASE Connect
  <2>1. Len(received) < Strings
    BY <1>4, CommSocketAssumption DEF Connect, Shapes
  <2>2. pc'["client"] = "ready" /\ pc'["server"] = "long" /\ DOMAIN pc' = Hosts
    <3>1. DOMAIN [client |-> "ready", server |-> "long"] = {"client", "server"}
      OBVIOUS
    <3>2. pc'["client"] = "ready" /\ pc'["server"] = "long"
      BY <1>4 DEF Connect
    <3> QED
      BY <1>4, <3>1, <3>2, Zenon DEF Connect, Hosts
  <2>3. xmit' = 0 /\ recv' = 0 /\ UNCHANGED <<count, buffers, fragmented>>
    BY <1>4 DEF Connect
  <2> QED
    BY <2>1, <2>2, <2>3 DEF buffers, Shapes, TypeOK, ClientSends, Ended
<1>5. CASE ClientAnswer
  <2>1. pc'["client"] = "closed" /\ pc'["server"] = pc["server"] /\ DOMAIN pc' = Hosts
    BY <1>5, Places DEF ClientAnswer, Hosts
  <2>2. Len(sent) = Strings
    BY <1>5 DEF ClientAnswer, Shapes
  <2> QED
    BY <1>5, <2>1, <2>2 DEF ClientAnswer, Shapes, TypeOK, ClientSends, Ended
<1>6. CASE \E h \in Hosts : Quit(h)
  <2>1. PICK h \in Hosts : Quit(h)
    BY <1>6
  <2>2. pc'[h] = "quit" /\ DOMAIN pc' = Hosts /\ \A g \in Hosts \ {h} : pc'[g] = pc[g]
    BY <2>1, Places DEF Quit
  <2> QED
    BY <2>1, <2>2 DEF Quit, buffers, Shapes, TypeOK, ClientSends, Ended, Hosts
<1> QED
  BY <1>2, <1>3, <1>4, <1>5, <1>6

\* The steps of the client that give bytes to the kernel.
LEMMA ShapesSend ==
    ASSUME Shapes, (\E n \in Lengths : SendString(n)) \/ (\E k \in 1..Capacity : Send(k))
    PROVE  Shapes'
<1>1. CASE \E n \in Lengths : SendString(n)
  <2>1. PICK n \in Lengths : SendString(n)
    BY <1>1
  <2>2. n \in Nat /\ Strings \in Nat
    BY CommSocketAssumption
  <2>3. Long(n) \in Seq(Byte)
    BY <2>2, Encodings
  <2>4. sent' \in Seq(Lengths) /\ Len(sent') = Len(sent) + 1 /\ Len(sent) \in Nat
        /\ Len(sent') <= Strings
    BY <2>1, <2>2 DEF SendString, Shapes, TypeOK
  <2>5. pc'["client"] = "long" /\ pc'["server"] = pc["server"] /\ DOMAIN pc' = Hosts
    BY <2>1, Places DEF SendString, Hosts
  <2> QED
    BY <2>1, <2>3, <2>4, <2>5 DEF SendString, Shapes, TypeOK, ClientSends, Ended
<1>2. CASE \E k \in 1..Capacity : Send(k)
  <2>1. PICK k \in 1..Capacity : Send(k)
    BY <1>2
  <2>2. /\ k \in 1..Len(toSend) /\ Len(toSend) \in Nat /\ toSend \in Seq(Byte)
        /\ stream' \in Seq(Byte) /\ Len(stream') <= Capacity
    BY <2>1, Sends DEF Shapes
  <2>3. Rest(toSend, k) \in Seq(Byte) /\ Len(Rest(toSend, k)) = Len(toSend) - k
    BY <2>2, Cut DEF Rest
  <2>4. xmit' \in Nat
    BY <2>1, <2>2, <2>3 DEF Send, Transmitted, Shapes, TypeOK
  <2>5. fragmented' \in BOOLEAN
    BY <2>1 DEF Send, Shapes, TypeOK
  <2>6. Len(sent) \in Nat /\ Len(sent) > 0 /\ sent \in Seq(Lengths)
    BY <2>1 DEF Send, Shapes, TypeOK
  <2>7. CASE k = Len(toSend)
    <3>1. Sent
      BY <2>1, <2>7 DEF Send
    <3>2. CASE pc["client"] = "long"
      <4>1. Last(sent) \in Lengths
        BY <2>6 DEF Last
      <4>2. toSend' \in Seq(Byte) /\ Goto("client", "chars")
        <5>1. Goto("client", "chars") /\ toSend' = Primitive(Len(sent), Last(sent))
          BY <3>1, <3>2, Zenon DEF Sent
        <5>2. Last(sent) \in Nat /\ Len(sent) \in Nat
          BY <2>6, <4>1, CommSocketAssumption
        <5>3. Primitive(Len(sent), Last(sent)) \in Seq(Byte)
          BY <5>2, Encodings, Zenon
        <5> QED
          BY <5>1, <5>3, Zenon
      <4>3. pc'["client"] = "chars" /\ pc'["server"] = pc["server"] /\ DOMAIN pc' = Hosts
        BY <4>2, Places DEF Hosts
      <4> QED
        BY <2>1, <2>2, <2>4, <2>5, <2>6, <4>2, <4>3
           DEF Send, Shapes, TypeOK, ClientSends, Ended
    <3>3. CASE pc["client"] = "chars"
      <4>1. PICK l \in {"answer", "ready"} :
               Goto("client", l) /\ (l = "answer" => Len(sent) = Strings)
        BY <3>1, <3>3 DEF Sent
      <4>2. toSend' = <<>>
        BY <3>1, <3>3 DEF Sent
      <4>3. pc'["client"] = l /\ pc'["server"] = pc["server"] /\ DOMAIN pc' = Hosts
        BY <4>1, Places DEF Hosts
      <4>4. UNCHANGED <<count, recv, sent, answer, need, received>>
        BY <2>1 DEF Send
      <4> QED
        BY <2>2, <2>4, <2>5, <2>6, <4>1, <4>2, <4>3, <4>4
           DEF Shapes, TypeOK, ClientSends, Ended
    <3> QED
      BY <2>1, <3>2, <3>3 DEF Send, ClientSends
  <2>8. CASE k # Len(toSend)
    <3>1. toSend' \in Seq(Byte) /\ pc' = pc
      BY <2>1, <2>3, <2>8 DEF Send
    <3> QED
      BY <2>1, <2>2, <2>4, <2>5, <2>6, <3>1 DEF Send, Shapes, TypeOK, ClientSends, Ended
  <2> QED
    BY <2>7, <2>8
<1> QED
  BY <1>1, <1>2

\* The receives of the server.
LEMMA ShapesReceive ==
    ASSUME Shapes, ServerLong \/ ServerChars \/ ServerAstray
    PROVE  Shapes'
<1>1. /\ XmitLong \in Nat /\ need \in Nat /\ Len(stream) \in Nat /\ Strings \in Nat
      /\ stream \in Seq(Byte) /\ Len(received) \in Nat
  BY CommSocketAssumption DEF Shapes, TypeOK
<1>2. \A n \in Nat : Read(n) => /\ stream' \in Seq(Byte) /\ Len(stream') <= Capacity
                                /\ recv' \in Nat
  <2> SUFFICES ASSUME NEW n \in Nat, Read(n)
               PROVE  stream' \in Seq(Byte) /\ Len(stream') <= Capacity /\ recv' \in Nat
    OBVIOUS
  <2>1. /\ n \in 0..Len(stream) /\ stream' \in Seq(Byte)
        /\ Len(stream') = Len(stream) - n /\ recv' = recv + n
    BY Reads, Zenon
  <2>2. Len(stream) <= Capacity /\ Capacity \in Nat /\ recv \in Nat
    BY CommSocketAssumption DEF Shapes, TypeOK
  <2> QED
    BY <1>1, <2>1, <2>2
<1>3. CASE ServerLong
  <2>1. PICK L : L = {n \in Lengths : SubSeq(stream, 1, XmitLong) = Long(n)}
    OBVIOUS
  <2>2. /\ pc["server"] = "long" /\ Read(XmitLong)
        /\ Goto("server", IF L # {} THEN "chars" ELSE "astray")
        /\ need' = IF L # {} THEN Max(L) ELSE 0
        /\ UNCHANGED <<count, sent, toSend, answer, received, xmit, fragmented>>
    BY <1>3, <2>1 DEF ServerLong
  <2>3. need' \in Nat
    <3>1. L # {} => Max(L) \in Lengths
      <4>1. PICK s : s = SubSeq(stream, 1, XmitLong)
        OBVIOUS
      <4>2. L = {n \in Lengths : s = Long(n)}
        BY <2>1, <4>1, Zenon
      <4>3. L # {} => \E n \in Lengths : s = Long(n) /\ Max(L) = n
        BY <4>2, Numbers, Zenon
      <4> QED
        BY <4>3, Zenon
    <3> QED
      BY <2>2, <3>1, CommSocketAssumption
  <2>4. /\ pc'["server"] \in {"chars", "astray"} /\ pc'["client"] = pc["client"]
        /\ DOMAIN pc' = Hosts
    BY <2>2, Places DEF Hosts
  <2>5. pc["client"] # "connect"
    BY <2>2 DEF Shapes
  <2> QED
    BY <1>1, <1>2, <2>2, <2>3, <2>4, <2>5 DEF Shapes, TypeOK, ClientSends, Ended
<1>4. CASE ServerChars
  <2>1. SubSeq(stream, 1, need) \in Seq(Byte)
    BY <1>1, <1>4, Cut DEF ServerChars, Read
  <2>2. received' \in Seq(Seq(Byte)) /\ Len(received') = Len(received) + 1
    BY <1>4, <2>1 DEF ServerChars, Shapes
  <2>3. PICK l \in {"closed", "long"} :
           Goto("server", l) /\ (l = "closed" <=> Len(received) + 1 = Strings)
    BY <1>4 DEF ServerChars
  <2>4. pc'["server"] = l /\ pc'["client"] = pc["client"] /\ DOMAIN pc' = Hosts
    BY <2>3, Places DEF Hosts
  <2>5. pc["client"] # "connect" /\ Len(received) < Strings
    BY <1>4 DEF Shapes, ServerChars
  <2>6. answer' \in BOOLEAN
    BY <1>4 DEF ServerChars
  <2>7. stream' \in Seq(Byte) /\ Len(stream') <= Capacity /\ recv' \in Nat
    BY <1>1, <1>2, <1>4 DEF ServerChars
  <2> QED
    BY <1>1, <1>4, <2>2, <2>3, <2>4, <2>5, <2>6, <2>7
       DEF ServerChars, Shapes, TypeOK, ClientSends, Ended
<1>5. CASE ServerAstray
  <2>1. pc["client"] # "connect"
    BY <1>5 DEF Shapes, ServerAstray
  <2>2. stream' \in Seq(Byte) /\ Len(stream') <= Capacity /\ recv' \in Nat
    BY <1>1, <1>2, <1>5 DEF ServerAstray
  <2> QED
    BY <1>5, <2>1, <2>2 DEF ServerAstray, Shapes, TypeOK, ClientSends, Ended
<1> QED
  BY <1>3, <1>4, <1>5

\* The steps are those of connecting and ending, those that send and those that receive.
LEMMA Steps ==
    ASSUME Next
    PROVE  \/ Listen \/ ConnectFails \/ Connect \/ ClientAnswer \/ \E h \in Hosts : Quit(h)
           \/ (\E n \in Lengths : SendString(n)) \/ (\E k \in 1..Capacity : Send(k))
           \/ ServerLong \/ ServerChars \/ ServerAstray
BY DEF Next, Client, Server, Crash, ClientAlone, ServerAlone, Hosts

\* The shapes stay.
LEMMA ShapesStay ==
    ASSUME Shapes, [Next]_vars
    PROVE  Shapes'
<1>1. CASE UNCHANGED vars
  BY <1>1 DEF vars, buffers, Shapes, TypeOK
<1>2. CASE Next
  BY <1>2, Steps, ShapesLocal, ShapesSend, ShapesReceive
<1> QED
  BY <1>1, <1>2

(***************************************************************************)
(* The counters.                                                           *)
(***************************************************************************)
\* What the client has counted is what the kernel has taken, while it takes all it is
\* given.
LEMMA CountedStays ==
    ASSUME Shapes, Counted, Next
    PROVE  Counted'
<1>1. CASE Listen \/ ConnectFails \/ ClientAnswer \/ \E h \in Hosts : Quit(h)
  BY <1>1 DEF Listen, ConnectFails, ClientAnswer, Quit, buffers, Counted, Out
<1>2. CASE Connect
  <2>1. stream' = <<>> /\ xmit' = 0 /\ recv' = 0
    BY <1>2 DEF Connect, Shapes, buffers
  <2> QED
    BY <2>1 DEF Counted, Out
<1>3. CASE \E n \in Lengths : SendString(n)
  BY <1>3 DEF SendString, Counted, Out
<1>4. CASE \E k \in 1..Capacity : Send(k)
  <2>1. PICK k \in 1..Capacity : Send(k)
    BY <1>4
  <2>2. CASE fragmented'
    BY <2>2 DEF Counted
  <2>3. CASE ~fragmented'
    <3>1. k \in 1..Len(toSend) /\ Out' = Out + k
      BY <2>1, Sends
    <3>2. ~fragmented /\ ~(k < Len(toSend)) /\ xmit' = xmit + Transmitted(toSend, k)
      BY <2>1, <2>3 DEF Send
    <3>3. k = Len(toSend)
      BY <3>1, <3>2
    <3>4. xmit' = xmit + k
      BY <3>2, <3>3 DEF Transmitted
    <3> QED
      BY <3>1, <3>2, <3>4 DEF Counted
  <2> QED
    BY <2>2, <2>3
<1>5. CASE ServerLong \/ ServerChars \/ ServerAstray
  <2>1. XmitLong \in Nat /\ need \in Nat /\ Len(stream) \in Nat
    BY CommSocketAssumption DEF Shapes, TypeOK
  <2>2. Out' = Out
    BY <1>5, <2>1, Reads DEF ServerLong, ServerChars, ServerAstray
  <2>3. UNCHANGED <<xmit, fragmented>>
    BY <1>5 DEF ServerLong, ServerChars, ServerAstray
  <2> QED
    BY <2>2, <2>3 DEF Counted
<1> QED
  BY <1>1, <1>2, <1>3, <1>4, <1>5, Steps

(***************************************************************************)
(* The sequence of all bytes.                                              *)
(***************************************************************************)
\* The strings in the sequence.
LEMMA OffsetTypes ==
    ASSUME Shapes, NEW start, Offsets(start)
    PROVE  /\ Len(sent) \in Nat /\ XmitLong \in Nat \ {0}
           /\ \A m \in 1..Len(sent) + 1 : start[m] \in Nat
           /\ \A m \in 1..Len(sent) :
                 /\ sent[m] \in Lengths /\ sent[m] \in Nat
                 /\ Size(sent[m]) \in Nat /\ Size(sent[m]) > XmitLong
                 /\ start[m + 1] = start[m] + Size(sent[m])
<1>1. /\ sent \in Seq(Lengths) /\ Len(sent) \in Nat /\ Lengths \subseteq Nat
      /\ XmitLong \in Nat \ {0}
  BY CommSocketAssumption DEF Shapes, TypeOK
<1>2. \A m \in 1..Len(sent) : sent[m] \in Lengths /\ sent[m] \in Nat
  BY <1>1, ElementOfSeq
<1>3. \A m \in 1..Len(sent) : Size(sent[m]) \in Nat /\ Size(sent[m]) > XmitLong
  BY <1>1, <1>2 DEF Size
<1> QED
  BY <1>1, <1>2, <1>3 DEF Offsets

\* The bytes of a string are those of its long and then its characters.
LEMMA BytesOf ==
    ASSUME Shapes, NEW m \in 1..Len(sent)
    PROVE  /\ \A k \in 1..XmitLong : ByteOf(m, k) = Long(sent[m])[k]
           /\ \A k \in Nat : k > 0 => ByteOf(m, XmitLong + k) = Primitive(m, sent[m])[k]
           /\ Size(sent[m]) = XmitLong + Len(Primitive(m, sent[m]))
<1>1. XmitLong \in Nat \ {0} /\ sent[m] \in Nat /\ m \in Nat
  <2>1. sent[m] \in Lengths /\ Len(sent) \in Nat
    BY ElementOfSeq DEF Shapes, TypeOK
  <2>2. XmitLong \in Nat \ {0} /\ sent[m] \in Nat
    BY <2>1, CommSocketAssumption
  <2>3. m \in Nat
    BY <2>1
  <2> QED
    BY <2>2, <2>3
<1>2. \A k \in 1..XmitLong : ByteOf(m, k) = Long(sent[m])[k]
  BY <1>1 DEF ByteOf
<1>3. ASSUME NEW k \in Nat, k > 0 PROVE ByteOf(m, XmitLong + k) = Primitive(m, sent[m])[k]
  <2>1. ~(XmitLong + k <= XmitLong) /\ (XmitLong + k) - XmitLong = k
    BY <1>1, <1>3
  <2> QED
    BY <2>1 DEF ByteOf
<1>4. Size(sent[m]) = XmitLong + Len(Primitive(m, sent[m]))
  BY <1>1, Encodings DEF Size
<1> QED
  BY <1>2, <1>3, <1>4

\* Steps that move no byte.
LEMMA SyncedFrame ==
    ASSUME NEW start, Synced(start), UNCHANGED <<sent, toSend, stream, received, need, recv>>,
           \/ pc'["server"] = pc["server"]
           \/ /\ pc["server"] \in {"begin", "accept"} /\ pc'["server"] \in {"accept", "long"},
           \/ pc'["client"] \in {pc["client"], "quit"}
           \/ /\ pc["client"] \in {"connect", "answer"} /\ pc'["client"] \in {"ready", "closed"}
    PROVE  Synced(start)'
<1>1. Offsets(start)'
  BY DEF Synced, Offsets
<1>2. ServerAt(start)'
  BY DEF Synced, ServerAt
<1>3. Content(start)'
  BY DEF Synced, Content, ByteOf
<1>4. ClientAt(start)'
  BY DEF Synced, ClientAt, ClientSends, Out, ByteOf
<1> QED
  BY <1>1, <1>2, <1>3, <1>4 DEF Synced

\* A receive moves the window on the sequence.
LEMMA ContentRead ==
    ASSUME Shapes, NEW start, Synced(start), NEW n \in Nat, Read(n), sent' = sent
    PROVE  Content(start)'
<1>1. /\ n \in 0..Len(stream) /\ Len(stream) \in Nat /\ Len(stream') = Len(stream) - n
      /\ \A i \in 1..Len(stream) - n : stream'[i] = stream[n + i]
      /\ recv' = recv + n /\ recv \in Nat
  BY Reads DEF Shapes, TypeOK
<1> SUFFICES ASSUME NEW m \in 1..Len(sent), NEW k \in 1..Size(sent[m]),
                    start[m] + k - recv' \in 1..Len(stream')
             PROVE  stream'[start[m] + k - recv'] = ByteOf(m, k)
  BY DEF Content, ByteOf
<1>2. start[m] \in Nat /\ k \in Nat
  BY OffsetTypes DEF Synced
<1>3. PICK p \in Int : p = start[m] + k - recv
  BY <1>1, <1>2
<1>4. start[m] + k - recv' = p - n /\ p - n \in 1..Len(stream) - n
  <2>1. PICK b \in Nat : b = start[m]
    BY <1>2
  <2>2. p = b + k - recv /\ recv' = recv + n
    BY <1>1, <1>3, <2>1, Zenon
  <2>3. b + k - recv' = p - n
    <3>1. PICK v \in Int, w \in Int : v = recv /\ w = recv'
      BY <1>1
    <3>2. p = b + k - v /\ w = v + n /\ k \in Int
      BY <1>2, <2>2, <3>1
    <3>3. b + k - w = p - n
      BY <2>1, <3>1, <3>2
    <3> QED
      BY <3>1, <3>3, Zenon
  <2>4. start[m] + k - recv' = p - n
    BY <2>1, <2>3, Zenon
  <2>5. p - n \in 1..Len(stream')
    BY <2>4, Zenon
  <2> QED
    BY <1>1, <2>4, <2>5, Zenon
<1>5. stream'[p - n] = stream[p] /\ p \in 1..Len(stream)
  BY <1>1, <1>4
<1>6. stream[p] = ByteOf(m, k)
  BY <1>3, <1>5 DEF Synced, Content
<1> QED
  BY <1>4, <1>5, <1>6

\* A string that the client sends has its place after all others.
LEMMA SyncedString ==
    ASSUME Shapes, NEW start, Synced(start), NEW n \in Lengths, SendString(n)
    PROVE  Link'
<1>0. PICK N \in Nat : N = Len(sent)
  BY DEF Shapes, TypeOK
<1> DEFINE new == [m \in 1..N + 2 |-> IF m <= N + 1 THEN start[m] ELSE start[N + 1] + Size(n)]
<1>1. /\ N \in Nat /\ XmitLong \in Nat \ {0} /\ n \in Nat /\ Size(n) \in Nat /\ Size(n) > XmitLong
      /\ \A m \in 1..N + 1 : start[m] \in Nat
      /\ \A m \in 1..N : Size(sent[m]) \in Nat /\ start[m + 1] = start[m] + Size(sent[m])
  BY <1>0, OffsetTypes, CommSocketAssumption DEF Synced, Size
<1>2. /\ sent' = Append(sent, n) /\ toSend' = Long(n)
      /\ UNCHANGED <<count, stream, answer, need, received, xmit, recv, fragmented>>
      /\ pc["client"] = "ready" /\ pc'["client"] = "long" /\ pc'["server"] = pc["server"]
  BY Places DEF SendString, Hosts
<1>3. /\ Len(sent') = N + 1 /\ sent'[N + 1] = n
      /\ \A m \in 1..N : sent'[m] = sent[m]
  BY <1>0, <1>2 DEF Shapes, TypeOK
<1>4. /\ new \in [1..N + 2 -> Nat] /\ \A m \in 1..N + 1 : new[m] = start[m]
      /\ new[N + 2] = start[N + 1] + Size(n)
  BY <1>1
<1>5. PICK next : /\ next \in [1..N + 2 -> Nat] /\ \A m \in 1..N + 1 : next[m] = start[m]
                  /\ next[N + 2] = start[N + 1] + Size(n)
  BY <1>4
<1> HIDE DEF new
<1>6. Offsets(next)'
  <2>1. /\ start[1] = 0
        /\ \A m \in 1..N, l \in 1..N + 1 : m < l => start[m + 1] <= start[l]
    BY <1>0 DEF Synced, Offsets
  <2>2. next \in [1..Len(sent') + 1 -> Nat] /\ next[1] = 0
    BY <1>1, <1>3, <1>5, <2>1
  <2>3. ASSUME NEW m \in 1..N + 1 PROVE next[m + 1] = next[m] + Size(sent'[m])
    <3>1. CASE m = N + 1
      BY <1>1, <1>3, <1>5, <3>1
    <3>2. CASE m # N + 1
      <4>1. m \in 1..N /\ m + 1 \in 1..N + 1
        BY <1>1, <3>2
      <4> QED
        BY <1>1, <1>3, <1>5, <4>1
    <3> QED
      BY <3>1, <3>2
  <2>4. ASSUME NEW m \in 1..N + 1, NEW l \in 1..N + 2, m < l PROVE next[m + 1] <= next[l]
    <3>1. CASE l <= N + 1
      <4>1. m \in 1..N /\ m + 1 \in 1..N + 1 /\ l \in 1..N + 1
        BY <1>1, <2>4, <3>1
      <4> QED
        BY <1>5, <2>1, <2>4, <4>1
    <3>2. CASE l = N + 2 /\ m = N + 1
      BY <1>1, <1>5, <3>2
    <3>3. CASE l = N + 2 /\ m # N + 1
      <4>1. m \in 1..N /\ m + 1 \in 1..N + 1 /\ N + 1 \in 1..N + 1 /\ m < N + 1
        BY <1>1, <3>3
      <4>2. start[m + 1] <= start[N + 1] /\ start[m + 1] \in Nat /\ start[N + 1] \in Nat
        BY <1>1, <2>1, <4>1
      <4>3. next[m + 1] = start[m + 1] /\ next[l] = start[N + 1] + Size(n)
        BY <1>5, <3>3, <4>1
      <4> QED
        BY <1>1, <4>2, <4>3
    <3> QED
      BY <1>1, <3>1, <3>2, <3>3
  <2>5. \A m \in 1..Len(sent') : next[m + 1] = next[m] + Size(sent'[m])
    BY <1>3, <2>3
  <2>6. \A m \in 1..Len(sent'), l \in 1..Len(sent') + 1 : m < l => next[m + 1] <= next[l]
    BY <1>1, <1>3, <2>4
  <2> QED
    BY <2>2, <2>5, <2>6 DEF Offsets
<1>7. ServerAt(next)'
  <2>1. Len(received) + 1 \in 1..N + 1 /\ Len(received) \in Nat
    BY <1>0, <1>1 DEF Synced, ServerAt, Shapes
  <2>2. next[Len(received) + 1] = start[Len(received) + 1]
    BY <1>5, <2>1
  <2>3. Len(received) + 1 <= N => sent'[Len(received) + 1] = sent[Len(received) + 1]
    BY <1>3, <2>1
  <2> QED
    BY <1>0, <1>1, <1>2, <1>3, <2>1, <2>2, <2>3 DEF Synced, ServerAt
<1>8. ClientAt(next)'
  <2>1. Out = start[N + 1] /\ Out' = Out /\ Out \in Nat
    BY <1>0, <1>1, <1>2 DEF Synced, ClientAt, Out
  <2>2. next[N + 1] = Out /\ next[N + 2] = Out + Size(n)
    BY <1>1, <1>5, <2>1
  <2>3. Len(toSend') = XmitLong
    BY <1>1, <1>2, Encodings
  <2>4. \A j \in 1..XmitLong : Long(n)[j] = ByteOf(N + 1, j)'
    BY <1>1, <1>3 DEF ByteOf
  <2>5. \A j \in 1..XmitLong : Out - next[N + 1] + j = j
    BY <1>1, <2>1, <2>2
  <2>6. \A j \in 1..Len(toSend') : toSend'[j] = ByteOf(N + 1, Out - next[N + 1] + j)'
    BY <1>2, <2>1, <2>3, <2>4, <2>5
  <2>7. Out' <= next[Len(sent') + 1] /\ next[Len(sent')] <= Out'
        /\ Out' + Len(toSend') = next[Len(sent')] + XmitLong
    BY <1>1, <1>3, <2>1, <2>2, <2>3
  <2> QED
    BY <1>2, <1>3, <2>6, <2>7 DEF ClientAt
<1>9. Content(next)'
  <2>1. recv \in Nat /\ Len(stream) \in Nat
    BY DEF Shapes, TypeOK
  <2> SUFFICES ASSUME NEW m \in 1..N + 1, NEW k \in 1..Size(sent'[m]),
                      next[m] + k - recv \in 1..Len(stream)
               PROVE  stream[next[m] + k - recv] = ByteOf(m, k)'
    BY <1>2, <1>3 DEF Content
  <2>2. m # N + 1
    <3>1. start[N + 1] = recv + Len(stream)
      BY <1>0, <1>2 DEF Synced, ClientAt, Out
    <3>2. SUFFICES ASSUME m = N + 1 PROVE FALSE
      OBVIOUS
    <3>3. next[m] = recv + Len(stream) /\ k > 0 /\ k \in Nat
      BY <1>1, <1>3, <1>5, <3>1, <3>2
    <3> QED
      BY <2>1, <3>3
  <2>3. m \in 1..N /\ sent'[m] = sent[m] /\ next[m] = start[m]
    <3>1. m \in 1..N /\ m \in 1..N + 1
      BY <1>1, <2>2
    <3> QED
      BY <1>3, <1>5, <3>1
  <2>4. stream[start[m] + k - recv] = ByteOf(m, k)
    BY <1>0, <2>3 DEF Synced, Content
  <2> QED
    BY <2>3, <2>4 DEF ByteOf
<1> QED
  BY <1>6, <1>7, <1>8, <1>9 DEF Synced, Link

\* The kernel takes the first k bytes that are left: they come to lie in the stream where
\* they belong in the sequence.
LEMMA SyncedSend ==
    ASSUME Shapes, NEW start, Synced(start), NEW k \in 1..Capacity, Send(k)
    PROVE  Synced(start)'
<1>0. PICK n \in Nat : n = Len(sent)
  BY DEF Shapes, TypeOK
<1>1. /\ k \in 1..Len(toSend) /\ Len(stream) \in Nat /\ Len(toSend) \in Nat /\ k \in Nat
      /\ Len(stream') = Len(stream) + k
      /\ \A i \in 1..Len(stream) : stream'[i] = stream[i]
      /\ \A i \in 1..k : stream'[Len(stream) + i] = toSend[i]
      /\ Out' = Out + k /\ recv \in Nat /\ Out \in Nat
  BY Sends DEF Shapes, TypeOK, Out
<1>2. /\ UNCHANGED <<sent, need, received, recv>>
      /\ pc["client"] \in {"long", "chars"}
  BY DEF Send, ClientSends
<1>3. /\ n \in Nat /\ n \in 1..n /\ n + 1 \in 1..n + 1 /\ XmitLong \in Nat \ {0}
      /\ \A m \in 1..n + 1 : start[m] \in Nat
      /\ \A m \in 1..n : /\ sent[m] \in Nat /\ Size(sent[m]) \in Nat /\ Size(sent[m]) > XmitLong
                         /\ start[m + 1] = start[m] + Size(sent[m])
      /\ \A m \in 1..n, l \in 1..n + 1 : m < l => start[m + 1] <= start[l]
  <2>1. Len(sent) > 0
    BY <1>2 DEF Shapes, ClientSends
  <2>2. Offsets(start)
    BY DEF Synced
  <2>3. /\ n \in Nat /\ XmitLong \in Nat \ {0}
        /\ \A m \in 1..n + 1 : start[m] \in Nat
        /\ \A m \in 1..n : /\ sent[m] \in Nat /\ Size(sent[m]) \in Nat /\ Size(sent[m]) > XmitLong
                           /\ start[m + 1] = start[m] + Size(sent[m])
    BY <1>0, <2>2, OffsetTypes
  <2>4. \A m \in 1..n, l \in 1..n + 1 : m < l => start[m + 1] <= start[l]
    BY <1>0, <2>2 DEF Offsets
  <2>5. n \in 1..n /\ n + 1 \in 1..n + 1
    BY <1>0, <2>1, <2>3
  <2> QED
    BY <2>3, <2>4, <2>5
<1>4. /\ start[n] \in Nat /\ start[n + 1] \in Nat /\ start[n + 1] = start[n] + Size(sent[n])
      /\ Size(sent[n]) \in Nat /\ Size(sent[n]) > XmitLong /\ n \in 1..Len(sent)
  BY <1>0, <1>3
<1>5. PICK o \in Nat : o = Out /\ o = recv + Len(stream) /\ Out' = o + k
  BY <1>1 DEF Out
<1>6. /\ start[n] <= o
      /\ pc["client"] = "long" => o + Len(toSend) = start[n] + XmitLong
      /\ pc["client"] = "chars" => /\ o + Len(toSend) = start[n + 1]
                                   /\ start[n] + XmitLong <= o
      /\ \A j \in 1..Len(toSend) : toSend[j] = ByteOf(n, o - start[n] + j)
  <2>1. ClientAt(start)
    BY DEF Synced
  <2>2. /\ pc["client"] = "long" => start[n] <= o /\ o + Len(toSend) = start[n] + XmitLong
        /\ pc["client"] = "chars" => /\ o + Len(toSend) = start[n + 1]
                                     /\ start[n] + XmitLong <= o
        /\ \A j \in 1..Len(toSend) : toSend[j] = ByteOf(n, o - start[n] + j)
    BY <1>0, <1>2, <1>5, <2>1 DEF ClientAt, ClientSends
  <2>3. start[n] <= o
    <3>1. CASE pc["client"] = "long"
      BY <2>2, <3>1, Zenon
    <3>2. CASE pc["client"] = "chars"
      <4>1. PICK b \in Nat, x \in Nat : b = start[n] /\ x = XmitLong
        BY <1>3, <1>4
      <4>2. b + x <= o
        BY <2>2, <3>2, <4>1, Zenon
      <4>3. b <= o
        BY <4>1, <4>2
      <4> QED
        BY <4>1, <4>3, Zenon
    <3> QED
      BY <1>2, <3>1, <3>2
  <2> QED
    BY <2>2, <2>3
<1>7. o + Len(toSend) <= start[n + 1]
  <2>1. CASE pc["client"] = "long"
    <3>1. o + Len(toSend) = start[n] + XmitLong /\ XmitLong \in Nat
      BY <1>3, <1>6, <2>1
    <3> QED
      BY <1>4, <3>1
  <2>2. CASE pc["client"] = "chars"
    BY <1>4, <1>6, <2>2
  <2> QED
    BY <1>2, <2>1, <2>2
<1>8. Offsets(start)'
  BY <1>2 DEF Synced, Offsets
<1>9. pc'["server"] = pc["server"]
  <2>1. \A l : Goto("client", l) => pc'["server"] = pc["server"]
    BY Places DEF Hosts
  <2>2. UNCHANGED pc \/ \E l : Goto("client", l)
    BY DEF Send, Sent
  <2> QED
    BY <2>1, <2>2
<1>10. ServerAt(start)'
  BY <1>2, <1>9 DEF Synced, ServerAt
<1>11. Content(start)'
  <2> SUFFICES ASSUME NEW m \in 1..n, NEW l \in 1..Size(sent[m]),
                      start[m] + l - recv \in 1..Len(stream')
               PROVE  stream'[start[m] + l - recv] = ByteOf(m, l)
    BY <1>0, <1>2 DEF Content, ByteOf
  <2>1. start[m] \in Nat /\ l \in Nat /\ l <= Size(sent[m]) /\ Size(sent[m]) \in Nat
        /\ start[m + 1] = start[m] + Size(sent[m]) /\ m \in Nat /\ m <= n
    BY <1>3
  <2>2. PICK p \in Int : p = start[m] + l - recv
    BY <1>1, <2>1
  <2>3. CASE p <= Len(stream)
    <3>1. p \in 1..Len(stream)
      BY <1>1, <2>2, <2>3
    <3>2. stream[p] = ByteOf(m, l)
      BY <1>0, <2>2, <3>1 DEF Synced, Content
    <3> QED
      BY <1>1, <2>2, <3>1, <3>2
  <2>4. CASE p > Len(stream)
    <3>1. PICK j \in 1..k : p = Len(stream) + j
      <4>1. p - Len(stream) \in 1..k /\ p = Len(stream) + (p - Len(stream))
        BY <1>1, <2>2, <2>4
      <4> QED
        BY <4>1
    <3>2. start[m] + l = o + j /\ j \in Nat /\ j > 0
      <4>1. j \in Nat /\ j > 0
        BY <1>1
      <4>2. Len(stream) \in Nat /\ recv \in Nat
        BY <1>1
      <4>3. start[m] + l - recv = Len(stream) + j /\ o = recv + Len(stream)
        BY <1>5, <2>2, <3>1
      <4>4. PICK b \in Nat : b = start[m]
        BY <2>1
      <4>5. PICK c \in Nat : c = Len(stream)
        BY <4>2
      <4>6. b + l - recv = c + j /\ o = recv + c
        BY <4>3, <4>4, <4>5, Zenon
      <4>7. b + l = o + j
        BY <2>1, <4>1, <4>2, <4>6
      <4> QED
        BY <4>1, <4>4, <4>7, Zenon
    <3>3. m = n
      <4> SUFFICES ASSUME m # n PROVE FALSE
        OBVIOUS
      <4>1. m < n /\ start[m + 1] <= start[n]
        BY <1>3, <2>1
      <4> QED
        <5>1. start[n] <= o /\ start[n] \in Nat
          BY <1>4, <1>6
        <5>2. start[m] + l <= start[m] + Size(sent[m])
          BY <2>1
        <5>3. start[m] + Size(sent[m]) <= start[n]
          BY <2>1, <4>1
        <5>4. PICK b \in Nat, c \in Nat, z \in Nat :
                 b = start[m] /\ c = start[n] /\ z = Size(sent[m])
          BY <2>1, <5>1
        <5>5. b + l = o + j /\ b + l <= b + z /\ b + z <= c /\ c <= o
          BY <3>2, <5>1, <5>2, <5>3, <5>4, Zenon
        <5>6. j > 0 /\ j \in Nat /\ l \in Nat
          BY <2>1, <3>2
        <5> QED
          BY <5>5, <5>6
    <3>4. l = o - start[n] + j /\ j \in 1..Len(toSend)
      <4>1. j \in 1..Len(toSend)
        BY <1>1
      <4>2. start[n] + l = o + j
        BY <3>2, <3>3
      <4>3. start[n] \in Nat /\ l \in Nat /\ j \in Nat
        BY <1>4, <2>1, <3>2
      <4>4. PICK b \in Nat : b = start[n]
        BY <4>3
      <4>5. b + l = o + j
        BY <4>2, <4>4, Zenon
      <4>6. l = o - b + j
        BY <4>3, <4>5
      <4> QED
        BY <4>1, <4>4, <4>6, Zenon
    <3>5. toSend[j] = ByteOf(n, l)
      BY <1>6, <3>4
    <3> QED
      BY <1>1, <2>2, <3>1, <3>3, <3>5
  <2> QED
    BY <1>1, <2>2, <2>3, <2>4
<1>12. ClientAt(start)'
  <2>1. CASE k # Len(toSend)
    <3>1. toSend' = Rest(toSend, k) /\ pc' = pc
      BY <2>1 DEF Send
    <3>2. /\ Len(toSend') = Len(toSend) - k
          /\ \A j \in 1..Len(toSend) - k : toSend'[j] = toSend[k + j]
      <4>1. toSend \in Seq(Byte) /\ k \in 0..Len(toSend)
        BY <1>1 DEF Shapes
      <4> QED
        BY <3>1, <4>1, Cut DEF Rest
    <3>3. ASSUME NEW j \in 1..Len(toSend')
          PROVE  toSend'[j] = ByteOf(n, o + k - start[n] + j)
      <4>1. j \in 1..Len(toSend) - k
        BY <3>2
      <4>2. k + j \in 1..Len(toSend) /\ j \in Int
        BY <1>1, <4>1
      <4>3. o - start[n] + (k + j) = o + k - start[n] + j
        <5>1. start[n] \in Int /\ k \in Int /\ j \in Int
          BY <1>1, <1>4, <4>2
        <5> QED
          BY <5>1
      <4>4. toSend[k + j] = ByteOf(n, o - start[n] + (k + j))
        BY <1>6, <4>2
      <4>5. toSend'[j] = toSend[k + j]
        BY <3>2, <4>1
      <4> QED
        BY <4>3, <4>4, <4>5
    <3>4. \A j \in 1..Len(toSend') : toSend'[j] = ByteOf(n, Out - start[n] + j)'
      <4> SUFFICES ASSUME NEW j \in 1..Len(toSend')
                   PROVE  toSend'[j] = ByteOf(n, Out - start[n] + j)'
        OBVIOUS
      <4>1. PICK i : i = Out' - start[n] + j
        OBVIOUS
      <4>2. toSend'[j] = ByteOf(n, i)
        <5>1. i = o + k - start[n] + j
          <6>1. start[n] \in Int /\ k \in Int
            BY <1>1, <1>4
          <6>2. j \in Int
            BY <1>1, <3>2
          <6>3. Out' = o + k
            BY <1>5
          <6> QED
            BY <4>1, <6>1, <6>2, <6>3
        <5> QED
          BY <3>3, <5>1
      <4>3. ByteOf(n, i) = ByteOf(n, Out - start[n] + j)'
        BY <1>2, <4>1 DEF ByteOf
      <4> QED
        BY <4>2, <4>3
    <3>5. o + k <= start[n + 1] /\ start[n] <= o + k
      <4>1. start[n] \in Nat /\ start[n + 1] \in Nat /\ start[n] <= o
        BY <1>4, <1>6
      <4>2. k \in Nat /\ Len(toSend) \in Nat /\ k <= Len(toSend)
        BY <1>1
      <4> QED
        BY <1>7, <4>1, <4>2
    <3>6. o + k + Len(toSend') = o + Len(toSend)
      BY <1>1, <1>5, <3>2
    <3>7. pc["client"] = "chars" => start[n] + XmitLong <= o + k
      <4>1. PICK b \in Nat, x \in Nat, l \in Nat : b = start[n] /\ x = XmitLong /\ l = k
        BY <1>1, <1>3, <1>4
      <4>2. pc["client"] = "chars" => b + x <= o
        BY <1>6, <4>1, Zenon
      <4>3. b + x <= o => b + x <= o + l
        BY <4>1
      <4> QED
        BY <4>1, <4>2, <4>3, Zenon
    <3> QED
      BY <1>0, <1>2, <1>5, <1>6, <3>1, <3>4, <3>5, <3>6, <3>7 DEF ClientAt, ClientSends
  <2>2. CASE k = Len(toSend) /\ pc["client"] = "long"
    <3>1. Goto("client", "chars") /\ toSend' = Primitive(n, Last(sent))
      BY <1>0, <2>2 DEF Send, Sent
    <3>2. pc'["client"] = "chars" /\ Last(sent) = sent[n]
      BY <1>0, <3>1, Places DEF Hosts, Last
    <3>3. Out' = start[n] + XmitLong /\ start[n] + XmitLong <= start[n + 1]
      <4>1. PICK b \in Nat, c \in Nat : b = start[n] /\ c = start[n + 1]
        BY <1>4
      <4>2. XmitLong \in Nat /\ Size(sent[n]) \in Nat /\ Size(sent[n]) > XmitLong
            /\ c = b + Size(sent[n])
        BY <1>3, <1>4, <4>1
      <4>3. b + XmitLong <= c
        BY <4>1, <4>2
      <4>4. Out' = start[n] + XmitLong
        BY <1>5, <1>6, <2>2, Zenon
      <4> QED
        BY <4>1, <4>3, <4>4, Zenon
    <3>4. Len(toSend') \in Nat /\ Size(sent[n]) = XmitLong + Len(toSend')
      <4>1. Primitive(n, sent[n]) \in Seq(Byte)
        BY <1>3, Encodings
      <4>2. Size(sent[n]) = XmitLong + Len(Primitive(n, sent[n]))
        BY <1>4, BytesOf
      <4> QED
        BY <3>1, <3>2, <4>1, <4>2
    <3>5. \A j \in 1..Len(toSend') : toSend'[j] = ByteOf(n, XmitLong + j)
      <4>1. \A j \in Nat : j > 0 => ByteOf(n, XmitLong + j) = Primitive(n, sent[n])[j]
        BY <1>4, BytesOf
      <4> QED
        BY <3>1, <3>2, <3>4, <4>1
    <3>6. ASSUME NEW j \in 1..Len(toSend')
          PROVE  start[n] + XmitLong - start[n] + j = XmitLong + j
      <4>1. PICK b \in Nat : b = start[n]
        BY <1>4
      <4>2. XmitLong \in Nat /\ j \in Int
        BY <1>3
      <4>3. b + XmitLong - b + j = XmitLong + j
        BY <4>1, <4>2
      <4> QED
        BY <4>1, <4>3, Zenon
    <3>7. \A j \in 1..Len(toSend') :
             toSend'[j] = ByteOf(n, Out - start[n] + j)'
      <4> SUFFICES ASSUME NEW j \in 1..Len(toSend')
                   PROVE  toSend'[j] = ByteOf(n, Out - start[n] + j)'
        OBVIOUS
      <4>1. PICK i : i = Out' - start[n] + j
        OBVIOUS
      <4>2. i = XmitLong + j
        <5>1. i = start[n] + XmitLong - start[n] + j
          <6>1. start[n] \in Int /\ XmitLong \in Int
            BY <1>3, <1>4
          <6>2. j \in Int
            BY <3>4
          <6>3. Out' = start[n] + XmitLong
            BY <3>3
          <6> QED
            BY <4>1, <6>1, <6>2, <6>3
        <5> QED
          BY <3>6, <5>1
      <4>3. toSend'[j] = ByteOf(n, i)
        BY <3>5, <4>2
      <4>4. ByteOf(n, i) = ByteOf(n, Out - start[n] + j)'
        BY <1>2, <4>1 DEF ByteOf
      <4> QED
        BY <4>3, <4>4
    <3>8. start[n] + XmitLong + Len(toSend') = start[n + 1]
      <4>1. PICK b \in Nat, x \in Nat, l \in Nat :
               b = start[n] /\ x = XmitLong /\ l = Len(toSend')
        BY <1>3, <1>4, <3>4
      <4>2. start[n + 1] = b + (x + l)
        <5>1. Size(sent[n]) = x + l
          BY <3>4, <4>1, Zenon
        <5>2. start[n + 1] = b + Size(sent[n])
          BY <1>4, <4>1, Zenon
        <5> QED
          BY <5>1, <5>2, Zenon
      <4>3. b + x + l = b + (x + l)
        OBVIOUS
      <4> QED
        BY <4>1, <4>2, <4>3, Zenon
    <3> QED
      BY <1>0, <1>2, <1>3, <1>4, <3>2, <3>3, <3>7, <3>8 DEF ClientAt, ClientSends
  <2>3. CASE k = Len(toSend) /\ pc["client"] = "chars"
    <3>1. PICK l \in {"answer", "ready"} : Goto("client", l)
      BY <2>3 DEF Send, Sent
    <3>2. pc'["client"] = l
      BY <3>1, Places DEF Hosts
    <3>3. Out' = start[n + 1]
      BY <1>4, <1>5, <1>6, <2>3
    <3> QED
      BY <1>0, <1>2, <1>4, <3>2, <3>3 DEF ClientAt, ClientSends
  <2> QED
    BY <1>2, <2>1, <2>2, <2>3
<1> QED
  BY <1>8, <1>10, <1>11, <1>12 DEF Synced

\* What the server reads as a length is the length of the next string.
LEMMA SyncedLong ==
    ASSUME Shapes, NEW start, Synced(start), ServerLong
    PROVE  Synced(start)'
<1>0. PICK n \in Nat, r \in Nat : n = Len(sent) /\ r = Len(received) + 1
  BY DEF Shapes, TypeOK
<1>1. /\ n \in Nat /\ r \in Nat \ {0} /\ XmitLong \in Nat \ {0}
      /\ \A m \in 1..n + 1 : start[m] \in Nat
      /\ \A m \in 1..n : sent[m] \in Lengths /\ sent[m] \in Nat /\ Size(sent[m]) \in Nat
                         /\ Size(sent[m]) > XmitLong
      /\ Lengths \subseteq Nat
  BY <1>0, OffsetTypes, CommSocketAssumption DEF Synced, Shapes
<1>2. /\ pc["server"] = "long" /\ Read(XmitLong)
      /\ UNCHANGED <<count, sent, toSend, answer, received, xmit, fragmented>>
  BY DEF ServerLong
<1>3. /\ XmitLong \in 0..Len(stream) /\ Len(stream) \in Nat /\ recv' = recv + XmitLong
      /\ Out' = Out /\ recv \in Nat /\ stream \in Seq(Byte)
  BY <1>1, <1>2, Reads DEF Shapes, TypeOK
<1>4. recv = start[r] /\ r <= n + 1 /\ Out <= start[n + 1]
  BY <1>0, <1>2 DEF Synced, ServerAt, ClientAt
<1>5. r \in 1..n
  <2> SUFFICES ASSUME r = n + 1 PROVE FALSE
    BY <1>1, <1>4
  <2> QED
    BY <1>1, <1>3, <1>4 DEF Out
<1>6. SubSeq(stream, 1, XmitLong) = Long(sent[r])
  <2>1. PICK s : s = SubSeq(stream, 1, XmitLong)
    OBVIOUS
  <2>2. /\ s \in Seq(Byte) /\ Len(s) = XmitLong
        /\ \A i \in 1..XmitLong : s[i] = stream[i]
    BY <1>1, <1>3, <2>1, Cut
  <2>3. ASSUME NEW i \in 1..XmitLong PROVE s[i] = Long(sent[r])[i]
    <3>1. i \in 1..Size(sent[r]) /\ start[r] + i - recv = i /\ i \in 1..Len(stream)
      <4>1. i \in Nat /\ i > 0 /\ i <= XmitLong /\ XmitLong \in Nat
        BY <1>1
      <4>2. Size(sent[r]) \in Nat /\ Size(sent[r]) > XmitLong
        BY <1>1, <1>5, Zenon
      <4>3. i \in 1..Size(sent[r])
        BY <4>1, <4>2
      <4>4. i \in 1..Len(stream)
        BY <1>3, <4>1
      <4>5. recv + i - recv = i
        BY <1>3, <4>1
      <4> QED
        BY <1>4, <4>3, <4>4, <4>5, Zenon
    <3>2. stream[i] = ByteOf(r, i)
      BY <1>0, <1>5, <3>1 DEF Synced, Content
    <3> QED
      BY <1>0, <1>5, <2>2, <3>2, BytesOf
  <2>4. Long(sent[r]) \in Seq(Byte) /\ Len(Long(sent[r])) = XmitLong
    BY <1>1, <1>5, Encodings
  <2> QED
    BY <2>1, <2>2, <2>3, <2>4, SeqEqual
<1>7. need' = sent[r] /\ pc'["server"] = "chars" /\ pc'["client"] = pc["client"]
  <2>1. PICK L : L = {l \in Lengths : SubSeq(stream, 1, XmitLong) = Long(l)}
    OBVIOUS
  <2>2. /\ Goto("server", IF L # {} THEN "chars" ELSE "astray")
        /\ need' = IF L # {} THEN Max(L) ELSE 0
    BY <2>1 DEF ServerLong
  <2>3. L # {}
    BY <1>1, <1>5, <1>6, <2>1
  <2>4. PICK l \in Lengths : SubSeq(stream, 1, XmitLong) = Long(l) /\ Max(L) = l
    BY <2>1, <2>3, Numbers
  <2>5. l = sent[r]
    BY <1>1, <1>5, <1>6, <2>4, Encodings
  <2> QED
    BY <2>2, <2>3, <2>4, <2>5, Places DEF Hosts
<1>8. Offsets(start)'
  BY <1>2 DEF Synced, Offsets
<1>9. ServerAt(start)'
  BY <1>0, <1>1, <1>2, <1>3, <1>4, <1>5, <1>7 DEF ServerAt
<1>10. Content(start)'
  BY <1>1, <1>2, ContentRead
<1>11. ClientAt(start)'
  BY <1>2, <1>3, <1>7 DEF Synced, ClientAt, ClientSends, ByteOf
<1> QED
  BY <1>8, <1>9, <1>10, <1>11 DEF Synced

\* What it reads then is the string, and it is at the next one if this was not empty.
LEMMA SyncedChars ==
    ASSUME Shapes, NEW start, Synced(start), ServerChars
    PROVE  /\ Len(received') \in 1..Len(sent) /\ Len(received') = Len(received) + 1
           /\ received'[Len(received')] = Chars(Len(received'), sent[Len(received')])
           /\ sent[Len(received')] # 0 => Synced(start)'
<1>0. PICK n \in Nat, r \in Nat : n = Len(sent) /\ r = Len(received) + 1
  BY DEF Shapes, TypeOK
<1>1. /\ n \in Nat /\ r \in Nat \ {0} /\ XmitLong \in Nat \ {0} /\ Strings \in Nat
      /\ \A m \in 1..n + 1 : start[m] \in Nat
      /\ \A m \in 1..n : /\ sent[m] \in Nat /\ Size(sent[m]) \in Nat
                         /\ start[m + 1] = start[m] + Size(sent[m])
  BY <1>0, OffsetTypes, CommSocketAssumption DEF Synced, Shapes
<1>2. /\ pc["server"] = "chars" /\ Read(need)
      /\ UNCHANGED <<count, sent, toSend, need, xmit, fragmented>>
      /\ received' = Append(received, SubSeq(stream, 1, need))
  BY DEF ServerChars
<1>3. recv = start[r] + XmitLong /\ r \in 1..n /\ need = sent[r] /\ need \in Nat
  BY <1>0, <1>1, <1>2 DEF Synced, ServerAt
<1>4. /\ need \in 0..Len(stream) /\ Len(stream) \in Nat /\ recv' = recv + need
      /\ Out' = Out /\ recv \in Nat /\ stream \in Seq(Byte)
  BY <1>2, <1>3, Reads DEF Shapes, TypeOK
<1>5. PICK s : s = SubSeq(stream, 1, need)
  OBVIOUS
<1>6. s \in Seq(Byte) /\ Len(s) = need /\ \A i \in 1..need : s[i] = stream[i]
  BY <1>3, <1>4, <1>5, Cut
<1>7. s = Chars(r, need)
  <2>1. CASE need = 0
    BY <1>1, <1>6, <2>1, Encodings
  <2>2. CASE need # 0
    <3>1. Primitive(r, need) = Chars(r, need) /\ Len(Primitive(r, need)) = need
          /\ Chars(r, need) \in Seq(Byte)
      BY <1>1, <1>3, <2>2, Encodings
    <3>2. Size(sent[r]) = XmitLong + need
      BY <1>0, <1>3, <3>1, BytesOf
    <3>3. ASSUME NEW i \in 1..need PROVE s[i] = Chars(r, need)[i]
      <4>1. XmitLong + i \in 1..Size(sent[r]) /\ start[r] + (XmitLong + i) - recv = i
            /\ i \in 1..Len(stream) /\ start[r] \in Nat /\ i \in Nat /\ i > 0
        <5>1. start[r] \in Nat /\ XmitLong \in Nat
          <6>1. r \in 1..n + 1
            BY <1>3
          <6> QED
            BY <1>1, <6>1
        <5>2. i \in Nat /\ i > 0 /\ i <= need
          BY <1>3
        <5>3. XmitLong + i \in 1..Size(sent[r])
          BY <1>3, <3>2, <5>1, <5>2
        <5>4. start[r] + (XmitLong + i) - recv = i
          BY <1>3, <5>1, <5>2
        <5>5. i \in 1..Len(stream)
          BY <1>4, <5>2
        <5> QED
          BY <5>1, <5>2, <5>3, <5>4, <5>5
      <4>2. stream[i] = ByteOf(r, XmitLong + i)
        BY <1>0, <1>3, <4>1 DEF Synced, Content
      <4>3. ByteOf(r, XmitLong + i) = Primitive(r, need)[i]
        BY <1>0, <1>3, <4>1, BytesOf
      <4> QED
        BY <1>6, <3>1, <4>2, <4>3
    <3> QED
      BY <1>6, <3>1, <3>3, SeqEqual
  <2> QED
    BY <2>1, <2>2
<1>8. Len(received') = r /\ received'[r] = s
  <2>1. received' = Append(received, s) /\ received \in Seq(Seq(Byte))
    BY <1>2, <1>5 DEF Shapes
  <2> QED
    BY <1>0, <1>6, <2>1
<1>9. ASSUME sent[r] # 0 PROVE Synced(start)'
  <2>1. start[r + 1] = start[r] + XmitLong + need /\ recv' = start[r + 1]
    <3>1. Size(sent[r]) = XmitLong + need
      BY <1>3, <1>9 DEF Size
    <3>2. start[r + 1] = start[r] + (XmitLong + need)
      BY <1>1, <1>3, <3>1
    <3>3. PICK b \in Nat : b = start[r]
      <4>1. r \in 1..n + 1
        BY <1>1, <1>3
      <4> QED
        BY <1>1, <4>1
    <3>4. b + (XmitLong + need) = b + XmitLong + need
      BY <1>1, <1>3, <3>3
    <3> QED
      BY <1>3, <1>4, <3>2, <3>3, <3>4, Zenon
  <2>2. pc'["server"] \in {"closed", "long"} /\ pc'["client"] = pc["client"]
    <3>1. PICK l \in {"closed", "long"} : Goto("server", l)
      BY DEF ServerChars
    <3> QED
      BY <3>1, Places DEF Hosts
  <2>3. Offsets(start)'
    BY <1>2 DEF Synced, Offsets
  <2>4. ServerAt(start)'
    BY <1>0, <1>1, <1>2, <1>3, <1>8, <2>1, <2>2 DEF ServerAt
  <2>5. Content(start)'
    BY <1>2, <1>3, ContentRead
  <2>6. ClientAt(start)'
    BY <1>2, <1>4, <2>2 DEF Synced, ClientAt, ClientSends, ByteOf
  <2> QED
    BY <2>3, <2>4, <2>5, <2>6 DEF Synced
<1> QED
  BY <1>0, <1>3, <1>7, <1>8, <1>9

(***************************************************************************)
(* The invariant holds, and what it shows.                                 *)
(***************************************************************************)
\* At first nothing is sent.
LEMMA LinkStarts == Init => Whole /\ Counted /\ Link
<1> SUFFICES ASSUME Init PROVE Whole /\ Counted /\ Link
  OBVIOUS
<1>1. /\ pc["client"] = "connect" /\ pc["server"] = "begin"
      /\ sent = <<>> /\ stream = <<>> /\ received = <<>> /\ xmit = 0 /\ recv = 0
  BY DEF Init
<1>2. Len(sent) = 0 /\ Len(stream) = 0 /\ Len(received) = 0 /\ Out = 0
  BY <1>1 DEF Out
<1>3. Whole
  BY <1>2 DEF Whole
<1>4. Counted
  BY <1>1, <1>2 DEF Counted
<1>5. PICK start : start \in [1..1 -> Nat] /\ start[1] = 0
  <2>1. [m \in 1..1 |-> 0] \in [1..1 -> Nat] /\ [m \in 1..1 |-> 0][1] = 0
    OBVIOUS
  <2> QED
    BY <2>1
<1>6. Offsets(start)
  BY <1>2, <1>5 DEF Offsets
<1>7. ServerAt(start)
  BY <1>1, <1>2, <1>5 DEF ServerAt
<1>8. ClientAt(start)
  BY <1>1, <1>2, <1>5 DEF ClientAt, ClientSends
<1>9. Content(start)
  BY <1>2 DEF Content
<1> QED
  BY <1>3, <1>4, <1>6, <1>7, <1>8, <1>9 DEF Link, Synced

\* What holds of the strings sent and received before a step holds after it.
LEMMA Extends ==
    ASSUME Shapes, Next
    PROVE  /\ Len(sent) \in Nat /\ Len(sent') \in Nat /\ Len(sent') >= Len(sent)
           /\ \A m \in 1..Len(sent) : sent'[m] = sent[m]
           /\ \/ received' = received
              \/ ServerChars /\ Len(received') = Len(received) + 1
           /\ Len(received) \in Nat
           /\ \A m \in 1..Len(received) : received'[m] = received[m]
<1>1. Len(sent) \in Nat /\ Len(received) \in Nat
  BY DEF Shapes, TypeOK
<1>2. CASE Listen \/ ConnectFails \/ Connect \/ ClientAnswer \/ \E h \in Hosts : Quit(h)
  <2>1. sent' = sent /\ received' = received
    BY <1>2 DEF Listen, ConnectFails, Connect, ClientAnswer, Quit, buffers
  <2> QED
    BY <1>1, <2>1
<1>3. CASE \E n \in Lengths : SendString(n)
  <2>1. PICK n \in Lengths : sent' = Append(sent, n) /\ received' = received
    BY <1>3 DEF SendString
  <2>2. Len(sent') = Len(sent) + 1 /\ \A m \in 1..Len(sent) : sent'[m] = sent[m]
    BY <2>1 DEF Shapes, TypeOK
  <2> QED
    BY <1>1, <2>1, <2>2
<1>4. CASE (\E k \in 1..Capacity : Send(k)) \/ ServerLong \/ ServerAstray
  <2>1. sent' = sent /\ received' = received
    BY <1>4 DEF Send, ServerLong, ServerAstray
  <2> QED
    BY <1>1, <2>1
<1>5. CASE ServerChars
  <2>1. sent' = sent /\ received' = Append(received, SubSeq(stream, 1, need))
    BY <1>5 DEF ServerChars
  <2>2. received \in Seq(Seq(Byte)) /\ SubSeq(stream, 1, need) \in Seq(Byte)
    <3>1. stream \in Seq(Byte) /\ need \in 0..Len(stream)
      BY <1>5 DEF Shapes, TypeOK, ServerChars, Read
    <3> QED
      BY <3>1, Cut DEF Shapes
  <2>3. Len(received') = Len(received) + 1
        /\ \A m \in 1..Len(received) : received'[m] = received[m]
    BY <2>1, <2>2
  <2> QED
    BY <1>1, <1>5, <2>1, <2>3
<1> QED
  BY <1>2, <1>3, <1>4, <1>5, Steps

\* A server that has received an empty string has done so for good.
LEMMA AstrayStays ==
    ASSUME Shapes, Astray, Next
    PROVE  Astray'
<1>1. PICK i \in 1..Len(received) : i <= Len(sent) /\ sent[i] = 0
  BY DEF Astray
<1>2. i \in 1..Len(sent) /\ i \in 1..Len(received')
  BY <1>1, Extends
<1>3. sent'[i] = 0 /\ i <= Len(sent')
  BY <1>1, <1>2, Extends
<1> QED
  BY <1>2, <1>3 DEF Astray

\* Once the server has quit nothing is received any more.
LEMMA QuitStays ==
    ASSUME Shapes, pc["server"] = "quit", Next
    PROVE  pc'["server"] = "quit" /\ received' = received
<1>1. CASE ConnectFails \/ ClientAnswer \/ (\E n \in Lengths : SendString(n))
  <2>1. (\E l : Goto("client", l)) /\ received' = received
    BY <1>1 DEF ConnectFails, ClientAnswer, SendString, buffers
  <2> QED
    BY <2>1, Places DEF Hosts
<1>2. CASE \E h \in Hosts : Quit(h)
  <2>1. PICK h \in Hosts : Goto(h, "quit") /\ received' = received
    BY <1>2 DEF Quit, buffers
  <2>2. pc'["server"] = "quit"
    BY <2>1, Places DEF Hosts
  <2> QED
    BY <2>1, <2>2
<1>3. CASE Listen \/ Connect \/ ServerLong \/ ServerChars \/ ServerAstray
           \/ \E k \in 1..Capacity : Send(k)
  BY <1>3 DEF Listen, Connect, ServerLong, ServerChars, ServerAstray, Send, Ended
<1> QED
  BY <1>1, <1>2, <1>3, Steps

\* Steps of connecting and ending move no byte.
LEMMA SyncedLocal ==
    ASSUME Shapes, NEW start, Synced(start),
           Listen \/ ConnectFails \/ Connect \/ ClientAnswer \/ \E h \in Hosts : Quit(h)
    PROVE  pc'["server"] = "quit" \/ Synced(start)'
<1>1. CASE Listen
  <2>1. /\ UNCHANGED <<sent, toSend, stream, received, need, recv>>
        /\ pc["server"] = "begin" /\ pc'["server"] = "accept" /\ pc'["client"] = pc["client"]
    BY <1>1, Places DEF Listen, buffers, Hosts
  <2> QED
    BY <2>1, SyncedFrame
<1>2. CASE ConnectFails
  <2>1. PICK l \in {"quit", "connect"} : Goto("client", l)
    BY <1>2 DEF ConnectFails
  <2>2. /\ UNCHANGED <<sent, toSend, stream, received, need, recv>>
        /\ pc["client"] = "connect" /\ pc'["server"] = pc["server"] /\ pc'["client"] = l
    BY <1>2, <2>1, Places DEF ConnectFails, buffers, Hosts
  <2> QED
    BY <2>1, <2>2, SyncedFrame
<1>3. CASE Connect
  <2>1. recv' = recv
    BY <1>3 DEF Connect, Shapes
  <2>2. UNCHANGED <<sent, toSend, stream, received, need>>
    BY <1>3 DEF Connect, buffers
  <2>3. /\ pc["client"] = "connect" /\ pc["server"] = "accept"
        /\ pc'["client"] = "ready" /\ pc'["server"] = "long"
    BY <1>3 DEF Connect
  <2> QED
    BY <2>1, <2>2, <2>3, SyncedFrame
<1>4. CASE ClientAnswer
  <2>1. /\ UNCHANGED <<sent, toSend, stream, received, need, recv>>
        /\ pc["client"] = "answer" /\ pc'["server"] = pc["server"] /\ pc'["client"] = "closed"
    BY <1>4, Places DEF ClientAnswer, Hosts
  <2> QED
    BY <2>1, SyncedFrame
<1>5. CASE \E h \in Hosts : Quit(h)
  <2>1. PICK h \in Hosts : Quit(h)
    BY <1>5
  <2>2. pc'[h] = "quit" /\ \A g \in Hosts \ {h} : pc'[g] = pc[g]
    BY <2>1, Places DEF Quit
  <2>3. UNCHANGED <<sent, toSend, stream, received, need, recv>>
    BY <2>1 DEF Quit, buffers
  <2>4. CASE h = "server"
    BY <2>2, <2>4
  <2>5. CASE h = "client"
    <3>1. pc'["client"] = "quit" /\ pc'["server"] = pc["server"]
      BY <2>2, <2>5 DEF Hosts
    <3> QED
      BY <2>3, <3>1, SyncedFrame
  <2> QED
    BY <2>4, <2>5 DEF Hosts
<1> QED
  BY <1>1, <1>2, <1>3, <1>4, <1>5

\* The two ends stay in step until the server quits or receives an empty string.
LEMMA LinkStays ==
    ASSUME Shapes, Link, Next
    PROVE  pc'["server"] = "quit" \/ Astray' \/ Link'
<1>1. PICK start : Synced(start)
  BY DEF Link
<1>2. CASE Listen \/ ConnectFails \/ Connect \/ ClientAnswer \/ \E h \in Hosts : Quit(h)
  BY <1>1, <1>2, SyncedLocal DEF Link
<1>3. CASE \E n \in Lengths : SendString(n)
  BY <1>1, <1>3, SyncedString
<1>4. CASE \E k \in 1..Capacity : Send(k)
  BY <1>1, <1>4, SyncedSend DEF Link
<1>5. CASE ServerLong
  BY <1>1, <1>5, SyncedLong DEF Link
<1>6. CASE ServerChars
  <2>1. /\ Len(received') \in 1..Len(sent)
        /\ sent[Len(received')] # 0 => Synced(start)'
    BY <1>1, <1>6, SyncedChars
  <2>2. sent' = sent
    BY <1>6 DEF ServerChars
  <2>3. CASE sent[Len(received')] # 0
    BY <2>1, <2>3 DEF Link
  <2>4. CASE sent[Len(received')] = 0
    <3>1. Len(sent) \in Nat
      BY DEF Shapes, TypeOK
    <3>2. PICK i : i = Len(received')
      OBVIOUS
    <3>3. i \in 1..Len(received') /\ i <= Len(sent') /\ sent'[i] = 0
      BY <2>1, <2>2, <2>4, <3>1, <3>2
    <3> QED
      BY <3>3 DEF Astray
  <2> QED
    BY <2>3, <2>4
<1>7. CASE ServerAstray
  BY <1>1, <1>7 DEF Synced, ServerAt, ServerAstray
<1> QED
  BY <1>2, <1>3, <1>4, <1>5, <1>6, <1>7, Steps

\* The strings received stay intact.
LEMMA WholeStays ==
    ASSUME Shapes, Whole, Next, pc["server"] = "quit" \/ Astray \/ Link
    PROVE  Whole'
<1>1. ASSUME NEW m \in 1..Len(received)
      PROVE  \/ \E i \in 1..m - 1 : i <= Len(sent') /\ sent'[i] = 0
             \/ m <= Len(sent') /\ received'[m] = Chars(m, sent'[m])
  <2>1. m \in Nat /\ m > 0
    BY Extends
  <2>2. CASE \E i \in 1..m - 1 : i <= Len(sent) /\ sent[i] = 0
    <3>1. PICK i \in 1..m - 1 : i <= Len(sent) /\ sent[i] = 0
      BY <2>2
    <3>2. i \in 1..Len(sent)
      BY <2>1, <3>1, Extends
    <3>3. sent'[i] = 0 /\ i <= Len(sent')
      BY <3>1, <3>2, Extends
    <3> QED
      BY <3>3
  <2>3. CASE m <= Len(sent) /\ received[m] = Chars(m, sent[m])
    <3>1. m \in 1..Len(sent)
      BY <2>1, <2>3, Extends
    <3>2. m <= Len(sent') /\ sent'[m] = sent[m] /\ received'[m] = received[m]
      BY <2>1, <2>3, <3>1, Extends
    <3> QED
      BY <2>3, <3>2
  <2> QED
    BY <2>2, <2>3 DEF Whole
<1>2. CASE received' = received
  BY <1>1, <1>2 DEF Whole
<1>3. CASE ServerChars /\ Len(received') = Len(received) + 1
  <2>1. pc["server"] = "chars" /\ sent' = sent
    BY <1>3 DEF ServerChars
  <2>2. PICK r \in Nat : r = Len(received) + 1
    BY Extends
  <2>3. \/ \E i \in 1..r - 1 : i <= Len(sent') /\ sent'[i] = 0
        \/ r <= Len(sent') /\ received'[r] = Chars(r, sent'[r])
    <3>1. CASE Astray
      <4>1. PICK i \in 1..Len(received) : i <= Len(sent) /\ sent[i] = 0
        BY <3>1 DEF Astray
      <4>2. i \in 1..r - 1
        BY <2>2, Extends
      <4> QED
        BY <2>1, <4>1, <4>2
    <3>2. CASE Link
      <4>1. PICK start : Synced(start)
        BY <3>2 DEF Link
      <4>2. /\ Len(received') \in 1..Len(sent)
            /\ received'[Len(received')] = Chars(Len(received'), sent[Len(received')])
        BY <1>3, <4>1, SyncedChars
      <4>3. r = Len(received') /\ Len(sent) \in Nat
        BY <1>3, <2>2, Extends
      <4>4. r \in 1..Len(sent) /\ received'[r] = Chars(r, sent[r])
        BY <4>2, <4>3
      <4> QED
        BY <2>1, <4>3, <4>4
    <3> QED
      BY <2>1, <3>1, <3>2
  <2>4. \A m \in 1..Len(received') : m \in 1..Len(received) \/ m = r
    BY <1>3, <2>2, Extends
  <2> QED
    BY <1>1, <2>3, <2>4 DEF Whole
<1> QED
  BY <1>2, <1>3, Extends

\* In every reachable state the shapes hold, the client has counted what the kernel took
\* unless it took parts, what is received is whole, and both ends are in step unless the
\* server has quit or received an empty string.
THEOREM StreamInvariance == Spec => []IInv
<1>1. Init => IInv
  BY ShapesStart, LinkStarts DEF IInv
<1>2. IInv /\ [Next]_vars => IInv'
  <2> SUFFICES ASSUME IInv, [Next]_vars PROVE IInv'
    OBVIOUS
  <2>1. Shapes'
    BY ShapesStay DEF IInv
  <2>2. CASE Next
    <3>1. Counted' /\ Whole'
      BY <2>2, CountedStays, WholeStays DEF IInv
    <3>2. pc'["server"] = "quit" \/ Astray' \/ Link'
      BY <2>2, QuitStays, AstrayStays, LinkStays DEF IInv
    <3> QED
      BY <2>1, <3>1, <3>2 DEF IInv
  <2>3. CASE UNCHANGED vars
    <3>1. UNCHANGED <<pc, sent, toSend, stream, need, received, xmit, recv, fragmented>>
      BY <2>3 DEF vars, buffers
    <3>2. Counted' /\ Whole'
      BY <3>1 DEF IInv, Counted, Whole, Out
    <3>3. ASSUME Link PROVE Link'
      <4>1. PICK start : Synced(start)
        BY <3>3 DEF Link
      <4>2. Synced(start)'
        BY <3>1, <4>1, SyncedFrame
      <4> QED
        BY <4>2 DEF Link
    <3>4. Astray => Astray'
      BY <3>1 DEF Astray
    <3> QED
      BY <2>1, <3>1, <3>2, <3>3, <3>4 DEF IInv
  <2> QED
    BY <2>2, <2>3
<1> QED
  BY <1>1, <1>2, PTL DEF Spec

\* The server has received the strings in order and complete, whatever the pieces in
\* which they went, up to the first that comes after an empty one.
THEOREM StringsAreIntact == Spec => []Intact
<1>1. IInv => Intact
  <2> SUFFICES ASSUME IInv, NEW m \in DOMAIN received,
                      \A i \in 1..m - 1 : sent[i] # 0
               PROVE  received[m] = Chars(m, sent[m])
    BY DEF Intact
  <2>1. m \in 1..Len(received)
    BY DEF IInv, Shapes
  <2> QED
    BY <2>1 DEF IInv, Whole
<1> QED
  BY <1>1, StreamInvariance, PTL

\* The client's counter is the server's when all is sent and received, unless the kernel
\* took a string in pieces, or an empty one was sent.
THEOREM BytesAreCounted == Spec => []CountersAgree
<1>1. IInv => CountersAgree
  <2> SUFFICES ASSUME IInv, ~fragmented, \A m \in DOMAIN sent : sent[m] # 0,
                      pc["client"] = "closed", pc["server"] = "closed"
               PROVE  xmit = recv
    BY DEF CountersAgree
  <2>1. /\ Len(sent) = Strings /\ Len(received) = Strings /\ Strings \in Nat \ {0}
        /\ DOMAIN sent = 1..Len(sent)
    BY CommSocketAssumption DEF IInv, Shapes, TypeOK
  <2>2. ~Astray
    BY <2>1 DEF Astray
  <2>3. PICK start : Synced(start)
    BY <2>2 DEF IInv, Link
  <2>4. Out = start[Strings + 1]
    BY <2>1, <2>3 DEF Synced, ClientAt
  <2>5. recv = start[Strings + 1]
    BY <2>1, <2>3 DEF Synced, ServerAt
  <2>6. xmit = Out
    BY DEF IInv, Counted
  <2> QED
    BY <2>4, <2>5, <2>6
<1> QED
  BY <1>1, StreamInvariance, PTL
=================================================================================
