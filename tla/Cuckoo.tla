-------------------------------- MODULE Cuckoo --------------------------------
(***************************************************************************)
(* The cuckoo filter of CuckooSync: insert with its eviction chain, the    *)
(* restoration of the filter when the chain is too long, erase and lookup. *)
(*                                                                         *)
(* An entry holds a fingerprint, 0 when it is empty.  An insertion is one  *)
(* step when a bucket has room, and otherwise one step for each kick and   *)
(* for each entry restored; prng picks buckets and victims, which is the   *)
(* nondeterminism of Insert and Kick.  An element inserted twice is two    *)
(* items with the same hash and fingerprint.                               *)
(***************************************************************************)
EXTENDS Integers, Sequences, FiniteSets

CONSTANTS
    Item,
    Fingerprint,  \* values an entry may have
    FilterSize, BucketSize, MaxKicks,
    fp,           \* fp[x]: the fingerprint of x
    hash,         \* hash[x]: the bucket x hashes to
    alternative   \* alternative[b][f]: _alternativeBucket(b, f)

Buckets == 0..(FilterSize - 1)
Entries == 0..(BucketSize - 1)
Slots == Buckets \X Entries
BucketOf(s) == s[1]

ASSUME CuckooAssumption ==
    /\ FilterSize \in Nat \ {0} /\ BucketSize \in Nat \ {0} /\ MaxKicks \in Nat
    /\ 0 \in Fingerprint
    /\ fp \in [Item -> Fingerprint]
    /\ hash \in [Item -> Buckets]
    /\ alternative \in [Buckets -> [Fingerprint -> Buckets]]

VARIABLES
    table,   \* table[<<b, e>>]: entry e of bucket b
    phase,   \* "idle" between two calls
    item,    \* the item being inserted, with its fingerprint or a victim's in hand
    hand,    \* f
    bucket,  \* chosenBucket
    stack,   \* originalSlots
    stored,  \* history: the items inserted and not erased since
    before   \* history: the filter when the chain began

chain == <<item, hand, bucket, stack, before>>
filterVars == <<table, phase, chain, stored>>

Phases == {"idle", "kicking", "restoring"}
Filter == [Slots -> Fingerprint]

FilterTypeOK ==
    /\ table \in Filter /\ before \in Filter
    /\ phase \in Phases
    /\ item \in Item /\ hand \in Fingerprint /\ bucket \in Buckets
    /\ stack \in Seq([slot : Slots, f : Fingerprint])
    /\ Len(stack) <= MaxKicks
    /\ stored \subseteq Item

FilterInit ==
    /\ table = [s \in Slots |-> 0]
    /\ phase = "idle"
    /\ item \in Item /\ hand = 0 /\ bucket = 0 /\ stack = <<>>
    /\ stored = {}
    /\ before = table

(***************************************************************************)
(* Buckets.                                                                *)
(***************************************************************************)
SecondBucket(x) == alternative[hash[x]][fp[x]]
Pair(x) == {hash[x], SecondBucket(x)}

\* _pHash throws for the other items, before anything is changed.
SuitableMutant(x) == TRUE
Suitable(x) == alternative[SecondBucket(x)][fp[x]] = hash[x]

\* Entry e is the first of bucket b in filter t with fingerprint f.
First(t, b, f, e) ==
    /\ t[<<b, e>>] = f
    /\ \A g \in Entries : g < e => t[<<b, g>>] # f

Holds(t, b, f) == \E e \in Entries : t[<<b, e>>] = f
Full(t, b) == ~Holds(t, b, 0)

\* addToBucket, from filter t.
AddTo(t, b, f) ==
    \E e \in Entries :
        /\ First(t, b, 0, e)
        /\ table' = [t EXCEPT ![<<b, e>>] = f]

(***************************************************************************)
(* insert.                                                                 *)
(***************************************************************************)
Insert(x) ==
    /\ phase = "idle"
    /\ x \notin stored
    /\ Suitable(x)
    /\ \/ /\ AddTo(table, hash[x], fp[x])
          /\ stored' = stored \cup {x}
          /\ UNCHANGED <<phase, chain>>
       \/ /\ Full(table, hash[x])
          /\ AddTo(table, SecondBucket(x), fp[x])
          /\ stored' = stored \cup {x}
          /\ UNCHANGED <<phase, chain>>
       \/ /\ \A b \in Pair(x) : Full(table, b)
          /\ phase' = "kicking"
          /\ item' = x /\ hand' = fp[x] /\ stack' = <<>> /\ before' = table
          /\ bucket' \in Pair(x)
          /\ UNCHANGED <<table, stored>>

KicksLeft == Len(stack) < MaxKicks

\* Where the victim goes: its own other bucket, not that of the item that evicts it.
OtherBucket(victim) == alternative[bucket][victim]

\* What originalSlots remembers of the slot.
OriginalMutant(victim) == hand
Original(victim) == victim

\* One round of the loop: the hand takes the victim's place, and the victim goes to
\* its other bucket or is the next in hand.
Kick ==
    /\ phase = "kicking"
    /\ KicksLeft
    /\ \E e \in Entries :
        LET s == <<bucket, e>>
            victim == table[s]
            other == OtherBucket(victim)
            placed == [table EXCEPT ![s] = hand]
        IN
        \/ /\ AddTo(placed, other, victim)
           /\ stored' = stored \cup {item}
           /\ phase' = "idle" /\ stack' = <<>>
           /\ UNCHANGED <<item, hand, bucket, before>>
        \/ /\ Full(placed, other)
           /\ table' = placed
           /\ stack' = Append(stack, [slot |-> s, f |-> Original(victim)])
           /\ hand' = victim /\ bucket' = other
           /\ UNCHANGED <<phase, item, stored, before>>

GiveUp ==
    /\ phase = "kicking"
    /\ ~KicksLeft
    /\ phase' = "restoring"
    /\ UNCHANGED <<table, chain, stored>>

\* _restore_filter takes the slots from the top of the stack.
TopMutant == 1
Top == Len(stack)

Restore ==
    LET top == stack[Top] IN
    /\ phase = "restoring" /\ stack # <<>>
    /\ table' = [table EXCEPT ![top.slot] = top.f]
    /\ stack' = [i \in 1..(Len(stack) - 1) |-> IF i < Top THEN stack[i] ELSE stack[i + 1]]
    /\ UNCHANGED <<phase, item, hand, bucket, before, stored>>

Fail ==
    /\ phase = "restoring" /\ stack = <<>>
    /\ phase' = "idle"
    /\ UNCHANGED <<table, chain, stored>>

(***************************************************************************)
(* erase, of an item that was inserted (its documentation demands it), and *)
(* lookup.                                                                 *)
(***************************************************************************)
Erase(x) ==
    /\ phase = "idle"
    /\ x \in stored
    /\ \E b \in Pair(x), e \in Entries :
        /\ First(table, b, fp[x], e)
        /\ b # hash[x] => ~Holds(table, hash[x], fp[x])
        /\ table' = [table EXCEPT ![<<b, e>>] = 0]
    /\ stored' = stored \ {x}
    /\ UNCHANGED <<phase, chain>>

Lookup(x) == \E b \in Pair(x) : Holds(table, b, fp[x])

FilterNext ==
    \/ \E x \in Item : Insert(x) \/ Erase(x)
    \/ Kick \/ GiveUp \/ Restore \/ Fail

FilterSpec == FilterInit /\ [][FilterNext]_filterVars

(***************************************************************************)
(* Properties.                                                             *)
(***************************************************************************)

\* An item that was inserted and not erased is found, whatever was evicted, restored
\* or erased since: the filter has no false negatives - but for items whose
\* fingerprint is 0, which insert writes into an empty entry and leaves empty.
NoFalseNegatives ==
    phase = "idle" => \A x \in stored : fp[x] # 0 => Lookup(x)

\* The filter holds each fingerprint in a pair of buckets exactly as often as there
\* are items to which it belongs: evictions neither duplicate nor lose any, and after
\* every item is erased nothing is left that would be taken for an element.
Alike(x) == {y \in stored : fp[y] = fp[x] /\ Pair(y) = Pair(x)}
CopiesExact ==
    phase = "idle" =>
        \A x \in Item :
            (Suitable(x) /\ fp[x] # 0) =>
                Cardinality({s \in Slots : BucketOf(s) \in Pair(x) /\ table[s] = fp[x]})
                    = Cardinality(Alike(x))

\* An insertion that fails after its last kick leaves the filter as it found it,
\* even if the chain passed through the same entry more than once.
FailureRestores ==
    [][(phase = "restoring" /\ phase' = "idle") => table' = before]_filterVars
=============================================================================
