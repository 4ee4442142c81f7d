------------------------------- MODULE MCCuckoo -------------------------------
(* An instance of Cuckoo whose alternative buckets are the code's, by xor. *)
EXTENDS Cuckoo, Bitwise

\* _alternativeBucket: (currentB ^ hash(f)) % filterSize.
AlternativeBucket(b, hashOfFp) == (b ^^ hashOfFp) % FilterSize

MCFingerprint == {0, 1, 2}
MCHashOfFp == [f \in MCFingerprint |-> f]
MCAlternative ==
    [b \in Buckets |-> [f \in MCFingerprint |-> AlternativeBucket(b, MCHashOfFp[f])]]

\* x1..x5 share the buckets 0 and 1, y1..y3 the buckets 0 and 2; z has fingerprint 0;
\* u hashes to bucket 2 with fingerprint 1, which its alternative bucket 0 would send
\* to bucket 1.
MCItem == {"x1", "x2", "x3", "x4", "y1", "y2", "y3", "z", "u"}
MCfp ==
    [x \in MCItem |-> CASE x \in {"x1", "x2", "x3", "x4", "u"} -> 1
                        [] x \in {"y1", "y2", "y3"} -> 2
                        [] OTHER -> 0]
MChash ==
    [x \in MCItem |-> CASE x \in {"x1", "x2", "y1", "z"} -> 0
                        [] x \in {"x3", "x4"} -> 1
                        [] OTHER -> 2]

(***************************************************************************)
(* The entries are those of a Compact2DBitArray: tables of two buckets of  *)
(* two entries, of every width, all bits 0 or all bits 1, and fingerprints *)
(* of one bit or of all.                                                   *)
(***************************************************************************)
A == INSTANCE Compact2DBitArray

BitArray(fSize, byte) ==
    [fSize |-> fSize, bSize |-> 2, nBuckets |-> 2,
     store |-> [i \in 0..A!StoreSize(fSize, 2, 2) - 1 |-> byte]]

ASSUME EntriesPacked ==
    \A fSize \in 1..30, byte \in {0, 255} :
        \A f \in {0, 2^fSize - 1} \cup {2^i : i \in 0..fSize - 1} :
            A!PackingExact(BitArray(fSize, byte), f)
=============================================================================
