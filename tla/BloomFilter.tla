------------------------------ MODULE BloomFilter ------------------------------
(***************************************************************************)
(* BloomFilter: its bits, from 1 to its size, and the number that a filter *)
(* is sent as.  A number is the sequence of its bytes, the lowest first,   *)
(* of which the last is not 0; the hashes of a value are given as the      *)
(* places of the bits that they choose.                                    *)
(***************************************************************************)
EXTENDS Integers, SequencesExt

CHAR_BIT == 8

NewFilter(size) == [i \in 1..size |-> 0]
Insert(bits, locs) == [i \in DOMAIN bits |-> IF i \in locs THEN 1 ELSE bits[i]]
Exist(bits, locs) == \A i \in locs : bits[i] = 1

Byte(bits, first) ==
    FoldLeft(LAMBDA n, j : n + IF first + j <= Len(bits) THEN bits[first + j] * 2^(j - 1) ELSE 0,
             0, [j \in 1..CHAR_BIT |-> j])

\* ZZFromBytes drops the high bytes that are 0.
Number(bytes) ==
    SubSeq(bytes, 1, Max({0} \cup {i \in DOMAIN bytes : bytes[i] # 0}))

ToZZ(bits) ==
    LET temp == Reverse(bits)
    IN  Number([i \in 1..(Len(bits) + CHAR_BIT - 1) \div CHAR_BIT |->
                    Byte(temp, CHAR_BIT * (i - 1))])

\* The bits that ZZtoBF writes: whole bytes, which may be more than size.
Written(size, bytes) ==
    [i \in 1..Max({size, CHAR_BIT * Len(bytes)}) |->
        IF i > CHAR_BIT * Len(bytes) THEN 0
        ELSE (bytes[(i - 1) \div CHAR_BIT + 1] \div 2^((i - 1) % CHAR_BIT)) % 2]

ZZtoBF(size, bytes) == Reverse(SubSeq(Written(size, bytes), 1, size))

\* A filter is read back as it was sent, whatever its size; what is written beyond its
\* end, when the size is no multiple of eight, are zeros within the last byte, which the
\* words of a vector<bool> have room for.
ConversionExact(bits) ==
    LET size == Len(bits)
        bytes == ToZZ(bits)
        written == Written(size, bytes)
    IN  /\ ZZtoBF(size, bytes) = bits
        /\ Len(written) < size + CHAR_BIT
        /\ \A i \in DOMAIN written : i > size => written[i] = 0

\* What was inserted is found, also after the filter was sent.
FindsAfterSending(bits, locs) ==
    Exist(ZZtoBF(Len(bits), ToZZ(Insert(bits, locs))), locs)
=============================================================================
