--------------------------- MODULE Compact2DBitArray ---------------------------
(***************************************************************************)
(* Compact2DBitArray: a table of entries of fSize bits each, packed into   *)
(* bytes, in which an entry shares its first and last byte with its        *)
(* neighbours.  An array a has the fields fSize, bSize (entries per        *)
(* bucket), nBuckets and store, the bytes from 0.                          *)
(*                                                                         *)
(* Widths up to 30 bits, of the 32 that the constructor allows, fit the    *)
(* integers of the model checker.                                          *)
(***************************************************************************)
EXTENDS Integers, Sequences, Bitwise

BYTE == 8
CeilDiv(m, n) == (m + n - 1) \div n

\* Shifts of an unsigned char.
ShiftLeft(x, n) == (x * 2^n) % 2^BYTE
ShiftRight(x, n) == x \div 2^n

StoreSize(fSize, bSize, nBuckets) == CeilDiv(fSize * bSize * nBuckets, BYTE)

\* Where an entry begins and ends.
Prelim(a, bucket, entry) ==
    LET first == a.fSize * a.bSize * bucket + a.fSize * entry
    IN  [fstByte |-> first \div BYTE,
         lstByte |-> (first + a.fSize - 1) \div BYTE,
         onsetBits |-> first % BYTE,
         offsetBits |-> (first + a.fSize) % BYTE]

GetEntry(a, bucket, entry) ==
    LET p == Prelim(a, bucket, entry)
        fstP == a.store[p.fstByte] & (2^(BYTE - p.onsetBits) - 1)
        lstP == ShiftRight(a.store[p.lstByte], (BYTE - p.offsetBits) % BYTE)
        upTo[ii \in 0..p.lstByte - p.fstByte] ==
            IF ii = 0 THEN fstP ELSE (upTo[ii - 1] * 2^BYTE) | a.store[p.fstByte + ii]
        last == IF p.offsetBits = 0 THEN BYTE ELSE p.offsetBits
    IN  IF p.lstByte > p.fstByte
        THEN (upTo[p.lstByte - p.fstByte - 1] * 2^last) | lstP
        ELSE ShiftRight(a.store[p.fstByte], BYTE - p.onsetBits - a.fSize) & (2^a.fSize - 1)

\* The bytes of a fingerprint, the most significant first.
FBytes(a, f) ==
    LET fSizeB == CeilDiv(a.fSize, BYTE)
    IN  [i \in 1..fSizeB |-> (f \div 2^(BYTE * (fSizeB - i))) % 2^BYTE]

\* The next eight bits of f after the cons most significant of its fSize.
NextFByte(a, f, cons) ==
    LET r == a.fSize - cons
        left == r % BYTE
        ms == Len(f) - r \div BYTE + IF left = 0 THEN 1 ELSE 0
    IN  CASE r < BYTE -> ShiftLeft(Head(f), BYTE - r)
          [] r >= BYTE /\ left = 0 -> f[ms]
          [] r >= BYTE /\ left # 0 ->
                ShiftLeft(f[ms], BYTE - left) | ShiftRight(f[ms + 1], left)

\* An entry within a byte, and one that begins in one byte and ends in another.
SetWithin(a, p, f) ==
    LET rest == BYTE - p.onsetBits - a.fSize
        old == a.store[p.fstByte]
        fstP == ShiftRight(old, BYTE - p.onsetBits)
        lstP == old & (2^rest - 1)
    IN  [a EXCEPT !.store[p.fstByte] =
            (ShiftLeft(fstP, BYTE - p.onsetBits) | ShiftLeft(f % 2^BYTE, rest)) | lstP]

SetAcross(a, p, f) ==
    LET fBytes == FBytes(a, f)
        consumed(ii) == BYTE - p.onsetBits + BYTE * (ii - 1)
        onsetP == ShiftLeft(ShiftRight(a.store[p.fstByte], BYTE - p.onsetBits),
                            BYTE - p.onsetBits)
        lstBits == a.fSize - consumed(p.lstByte - p.fstByte)
        lst == ShiftLeft(fBytes[Len(fBytes)], BYTE - lstBits)
        kept == IF p.offsetBits = 0 THEN 0
                ELSE a.store[p.lstByte] & (2^(BYTE - p.offsetBits) - 1)
    IN  [a EXCEPT !.store = [i \in DOMAIN a.store |->
            CASE i = p.fstByte ->
                    ShiftRight(NextFByte(a, fBytes, 0), p.onsetBits) | onsetP
              [] i \in p.fstByte + 1..p.lstByte - 1 ->
                    NextFByte(a, fBytes, consumed(i - p.fstByte))
              [] i = p.lstByte -> lst | kept
              [] OTHER -> a.store[i]]]

SetEntry(a, bucket, entry, f) ==
    LET p == Prelim(a, bucket, entry)
    IN  IF p.lstByte = p.fstByte THEN SetWithin(a, p, f) ELSE SetAcross(a, p, f)

(***************************************************************************)
(* The reference: a table of numbers.                                      *)
(***************************************************************************)
Positions(a) == (0..a.nBuckets - 1) \X (0..a.bSize - 1)

\* setEntry writes the entry it is given and no other, wherever it lies among the bytes
\* and whatever they hold, and leaves the bits after the last entry as they are.
PackingExact(a, f) ==
    \A pos \in Positions(a) :
        LET after == SetEntry(a, pos[1], pos[2], f)
            free == BYTE * (CeilDiv(a.fSize * a.bSize * a.nBuckets, BYTE))
                        - a.fSize * a.bSize * a.nBuckets
            end == StoreSize(a.fSize, a.bSize, a.nBuckets) - 1
        IN  /\ \A q \in Positions(a) :
                  GetEntry(after, q[1], q[2]) =
                      IF q = pos THEN f ELSE GetEntry(a, q[1], q[2])
            /\ after.store[end] % 2^free = a.store[end] % 2^free
=============================================================================
