--------------------------- MODULE MCExchangeSession ---------------------------
(* Instances of ExchangeSession: three elements under a few markings. *)
EXTENDS ExchangeSession, TLC

CONSTANTS e_a, e_b, e_c

MCElem == {e_a, e_b, e_c}
MCTokens == {"t1", "t2"}
MCMarks == 1..4

Marking(a, b, c) == [e \in Elem |-> CASE e = e_a -> a [] e = e_b -> b [] OTHER -> c]

Apart == Marking({1}, {2}, {3, 4})
Alike == Marking({1, 2}, {1, 2}, {3})
Covered == Marking({1, 2}, {3, 4}, {2, 3})
Within == Marking({1, 2}, {1}, {3, 4})

Setup(kind, par, tail, marking) ==
    [agent |-> [client |-> [kind |-> kind, par |-> "t1", tail |-> tail],
                server |-> [kind |-> kind, par |-> par, tail |-> tail]],
     marks |-> marking]

\* FullSync; cuckoo filters in which two elements share a fingerprint, whole and without
\* the last byte, which holds one of their buckets;
\* Bloom filters in which two elements have all the marks of a third between them,
\* or one of them alone; and Bloom filters of different sizes.
MCSetups ==
    {Setup("full", "t1", {}, Apart), Setup("bloom", "t2", {}, Apart)}
    \cup {Setup("cuckoo", "t1", tail, Alike) : tail \in {{}, {2}}}
    \cup {Setup("bloom", "t1", {}, m) : m \in {Covered, Within}}

(***************************************************************************)
(* The marks of a Bloom filter are the bits of a BloomFilter: all filters  *)
(* of up to ten bits, and ones of one bit or none around full bytes.       *)
(***************************************************************************)
B == INSTANCE BloomFilter

OneBit(size) ==
    {[i \in 1..size |-> IF i = j THEN 1 ELSE 0] : j \in 0..size}

ASSUME FiltersConverted ==
    /\ \A size \in 1..10 : \A bits \in [1..size -> {0, 1}] : B!ConversionExact(bits)
    /\ \A size \in {15, 16, 17, 23, 24, 25} : \A bits \in OneBit(size) : B!ConversionExact(bits)
    /\ \A size \in 1..6 : \A bits \in [1..size -> {0, 1}], locs \in SUBSET (1..size) :
          B!FindsAfterSending(bits, locs)
=============================================================================
