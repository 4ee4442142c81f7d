----------------------------- MODULE CPIReconcile -----------------------------
(***************************************************************************)
(* The numbers behind CPISync: how many evaluations of the characteristic  *)
(* polynomial are sent, which ones, and when the rational function between *)
(* two sets can be interpolated from them (CPISync.cpp, ratFuncInterp and  *)
(* set_reconcile).  The field arithmetic itself is abstracted: an attempt  *)
(* whose degree bounds do not cover the differences is caught by the       *)
(* redundant evaluations (up to the 2^-epsilon error the code accepts).    *)
(***************************************************************************)
EXTENDS Integers, Sequences, FiniteSets

\* The parameters of a CPISync object (its constructor, and the subclasses that
\* set probCPI, oneWay and keepAlive).  mod stands for the ZZ_p modulus, par for
\* (SyncID, maxDiff, bitNum, probEps): the two things the handshake compares.
AgentType(Tokens) ==
    [mod : Tokens, par : Tokens, mbar : Nat \ {0}, k : Nat \ {0},
     prob : BOOLEAN, oneWay : BOOLEAN, hashQ : BOOLEAN, keepAlive : BOOLEAN]

Least(a, b) == IF a <= b THEN a ELSE b

\* Division by two as C++ does it, rounding towards zero.
Halve(x) == IF x >= 0 THEN x \div 2 ELSE -((-x) \div 2)

\* The points from..from+n-1, as indices of sampleLoc and CPI_evals.
Points(from, n) == [j \in 1..n |-> from + j - 1]

\* currDiff at the start of a sync: probCPI starts again from one difference.
StartDiff(a, m) == IF a.prob THEN 1 ELSE m

\* The evaluations the client sends first: currDiff of them, then k redundant.
FirstPoints(a, m) == Points(0, m + a.k)

\* The evaluations it sends after a FAIL flag, and the next currDiff.
MorePointsMutant(a, m) == Points(m, Least(m, a.mbar - m))
MorePoints(a, m) == Points(m + a.k, Least(m, a.mbar - m))
NextDiff(a, m) == Least(2 * m, a.mbar)

\* After a FAIL flag both sides give up when no larger attempt is allowed.
GivesUp(a, m) == ~a.prob \/ m = a.mbar

\* Upper bounds on the degrees of numerator and denominator, from the number of
\* evaluations and the two set sizes (theirs, mine).
NumeratorBound(m, theirs, mine) == Halve(m + (theirs - mine))
DenominatorBound(m, theirs, mine) == Halve(m - (theirs - mine))

\* The bounds leave room for others - my elements I miss and mine - theirs.
Interpolates(m, theirs, mine) ==
    /\ Cardinality(theirs \ mine)
         <= NumeratorBound(m, Cardinality(theirs), Cardinality(mine))
    /\ Cardinality(mine \ theirs)
         <= DenominatorBound(m, Cardinality(theirs), Cardinality(mine))

\* set_reconcile and the redundancy check that follows it.  An empty peer needs
\* no interpolation; an empty set of mine ends with no difference found, which
\* the redundancy check refuses because the peer is not empty.
Reconciles(m, theirs, mine) ==
    \/ theirs = {}
    \/ theirs # {} /\ mine # {} /\ Interpolates(m, theirs, mine)

\* recv_meta[0..n-1] are the peer's evaluations at the points 0..n-1, in order.
Aligned(recvMeta, n) ==
    n <= Len(recvMeta) /\ \A j \in 1..n : recvMeta[j] = j - 1
=============================================================================
