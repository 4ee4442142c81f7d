---------------------------- MODULE MCCPISession ----------------------------
(* Instances of CPISession: which agents meet, and how many elements. *)
EXTENDS CPISession, TLC

CONSTANTS e_a, e_b, e_c, e_d

MCElem == {e_a, e_b, e_c, e_d}
MCTokens == {"t1", "t2"}

Agent(prob, oneWay, hashQ, keepAlive, mbar) ==
    [mod |-> "t1", par |-> "t1", mbar |-> mbar, k |-> 1, prob |-> prob,
     oneWay |-> oneWay, hashQ |-> hashQ, keepAlive |-> keepAlive]

\* CPISync, CPISync with hashes, CPISync_ExistingConnection with hashes,
\* ProbCPISync and CPISync_HalfRound.
Plain(m) == Agent(FALSE, FALSE, FALSE, FALSE, m)
Hashed(m) == Agent(FALSE, FALSE, TRUE, FALSE, m)
Existing(m) == Agent(FALSE, FALSE, TRUE, TRUE, m)
Prob(m) == Agent(TRUE, FALSE, FALSE, FALSE, m)
HalfRound(m) == Agent(FALSE, TRUE, FALSE, FALSE, m)

Pair(x, y) == [client |-> x, server |-> y]
Same(x) == Pair(x, x)

MCMatched ==
    {Same(Plain(2)), Same(Hashed(4)), Same(Prob(3)), Same(HalfRound(2)), Same(Existing(1))}

\* Pairs that differ: in the modulus, in another parameter, and a one-way object and a
\* two-way one, whose SyncIDs differ.
MCPairings ==
    MCMatched \cup
    {Pair(Prob(3), [Prob(3) EXCEPT !.mod = "t2"]),
     Pair(Plain(2), [Plain(1) EXCEPT !.par = "t2"]),
     Pair(Plain(2), [HalfRound(2) EXCEPT !.par = "t2"]),
     Pair(HalfRound(2), [Plain(2) EXCEPT !.par = "t2"])}
=============================================================================
