--------------------------- MODULE MCInterCPISession ---------------------------
(* Instances of InterCPISession: four elements at eight positions. *)
EXTENDS InterCPISession, TLC

CONSTANTS e_a, e_b, e_c, e_d

MCElem == {e_a, e_b, e_c, e_d}
MCTokens == {"t1", "t2"}

At(a, b, c, d) ==
    [e \in Elem |-> CASE e = e_a -> a [] e = e_b -> b [] e = e_c -> c [] OTHER -> d]

\* One position each, two of them neighbours and one the last; two, three or all
\* elements at one position, in the middle of the range or at its ends.
Spread == At(0, 3, 4, 7)
Pairs == At(2, 2, 7, 7)
Crowd3 == At(5, 5, 5, 6)
Crowd4 == At(0, 0, 0, 0)

Agent(mbar, pFactor, hashes) ==
    [mod |-> "t1", par |-> "t1", mbar |-> mbar, pFactor |-> pFactor, hashes |-> hashes]
Setup(a, b, p) == [agent |-> [client |-> a, server |-> b], pos |-> p]
Same(a, p) == Setup(a, a, p)

\* Parts of equal sizes, parts that leave a longer one at the end, and more parts
\* than positions.
MCSetups ==
    {Same(Agent(1, p, FALSE), Spread) : p \in {2, 3, 5}}
    \cup {Same(Agent(1, 3, TRUE), Pairs), Same(Agent(1, 2, TRUE), Crowd3),
          Same(Agent(2, 5, TRUE), Crowd3), Same(Agent(3, 3, TRUE), Crowd4)}
    \cup {Setup(Agent(1, 2, FALSE), [Agent(2, 2, FALSE) EXCEPT !.par = "t2"], Spread),
          Setup(Agent(1, 2, FALSE), [Agent(2, 2, FALSE) EXCEPT !.mod = "t2"], Spread)}
=============================================================================
