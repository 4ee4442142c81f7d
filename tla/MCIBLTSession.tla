---------------------------- MODULE MCIBLTSession ----------------------------
(* Instances of IBLTSession: three elements in three cells. *)
EXTENDS IBLTSession, TLC

CONSTANTS e_a, e_b, e_c

MCElem == {e_a, e_b, e_c}
MCTokens == {"t1", "t2"}
MCCells == {1, 2, 3}

Placement(a, b, c) == [e \in Elem |-> CASE e = e_a -> a [] e = e_b -> b [] OTHER -> c]

\* Placements with each kind of core: none, two elements in the same cells, all
\* three, a cycle in which each pair shares a cell, and a chain that peels from one
\* end; one or two cells an element, as hash functions that collide give.
MCPlaces ==
    { Placement({1}, {2}, {3}),
      Placement({1, 2}, {1, 2}, {3}),
      Placement({1, 2}, {1, 2}, {1, 2}),
      Placement({1, 2}, {2, 3}, {1, 3}),
      Placement({1}, {1, 2}, {2, 3}) }

Agent(size, oneWay) == [size |-> size, oneWay |-> oneWay]
Pair(x, y) == [client |-> x, server |-> y]

\* IBLTSync and IBLTSync_HalfRound with tables of equal and of different sizes, and
\* the two of them against one another.
MCPairings ==
    {Pair(Agent("t1", w), Agent(t, w)) : w \in BOOLEAN, t \in MCTokens}
    \cup {Pair(Agent("t1", w), Agent("t1", ~w)) : w \in BOOLEAN}

MCTwoWay == {Pair(Agent("t1", FALSE), Agent("t1", FALSE))}
=============================================================================
