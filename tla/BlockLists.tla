------------------------------ MODULE BlockLists ------------------------------
(***************************************************************************)
(* Lists of KV-cache blocks: the operations of Python lists and of the     *)
(* free queue that the block pool is built from.  Nothing here is          *)
(* recursive, so that the proofs about the block pool can use it.          *)
(***************************************************************************)
EXTENDS Integers, Sequences, FiniteSets, Functions

\* The positions of the list s that hold a member of S.
PositionsOf(s, S) == {i \in DOMAIN s : s[i] \in S}

\* How many of the chosen positions are at or before position i.
Rank(at, i) == Cardinality({j \in at : j <= i})

\* The list comprehension [x for x in s if x in S]: the members of S in s,
\* in the order s has them.
Keep(s, S) ==
    LET at == PositionsOf(s, S)
    IN  [k \in 1 .. Cardinality(at) |-> s[CHOOSE i \in at : Rank(at, i) = k]]

\* reversed(s)
Reversed(s) == [i \in 1 .. Len(s) |-> s[Len(s) - i + 1]]

\* How far a loop over positions 1, 2, ... gets before it meets one outside S.
LeadingRun(S) == Cardinality({i \in S : 1 .. i \subseteq S})

\* cdiv(a, b) of vllm.utils: division rounded up.
Cdiv(a, b) == (a + b - 1) \div b

\* The larger and the smaller of two numbers.
Larger(a, b) == IF a >= b THEN a ELSE b
Smaller(a, b) == IF a <= b THEN a ELSE b
===============================================================================
