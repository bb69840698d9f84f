------------------------------- MODULE Ordering -------------------------------
(***************************************************************************)
(* What the ORDER BY of a query and the filter of a list do to a sequence. *)
(***************************************************************************)
EXTENDS Integers, FiniteSets

\* The places of a function to integers, by their value and, where two are equal,
\* by themselves.
Ordered(key) ==
    LET earlier(j, i) == key[j] < key[i] \/ (key[j] = key[i] /\ j < i)
        rank(i) == Cardinality({j \in DOMAIN key : earlier(j, i)})
    IN [k \in 1..Cardinality(DOMAIN key) |-> CHOOSE i \in DOMAIN key : rank(i) = k - 1]

\* The elements of a sequence that have a key, in the order of the keys.
Arranged(s, key) == LET order == Ordered(key) IN [k \in DOMAIN order |-> s[order[k]]]

\* Those at some of its places, in the order they are in.
Chosen(s, places) == Arranged(s, [i \in places |-> i])
===============================================================================
