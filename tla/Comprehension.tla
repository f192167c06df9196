---------------------------- MODULE Comprehension -----------------------------
(***************************************************************************)
(* The list comprehension of Python, [x for x in s if ...], which hubcore  *)
(* uses wherever it filters a list and keeps its order.                    *)
(***************************************************************************)
EXTENDS Naturals, FiniteSets

\* The elements of s at the positions of I, in their order.
Picked(s, I) ==
    [p \in 1..Cardinality(I) |->
        s[CHOOSE i \in I : Cardinality({j \in I : j < i}) = p - 1]]
===============================================================================
