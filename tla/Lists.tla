-------------------------------- MODULE Lists --------------------------------
(***************************************************************************)
(* What Python's sorted() and a list comprehension with a condition make:  *)
(* a list is told by where each of its elements stands, which is after as  *)
(* many others as come before it.                                          *)
(***************************************************************************)
EXTENDS Naturals, Sequences, FiniteSets

\* The elements of S, each after the ones that come before it.
Sorted(S, Before(_, _)) ==
    [i \in 1..Cardinality(S) |->
        CHOOSE x \in S : Cardinality({y \in S : Before(y, x)}) = i - 1]

\* The elements of a list at some of its places, in their order.
Picked(s, places) ==
    LET kept == Sorted(places, <) IN [i \in 1..Cardinality(places) |-> s[kept[i]]]

=============================================================================
