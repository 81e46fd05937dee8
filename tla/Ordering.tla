------------------------------ MODULE Ordering -----------------------------
(***************************************************************************)
(* Finite sets of numbers in their order, which is what a loop over an     *)
(* ordered list or a filter over its places goes through, and loops over   *)
(* lists.                                                                  *)
(***************************************************************************)
EXTENDS Naturals, Sequences, FiniteSets

Least(S) == CHOOSE i \in S : \A j \in S : i <= j
Greatest(S) == CHOOSE i \in S : \A j \in S : i >= j

\* How far up in S the number i is.
Rank(i, S) == Cardinality({j \in S : j <= i})

InOrder(S) == [n \in 1..Cardinality(S) |-> CHOOSE i \in S : Rank(i, S) = n]

\* The elements of s at the places S.
Only(s, S) == [n \in 1..Cardinality(S) |-> s[InOrder(S)[n]]]

\* s without its n-th element.
Without(s, n) == SubSeq(s, 1, n - 1) \o SubSeq(s, n + 1, Len(s))

\* What a loop makes of `first' that does op with each element of s in turn.
Loop(op(_, _), first, s) ==
  LET after[n \in 0..Len(s)] == IF n = 0 THEN first ELSE op(after[n - 1], s[n])
  IN after[Len(s)]

=============================================================================
