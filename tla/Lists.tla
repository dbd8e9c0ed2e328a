------------------------------- MODULE Lists --------------------------------
(* The sequence operators of the modules that have proofs.  SequencesExt   *)
(* has operators like them, but it extends Bags, and every definition a    *)
(* module reaches is part of the context of each of its proof obligations. *)
EXTENDS Integers, Sequences, FiniteSets, FiniteSetsExt

\* op(... op(op(base, s[1]), s[2]) ..., s[n])
LeftFold(op(_, _), base, s) ==
  LET upTo[i \in 0 .. Len(s)] == IF i = 0 THEN base ELSE op(upTo[i - 1], s[i])
  IN  upTo[Len(s)]

\* The sequences of a sequence, one after the other.
Joined(ss) == LeftFold(LAMBDA t, s : t \o s, <<>>, ss)

\* The elements of s at the places in T, in their order.
AtPlaces(s, T) ==
  [k \in 1 .. Cardinality(T) |-> s[CHOOSE i \in T : Cardinality({j \in T : j <= i}) = k]]

Backwards(s) == [i \in 1 .. Len(s) |-> s[Len(s) + 1 - i]]

\* The elements of a finite set in the order of the strict total order Before.
SortedBy(S, Before(_, _)) ==
  CHOOSE s \in [1 .. Cardinality(S) -> S] :
    \A i, j \in DOMAIN s : i < j => Before(s[i], s[j])
=============================================================================
