----------------------------- MODULE Selections -----------------------------
(***************************************************************************)
(* Parts of a sequence, and its order.  The elements to keep are given by  *)
(* their positions, a set, where SelectSeq takes a test, an operator that  *)
(* no prover can instantiate; SortSeq takes one, too.  Put adds an entry   *)
(* to a dictionary: @@ and :> have no definition the provers could expand. *)
(***************************************************************************)
EXTENDS Naturals, Sequences, FiniteSets

IsList(s) == Len(s) \in Nat /\ s = [i \in 1 .. Len(s) |-> s[i]]

\* The n-th of a set of numbers, from the least on.
Nth(K, n) == CHOOSE i \in K : Cardinality({j \in K : j <= i}) = n

\* The elements of s at the positions in K, in their order.
Select(s, K) == [n \in 1 .. Cardinality(K) |-> s[Nth(K, n)]]

\* The least of a set of positions; 0 when there is none.
Earliest(K) == IF K = {} THEN 0 ELSE CHOOSE i \in K : \A j \in K : i <= j

\* The numbers of s in ascending order.
Sorted(s) ==
    [n \in DOMAIN s |->
        s[CHOOSE i \in DOMAIN s :
            Cardinality({j \in DOMAIN s : s[j] < s[i] \/ (s[j] = s[i] /\ j <= i)}) = n]]

\* The dictionary d with v under the name k.
Put(d, k, v) == [i \in DOMAIN d \cup {k} |-> IF i = k THEN v ELSE d[i]]
=============================================================================
