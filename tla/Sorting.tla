------------------------------ MODULE Sorting ------------------------------
(***************************************************************************)
(* Sorting and filtering of slices, as the code does with sort.Slice and   *)
(* with loops that append what they keep.  The definitions count instead   *)
(* of recurring: SortSeq and SelectSeq are built into the tools and have   *)
(* no definition that a proof could expand.                                *)
(***************************************************************************)
EXTENDS Integers, Sequences, FiniteSets

\* The elements of a finite set, the r-th being the one that r elements,
\* itself included, are not after.
InOrder(S, NotAfter(_, _)) ==
  [r \in 1 .. Cardinality(S) |->
     CHOOSE x \in S : Cardinality({y \in S : NotAfter(y, x)}) = r]

\* The elements of a sequence at the given positions, in order.
AtPositions(s, positions) ==
  LET NotAfter(i, j) == i <= j
      kept == InOrder(positions, NotAfter)
  IN  [r \in 1 .. Cardinality(positions) |-> s[kept[r]]]

\* The elements of a sequence of numbers, in increasing order.
Sort(s) ==
  LET NotAfter(i, j) == s[i] < s[j] \/ (s[i] = s[j] /\ i <= j)
      sorted == InOrder(DOMAIN s, NotAfter)
  IN  [r \in 1 .. Cardinality(DOMAIN s) |-> s[sorted[r]]]

=============================================================================
