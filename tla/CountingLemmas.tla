--------------------------- MODULE CountingLemmas ---------------------------
(***************************************************************************)
(* How the size of a set changes when one element comes or goes, and what  *)
(* bounds it: what the proofs about reference counts, client counts and    *)
(* memory rest on.                                                         *)
(***************************************************************************)
EXTENDS Integers, FiniteSets, FiniteSetTheorems, TLAPS

Has(S, x) == IF x \in S THEN 1 ELSE 0

\* Two sets that differ in one element at most: their sizes differ by its presence.
LEMMA OneElement ==
    ASSUME NEW A, IsFiniteSet(A), NEW B, NEW x, A \ {x} = B \ {x}
    PROVE  /\ Cardinality(A) \in Nat
           /\ Cardinality(B) = Cardinality(A) - Has(A, x) + Has(B, x)
<1> DEFINE C == A \ {x}
<1>1. Cardinality(A) \in Nat
  BY FS_CardinalityType
<1>2. IsFiniteSet(C) /\ Cardinality(C) = Cardinality(A) - Has(A, x)
  <2>1. IsFiniteSet(C) /\ Cardinality(C) = IF x \in A THEN Cardinality(A) - 1
                                                       ELSE Cardinality(A)
    BY FS_RemoveElement
  <2>2. QED
    BY <1>1, <2>1 DEF Has
<1>3. x \notin C
  OBVIOUS
<1>4. CASE x \in B
  <2>1. B = C \cup {x}
    BY <1>4
  <2>2. Cardinality(B) = Cardinality(C) + 1
    BY <1>2, <1>3, <2>1, FS_AddElement
  <2>3. QED
    BY <1>1, <1>2, <1>4, <2>2 DEF Has
<1>5. CASE x \notin B
  <2>1. B = C
    BY <1>5
  <2>2. Has(B, x) = 0
    BY <1>5 DEF Has
  <2>3. Cardinality(B) = Cardinality(C)
    BY <2>1
  <2>4. Has(A, x) \in {0, 1}
    BY DEF Has
  <2>5. QED
    BY <1>1, <1>2, <2>2, <2>3, <2>4
<1>6. QED
  BY <1>1, <1>4, <1>5

\* A function has no more values than arguments.
LEMMA ValuesBounded ==
    ASSUME NEW S, IsFiniteSet(S), NEW g, NEW T, g \in [S -> T]
    PROVE  /\ IsFiniteSet({g[x] : x \in S})
           /\ Cardinality({g[x] : x \in S}) <= Cardinality(S)
<1> DEFINE V == {g[x] : x \in S}
<1>1. g \in Surjection(S, V)
  BY DEF Surjection
<1>2. QED
  BY <1>1, FS_Surjection
=============================================================================
