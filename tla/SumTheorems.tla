---------------------------- MODULE SumTheorems -----------------------------
(***************************************************************************)
(* What the proofs need of SumFunctionOnSet, the sum of a function over a  *)
(* finite set: that it obeys its recursive equation, that any element may  *)
(* be taken out of it, and how it compares with another sum.               *)
(*                                                                         *)
(* Induction over the finite set is done without an operator for the       *)
(* hypothesis: a set of counterexamples has a smallest one, SmallestBad.   *)
(***************************************************************************)
EXTENDS Integers, FiniteSets, Functions, FiniteSetTheorems, TLAPS

\* Among subsets of a finite set is one that is in Bad no longer when it
\* loses any of its elements.
LEMMA SmallestBad ==
  ASSUME NEW S, IsFiniteSet(S), NEW Bad \in SUBSET SUBSET S, Bad # {}
  PROVE  \E T \in Bad : IsFiniteSet(T) /\ \A x \in T : T \ {x} \notin Bad
<1>1. IsWellFoundedOn(StrictSubsetOrdering(S), FiniteSubsetsOf(S))
  BY FS_StrictSubsetOrderingWellFounded
<1>2. FiniteSubsetsOf(S) = SUBSET S
  BY FS_FiniteSubsetsOfFinite
<1>3. PICK T \in Bad : \A U \in Bad : ~ (<<U, T>> \in StrictSubsetOrdering(S))
  BY <1>1, <1>2, WFMin
<1>4. IsFiniteSet(T)
  BY FS_Subset
<1>5. ASSUME NEW x \in T
      PROVE  T \ {x} \notin Bad
  BY <1>3, <1>5 DEF StrictSubsetOrdering
<1>6. QED
  BY <1>4, <1>5

\* A set of natural numbers has a smallest element.
LEMMA SmallestOf ==
  ASSUME NEW N \in SUBSET Nat, N # {}
  PROVE  \E n \in N : \A m \in N : n <= m
<1>1. IsWellFoundedOn(OpToRel(<, Nat), Nat)
  BY NatLessThanWellFounded
<1>2. PICK n \in N : \A m \in N : ~ (<<m, n>> \in OpToRel(<, Nat))
  BY <1>1, WFMin
<1>3. \A m \in N : ~ (m < n)
  BY <1>2 DEF OpToRel
<1>4. QED
  BY <1>3

-----------------------------------------------------------------------------
\* One unfolding of the sum of f, with g for the sum over a smaller set.
Unfold(g, f, s) ==
  IF s = {} THEN 0
  ELSE f[CHOOSE x \in s : TRUE] + g[s \ {CHOOSE x \in s : TRUE}]

Sums(g, f, S) == g = [s \in SUBSET S |-> Unfold(g, f, s)]

\* The recursive definition of the sum has a solution.
LEMMA SumsExist ==
  ASSUME NEW S, IsFiniteSet(S), NEW f
  PROVE  \E g : Sums(g, f, S)
<1> DEFINE UpTo(g, n) == \A s \in SUBSET S :
             Cardinality(s) <= n => g[s] = Unfold(g, f, s)
           Bad == {n \in Nat : ~ \E g : UpTo(g, n)}
<1>1. \A s \in SUBSET S : IsFiniteSet(s) /\ Cardinality(s) \in Nat
  BY FS_Subset, FS_CardinalityType
<1>2. ASSUME Bad # {}
      PROVE  FALSE
  <2>1. PICK n \in Bad : \A m \in Bad : n <= m
    BY <1>2, SmallestOf
  <2>2. CASE n = 0
    <3>1. UpTo([s \in SUBSET S |-> 0], 0)
      BY <1>1, FS_EmptySet DEF Unfold
    <3>2. QED
      BY <2>2, <3>1
  <2>3. CASE n # 0
    <3>1. n - 1 \in Nat /\ n - 1 \notin Bad
      BY <2>1, <2>3
    <3>2. PICK g : UpTo(g, n - 1)
      BY <3>1
    <3> DEFINE h == [s \in SUBSET S |-> Unfold(g, f, s)]
    <3>3. ASSUME NEW s \in SUBSET S, Cardinality(s) <= n
          PROVE  h[s] = Unfold(h, f, s)
      <4> DEFINE x == CHOOSE y \in s : TRUE
      <4>1. CASE s = {}
        BY <4>1 DEF Unfold
      <4>2. CASE s # {}
        <5>1. x \in s /\ s \ {x} \in SUBSET S
          BY <4>2
        <5>2. Cardinality(s \ {x}) <= n - 1
          <6>1. IsFiniteSet(s) /\ Cardinality(s) \in Nat
            BY <1>1
          <6>2. Cardinality(s \ {x}) = Cardinality(s) - 1
            BY <5>1, <6>1, FS_RemoveElement
          <6>3. QED
            BY <3>1, <3>3, <6>1, <6>2
        <5>3. g[s \ {x}] = h[s \ {x}]
          BY <3>2, <5>1, <5>2
        <5>4. QED
          BY <4>2, <5>3 DEF Unfold
      <4>3. QED
        BY <4>1, <4>2
    <3>4. UpTo(h, n)
      BY <3>3
    <3>5. QED
      BY <3>4
  <2>4. QED
    BY <2>2, <2>3
<1>3. Cardinality(S) \in Nat /\ \A s \in SUBSET S : Cardinality(s) <= Cardinality(S)
  BY <1>1, FS_Subset
<1>4. PICK g : UpTo(g, Cardinality(S))
  BY <1>2, <1>3
<1> DEFINE h == [s \in SUBSET S |-> Unfold(g, f, s)]
<1>5. \A s \in SUBSET S : g[s] = h[s]
  BY <1>3, <1>4
<1>6. ASSUME NEW s \in SUBSET S
      PROVE  h[s] = Unfold(h, f, s)
  <2>1. s # {} => s \ {CHOOSE x \in s : TRUE} \in SUBSET S
    OBVIOUS
  <2>2. QED
    BY <1>5, <2>1 DEF Unfold
<1>7. h = [s \in SUBSET S |-> Unfold(h, f, s)]
  BY <1>6
<1>8. QED
  BY <1>7 DEF Sums

\* SumFunctionOnSet is such a solution.
LEMMA SumIsSolution ==
  ASSUME NEW S, IsFiniteSet(S), NEW f
  PROVE  \E g : Sums(g, f, S) /\ SumFunctionOnSet(f, S) = g[S]
<1>1. \E g : g = [s \in SUBSET S |-> Unfold(g, f, s)]
  <2>1. PICK g : Sums(g, f, S)
    BY SumsExist
  <2>2. g = [s \in SUBSET S |-> Unfold(g, f, s)]
    BY <2>1 DEF Sums
  <2>3. QED
    BY <2>2
<1> DEFINE iter[s \in SUBSET S] ==
      IF s = {} THEN 0
      ELSE f[CHOOSE x \in s : TRUE] + iter[s \ {CHOOSE x \in s : TRUE}]
<1>2. iter = [s \in SUBSET S |-> Unfold(iter, f, s)]
  BY <1>1 DEF Unfold
<1>3. SumFunctionOnSet(f, S) = iter[S]
  BY DEF SumFunctionOnSet, FoldFunctionOnSet, MapThenFoldSet
<1>4. QED
  BY <1>2, <1>3 DEF Sums

\* Two solutions agree where both are defined.
LEMMA SumsAgree ==
  ASSUME NEW S, IsFiniteSet(S), NEW T \in SUBSET S, NEW f, NEW g, NEW h,
         Sums(g, f, S), Sums(h, f, T)
  PROVE  g[T] = h[T]
<1> DEFINE Bad == {s \in SUBSET T : g[s] # h[s]}
<1>1. IsFiniteSet(T)
  BY FS_Subset
<1>2. ASSUME Bad # {}
      PROVE  FALSE
  <2>1. PICK s \in Bad : \A x \in s : s \ {x} \notin Bad
    BY <1>1, <1>2, SmallestBad
  <2>2. g[s] = Unfold(g, f, s) /\ h[s] = Unfold(h, f, s)
    BY DEF Sums
  <2>3. s # {} => g[s \ {CHOOSE x \in s : TRUE}] = h[s \ {CHOOSE x \in s : TRUE}]
    BY <2>1
  <2>4. QED
    BY <2>1, <2>2, <2>3 DEF Unfold
<1>3. QED
  BY <1>2

-----------------------------------------------------------------------------
LEMMA SumEmpty == ASSUME NEW f PROVE SumFunctionOnSet(f, {}) = 0
BY SumIsSolution, FS_EmptySet DEF Sums, Unfold

LEMMA SumChosen ==
  ASSUME NEW S, IsFiniteSet(S), S # {}, NEW f
  PROVE  SumFunctionOnSet(f, S)
           = f[CHOOSE x \in S : TRUE]
               + SumFunctionOnSet(f, S \ {CHOOSE x \in S : TRUE})
<1> DEFINE x == CHOOSE y \in S : TRUE
           T == S \ {x}
<1>1. PICK g : Sums(g, f, S) /\ SumFunctionOnSet(f, S) = g[S]
  BY SumIsSolution
<1>2. IsFiniteSet(T)
  BY FS_Subset
<1>3. PICK h : Sums(h, f, T) /\ SumFunctionOnSet(f, T) = h[T]
  BY <1>2, SumIsSolution
<1>4. g[T] = h[T]
  BY <1>1, <1>3, SumsAgree
<1>5. g[S] = f[x] + g[T]
  BY <1>1 DEF Sums, Unfold
<1>6. QED
  BY <1>1, <1>3, <1>4, <1>5

\* The sum of natural numbers is one.
LEMMA SumType ==
  ASSUME NEW S, IsFiniteSet(S), NEW f, \A x \in S : f[x] \in Nat
  PROVE  SumFunctionOnSet(f, S) \in Nat
<1> DEFINE Bad == {T \in SUBSET S : SumFunctionOnSet(f, T) \notin Nat}
<1>1. ASSUME Bad # {}
      PROVE  FALSE
  <2>1. PICK T \in Bad : IsFiniteSet(T) /\ \A x \in T : T \ {x} \notin Bad
    BY <1>1, SmallestBad
  <2>2. T # {}
    BY SumEmpty
  <2> DEFINE x == CHOOSE y \in T : TRUE
  <2>3. x \in T
    BY <2>2
  <2>4. SumFunctionOnSet(f, T \ {x}) \in Nat /\ f[x] \in Nat
    BY <2>1, <2>3
  <2>5. SumFunctionOnSet(f, T) = f[x] + SumFunctionOnSet(f, T \ {x})
    BY <2>1, <2>2, SumChosen
  <2>6. QED
    BY <2>4, <2>5
<1>2. QED
  BY <1>1

\* Any element may be taken out of the sum.
LEMMA SumRemove ==
  ASSUME NEW S, IsFiniteSet(S), NEW f, \A x \in S : f[x] \in Nat, NEW x \in S
  PROVE  SumFunctionOnSet(f, S) = f[x] + SumFunctionOnSet(f, S \ {x})
<1> DEFINE Bad == {T \in SUBSET S : \E y \in T :
             SumFunctionOnSet(f, T) # f[y] + SumFunctionOnSet(f, T \ {y})}
<1>1. ASSUME Bad # {}
      PROVE  FALSE
  <2>1. PICK T \in Bad : IsFiniteSet(T) /\ \A y \in T : T \ {y} \notin Bad
    BY <1>1, SmallestBad
  <2>2. PICK y \in T :
          SumFunctionOnSet(f, T) # f[y] + SumFunctionOnSet(f, T \ {y})
    BY <2>1
  <2> DEFINE z == CHOOSE w \in T : TRUE
             R == T \ {y, z}
  <2>3. z \in T /\ SumFunctionOnSet(f, T) = f[z] + SumFunctionOnSet(f, T \ {z})
    BY <2>1, <2>2, SumChosen
  <2>4. z # y
    BY <2>2, <2>3
  <2>5. R = (T \ {y}) \ {z} /\ R = (T \ {z}) \ {y}
    OBVIOUS
  <2>6. SumFunctionOnSet(f, T \ {z}) = f[y] + SumFunctionOnSet(f, R)
    BY <2>1, <2>3, <2>4, <2>5
  <2>7. SumFunctionOnSet(f, T \ {y}) = f[z] + SumFunctionOnSet(f, R)
    BY <2>1, <2>2, <2>3, <2>4, <2>5
  <2>8. IsFiniteSet(R) /\ \A w \in R : f[w] \in Nat
    BY <2>1, FS_Subset
  <2>9. SumFunctionOnSet(f, R) \in Nat /\ f[y] \in Nat /\ f[z] \in Nat
    BY <2>3, <2>8, SumType
  <2>10. QED
    BY <2>2, <2>3, <2>6, <2>7, <2>9
<1>2. QED
  BY <1>1

\* Only the values on the set matter.
LEMMA SumAgree ==
  ASSUME NEW S, IsFiniteSet(S), NEW f, NEW g, \A x \in S : f[x] = g[x]
  PROVE  SumFunctionOnSet(f, S) = SumFunctionOnSet(g, S)
<1> DEFINE Bad == {T \in SUBSET S : SumFunctionOnSet(f, T) # SumFunctionOnSet(g, T)}
<1>1. ASSUME Bad # {}
      PROVE  FALSE
  <2>1. PICK T \in Bad : IsFiniteSet(T) /\ \A x \in T : T \ {x} \notin Bad
    BY <1>1, SmallestBad
  <2>2. T # {}
    BY SumEmpty
  <2> DEFINE x == CHOOSE y \in T : TRUE
  <2>3. x \in T /\ T \in SUBSET S
    BY <2>2
  <2>4. SumFunctionOnSet(f, T \ {x}) = SumFunctionOnSet(g, T \ {x}) /\ f[x] = g[x]
    BY <2>1, <2>3
  <2>5. SumFunctionOnSet(f, T) = f[x] + SumFunctionOnSet(f, T \ {x})
    BY <2>1, <2>2, SumChosen
  <2>6. SumFunctionOnSet(g, T) = g[x] + SumFunctionOnSet(g, T \ {x})
    BY <2>1, <2>2, SumChosen
  <2>7. QED
    BY <2>4, <2>5, <2>6
<1>2. QED
  BY <1>1

\* A larger summand makes the sum no smaller.
LEMMA SumMonotone ==
  ASSUME NEW S, IsFiniteSet(S), NEW f, NEW g,
         \A x \in S : f[x] \in Nat /\ g[x] \in Nat /\ f[x] <= g[x]
  PROVE  SumFunctionOnSet(f, S) <= SumFunctionOnSet(g, S)
<1> DEFINE Bad == {T \in SUBSET S :
             ~ (SumFunctionOnSet(f, T) <= SumFunctionOnSet(g, T))}
<1>1. ASSUME Bad # {}
      PROVE  FALSE
  <2>1. PICK T \in Bad : IsFiniteSet(T) /\ \A x \in T : T \ {x} \notin Bad
    BY <1>1, SmallestBad
  <2>2. T # {}
    BY SumEmpty
  <2>3. PICK x \in T : TRUE
    BY <2>2
  <2>4. /\ SumFunctionOnSet(f, T \ {x}) <= SumFunctionOnSet(g, T \ {x})
        /\ f[x] \in Nat /\ g[x] \in Nat /\ f[x] <= g[x]
    BY <2>1, <2>3
  <2>5. \A y \in T : f[y] \in Nat /\ g[y] \in Nat
    OBVIOUS
  <2>6. /\ SumFunctionOnSet(f, T) = f[x] + SumFunctionOnSet(f, T \ {x})
        /\ SumFunctionOnSet(g, T) = g[x] + SumFunctionOnSet(g, T \ {x})
    BY <2>1, <2>5, SumRemove
  <2>7. IsFiniteSet(T \ {x})
    BY <2>1, FS_Subset
  <2>8. SumFunctionOnSet(f, T \ {x}) \in Nat /\ SumFunctionOnSet(g, T \ {x}) \in Nat
    BY <2>5, <2>7, SumType
  <2>9. QED
    BY <2>1, <2>4, <2>6, <2>8
<1>2. QED
  BY <1>1

\* A sum over a part, and one to which the rest adds nothing.
LEMMA SumPart ==
  ASSUME NEW S, IsFiniteSet(S), NEW f, \A x \in S : f[x] \in Nat, NEW T \in SUBSET S
  PROVE  /\ SumFunctionOnSet(f, T) <= SumFunctionOnSet(f, S)
         /\ (\A x \in S \ T : f[x] = 0) =>
              SumFunctionOnSet(f, T) = SumFunctionOnSet(f, S)
<1> DEFINE Holds(U) ==
             /\ SumFunctionOnSet(f, T) <= SumFunctionOnSet(f, U)
             /\ (\A x \in U \ T : f[x] = 0) =>
                  SumFunctionOnSet(f, T) = SumFunctionOnSet(f, U)
           Bad == {U \in SUBSET S : T \subseteq U /\ ~ Holds(U)}
<1>1. ASSUME Bad # {}
      PROVE  FALSE
  <2>1. PICK U \in Bad : IsFiniteSet(U) /\ \A x \in U : U \ {x} \notin Bad
    <3>1. Bad \in SUBSET SUBSET S
      OBVIOUS
    <3> HIDE DEF Bad
    <3>2. QED
      BY <1>1, <3>1, SmallestBad
  <2>2. CASE U = T
    <3>1. SumFunctionOnSet(f, T) \in Nat
      BY <2>1, <2>2, SumType
    <3>2. QED
      BY <2>1, <2>2, <3>1
  <2>3. CASE U # T
    <3>1. PICK x \in U : x \notin T
      BY <2>1, <2>3
    <3>2. Holds(U \ {x}) /\ f[x] \in Nat
      BY <2>1, <3>1
    <3>3. SumFunctionOnSet(f, U) = f[x] + SumFunctionOnSet(f, U \ {x})
      BY <2>1, SumRemove
    <3>4. IsFiniteSet(U \ {x}) /\ IsFiniteSet(T)
      BY <2>1, FS_Subset
    <3>5. SumFunctionOnSet(f, U \ {x}) \in Nat /\ SumFunctionOnSet(f, T) \in Nat
      BY <3>4, SumType
    <3>6. SumFunctionOnSet(f, T) <= SumFunctionOnSet(f, U)
      BY <3>2, <3>3, <3>5
    <3>7. (\A y \in U \ T : f[y] = 0) =>
             SumFunctionOnSet(f, T) = SumFunctionOnSet(f, U)
      BY <3>1, <3>2, <3>3, <3>5
    <3>8. QED
      BY <2>1, <3>6, <3>7
  <2>4. QED
    BY <2>2, <2>3
<1>2. QED
  BY <1>1

\* Changing one summand changes the sum by as much.
LEMMA SumChange ==
  ASSUME NEW S, IsFiniteSet(S), NEW f, NEW g, NEW x \in S,
         \A y \in S : f[y] \in Nat /\ g[y] \in Nat /\ (y # x => g[y] = f[y])
  PROVE  SumFunctionOnSet(g, S) + f[x] = SumFunctionOnSet(f, S) + g[x]
<1>1. /\ SumFunctionOnSet(f, S) = f[x] + SumFunctionOnSet(f, S \ {x})
      /\ SumFunctionOnSet(g, S) = g[x] + SumFunctionOnSet(g, S \ {x})
  BY SumRemove
<1>2. IsFiniteSet(S \ {x})
  BY FS_Subset
<1>3. SumFunctionOnSet(f, S \ {x}) = SumFunctionOnSet(g, S \ {x})
  BY <1>2, SumAgree
<1>4. SumFunctionOnSet(f, S \ {x}) \in Nat /\ f[x] \in Nat /\ g[x] \in Nat
  BY <1>2, SumType
<1>5. QED
  BY <1>1, <1>3, <1>4

\* If one summand grows by one at most and no other does, so does the sum.
LEMMA SumGrows ==
  ASSUME NEW S, IsFiniteSet(S), NEW f \in [S -> Nat], NEW g \in [S -> Nat],
         NEW x \in S, \A y \in S : g[y] <= IF y = x THEN f[y] + 1 ELSE f[y]
  PROVE  SumFunctionOnSet(g, S) <= SumFunctionOnSet(f, S) + 1
<1> DEFINE h == [f EXCEPT ![x] = @ + 1]
<1>1. h \in [S -> Nat] /\ h[x] = f[x] + 1 /\ \A y \in S \ {x} : h[y] = f[y]
  OBVIOUS
<1> HIDE DEF h
<1>2. SumFunctionOnSet(h, S) + f[x] = SumFunctionOnSet(f, S) + h[x]
  BY <1>1, SumChange
<1>3. SumFunctionOnSet(g, S) <= SumFunctionOnSet(h, S)
  BY <1>1, SumMonotone
<1>4. /\ SumFunctionOnSet(f, S) \in Nat /\ SumFunctionOnSet(g, S) \in Nat
      /\ SumFunctionOnSet(h, S) \in Nat /\ f[x] \in Nat
  BY <1>1, SumType
<1>5. QED
  BY <1>1, <1>2, <1>3, <1>4

\* Summands that are all at least m add up to at least m times their number.
LEMMA SumAtLeast ==
  ASSUME NEW S, IsFiniteSet(S), NEW f, NEW m \in Nat,
         \A x \in S : f[x] \in Nat /\ m <= f[x]
  PROVE  Cardinality(S) * m <= SumFunctionOnSet(f, S)
<1> DEFINE Bad == {T \in SUBSET S : ~ (Cardinality(T) * m <= SumFunctionOnSet(f, T))}
<1>1. ASSUME Bad # {}
      PROVE  FALSE
  <2>1. PICK T \in Bad : IsFiniteSet(T) /\ \A x \in T : T \ {x} \notin Bad
    BY <1>1, SmallestBad
  <2>2. T # {}
    <3>1. Cardinality({}) * m <= SumFunctionOnSet(f, {})
      BY SumEmpty, FS_EmptySet
    <3>2. QED
      BY <3>1
  <2>3. PICK x \in T : TRUE
    BY <2>2
  <2>4. /\ Cardinality(T \ {x}) * m <= SumFunctionOnSet(f, T \ {x})
        /\ f[x] \in Nat /\ m <= f[x]
    BY <2>1, <2>3
  <2>5. \A y \in T : f[y] \in Nat
    OBVIOUS
  <2>6. SumFunctionOnSet(f, T) = f[x] + SumFunctionOnSet(f, T \ {x})
    BY <2>1, <2>5, SumRemove
  <2>7. /\ IsFiniteSet(T \ {x}) /\ Cardinality(T) \in Nat
        /\ Cardinality(T \ {x}) = Cardinality(T) - 1
    BY <2>1, FS_RemoveElement, FS_CardinalityType
  <2>8. SumFunctionOnSet(f, T \ {x}) \in Nat
    BY <2>5, <2>7, SumType
  <2>9. \A n, s, v \in Nat : (n - 1) * m <= s /\ m <= v => n * m <= v + s
    OBVIOUS
  <2>10. Cardinality(T) * m <= f[x] + SumFunctionOnSet(f, T \ {x})
    BY <2>4, <2>7, <2>8, <2>9
  <2>11. QED
    BY <2>1, <2>6, <2>10
<1>2. QED
  BY <1>1
=============================================================================
