----------------------------- MODULE LlmProofs -----------------------------
(* The gateway, for any threads, customers, costs, runs, scrapes and horizon:  *)
(* the budget tells what was charged, respects the caps up to the calls in     *)
(* flight and does not let an exhausted customer back in; the routing's types, *)
(* the isolation knob and the bound on the shared cooldown; the router, the    *)
(* books of counters, ring and missions, and the batch queue; what comes out   *)
(* of Infusion whatever its providers answer.                                  *)
EXTENDS LlmRouting, LlmBudget, LlmLedger, Infusion, FiniteSetsExt, FiniteSetTheorems,
        SequenceTheorems, WellFoundedInduction, TLAPS

-----------------------------------------------------------------------------
(* Sums over a finite set.  Induction without the library's induction         *)
(* theorems: a least counterexample is taken from a SET of counterexamples     *)
(* (WFMin of WellFoundedInduction), so no operator is passed to a theorem.      *)
(* From it follow the facts about MapThenSumSet that the budget's month needs: *)
(* the sum is a number, and it grows by what one of its values grows by.       *)

(* Least elements                                                             *)

\* A set of numbers that is not empty has a least one.
LEMMA LeastNat ==
  ASSUME NEW S, S \subseteq Nat, S # {}
  PROVE  \E n \in S : \A m \in S : ~(m < n)
<1> DEFINE R == OpToRel(<, Nat)
<1>1. IsWellFoundedOn(R, Nat)
  BY NatLessThanWellFounded DEF OpToRel
<1>2. \A m, n \in Nat : m < n => <<m, n>> \in R
  BY DEF OpToRel
<1> HIDE DEF R
<1>3. \E n \in S : \A m \in S : ~ (<<m, n>> \in R)
  BY <1>1, WFMin
<1> QED
  BY <1>2, <1>3

\* A finite set is larger than what is left of it without an element.
LEMMA RemoveSmaller ==
  ASSUME NEW S, IsFiniteSet(S), NEW x \in S
  PROVE  Cardinality(S \ {x}) < Cardinality(S)
<1>1. Cardinality(S) \in Nat
  BY FS_CardinalityType
<1>2. Cardinality(S \ {x}) = Cardinality(S) - 1
  BY FS_RemoveElement
<1> QED
  BY <1>1, <1>2

\* A family of subsets of a finite set that is not empty has one that none is smaller than.
LEMMA SmallestSubset ==
  ASSUME NEW S, IsFiniteSet(S), NEW B, B \subseteq SUBSET S, B # {}
  PROVE  \E T \in B : \A U \in B : ~(Cardinality(U) < Cardinality(T))
<1> DEFINE N == {Cardinality(T) : T \in B}
<1>1. N \subseteq Nat /\ N # {}
  BY FS_Subset, FS_CardinalityType
<1>2. PICK n \in N : \A m \in N : ~(m < n)
  BY <1>1, LeastNat
<1> QED
  BY <1>2

-----------------------------------------------------------------------------
(* The fold behind a sum over a set: it unfolds over every subset             *)

\* The sum of what g maps the elements of D to.
Total(g, D) == MapThenSumSet(LAMBDA d : g[d], D)

\* The subsets of S of at most n elements.
UpTo(S, n) == {T \in SUBSET S : Cardinality(T) <= n}

\* The element of s that the fold takes first.
Some(s) == CHOOSE y \in s : TRUE

\* f is the fold of g on the sets of A.
Unfolds(f, g, A) ==
  f = [s \in A |-> IF s = {} THEN 0 ELSE g[Some(s)] + f[s \ {Some(s)}]]

\* A set of at most n + 1 elements has at most n without the one the fold takes.
LEMMA SmallerSet ==
  ASSUME NEW S, IsFiniteSet(S), NEW n \in Nat, NEW s \in UpTo(S, n + 1), s # {}
  PROVE  Some(s) \in s /\ s \ {Some(s)} \in UpTo(S, n)
<1>1. Some(s) \in s
  BY DEF Some
<1>2. IsFiniteSet(s) /\ Cardinality(s) \in Nat
  BY FS_Subset, FS_CardinalityType DEF UpTo
<1>3. Cardinality(s \ {Some(s)}) = Cardinality(s) - 1
  BY <1>1, <1>2, FS_RemoveElement
<1> QED
  BY <1>1, <1>2, <1>3 DEF UpTo

\* By induction on n: there is a fold on the subsets of at most n elements.
LEMMA FoldUpTo ==
  ASSUME NEW g, NEW S, IsFiniteSet(S)
  PROVE  \A n \in Nat : \E f : Unfolds(f, g, UpTo(S, n))
<1> DEFINE Bad == {n \in Nat : ~ \E f : Unfolds(f, g, UpTo(S, n))}
<1> SUFFICES ASSUME Bad # {} PROVE FALSE
  OBVIOUS
<1>1. PICK n \in Bad : \A m \in Bad : ~(m < n)
  BY LeastNat, Bad \subseteq Nat
<1>2. CASE n = 0
  <2>1. UpTo(S, 0) = {{}}
    <3>1. \A T \in UpTo(S, 0) : T = {}
      BY FS_Subset, FS_CardinalityType, FS_EmptySet DEF UpTo
    <3>2. {} \in UpTo(S, 0)
      BY FS_EmptySet DEF UpTo
    <3> QED
      BY <3>1, <3>2
  <2> DEFINE f == [s \in UpTo(S, 0) |-> 0]
  <2>2. Unfolds(f, g, UpTo(S, 0))
    BY <2>1 DEF Unfolds
  <2> QED
    BY <1>1, <1>2, <2>2
<1>3. CASE n # 0
  <2>1. n - 1 \in Nat /\ n - 1 < n
    BY <1>3
  <2>2. PICK h : Unfolds(h, g, UpTo(S, n - 1))
    BY <1>1, <2>1
  <2> DEFINE val(s) == IF s = {} THEN 0 ELSE g[Some(s)] + h[s \ {Some(s)}]
             f == [s \in UpTo(S, n) |-> val(s)]
  <2>3. \A s \in UpTo(S, n - 1) : h[s] = val(s)
    BY <2>2 DEF Unfolds
  <2>4. \A s \in UpTo(S, n) : s # {} => s \ {Some(s)} \in UpTo(S, n - 1)
    BY <2>1, SmallerSet
  <2>5. UpTo(S, n - 1) \subseteq UpTo(S, n)
    BY <2>1, FS_Subset, FS_CardinalityType DEF UpTo
  <2> HIDE DEF val
  <2>6. \A s \in UpTo(S, n) : s # {} => f[s \ {Some(s)}] = h[s \ {Some(s)}]
    BY <2>3, <2>4, <2>5
  <2>7. \A s \in UpTo(S, n) : val(s) = IF s = {} THEN 0 ELSE g[Some(s)] + f[s \ {Some(s)}]
    BY <2>6 DEF val
  <2>8. Unfolds(f, g, UpTo(S, n))
    BY <2>7 DEF Unfolds
  <2> QED
    BY <1>1, <2>8
<1> QED
  BY <1>2, <1>3

\* There is a fold on all subsets.
LEMMA FoldExists ==
  ASSUME NEW g, NEW S, IsFiniteSet(S)
  PROVE  \E f : Unfolds(f, g, SUBSET S)
<1>1. UpTo(S, Cardinality(S)) = SUBSET S
  BY FS_Subset DEF UpTo
<1>2. Cardinality(S) \in Nat
  BY FS_CardinalityType
<1>3. \A n \in Nat : \E f : Unfolds(f, g, UpTo(S, n))
  BY FoldUpTo
<1> QED
  BY <1>1, <1>2, <1>3

\* The fold that Total takes the value of.
Fold(g, S) == CHOOSE f : Unfolds(f, g, SUBSET S)
\* Fold unfolds as the recursion says.
LEMMA FoldUnfolds ==
  ASSUME NEW g, NEW S, IsFiniteSet(S)
  PROVE  Unfolds(Fold(g, S), g, SUBSET S)
BY FoldExists DEF Fold

\* The sum of the community module is this fold.
LEMMA TotalIsFold ==
  ASSUME NEW g, NEW S
  PROVE  Total(g, S) = Fold(g, S)[S]
  BY DEF Total, MapThenSumSet, MapThenFoldSet, Fold, Unfolds, Some

\* Nothing sums to nothing.
LEMMA FoldEmpty ==
  ASSUME NEW g, NEW S, IsFiniteSet(S)
  PROVE  Fold(g, S)[{}] = 0
<1>1. Unfolds(Fold(g, S), g, SUBSET S) /\ {} \in SUBSET S
  BY FoldUnfolds
<1> HIDE DEF Fold
<1> QED
  BY <1>1 DEF Unfolds

\* The fold takes one element, Some(T), and folds the rest.
LEMMA FoldStep ==
  ASSUME NEW g, NEW S, IsFiniteSet(S), NEW T \in SUBSET S, T # {}
  PROVE  /\ Some(T) \in T
         /\ Fold(g, S)[T] = g[Some(T)] + Fold(g, S)[T \ {Some(T)}]
<1>1. Unfolds(Fold(g, S), g, SUBSET S)
  BY FoldUnfolds
<1>2. Some(T) \in T
  BY DEF Some
<1> HIDE DEF Fold
<1> QED
  BY <1>1, <1>2 DEF Unfolds

\* The fold takes one element and folds the rest.
LEMMA FoldPick ==
  ASSUME NEW g, NEW S, IsFiniteSet(S), NEW T \in SUBSET S, T # {}
  PROVE  \E x \in T : Fold(g, S)[T] = g[x] + Fold(g, S)[T \ {x}]
<1>1. Some(T) \in T /\ Fold(g, S)[T] = g[Some(T)] + Fold(g, S)[T \ {Some(T)}]
  BY FoldStep
<1> QED
  BY <1>1

\* Sums of numbers are numbers.
LEMMA FoldType ==
  ASSUME NEW S, IsFiniteSet(S), NEW g, \A x \in S : g[x] \in Nat
  PROVE  \A T \in SUBSET S : Fold(g, S)[T] \in Nat
<1> DEFINE f == Fold(g, S)
           B == {T \in SUBSET S : f[T] \notin Nat}
<1> SUFFICES ASSUME B # {} PROVE FALSE
  OBVIOUS
<1>1. PICK T \in B : \A U \in B : ~(Cardinality(U) < Cardinality(T))
  BY SmallestSubset
<1>2. T \in SUBSET S /\ IsFiniteSet(T)
  BY FS_Subset
<1>0. f[{}] \in Nat
  BY FoldEmpty
<1>3. T # {}
  BY <1>0, <1>1
<1>4. PICK x \in T : f[T] = g[x] + f[T \ {x}]
  BY <1>2, <1>3, FoldPick
<1>5. Cardinality(T \ {x}) < Cardinality(T)
  BY <1>2, <1>4, RemoveSmaller
<1>6. f[T \ {x}] \in Nat
  BY <1>1, <1>2, <1>5
<1>7. g[x] \in Nat
  BY <1>2, <1>4
<1> QED
  BY <1>1, <1>4, <1>6, <1>7

\* An element more adds its value, whichever element the fold takes first.
LEMMA FoldAdd ==
  ASSUME NEW S, IsFiniteSet(S), NEW g, \A x \in S : g[x] \in Nat
  PROVE  \A T \in SUBSET S : \A d \in S \ T :
            Fold(g, S)[T \cup {d}] = g[d] + Fold(g, S)[T]
<1> DEFINE f == Fold(g, S)
           B == {T \in SUBSET S : \E d \in S \ T : f[T \cup {d}] # g[d] + f[T]}
<1> SUFFICES ASSUME B # {} PROVE FALSE
  OBVIOUS
<1>1. PICK T \in B : \A U \in B : ~(Cardinality(U) < Cardinality(T))
  BY SmallestSubset
<1>2. PICK d \in S \ T : f[T \cup {d}] # g[d] + f[T]
  BY <1>1
<1>3. T \in SUBSET S /\ IsFiniteSet(T) /\ T \cup {d} \in SUBSET S
  BY <1>2, FS_Subset
<1>4. PICK x \in T \cup {d} : f[T \cup {d}] = g[x] + f[(T \cup {d}) \ {x}]
  BY <1>3, FoldPick, T \cup {d} # {}
<1>5. x # d
  <2> SUFFICES ASSUME x = d PROVE FALSE
    OBVIOUS
  <2>1. (T \cup {d}) \ {x} = T
    BY <1>2
  <2> QED
    BY <1>2, <1>4, <2>1
<1> DEFINE U == T \ {x}
<1>6. /\ U \in SUBSET S /\ x \in S \ U /\ d \in S \ U /\ U \cup {x} = T
      /\ (T \cup {d}) \ {x} = U \cup {d}
  BY <1>2, <1>3, <1>4, <1>5
<1>7. Cardinality(U) < Cardinality(T)
  BY <1>3, <1>6, RemoveSmaller
<1>8. U \notin B
  BY <1>1, <1>7
<1>9. f[U \cup {d}] = g[d] + f[U] /\ f[T] = g[x] + f[U]
  BY <1>6, <1>8
<1>10. f[U] \in Nat /\ g[x] \in Nat /\ g[d] \in Nat
  BY <1>6, FoldType
<1>11. f[T \cup {d}] = g[x] + f[U \cup {d}]
  BY <1>4, <1>6
<1> HIDE DEF f, B, U
<1>12. f[T \cup {d}] = g[d] + f[T]
  BY ONLY <1>9, <1>10, <1>11
<1> QED
  BY <1>2, <1>12

\* The same values give the same sums.
LEMMA FoldSame ==
  ASSUME NEW S, IsFiniteSet(S), NEW g, \A x \in S : g[x] \in Nat, NEW h, \A x \in S : h[x] \in Nat
  PROVE  \A T \in SUBSET S : (\A x \in T : g[x] = h[x]) => Fold(g, S)[T] = Fold(h, S)[T]
<1> DEFINE B == {T \in SUBSET S : /\ \A x \in T : g[x] = h[x]
                                  /\ Fold(g, S)[T] # Fold(h, S)[T]}
<1> SUFFICES ASSUME B # {} PROVE FALSE
  OBVIOUS
<1>1. PICK T \in B : \A U \in B : ~(Cardinality(U) < Cardinality(T))
  BY SmallestSubset
<1>2. T \in SUBSET S /\ IsFiniteSet(T) /\ T # {}
  BY <1>1, FS_Subset, FoldEmpty
<1> DEFINE x == Some(T)
<1>3. /\ x \in T
      /\ Fold(g, S)[T] = g[x] + Fold(g, S)[T \ {x}]
      /\ Fold(h, S)[T] = h[x] + Fold(h, S)[T \ {x}]
  <2>1. x \in T /\ Fold(g, S)[T] = g[x] + Fold(g, S)[T \ {x}]
    BY <1>2, FoldStep
  <2>2. Fold(h, S)[T] = h[x] + Fold(h, S)[T \ {x}]
    BY <1>2, FoldStep
  <2> QED
    BY <2>1, <2>2
<1> HIDE DEF x
<1>4. Cardinality(T \ {x}) < Cardinality(T)
  BY <1>2, <1>3, RemoveSmaller
<1>5. Fold(g, S)[T \ {x}] = Fold(h, S)[T \ {x}]
  BY <1>1, <1>2, <1>4
<1> QED
  BY <1>1, <1>3, <1>5

-----------------------------------------------------------------------------
(* Sums                                                                       *)

\* A sum of zeros is zero.
LEMMA TotalZero ==
  ASSUME NEW S, IsFiniteSet(S), NEW g, \A x \in S : g[x] \in Nat, \A x \in S : g[x] = 0
  PROVE  Total(g, S) = 0
<1> DEFINE f == Fold(g, S)
           B == {T \in SUBSET S : f[T] # 0}
<1>1. B = {}
  <2> SUFFICES ASSUME B # {} PROVE FALSE
    OBVIOUS
  <2>1. PICK T \in B : \A U \in B : ~(Cardinality(U) < Cardinality(T))
    BY SmallestSubset
  <2>2. T \in SUBSET S /\ IsFiniteSet(T) /\ T # {}
    BY <2>1, FS_Subset, FoldEmpty
  <2>3. PICK x \in T : f[T] = g[x] + f[T \ {x}]
    BY <2>2, FoldPick
  <2>4. Cardinality(T \ {x}) < Cardinality(T)
    BY <2>2, <2>3, RemoveSmaller
  <2>5. f[T \ {x}] = 0
    BY <2>1, <2>2, <2>4
  <2> QED
    BY <2>1, <2>2, <2>3, <2>5
<1> QED
  BY <1>1, TotalIsFold

\* A sum of numbers is a number.
LEMMA TotalType ==
  ASSUME NEW S, IsFiniteSet(S), NEW g, \A x \in S : g[x] \in Nat
  PROVE  Total(g, S) \in Nat
BY FoldType, TotalIsFold

\* When one value grows the sum grows by as much.
LEMMA TotalGrows ==
  ASSUME NEW S, IsFiniteSet(S), NEW g, \A x \in S : g[x] \in Nat, NEW h, \A x \in S : h[x] \in Nat,
         NEW d \in S, NEW c \in Nat, h[d] = g[d] + c, \A x \in S \ {d} : h[x] = g[x]
  PROVE  Total(h, S) = Total(g, S) + c
<1> DEFINE T == S \ {d}
<1>1. T \in SUBSET S /\ d \in S \ T /\ T \cup {d} = S
  OBVIOUS
<1>2. /\ Fold(g, S)[T \cup {d}] = g[d] + Fold(g, S)[T]
      /\ Fold(h, S)[T \cup {d}] = h[d] + Fold(h, S)[T]
  BY <1>1, FoldAdd
<1>3. Fold(g, S)[T] = Fold(h, S)[T]
  BY <1>1, FoldSame
<1>4. Fold(g, S)[T] \in Nat /\ g[d] \in Nat
  BY <1>1, FoldType
<1>5. Total(g, S) = Fold(g, S)[T \cup {d}] /\ Total(h, S) = Fold(h, S)[T \cup {d}]
  BY <1>1, TotalIsFold
<1> HIDE DEF T
<1> QED
  BY <1>2, <1>3, <1>4, <1>5

\* A sum looks at nothing but the set that is summed over.
LEMMA FoldRestrict ==
  ASSUME NEW S, IsFiniteSet(S), NEW g, NEW T \in SUBSET S
  PROVE  Fold(g, S)[T] = Fold(g, T)[T]
<1> DEFINE B == {U \in SUBSET T : Fold(g, S)[U] # Fold(g, T)[U]}
<1>0. IsFiniteSet(T)
  BY FS_Subset
<1>1. SUFFICES ASSUME B # {} PROVE FALSE
  OBVIOUS
<1>2. PICK U \in B : \A V \in B : ~(Cardinality(V) < Cardinality(U))
  BY <1>0, <1>1, SmallestSubset
<1>3. U \in SUBSET T /\ U \in SUBSET S /\ IsFiniteSet(U)
  BY <1>0, <1>2, FS_Subset
<1>4. U # {}
  BY <1>0, <1>2, FoldEmpty
<1> DEFINE x == Some(U)
<1>5. x \in U /\ Fold(g, S)[U] = g[x] + Fold(g, S)[U \ {x}]
  BY <1>3, <1>4, FoldStep
<1>6. Fold(g, T)[U] = g[x] + Fold(g, T)[U \ {x}]
  BY <1>0, <1>3, <1>4, FoldStep
<1> HIDE DEF x
<1>7. Cardinality(U \ {x}) < Cardinality(U) /\ U \ {x} \in SUBSET T
  BY <1>3, <1>5, RemoveSmaller
<1>8. Fold(g, S)[U \ {x}] = Fold(g, T)[U \ {x}]
  BY <1>2, <1>7
<1> QED
  BY <1>2, <1>5, <1>6, <1>8

\* A sum over one element more grows by its value.
LEMMA TotalAdd ==
  ASSUME NEW S, IsFiniteSet(S), NEW d, d \notin S, NEW g, \A x \in S \cup {d} : g[x] \in Nat
  PROVE  Total(g, S \cup {d}) = Total(g, S) + g[d]
<1> DEFINE U == S \cup {d}
<1>1. IsFiniteSet(U) /\ S \in SUBSET U /\ d \in U \ S
  BY FS_AddElement
<1>2. Fold(g, U)[S \cup {d}] = g[d] + Fold(g, U)[S]
  BY <1>1, FoldAdd
<1>3. Fold(g, U)[S] = Fold(g, S)[S]
  BY <1>1, FoldRestrict
<1>4. Total(g, U) = Fold(g, U)[U] /\ Total(g, S) = Fold(g, S)[S]
  BY TotalIsFold
<1>5. Total(g, S) \in Nat /\ g[d] \in Nat
  BY TotalType
<1>6. Total(g, U) = g[d] + Total(g, S)
  BY <1>2, <1>3, <1>4
<1> HIDE DEF U
<1>7. Total(g, U) = Total(g, S) + g[d]
  BY <1>5, <1>6
<1> QED
  BY <1>7 DEF U

\* A sum looks at nothing but the values that are summed.
LEMMA TotalSame ==
  ASSUME NEW S, IsFiniteSet(S), NEW g, \A x \in S : g[x] \in Nat, NEW h, \A x \in S : h[x] = g[x]
  PROVE  Total(h, S) = Total(g, S)
<1>1. \A x \in S : h[x] \in Nat /\ g[x] = h[x]
  OBVIOUS
<1>2. S \in SUBSET S
  OBVIOUS
<1>3. Fold(g, S)[S] = Fold(h, S)[S]
  BY <1>1, <1>2, FoldSame
<1> QED
  BY <1>3, TotalIsFold

\* The sum of a function's values, of the community modules, is the same sum.
LEMMA SumIsTotal ==
  ASSUME NEW f
  PROVE  SumFunction(f) = Total(f, DOMAIN f)
<1>1. SumFunction(f) = Fold(f, DOMAIN f)[DOMAIN f]
  BY DEF SumFunction, SumFunctionOnSet, FoldFunctionOnSet, MapThenFoldSet, Fold, Unfolds, Some
<1> QED
  BY <1>1, TotalIsFold

\* The sum of a function of which one value grows, which has one value more, or none.
LEMMA SumGrows ==
  ASSUME NEW D, IsFiniteSet(D), NEW f \in [D -> Nat], NEW h \in [D -> Nat], NEW d \in D, NEW c \in Nat,
         h[d] = f[d] + c, \A x \in D \ {d} : h[x] = f[x]
  PROVE  SumFunction(h) = SumFunction(f) + c
<1>1. Total(h, D) = Total(f, D) + c
  BY TotalGrows
<1>2. DOMAIN h = D /\ DOMAIN f = D
  OBVIOUS
<1> QED
  BY <1>1, <1>2, SumIsTotal

LEMMA SumNew ==
  ASSUME NEW D, IsFiniteSet(D), NEW d, d \notin D, NEW f \in [D -> Nat], NEW h \in [D \cup {d} -> Nat],
         \A x \in D : h[x] = f[x]
  PROVE  SumFunction(h) = SumFunction(f) + h[d]
<1>1. Total(h, D \cup {d}) = Total(h, D) + h[d]
  <2>1. \A x \in D \cup {d} : h[x] \in Nat
    OBVIOUS
  <2> QED
    BY <2>1, TotalAdd
<1>2. Total(h, D) = Total(f, D)
  <2>1. \A x \in D : f[x] \in Nat
    OBVIOUS
  <2> QED
    BY <2>1, TotalSame
<1>3. DOMAIN h = D \cup {d} /\ DOMAIN f = D
  OBVIOUS
<1> QED
  BY <1>1, <1>2, <1>3, SumIsTotal

LEMMA SumType ==
  ASSUME NEW D, IsFiniteSet(D), NEW f \in [D -> Nat]
  PROVE  SumFunction(f) \in Nat /\ ((\A x \in D : f[x] = 0) => SumFunction(f) = 0)
<1>1. DOMAIN f = D /\ \A x \in D : f[x] \in Nat
  OBVIOUS
<1>2. Total(f, D) \in Nat
  BY <1>1, TotalType
<1>3. ASSUME \A x \in D : f[x] = 0
      PROVE  Total(f, D) = 0
  BY <1>1, <1>3, TotalZero
<1> QED
  BY <1>1, <1>2, <1>3, SumIsTotal

\* The sum over no element.
LEMMA TotalOfNone == ASSUME NEW g PROVE Total(g, {}) = 0
  BY TotalIsFold, FoldEmpty, FS_EmptySet


-----------------------------------------------------------------------------
(* The budget: the inductive invariant.  The tracker holds one entry for each *)
(* customer and replaces it lazily, so its truth is a fact about the entry's  *)
(* own date (LedgerInv), not today's.  How far the charges of a day may pass  *)
(* the cap is a count of the threads that are past the check, or will pass it *)
(* with what they read before (SpillInv): once the cap is reached none joins  *)
(* them, and each takes its own highest cost when it records.                 *)

\* What the tracker keeps of a customer it has not forgotten anything of.
LedgerInv(u) ==
    LET e == spent[u] IN
      /\ e.day <= today
      /\ \A d \in Days : d > e.day => charged[u][d] = 0
      /\ e.day > 0 => /\ e.daily = charged[u][e.day]
                      /\ e.monthly = Charged(u, MonthOf(e.day))

\* A thread that can still charge customer u on date d after the day's cap is reached.
MayCharge(t, u, d) ==
    /\ work[t].customer = u
    /\ \/ at[t] = "stamped" /\ work[t].now = d
       \/ at[t] = "running" /\ d = today
       \/ at[t] = "dated" /\ d = today /\ work[t].now < today
       \/ at[t] = "read" /\ d = today /\ work[t].daily < caps[u].daily
MayChargeOn(u, d) == {t \in Threads : MayCharge(t, u, d)}

\* What a thread carries: a customer and a date while it serves a call.
WorkInv(t) ==
   /\ work[t].now <= today
   /\ at[t] # "out" => work[t].customer \in Customers /\ work[t].now \in Days
   /\ at[t] = "stamped" => work[t].cost \in Costs

\* Past the cap, what was charged and what may still be stays within the overshoot.
SpillInv(u, d) ==
    charged[u][d] >= caps[u].daily =>
      charged[u][d] + Cardinality(MayChargeOn(u, d)) * Max(Costs)
          < caps[u].daily + Cardinality(Threads) * Max(Costs)

BudgetInv ==
   /\ \A t \in Threads : WorkInv(t)
   /\ \A u \in Customers : spent[u].day <= today
   /\ \A u \in Customers \ recapped : caps[u] = DefaultCap
   /\ \A u \in Customers \ forgotten : LedgerInv(u)
   /\ \A u \in Customers \ (forgotten \cup recapped), d \in Days :
        caps[u].daily > 0 => SpillInv(u, d)

-----------------------------------------------------------------------------
(* The budget: types                                                         *)

\* What the constants are, as the proofs use it.
LEMMA Constants ==
  /\ MaxDay \in Nat \ {0} /\ \A c \in Costs : c \in Nat
  /\ 0 \in 0..MaxDay /\ \A d \in Days : d \in Nat \ {0} /\ d \in 0..MaxDay
BY BudgetAssumption DEF Days

\* Only thread t moves, within the types.
OnlyThread(t) ==
    /\ work' \in [Threads -> Work] /\ at' \in [Threads -> Places]
    /\ \A s \in Threads \ {t} : work'[s] = work[s] /\ at'[s] = at[s]

\* A thread of the tracker carries what its record says.
LEMMA WorkFields ==
  ASSUME BudgetTypeOK, NEW t \in Threads
  PROVE  /\ work[t] \in Work /\ at[t] \in Places
         /\ work[t].customer \in Customers \cup {Nobody} /\ work[t].now \in 0..MaxDay
         /\ work[t].daily \in Nat /\ work[t].monthly \in Nat /\ work[t].cost \in Nat
BY DEF BudgetTypeOK, Work

\* A thread puts down one record and takes up another.
LEMMA ThreadStep ==
  ASSUME BudgetTypeOK, NEW t \in Threads, NEW w \in Work, NEW p \in Places,
         work' = [work EXCEPT ![t] = w], at' = [at EXCEPT ![t] = p]
  PROVE  OnlyThread(t) /\ work'[t] = w /\ at'[t] = p
BY DEF BudgetTypeOK, OnlyThread

\* A call that is over leaves nothing behind on its thread.
LEMMA LeaveStep ==
  ASSUME BudgetTypeOK, NEW t \in Threads, Leave(t)
  PROVE  OnlyThread(t) /\ work'[t] = NoWork /\ at'[t] = "out"
<1>1. NoWork \in Work /\ "out" \in Places
  BY Constants DEF NoWork, Work, Places
<1> QED
  BY <1>1, ThreadStep DEF Leave

\* Everything but the threads.
Books == <<today, spent, caps, charged, forgotten, recapped>>

\* Each step of a thread, as what it does to the thread and to the books.
LEMMA EnterStep ==
  ASSUME BudgetTypeOK, NEW t \in Threads, Enter(t)
  PROVE  /\ OnlyThread(t) /\ UNCHANGED Books /\ at'[t] = "dated"
         /\ work'[t].customer \in Customers /\ work'[t].now = today
<1>1. PICK u \in Customers :
        work' = [work EXCEPT ![t] = [NoWork EXCEPT !.customer = u, !.now = today]]
  BY DEF Enter
<1> DEFINE w == [NoWork EXCEPT !.customer = u, !.now = today]
<1>2. w \in Work /\ w.customer = u /\ w.now = today /\ "dated" \in Places
  BY Constants DEF NoWork, Work, Places, BudgetTypeOK
<1>3. work' = [work EXCEPT ![t] = w] /\ at' = [at EXCEPT ![t] = "dated"] /\ UNCHANGED Books
  BY <1>1 DEF Enter, Books
<1> HIDE DEF w
<1> QED
  BY <1>2, <1>3, ThreadStep

LEMMA ReadStep ==
  ASSUME BudgetTypeOK, NEW t \in Threads, ReadBucket(t), work[t].customer \in Customers
  PROVE  /\ OnlyThread(t) /\ UNCHANGED Books /\ at'[t] = "read"
         /\ work'[t].customer = work[t].customer /\ work'[t].now = work[t].now
         /\ work'[t].daily = DailyOn(spent[work[t].customer], work[t].now)
<1> DEFINE e == spent[work[t].customer]
           day == DailyOn(e, work[t].now)
           month == MonthlyOn(e, work[t].now)
           w == [work[t] EXCEPT !.daily = day, !.monthly = month]
<1>1. day \in Nat /\ month \in Nat
  BY DEF BudgetTypeOK, Entry, DailyOn, MonthlyOn
<1>2. work' = [work EXCEPT ![t] = w] /\ at' = [at EXCEPT ![t] = "read"] /\ UNCHANGED Books
  BY DEF ReadBucket, Books
<1> HIDE DEF day, month
<1>3. /\ w \in Work /\ "read" \in Places /\ w.daily = day
      /\ w.customer = work[t].customer /\ w.now = work[t].now
  BY <1>1, WorkFields DEF Work, Places
<1> HIDE DEF w
<1> QED
  BY <1>2, <1>3, ThreadStep DEF day

LEMMA JudgeStep ==
  ASSUME BudgetTypeOK, NEW t \in Threads, Judge(t)
  PROVE  /\ OnlyThread(t) /\ UNCHANGED Books /\ at[t] = "read"
         /\ \/ at'[t] = "out" /\ work'[t] = NoWork
            \/ /\ at'[t] = "running"
               /\ work'[t].customer = work[t].customer /\ work'[t].now = work[t].now
               /\ ~Reached(work[t].daily, caps[work[t].customer].daily)
<1>1. UNCHANGED Books /\ at[t] = "read"
  BY DEF Judge, Books
<1>2. CASE Leave(t)
  BY <1>1, <1>2, LeaveStep
<1>3. CASE ~Leave(t)
  <2> DEFINE w == [work[t] EXCEPT !.daily = 0, !.monthly = 0]
  <2>1. /\ w \in Work /\ "running" \in Places
        /\ w.customer = work[t].customer /\ w.now = work[t].now
    BY WorkFields DEF Work, Places
  <2>2. /\ work' = [work EXCEPT ![t] = w] /\ at' = [at EXCEPT ![t] = "running"]
        /\ ~Exhausted(work[t].daily, work[t].monthly, caps[work[t].customer])
    BY <1>3 DEF Judge
  <2> HIDE DEF w
  <2> QED
    BY <1>1, <2>1, <2>2, ThreadStep DEF Exhausted
<1> QED
  BY <1>2, <1>3

LEMMA AnsweredStep ==
  ASSUME BudgetTypeOK, NEW t \in Threads, Answered(t)
  PROVE  /\ OnlyThread(t) /\ UNCHANGED Books /\ at[t] = "running" /\ at'[t] = "stamped"
         /\ work'[t].customer = work[t].customer /\ work'[t].now = today
         /\ work'[t].cost \in Costs
<1>1. PICK c \in Costs : work' = [work EXCEPT ![t].cost = c, ![t].now = today]
  BY DEF Answered
<1> DEFINE w == [work[t] EXCEPT !.cost = c, !.now = today]
<1>2. /\ w \in Work /\ "stamped" \in Places /\ w.cost = c /\ w.now = today
      /\ w.customer = work[t].customer
  BY WorkFields, Constants DEF Work, Places, BudgetTypeOK
<1>3. /\ work' = [work EXCEPT ![t] = w] /\ at' = [at EXCEPT ![t] = "stamped"]
      /\ UNCHANGED Books /\ at[t] = "running"
  BY <1>1 DEF Answered, Books
<1> HIDE DEF w
<1> QED
  BY <1>2, <1>3, ThreadStep

LEMMA RecordStep ==
  ASSUME BudgetTypeOK, NEW t \in Threads, RecordCost(t), work[t].customer \in Customers,
         work[t].now \in Days
  PROVE  LET u == work[t].customer
             now == work[t].now
             entry == Accrued(spent[u], now, work[t].cost)
         IN  /\ OnlyThread(t) /\ at[t] = "stamped" /\ at'[t] = "out" /\ work'[t] = NoWork
             /\ UNCHANGED <<today, caps, recapped>>
             /\ entry \in Entry /\ spent' = [spent EXCEPT ![u] = entry]
             /\ charged' \in [Customers -> [Days -> Nat]]
             /\ \A x \in Customers \ {u} : charged'[x] = charged[x]
             /\ charged'[u][now] = charged[u][now] + work[t].cost
             /\ \A d \in Days \ {now} : charged'[u][d] = charged[u][d]
             /\ forgotten' = IF now < spent[u].day THEN forgotten \cup {u} ELSE forgotten
<1> DEFINE u == work[t].customer
           now == work[t].now
           cost == work[t].cost
           entry == Accrued(spent[u], now, cost)
           row == [charged[u] EXCEPT ![now] = charged[u][now] + cost]
<1>1. /\ at[t] = "stamped" /\ Leave(t) /\ UNCHANGED <<today, caps, recapped>>
      /\ spent' = [spent EXCEPT ![u] = entry]
      /\ charged' = [charged EXCEPT ![u] = row]
      /\ forgotten' = IF now < spent[u].day THEN forgotten \cup {u} ELSE forgotten
  BY DEF RecordCost
<1>2. entry \in Entry
  BY WorkFields DEF Accrued, Entry, DailyOn, MonthlyOn, BudgetTypeOK
<1>3. /\ charged[u] \in [Days -> Nat] /\ cost \in Nat /\ charged[u][now] \in Nat
  BY WorkFields DEF BudgetTypeOK
<1>4. /\ row \in [Days -> Nat] /\ row[now] = charged[u][now] + cost
      /\ \A d \in Days \ {now} : row[d] = charged[u][d]
  BY <1>3
<1> HIDE DEF entry, row
<1>5. /\ charged' \in [Customers -> [Days -> Nat]] /\ charged'[u] = row
      /\ \A x \in Customers \ {u} : charged'[x] = charged[x]
  BY <1>1, <1>4 DEF BudgetTypeOK
<1> QED
  BY <1>1, <1>2, <1>4, <1>5, LeaveStep DEF entry

\* The steps of a thread that leave the books alone keep what is charged.
ThreadMoves(t) == Enter(t) \/ ReadBucket(t) \/ Judge(t) \/ Unbilled(t) \/ Answered(t)

LEMMA MoveStep ==
  ASSUME BudgetTypeOK, NEW t \in Threads, ThreadMoves(t), WorkInv(t)
  PROVE  OnlyThread(t) /\ UNCHANGED Books
<1>1. CASE Enter(t)
  BY <1>1, EnterStep
<1>2. CASE ReadBucket(t)
  BY <1>2, ReadStep DEF ReadBucket, WorkInv
<1>3. CASE Judge(t)
  BY <1>3, JudgeStep
<1>4. CASE Unbilled(t)
  BY <1>4, LeaveStep DEF Unbilled, Books
<1>5. CASE Answered(t)
  BY <1>5, AnsweredStep
<1> QED
  BY <1>1, <1>2, <1>3, <1>4, <1>5 DEF ThreadMoves

\* No step starts more calls than the bound.
LEMMA CallsStay ==
  ASSUME BudgetTypeOK, BudgetNext
  PROVE  calls' \in 0..MaxCalls
<1>1. calls' = calls \/ (calls < MaxCalls /\ calls' = calls + 1)
  <2>1. ASSUME NEW t \in Threads, Enter(t)  PROVE calls < MaxCalls /\ calls' = calls + 1
    BY <2>1 DEF Enter
  <2>2. ASSUME NEW t \in Threads, ReadBucket(t) \/ Judge(t) \/ Unbilled(t) \/ Answered(t)
                                    \/ RecordCost(t)
        PROVE  calls' = calls
    BY <2>2 DEF ReadBucket, Judge, Unbilled, Answered, RecordCost
  <2>3. ASSUME NEW u \in Customers, NEW cap \in Caps, SetCap(u, cap)  PROVE calls' = calls
    BY <2>3 DEF SetCap
  <2>4. Midnight \/ Restart => calls' = calls
    BY DEF Midnight, Restart
  <2> QED
    BY <2>1, <2>2, <2>3, <2>4 DEF BudgetNext
<1>2. calls \in 0..MaxCalls /\ MaxCalls \in Nat
  BY BudgetAssumption DEF BudgetTypeOK
<1> QED
  BY <1>1, <1>2

\* Every step keeps the types, from what each thread is known to carry.
LEMMA NextType ==
  ASSUME BudgetTypeOK, \A t \in Threads : WorkInv(t), BudgetNext
  PROVE  BudgetTypeOK'
<1>1. calls' \in 0..MaxCalls
  BY CallsStay
<1>2. ASSUME NEW t \in Threads, ThreadMoves(t)
      PROVE  BudgetTypeOK'
  BY <1>1, <1>2, MoveStep DEF OnlyThread, Books, BudgetTypeOK
<1>3. ASSUME NEW t \in Threads, RecordCost(t)
      PROVE  BudgetTypeOK'
  <2>1. work[t].customer \in Customers /\ work[t].now \in Days
    BY <1>3 DEF RecordCost, WorkInv
  <2> DEFINE u == work[t].customer
             entry == Accrued(spent[u], work[t].now, work[t].cost)
  <2>2. /\ OnlyThread(t) /\ UNCHANGED <<today, caps, recapped>>
        /\ entry \in Entry /\ spent' = [spent EXCEPT ![u] = entry]
        /\ charged' \in [Customers -> [Days -> Nat]]
        /\ forgotten' \subseteq Customers
    BY <1>3, <2>1, RecordStep DEF BudgetTypeOK
  <2> HIDE DEF entry
  <2>3. spent' \in [Customers -> Entry]
    BY <2>2 DEF BudgetTypeOK
  <2> QED
    BY <1>1, <2>2, <2>3 DEF OnlyThread, BudgetTypeOK
<1>4. ASSUME NEW u \in Customers, NEW cap \in Caps, SetCap(u, cap)
      PROVE  BudgetTypeOK'
  BY <1>1, <1>4 DEF SetCap, BudgetTypeOK
<1>5. CASE Midnight
  <2>1. today' \in Days
    BY <1>5, BudgetAssumption DEF Midnight, BudgetTypeOK, Days
  <2> QED
    BY <1>1, <1>5, <2>1 DEF Midnight, BudgetTypeOK
<1>6. CASE Restart
  <2>1. NoEntry \in Entry /\ NoWork \in Work /\ "out" \in Places
    BY Constants DEF NoEntry, Entry, NoWork, Work, Places
  <2>2. /\ spent' \in [Customers -> Entry] /\ caps' \in [Customers -> Caps \cup {DefaultCap}]
        /\ at' \in [Threads -> Places] /\ work' \in [Threads -> Work]
        /\ forgotten' \subseteq Customers /\ recapped' \subseteq Customers
        /\ UNCHANGED <<today, charged>>
    BY <1>6, <2>1 DEF Restart, BudgetTypeOK
  <2> QED
    BY <1>1, <2>2 DEF BudgetTypeOK
<1> QED
  BY <1>2, <1>3, <1>4, <1>5, <1>6 DEF BudgetNext, ThreadMoves

-----------------------------------------------------------------------------
(* The budget: the tracker                                                   *)

\* A later date is of no earlier month.
LEMMA MonthGrows ==
  ASSUME NEW d \in Days, NEW e \in Days, d <= e
  PROVE  Month(d) <= Month(e) /\ Month(d) \in Nat /\ Month(e) \in Nat
<1>1. d - 1 \in Nat /\ e - 1 \in Nat /\ d - 1 <= e - 1 /\ DaysPerMonth \in Nat \ {0}
  BY BudgetAssumption DEF Days
<1>2. \A a, b \in Nat, n \in Nat \ {0} : a <= b => a \div n <= b \div n
  OBVIOUS
<1>3. \A a \in Nat, n \in Nat \ {0} : a \div n \in Nat
  OBVIOUS
<1> QED
  BY <1>1, <1>2, <1>3 DEF Month

\* The dates of a month are finitely many.
LEMMA MonthIsFinite ==
  ASSUME NEW d
  PROVE  IsFiniteSet(MonthOf(d)) /\ MonthOf(d) \subseteq Days
<1>1. IsFiniteSet(Days)
  BY BudgetAssumption, FS_Interval DEF Days
<1>2. MonthOf(d) \in SUBSET Days
  BY DEF MonthOf
<1> QED
  BY <1>1, <1>2, FS_Subset

\* What is charged on a set of dates is such a sum.
LEMMA ChargedIsTotal ==
  ASSUME BudgetTypeOK, NEW u \in Customers, NEW D, D \subseteq Days, IsFiniteSet(D)
  PROVE  Charged(u, D) = Total(charged[u], D)
BY DEF Charged, Total

\* The month's charges are an amount.
LEMMA ChargedType ==
  ASSUME BudgetTypeOK, NEW u \in Customers, NEW d
  PROVE  Charged(u, MonthOf(d)) \in Nat
<1>1. \A x \in MonthOf(d) : charged[u][x] \in Nat
  BY MonthIsFinite DEF BudgetTypeOK
<1> QED
  BY <1>1, MonthIsFinite, TotalType, ChargedIsTotal

\* An accrual adds its cost to the month of its date.
LEMMA ChargedGrows ==
  ASSUME BudgetTypeOK, BudgetTypeOK', NEW u \in Customers, NEW now \in Days, NEW cost \in Nat,
         charged'[u][now] = charged[u][now] + cost,
         \A d \in Days \ {now} : charged'[u][d] = charged[u][d]
  PROVE  Charged(u, MonthOf(now))' = Charged(u, MonthOf(now)) + cost
<1> DEFINE D == MonthOf(now)
           g == charged[u]
           h == charged'[u]
<1>1. IsFiniteSet(D) /\ D \subseteq Days /\ now \in D
  BY MonthIsFinite DEF MonthOf
<1>2. (\A x \in D : g[x] \in Nat) /\ (\A x \in D : h[x] \in Nat)
  BY <1>1 DEF BudgetTypeOK
<1>3. h[now] = g[now] + cost /\ \A x \in D \ {now} : h[x] = g[x]
  BY <1>1
<1>4. Charged(u, D)' = Total(h, D) /\ Charged(u, D) = Total(g, D)
  BY DEF Charged, Total, MapThenSumSet, MapThenFoldSet
<1> HIDE DEF D, g, h
<1>5. Total(h, D) = Total(g, D) + cost
  BY <1>1, <1>2, <1>3, TotalGrows
<1> QED
  BY <1>4, <1>5 DEF D

\* What the tracker knows of a customer is the charges of today and its month.
LEMMA TrackerTells ==
  ASSUME BudgetTypeOK, NEW u \in Customers, LedgerInv(u)
  PROVE  /\ DailyOn(spent[u], today) = charged[u][today]
         /\ MonthlyOn(spent[u], today) = Charged(u, MonthOf(today))
<1> DEFINE e == spent[u]
<1>1. /\ e.day \in 0..MaxDay /\ e.day <= today /\ today \in Days
      /\ \A d \in Days : d > e.day => charged[u][d] = 0
      /\ e.day > 0 => e.day \in Days /\ e.daily = charged[u][e.day]
                      /\ e.monthly = Charged(u, MonthOf(e.day))
  BY Constants DEF LedgerInv, BudgetTypeOK, Entry, Days
<1>2. DailyOn(e, today) = charged[u][today]
  <2>1. CASE e.day = today
    BY <1>1, <2>1, Constants DEF DailyOn
  <2>2. CASE e.day # today
    <3>1. today > e.day
      BY <1>1, <2>2, Constants DEF Days
    <3> QED
      BY <1>1, <2>2, <3>1 DEF DailyOn
  <2> QED
    BY <2>1, <2>2
<1>3. CASE e.day > 0 /\ Month(e.day) = Month(today)
  <2>1. MonthOf(e.day) = MonthOf(today)
    BY <1>3 DEF MonthOf
  <2> QED
    BY <1>1, <1>2, <1>3, <2>1 DEF MonthlyOn
<1>4. CASE ~(e.day > 0 /\ Month(e.day) = Month(today))
  <2>1. ASSUME NEW d \in MonthOf(today)
        PROVE  charged[u][d] = 0
    <3>1. d \in Days /\ Month(d) = Month(today)
      BY DEF MonthOf
    <3>2. CASE e.day = 0
      BY <1>1, <3>1, <3>2, Constants
    <3>3. CASE e.day > 0
      <4>1. ~(d <= e.day)
        BY <1>1, <1>4, <3>1, <3>3, MonthGrows
      <4> QED
        BY <1>1, <3>1, <4>1, Constants
    <3> QED
      BY <1>1, <3>2, <3>3
  <2>2. Charged(u, MonthOf(today)) = 0
    BY <2>1, MonthIsFinite, TotalZero, ChargedIsTotal
  <2> QED
    BY <1>2, <1>4, <2>2 DEF MonthlyOn
<1> QED
  BY <1>3, <1>4

\* An accrual of no earlier date keeps the tracker's windows true.
LEMMA RecordLedger ==
  ASSUME BudgetTypeOK, BudgetTypeOK', NEW u \in Customers, LedgerInv(u),
         NEW now \in Days, NEW cost \in Nat, now >= spent[u].day, now <= today,
         spent'[u] = Accrued(spent[u], now, cost), today' = today,
         charged'[u][now] = charged[u][now] + cost,
         \A d \in Days \ {now} : charged'[u][d] = charged[u][d]
  PROVE  LedgerInv(u)'
<1> DEFINE e == spent[u]
<1>0. e.day \in 0..MaxDay /\ now \in Nat \ {0} /\ now >= e.day
  BY Constants DEF BudgetTypeOK, Entry
<1>1. /\ e.day \in 0..MaxDay /\ e.day <= now /\ now \in Nat \ {0}
      /\ \A d \in Days : d > e.day => charged[u][d] = 0
      /\ e.day > 0 => e.day \in Days /\ e.daily = charged[u][e.day]
                      /\ e.monthly = Charged(u, MonthOf(e.day))
  BY <1>0, Constants DEF LedgerInv, Days
<1>2. /\ spent'[u].day = now
      /\ spent'[u].daily = DailyOn(e, now) + cost
      /\ spent'[u].monthly = MonthlyOn(e, now) + cost
  BY DEF Accrued
<1>3. DailyOn(e, now) = charged[u][now]
  <2>1. CASE e.day = now
    BY <1>1, <2>1 DEF DailyOn
  <2>2. CASE e.day # now
    <3>1. now > e.day
      BY <1>1, <2>2
    <3> QED
      BY <1>1, <2>2, <3>1 DEF DailyOn
  <2> QED
    BY <2>1, <2>2
<1>4. MonthlyOn(e, now) = Charged(u, MonthOf(now))
  <2>1. CASE e.day > 0 /\ Month(e.day) = Month(now)
    <3>1. MonthOf(e.day) = MonthOf(now)
      BY <2>1 DEF MonthOf
    <3> QED
      BY <1>1, <2>1, <3>1 DEF MonthlyOn
  <2>2. CASE ~(e.day > 0 /\ Month(e.day) = Month(now))
    <3>1. ASSUME NEW d \in MonthOf(now)
          PROVE  charged[u][d] = 0
      <4>1. d \in Days /\ Month(d) = Month(now) /\ d \in Nat \ {0}
        BY Constants DEF MonthOf
      <4>2. CASE e.day > 0
        <5>1. ~(d <= e.day)
          BY <1>1, <2>2, <4>1, <4>2, MonthGrows
        <5> QED
          BY <1>1, <4>1, <5>1
      <4> QED
        BY <1>1, <4>1, <4>2
    <3>2. Charged(u, MonthOf(now)) = 0
      BY <3>1, MonthIsFinite, TotalZero, ChargedIsTotal
    <3> QED
      BY <2>2, <3>2 DEF MonthlyOn
  <2> QED
    BY <2>1, <2>2
<1>5. Charged(u, MonthOf(now))' = Charged(u, MonthOf(now)) + cost
  BY ChargedGrows
<1>6. \A d \in Days : d > now => charged'[u][d] = 0
  BY <1>1, Constants
<1> QED
  BY <1>1, <1>2, <1>3, <1>4, <1>5, <1>6 DEF LedgerInv

-----------------------------------------------------------------------------
(* The budget: what threads past the check may still add                     *)

\* The highest cost of a call.
LEMMA MostIs == /\ Max(Costs) \in Nat /\ \A c \in Costs : c <= Max(Costs)
<1>1. PICK most \in Costs : \A c \in Costs : c <= most
  BY BudgetAssumption
<1>2. most \in Nat /\ \A c \in Costs : c \in Nat
  BY Constants
<1>3. \A c \in Costs : most >= c
  BY <1>1, <1>2
<1>4. Max(Costs) \in Costs /\ \A c \in Costs : Max(Costs) >= c
  BY <1>3 DEF Max
<1> QED
  BY <1>2, <1>4

\* The threads of a set may add that many times the highest cost.
Spill(T) == Cardinality(T) * Max(Costs)

LEMMA SpillOfFewer ==
  ASSUME NEW T, NEW U, T \subseteq Threads, U \subseteq T
  PROVE  Spill(T) \in Nat /\ Spill(U) \in Nat /\ Spill(U) <= Spill(T)
<1>1. IsFiniteSet(T) /\ T \in SUBSET Threads
  BY BudgetAssumption, FS_Subset
<1>2. IsFiniteSet(U) /\ Cardinality(U) <= Cardinality(T)
  BY <1>1, FS_Subset
<1>3. Cardinality(T) \in Nat /\ Cardinality(U) \in Nat
  BY <1>1, <1>2, FS_CardinalityType
<1>4. \A j, k, m \in Nat : j <= k => j * m \in Nat /\ k * m \in Nat /\ j * m <= k * m
  OBVIOUS
<1> QED
  BY <1>2, <1>3, <1>4, MostIs DEF Spill

\* One thread less may add the highest cost less.
LEMMA SpillWithout ==
  ASSUME NEW T, T \subseteq Threads, NEW t \in T
  PROVE  /\ Spill(T) = Spill(T \ {t}) + Max(Costs)
         /\ Spill(T \ {t}) \in Nat
<1>1. IsFiniteSet(T) /\ T \in SUBSET Threads
  BY BudgetAssumption, FS_Subset
<1>2. IsFiniteSet(T \ {t}) /\ Cardinality(T \ {t}) = Cardinality(T) - 1
  BY <1>1, FS_RemoveElement
<1>3. Cardinality(T) \in Nat /\ Cardinality(T \ {t}) \in Nat
  BY <1>1, <1>2, FS_CardinalityType
<1>4. \A k, m \in Nat : (k + 1) * m = k * m + m /\ k * m \in Nat
  OBVIOUS
<1>5. Cardinality(T) = Cardinality(T \ {t}) + 1
  BY <1>2, <1>3
<1> QED
  BY <1>3, <1>4, <1>5, MostIs DEF Spill

\* What was charged stays within the cap and the spill of all threads.
LEMMA SpillBound ==
  ASSUME BudgetTypeOK, NEW u \in Customers, NEW d \in Days, caps[u].daily > 0, SpillInv(u, d)
  PROVE  charged[u][d] < caps[u].daily + Spill(Threads)
<1>1. /\ charged[u][d] \in Nat /\ caps[u].daily \in Int
      /\ Spill(Threads) \in Nat /\ Spill(MayChargeOn(u, d)) \in Nat
  BY SpillOfFewer, BudgetAssumption DEF BudgetTypeOK, Cap, MayChargeOn
<1> QED
  BY <1>1 DEF SpillInv, Spill

\* With the charges and the cap as they are, no thread more may charge.
LEMMA SpillStays ==
  ASSUME BudgetTypeOK, NEW u \in Customers, NEW d \in Days, SpillInv(u, d),
         charged'[u][d] = charged[u][d], caps'[u] = caps[u],
         charged[u][d] >= caps[u].daily =>
            \A t \in Threads : MayCharge(t, u, d)' => MayCharge(t, u, d)
  PROVE  SpillInv(u, d)'
<1> SUFFICES ASSUME charged[u][d] >= caps[u].daily
             PROVE  charged[u][d] + Spill(MayChargeOn(u, d)')
                       < caps[u].daily + Spill(Threads)
  BY DEF SpillInv, Spill
<1>1. MayChargeOn(u, d)' \subseteq MayChargeOn(u, d) /\ MayChargeOn(u, d) \subseteq Threads
  BY DEF MayChargeOn
<1>2. charged[u][d] + Spill(MayChargeOn(u, d)) < caps[u].daily + Spill(Threads)
  BY DEF SpillInv, Spill
<1>3. /\ charged[u][d] \in Nat /\ caps[u].daily \in Int
      /\ Spill(MayChargeOn(u, d)) \in Nat /\ Spill(MayChargeOn(u, d)') \in Nat
      /\ Spill(MayChargeOn(u, d)') <= Spill(MayChargeOn(u, d)) /\ Spill(Threads) \in Nat
  BY <1>1, SpillOfFewer, BudgetAssumption DEF BudgetTypeOK, Cap
<1> QED
  BY <1>2, <1>3

\* An accrual takes its thread's share of the spill.
LEMMA SpillRecorded ==
  ASSUME BudgetTypeOK, BudgetTypeOK', NEW u \in Customers, NEW d \in Days, SpillInv(u, d),
         NEW t \in Threads, NEW cost \in Nat, cost <= Max(Costs),
         MayCharge(t, u, d), ~MayCharge(t, u, d)', caps'[u] = caps[u],
         charged'[u][d] = charged[u][d] + cost,
         \A s \in Threads \ {t} : MayCharge(s, u, d)' => MayCharge(s, u, d)
  PROVE  SpillInv(u, d)'
<1> DEFINE now == MayChargeOn(u, d)
           then == MayChargeOn(u, d)'
<1>1. /\ charged[u][d] \in Nat /\ caps[u].daily \in Int /\ Max(Costs) \in Nat
  BY MostIs, BudgetAssumption DEF BudgetTypeOK, Cap
<1>2. /\ t \in now /\ t \notin then /\ now \subseteq Threads /\ then \subseteq now \ {t}
  BY DEF MayChargeOn
<1>3. /\ Spill(now) = Spill(now \ {t}) + Max(Costs) /\ Spill(now \ {t}) \in Nat
      /\ Spill(Threads) = Spill(Threads \ {t}) + Max(Costs) /\ Spill(Threads \ {t}) \in Nat
  BY <1>2, SpillWithout
<1>4. /\ Spill(then) \in Nat /\ Spill(then) <= Spill(now \ {t})
      /\ Spill(then) <= Spill(Threads \ {t})
  <2>1. now \ {t} \subseteq Threads /\ then \subseteq now \ {t}
    BY <1>2
  <2>2. Threads \ {t} \subseteq Threads /\ then \subseteq Threads \ {t}
    BY <1>2
  <2>3. Spill(then) \in Nat /\ Spill(then) <= Spill(now \ {t})
    BY <2>1, SpillOfFewer
  <2>4. Spill(then) <= Spill(Threads \ {t})
    BY <2>2, SpillOfFewer
  <2> QED
    BY <2>3, <2>4
<1>5. charged[u][d] >= caps[u].daily =>
        charged[u][d] + Spill(now) < caps[u].daily + Spill(Threads)
  BY DEF SpillInv, Spill
<1> HIDE DEF now, then
<1>6. charged[u][d] + cost + Spill(then) < caps[u].daily + Spill(Threads)
  BY <1>1, <1>3, <1>4, <1>5
<1> QED
  BY <1>6 DEF SpillInv, Spill, then

-----------------------------------------------------------------------------
(* The budget: the invariant is preserved                                    *)

\* What a thread that served its call carries.
LEMMA IdleWork == NoWork.customer = Nobody /\ NoWork.now = 0 /\ Nobody \notin Customers
BY BudgetAssumption DEF NoWork

\* Today is a date of the calendar.
LEMMA TodayType ==
  ASSUME BudgetTypeOK
  PROVE  today \in Days /\ today \in Nat \ {0}
BY Constants DEF BudgetTypeOK

\* A thread that records serves a customer, on a date of the calendar.
LEMMA Recorder ==
  ASSUME NEW t \in Threads, WorkInv(t), RecordCost(t)
  PROVE  /\ work[t].customer \in Customers /\ work[t].now \in Days
         /\ work[t].now <= today /\ work[t].cost \in Costs
BY DEF RecordCost, WorkInv

\* The thread that moves keeps its invariant.
LEMMA MoverWorks ==
  ASSUME BudgetTypeOK, NEW t \in Threads, WorkInv(t), ThreadMoves(t) \/ RecordCost(t)
  PROVE  WorkInv(t)' /\ OnlyThread(t) /\ today' = today
<1>0. today \in Days /\ today \in Nat \ {0}
  BY TodayType
<1>1. CASE Enter(t)
  BY <1>0, <1>1, EnterStep DEF WorkInv, Books
<1>2. CASE ReadBucket(t)
  BY <1>2, ReadStep DEF WorkInv, Books, ReadBucket
<1>3. CASE Judge(t)
  BY <1>0, <1>3, JudgeStep, IdleWork DEF WorkInv, Books
<1>4. CASE Unbilled(t)
  BY <1>0, <1>4, LeaveStep, IdleWork DEF WorkInv, Unbilled
<1>5. CASE Answered(t)
  BY <1>0, <1>5, AnsweredStep DEF WorkInv, Books
<1>6. CASE RecordCost(t)
  BY <1>0, <1>6, Recorder, RecordStep, IdleWork DEF WorkInv
<1> QED
  BY <1>1, <1>2, <1>3, <1>4, <1>5, <1>6 DEF ThreadMoves

\* Every step keeps what each thread is known to carry.
LEMMA WorkKept ==
  ASSUME BudgetTypeOK, \A t \in Threads : WorkInv(t), BudgetNext
  PROVE  \A t \in Threads : WorkInv(t)'
<1> SUFFICES ASSUME NEW s \in Threads  PROVE WorkInv(s)'
  OBVIOUS
<1>0. today \in Nat \ {0} /\ work[s].now \in Nat
  BY TodayType, WorkFields, Constants
<1>1. ASSUME NEW t \in Threads, ThreadMoves(t) \/ RecordCost(t)
      PROVE  WorkInv(s)'
  <2>1. CASE s = t
    BY <1>1, <2>1, MoverWorks
  <2>2. CASE s # t
    BY <1>1, <2>2, MoverWorks DEF OnlyThread, WorkInv
  <2> QED
    BY <2>1, <2>2
<1>2. ASSUME NEW u \in Customers, NEW cap \in Caps, SetCap(u, cap)
      PROVE  WorkInv(s)'
  BY <1>2 DEF SetCap, WorkInv
<1>3. CASE Midnight
  BY <1>0, <1>3 DEF Midnight, WorkInv
<1>4. CASE Restart
  <2>1. at'[s] = "out" /\ work'[s] = NoWork /\ today' = today
    BY <1>4 DEF Restart
  <2> QED
    BY <1>0, <2>1, IdleWork DEF WorkInv
<1> QED
  BY <1>1, <1>2, <1>3, <1>4 DEF BudgetNext, ThreadMoves

\* What an accrual does to the tracker's entries and to what was charged.
LEMMA RecordFields ==
  ASSUME BudgetTypeOK, NEW t \in Threads, WorkInv(t), RecordCost(t)
  PROVE  LET u == work[t].customer IN
         /\ spent'[u] = Accrued(spent[u], work[t].now, work[t].cost)
         /\ spent'[u].day = work[t].now
         /\ \A x \in Customers \ {u} : spent'[x] = spent[x] /\ charged'[x] = charged[x]
         /\ forgotten \subseteq forgotten'
         /\ u \notin forgotten' => work[t].now >= spent[u].day
<1> DEFINE u == work[t].customer
           entry == Accrued(spent[u], work[t].now, work[t].cost)
<1>0. work[t].now \in Nat /\ spent[u].day \in Nat
  BY Recorder, Constants DEF BudgetTypeOK, Entry
<1>1. /\ u \in Customers /\ entry \in Entry /\ spent' = [spent EXCEPT ![u] = entry]
      /\ \A x \in Customers \ {u} : charged'[x] = charged[x]
      /\ forgotten' = IF work[t].now < spent[u].day THEN forgotten \cup {u} ELSE forgotten
  BY Recorder, RecordStep
<1>2. entry.day = work[t].now
  BY DEF Accrued
<1> HIDE DEF entry
<1>3. /\ spent'[u] = entry
      /\ \A x \in Customers \ {u} : spent'[x] = spent[x]
  BY <1>1 DEF BudgetTypeOK
<1> QED
  BY <1>0, <1>1, <1>2, <1>3 DEF entry

\* No entry is dated later than today.
LEMMA DaysKept ==
  ASSUME BudgetTypeOK, \A t \in Threads : WorkInv(t), BudgetNext,
         \A u \in Customers : spent[u].day <= today
  PROVE  \A u \in Customers : spent'[u].day <= today'
<1> SUFFICES ASSUME NEW u \in Customers  PROVE spent'[u].day <= today'
  OBVIOUS
<1>0. today \in Nat \ {0} /\ spent[u].day \in Nat
  BY TodayType, Constants DEF BudgetTypeOK, Entry
<1>1. ASSUME NEW t \in Threads, ThreadMoves(t)
      PROVE  spent'[u].day <= today'
  BY <1>1, MoveStep DEF Books
<1>2. ASSUME NEW t \in Threads, RecordCost(t)
      PROVE  spent'[u].day <= today'
  BY <1>2, RecordFields, Recorder, MoverWorks
<1>3. ASSUME NEW x \in Customers, NEW cap \in Caps, SetCap(x, cap)
      PROVE  spent'[u].day <= today'
  BY <1>3 DEF SetCap
<1>4. CASE Midnight
  BY <1>0, <1>4 DEF Midnight
<1>5. CASE Restart
  BY <1>0, <1>5 DEF Restart, NoEntry
<1> QED
  BY <1>1, <1>2, <1>3, <1>4, <1>5 DEF BudgetNext, ThreadMoves

\* A customer whose cap was not changed has the default cap, before and after.
LEMMA CapsKept ==
  ASSUME BudgetTypeOK, \A t \in Threads : WorkInv(t), BudgetNext,
         \A u \in Customers \ recapped : caps[u] = DefaultCap
  PROVE  /\ recapped \subseteq recapped'
         /\ \A u \in Customers \ recapped' : caps'[u] = DefaultCap /\ caps[u] = DefaultCap
<1>1. ASSUME NEW t \in Threads, ThreadMoves(t)
      PROVE  UNCHANGED <<caps, recapped>>
  BY <1>1, MoveStep DEF Books
<1>2. ASSUME NEW t \in Threads, RecordCost(t)
      PROVE  UNCHANGED <<caps, recapped>>
  BY <1>2, RecordStep, Recorder
<1>3. ASSUME NEW x \in Customers, NEW cap \in Caps, SetCap(x, cap)
      PROVE  /\ recapped' = recapped \cup {x}
             /\ \A u \in Customers \ {x} : caps'[u] = caps[u]
  BY <1>3 DEF SetCap, BudgetTypeOK
<1>4. CASE Midnight
  BY <1>4 DEF Midnight
<1>5. CASE Restart
  <2>1. /\ recapped' = recapped \cup {u \in Customers : caps[u] # DefaultCap}
        /\ \A u \in Customers : caps'[u] = DefaultCap
    BY <1>5 DEF Restart
  <2> QED
    BY <2>1
<1> QED
  BY <1>1, <1>2, <1>3, <1>4, <1>5 DEF BudgetNext, ThreadMoves

\* With the customer's entry and charges as they are, a later date changes nothing.
LEMMA LedgerStays ==
  ASSUME BudgetTypeOK, BudgetTypeOK', NEW u \in Customers, LedgerInv(u),
         spent'[u] = spent[u], charged'[u] = charged[u], today' >= today
  PROVE  LedgerInv(u)'
<1>1. spent[u].day \in Nat /\ today \in Nat /\ today' \in Nat
  BY Constants DEF BudgetTypeOK, Entry
<1>2. /\ Charged(u, MonthOf(spent[u].day))' = Total(charged'[u], MonthOf(spent'[u].day))
      /\ Charged(u, MonthOf(spent[u].day)) = Total(charged[u], MonthOf(spent[u].day))
  BY DEF Charged, Total, MapThenSumSet, MapThenFoldSet, MonthOf
<1>3. Charged(u, MonthOf(spent[u].day))' = Charged(u, MonthOf(spent[u].day))
  BY <1>2
<1>4. spent'[u].day <= today'
  BY <1>1 DEF LedgerInv
<1> QED
  BY <1>3, <1>4 DEF LedgerInv

\* Every step keeps the tracker true of the customers it has not forgotten.
LEMMA LedgersKept ==
  ASSUME BudgetTypeOK, BudgetTypeOK', \A t \in Threads : WorkInv(t), BudgetNext,
         \A u \in Customers \ forgotten : LedgerInv(u)
  PROVE  /\ forgotten \subseteq forgotten'
         /\ \A u \in Customers \ forgotten' : LedgerInv(u)'
<1>0. today \in Nat \ {0}
  BY TodayType
<1>1. ASSUME NEW t \in Threads, ThreadMoves(t)
      PROVE  UNCHANGED <<spent, charged, today, forgotten>>
  BY <1>1, MoveStep DEF Books
<1>2. ASSUME NEW x \in Customers, NEW cap \in Caps, SetCap(x, cap)
      PROVE  UNCHANGED <<spent, charged, today, forgotten>>
  BY <1>2 DEF SetCap
<1>3. CASE Midnight
  <2>1. UNCHANGED <<spent, charged, forgotten>> /\ today' = today + 1
    BY <1>3 DEF Midnight
  <2> QED
    BY <1>0, <2>1, LedgerStays
<1>4. CASE Restart
  <2>1. /\ forgotten' = forgotten \cup {u \in Customers : spent[u] # NoEntry}
        /\ \A u \in Customers : spent'[u] = NoEntry
        /\ UNCHANGED <<charged, today>>
    BY <1>4 DEF Restart
  <2> QED
    BY <1>0, <2>1, LedgerStays
<1>5. ASSUME NEW t \in Threads, RecordCost(t), NEW u \in Customers \ forgotten'
      PROVE  LedgerInv(u)'
  <2>1. u \in Customers \ forgotten /\ LedgerInv(u) /\ today' = today
    BY <1>5, RecordFields, MoverWorks
  <2>2. CASE u = work[t].customer
    <3> DEFINE now == work[t].now
               cost == work[t].cost
    <3>1. /\ now \in Days /\ cost \in Nat /\ now >= spent[u].day /\ now <= today
          /\ spent'[u] = Accrued(spent[u], now, cost)
      BY <1>5, <2>2, Recorder, RecordFields, Constants
    <3>2. /\ charged'[u][now] = charged[u][now] + cost
          /\ \A d \in Days \ {now} : charged'[u][d] = charged[u][d]
      BY <1>5, <2>2, Recorder, RecordStep
    <3> HIDE DEF now, cost
    <3> QED
      BY <2>1, <3>1, <3>2, RecordLedger
  <2>3. CASE u # work[t].customer
    <3>1. spent'[u] = spent[u] /\ charged'[u] = charged[u]
      BY <1>5, <2>3, RecordFields
    <3> QED
      BY <1>0, <2>1, <3>1, LedgerStays
  <2> QED
    BY <2>2, <2>3
<1>6. ASSUME NEW t \in Threads, RecordCost(t)
      PROVE  forgotten \subseteq forgotten'
  BY <1>6, RecordFields
<1>7. ASSUME UNCHANGED <<spent, charged, today, forgotten>>
      PROVE  /\ forgotten \subseteq forgotten'
             /\ \A u \in Customers \ forgotten' : LedgerInv(u)'
  BY <1>0, <1>7, LedgerStays
<1>8. ASSUME NEW t \in Threads, RecordCost(t)
      PROVE  /\ forgotten \subseteq forgotten'
             /\ \A u \in Customers \ forgotten' : LedgerInv(u)'
  BY <1>5, <1>6, <1>8
<1>9. Restart \/ Midnight => forgotten \subseteq forgotten'
  BY DEF Restart, Midnight
<1> QED
  BY <1>1, <1>2, <1>3, <1>4, <1>7, <1>8, <1>9 DEF BudgetNext, ThreadMoves

\* A thread on its way to the provider: its step lets it charge nothing that it
\* could not charge before, once the cap of the day is reached.
LEMMA MoverMayCharge ==
  ASSUME BudgetTypeOK, NEW t \in Threads, WorkInv(t), ThreadMoves(t),
         NEW u \in Customers, LedgerInv(u), caps[u].daily > 0, NEW d \in Days,
         charged[u][d] >= caps[u].daily, MayCharge(t, u, d)'
  PROVE  MayCharge(t, u, d)
<1>0. /\ today \in Nat \ {0} /\ work[t].now \in Nat /\ work[t].now <= today
      /\ caps[u].daily \in Int /\ charged[u][d] \in Nat
  BY TodayType, WorkFields, Constants, BudgetAssumption DEF WorkInv, BudgetTypeOK, Cap
<1>1. work'[t].customer = u /\ today' = today /\ caps' = caps
  BY MoveStep DEF MayCharge, Books
<1>2. CASE Enter(t)
  BY <1>0, <1>1, <1>2, EnterStep DEF MayCharge
<1>3. CASE ReadBucket(t)
  <2>1. /\ at[t] = "dated" /\ at'[t] = "read" /\ work[t].customer = u /\ d = today
        /\ work'[t].daily = DailyOn(spent[u], work[t].now)
        /\ work'[t].daily < caps[u].daily
    BY <1>1, <1>3, ReadStep DEF MayCharge, ReadBucket, WorkInv
  <2>2. DailyOn(spent[u], today) = charged[u][today]
    BY TrackerTells
  <2>3. work[t].now # today
    BY <1>0, <2>1, <2>2
  <2>4. work[t].now < today
    BY <1>0, <2>3
  <2> QED
    BY <2>1, <2>4 DEF MayCharge
<1>4. CASE Judge(t)
  <2>1. /\ at[t] = "read" /\ at'[t] = "running" /\ work[t].customer = u
        /\ ~Reached(work[t].daily, caps[u].daily)
    BY <1>1, <1>4, JudgeStep, IdleWork DEF MayCharge
  <2>2. d = today
    BY <1>1, <2>1 DEF MayCharge
  <2>3. work[t].daily < caps[u].daily
    BY <1>0, <2>1, WorkFields DEF Reached
  <2> QED
    BY <2>1, <2>2, <2>3 DEF MayCharge
<1>5. CASE Unbilled(t)
  BY <1>1, <1>5, LeaveStep, IdleWork DEF Unbilled
<1>6. CASE Answered(t)
  BY <1>1, <1>6, AnsweredStep DEF MayCharge
<1> QED
  BY <1>2, <1>3, <1>4, <1>5, <1>6 DEF ThreadMoves

\* What every step keeps of the charges still to come of one customer and date.
LEMMA SpillKept ==
  ASSUME BudgetTypeOK, BudgetTypeOK', \A t \in Threads : WorkInv(t), BudgetNext,
         NEW u \in Customers, LedgerInv(u), caps[u].daily > 0, caps'[u] = caps[u],
         NEW d \in Days, SpillInv(u, d)
  PROVE  SpillInv(u, d)'
<1>0. /\ today \in Nat \ {0} /\ caps[u].daily \in Int /\ charged[u][d] \in Nat /\ d \in Nat
      /\ spent[u].day \in Nat
  BY TodayType, Constants, BudgetAssumption DEF BudgetTypeOK, Cap, Entry
<1>1. ASSUME NEW t \in Threads, ThreadMoves(t)
      PROVE  SpillInv(u, d)'
  <2>1. OnlyThread(t) /\ charged' = charged /\ today' = today
    BY <1>1, MoveStep DEF Books
  <2>2. ASSUME charged[u][d] >= caps[u].daily, NEW s \in Threads, MayCharge(s, u, d)'
        PROVE  MayCharge(s, u, d)
    <3>1. CASE s = t
      BY <1>1, <2>2, <3>1, MoverMayCharge
    <3>2. CASE s # t
      BY <2>1, <2>2, <3>2 DEF OnlyThread, MayCharge
    <3> QED
      BY <3>1, <3>2
  <2> QED
    BY <2>1, <2>2, SpillStays
<1>2. ASSUME NEW t \in Threads, RecordCost(t)
      PROVE  SpillInv(u, d)'
  <2>1. /\ OnlyThread(t) /\ today' = today /\ at[t] = "stamped" /\ work'[t] = NoWork
        /\ work[t].customer \in Customers /\ work[t].now \in Days
        /\ work[t].cost \in Costs /\ work[t].cost \in Nat
    BY <1>2, Recorder, RecordStep, MoverWorks, Constants
  <2>2. ~MayCharge(t, u, d)'
    BY <2>1, IdleWork DEF MayCharge
  <2>3. \A s \in Threads \ {t} : MayCharge(s, u, d)' => MayCharge(s, u, d)
    BY <2>1 DEF OnlyThread, MayCharge
  <2>4. CASE work[t].customer = u /\ work[t].now = d
    <3>1. MayCharge(t, u, d)
      BY <2>1, <2>4 DEF MayCharge
    <3>2. charged'[u][d] = charged[u][d] + work[t].cost
      BY <1>2, <2>1, <2>4, RecordStep
    <3>3. work[t].cost <= Max(Costs)
      BY <2>1, MostIs
    <3> QED
      BY <2>1, <2>2, <2>3, <3>1, <3>2, <3>3, SpillRecorded
  <2>5. CASE ~(work[t].customer = u /\ work[t].now = d)
    <3>1. charged'[u][d] = charged[u][d]
      BY <1>2, <2>1, <2>5, RecordStep
    <3> QED
      BY <2>2, <2>3, <3>1, SpillStays
  <2> QED
    BY <2>4, <2>5
<1>3. ASSUME NEW x \in Customers, NEW cap \in Caps, SetCap(x, cap)
      PROVE  SpillInv(u, d)'
  <2>1. UNCHANGED <<charged, at, work, today>>
    BY <1>3 DEF SetCap
  <2>2. \A s \in Threads : MayCharge(s, u, d)' => MayCharge(s, u, d)
    BY <2>1 DEF MayCharge
  <2> QED
    BY <2>1, <2>2, SpillStays
<1>4. CASE Midnight
  <2>1. UNCHANGED <<charged, at, work>> /\ today' = today + 1
    BY <1>4 DEF Midnight
  <2>2. CASE d = today'
    <3>1. charged[u][d] = 0
      BY <1>0, <2>1, <2>2 DEF LedgerInv
    <3> QED
      BY <1>0, <2>1, <3>1, SpillStays
  <2>3. CASE d # today'
    <3>1. \A s \in Threads : MayCharge(s, u, d)' => MayCharge(s, u, d)
      BY <2>1, <2>3 DEF MayCharge
    <3> QED
      BY <2>1, <3>1, SpillStays
  <2> QED
    BY <2>2, <2>3
<1>5. CASE Restart
  <2>1. charged' = charged /\ \A s \in Threads : at'[s] = "out"
    BY <1>5 DEF Restart
  <2>2. \A s \in Threads : ~MayCharge(s, u, d)'
    BY <2>1 DEF MayCharge
  <2> QED
    BY <2>1, <2>2, SpillStays
<1> QED
  BY <1>1, <1>2, <1>3, <1>4, <1>5 DEF BudgetNext, ThreadMoves

\* The five parts together.
LEMMA BudgetStep ==
  ASSUME BudgetTypeOK, BudgetInv, BudgetNext
  PROVE  (BudgetTypeOK /\ BudgetInv)'
<1>1. BudgetTypeOK' /\ \A t \in Threads : WorkInv(t)'
  BY NextType, WorkKept DEF BudgetInv
<1>2. \A u \in Customers : spent'[u].day <= today'
  BY DaysKept DEF BudgetInv
<1>3. /\ recapped \subseteq recapped'
      /\ \A u \in Customers \ recapped' : caps'[u] = DefaultCap /\ caps[u] = DefaultCap
  BY CapsKept DEF BudgetInv
<1>4. /\ forgotten \subseteq forgotten'
      /\ \A u \in Customers \ forgotten' : LedgerInv(u)'
  BY <1>1, LedgersKept DEF BudgetInv
<1>5. ASSUME NEW u \in Customers \ (forgotten' \cup recapped'), NEW d \in Days,
             caps'[u].daily > 0
      PROVE  SpillInv(u, d)'
  <2>1. /\ u \in Customers /\ caps'[u] = caps[u] /\ caps[u].daily > 0
        /\ LedgerInv(u) /\ SpillInv(u, d)
    BY <1>3, <1>4, <1>5 DEF BudgetInv
  <2> QED
    BY <1>1, <2>1, SpillKept DEF BudgetInv
<1> QED
  BY <1>1, <1>2, <1>3, <1>4, <1>5 DEF BudgetInv

\* A step of the rest of the process changes nothing here.
LEMMA BudgetStutter ==
  ASSUME BudgetTypeOK, BudgetInv, UNCHANGED budgetVars
  PROVE  (BudgetTypeOK /\ BudgetInv)'
<1>1. BudgetTypeOK' /\ UNCHANGED <<today, spent, caps, at, work, charged, forgotten, recapped>>
  BY DEF budgetVars, BudgetTypeOK
<1>2. \A t \in Threads : WorkInv(t)'
  BY <1>1 DEF BudgetInv, WorkInv
<1>3. \A u \in Customers \ forgotten : LedgerInv(u)'
  <2>1. today \in Nat
    BY TodayType
  <2> QED
    BY <1>1, <2>1, LedgerStays DEF BudgetInv
<1>4. \A u \in Customers, d \in Days : SpillInv(u, d) => SpillInv(u, d)'
  <2>1. ASSUME NEW u \in Customers, NEW d \in Days, NEW t \in Threads, MayCharge(t, u, d)'
        PROVE  MayCharge(t, u, d)
    BY <1>1, <2>1 DEF MayCharge
  <2> QED
    BY <1>1, <2>1, SpillStays
<1> QED
  BY <1>1, <1>2, <1>3, <1>4 DEF BudgetInv

\* An empty tracker is true of the nothing that was charged.
LEMMA BudgetStart ==
  ASSUME BudgetInit
  PROVE  BudgetTypeOK /\ BudgetInv
<1>1. NoEntry \in Entry /\ NoWork \in Work /\ "out" \in Places
  BY Constants DEF NoEntry, Entry, NoWork, Work, Places
<1>2. 1 \in Days /\ 0 \in 0..MaxCalls
  BY BudgetAssumption DEF Days
<1>3. BudgetTypeOK
  BY <1>1, <1>2 DEF BudgetInit, BudgetTypeOK
<1>4. \A t \in Threads : WorkInv(t) /\ at[t] = "out"
  BY IdleWork DEF BudgetInit, WorkInv
<1>5. ASSUME NEW u \in Customers
      PROVE  /\ spent[u].day <= today /\ caps[u] = DefaultCap /\ LedgerInv(u)
             /\ \A d \in Days : charged[u][d] = 0
  BY <1>5 DEF BudgetInit, NoEntry, LedgerInv
<1>6. ASSUME NEW u \in Customers, NEW d \in Days, caps[u].daily > 0
      PROVE  SpillInv(u, d)
  <2>1. caps[u].daily \in Int /\ charged[u][d] = 0
    BY <1>3, <1>5, BudgetAssumption DEF BudgetTypeOK, Cap
  <2> QED
    BY <1>6, <2>1 DEF SpillInv
<1> QED
  BY <1>3, <1>4, <1>5, <1>6 DEF BudgetInv

\* The two parts of BudgetIsKept besides the types.
LEMMA BudgetTold ==
  ASSUME BudgetTypeOK, BudgetInv
  PROVE  BudgetIsKept
<1>1. TrackedExactly
  BY TrackerTells DEF TrackedExactly, BudgetInv
<1>2. CapOvershoot
  BY SpillBound DEF CapOvershoot, BudgetInv, Spill
<1> QED
  BY <1>1, <1>2 DEF BudgetIsKept

\* The inductive invariant holds of every behaviour of the gateway's threads.
THEOREM BudgetInvariant == BudgetSpec => [](BudgetTypeOK /\ BudgetInv)
<1>1. BudgetInit => BudgetTypeOK /\ BudgetInv
  BY BudgetStart
<1>2. BudgetTypeOK /\ BudgetInv /\ [BudgetNext]_budgetVars => (BudgetTypeOK /\ BudgetInv)'
  BY BudgetStep, BudgetStutter
<1> QED
  BY <1>1, <1>2, PTL DEF BudgetSpec

\* budget.py tells what was charged and keeps to the caps up to the calls in flight, for
\* any number of threads, customers and dates, any costs with a highest one, and midnights,
\* cap changes and restarts in any order.
THEOREM BudgetIsKeptAlways == BudgetSpec => []BudgetIsKept
<1>1. BudgetTypeOK /\ BudgetInv => BudgetIsKept
  BY BudgetTold
<1> QED
  BY <1>1, BudgetInvariant, PTL

-----------------------------------------------------------------------------
(* The budget: an exhausted customer stays exhausted                         *)

\* What the tracker knows of customer u today has not shrunk, under the same cap.
WindowsGrow(u) ==
    /\ caps'[u] = caps[u]
    /\ DailyOn(spent'[u], today') >= DailyOn(spent[u], today)
    /\ MonthlyOn(spent'[u], today') >= MonthlyOn(spent[u], today)

\* Of an entry the two windows are amounts.
LEMMA WindowsType ==
  ASSUME NEW e \in Entry, NEW d
  PROVE  DailyOn(e, d) \in Nat /\ MonthlyOn(e, d) \in Nat
BY DEF Entry, DailyOn, MonthlyOn

\* Windows that only grow leave an exhausted customer exhausted.
LEMMA ExhaustedGrows ==
  ASSUME BudgetTypeOK, BudgetTypeOK', NEW u \in Customers, ExhaustedToday(u), WindowsGrow(u)
  PROVE  ExhaustedToday(u)'
<1> DEFINE day == DailyOn(spent[u], today)
           month == MonthlyOn(spent[u], today)
           day2 == DailyOn(spent'[u], today')
           month2 == MonthlyOn(spent'[u], today')
<1>1. /\ day \in Nat /\ month \in Nat /\ day2 \in Nat /\ month2 \in Nat
      /\ day2 >= day /\ month2 >= month /\ caps'[u] = caps[u]
      /\ caps[u].daily \in Int /\ caps[u].monthly \in Int
  BY WindowsType, BudgetAssumption DEF BudgetTypeOK, Cap, WindowsGrow
<1>2. Exhausted(day, month, caps[u])
  BY DEF ExhaustedToday
<1>3. ExhaustedToday(u)' = Exhausted(day2, month2, caps'[u])
  BY DEF ExhaustedToday, DailyOn, MonthlyOn, Exhausted, Reached, Month
<1> HIDE DEF day, month, day2, month2
<1>4. Exhausted(day2, month2, caps'[u])
  BY <1>1, <1>2 DEF Exhausted, Reached
<1> QED
  BY <1>3, <1>4

\* An accrual of no earlier date, whatever date it carries, shrinks no window.
LEMMA AccrualGrows ==
  ASSUME NEW e \in Entry, NEW now \in Days, NEW cost \in Nat, NEW d \in Days,
         e.day <= now, now <= d
  PROVE  LET f == Accrued(e, now, cost) IN
         DailyOn(f, d) >= DailyOn(e, d) /\ MonthlyOn(f, d) >= MonthlyOn(e, d)
<1> DEFINE f == Accrued(e, now, cost)
<1>1. /\ e.day \in 0..MaxDay /\ e.daily \in Nat /\ e.monthly \in Nat /\ e.day \in Nat
      /\ now \in Nat \ {0} /\ d \in Nat \ {0}
      /\ e.day > 0 => e.day \in Days
  BY Constants DEF Entry, Days
<1>2. /\ f.day = now /\ f.daily = DailyOn(e, now) + cost /\ f.monthly = MonthlyOn(e, now) + cost
  BY DEF Accrued
<1>3. /\ DailyOn(e, now) \in Nat /\ MonthlyOn(e, now) \in Nat
      /\ DailyOn(e, d) \in Nat /\ MonthlyOn(e, d) \in Nat
  BY WindowsType
<1> HIDE DEF f
<1>4. DailyOn(f, d) >= DailyOn(e, d)
  <2>1. CASE now = d
    BY <1>1, <1>2, <1>3, <2>1 DEF DailyOn
  <2>2. CASE now # d
    <3>1. e.day # d
      BY <1>1, <2>2
    <3> QED
      BY <1>2, <2>2, <3>1 DEF DailyOn
  <2> QED
    BY <2>1, <2>2
<1>5. MonthlyOn(f, d) >= MonthlyOn(e, d)
  <2>1. CASE Month(now) = Month(d)
    <3>1. MonthlyOn(f, d) = f.monthly /\ MonthlyOn(e, now) = MonthlyOn(e, d)
      BY <1>1, <1>2, <2>1 DEF MonthlyOn
    <3> QED
      BY <1>2, <1>3, <3>1
  <2>2. CASE Month(now) # Month(d)
    <3>1. MonthlyOn(f, d) = 0
      BY <1>2, <2>2 DEF MonthlyOn
    <3>2. ~(e.day > 0 /\ Month(e.day) = Month(d))
      <4> SUFFICES ASSUME e.day > 0  PROVE Month(e.day) # Month(d)
        OBVIOUS
      <4>1. /\ Month(e.day) \in Nat /\ Month(now) \in Nat /\ Month(d) \in Nat
            /\ Month(e.day) <= Month(now) /\ Month(now) <= Month(d)
        BY <1>1, MonthGrows
      <4> QED
        BY <2>2, <4>1
    <3> QED
      BY <3>1, <3>2 DEF MonthlyOn
  <2> QED
    BY <2>1, <2>2
<1> QED
  BY <1>4, <1>5 DEF f

\* Whatever a step does within the day to a customer whose cap stands and whose entry
\* is not taken back to an earlier date, it shrinks no window.
LEMMA NextGrows ==
  ASSUME BudgetTypeOK, BudgetInv, BudgetNext, NEW u \in Customers,
         today' = today, caps'[u] = caps[u], spent'[u].day >= spent[u].day
  PROVE  WindowsGrow(u)
<1>0. /\ spent[u] \in Entry /\ today \in Days /\ today \in Nat \ {0}
      /\ DailyOn(spent[u], today) \in Nat /\ MonthlyOn(spent[u], today) \in Nat
  BY TodayType, WindowsType DEF BudgetTypeOK
<1>1. ASSUME spent'[u] = spent[u]
      PROVE  WindowsGrow(u)
  BY <1>0, <1>1 DEF WindowsGrow
<1>2. ASSUME NEW t \in Threads, ThreadMoves(t)
      PROVE  spent'[u] = spent[u]
  BY <1>2, MoveStep DEF Books, BudgetInv
<1>3. ASSUME NEW x \in Customers, NEW cap \in Caps, SetCap(x, cap)
      PROVE  spent'[u] = spent[u]
  BY <1>3 DEF SetCap
<1>4. Midnight => spent'[u] = spent[u]
  BY DEF Midnight
<1>5. CASE Restart
  <2>1. spent'[u] = NoEntry
    BY <1>5 DEF Restart
  <2>2. spent[u].day = 0 /\ NoEntry.day = 0 /\ NoEntry.daily = 0 /\ NoEntry.monthly = 0
    BY <1>0, <2>1 DEF Entry, NoEntry
  <2>3. /\ DailyOn(spent[u], today) = 0 /\ MonthlyOn(spent[u], today) = 0
        /\ DailyOn(NoEntry, today) = 0 /\ MonthlyOn(NoEntry, today) = 0
    BY <1>0, <2>2 DEF DailyOn, MonthlyOn
  <2> QED
    BY <2>1, <2>3 DEF WindowsGrow
<1>6. ASSUME NEW t \in Threads, RecordCost(t)
      PROVE  WindowsGrow(u)
  <2>1. CASE u = work[t].customer
    <3> DEFINE now == work[t].now
               cost == work[t].cost
    <3>1. /\ now \in Days /\ cost \in Nat /\ now <= today /\ spent'[u].day = now
          /\ spent'[u] = Accrued(spent[u], now, cost)
      BY <1>6, <2>1, Recorder, RecordFields, Constants DEF BudgetInv
    <3>2. spent[u].day <= now
      BY <1>0, <3>1, Constants DEF Entry
    <3> HIDE DEF now, cost
    <3>3. /\ DailyOn(spent'[u], today) >= DailyOn(spent[u], today)
          /\ MonthlyOn(spent'[u], today) >= MonthlyOn(spent[u], today)
      BY <1>0, <3>1, <3>2, AccrualGrows
    <3> QED
      BY <3>3 DEF WindowsGrow
  <2>2. CASE u # work[t].customer
    BY <1>1, <1>6, <2>2, RecordFields DEF BudgetInv
  <2> QED
    BY <2>1, <2>2
<1> QED
  BY <1>1, <1>2, <1>3, <1>4, <1>5, <1>6 DEF BudgetNext, ThreadMoves

\* Whatever the other threads record, no step of the same day frees an exhausted customer:
\* only a new cap, a restart or an accrual dated before the tracker's day does.
THEOREM ExhaustedHoldsAlways == BudgetSpec => ExhaustedHolds
<1> DEFINE Holds(u) == /\ ExhaustedToday(u)
                       /\ today' = today
                       /\ caps'[u] = caps[u]
                       /\ spent'[u].day >= spent[u].day
                       => ExhaustedToday(u)'
<1>1. BudgetTypeOK /\ BudgetInv /\ BudgetNext => \A u \in Customers : Holds(u)
  BY NextGrows, ExhaustedGrows, NextType DEF BudgetInv
<1>2. BudgetTypeOK /\ BudgetInv /\ [BudgetNext]_budgetVars
        => [\A u \in Customers : Holds(u)]_budgetVars
  BY <1>1
<1> QED
  BY <1>2, BudgetInvariant, PTL DEF BudgetSpec, ExhaustedHolds

-----------------------------------------------------------------------------
(* The routing: the inductive invariant.  A run is fixed when it read a       *)
(* posture that never allowed the platform: from then on it carries the       *)
(* tenant's key and no bridge, and no later step of the chain gives it        *)
(* another.                                                                   *)

Chain == {"guard", "gate", "sdk", "sdkmark", "httpx", "httpxmark", "cli"}

\* What a run knows of the posture it is reading.
ReadingInv ==
    \A c \in Desk :
        /\ pc[c] = "nokey" => call[c].key = NoKey
        /\ pc[c] = "withkey" => call[c].key = Tenant
        /\ kv.fallback /\ pc[c] \in {"key", "nokey", "withkey"} => c \in loose

\* What a fixed run carries through the chain.
FixedInv ==
    \A c \in Desk \ loose :
        ~call[c].fault =>
            /\ pc[c] \in Chain => call[c].key = Tenant /\ ~call[c].bridge
            /\ call[c].via # "claude_cli"
            /\ call[c].via = "infusion" => env.infusion

\* An answer is there only once the call is done.
AnswerInv == \A c \in Calls : pc[c] # "done" => call[c].via = "none"

\* A deadline about to be written was computed no later than now.
UntilInv == \A c \in Calls : call[c].until <= clock + Cooldown

Inv == TypeOK /\ ReadingInv /\ FixedInv /\ AnswerInv /\ UntilInv /\ CooldownIsBounded

-----------------------------------------------------------------------------
USE RoutingAssumption DEF Tenant, Platform, Accounts, Keys, Calls

LEMMA InitInv == Init => Inv
<1> SUFFICES ASSUME Init PROVE Inv
  OBVIOUS
<1>1. Fresh \in Frame
  BY DEF Fresh, Frame, Answers
<1>2. TypeOK
  BY <1>1 DEF Init, TypeOK, Settings, Posture, Unset, Steps
<1>3. ReadingInv /\ FixedInv /\ AnswerInv /\ UntilInv /\ CooldownIsBounded
  BY DEF Init, ReadingInv, FixedInv, AnswerInv, UntilInv, CooldownIsBounded, Fresh, Chain
<1> QED
  BY <1>2, <1>3 DEF Inv

(* Most steps move one call and nothing they share: what such a step owes    *)
(* the invariant is owed by the call's next step and frame alone.            *)
LocallyGood(c, step, f) ==
    /\ step \in Steps /\ f \in Frame
    /\ f.until <= clock + Cooldown
    /\ step # "done" => f.via = "none"
    /\ c \in Desk =>
        /\ step = "nokey" => f.key = NoKey
        /\ step = "withkey" => f.key = Tenant
        /\ kv.fallback /\ step \in {"key", "nokey", "withkey"} => c \in loose
    /\ c \in Desk \ loose /\ ~f.fault =>
        /\ step \in Chain => f.key = Tenant /\ ~f.bridge
        /\ f.via # "claude_cli"
        /\ f.via = "infusion" => env.infusion

LEMMA LocalStep ==
    ASSUME Inv, NEW c \in Calls, NEW step, NEW f, LocallyGood(c, step, f),
           pc' = [pc EXCEPT ![c] = step], call' = [call EXCEPT ![c] = f],
           UNCHANGED <<env, kv, clock, deadline, loose, marked>>
    PROVE  Inv'
<1>1. TypeOK'
  BY DEF Inv, TypeOK, LocallyGood
<1>2. \A x \in Calls : pc'[x] = IF x = c THEN step ELSE pc[x]
  BY DEF Inv, TypeOK
<1>3. \A x \in Calls : call'[x] = IF x = c THEN f ELSE call[x]
  BY DEF Inv, TypeOK
<1>4. ReadingInv'
  BY <1>2, <1>3 DEF Inv, ReadingInv, LocallyGood
<1>5. FixedInv'
  BY <1>2, <1>3 DEF Inv, FixedInv, LocallyGood
<1>6. AnswerInv' /\ UntilInv'
  BY <1>2, <1>3 DEF Inv, AnswerInv, UntilInv, LocallyGood
<1>7. CooldownIsBounded'
  BY DEF Inv, CooldownIsBounded
<1> QED
  BY <1>1, <1>4, <1>5, <1>6, <1>7 DEF Inv

\* What the invariant says of a single call.
LEMMA CallIsGood ==
    ASSUME Inv, NEW c \in Calls
    PROVE  /\ call[c] \in Frame /\ pc[c] \in Steps
           /\ LocallyGood(c, pc[c], call[c])
  BY DEF Inv, TypeOK, ReadingInv, FixedInv, AnswerInv, UntilInv, LocallyGood

LEMMA FinishInv ==
    ASSUME Inv, NEW c \in Calls, NEW via \in Answers, Finish(c, via),
           UNCHANGED <<env, kv, clock, deadline, loose, marked>>,
           c \in Desk \ loose /\ ~call[c].fault =>
             via # "claude_cli" /\ (via = "infusion" => env.infusion)
    PROVE  Inv'
<1> DEFINE f == [call[c] EXCEPT !.via = via]
<1>1. call[c] \in Frame /\ LocallyGood(c, pc[c], call[c])
  BY CallIsGood
<1>2. f \in Frame /\ f.until = call[c].until /\ f.fault = call[c].fault /\ f.via = via
  BY <1>1 DEF Frame
<1>3. LocallyGood(c, "done", f)
  <2> HIDE DEF f
  <2> QED BY <1>1, <1>2 DEF LocallyGood, Chain, Steps
<1>4. call' = [call EXCEPT ![c] = f] /\ pc' = [pc EXCEPT ![c] = "done"]
  BY DEF Finish, Go
<1> HIDE DEF f
<1> QED
  BY <1>3, <1>4, LocalStep

\* A step that moves a call on without touching what it carries.
LEMMA GoInv ==
    ASSUME Inv, NEW c \in Calls, NEW step \in Steps, Go(c, step),
           UNCHANGED <<env, kv, clock, deadline, call, loose, marked>>,
           LocallyGood(c, step, call[c])
    PROVE  Inv'
<1>1. call' = [call EXCEPT ![c] = call[c]]
  BY DEF Inv, TypeOK
<1> QED
  BY <1>1, LocalStep DEF Go

-----------------------------------------------------------------------------
(* The steps of an agent run.                                                 *)

LEMMA AskInv == ASSUME Inv, NEW c \in Calls, Ask(c) PROVE Inv'
<1>1. Fresh \in Frame /\ Fresh.via = "none" /\ Fresh.until = 0
  BY DEF Fresh, Frame, Answers
<1>2. \A x \in Calls : pc'[x] = IF x = c THEN "key" ELSE pc[x]
  BY DEF Inv, TypeOK, Ask, Go
<1>3. \A x \in Calls : call'[x] = IF x = c THEN Fresh ELSE call[x]
  BY DEF Inv, TypeOK, Ask
<1>4. \A x \in Calls : x # c => (x \in loose' <=> x \in loose)
  BY DEF Ask
<1>5. TypeOK'
  BY <1>1 DEF Inv, TypeOK, Ask, Go, Steps
<1>6. ReadingInv'
  BY <1>2, <1>3, <1>4 DEF Inv, ReadingInv, Ask, Barred
<1>7. FixedInv'
  BY <1>1, <1>2, <1>3, <1>4 DEF Inv, FixedInv, Ask, Chain
<1>8. AnswerInv' /\ UntilInv' /\ CooldownIsBounded'
  BY <1>1, <1>2, <1>3 DEF Inv, TypeOK, AnswerInv, UntilInv, CooldownIsBounded, Ask
<1> QED
  BY <1>5, <1>6, <1>7, <1>8 DEF Inv

LEMMA ReadKeyInv == ASSUME Inv, NEW c \in Calls, ReadKey(c) PROVE Inv'
<1> PICK key \in {kv.sealed, NoKey} :
      /\ call' = [call EXCEPT ![c].key = key]
      /\ Go(c, IF key = NoKey THEN "nokey" ELSE "withkey")
  BY DEF ReadKey
<1> DEFINE f == [call[c] EXCEPT !.key = key]
           step == IF key = NoKey THEN "nokey" ELSE "withkey"
<1>1. call[c] \in Frame /\ LocallyGood(c, pc[c], call[c])
  BY CallIsGood
<1>2. key \in {Tenant, NoKey}
  BY DEF Inv, TypeOK, Posture
<1>3. f \in Frame /\ f.until = call[c].until /\ f.fault = call[c].fault
      /\ f.via = call[c].via /\ f.key = key
  BY <1>1, <1>2 DEF Frame
<1>4. LocallyGood(c, step, f)
  <2> HIDE DEF f
  <2> QED BY <1>1, <1>2, <1>3 DEF LocallyGood, Chain, Steps, ReadKey
<1>5. call' = [call EXCEPT ![c] = f] /\ pc' = [pc EXCEPT ![c] = step]
  BY DEF Go
<1> HIDE DEF f, step
<1> QED
  BY <1>4, <1>5, LocalStep DEF ReadKey

LEMMA RequireKeyInv == ASSUME Inv, NEW c \in Calls, RequireKey(c) PROVE Inv'
<1>1. call[c] \in Frame /\ LocallyGood(c, pc[c], call[c])
  BY CallIsGood
<1>2. CASE kv.fallback /\ Go(c, "guard") /\ UNCHANGED call
  <2>1. LocallyGood(c, "guard", call[c])
    BY <1>1, <1>2 DEF LocallyGood, Chain, Steps, RequireKey
  <2> QED
    BY <1>2, <2>1, GoInv DEF RequireKey, Steps
<1>3. CASE Finish(c, "byok_required")
  BY <1>3, FinishInv DEF RequireKey, Answers
<1> QED
  BY <1>2, <1>3 DEF RequireKey

LEMMA ReadKnobInv == ASSUME Inv, NEW c \in Calls, ReadKnob(c) PROVE Inv'
<1> DEFINE f == [call[c] EXCEPT !.bridge = kv.fallback]
<1>1. call[c] \in Frame /\ LocallyGood(c, pc[c], call[c])
  BY CallIsGood
<1>2. kv.fallback \in BOOLEAN
  BY DEF Inv, TypeOK, Posture
<1>3. f \in Frame /\ f.until = call[c].until /\ f.fault = call[c].fault
      /\ f.via = call[c].via /\ f.key = call[c].key /\ f.bridge = kv.fallback
  BY <1>1, <1>2 DEF Frame
<1>4. LocallyGood(c, "guard", f)
  <2> HIDE DEF f
  <2> QED BY <1>1, <1>2, <1>3 DEF LocallyGood, Chain, Steps, ReadKnob
<1>5. call' = [call EXCEPT ![c] = f] /\ pc' = [pc EXCEPT ![c] = "guard"]
  BY DEF Go, ReadKnob
<1> HIDE DEF f
<1> QED
  BY <1>4, <1>5, LocalStep DEF ReadKnob

LEMMA PostureUnavailableInv ==
    ASSUME Inv, NEW c \in Calls, PostureUnavailable(c) PROVE Inv'
<1> DEFINE f == [call[c] EXCEPT !.key = NoKey, !.bridge = TRUE, !.fault = TRUE]
<1>1. call[c] \in Frame /\ LocallyGood(c, pc[c], call[c])
  BY CallIsGood
<1>2. f \in Frame /\ f.until = call[c].until /\ f.fault = TRUE /\ f.via = call[c].via
  BY <1>1 DEF Frame
<1>3. LocallyGood(c, "guard", f)
  <2> HIDE DEF f
  <2> QED BY <1>1, <1>2 DEF LocallyGood, Chain, Steps, PostureUnavailable
<1>4. call' = [call EXCEPT ![c] = f] /\ pc' = [pc EXCEPT ![c] = "guard"]
  BY DEF Go, PostureUnavailable
<1> HIDE DEF f
<1> QED
  BY <1>3, <1>4, LocalStep DEF PostureUnavailable

LEMMA ScrapeInv == ASSUME Inv, NEW c \in Calls, Scrape(c) PROVE Inv'
<1>1. Fresh \in Frame /\ Fresh.via = "none" /\ Fresh.until = 0
  BY DEF Fresh, Frame, Answers
<1>2. LocallyGood(c, "guard", Fresh)
  BY <1>1 DEF LocallyGood, Steps, Scrape, Inv, TypeOK
<1> QED
  BY <1>2, LocalStep DEF Scrape, Go

-----------------------------------------------------------------------------
(* The gateway.                                                               *)

LEMMA GuardInv == ASSUME Inv, NEW c \in Calls, Guard(c) PROVE Inv'
<1> DEFINE key == IF call[c].key = NoKey THEN env.key ELSE call[c].key
           f == [call[c] EXCEPT !.key = key]
<1>1. call[c] \in Frame /\ LocallyGood(c, pc[c], call[c])
  BY CallIsGood
<1>2. CASE Finish(c, "blocked")
  BY <1>2, FinishInv DEF Guard, Answers
<1>3. CASE env.infusion /\ Finish(c, "infusion")
  BY <1>3, FinishInv DEF Guard, Answers
<1>4. CASE Go(c, "gate") /\ call' = [call EXCEPT ![c].key = IF @ = NoKey THEN env.key ELSE @]
  <2>1. key \in Keys
    BY <1>1 DEF Inv, TypeOK, Settings, Frame
  <2>2. f \in Frame /\ f.until = call[c].until /\ f.fault = call[c].fault
        /\ f.via = call[c].via /\ f.bridge = call[c].bridge /\ f.key = key
    <3> HIDE DEF key
    <3> QED BY <1>1, <2>1 DEF Frame
  <2>3. call[c].key = Tenant => key = Tenant
    OBVIOUS
  <2>4. LocallyGood(c, "gate", f)
    <3> HIDE DEF f, key
    <3> QED BY <1>1, <2>2, <2>3 DEF LocallyGood, Chain, Steps, Guard
  <2>5. call' = [call EXCEPT ![c] = f] /\ pc' = [pc EXCEPT ![c] = "gate"]
    BY <1>4 DEF Go
  <2> HIDE DEF f
  <2> QED
    BY <2>4, <2>5, LocalStep DEF Guard
<1> QED
  BY <1>2, <1>3, <1>4 DEF Guard

LEMMA GateInv == ASSUME Inv, NEW c \in Calls, Gate(c) PROVE Inv'
<1> DEFINE step == IF call[c].key # NoKey /\ ~env.force /\ ~InCooldown THEN "sdk" ELSE "cli"
<1>1. call[c] \in Frame /\ LocallyGood(c, pc[c], call[c])
  BY CallIsGood
<1>2. step \in {"sdk", "cli"}
  OBVIOUS
<1>3. Go(c, step) /\ pc[c] = "gate" /\ UNCHANGED <<env, kv, clock, deadline, call, loose, marked>>
  BY DEF Gate
<1> HIDE DEF step
<1>4. LocallyGood(c, step, call[c])
  BY <1>1, <1>2, <1>3 DEF LocallyGood, Chain, Steps
<1> QED
  BY <1>2, <1>3, <1>4, GoInv DEF Steps

\* Either adapter, whatever refusals trip its cooldown.
LEMMA AttemptInv ==
    ASSUME Inv, NEW c \in Calls, NEW via \in {"sdk", "httpx"}, NEW trips,
           NEW mark \in {"sdkmark", "httpxmark"}, NEW next \in {"httpx", "cli"},
           Attempt(c, via, trips, mark, next)
    PROVE  Inv'
<1> DEFINE f == [call[c] EXCEPT !.until = clock + Cooldown]
<1>1. call[c] \in Frame /\ LocallyGood(c, pc[c], call[c])
  BY CallIsGood
<1>2. CASE Finish(c, via)
  BY <1>2, FinishInv DEF Attempt, Answers
<1>3. CASE Go(c, mark) /\ call' = [call EXCEPT ![c].until = clock + Cooldown]
  <2>1. clock + Cooldown \in 0..(MaxTime + Cooldown)
    BY DEF Inv, TypeOK
  <2>2. f \in Frame /\ f.until = clock + Cooldown /\ f.fault = call[c].fault
        /\ f.via = call[c].via /\ f.bridge = call[c].bridge /\ f.key = call[c].key
    BY <1>1, <2>1 DEF Frame
  <2>3. LocallyGood(c, mark, f)
    <3> HIDE DEF f
    <3> QED BY <1>1, <2>1, <2>2 DEF LocallyGood, Chain, Steps, Attempt
  <2>4. call' = [call EXCEPT ![c] = f] /\ pc' = [pc EXCEPT ![c] = mark]
    BY <1>3 DEF Go
  <2> HIDE DEF f
  <2> QED
    BY <2>3, <2>4, LocalStep DEF Attempt
<1>4. CASE Go(c, next) /\ UNCHANGED call
  <2>1. LocallyGood(c, next, call[c])
    BY <1>1 DEF LocallyGood, Chain, Steps, Attempt
  <2> QED
    BY <1>4, <2>1, GoInv DEF Attempt, Steps
<1> QED
  BY <1>2, <1>3, <1>4 DEF Attempt

\* The one step of the chain that writes shared state.
LEMMA MarkInv ==
    ASSUME Inv, NEW c \in Calls, NEW mark \in {"sdkmark", "httpxmark"},
           NEW next \in {"httpx", "cli"}, Mark(c, mark, next)
    PROVE  Inv'
<1> DEFINE f == [call[c] EXCEPT !.until = 0]
<1>1. call[c] \in Frame /\ LocallyGood(c, pc[c], call[c])
  BY CallIsGood
<1>2. f \in Frame /\ f.until = 0 /\ f.fault = call[c].fault
      /\ f.via = call[c].via /\ f.bridge = call[c].bridge /\ f.key = call[c].key
  BY <1>1 DEF Frame
<1> HIDE DEF f
<1>3. /\ \A x \in Calls : pc'[x] = IF x = c THEN next ELSE pc[x]
      /\ \A x \in Calls : call'[x] = IF x = c THEN f ELSE call[x]
      /\ pc' \in [Calls -> Steps] /\ call' \in [Calls -> Frame]
  BY <1>2 DEF Inv, TypeOK, Mark, Go, Steps, f
<1>4. call[c].until \in 0..(MaxTime + Cooldown) /\ call[c].until <= clock + Cooldown
  BY <1>1 DEF Frame, LocallyGood
<1>5. TypeOK'
  BY <1>3, <1>4 DEF Inv, TypeOK, Mark
<1>6. ReadingInv'
  BY <1>3 DEF Inv, ReadingInv, Mark
<1>7. FixedInv'
  BY <1>1, <1>2, <1>3 DEF Inv, FixedInv, Mark, LocallyGood, Chain
<1>8. AnswerInv'
  BY <1>1, <1>2, <1>3 DEF Inv, AnswerInv, Mark, LocallyGood
<1>9. UntilInv'
  BY <1>2, <1>3 DEF Inv, TypeOK, UntilInv, Mark
<1>10. CooldownIsBounded'
  BY <1>4 DEF Inv, TypeOK, CooldownIsBounded, Mark
<1> QED
  BY <1>5, <1>6, <1>7, <1>8, <1>9, <1>10 DEF Inv

LEMMA TryCliInv == ASSUME Inv, NEW c \in Calls, TryCli(c) PROVE Inv'
<1>1. call[c] \in Frame /\ LocallyGood(c, pc[c], call[c])
  BY CallIsGood
<1>2. CASE call[c].bridge /\ Finish(c, "claude_cli")
  <2>1. c \in Desk \ loose /\ ~call[c].fault => FALSE
    BY <1>1, <1>2 DEF LocallyGood, Chain, TryCli
  <2> QED
    BY <1>2, <2>1, FinishInv DEF TryCli, Answers
<1>3. CASE Finish(c, "unavailable")
  BY <1>3, FinishInv DEF TryCli, Answers
<1> QED
  BY <1>2, <1>3 DEF TryCli

LEMMA ReturnInv == ASSUME Inv, NEW c \in Calls, Return(c) PROVE Inv'
<1>1. Fresh \in Frame /\ Fresh.via = "none" /\ Fresh.until = 0
  BY DEF Fresh, Frame, Answers
<1>2. \A x \in Calls : pc'[x] = IF x = c THEN "idle" ELSE pc[x]
  BY DEF Inv, TypeOK, Return, Go
<1>3. \A x \in Calls : call'[x] = IF x = c THEN Fresh ELSE call[x]
  BY DEF Inv, TypeOK, Return
<1>4. \A x \in Calls : x # c => (x \in loose' <=> x \in loose)
  BY DEF Return
<1>5. TypeOK'
  BY <1>1 DEF Inv, TypeOK, Return, Go, Steps
<1>6. ReadingInv'
  BY <1>2, <1>3, <1>4 DEF Inv, ReadingInv, Return
<1>7. FixedInv'
  BY <1>1, <1>2, <1>3, <1>4 DEF Inv, FixedInv, Return, Chain
<1>8. AnswerInv' /\ UntilInv' /\ CooldownIsBounded'
  BY <1>1, <1>2, <1>3 DEF Inv, TypeOK, AnswerInv, UntilInv, CooldownIsBounded, Return
<1> QED
  BY <1>5, <1>6, <1>7, <1>8 DEF Inv

-----------------------------------------------------------------------------
(* The posture and the world.                                                 *)

\* Whatever posture a governor saves, the runs reading it are told.
LEMMA PostureInv ==
    ASSUME Inv, NEW p \in Posture, kv' = p, Witnessed(p),
           UNCHANGED <<env, clock, deadline, pc, call, marked>>
    PROVE  Inv'
<1>1. loose \subseteq loose' /\ loose' \subseteq Desk
  BY DEF Witnessed, Reading, Inv, TypeOK
<1>2. TypeOK'
  BY <1>1 DEF Inv, TypeOK
<1>3. ReadingInv'
  BY <1>1 DEF Inv, ReadingInv, Witnessed, Reading
<1>4. FixedInv'
  BY <1>1 DEF Inv, FixedInv
<1>5. AnswerInv' /\ UntilInv' /\ CooldownIsBounded'
  BY DEF Inv, AnswerInv, UntilInv, CooldownIsBounded
<1> QED
  BY <1>2, <1>3, <1>4, <1>5 DEF Inv

LEMMA SetKeyInv == ASSUME Inv, NEW fallback \in BOOLEAN, SetKey(fallback) PROVE Inv'
<1> DEFINE p == [sealed |-> Tenant, fallback |-> fallback]
<1>1. p \in Posture
  BY DEF Posture
<1>2. kv' = p /\ Witnessed(p) /\ UNCHANGED <<env, clock, deadline, pc, call, marked>>
  BY DEF SetKey
<1> HIDE DEF p
<1> QED
  BY <1>1, <1>2, PostureInv

LEMMA ClearKeyInv == ASSUME Inv, ClearKey PROVE Inv'
<1>1. Unset \in Posture
  BY DEF Unset, Posture
<1> QED
  BY <1>1, PostureInv DEF ClearKey

LEMMA WorldInv == ASSUME Inv, ResetCooldown \/ Tick PROVE Inv'
<1>1. TypeOK'
  BY DEF Inv, TypeOK, ResetCooldown, Tick
<1>2. ReadingInv' /\ FixedInv' /\ AnswerInv'
  BY DEF Inv, ReadingInv, FixedInv, AnswerInv, ResetCooldown, Tick
<1>3. UntilInv'
  <2>1. clock' \in Nat /\ clock \in Nat /\ clock <= clock'
    BY DEF Inv, TypeOK, ResetCooldown, Tick
  <2>2. \A c \in Calls : call[c].until \in Nat
    BY DEF Inv, TypeOK, Frame
  <2> QED
    BY <2>1, <2>2 DEF Inv, UntilInv, ResetCooldown, Tick
<1>4. CooldownIsBounded'
  BY DEF Inv, TypeOK, CooldownIsBounded, ResetCooldown, Tick
<1> QED
  BY <1>1, <1>2, <1>3, <1>4 DEF Inv

-----------------------------------------------------------------------------
LEMMA StepInv == ASSUME Inv, NEW c \in Calls, Step(c) PROVE Inv'
<1>1. CASE ReadKey(c)
  BY <1>1, ReadKeyInv
<1>2. CASE RequireKey(c)
  BY <1>2, RequireKeyInv
<1>3. CASE ReadKnob(c)
  BY <1>3, ReadKnobInv
<1>4. CASE PostureUnavailable(c)
  BY <1>4, PostureUnavailableInv
<1>5. CASE Guard(c)
  BY <1>5, GuardInv
<1>6. CASE Gate(c)
  BY <1>6, GateInv
<1>7. CASE TrySdk(c)
  BY <1>7, AttemptInv DEF TrySdk
<1>8. CASE TryHttpx(c)
  BY <1>8, AttemptInv DEF TryHttpx
<1>9. CASE MarkUncredited(c)
  BY <1>9, MarkInv DEF MarkUncredited
<1>10. CASE TryCli(c)
  BY <1>10, TryCliInv
<1> QED
  BY <1>1, <1>2, <1>3, <1>4, <1>5, <1>6, <1>7, <1>8, <1>9, <1>10 DEF Step, Complete

LEMMA NextInv == Inv /\ [Next]_vars => Inv'
<1> SUFFICES ASSUME Inv, [Next]_vars PROVE Inv'
  OBVIOUS
<1>1. ASSUME NEW c \in Calls, Ask(c) \/ Scrape(c) \/ Step(c) \/ Return(c) PROVE Inv'
  BY <1>1, AskInv, ScrapeInv, StepInv, ReturnInv
<1>2. ASSUME NEW fallback \in BOOLEAN, SetKey(fallback) PROVE Inv'
  BY <1>2, SetKeyInv
<1>3. CASE ClearKey \/ ResetCooldown \/ Tick
  BY <1>3, ClearKeyInv, WorldInv
<1>4. CASE UNCHANGED vars
  BY <1>4 DEF vars, Inv, TypeOK, ReadingInv, FixedInv, AnswerInv, UntilInv, CooldownIsBounded
<1> QED
  BY <1>1, <1>2, <1>3, <1>4 DEF Next

\* The inductive invariant holds of every behaviour.
THEOREM Invariance == Spec => []Inv
  BY InitInv, NextInv, PTL DEF Spec

\* Every variable of the routing keeps its type.
THEOREM TypeCorrect == Spec => []TypeOK
<1>1. Inv => TypeOK
  BY DEF Inv
<1> QED
  BY <1>1, Invariance, PTL

\* The isolation knob of byok.py, for any number of runs, scrapes and changes
\* of the posture: a run that never saw the platform allowed never reaches it,
\* unless the posture could not be read or infusion took the call.
THEOREM BarredHolds == Spec => []BarredStaysBarred
<1>1. Inv => BarredStaysBarred
  BY DEF Inv, TypeOK, FixedInv, BarredStaysBarred, OnPlatform, Chain
<1> QED
  BY <1>1, Invariance, PTL

\* However many workers mark the shared file, in whatever order, it never bars
\* the API for longer than one cooldown after the last mark.
THEOREM CooldownBounded == Spec => []CooldownIsBounded
<1>1. Inv => CooldownIsBounded
  BY DEF Inv
<1> QED
  BY <1>1, Invariance, PTL

\* The isolation knob and the bounded cooldown, for any agent runs and scrapes.
THEOREM RoutingHeld == Spec => []RoutingHolds
  BY TypeCorrect, BarredHolds, CooldownBounded, PTL DEF RoutingHolds

-----------------------------------------------------------------------------
(* The books: what they tell of the calls that are past each step            *)

Busy == {"answered", "counted", "priced", "logged"}
Snapping == {"snap", "models", "tokens", "done"}
BookOf == [total : Nat, count : Nat, models : UNION {[D -> Nat] : D \in SUBSET Models}]
Snaps == [total : Nat, count : Nat, sum : Nat, keys : Nat, since : Nat, torn : BOOLEAN]
Recording == [at : {"out"} \cup Busy \cup Snapping, mission : Missions \cup {"none"}, n : Nat, snap : Snaps]

\* The numbers of calls.
CallNos == Nat

BooksTypeOK ==
    /\ pricing \in Overrides /\ answers \in Seq(Usages)
    /\ called \in [Models -> Nat] /\ priced \in [Models -> Nat]
    /\ ring \in Seq(CallNos)
    /\ buckets \in [Missions -> BookOf]
    /\ recorder \in [Recorders -> Recording]

\* The answered calls, what each is charged at, and those no thread has at one of the places.
Numbers == 1..Len(answers)
Price == [n \in Numbers |-> CostOf(n)]
Past(places) == {n \in Numbers : \A r \in Recorders : recorder[r].at \in places => recorder[r].n # n}
Counted == Past({"answered"})
Priced == Past({"answered", "counted"})
Logged == Past({"answered", "counted", "priced"})
Booked == Past(Busy)

\* No two threads have the same call.
WorkIsApart ==
    /\ \A r \in Recorders : recorder[r].at # "out" => recorder[r].mission \in Missions
    /\ \A r \in Recorders : recorder[r].at \in Busy => recorder[r].n \in Numbers
    /\ \A r, s \in Recorders :
         recorder[r].at \in Busy /\ recorder[s].at \in Busy /\ r # s => recorder[r].n # recorder[s].n

\* What the counters, the ring and the missions tell of the calls that are past them.
CountersTell ==
    /\ \A m \in Models : called[m] = Cardinality({n \in Counted : answers[n].model = m})
    /\ SumFunction(called) = Cardinality(Counted)
    /\ SumFunction(priced) = Total(Price, Priced)
RingTells ==
    /\ ToSet(ring) \subseteq Logged /\ IsInjective(ring)
    /\ Len(ring) = Min({RingLimit, Cardinality(Logged)})
MissionsTell ==
    /\ \A m \in Missions : buckets[m].total = SumFunction(buckets[m].models)
    /\ SumFunction([m \in Missions |-> buckets[m].count]) = Cardinality(Booked)
    /\ SumFunction([m \in Missions |-> buckets[m].total]) = Total(Price, Booked)

\* How old the parts of a snapshot may be.
SnapTells(r) ==
    LET s == recorder[r].snap
        b == buckets[recorder[r].mission]
    IN  /\ recorder[r].at \in {"snap", "models"} => s.since <= b.total
        /\ recorder[r].at \in {"models", "tokens", "done"} => s.since <= s.total
        /\ recorder[r].at = "models" => s.total <= b.total
        /\ recorder[r].at \in {"tokens", "done"} => s.total <= s.sum
        /\ recorder[r].at = "tokens" => s.keys <= Cardinality(DOMAIN b.models)
        /\ s.torn => recorder[r].at = "done" /\ s.keys < Cardinality(DOMAIN b.models)

BooksInv ==
    /\ BooksTypeOK /\ WorkIsApart
    /\ CountersTell /\ RingTells /\ MissionsTell
    /\ \A r \in Recorders : SnapTells(r)

-----------------------------------------------------------------------------
(* The books: types                                                          *)

LEMMA TwoOf ==
  ASSUME NEW a \in Int, NEW b \in Int
  PROVE  /\ Max({a, b}) = IF a >= b THEN a ELSE b
         /\ Min({a, b}) = IF a <= b THEN a ELSE b
BY DEF Max, Min

LEMMA RateType ==
  ASSUME LedgerAssumption, NEW table \in Overrides, NEW m \in Models, NEW d \in {"input", "output"}
  PROVE  Rate(table, m, d) \in Int
<1>1. DefaultPricing[d][m] \in Int
  BY DEF DefaultPricing, Models, Opus, Sonnet, Haiku
<1>2. CASE m \notin DOMAIN table
  BY <1>1, <1>2 DEF Rate
<1>3. CASE m \in DOMAIN table
  BY <1>3 DEF Rate, LedgerAssumption
<1> QED
  BY <1>2, <1>3

\* A call's price, as it is counted, is a number that takes nothing away.
LEMMA PriceType ==
  ASSUME BooksTypeOK
  PROVE  \A n \in Numbers : /\ answers[n] \in Usages /\ answers[n].model \in Models
                            /\ CostOf(n) \in Nat /\ Price[n] = CostOf(n)
<1> TAKE n \in Numbers
<1>1. answers[n] \in Usages
  BY DEF BooksTypeOK, Numbers
<1>2. answers[n].model \in Models /\ answers[n].input \in Int /\ answers[n].output \in Int
  BY <1>1, LedgerAssumption DEF LedgerAssumption
<1>3. Rate(pricing, answers[n].model, "input") \in Int /\ Rate(pricing, answers[n].model, "output") \in Int
  BY <1>2, RateType, LedgerAssumption DEF BooksTypeOK
<1>4. EstimateCost(pricing, answers[n]) \in Int
  BY <1>2, <1>3 DEF EstimateCost
<1>5. CostOf(n) \in Nat
  BY <1>4, TwoOf DEF CostOf
<1> QED
  BY <1>1, <1>2, <1>5 DEF Price

LEMMA NumbersFinite ==
  ASSUME BooksTypeOK
  PROVE  /\ IsFiniteSet(Numbers) /\ Cardinality(Numbers) = Len(answers) /\ Len(answers) \in Nat
         /\ \A P : Past(P) \subseteq Numbers /\ IsFiniteSet(Past(P)) /\ Cardinality(Past(P)) \in Nat
<1>1. Len(answers) \in Nat
  BY DEF BooksTypeOK
<1>2. IsFiniteSet(Numbers) /\ Cardinality(Numbers) = Len(answers)
  <2>1. /\ IsFiniteSet(1..Len(answers))
        /\ Cardinality(1..Len(answers)) = IF 1 > Len(answers) THEN 0 ELSE Len(answers) - 1 + 1
    BY <1>1, FS_Interval
  <2> QED
    BY <1>1, <2>1 DEF Numbers
<1>3. \A P : Past(P) \in SUBSET Numbers
  BY DEF Past
<1> QED
  BY <1>1, <1>2, <1>3, FS_Subset, FS_CardinalityType

LEMMA RecorderParts ==
  ASSUME BooksTypeOK, NEW r \in Recorders
  PROVE  /\ recorder[r] \in Recording /\ recorder[r].at \in {"out"} \cup Busy \cup Snapping
         /\ recorder[r].mission \in Missions \cup {"none"} /\ recorder[r].n \in Nat /\ recorder[r].snap \in Snaps
         /\ recorder[r].snap.total \in Nat /\ recorder[r].snap.count \in Nat /\ recorder[r].snap.sum \in Nat
         /\ recorder[r].snap.keys \in Nat /\ recorder[r].snap.since \in Nat /\ recorder[r].snap.torn \in BOOLEAN
BY DEF BooksTypeOK, Recording, Snaps

LEMMA ModelsFinite == IsFiniteSet(Models)
<1>1. IsFiniteSet({Haiku})
  BY FS_Singleton
<1>2. IsFiniteSet({Haiku} \cup {Sonnet})
  BY <1>1, FS_AddElement
<1>3. IsFiniteSet(({Haiku} \cup {Sonnet}) \cup {Opus})
  BY <1>2, FS_AddElement
<1>4. ({Haiku} \cup {Sonnet}) \cup {Opus} = Models
  BY DEF Models
<1> QED
  BY <1>3, <1>4

LEMMA BookParts ==
  ASSUME NEW b \in BookOf
  PROVE  /\ b.total \in Nat /\ b.count \in Nat /\ DOMAIN b.models \in SUBSET Models
         /\ b.models \in [DOMAIN b.models -> Nat]
         /\ IsFiniteSet(DOMAIN b.models) /\ Cardinality(DOMAIN b.models) \in Nat
<1>1. b.total \in Nat /\ b.count \in Nat /\ b.models \in UNION {[D -> Nat] : D \in SUBSET Models}
  BY DEF BookOf
<1>2. PICK D \in SUBSET Models : b.models \in [D -> Nat]
  BY <1>1
<1> QED
  BY <1>1, <1>2, ModelsFinite, FS_Subset, FS_CardinalityType

-----------------------------------------------------------------------------
(* The books: one thread moves                                               *)

\* Thread r goes on with its work, and no call is answered.
OneMoves(r) ==
    /\ answers' = answers /\ pricing' = pricing
    /\ recorder' \in [Recorders -> Recording]
    /\ \A s \in Recorders \ {r} : recorder'[s] = recorder[s]

LEMMA Became ==
  ASSUME BooksTypeOK, NEW r \in Recorders, NEW s \in Recording, Become(r, s),
         answers' = answers, pricing' = pricing
  PROVE  OneMoves(r) /\ recorder'[r] = s
BY DEF BooksTypeOK, Become, OneMoves

LEMMA PriceKept ==
  ASSUME answers' = answers, pricing' = pricing
  PROVE  Numbers' = Numbers /\ Price' = Price
BY DEF Numbers, Price, CostOf

LEMMA PastKept ==
  ASSUME NEW r \in Recorders, OneMoves(r), NEW P,
         recorder[r].at \in P <=> recorder'[r].at \in P,
         recorder[r].at \in P => recorder'[r].n = recorder[r].n
  PROVE  Past(P)' = Past(P)
BY DEF OneMoves, Past, Numbers

LEMMA PastGains ==
  ASSUME NEW r \in Recorders, OneMoves(r), WorkIsApart, NEW P \in SUBSET Busy,
         recorder[r].at \in P, recorder'[r].at \notin P
  PROVE  /\ recorder[r].n \in Numbers /\ recorder[r].n \notin Past(P)
         /\ Past(P)' = Past(P) \cup {recorder[r].n}
<1>1. recorder[r].n \in Numbers /\ recorder[r].n \notin Past(P)
  BY DEF WorkIsApart, Past
<1>2. \A s \in Recorders \ {r} : recorder'[s] = recorder[s] /\ (recorder[s].at \in P => recorder[s].n # recorder[r].n)
  BY DEF OneMoves, WorkIsApart
<1>3. Numbers' = Numbers
  BY DEF OneMoves, Numbers
<1>4. \A n \in Numbers : n \in Past(P)' <=> n \in Past(P) \/ n = recorder[r].n
  BY <1>2, <1>3 DEF Past
<1>5. Past(P)' \subseteq Numbers /\ Past(P) \subseteq Numbers
  BY <1>3 DEF Past
<1> QED
  BY <1>1, <1>4, <1>5

\* Nobody gets another's call.
LEMMA ApartKept ==
  ASSUME NEW r \in Recorders, OneMoves(r), WorkIsApart,
         recorder'[r].at # "out" => recorder'[r].mission \in Missions,
         recorder'[r].at \in Busy => recorder[r].at \in Busy /\ recorder'[r].n = recorder[r].n
  PROVE  WorkIsApart'
<1>1. Numbers' = Numbers
  BY DEF OneMoves, Numbers
<1> QED
  BY <1>1 DEF OneMoves, WorkIsApart

\* A thread's snapshot is none the worse for what another thread books.
LEMMA SnapKept ==
  ASSUME BooksTypeOK, BooksTypeOK', WorkIsApart, NEW s \in Recorders, SnapTells(s), recorder'[s] = recorder[s],
         \A m \in Missions : /\ buckets[m].total <= buckets'[m].total
                             /\ DOMAIN buckets[m].models \subseteq DOMAIN buckets'[m].models
  PROVE  SnapTells(s)'
<1> DEFINE m == recorder[s].mission
<1>1. CASE recorder[s].at = "out"
  BY <1>1 DEF SnapTells
<1>2. CASE recorder[s].at # "out"
  <2>1. m \in Missions /\ buckets[m] \in BookOf /\ buckets'[m] \in BookOf
    BY <1>2 DEF WorkIsApart, BooksTypeOK
  <2>2. /\ buckets[m].total \in Nat /\ buckets'[m].total \in Nat
        /\ IsFiniteSet(DOMAIN buckets'[m].models) /\ Cardinality(DOMAIN buckets[m].models) \in Nat
        /\ Cardinality(DOMAIN buckets'[m].models) \in Nat
    BY <2>1, BookParts
  <2>3. Cardinality(DOMAIN buckets[m].models) <= Cardinality(DOMAIN buckets'[m].models)
    BY <2>1, <2>2, FS_Subset
  <2>4. /\ recorder[s].snap.total \in Nat /\ recorder[s].snap.sum \in Nat
        /\ recorder[s].snap.keys \in Nat /\ recorder[s].snap.since \in Nat
    BY RecorderParts
  <2> HIDE DEF m
  <2>5. \A b, c : b = buckets[m] /\ c = buckets'[m] =>
           /\ b.total \in Nat /\ c.total \in Nat /\ b.total <= c.total
           /\ Cardinality(DOMAIN b.models) \in Nat /\ Cardinality(DOMAIN c.models) \in Nat
           /\ Cardinality(DOMAIN b.models) <= Cardinality(DOMAIN c.models)
    BY <2>1, <2>2, <2>3
  <2> QED
    BY <2>4, <2>5 DEF SnapTells, m
<1> QED
  BY <1>1, <1>2

-----------------------------------------------------------------------------
(* The books: every step keeps them                                          *)

LEMMA BooksStart == SideInit => BooksInv
<1> SUFFICES ASSUME SideInit PROVE BooksInv
  OBVIOUS
<1>1. <<>> \in [{} -> Nat] /\ DOMAIN <<>> = {}
  OBVIOUS
<1>2. NoBucket \in BookOf /\ Resting \in Recording
  BY <1>1 DEF NoBucket, BookOf, Resting, Snapshot, Recording, Snaps
<1>3. BooksTypeOK
  BY <1>2 DEF SideInit, BooksTypeOK
<1>4. answers = <<>> /\ Numbers = {} /\ \A P : Past(P) = {}
  BY DEF SideInit, Numbers, Past
<1>5. WorkIsApart
  BY DEF SideInit, WorkIsApart, Resting, Busy
<1>6. SumFunction(<<>>) = 0
  BY <1>1, SumType, FS_EmptySet
<1>7. \A D : IsFiniteSet(D) => SumFunction([x \in D |-> 0]) = 0
  <2> TAKE D
  <2> HAVE IsFiniteSet(D)
  <2> DEFINE f == [x \in D |-> 0]
  <2>1. f \in [D -> Nat] /\ \A x \in D : f[x] = 0
    OBVIOUS
  <2> HIDE DEF f
  <2>2. SumFunction(f) = 0
    BY <2>1, SumType
  <2> QED
    BY <2>2 DEF f
<1>8. CountersTell
  <2>1. \A m \in Models : called[m] = 0 /\ {n \in Counted : answers[n].model = m} = {}
    BY <1>4 DEF SideInit, Counted
  <2>2. SumFunction(called) = 0 /\ SumFunction(priced) = 0
    BY <1>7, ModelsFinite DEF SideInit
  <2>3. Counted = {} /\ Priced = {} /\ Total(Price, {}) = 0
    BY <1>4, TotalOfNone DEF Counted, Priced
  <2> QED
    BY <2>1, <2>2, <2>3, FS_EmptySet DEF CountersTell
<1>9. RingTells
  <2>1. ring = <<>> /\ Logged = {}
    BY <1>4 DEF SideInit, Logged
  <2>2. Min({RingLimit, 0}) = 0
    <3>1. RingLimit \in Nat \ {0}
      BY LedgerAssumption DEF LedgerAssumption
    <3>2. RingLimit \in Int /\ 0 \in Int /\ ~(RingLimit <= 0)
      BY <3>1
    <3> QED
      BY <3>2, TwoOf
  <2> QED
    <3>1. ToSet(<<>>) = {} /\ IsInjective(<<>>) /\ Len(<<>>) = 0 /\ Cardinality({}) = 0
      BY FS_EmptySet DEF ToSet, IsInjective
    <3> QED
      BY <2>1, <2>2, <3>1 DEF RingTells
<1>10. MissionsTell
  <2>1. \A m \in Missions : buckets[m] = NoBucket /\ buckets[m].total = 0 /\ buckets[m].count = 0
                            /\ buckets[m].models = <<>>
    BY DEF SideInit, NoBucket
  <2>2. /\ [m \in Missions |-> buckets[m].count] = [m \in Missions |-> 0]
        /\ [m \in Missions |-> buckets[m].total] = [m \in Missions |-> 0]
    BY <2>1
  <2>3. Booked = {} /\ Total(Price, {}) = 0 /\ Cardinality({}) = 0
    BY <1>4, TotalOfNone, FS_EmptySet DEF Booked
  <2> QED
    BY <1>6, <1>7, <2>1, <2>2, <2>3, LedgerAssumption DEF MissionsTell, LedgerAssumption
<1>11. \A r \in Recorders : SnapTells(r)
  BY DEF SideInit, SnapTells, Resting, Snapshot
<1> QED
  BY <1>3, <1>5, <1>8, <1>9, <1>10, <1>11 DEF BooksInv

LEMMA TakeAnswerInv ==
  ASSUME BooksInv, NEW r \in Recorders, NEW m \in Missions, TakeAnswer(r, m)
  PROVE  BooksInv'
<1> USE DEF BooksInv
<1> DEFINE N == Len(answers) + 1
           s == [Resting EXCEPT !.at = "answered", !.mission = m, !.n = N]
<1>1. /\ pricing' = pricing /\ called' = called /\ priced' = priced /\ ring' = ring /\ buckets' = buckets
      /\ recorder[r].at = "out" /\ recorder' = [recorder EXCEPT ![r] = s]
  BY DEF TakeAnswer, Become
<1>2. PICK a \in Usages : answers' = Append(answers, a)
  BY DEF TakeAnswer
<1>3. /\ answers' \in Seq(Usages) /\ Len(answers') = N /\ Len(answers) \in Nat /\ N \in Nat /\ N \notin Numbers
      /\ \A i \in Numbers : answers'[i] = answers[i]
  BY <1>2 DEF BooksTypeOK, Numbers
<1>4. s \in Recording /\ s.at = "answered" /\ s.n = N /\ s.mission = m /\ s.snap = Snapshot
  BY <1>3 DEF Resting, Snapshot, Recording, Snaps, Busy
<1> HIDE DEF s, N
<1>5. /\ recorder' \in [Recorders -> Recording] /\ recorder'[r] = s
      /\ \A x \in Recorders \ {r} : recorder'[x] = recorder[x]
  BY <1>1, <1>4 DEF BooksTypeOK
<1>6. BooksTypeOK'
  BY <1>1, <1>3, <1>5 DEF BooksTypeOK
<1>7. Numbers' = Numbers \cup {N}
  BY <1>3 DEF Numbers, N
<1>8. \A P : P \in SUBSET Busy /\ "answered" \in P => Past(P)' = Past(P)
  <2> TAKE P
  <2> HAVE P \in SUBSET Busy /\ "answered" \in P
  <2>1. recorder[r].at \notin P
    BY <1>1 DEF Busy
  <2>2. N \notin Past(P)'
    BY <1>4, <1>5 DEF Past
  <2>3. \A n \in Numbers : n \in Past(P)' <=> n \in Past(P)
    BY <1>3, <1>4, <1>5, <1>7, <2>1 DEF Past
  <2> QED
    BY <1>7, <2>2, <2>3 DEF Past
<1>9. Counted' = Counted /\ Priced' = Priced /\ Logged' = Logged /\ Booked' = Booked
  BY <1>8 DEF Counted, Priced, Logged, Booked, Busy
<1>10. \A n \in Numbers : Price'[n] = Price[n] /\ Price[n] \in Nat
  <2>1. \A n \in Numbers : Price[n] \in Nat /\ Price[n] = CostOf(n)
    BY PriceType
  <2>2. \A n \in Numbers : CostOf(n)' = CostOf(n) /\ Price'[n] = CostOf(n)'
    BY <1>1, <1>3, <1>7 DEF CostOf, Price
  <2> QED
    BY <2>1, <2>2
<1>11. \A P : Total(Price', Past(P)) = Total(Price, Past(P))
  <2> TAKE P
  <2>1. Past(P) \subseteq Numbers /\ IsFiniteSet(Past(P))
    BY NumbersFinite
  <2> QED
    BY <1>10, <2>1, TotalSame
<1>12. WorkIsApart'
  <2>1. \A x \in Recorders : recorder[x].at \in Busy => recorder[x].n \in Numbers /\ recorder[x].n # N
    BY <1>3 DEF WorkIsApart
  <2> QED
    BY <1>4, <1>5, <1>7, <2>1 DEF WorkIsApart
<1>13. CountersTell'
  <2>1. \A k \in Models : {n \in Counted : answers'[n].model = k} = {n \in Counted : answers[n].model = k}
    BY <1>3, NumbersFinite DEF Counted
  <2> QED
    BY <1>1, <1>9, <1>11, <2>1 DEF CountersTell, Priced
<1>14. RingTells'
  BY <1>1, <1>9 DEF RingTells
<1>15. MissionsTell'
  BY <1>1, <1>9, <1>11 DEF MissionsTell, Booked
<1>16. ASSUME NEW x \in Recorders PROVE SnapTells(x)'
  <2>1. CASE x = r
    BY <1>4, <1>5, <2>1 DEF SnapTells, Snapshot
  <2>2. CASE x # r
    BY <1>1, <1>5, <2>2 DEF SnapTells
  <2> QED
    BY <2>1, <2>2
<1> QED
  BY <1>6, <1>12, <1>13, <1>14, <1>15, <1>16

\* What stays when thread r moves and changes none of the books.
LEMMA BooksStay ==
  ASSUME BooksInv, NEW r \in Recorders, OneMoves(r), WorkIsApart', SnapTells(r)',
         called' = called, priced' = priced, ring' = ring, buckets' = buckets,
         recorder[r].at \notin Busy, recorder'[r].at \notin Busy
  PROVE  BooksInv'
<1> USE DEF BooksInv
<1>1. BooksTypeOK'
  BY DEF BooksTypeOK, OneMoves
<1>2. \A P \in SUBSET Busy : Past(P)' = Past(P)
  BY PastKept
<1>3. Counted' = Counted /\ Priced' = Priced /\ Logged' = Logged /\ Booked' = Booked
  BY <1>2 DEF Counted, Priced, Logged, Booked, Busy
<1>4. Price' = Price /\ answers' = answers
  BY PriceKept DEF OneMoves
<1>5. CountersTell' /\ RingTells' /\ MissionsTell'
  BY <1>3, <1>4 DEF CountersTell, RingTells, MissionsTell
<1>6. ASSUME NEW x \in Recorders PROVE SnapTells(x)'
  <2>1. CASE x = r
    BY <2>1
  <2>2. CASE x # r
    BY <2>2 DEF SnapTells, OneMoves
  <2> QED
    BY <2>1, <2>2
<1> QED
  BY <1>1, <1>5, <1>6

\* A thread with a call puts one step behind it.
LEMMA WorkGoesOn ==
  ASSUME BooksInv, NEW r \in Recorders, NEW p \in Busy \cup {"snap"},
         recorder[r].at \in Busy, Become(r, [recorder[r] EXCEPT !.at = p]),
         answers' = answers, pricing' = pricing
  PROVE  /\ OneMoves(r) /\ WorkIsApart'
         /\ recorder'[r].at = p /\ recorder'[r].n = recorder[r].n
         /\ recorder'[r].mission = recorder[r].mission /\ recorder'[r].snap = recorder[r].snap
<1> DEFINE s == [recorder[r] EXCEPT !.at = p]
<1>1. recorder[r] \in Recording
  BY DEF BooksInv, BooksTypeOK
<1>2. /\ s \in Recording /\ s.at = p /\ s.n = recorder[r].n /\ s.mission = recorder[r].mission
      /\ s.snap = recorder[r].snap
  BY <1>1 DEF Recording, Snapping
<1> HIDE DEF s
<1>3. OneMoves(r) /\ recorder'[r] = s
  BY <1>2, Became DEF BooksInv, s
<1>4. recorder[r].at # "out"
  BY DEF Busy
<1>5. WorkIsApart'
  BY <1>2, <1>3, <1>4, ApartKept DEF BooksInv, WorkIsApart
<1> QED
  BY <1>2, <1>3, <1>5

LEMMA CountCallInv ==
  ASSUME BooksInv, NEW r \in Recorders, CountCall(r)
  PROVE  BooksInv'
<1> USE DEF BooksInv
<1>1. PICK n, k : n = recorder[r].n /\ k = answers[n].model
  OBVIOUS
<1>2. /\ recorder[r].at = "answered" /\ Become(r, [recorder[r] EXCEPT !.at = "counted"])
      /\ called' = [called EXCEPT ![k] = @ + 1]
      /\ pricing' = pricing /\ priced' = priced /\ ring' = ring /\ buckets' = buckets /\ answers' = answers
  BY <1>1 DEF CountCall
<1>3. /\ OneMoves(r) /\ WorkIsApart' /\ recorder'[r].at = "counted" /\ recorder'[r].n = n
      /\ recorder'[r].snap = recorder[r].snap
  <2>1. "answered" \in Busy /\ "counted" \in Busy
    BY DEF Busy
  <2> QED
    BY <1>1, <1>2, <2>1, WorkGoesOn
<1>4. Priced' = Priced /\ Logged' = Logged /\ Booked' = Booked
  BY <1>1, <1>2, <1>3, PastKept DEF Priced, Logged, Booked, Busy
<1>5. n \in Numbers /\ n \notin Counted /\ Counted' = Counted \cup {n}
  <2>1. {"answered"} \in SUBSET Busy
    BY DEF Busy
  <2> QED
    BY <1>1, <1>2, <1>3, <2>1, PastGains DEF Counted
<1>6. k \in Models /\ called[k] \in Nat /\ IsFiniteSet(Counted) /\ Cardinality(Counted) \in Nat
  BY <1>1, <1>5, PriceType, NumbersFinite DEF BooksTypeOK, Counted
<1>7. BooksTypeOK' /\ called' \in [Models -> Nat] /\ called'[k] = called[k] + 1
      /\ \A m \in Models \ {k} : called'[m] = called[m]
  BY <1>2, <1>3, <1>6 DEF BooksTypeOK, OneMoves
<1>8. Price' = Price
  BY <1>2, PriceKept
<1>9. CountersTell'
  <2>1. ASSUME NEW m \in Models
        PROVE  called'[m] = Cardinality({x \in Counted' : answers[x].model = m})
    <3> DEFINE S == {x \in Counted : answers[x].model = m}
    <3>1. S \in SUBSET Counted /\ IsFiniteSet(S) /\ Cardinality(S) \in Nat /\ n \notin S
      BY <1>5, <1>6, FS_Subset, FS_CardinalityType
    <3>2. called[m] = Cardinality(S)
      BY DEF CountersTell
    <3>3. CASE m = k
      <4>1. {x \in Counted' : answers[x].model = m} = S \cup {n}
        BY <1>1, <1>5, <3>3
      <4>2. Cardinality(S \cup {n}) = Cardinality(S) + 1
        BY <3>1, FS_AddElement
      <4> QED
        BY <1>7, <3>2, <3>3, <4>1, <4>2
    <3>4. CASE m # k
      <4>1. {x \in Counted' : answers[x].model = m} = S
        BY <1>1, <1>5, <3>4
      <4> QED
        BY <1>7, <3>2, <3>4, <4>1
    <3> QED
      BY <3>3, <3>4
  <2>2. SumFunction(called') = SumFunction(called) + 1
    <3>1. called \in [Models -> Nat]
      BY DEF BooksTypeOK
    <3> QED
      BY <1>6, <1>7, <3>1, ModelsFinite, SumGrows
  <2>3. Cardinality(Counted') = Cardinality(Counted) + 1
    BY <1>5, <1>6, FS_AddElement
  <2> QED
    BY <1>2, <1>4, <1>8, <2>1, <2>2, <2>3 DEF CountersTell
<1>10. RingTells' /\ MissionsTell'
  BY <1>2, <1>4, <1>8 DEF RingTells, MissionsTell
<1>11. ASSUME NEW x \in Recorders PROVE SnapTells(x)'
  BY <1>2, <1>3 DEF SnapTells, OneMoves
<1> QED
  BY <1>3, <1>7, <1>9, <1>10, <1>11

LEMMA CountCostInv ==
  ASSUME BooksInv, NEW r \in Recorders, CountCost(r)
  PROVE  BooksInv'
<1> USE DEF BooksInv
<1>1. PICK n, k, c : n = recorder[r].n /\ k = answers[n].model /\ c = CostOf(n)
  OBVIOUS
<1>2. /\ recorder[r].at = "counted" /\ Become(r, [recorder[r] EXCEPT !.at = "priced"])
      /\ priced' = [priced EXCEPT ![k] = @ + c]
      /\ pricing' = pricing /\ called' = called /\ ring' = ring /\ buckets' = buckets /\ answers' = answers
  BY <1>1 DEF CountCost
<1>3. /\ OneMoves(r) /\ WorkIsApart' /\ recorder'[r].at = "priced" /\ recorder'[r].n = n
      /\ recorder'[r].snap = recorder[r].snap
  <2>1. "counted" \in Busy /\ "priced" \in Busy
    BY DEF Busy
  <2> QED
    BY <1>1, <1>2, <2>1, WorkGoesOn
<1>4. Counted' = Counted /\ Logged' = Logged /\ Booked' = Booked
  BY <1>1, <1>2, <1>3, PastKept DEF Counted, Logged, Booked, Busy
<1>5. n \in Numbers /\ n \notin Priced /\ Priced' = Priced \cup {n}
  <2>1. {"answered", "counted"} \in SUBSET Busy
    BY DEF Busy
  <2> QED
    BY <1>1, <1>2, <1>3, <2>1, PastGains DEF Priced
<1>6. k \in Models /\ priced[k] \in Nat /\ c \in Nat /\ Price[n] = c
  BY <1>1, <1>5, PriceType DEF BooksTypeOK
<1>7. BooksTypeOK' /\ priced' \in [Models -> Nat] /\ priced'[k] = priced[k] + c
      /\ \A m \in Models \ {k} : priced'[m] = priced[m]
  BY <1>2, <1>3, <1>6 DEF BooksTypeOK, OneMoves
<1>8. Price' = Price
  BY <1>2, PriceKept
<1>9. CountersTell'
  <2>1. SumFunction(priced') = SumFunction(priced) + c
    <3>1. priced \in [Models -> Nat]
      BY DEF BooksTypeOK
    <3> QED
      BY <1>6, <1>7, <3>1, ModelsFinite, SumGrows
  <2>2. Total(Price, Priced') = Total(Price, Priced) + Price[n]
    <3>1. IsFiniteSet(Priced) /\ \A x \in Priced \cup {n} : Price[x] \in Nat
      BY <1>5, NumbersFinite, PriceType DEF Priced
    <3> QED
      BY <1>5, <3>1, TotalAdd
  <2> QED
    BY <1>2, <1>4, <1>6, <1>8, <2>1, <2>2 DEF CountersTell
<1>10. RingTells' /\ MissionsTell'
  BY <1>2, <1>4, <1>8 DEF RingTells, MissionsTell
<1>11. ASSUME NEW x \in Recorders PROVE SnapTells(x)'
  BY <1>2, <1>3 DEF SnapTells, OneMoves
<1> QED
  BY <1>3, <1>7, <1>9, <1>10, <1>11

\* A sequence that is appended to, and one whose head is dropped before.
LEMMA Appended ==
  ASSUME NEW S, NEW q \in Seq(S), NEW n \in S
  PROVE  /\ Append(q, n) \in Seq(S) /\ Len(Append(q, n)) = Len(q) + 1 /\ Append(q, n)[Len(q) + 1] = n
         /\ \A i \in 1..Len(q) : Append(q, n)[i] = q[i]
OBVIOUS

LEMMA Shifted ==
  ASSUME NEW S, NEW q \in Seq(S), NEW n \in S, Len(q) > 0
  PROVE  /\ Append(Tail(q), n) \in Seq(S) /\ Len(Append(Tail(q), n)) = Len(q)
         /\ Append(Tail(q), n)[Len(q)] = n
         /\ \A i \in 1..(Len(q) - 1) : Append(Tail(q), n)[i] = q[i + 1]
<1>1. q # <<>> /\ Len(q) \in Nat
  OBVIOUS
<1>2. PICK u : u = Tail(q)
  OBVIOUS
<1>3. u \in Seq(S) /\ Len(u) = Len(q) - 1 /\ \A i \in 1..(Len(q) - 1) : u[i] = q[i + 1]
  BY <1>1, <1>2, HeadTailProperties
<1>4. /\ Append(u, n) \in Seq(S) /\ Len(Append(u, n)) = Len(u) + 1 /\ Append(u, n)[Len(u) + 1] = n
      /\ \A i \in 1..Len(u) : Append(u, n)[i] = u[i]
  BY <1>3, Appended
<1>5. Len(Append(u, n)) = Len(q) /\ Append(u, n)[Len(q)] = n
  BY <1>1, <1>3, <1>4
<1>6. \A i \in 1..(Len(q) - 1) : Append(u, n)[i] = q[i + 1]
  BY <1>3, <1>4
<1> QED
  BY <1>2, <1>4, <1>5, <1>6

\* The first k of t are those of q from d + 1 on.
Copies(t, q, k, d) == \A i \in 1..k : t[i] = q[i + d]

\* The last k of a sequence without repetitions, and one thing more.
LEMMA OneMore ==
  ASSUME NEW q, NEW t, NEW n, n \notin ToSet(q), IsInjective(q), NEW d \in Nat, NEW k \in Nat,
         DOMAIN q = 1..(k + d), DOMAIN t = 1..(k + 1), t[k + 1] = n, Copies(t, q, k, d)
  PROVE  ToSet(t) \subseteq ToSet(q) \cup {n} /\ IsInjective(t)
<1>2. \A i \in 1..k : i + d \in DOMAIN q
  OBVIOUS
<1>3. \A i \in 1..k : t[i] \in ToSet(q) /\ t[i] # n
  BY <1>2 DEF ToSet, Copies
<1>4. \A i \in DOMAIN t : i \in 1..k \/ i = k + 1
  OBVIOUS
<1>5. ToSet(t) \subseteq ToSet(q) \cup {n}
  BY <1>3, <1>4 DEF ToSet
<1>6. ASSUME NEW i \in 1..k, NEW j \in 1..k, t[i] = t[j]
      PROVE  i = j
  <2>1. q[i + d] = q[j + d] /\ i + d \in DOMAIN q /\ j + d \in DOMAIN q
    BY <1>2, <1>6 DEF Copies
  <2>2. i + d = j + d
    BY <2>1 DEF IsInjective
  <2> QED
    BY <2>2
<1>7. ASSUME NEW i \in DOMAIN t, NEW j \in DOMAIN t, t[i] = t[j]
      PROVE  i = j
  BY <1>3, <1>4, <1>6, <1>7
<1> QED
  BY <1>5, <1>7 DEF IsInjective

\* The ring takes up a call it does not hold, and drops its oldest when it is full.
Taken(q, n) == Append(IF Len(q) = RingLimit THEN Tail(q) ELSE q, n)

LEMMA RingTakes ==
  ASSUME LedgerAssumption, NEW S, NEW q \in Seq(S), NEW n \in S, n \notin ToSet(q), IsInjective(q),
         NEW c \in Nat, Len(q) = IF RingLimit <= c THEN RingLimit ELSE c
  PROVE  /\ Taken(q, n) \in Seq(S) /\ ToSet(Taken(q, n)) \subseteq ToSet(q) \cup {n}
         /\ IsInjective(Taken(q, n))
         /\ Len(Taken(q, n)) = IF RingLimit <= c + 1 THEN RingLimit ELSE c + 1
<1>0. PICK t : t = Taken(q, n)
  OBVIOUS
<1>1. RingLimit \in Nat \ {0} /\ Len(q) \in Nat
  BY DEF LedgerAssumption
<1>3. CASE Len(q) = RingLimit
  <2>1. /\ Append(Tail(q), n) \in Seq(S) /\ Len(Append(Tail(q), n)) = Len(q)
        /\ Append(Tail(q), n)[Len(q)] = n
        /\ \A i \in 1..(Len(q) - 1) : Append(Tail(q), n)[i] = q[i + 1]
    BY <1>1, <1>3, Shifted
  <2>2. t = Append(Tail(q), n)
    BY <1>0, <1>3 DEF Taken
  <2>3. PICK k \in Nat, d \in Nat : k = Len(q) - 1 /\ d = 1 /\ k + d = Len(q)
    BY <1>1, <1>3
  <2>4. /\ t \in Seq(S) /\ Len(t) = k + 1 /\ t[k + 1] = n
        /\ \A i \in 1..k : t[i] = q[i + d]
    BY <2>1, <2>2, <2>3
  <2>5. ToSet(t) \subseteq ToSet(q) \cup {n} /\ IsInjective(t)
    <3>1. DOMAIN q = 1..(k + d) /\ DOMAIN t = 1..(k + 1) /\ Copies(t, q, k, d)
      BY <2>3, <2>4 DEF Copies
    <3> QED
      BY <2>4, <3>1, OneMore
  <2> QED
    BY <1>0, <1>1, <1>3, <2>3, <2>4, <2>5
<1>4. CASE Len(q) # RingLimit
  <2>1. /\ Append(q, n) \in Seq(S) /\ Len(Append(q, n)) = Len(q) + 1 /\ Append(q, n)[Len(q) + 1] = n
        /\ \A i \in 1..Len(q) : Append(q, n)[i] = q[i]
    BY Appended
  <2>2. t = Append(q, n)
    BY <1>0, <1>4 DEF Taken
  <2>3. PICK k \in Nat, d \in Nat : k = Len(q) /\ d = 0 /\ k + d = Len(q)
    BY <1>1
  <2>4. /\ t \in Seq(S) /\ Len(t) = k + 1 /\ t[k + 1] = n
        /\ \A i \in 1..k : t[i] = q[i + d]
    BY <2>1, <2>2, <2>3
  <2>5. ToSet(t) \subseteq ToSet(q) \cup {n} /\ IsInjective(t)
    <3>1. DOMAIN q = 1..(k + d) /\ DOMAIN t = 1..(k + 1) /\ Copies(t, q, k, d)
      BY <2>3, <2>4 DEF Copies
    <3> QED
      BY <2>4, <3>1, OneMore
  <2> QED
    BY <1>0, <1>1, <1>4, <2>3, <2>4, <2>5
<1> QED
  BY <1>3, <1>4

LEMMA AppendRecordInv ==
  ASSUME BooksInv, NEW r \in Recorders, AppendRecord(r)
  PROVE  BooksInv'
<1> USE DEF BooksInv
<1>1. PICK n : n = recorder[r].n
  OBVIOUS
<1>2. /\ recorder[r].at = "priced" /\ Become(r, [recorder[r] EXCEPT !.at = "logged"])
      /\ ring' = Append(IF Len(ring) = RingLimit THEN Tail(ring) ELSE ring, n)
      /\ pricing' = pricing /\ called' = called /\ priced' = priced /\ buckets' = buckets /\ answers' = answers
  BY <1>1 DEF AppendRecord
<1>3. /\ OneMoves(r) /\ WorkIsApart' /\ recorder'[r].at = "logged" /\ recorder'[r].n = n
      /\ recorder'[r].snap = recorder[r].snap
  <2>1. "priced" \in Busy /\ "logged" \in Busy
    BY DEF Busy
  <2> QED
    BY <1>1, <1>2, <2>1, WorkGoesOn
<1>4. Counted' = Counted /\ Priced' = Priced /\ Booked' = Booked
  BY <1>1, <1>2, <1>3, PastKept DEF Counted, Priced, Booked, Busy
<1>5. n \in Numbers /\ n \notin Logged /\ Logged' = Logged \cup {n}
  <2>1. {"answered", "counted", "priced"} \in SUBSET Busy
    BY DEF Busy
  <2> QED
    BY <1>1, <1>2, <1>3, <2>1, PastGains DEF Logged
<1>6. IsFiniteSet(Logged) /\ Cardinality(Logged) \in Nat /\ Cardinality(Logged') = Cardinality(Logged) + 1
  <2>1. IsFiniteSet(Logged) /\ Cardinality(Logged) \in Nat
    BY NumbersFinite DEF Logged
  <2> QED
    BY <1>5, <2>1, FS_AddElement
<1>7. Price' = Price
  BY <1>2, PriceKept
<1>8. /\ ring' \in Seq(CallNos) /\ ToSet(ring') \subseteq ToSet(ring) \cup {n} /\ IsInjective(ring')
      /\ Len(ring') = Min({RingLimit, Cardinality(Logged) + 1})
  <2>1. /\ ring \in Seq(CallNos) /\ n \in CallNos /\ n \notin ToSet(ring) /\ IsInjective(ring)
        /\ Len(ring) = Min({RingLimit, Cardinality(Logged)}) /\ RingLimit > 0
    BY <1>5, LedgerAssumption DEF BooksTypeOK, RingTells, Numbers, LedgerAssumption, CallNos
  <2>3. \A c \in Nat : Min({RingLimit, c}) = IF RingLimit <= c THEN RingLimit ELSE c
    <3> TAKE c \in Nat
    <3>1. RingLimit \in Int /\ c \in Int
      BY LedgerAssumption DEF LedgerAssumption
    <3> QED
      BY <3>1, TwoOf
  <2>4. /\ Len(ring) = IF RingLimit <= Cardinality(Logged) THEN RingLimit ELSE Cardinality(Logged)
        /\ Min({RingLimit, Cardinality(Logged) + 1})
             = IF RingLimit <= Cardinality(Logged) + 1 THEN RingLimit ELSE Cardinality(Logged) + 1
    BY <1>6, <2>1, <2>3
  <2>2. ring' = Taken(ring, n)
    BY <1>2 DEF Taken
  <2> QED
    BY <1>6, <2>1, <2>2, <2>4, RingTakes, LedgerAssumption
<1>9. BooksTypeOK'
  BY <1>2, <1>3, <1>8 DEF BooksTypeOK, OneMoves
<1>10. RingTells'
  BY <1>5, <1>6, <1>8 DEF RingTells
<1>11. CountersTell' /\ MissionsTell'
  BY <1>2, <1>4, <1>7 DEF CountersTell, MissionsTell
<1>12. ASSUME NEW x \in Recorders PROVE SnapTells(x)'
  BY <1>2, <1>3 DEF SnapTells, OneMoves
<1> QED
  BY <1>3, <1>9, <1>10, <1>11, <1>12

\* What a mission's books become when a call is added to them.
Charge(b, k, c) ==
    [total |-> b.total + c, count |-> b.count + 1,
     models |-> [x \in DOMAIN b.models \cup {k} |->
                   IF x = k THEN (IF k \in DOMAIN b.models THEN b.models[k] ELSE 0) + c ELSE b.models[x]]]

\* Its total and the sum of its models grow by the same.
LEMMA ChargeTells ==
  ASSUME NEW b \in BookOf, NEW k \in Models, NEW c \in Nat
  PROVE  /\ Charge(b, k, c) \in BookOf
         /\ Charge(b, k, c).total = b.total + c /\ Charge(b, k, c).count = b.count + 1
         /\ DOMAIN b.models \subseteq DOMAIN Charge(b, k, c).models
         /\ SumFunction(Charge(b, k, c).models) = SumFunction(b.models) + c
<1>0. PICK D \in SUBSET Models : D = DOMAIN b.models /\ IsFiniteSet(D) /\ b.models \in [D -> Nat]
  BY BookParts
<1>1. PICK f \in [D -> Nat] : f = b.models
  BY <1>0
<1> DEFINE before == IF k \in D THEN f[k] ELSE 0
           h == [x \in D \cup {k} |-> IF x = k THEN before + c ELSE f[x]]
<1>2. before \in Nat
  BY <1>1
<1>3. /\ h \in [D \cup {k} -> Nat] /\ h[k] = before + c /\ \A x \in D \ {k} : h[x] = f[x]
  BY <1>1, <1>2
<1>4. Charge(b, k, c).models = h
  BY <1>1 DEF Charge
<1>5. /\ Charge(b, k, c).total = b.total + c /\ Charge(b, k, c).count = b.count + 1
      /\ DOMAIN Charge(b, k, c).models = D \cup {k}
  BY <1>1 DEF Charge
<1> HIDE DEF h
<1>6. SumFunction(h) = SumFunction(f) + c
  <2>1. CASE k \in D
    <3>1. D \cup {k} = D /\ h \in [D -> Nat] /\ h[k] = f[k] + c
      BY <1>3, <2>1
    <3> QED
      BY <1>0, <1>3, <2>1, <3>1, SumGrows
  <2>2. CASE k \notin D
    <3>1. h[k] = c /\ \A x \in D : h[x] = f[x]
      BY <1>3, <2>2
    <3>2. SumFunction(h) = SumFunction(f) + h[k]
      BY <1>0, <1>3, <2>2, <3>1, SumNew
    <3> QED
      BY <3>1, <3>2
  <2> QED
    BY <2>1, <2>2
<1>7. Charge(b, k, c) \in BookOf
  <2>1. D \cup {k} \in SUBSET Models
    BY <1>1
  <2>2. h \in UNION {[E -> Nat] : E \in SUBSET Models}
    BY <1>3, <2>1
  <2>3. b.total + c \in Nat /\ b.count + 1 \in Nat
    BY BookParts
  <2>4. Charge(b, k, c) = [total |-> b.total + c, count |-> b.count + 1, models |-> h]
    BY <1>1 DEF Charge, h
  <2> QED
    BY <2>2, <2>3, <2>4 DEF BookOf
<1> QED
  BY <1>1, <1>4, <1>5, <1>6, <1>7

LEMMA RecordMissionInv ==
  ASSUME BooksInv, NEW r \in Recorders, RecordMission(r)
  PROVE  BooksInv'
<1> USE DEF BooksInv
<1>1. PICK n, k, c, m : n = recorder[r].n /\ k = answers[n].model /\ c = CostOf(n) /\ m = recorder[r].mission
  OBVIOUS
<1>2. PICK b : b = buckets[m]
  OBVIOUS
<1> DEFINE now == Charge(b, k, c)
           s == [recorder[r] EXCEPT !.at = "snap", !.snap.since = now.total]
<1>3. /\ recorder[r].at = "logged" /\ recorder' = [recorder EXCEPT ![r] = s]
      /\ buckets' = [buckets EXCEPT ![m] = now]
      /\ pricing' = pricing /\ called' = called /\ priced' = priced /\ ring' = ring /\ answers' = answers
  BY <1>1, <1>2 DEF RecordMission, Charge, Become
<1>4. /\ m \in Missions /\ b \in BookOf /\ n \in Numbers /\ k \in Models /\ c \in Nat /\ Price[n] = c
  <2>1. m \in Missions /\ n \in Numbers
    BY <1>1, <1>3 DEF WorkIsApart, Busy
  <2> QED
    BY <1>1, <1>2, <2>1, PriceType DEF BooksTypeOK
<1>5. /\ now \in BookOf /\ now.total = b.total + c /\ now.count = b.count + 1
      /\ DOMAIN b.models \subseteq DOMAIN now.models
      /\ SumFunction(now.models) = SumFunction(b.models) + c
  BY <1>4, ChargeTells
<1> HIDE DEF now
<1>6. now.total \in Nat /\ b.total \in Nat /\ now.total >= b.total /\ b.count \in Nat /\ now.count \in Nat
  BY <1>4, <1>5, BookParts
<1>7. s \in Recording /\ s.at = "snap" /\ s.n = n /\ s.mission = m
      /\ s.snap.since = now.total /\ s.snap.torn = recorder[r].snap.torn
  <2>1. recorder[r] \in Recording /\ recorder[r].snap \in Snaps
    BY RecorderParts
  <2>2. PICK w, t : w = recorder[r] /\ t = now.total /\ w \in Recording /\ t \in Nat
    BY <1>6, <2>1
  <2>3. /\ [w EXCEPT !.at = "snap", !.snap.since = t] \in Recording
        /\ [w EXCEPT !.at = "snap", !.snap.since = t].at = "snap"
        /\ [w EXCEPT !.at = "snap", !.snap.since = t].n = w.n
        /\ [w EXCEPT !.at = "snap", !.snap.since = t].mission = w.mission
        /\ [w EXCEPT !.at = "snap", !.snap.since = t].snap.since = t
        /\ [w EXCEPT !.at = "snap", !.snap.since = t].snap.torn = w.snap.torn
    BY <2>2 DEF Recording, Snaps, Snapping
  <2> QED
    BY <1>1, <2>2, <2>3
<1> HIDE DEF s
<1>8. OneMoves(r) /\ recorder'[r] = s
  BY <1>3, <1>7, Became DEF Become
<1>9. WorkIsApart'
  BY <1>4, <1>7, <1>8, ApartKept DEF Busy
<1>10. Counted' = Counted /\ Priced' = Priced /\ Logged' = Logged
  BY <1>3, <1>7, <1>8, PastKept DEF Counted, Priced, Logged
<1>11. n \notin Booked /\ Booked' = Booked \cup {n}
  <2>1. Busy \in SUBSET Busy /\ recorder[r].at \in Busy /\ recorder'[r].at \notin Busy
    BY <1>3, <1>7, <1>8 DEF Busy
  <2> QED
    BY <1>1, <1>8, <2>1, PastGains DEF Booked
<1>12. /\ \A x \in Missions \ {m} : buckets'[x] = buckets[x]
       /\ buckets'[m] = now /\ buckets' \in [Missions -> BookOf]
  BY <1>3, <1>4, <1>5 DEF BooksTypeOK
<1>13. BooksTypeOK'
  BY <1>3, <1>8, <1>12 DEF BooksTypeOK, OneMoves
<1>14. Price' = Price
  BY <1>3, PriceKept
<1>15. CountersTell' /\ RingTells'
  BY <1>3, <1>10, <1>14 DEF CountersTell, RingTells
<1>16. IsFiniteSet(Missions) /\ \A x \in Missions :
         /\ buckets[x].total \in Nat /\ buckets[x].count \in Nat
         /\ buckets'[x].total \in Nat /\ buckets'[x].count \in Nat
  BY <1>12, BookParts, LedgerAssumption DEF BooksTypeOK, LedgerAssumption
<1>17. MissionsTell'
  <2>1. \A x \in Missions : buckets'[x].total = SumFunction(buckets'[x].models)
    BY <1>2, <1>4, <1>5, <1>12 DEF MissionsTell
  <2>2. SumFunction([x \in Missions |-> buckets'[x].count]) = SumFunction([x \in Missions |-> buckets[x].count]) + 1
    <3> DEFINE f == [x \in Missions |-> buckets[x].count]
               h == [x \in Missions |-> buckets'[x].count]
    <3>1. /\ f \in [Missions -> Nat] /\ h \in [Missions -> Nat] /\ h[m] = f[m] + 1
          /\ \A x \in Missions \ {m} : h[x] = f[x]
      BY <1>2, <1>4, <1>5, <1>12, <1>16
    <3> HIDE DEF f, h
    <3>2. SumFunction(h) = SumFunction(f) + 1
      BY <1>4, <1>16, <3>1, SumGrows
    <3> QED
      BY <3>2 DEF f, h
  <2>3. SumFunction([x \in Missions |-> buckets'[x].total]) = SumFunction([x \in Missions |-> buckets[x].total]) + c
    <3> DEFINE f == [x \in Missions |-> buckets[x].total]
               h == [x \in Missions |-> buckets'[x].total]
    <3>1. /\ f \in [Missions -> Nat] /\ h \in [Missions -> Nat] /\ h[m] = f[m] + c
          /\ \A x \in Missions \ {m} : h[x] = f[x]
      BY <1>2, <1>4, <1>5, <1>12, <1>16
    <3> HIDE DEF f, h
    <3>2. SumFunction(h) = SumFunction(f) + c
      BY <1>4, <1>16, <3>1, SumGrows
    <3> QED
      BY <3>2 DEF f, h
  <2>4. IsFiniteSet(Booked) /\ Cardinality(Booked') = Cardinality(Booked) + 1
    <3>1. IsFiniteSet(Booked)
      BY NumbersFinite DEF Booked
    <3> QED
      BY <1>11, <3>1, FS_AddElement
  <2>5. Total(Price, Booked') = Total(Price, Booked) + c
    <3>1. \A x \in Booked \cup {n} : Price[x] \in Nat
      BY <1>4, NumbersFinite, PriceType DEF Booked
    <3> QED
      BY <1>4, <1>11, <2>4, <3>1, TotalAdd
  <2> QED
    BY <1>14, <2>1, <2>2, <2>3, <2>4, <2>5 DEF MissionsTell
<1>18. \A x \in Missions : /\ buckets[x].total <= buckets'[x].total
                           /\ DOMAIN buckets[x].models \subseteq DOMAIN buckets'[x].models
  <2> TAKE x \in Missions
  <2>1. CASE x = m
    BY <1>2, <1>5, <1>6, <1>12, <2>1
  <2>2. CASE x # m
    BY <1>12, <1>16, <2>2
  <2> QED
    BY <2>1, <2>2
<1>19. ASSUME NEW x \in Recorders PROVE SnapTells(x)'
  <2>1. CASE x = r
    <3>1. ~recorder[r].snap.torn
      BY <1>3, RecorderParts DEF SnapTells
    <3>2. recorder'[r].at = "snap" /\ recorder'[r].snap.since = buckets'[recorder'[r].mission].total
          /\ ~recorder'[r].snap.torn
      BY <1>7, <1>8, <1>12, <3>1
    <3>3. buckets'[recorder'[r].mission].total \in Nat
      BY <1>4, <1>7, <1>8, <1>16
    <3> QED
      BY <2>1, <3>2, <3>3 DEF SnapTells
  <2>2. CASE x # r
    BY <1>8, <1>13, <1>18, <2>2, SnapKept DEF OneMoves
  <2> QED
    BY <2>1, <2>2
<1> QED
  BY <1>9, <1>13, <1>15, <1>17, <1>19

\* A thread that has no call goes on with its snapshot, or begins or ends one.
LEMMA ReadGoesOn ==
  ASSUME BooksInv, NEW r \in Recorders, NEW s \in Recording, Become(r, s),
         recorder[r].at \notin Busy, s.at \notin Busy, s.at # "out" => s.mission \in Missions,
         s.at \in {"snap", "models"} => s.snap.since <= buckets[s.mission].total,
         s.at \in {"models", "tokens", "done"} => s.snap.since <= s.snap.total,
         s.at = "models" => s.snap.total <= buckets[s.mission].total,
         s.at \in {"tokens", "done"} => s.snap.total <= s.snap.sum,
         s.at = "tokens" => s.snap.keys <= Cardinality(DOMAIN buckets[s.mission].models),
         s.snap.torn => s.at = "done" /\ s.snap.keys < Cardinality(DOMAIN buckets[s.mission].models),
         UNCHANGED <<pricing, called, priced, ring, buckets, answers>>
  PROVE  BooksInv'
<1>1. OneMoves(r) /\ recorder'[r] = s
  BY Became DEF BooksInv
<1>2. WorkIsApart'
  BY <1>1, ApartKept DEF BooksInv
<1>3. SnapTells(r)'
  BY <1>1 DEF SnapTells
<1> QED
  BY <1>1, <1>2, <1>3, BooksStay

LEMMA ReadMissionInv ==
  ASSUME BooksInv, NEW r \in Recorders, NEW m \in Missions, ReadMission(r, m)
  PROVE  BooksInv'
<1>1. PICK t : t = buckets[m].total
  OBVIOUS
<1> DEFINE s == [Resting EXCEPT !.at = "snap", !.mission = m, !.snap.since = t]
<1>2. /\ recorder[r].at = "out" /\ Become(r, s)
      /\ UNCHANGED <<pricing, called, priced, ring, buckets, answers>>
  BY <1>1 DEF ReadMission
<1>3. buckets[m] \in BookOf /\ t \in Nat
  <2>1. buckets[m] \in BookOf
    BY DEF BooksInv, BooksTypeOK
  <2> QED
    BY <1>1, <2>1, BookParts
<1>4. s \in Recording /\ s.at = "snap" /\ s.mission = m /\ s.snap.since = t /\ ~s.snap.torn
  BY <1>3 DEF Resting, Snapshot, Recording, Snaps, Snapping
<1> HIDE DEF s
<1>5. recorder[r].at \notin Busy /\ s.at \notin Busy
  BY <1>2, <1>4 DEF Busy
<1> QED
  BY <1>1, <1>2, <1>3, <1>4, <1>5, ReadGoesOn

\* A thread that reads a mission's books has the mission's record, and what the books are.
LEMMA ReadingBooks ==
  ASSUME BooksInv, NEW r \in Recorders, recorder[r].at \in Snapping
  PROVE  /\ recorder[r] \in Recording /\ recorder[r].mission \in Missions
         /\ buckets[recorder[r].mission].total \in Nat /\ buckets[recorder[r].mission].count \in Nat
         /\ SumFunction(buckets[recorder[r].mission].models) = buckets[recorder[r].mission].total
         /\ Cardinality(DOMAIN buckets[recorder[r].mission].models) \in Nat
         /\ recorder[r].at \notin Busy
<1>1. recorder[r].at # "out" /\ recorder[r].at \notin Busy
  BY DEF Snapping, Busy
<1>2. recorder[r].mission \in Missions /\ recorder[r] \in Recording
  BY <1>1 DEF BooksInv, WorkIsApart, BooksTypeOK
<1>3. buckets[recorder[r].mission] \in BookOf
  BY <1>2 DEF BooksInv, BooksTypeOK
<1> QED
  BY <1>1, <1>2, <1>3, BookParts DEF BooksInv, MissionsTell

LEMMA SnapTotalInv ==
  ASSUME BooksInv, NEW r \in Recorders, SnapTotal(r)
  PROVE  BooksInv'
<1>1. PICK w, t : w = recorder[r] /\ t = buckets[w.mission].total
  OBVIOUS
<1> DEFINE s == [w EXCEPT !.at = "models", !.snap.total = t]
<1>2. /\ w.at = "snap" /\ Become(r, s)
      /\ UNCHANGED <<pricing, called, priced, ring, buckets, answers>>
  BY <1>1 DEF SnapTotal
<1>3. w.at \in Snapping
  BY <1>2 DEF Snapping
<1>4. w \in Recording /\ w.mission \in Missions /\ t \in Nat /\ w.at \notin Busy
  BY <1>1, <1>3, ReadingBooks
<1>5. w.snap.since <= t /\ ~w.snap.torn
  BY <1>1, <1>2, RecorderParts DEF BooksInv, SnapTells
<1>6. /\ s \in Recording /\ s.at = "models" /\ s.mission = w.mission
      /\ s.snap.since = w.snap.since /\ s.snap.total = t /\ s.snap.torn = w.snap.torn
  BY <1>4 DEF Recording, Snaps, Snapping
<1> HIDE DEF s
<1>7. s.at \notin Busy
  BY <1>6 DEF Busy
<1> QED
  BY <1>1, <1>2, <1>4, <1>5, <1>6, <1>7, ReadGoesOn

LEMMA SnapModelsInv ==
  ASSUME BooksInv, NEW r \in Recorders, SnapModels(r)
  PROVE  BooksInv'
<1>1. PICK w, t, c, k : /\ w = recorder[r] /\ t = SumFunction(buckets[w.mission].models)
                        /\ c = buckets[w.mission].count /\ k = Cardinality(DOMAIN buckets[w.mission].models)
  OBVIOUS
<1> DEFINE s == [w EXCEPT !.at = "tokens", !.snap.count = c, !.snap.sum = t, !.snap.keys = k]
<1>2. /\ w.at = "models" /\ Become(r, s)
      /\ UNCHANGED <<pricing, called, priced, ring, buckets, answers>>
  BY <1>1 DEF SnapModels
<1>3. w.at \in Snapping
  BY <1>2 DEF Snapping
<1>4. /\ w \in Recording /\ w.mission \in Missions /\ t \in Nat /\ c \in Nat /\ k \in Nat /\ w.at \notin Busy
      /\ t = buckets[w.mission].total
  BY <1>1, <1>3, ReadingBooks
<1>5. w.snap.since <= w.snap.total /\ w.snap.total <= t /\ ~w.snap.torn
  BY <1>1, <1>2, <1>4, RecorderParts DEF BooksInv, SnapTells
<1>6. /\ s \in Recording /\ s.at = "tokens" /\ s.mission = w.mission
      /\ s.snap.since = w.snap.since /\ s.snap.total = w.snap.total /\ s.snap.sum = t /\ s.snap.keys = k
      /\ s.snap.torn = w.snap.torn
  BY <1>4 DEF Recording, Snaps, Snapping
<1> HIDE DEF s
<1>7. s.at \notin Busy
  BY <1>6 DEF Busy
<1> QED
  BY <1>1, <1>2, <1>4, <1>5, <1>6, <1>7, ReadGoesOn

LEMMA SnapTokensInv ==
  ASSUME BooksInv, NEW r \in Recorders, SnapTokens(r)
  PROVE  BooksInv'
<1>1. PICK w, k : w = recorder[r] /\ k = Cardinality(DOMAIN buckets[w.mission].models)
  OBVIOUS
<1>t. PICK torn \in BOOLEAN : torn <=> w.snap.keys # k
  OBVIOUS
<1> DEFINE s == [w EXCEPT !.at = "done", !.snap.torn = torn]
<1>2. /\ w.at = "tokens" /\ Become(r, s)
      /\ UNCHANGED <<pricing, called, priced, ring, buckets, answers>>
  <2>1. torn = (w.snap.keys # k)
    BY <1>t
  <2> QED
    BY <1>1, <2>1 DEF SnapTokens
<1>3. w.at \in Snapping
  BY <1>2 DEF Snapping
<1>4. w \in Recording /\ w.mission \in Missions /\ k \in Nat /\ w.at \notin Busy /\ w.snap.keys \in Nat
  BY <1>1, <1>3, ReadingBooks, RecorderParts DEF BooksInv
<1>5. w.snap.since <= w.snap.total /\ w.snap.total <= w.snap.sum /\ w.snap.keys <= k
  BY <1>1, <1>2 DEF BooksInv, SnapTells
<1>6. /\ s \in Recording /\ s.at = "done" /\ s.mission = w.mission
      /\ s.snap.since = w.snap.since /\ s.snap.total = w.snap.total /\ s.snap.sum = w.snap.sum
      /\ s.snap.keys = w.snap.keys /\ s.snap.torn = torn
  BY <1>4 DEF Recording, Snaps, Snapping
<1> HIDE DEF s
<1>7. s.at \notin Busy /\ (torn => w.snap.keys < k)
  BY <1>4, <1>5, <1>6, <1>t DEF Busy
<1> QED
  BY <1>1, <1>2, <1>4, <1>5, <1>6, <1>7, ReadGoesOn

LEMMA RestInv ==
  ASSUME BooksInv, NEW r \in Recorders, Rest(r)
  PROVE  BooksInv'
<1>1. /\ recorder[r].at = "done" /\ Become(r, Resting)
      /\ UNCHANGED <<pricing, called, priced, ring, buckets, answers>>
  BY DEF Rest
<1>2. Resting \in Recording /\ Resting.at = "out" /\ ~Resting.snap.torn
  BY DEF Resting, Snapshot, Recording, Snaps
<1>3. recorder[r].at \notin Busy /\ Resting.at \notin Busy
  BY <1>1, <1>2 DEF Busy
<1> QED
  BY <1>1, <1>2, <1>3, ReadGoesOn

\* Steps that leave the books alone.
LEMMA BooksRest ==
  ASSUME BooksInv, UNCHANGED ledgerVars
  PROVE  BooksInv'
<1>1. /\ pricing' = pricing /\ called' = called /\ priced' = priced /\ ring' = ring
      /\ buckets' = buckets /\ recorder' = recorder /\ answers' = answers
  BY DEF ledgerVars
<1>2. Numbers' = Numbers /\ Price' = Price
  BY <1>1, PriceKept
<1>3. Counted' = Counted /\ Priced' = Priced /\ Logged' = Logged /\ Booked' = Booked
  BY <1>1, <1>2 DEF Counted, Priced, Logged, Booked, Past
<1>4. BooksTypeOK' /\ WorkIsApart'
  BY <1>1, <1>2 DEF BooksInv, BooksTypeOK, WorkIsApart
<1>5. CountersTell' /\ RingTells' /\ MissionsTell'
  BY <1>1, <1>2, <1>3 DEF BooksInv, CountersTell, RingTells, MissionsTell
<1>6. \A r \in Recorders : SnapTells(r)'
  BY <1>1 DEF BooksInv, SnapTells
<1> QED
  BY <1>4, <1>5, <1>6 DEF BooksInv

LEMMA BooksStep == BooksInv /\ [SideNext]_sideVars => BooksInv'
<1> SUFFICES ASSUME BooksInv, [SideNext]_sideVars PROVE BooksInv'
  OBVIOUS
<1>1. CASE LedgerNext
  BY <1>1, TakeAnswerInv, ReadMissionInv, CountCallInv, CountCostInv, AppendRecordInv, RecordMissionInv,
     SnapTotalInv, SnapModelsInv, SnapTokensInv, RestInv DEF LedgerNext
<1>2. CASE UNCHANGED ledgerVars
  BY <1>2, BooksRest
<1> QED
  BY <1>1, <1>2 DEF SideNext, sideVars

-----------------------------------------------------------------------------
(* What the books' invariant says of the properties                          *)

LEMMA RingIsRecentHolds == BooksInv => RingIsRecent
<1> SUFFICES ASSUME BooksInv PROVE RingIsRecent
  OBVIOUS
<1>1. IsInjective(ring)
  BY DEF BooksInv, RingTells
<1>2. Logged \subseteq Counted /\ ToSet(ring) \subseteq Counted
  BY DEF BooksInv, RingTells, Logged, Counted, Past
<1>3. ASSUME NEW m \in Models
      PROVE  Cardinality({n \in ToSet(ring) : answers[n].model = m}) <= called[m]
  <2>1. IsFiniteSet(Counted)
    BY NumbersFinite DEF BooksInv, Counted
  <2>2. {n \in Counted : answers[n].model = m} \in SUBSET Counted
    OBVIOUS
  <2>3. {n \in ToSet(ring) : answers[n].model = m} \in SUBSET {n \in Counted : answers[n].model = m}
    BY <1>2
  <2>4. IsFiniteSet({n \in Counted : answers[n].model = m})
    BY <2>1, <2>2, FS_Subset
  <2>5. Cardinality({n \in ToSet(ring) : answers[n].model = m}) <= Cardinality({n \in Counted : answers[n].model = m})
    BY <2>3, <2>4, FS_Subset
  <2>6. called[m] = Cardinality({n \in Counted : answers[n].model = m})
    BY DEF BooksInv, CountersTell
  <2> QED
    BY <2>5, <2>6
<1> QED
  BY <1>1, <1>3 DEF RingIsRecent

LEMMA BooksAgreeHolds == BooksInv => BooksAgree
<1> SUFFICES ASSUME BooksInv PROVE BooksAgree
  OBVIOUS
<1>1. \A m \in Missions : buckets[m].total = SumFunction(buckets[m].models)
  BY DEF BooksInv, MissionsTell
<1>2. ASSUME UnderWay = {}
      PROVE  /\ SumFunction(called) = Len(answers)
             /\ SumFunction([m \in Missions |-> buckets[m].count]) = Len(answers)
             /\ SumFunction([m \in Missions |-> buckets[m].total]) = SumFunction(priced)
             /\ Len(ring) = Min({RingLimit, Len(answers)})
  <2>1. \A r \in Recorders : recorder[r].at \notin Busy
    BY <1>2 DEF UnderWay, Busy
  <2>2. Counted = Numbers /\ Priced = Numbers /\ Logged = Numbers /\ Booked = Numbers
    BY <2>1 DEF Counted, Priced, Logged, Booked, Past, Busy
  <2>3. Cardinality(Numbers) = Len(answers)
    BY NumbersFinite DEF BooksInv
  <2> QED
    BY <2>2, <2>3 DEF BooksInv, CountersTell, RingTells, MissionsTell
<1> QED
  BY <1>1, <1>2 DEF BooksAgree

LEMMA SnapshotLagsHolds == BooksInv => SnapshotLags
BY DEF BooksInv, SnapTells, SnapshotLags

-----------------------------------------------------------------------------
(* The router's answer                                                       *)

RouterInv == routed = Unasked \/ \E s \in RouterSettings, q \in Questions :
    routed = [settings |-> s, question |-> q, model |-> ChooseModel(s, q)]

\* One set of settings, two prompts of the same kind: the longer one is no worse off.
LEMMA LongerIsLarger ==
  ASSUME LedgerAssumption, NEW s \in RouterSettings, NEW p \in Questions, NEW q \in Questions,
         p.risk = q.risk, p.task = q.task, p.length <= q.length
  PROVE  Size(ChooseModel(s, p)) <= Size(ChooseModel(s, q))
<1>1. s.on \in BOOLEAN /\ p.length \in Int /\ q.length \in Int
  BY DEF LedgerAssumption
<1>2. \A m : Size(m) \in 1..3
  BY DEF Size
<1>3. CASE ~s.on
  <2>1. ChooseModel(s, p) = Sonnet /\ ChooseModel(s, q) = Sonnet
    BY <1>3 DEF ChooseModel
  <2> QED
    BY <1>2, <2>1
<1>4. CASE s.on /\ s.pin # ""
  <2>1. ChooseModel(s, p) = s.pin /\ ChooseModel(s, q) = s.pin
    BY <1>4 DEF ChooseModel
  <2> QED
    BY <1>2, <2>1
<1>5. CASE s.on /\ s.pin = "" /\ q.risk = "high"
  <2>1. p.risk = "high"
    BY <1>5
  <2>2. ChooseModel(s, p) = Opus /\ ChooseModel(s, q) = Opus
    BY <1>5, <2>1 DEF ChooseModel
  <2> QED
    BY <1>2, <2>2
<1>6. CASE s.on /\ s.pin = "" /\ q.risk # "high" /\ q.task \in DOMAIN s.tasks
  <2>1. ChooseModel(s, p) = s.tasks[q.task] /\ ChooseModel(s, q) = s.tasks[q.task]
    BY <1>6 DEF ChooseModel
  <2> QED
    BY <1>2, <2>1
<1>7. CASE s.on /\ s.pin = "" /\ q.risk # "high" /\ q.task \notin DOMAIN s.tasks
  <2>1. Threshold(s.large, 8000) \in Int /\ Threshold(s.small, 1500) \in Int
    BY DEF Threshold, LedgerAssumption
  <2>2. ChooseModel(s, p) = BySize(s, p) /\ ChooseModel(s, q) = BySize(s, q)
    <3>1. s.on /\ s.pin = "" /\ p.risk # "high" /\ p.task \notin DOMAIN s.tasks
      BY <1>7
    <3>2. ChooseModel(s, p) = BySize(s, p)
      BY <3>1 DEF ChooseModel
    <3> QED
      BY <1>7, <3>2 DEF ChooseModel
  <2>3. Size(Opus) = 3 /\ Size(Sonnet) = 2 /\ Size(Haiku) = 1
    BY DEF Size, Opus, Sonnet, Haiku
  <2> QED
    BY <1>1, <2>1, <2>2, <2>3 DEF BySize
<1> QED
  BY <1>1, <1>3, <1>4, <1>5, <1>6, <1>7

LEMMA LongerIsNoSmallerHolds ==
  ASSUME LedgerAssumption, RouterInv
  PROVE  LongerIsNoSmaller
<1> SUFFICES ASSUME routed # Unasked PROVE LongerIsNoSmaller
  BY DEF LongerIsNoSmaller
<1>1. PICK s \in RouterSettings, q \in Questions :
        routed = [settings |-> s, question |-> q, model |-> ChooseModel(s, q)]
  BY DEF RouterInv
<1>2. routed.settings = s /\ routed.question = q /\ routed.model = ChooseModel(s, q)
  BY <1>1
<1>3. \A p \in Questions :
        p.risk = q.risk /\ p.task = q.task /\ p.length <= q.length
          => Size(ChooseModel(s, p)) <= Size(ChooseModel(s, q))
  BY LongerIsLarger
<1>4. ASSUME q.risk = "high", s.on, s.pin = "", NEW p \in Questions
      PROVE  Size(ChooseModel(s, p)) <= Size(ChooseModel(s, q))
  <2>1. ChooseModel(s, q) = Opus
    BY <1>4 DEF ChooseModel
  <2>2. \A m : Size(m) \in 1..3
    BY DEF Size
  <2>3. Size(Opus) = 3
    BY DEF Size
  <2> QED
    BY <2>1, <2>2, <2>3
<1> QED
  BY <1>2, <1>3, <1>4 DEF LongerIsNoSmaller

LEMMA RouterStep == RouterInv /\ [SideNext]_sideVars => RouterInv'
<1> SUFFICES ASSUME RouterInv, [SideNext]_sideVars PROVE RouterInv'
  OBVIOUS
<1>1. CASE AskRouter
  BY <1>1 DEF AskRouter, RouterInv
<1>2. CASE routed' = routed
  BY <1>2 DEF RouterInv
<1> QED
  BY <1>1, <1>2 DEF SideNext, sideVars

-----------------------------------------------------------------------------
(* The batch queue                                                           *)

Requests == Nat
Flushing == [at : {"out", "drained"}, items : Seq(Requests)]

NoneShared(a, b) == \A i \in DOMAIN a, j \in DOMAIN b : a[i] # b[j]
Numbered(a, n) == \A i \in DOMAIN a : a[i] \in 1..n

QueueTypeOK ==
    /\ queued \in Nat /\ pending \in Seq(Requests) /\ batches \in Seq(Seq(Requests))
    /\ flusher \in [Recorders -> Flushing]
    /\ \A f \in Recorders : flusher[f].at = "out" => flusher[f].items = <<>>
    /\ Numbered(pending, queued)
    /\ \A f \in Recorders : Numbered(flusher[f].items, queued)
    /\ \A i \in DOMAIN batches : Numbered(batches[i], queued)

\* No request is twice in the queue, in a thread's hands or in a batch, or in two of them.
RequestsApart ==
    /\ IsInjective(pending)
    /\ \A f \in Recorders : IsInjective(flusher[f].items) /\ NoneShared(pending, flusher[f].items)
    /\ \A i \in DOMAIN batches : IsInjective(batches[i]) /\ NoneShared(pending, batches[i])
    /\ \A f, g \in Recorders : f # g => NoneShared(flusher[f].items, flusher[g].items)
    /\ \A f \in Recorders, i \in DOMAIN batches : NoneShared(flusher[f].items, batches[i])
    /\ \A i, j \in DOMAIN batches : i # j => NoneShared(batches[i], batches[j])

QueueInv == QueueTypeOK /\ RequestsApart /\ LossIsTold /\ OrphansWereRefused

LEMMA NoneOfNothing ==
  ASSUME NEW a
  PROVE  /\ NoneShared(<<>>, a) /\ NoneShared(a, <<>>) /\ IsInjective(<<>>) /\ ToSet(<<>>) = {}
         /\ \A n : Numbered(<<>>, n)
BY DEF NoneShared, IsInjective, ToSet, Numbered

LEMMA SharedBothWays ==
  ASSUME NEW a, NEW b
  PROVE  NoneShared(a, b) <=> NoneShared(b, a)
BY DEF NoneShared

\* A request with a new number is nowhere yet.
LEMMA NewRequest ==
  ASSUME NEW n \in Nat, NEW a \in Seq(Requests), Numbered(a, n)
  PROVE  /\ Append(a, n + 1) \in Seq(Requests) /\ Numbered(Append(a, n + 1), n + 1) /\ Numbered(a, n + 1)
         /\ IsInjective(a) => IsInjective(Append(a, n + 1))
         /\ ToSet(Append(a, n + 1)) = ToSet(a) \cup {n + 1}
         /\ \A b : Numbered(b, n) /\ NoneShared(a, b) => NoneShared(Append(a, n + 1), b)
<1>1. PICK t, k : t = Append(a, n + 1) /\ k = Len(a)
  OBVIOUS
<1>2. /\ t \in Seq(Requests) /\ k \in Nat /\ DOMAIN a = 1..k /\ DOMAIN t = 1..(k + 1) /\ t[k + 1] = n + 1
      /\ \A i \in 1..k : t[i] = a[i]
  BY <1>1, Appended DEF Requests
<1>3. \A i \in DOMAIN t : i \in 1..k \/ i = k + 1
  BY <1>2
<1>4. \A i \in 1..k : t[i] \in 1..n /\ t[i] \in 1..(n + 1) /\ t[i] # n + 1
  BY <1>2 DEF Numbered
<1>5. Numbered(t, n + 1) /\ Numbered(a, n + 1)
  BY <1>2, <1>3, <1>4 DEF Numbered
<1>6. ASSUME IsInjective(a) PROVE IsInjective(t)
  <2> SUFFICES ASSUME NEW i \in DOMAIN t, NEW j \in DOMAIN t, t[i] = t[j] PROVE i = j
    BY DEF IsInjective
  <2> QED
    BY <1>2, <1>3, <1>4, <1>6 DEF IsInjective
<1>7. ToSet(t) = ToSet(a) \cup {n + 1}
  BY <1>2, <1>3 DEF ToSet
<1>8. ASSUME NEW b, Numbered(b, n), NoneShared(a, b) PROVE NoneShared(t, b)
  BY <1>2, <1>3, <1>8 DEF NoneShared, Numbered
<1> QED
  BY <1>1, <1>2, <1>5, <1>6, <1>7, <1>8

\* The requests that have not left: in the queue, in a thread's hands or in a batch.
Here(n) ==
    \/ n \in ToSet(pending)
    \/ \E f \in Recorders : n \in ToSet(flusher[f].items)
    \/ \E i \in DOMAIN batches : n \in ToSet(batches[i])
ToldOf(n) == \E t \in told : n \in ToSet(t.items) /\ t.error # "none" /\ t.count > 0

LEMMA LossSaid == LossIsTold <=> \A n \in 1..queued : Here(n) \/ n \in forsaken \/ ToldOf(n)
BY DEF LossIsTold, ToldOf, Here

LEMMA OnceEachHolds == QueueInv => OnceEach
<1> SUFFICES ASSUME QueueInv PROVE OnceEach
  OBVIOUS
<1>1. ASSUME NEW p \in Held
      PROVE  \/ p = <<"queue", 0, pending>>
             \/ \E f \in Recorders : p = <<"flush", f, flusher[f].items>>
             \/ \E i \in DOMAIN batches : p = <<"batch", i, batches[i]>>
  BY DEF Held
<1>2. ASSUME NEW p \in Held PROVE IsInjective(p[3])
  BY <1>1 DEF QueueInv, RequestsApart
<1>3. ASSUME NEW p \in Held, NEW q \in Held PROVE p = q \/ NoneShared(p[3], q[3])
  <2>1. CASE p = <<"queue", 0, pending>>
    BY <1>1, <2>1 DEF QueueInv, RequestsApart
  <2>2. ASSUME NEW f \in Recorders, p = <<"flush", f, flusher[f].items>>
        PROVE  p = q \/ NoneShared(p[3], q[3])
    BY <1>1, <2>2, SharedBothWays DEF QueueInv, RequestsApart
  <2>3. ASSUME NEW i \in DOMAIN batches, p = <<"batch", i, batches[i]>>
        PROVE  p = q \/ NoneShared(p[3], q[3])
    BY <1>1, <2>3, SharedBothWays DEF QueueInv, RequestsApart
  <2> QED
    BY <1>1, <2>1, <2>2, <2>3
<1> SUFFICES ASSUME NEW p \in Held, NEW q \in Held, NEW i \in DOMAIN p[3], NEW j \in DOMAIN q[3],
                    p[3][i] = q[3][j]
             PROVE  p = q /\ i = j
  BY DEF OnceEach
<1>4. p = q
  BY <1>3 DEF NoneShared
<1> QED
  BY <1>2, <1>4 DEF IsInjective

LEMMA QueueStart == SideInit => QueueInv
<1> SUFFICES ASSUME SideInit PROVE QueueInv
  OBVIOUS
<1>1. /\ pending = <<>> /\ batches = <<>> /\ DOMAIN batches = {} /\ queued = 0
      /\ \A f \in Recorders : flusher[f].items = <<>>
  BY DEF SideInit, Unflushed
<1>2. QueueTypeOK
  BY <1>1, NoneOfNothing DEF SideInit, Unflushed, QueueTypeOK, Flushing
<1>3. RequestsApart
  BY <1>1, NoneOfNothing DEF RequestsApart
<1>4. LossIsTold /\ OrphansWereRefused
  BY <1>1 DEF LossIsTold, OrphansWereRefused
<1> QED
  BY <1>2, <1>3, <1>4 DEF QueueInv

LEMMA EnqueueInv ==
  ASSUME QueueInv, Enqueue
  PROVE  QueueInv'
<1> USE DEF QueueInv
<1>1. /\ queued' = queued + 1 /\ pending' = Append(pending, queued + 1)
      /\ flusher' = flusher /\ batches' = batches /\ told' = told /\ forsaken' = forsaken
  BY DEF Enqueue
<1>2. /\ queued \in Nat /\ pending \in Seq(Requests) /\ Numbered(pending, queued) /\ IsInjective(pending)
  BY DEF QueueTypeOK, RequestsApart
<1>3. /\ pending' \in Seq(Requests) /\ Numbered(pending', queued') /\ IsInjective(pending')
      /\ ToSet(pending') = ToSet(pending) \cup {queued + 1}
      /\ \A b : Numbered(b, queued) /\ NoneShared(pending, b) => NoneShared(pending', b)
  BY <1>1, <1>2, NewRequest
<1>4. \A b : Numbered(b, queued) => Numbered(b, queued')
  BY <1>1, <1>2 DEF Numbered
<1>5. QueueTypeOK'
  BY <1>1, <1>3, <1>4 DEF QueueTypeOK
<1>6. RequestsApart'
  BY <1>1, <1>3 DEF RequestsApart, QueueTypeOK
<1>7. \A n \in 1..queued' : Here(n)' \/ n \in forsaken' \/ ToldOf(n)'
  <2> TAKE n \in 1..queued'
  <2>1. CASE n = queued + 1
    BY <1>3, <2>1 DEF Here
  <2>2. CASE n # queued + 1
    <3>1. n \in 1..queued
      BY <1>1, <1>2, <2>2
    <3>2. Here(n) \/ n \in forsaken \/ ToldOf(n)
      BY <3>1, LossSaid
    <3>3. Here(n) => Here(n)'
      BY <1>1, <1>3 DEF Here
    <3>4. ToldOf(n) => ToldOf(n)'
      BY <1>1 DEF ToldOf
    <3> QED
      BY <1>1, <3>2, <3>3, <3>4
  <2> QED
    BY <2>1, <2>2
<1>8. LossIsTold'
  BY <1>7 DEF LossIsTold, Here, ToldOf
<1>9. OrphansWereRefused'
  BY <1>1 DEF OrphansWereRefused
<1> QED
  BY <1>5, <1>6, <1>8, <1>9

LEMMA DrainInv ==
  ASSUME QueueInv, NEW f \in Recorders, Drain(f)
  PROVE  QueueInv'
<1> USE DEF QueueInv
<1>1. /\ flusher[f].at = "out" /\ flusher[f].items = <<>> /\ pending' = <<>>
      /\ flusher' = [flusher EXCEPT ![f] = [at |-> "drained", items |-> pending]]
      /\ queued' = queued /\ batches' = batches /\ told' = told /\ forsaken' = forsaken
  BY DEF Drain, QueueTypeOK
<1>2. /\ flusher' \in [Recorders -> Flushing] /\ flusher'[f].at = "drained" /\ flusher'[f].items = pending
      /\ \A g \in Recorders \ {f} : flusher'[g] = flusher[g]
  BY <1>1 DEF QueueTypeOK, Flushing
<1>3. QueueTypeOK'
  <2>1. Numbered(pending', queued')
    BY <1>1, NoneOfNothing
  <2>2. \A g \in Recorders : /\ flusher'[g].at = "out" => flusher'[g].items = <<>>
                             /\ Numbered(flusher'[g].items, queued')
    BY <1>1, <1>2 DEF QueueTypeOK
  <2>3. /\ queued' \in Nat /\ pending' \in Seq(Requests) /\ batches' \in Seq(Seq(Requests))
        /\ \A i \in DOMAIN batches' : Numbered(batches'[i], queued')
    BY <1>1 DEF QueueTypeOK
  <2> QED
    BY <1>2, <2>1, <2>2, <2>3 DEF QueueTypeOK
<1>4. RequestsApart'
  <2>1. IsInjective(pending')
    BY <1>1, NoneOfNothing
  <2>2. \A g \in Recorders : IsInjective(flusher'[g].items) /\ NoneShared(pending', flusher'[g].items)
    BY <1>1, <1>2, NoneOfNothing DEF RequestsApart
  <2>3. \A i \in DOMAIN batches' : IsInjective(batches'[i]) /\ NoneShared(pending', batches'[i])
    BY <1>1, NoneOfNothing DEF RequestsApart
  <2>4. \A g, h \in Recorders : g # h => NoneShared(flusher'[g].items, flusher'[h].items)
    BY <1>2, SharedBothWays DEF RequestsApart
  <2>5. \A g \in Recorders, i \in DOMAIN batches' : NoneShared(flusher'[g].items, batches'[i])
    BY <1>1, <1>2 DEF RequestsApart
  <2>6. \A i, j \in DOMAIN batches' : i # j => NoneShared(batches'[i], batches'[j])
    BY <1>1 DEF RequestsApart
  <2> QED
    BY <2>1, <2>2, <2>3, <2>4, <2>5, <2>6 DEF RequestsApart
<1>5. \A n : Here(n) => Here(n)'
  <2> TAKE n
  <2>1. CASE n \in ToSet(pending)
    BY <1>2, <2>1 DEF Here
  <2>2. ASSUME NEW g \in Recorders, n \in ToSet(flusher[g].items) PROVE Here(n)'
    <3>1. g # f
      BY <1>1, <2>2, NoneOfNothing
    <3> QED
      BY <1>2, <2>2, <3>1 DEF Here
  <2>3. CASE \E i \in DOMAIN batches : n \in ToSet(batches[i])
    BY <1>1, <2>3 DEF Here
  <2> QED
    BY <2>1, <2>2, <2>3 DEF Here
<1>6. \A n \in 1..queued' : Here(n)' \/ n \in forsaken' \/ ToldOf(n)'
  BY <1>1, <1>5, LossSaid DEF ToldOf
<1>7. LossIsTold'
  BY <1>6 DEF LossIsTold, Here, ToldOf
<1>8. OrphansWereRefused'
  BY <1>1 DEF OrphansWereRefused
<1> QED
  BY <1>3, <1>4, <1>7, <1>8

\* What a flush is told of the requests it took.
Word(id, items, error) == [id |-> id, items |-> items, count |-> Len(items), error |-> error]

\* What a thread's requests are, and what is left when it lets them go.
LetsGo(f) ==
    /\ flusher' \in [Recorders -> Flushing] /\ flusher'[f].at = "out" /\ flusher'[f].items = <<>>
    /\ \A g \in Recorders \ {f} : flusher'[g] = flusher[g]

LEMMA Submitted ==
  ASSUME QueueInv, NEW f \in Recorders, Submit(f), NEW q, q = flusher[f].items
  PROVE  /\ LetsGo(f) /\ q \in Seq(Requests)
         /\ pending' = pending /\ forsaken' = forsaken /\ queued' = queued /\ told \subseteq told'
         /\ \/ batches' = batches /\ q = <<>>
            \/ batches' = batches /\ q # <<>> /\ \E e \in {"no key", "failed"} : Word(0, q, e) \in told'
            \/ /\ batches' = Append(batches, q) /\ q # <<>>
               /\ Word(Len(batches) + 1, q, "none") \in told' \/ Word(0, q, "failed") \in told'
<1>1. Unflushed \in Flushing /\ Unflushed.at = "out" /\ Unflushed.items = <<>>
  BY DEF Unflushed, Flushing
<1>2. LetsGo(f)
  BY <1>1 DEF Submit, LetsGo, QueueInv, QueueTypeOK
<1>3. q \in Seq(Requests)
  BY DEF QueueInv, QueueTypeOK, Flushing
<1>4. pending' = pending /\ forsaken' = forsaken /\ queued' = queued
  BY DEF Submit
<1>5. \/ q = <<>> /\ told' = told \cup {Word(0, q, "no requests to submit")} /\ batches' = batches
      \/ /\ q # <<>> /\ batches' = batches
         /\ \E e \in {"no key", "failed"} : told' = told \cup {Word(0, q, e)}
      \/ /\ q # <<>> /\ batches' = Append(batches, q)
         /\ \/ told' = told \cup {Word(Len(batches) + 1, q, "none")}
            \/ told' = told \cup {Word(0, q, "failed")}
  BY DEF Submit, Word
<1> QED
  BY <1>2, <1>3, <1>4, <1>5

LEMMA SubmitInv ==
  ASSUME QueueInv, NEW f \in Recorders, Submit(f)
  PROVE  QueueInv'
<1> USE DEF QueueInv
<1>1. PICK q : q = flusher[f].items
  OBVIOUS
<1>2. /\ LetsGo(f) /\ q \in Seq(Requests)
      /\ pending' = pending /\ forsaken' = forsaken /\ queued' = queued /\ told \subseteq told'
      /\ \/ batches' = batches /\ q = <<>>
         \/ batches' = batches /\ q # <<>> /\ \E e \in {"no key", "failed"} : Word(0, q, e) \in told'
         \/ /\ batches' = Append(batches, q) /\ q # <<>>
            /\ Word(Len(batches) + 1, q, "none") \in told' \/ Word(0, q, "failed") \in told'
  BY <1>1, Submitted
<1>l. LetsGo(f)
  BY <1>2
<1>3. \A g \in Recorders : (g = f /\ flusher'[g].items = <<>>) \/ (g # f /\ flusher'[g].items = flusher[g].items)
  <2> TAKE g \in Recorders
  <2>1. CASE g = f
    BY <1>l, <2>1 DEF LetsGo
  <2>2. CASE g # f
    BY <1>l, <2>2 DEF LetsGo
  <2> QED
    BY <2>1, <2>2
<1>q. q \in Seq(Requests) /\ (q # <<>> => Len(q) > 0)
  <2>1. q \in Seq(Requests)
    BY <1>2
  <2> QED
    BY <2>1, EmptySeq
<1>4. /\ Numbered(q, queued) /\ IsInjective(q) /\ NoneShared(pending, q)
      /\ \A g \in Recorders \ {f} : NoneShared(flusher[g].items, q)
      /\ \A i \in DOMAIN batches : NoneShared(q, batches[i])
  BY <1>1 DEF QueueTypeOK, RequestsApart
<1>b. batches \in Seq(Seq(Requests)) /\ q \in Seq(Requests) /\ Len(batches) \in Nat
  BY <1>q DEF QueueTypeOK
<1>5. \A n : ToldOf(n) => ToldOf(n)'
  BY <1>2 DEF ToldOf
<1>6. /\ \A g \in Recorders : /\ flusher'[g].at = "out" => flusher'[g].items = <<>>
                              /\ Numbered(flusher'[g].items, queued')
      /\ flusher' \in [Recorders -> Flushing]
      /\ queued' \in Nat /\ pending' \in Seq(Requests) /\ Numbered(pending', queued')
  BY <1>2, NoneOfNothing DEF QueueTypeOK, LetsGo
<1>7. /\ IsInjective(pending')
      /\ \A g \in Recorders : IsInjective(flusher'[g].items) /\ NoneShared(pending', flusher'[g].items)
      /\ \A g, h \in Recorders : g # h => NoneShared(flusher'[g].items, flusher'[h].items)
  BY <1>2, <1>3, NoneOfNothing DEF RequestsApart
<1>8. CASE batches' = batches
  <2>1. QueueTypeOK'
    BY <1>2, <1>6, <1>8 DEF QueueTypeOK
  <2>2. RequestsApart'
    BY <1>2, <1>3, <1>7, <1>8, NoneOfNothing DEF RequestsApart
  <2>3. \A n : n \in ToSet(q) => ToldOf(n)'
    <3>1. CASE q = <<>>
      BY <3>1, NoneOfNothing
    <3>2. CASE q # <<>>
      <4>1. Len(q) > 0
        BY <1>q, <3>2
      <4>3. \E e \in {"no key", "failed"} : Word(0, q, e) \in told'
        <5>1. batches' # Append(batches, q)
          <6>1. Append(batches, q) # batches
            BY <1>b, Appended
          <6> QED
            BY <1>8, <6>1
        <5> QED
          BY <1>2, <3>2, <5>1
      <4>4. PICK e \in {"no key", "failed"} : Word(0, q, e) \in told'
        BY <4>3
      <4>5. Word(0, q, e).items = q /\ Word(0, q, e).error # "none" /\ Word(0, q, e).count > 0
        BY <4>1 DEF Word
      <4> QED
        BY <4>4, <4>5 DEF ToldOf
    <3> QED
      BY <3>1, <3>2
  <2>4. \A n : Here(n) => Here(n)' \/ n \in ToSet(q)
    BY <1>1, <1>2, <1>3, <1>8 DEF Here
  <2>5. \A n \in 1..queued' : Here(n)' \/ n \in forsaken' \/ ToldOf(n)'
    BY <1>2, <1>5, <2>3, <2>4, LossSaid
  <2>6. LossIsTold'
    BY <2>5 DEF LossIsTold, Here, ToldOf
  <2>7. OrphansWereRefused'
    BY <1>2, <1>8 DEF OrphansWereRefused
  <2> QED
    BY <2>1, <2>2, <2>6, <2>7
<1>9. CASE batches' = Append(batches, q) /\ (Word(Len(batches) + 1, q, "none") \in told' \/ Word(0, q, "failed") \in told')
  <2>1. PICK k \in Nat : k = Len(batches)
    BY DEF QueueTypeOK
  <2>2. /\ batches' \in Seq(Seq(Requests)) /\ DOMAIN batches = 1..k /\ DOMAIN batches' = 1..(k + 1)
        /\ batches'[k + 1] = q /\ \A i \in 1..k : batches'[i] = batches[i]
    <3>1. /\ Append(batches, q) \in Seq(Seq(Requests)) /\ Len(Append(batches, q)) = k + 1
          /\ Append(batches, q)[k + 1] = q /\ \A i \in 1..k : Append(batches, q)[i] = batches[i]
      BY <1>b, <2>1, Appended
    <3>2. DOMAIN batches = 1..k /\ DOMAIN Append(batches, q) = 1..(k + 1)
      BY <1>b, <2>1, <3>1
    <3> QED
      BY <1>9, <3>1, <3>2
  <2>3. \A i \in DOMAIN batches' : (i \in DOMAIN batches /\ batches'[i] = batches[i]) \/ (i = k + 1 /\ batches'[i] = q)
    <3> TAKE i \in DOMAIN batches'
    <3>1. i \in 1..k \/ i = k + 1
      BY <2>2
    <3>2. CASE i \in 1..k
      BY <2>2, <3>2
    <3>3. CASE i = k + 1
      BY <2>2, <3>3
    <3> QED
      BY <3>1, <3>2, <3>3
  <2>4. QueueTypeOK'
    BY <1>2, <1>4, <1>6, <2>2, <2>3 DEF QueueTypeOK
  <2>5. \A i \in DOMAIN batches' : IsInjective(batches'[i]) /\ NoneShared(pending', batches'[i])
    BY <1>2, <1>4, <2>3 DEF RequestsApart
  <2>6. \A g \in Recorders, i \in DOMAIN batches' : NoneShared(flusher'[g].items, batches'[i])
    BY <1>3, <1>4, <2>3, NoneOfNothing DEF RequestsApart
  <2>7. \A i, j \in DOMAIN batches' : i # j => NoneShared(batches'[i], batches'[j])
    BY <1>4, <2>3, SharedBothWays DEF RequestsApart
  <2>8. RequestsApart'
    BY <1>7, <2>5, <2>6, <2>7 DEF RequestsApart
  <2>9. \A n : Here(n) => Here(n)'
    <3> TAKE n
    <3>1. CASE n \in ToSet(pending)
      BY <1>2, <3>1 DEF Here
    <3>2. ASSUME NEW g \in Recorders, n \in ToSet(flusher[g].items) PROVE Here(n)'
      <4>1. CASE g = f
        BY <1>1, <2>2, <3>2, <4>1 DEF Here
      <4>2. CASE g # f
        BY <1>3, <3>2, <4>2 DEF Here
      <4> QED
        BY <4>1, <4>2
    <3>3. ASSUME NEW i \in DOMAIN batches, n \in ToSet(batches[i]) PROVE Here(n)'
      BY <2>2, <3>3 DEF Here
    <3> QED
      BY <3>1, <3>2, <3>3 DEF Here
  <2>10. \A n \in 1..queued' : Here(n)' \/ n \in forsaken' \/ ToldOf(n)'
    BY <1>2, <1>5, <2>9, LossSaid
  <2>11. LossIsTold'
    BY <2>10 DEF LossIsTold, Here, ToldOf
  <2>12. OrphansWereRefused'
    <3> SUFFICES ASSUME NEW i \in DOMAIN batches'
                 PROVE  \E t \in told' : t.items = batches'[i] /\ (t.id = i \/ t.error = "failed")
      BY DEF OrphansWereRefused
    <3>1. CASE i \in DOMAIN batches /\ batches'[i] = batches[i]
      BY <1>2, <3>1 DEF OrphansWereRefused
    <3>2. CASE i = k + 1 /\ batches'[i] = q
      <4>1. /\ Word(k + 1, q, "none").items = q /\ Word(k + 1, q, "none").id = k + 1
            /\ Word(0, q, "failed").items = q /\ Word(0, q, "failed").error = "failed"
        BY DEF Word
      <4> QED
        BY <1>9, <2>1, <3>2, <4>1
    <3> QED
      BY <2>3, <3>1, <3>2
  <2> QED
    BY <2>4, <2>8, <2>11, <2>12
<1> QED
  BY <1>2, <1>8, <1>9

LEMMA StopInv ==
  ASSUME QueueInv, Stop
  PROVE  QueueInv'
<1> USE DEF QueueInv
<1>1. /\ pending' = <<>> /\ flusher' = [f \in Recorders |-> Unflushed]
      /\ forsaken' = forsaken \cup ToSet(pending) \cup UNION {ToSet(flusher[f].items) : f \in Recorders}
      /\ batches' = batches /\ told' = told /\ queued' = queued
  BY DEF Stop
<1>2. Unflushed \in Flushing /\ Unflushed.items = <<>>
  BY DEF Unflushed, Flushing
<1>3. flusher' \in [Recorders -> Flushing] /\ \A f \in Recorders : flusher'[f].items = <<>>
  BY <1>1, <1>2
<1>4. QueueTypeOK'
  <2>1. Numbered(pending', queued') /\ \A f \in Recorders : Numbered(flusher'[f].items, queued')
    BY <1>1, <1>3, NoneOfNothing
  <2>2. pending' \in Seq(Requests)
    BY <1>1
  <2>3. /\ queued' \in Nat /\ batches' \in Seq(Seq(Requests))
        /\ \A i \in DOMAIN batches' : Numbered(batches'[i], queued')
    BY <1>1 DEF QueueTypeOK
  <2> QED
    BY <1>3, <2>1, <2>2, <2>3 DEF QueueTypeOK
<1>5. RequestsApart'
  BY <1>1, <1>3, NoneOfNothing DEF RequestsApart
<1>6. \A n : Here(n) => Here(n)' \/ n \in forsaken'
  <2> TAKE n
  <2>1. CASE n \in ToSet(pending)
    BY <1>1, <2>1
  <2>2. ASSUME NEW f \in Recorders, n \in ToSet(flusher[f].items) PROVE n \in forsaken'
    BY <1>1, <2>2
  <2>3. CASE \E i \in DOMAIN batches : n \in ToSet(batches[i])
    BY <1>1, <2>3 DEF Here
  <2> QED
    BY <2>1, <2>2, <2>3 DEF Here
<1>7. \A n \in 1..queued' : Here(n)' \/ n \in forsaken' \/ ToldOf(n)'
  BY <1>1, <1>6, LossSaid DEF ToldOf
<1>8. LossIsTold'
  BY <1>7 DEF LossIsTold, Here, ToldOf
<1>9. OrphansWereRefused'
  BY <1>1 DEF OrphansWereRefused
<1> QED
  BY <1>4, <1>5, <1>8, <1>9

LEMMA QueueStep == QueueInv /\ [SideNext]_sideVars => QueueInv'
<1> SUFFICES ASSUME QueueInv, [SideNext]_sideVars PROVE QueueInv'
  OBVIOUS
<1>1. CASE BatchNext
  BY <1>1, EnqueueInv, DrainInv, SubmitInv, StopInv DEF BatchNext
<1>2. CASE UNCHANGED batchVars
  BY <1>2 DEF batchVars, QueueInv, QueueTypeOK, RequestsApart, LossIsTold, OrphansWereRefused
<1> QED
  BY <1>1, <1>2 DEF SideNext, sideVars

-----------------------------------------------------------------------------
(* Everything beside a call                                                  *)

SideInv == BooksInv /\ RouterInv /\ QueueInv

\* The inductive invariant of the router, the books and the queue (router.py,
\* llm_telemetry.py, mission_cost.py, batch.py), for any number of threads, missions,
\* calls and requests.
THEOREM LedgerInvariant == SideSpec => []SideInv
<1>1. SideInit => SideInv
  BY BooksStart, QueueStart DEF SideInv, SideInit, RouterInv
<1>2. SideInv /\ [SideNext]_sideVars => SideInv'
  BY BooksStep, RouterStep, QueueStep DEF SideInv
<1> QED
  BY <1>1, <1>2, PTL DEF SideSpec

\* No prompt is sent to a smaller model for being longer, the books tell of the same
\* calls whatever the threads' steps, a snapshot's total lags and never leads, and no
\* request is twice submitted or lost untold.
THEOREM LedgerHoldsAlways == SideSpec => []LedgerHolds
<1>1. SideInv => LedgerHolds
  BY LongerIsNoSmallerHolds, RingIsRecentHolds, BooksAgreeHolds, SnapshotLagsHolds, OnceEachHolds, LedgerAssumption
  DEF SideInv, QueueInv, LedgerHolds
<1> QED
  BY <1>1, LedgerInvariant, PTL

-----------------------------------------------------------------------------
(* Infusion: what the providers answered and what is made of it              *)

Authors == Providers \cup {"nobody", "everyone", "engine"}
Kinds == {"text", "refined", "definitive", "empty", "failure", "synthesis", "no LLM providers available"}
Texts == [by : Authors, over : Authors, as : Kinds]
Links == [by : Providers, text : Texts]

\* A provider's own text; claude's is never empty.
Wrote(t, p) == t.by = p /\ (t.as = "empty" => p # "claude")

HeardOK ==
    /\ DOMAIN heard \subseteq Providers
    /\ \A p \in DOMAIN heard : heard[p] \in Texts /\ (heard[p] = Failed \/ Wrote(heard[p], p))
ChainOK ==
    /\ chain \in Seq(Links) /\ turn \in 0..4 /\ Len(chain) <= turn
    /\ \A i \in DOMAIN chain : chain[i].text = Failed \/ Wrote(chain[i].text, chain[i].by)

\* What the broadcast gave, and the text that stands: the last refiner's, if there is one.
Base == IF Len(parts) = 1 THEN heard[parts[1]] ELSE Synthesis
Standing ==
    \/ Refiners = {} /\ current = Base
    \/ \E i \in Refiners : (\A k \in Refiners : k <= i) /\ current = chain[i].text
Rewritten == \A i, j \in Refiners :
    i < j /\ (\A k \in Refiners : k <= i \/ j <= k) => chain[j].text.over = chain[i].by

\* A text that can be handed out as an answer.
Sound(t) == t = Synthesis \/ \E p \in Providers : Wrote(t, p)

Refined ==
    /\ infused /\ parts = Successful /\ parts # <<>>
    /\ current \in Texts /\ Sound(current) /\ Standing /\ Rewritten

InfusionInv ==
    /\ HeardOK /\ ChainOK /\ DefinitiveIsClaudes
    /\ stage \in {"out", "tools", "broadcast", "refine", "done"}
    /\ stage \in {"out", "tools", "broadcast"} => turn = 0 /\ chain = <<>> /\ parts = <<>>
    /\ stage = "out" => heard = <<>>
    /\ stage = "broadcast" => infused
    /\ stage = "refine" => Refined
    /\ stage = "done" /\ parts # <<>> => Refined /\ answer = current
    /\ stage = "done" /\ parts = <<>> => chain = <<>> /\ answer.as # "empty"
                                          /\ (infused => answer = Apology /\ Successful = <<>>)

LEMMA ProvidersAre == Providers = {"claude", "chatgpt", "gemini", "perplexity"}
<1>1. Len(Order) = 4 /\ DOMAIN Order = 1..4
  BY DEF Order
<1>2. Providers = {Order[1], Order[2], Order[3], Order[4]}
  BY <1>1 DEF Providers, ToSet
<1> QED
  BY <1>2 DEF Order

LEMMA TextsAre ==
  /\ Failed \in Texts /\ Apology \in Texts /\ Synthesis \in Texts
  /\ Failed.by = "nobody" /\ Failed.as = "failure" /\ Apology.by = "engine"
  /\ Apology.as = "no LLM providers available" /\ Synthesis.as = "synthesis" /\ Synthesis.by = "engine"
BY DEF Failed, Apology, Synthesis, Text, Texts, Authors, Kinds

LEMMA TextIs ==
  ASSUME NEW p, NEW o, NEW a
  PROVE  /\ p \in Authors /\ o \in Authors /\ a \in Kinds => Text(p, o, a) \in Texts
         /\ Text(p, o, a).by = p /\ Text(p, o, a).over = o /\ Text(p, o, a).as = a
BY DEF Text, Texts

LEMMA SoundIsNoFailure ==
  ASSUME NEW t, Sound(t)
  PROVE  t # Failed /\ t # Apology /\ (t.as = "empty" => t.by # "claude")
<1>1. CASE t = Synthesis
  BY <1>1, TextsAre
<1>2. ASSUME NEW p \in Providers, Wrote(t, p) PROVE t # Failed /\ t # Apology /\ (t.as = "empty" => t.by # "claude")
  BY <1>2, TextsAre, ProvidersAre DEF Wrote
<1> QED
  BY <1>1, <1>2 DEF Sound

\* What a provider may come back with.
LEMMA OutcomesAre ==
  ASSUME NEW p \in Providers, NEW o \in Authors, NEW a \in Kinds \ {"empty"}, NEW t \in Outcomes(p, o, a)
  PROVE  /\ t \in Texts
         /\ t = Failed \/ (Wrote(t, p) /\ t # Failed /\ t.over = o /\ t.as \in {a, "empty"})
<1>1. p \in Authors /\ p # "nobody" /\ "empty" \in Kinds
  BY ProvidersAre DEF Authors, Kinds
<1>2. CASE t = Failed
  BY <1>2, TextsAre
<1>3. CASE t = Text(p, o, a)
  <2>1. t \in Texts /\ t.by = p /\ t.over = o /\ t.as = a
    BY <1>1, <1>3, TextIs
  <2>2. a # "empty" /\ t # Failed
    BY <1>1, <2>1, TextsAre
  <2> QED
    BY <2>1, <2>2 DEF Wrote
<1>4. CASE p # "claude" /\ t = Text(p, o, "empty")
  <2>1. t \in Texts /\ t.by = p /\ t.over = o /\ t.as = "empty"
    BY <1>1, <1>4, TextIs
  <2>2. p # "claude" /\ t # Failed
    BY <1>1, <1>4, <2>1, TextsAre
  <2> QED
    BY <2>1, <2>2 DEF Wrote
<1> QED
  BY <1>2, <1>3, <1>4 DEF Outcomes

-----------------------------------------------------------------------------
(* Infusion: the answers are combined in the fixed order                     *)

LEMMA RankOf == \A k \in 1..4 : Rank(Order[k]) = k
<1>1. DOMAIN Order = 1..4
  BY DEF Order
<1>2. \A i, j \in 1..4 : Order[i] = Order[j] => i = j
  BY DEF Order
<1> TAKE k \in 1..4
<1>3. \E i \in DOMAIN Order : Order[i] = Order[k]
  BY <1>1
<1>4. Rank(Order[k]) \in DOMAIN Order /\ Order[Rank(Order[k])] = Order[k]
  BY <1>3 DEF Rank
<1> QED
  BY <1>1, <1>2, <1>4

\* The providers among the first k of the order whose answers are combined.
AnsweredBy(k) == {p \in {Order[i] : i \in 1..k} : p \in DOMAIN heard /\ heard[p] # Failed}
InOrder(s, k) ==
    /\ s \in Seq(Providers) /\ ToSet(s) = AnsweredBy(k)
    /\ \A i \in DOMAIN s : Rank(s[i]) \in 1..k
    /\ \A i, j \in DOMAIN s : i < j => Rank(s[i]) < Rank(s[j])

LEMMA NextAnswer ==
  ASSUME NEW k \in 0..3, NEW s, InOrder(s, k)
  PROVE  InOrder(s \o Success(Order[k + 1]), k + 1)
<1>1. PICK p : p = Order[k + 1]
  OBVIOUS
<1>2. p \in Providers /\ Rank(p) = k + 1
  <2>1. k + 1 \in 1..4 /\ k + 1 \in DOMAIN Order
    BY DEF Order
  <2> QED
    BY <1>1, <2>1, RankOf DEF Providers, ToSet
<1>3. {Order[i] : i \in 1..(k + 1)} = {Order[i] : i \in 1..k} \cup {p}
  BY <1>1
<1>4. CASE ~(p \in DOMAIN heard /\ heard[p] # Failed)
  <2>1. Success(p) = <<>> /\ AnsweredBy(k + 1) = AnsweredBy(k)
    BY <1>3, <1>4 DEF Success, AnsweredBy
  <2>2. s \o <<>> = s
    BY DEF InOrder
  <2> QED
    BY <1>1, <2>1, <2>2 DEF InOrder
<1>5. CASE p \in DOMAIN heard /\ heard[p] # Failed
  <2>1. Success(p) = <<p>> /\ AnsweredBy(k + 1) = AnsweredBy(k) \cup {p}
    BY <1>3, <1>5 DEF Success, AnsweredBy
  <2>2. s \o <<p>> = Append(s, p)
    <3>1. s \in Seq(Providers)
      BY DEF InOrder
    <3> QED
      BY <1>2, <3>1, AppendIsConcat
  <2>3. PICK t, n : t = Append(s, p) /\ n = Len(s)
    OBVIOUS
  <2>4. /\ t \in Seq(Providers) /\ n \in Nat /\ DOMAIN s = 1..n /\ DOMAIN t = 1..(n + 1) /\ t[n + 1] = p
        /\ \A i \in 1..n : t[i] = s[i]
    <3>1. s \in Seq(Providers)
      BY DEF InOrder
    <3> QED
      BY <1>2, <2>3, <3>1, Appended
  <2>5. \A i \in DOMAIN t : i \in 1..n \/ i = n + 1
    BY <2>4
  <2>6. ToSet(t) = ToSet(s) \cup {p}
    BY <2>4, <2>5 DEF ToSet
  <2>7. \A i \in 1..n : Rank(t[i]) \in 1..k
    BY <2>4 DEF InOrder
  <2>8. \A i \in DOMAIN t : Rank(t[i]) \in 1..(k + 1)
    <3> TAKE i \in DOMAIN t
    <3>1. CASE i \in 1..n
      <4>1. Rank(t[i]) \in 1..k
        BY <2>7, <3>1
      <4> QED
        BY <4>1
    <3>2. CASE i = n + 1
      <4>1. Rank(t[i]) = k + 1
        BY <1>2, <2>4, <3>2
      <4> QED
        BY <4>1
    <3> QED
      BY <2>5, <3>1, <3>2
  <2>9. \A i, j \in DOMAIN t : i < j => Rank(t[i]) < Rank(t[j])
    <3> TAKE i, j \in DOMAIN t
    <3> HAVE i < j
    <3>1. i \in 1..n
      BY <2>4, <2>5
    <3>2. CASE j \in 1..n
      BY <2>4, <3>1, <3>2 DEF InOrder
    <3>3. CASE j = n + 1
      <4>1. Rank(t[i]) \in 1..k
        BY <2>7, <3>1
      <4>2. Rank(t[j]) = k + 1
        BY <1>2, <2>4, <3>3
      <4> QED
        BY <4>1, <4>2
    <3> QED
      BY <2>5, <3>2, <3>3
  <2> QED
    BY <1>1, <2>1, <2>2, <2>3, <2>4, <2>6, <2>8, <2>9 DEF InOrder
<1> QED
  BY <1>4, <1>5

LEMMA SuccessfulIsInOrder == InOrder(Successful, 4)
<1>1. InOrder(<<>>, 0)
  BY DEF InOrder, AnsweredBy, ToSet
<1>0. 0 \in 0..3 /\ 1 \in 0..3 /\ 2 \in 0..3 /\ 3 \in 0..3 /\ 0 + 1 = 1 /\ 1 + 1 = 2 /\ 2 + 1 = 3 /\ 3 + 1 = 4
  OBVIOUS
<1>2. InOrder(<<>> \o Success(Order[1]), 1)
  <2>1. InOrder(<<>> \o Success(Order[0 + 1]), 0 + 1)
    BY <1>0, <1>1, NextAnswer
  <2> QED
    BY <1>0, <2>1
<1>3. <<>> \o Success(Order[1]) = Success(Order[1])
  BY DEF Success, Order
<1>4. InOrder(Success(Order[1]) \o Success(Order[2]), 2)
  BY <1>2, <1>3, NextAnswer
<1>5. InOrder(Success(Order[1]) \o Success(Order[2]) \o Success(Order[3]), 3)
  BY <1>4, NextAnswer
<1>6. InOrder(Success(Order[1]) \o Success(Order[2]) \o Success(Order[3]) \o Success(Order[4]), 4)
  BY <1>5, NextAnswer
<1> QED
  BY <1>6 DEF Successful

\* The combined answers are those that came, and there are some when one did.
LEMMA SuccessfulIs ==
  ASSUME HeardOK
  PROVE  /\ Successful \in Seq(Providers) /\ ToSet(Successful) = {p \in DOMAIN heard : heard[p] # Failed}
         /\ \A i, j \in DOMAIN Successful : i < j => Rank(Successful[i]) < Rank(Successful[j])
         /\ Successful = <<>> <=> \A p \in DOMAIN heard : heard[p] = Failed
<1>1. InOrder(Successful, 4)
  BY SuccessfulIsInOrder
<1>2. {Order[i] : i \in 1..4} = Providers
  BY DEF Providers, ToSet, Order
<1>3. AnsweredBy(4) = {p \in DOMAIN heard : heard[p] # Failed}
  BY <1>2 DEF AnsweredBy, HeardOK
<1>4. Successful \in Seq(Providers) /\ ToSet(Successful) = {p \in DOMAIN heard : heard[p] # Failed}
  BY <1>1, <1>3 DEF InOrder
<1>5. Successful = <<>> <=> ToSet(Successful) = {}
  <2>1. PICK s \in Seq(Providers) : s = Successful
    BY <1>4
  <2>2. s = <<>> => ToSet(s) = {}
    BY DEF ToSet
  <2>3. s # <<>> => s[1] \in ToSet(s)
    <3>1. s # <<>> => 1 \in DOMAIN s
      BY EmptySeq
    <3> QED
      BY <3>1 DEF ToSet
  <2> QED
    BY <2>1, <2>2, <2>3
<1> QED
  BY <1>1, <1>4, <1>5 DEF InOrder

-----------------------------------------------------------------------------
(* Infusion: every step keeps the invariant                                  *)

LEMMA InfusionStart == InfusionInit => InfusionInv
<1> SUFFICES ASSUME InfusionInit PROVE InfusionInv
  OBVIOUS
<1>1. stage = "out" /\ heard = <<>> /\ parts = <<>> /\ turn = 0 /\ chain = <<>> /\ DOMAIN heard = {}
  BY DEF InfusionInit
<1>2. HeardOK /\ ChainOK /\ DefinitiveIsClaudes
  BY <1>1 DEF HeardOK, ChainOK, DefinitiveIsClaudes
<1> QED
  BY <1>1, <1>2 DEF InfusionInv

\* A call that Infusion has no part in, and one that it begins.
LEMMA BeginInv ==
  ASSUME InfusionInv, CompleteByCli \/ CompleteWithTools \/ Broadcast
  PROVE  InfusionInv'
<1> USE DEF InfusionInv
<1>1. /\ stage = "out" /\ turn = 0 /\ chain = <<>> /\ parts = <<>>
      /\ heard' = heard /\ chain' = chain /\ turn' = turn /\ parts' = parts /\ infused' = infused
  BY DEF CompleteByCli, CompleteWithTools, Broadcast
<1>2. HeardOK' /\ ChainOK' /\ DefinitiveIsClaudes'
  BY <1>1 DEF HeardOK, ChainOK, DefinitiveIsClaudes
<1>3. CASE CompleteByCli
  <2>1. stage' = "done" /\ ~infused /\ answer' \in Raw
    BY <1>3 DEF CompleteByCli
  <2>2. answer'.as # "empty"
    <3>1. answer' = Failed \/ answer' = Text("claude", "nobody", "text")
      BY <2>1 DEF Raw, Outcomes
    <3>2. Failed.as # "empty"
      BY TextsAre
    <3>3. Text("claude", "nobody", "text").as # "empty"
      BY TextIs
    <3> QED
      BY <3>1, <3>2, <3>3
  <2> QED
    BY <1>1, <1>2, <2>1, <2>2
<1>4. CASE CompleteWithTools
  BY <1>1, <1>2, <1>4 DEF CompleteWithTools
<1>5. CASE Broadcast
  BY <1>1, <1>2, <1>5 DEF Broadcast
<1> QED
  BY <1>3, <1>4, <1>5

LEMMA CallProviderInv ==
  ASSUME InfusionInv, NEW p \in Providers, CallProvider(p)
  PROVE  InfusionInv'
<1> USE DEF InfusionInv
<1>1. /\ stage = "broadcast" /\ stage' = stage /\ infused' = infused
      /\ chain' = chain /\ turn' = turn /\ parts' = parts
  BY DEF CallProvider
<1>2. PICK t \in Outcomes(p, "nobody", "text") :
        heard' = [q \in DOMAIN heard \cup {p} |-> IF q = p THEN t ELSE heard[q]]
  BY DEF CallProvider
<1>3. t \in Texts /\ (t = Failed \/ Wrote(t, p))
  <2>1. "nobody" \in Authors /\ "text" \in Kinds \ {"empty"}
    BY DEF Authors, Kinds
  <2> QED
    BY <1>2, <2>1, OutcomesAre
<1>4. HeardOK'
  <2>1. DOMAIN heard' = DOMAIN heard \cup {p}
    BY <1>2
  <2>2. \A q \in DOMAIN heard' : heard'[q] \in Texts /\ (heard'[q] = Failed \/ Wrote(heard'[q], q))
    <3> TAKE q \in DOMAIN heard'
    <3>1. CASE q = p
      BY <1>2, <1>3, <3>1
    <3>2. CASE q # p
      BY <1>2, <2>1, <3>2 DEF HeardOK
    <3> QED
      BY <3>1, <3>2
  <2> QED
    BY <2>1, <2>2 DEF HeardOK
<1>5. ChainOK' /\ DefinitiveIsClaudes'
  BY <1>1 DEF ChainOK, DefinitiveIsClaudes
<1> QED
  BY <1>1, <1>4, <1>5

LEMMA CombineInv ==
  ASSUME InfusionInv, Combine
  PROVE  InfusionInv'
<1> USE DEF InfusionInv
<1>1. /\ stage = "broadcast" /\ infused /\ turn = 0 /\ chain = <<>> /\ parts' = Successful
      /\ heard' = heard /\ chain' = chain /\ turn' = turn /\ infused' = infused
  BY DEF Combine
<1>2. HeardOK' /\ ChainOK' /\ DefinitiveIsClaudes'
  BY <1>1 DEF HeardOK, ChainOK, DefinitiveIsClaudes
<1>3. Successful' = Successful
  BY <1>1 DEF Successful, Success
<1>4. CASE Successful = <<>>
  <2>1. stage' = "done" /\ answer' = Apology
    BY <1>4 DEF Combine
  <2> QED
    BY <1>1, <1>2, <1>3, <1>4, <2>1, TextsAre
<1>5. CASE Successful # <<>>
  <2>1. PICK s \in Seq(Providers) : s = Successful
    BY SuccessfulIs
  <2>2. /\ stage' = "refine" /\ parts' = s
        /\ current' = IF Len(s) = 1 THEN heard[s[1]] ELSE Synthesis
    BY <1>1, <1>5, <2>1 DEF Combine
  <2>3. s[1] \in ToSet(s)
    <3>1. 1 \in DOMAIN s
      BY <1>5, <2>1, EmptySeq
    <3> QED
      BY <3>1 DEF ToSet
  <2>4. s[1] \in DOMAIN heard /\ heard[s[1]] # Failed
    BY <2>1, <2>3, SuccessfulIs
  <2>5. heard[s[1]] \in Texts /\ Sound(heard[s[1]])
    BY <2>4 DEF HeardOK, Sound
  <2>6. current' \in Texts /\ Sound(current')
    BY <2>2, <2>5, TextsAre DEF Sound
  <2>7. Refiners' = {} /\ current' = Base'
    BY <1>1, <2>2 DEF Refiners, Base
  <2>8. Refined'
    BY <1>1, <1>3, <1>5, <2>6, <2>7 DEF Refined, Standing, Rewritten
  <2> QED
    BY <1>1, <1>2, <2>2, <2>8
<1> QED
  BY <1>4, <1>5

\* A step that leaves the chain and what is combined alone.
LEMMA RefinedStays ==
  ASSUME Refined, infused' = infused, heard' = heard, parts' = parts, current' = current, chain' = chain
  PROVE  Refined'
<1>1. Successful' = Successful /\ Refiners' = Refiners /\ Base' = Base
  BY DEF Successful, Success, Refiners, Base
<1> QED
  BY <1>1 DEF Refined, Standing, Rewritten

\* The chain with one more step, whose author is p and whose text is t.
LEMMA ChainGrows ==
  ASSUME ChainOK, NEW p \in Providers, NEW t \in Texts, t = Failed \/ Wrote(t, p),
         turn < 4, turn' = turn + 1, chain' = Append(chain, [by |-> p, text |-> t])
  PROVE  /\ ChainOK' /\ Len(chain) \in Nat /\ Len(chain') = Len(chain) + 1
         /\ DOMAIN chain = 1..Len(chain) /\ DOMAIN chain' = 1..(Len(chain) + 1)
         /\ chain'[Len(chain) + 1].by = p /\ chain'[Len(chain) + 1].text = t
         /\ \A i \in 1..Len(chain) : chain'[i] = chain[i]
<1>1. PICK n \in Nat : n = Len(chain)
  BY DEF ChainOK
<1>2. PICK l \in Links : l = [by |-> p, text |-> t] /\ l.by = p /\ l.text = t
  BY DEF Links
<1>3. chain \in Seq(Links)
  BY DEF ChainOK
<1>4. /\ chain' \in Seq(Links) /\ Len(chain') = n + 1 /\ chain'[n + 1] = l
      /\ \A i \in 1..n : chain'[i] = chain[i]
  BY <1>1, <1>2, <1>3, Appended
<1>5. DOMAIN chain = 1..n /\ DOMAIN chain' = 1..(n + 1)
  BY <1>1, <1>3, <1>4
<1>6. \A i \in DOMAIN chain' : chain'[i].text = Failed \/ Wrote(chain'[i].text, chain'[i].by)
  <2> TAKE i \in DOMAIN chain'
  <2>1. CASE i = n + 1
    BY <1>2, <1>4, <2>1
  <2>2. CASE i \in 1..n
    BY <1>4, <1>5, <2>2 DEF ChainOK
  <2> QED
    BY <1>5, <2>1, <2>2
<1>7. turn' \in 0..4 /\ Len(chain') <= turn'
  BY <1>1, <1>4 DEF ChainOK
<1>8. ChainOK'
  BY <1>4, <1>6, <1>7 DEF ChainOK
<1> QED
  BY <1>1, <1>2, <1>4, <1>5, <1>8

LEMMA RefineInv ==
  ASSUME InfusionInv, Refine
  PROVE  InfusionInv'
<1> USE DEF InfusionInv
<1>1. PICK p, as : p = RefinementOrder[turn + 1] /\ as = (IF Len(chain) < 3 THEN "refined" ELSE "definitive")
  OBVIOUS
<1>2. /\ stage = "refine" /\ turn < 4 /\ turn' = turn + 1
      /\ heard' = heard /\ stage' = stage /\ infused' = infused /\ parts' = parts
  BY DEF Refine, RefinementOrder
<1>3. turn \in 0..3 /\ Refined /\ Len(chain) <= turn /\ Len(chain) \in Nat
  BY <1>2 DEF ChainOK
<1>4. p \in Providers /\ (turn = 3 => p = "claude")
  BY <1>1, <1>3, ProvidersAre DEF RefinementOrder
<1>5. as \in {"refined", "definitive"} /\ (as = "definitive" => Len(chain) = 3 /\ turn = 3)
  <2>1. CASE Len(chain) < 3
    BY <1>1, <2>1
  <2>2. CASE ~(Len(chain) < 3)
    <3>1. as = "definitive"
      BY <1>1, <2>2
    <3>2. PICK n \in Nat, k \in 0..3 : n = Len(chain) /\ k = turn
      BY <1>3
    <3>3. n <= k /\ ~(n < 3)
      BY <1>3, <2>2, <3>2
    <3>4. n = 3 /\ k = 3
      BY <3>3
    <3> QED
      BY <3>1, <3>2, <3>4
  <2> QED
    BY <2>1, <2>2
<1>6. HeardOK'
  BY <1>2 DEF HeardOK
<1>7. CASE UNCHANGED <<current, chain>>
  <2>1. Refined'
    BY <1>2, <1>3, <1>7, RefinedStays
  <2>2. ChainOK' /\ DefinitiveIsClaudes'
    BY <1>2, <1>3, <1>7 DEF ChainOK, DefinitiveIsClaudes
  <2> QED
    BY <1>2, <1>6, <2>1, <2>2
<1>8. ASSUME NEW t \in Outcomes(p, current.by, as),
             chain' = Append(chain, [by |-> p, text |-> t]), current' = Kept(t)
      PROVE  InfusionInv'
  <2>1. /\ t \in Texts /\ (t = Failed \/ (Wrote(t, p) /\ t # Failed))
        /\ t # Failed => t.over = current.by /\ t.as \in {as, "empty"}
    <3>1. current.by \in Authors /\ as \in Kinds \ {"empty"}
      BY <1>3, <1>5 DEF Refined, Texts, Kinds
    <3>2. t \in Texts /\ (t = Failed \/ (Wrote(t, p) /\ t # Failed /\ t.over = current.by /\ t.as \in {as, "empty"}))
      BY <1>4, <1>8, <3>1, OutcomesAre
    <3> QED
      BY <3>2
  <2>2. PICK n \in Nat : n = Len(chain)
    BY <1>3
  <2>3. /\ ChainOK' /\ Len(chain') = n + 1 /\ DOMAIN chain = 1..n /\ DOMAIN chain' = 1..(n + 1)
        /\ chain'[n + 1].by = p /\ chain'[n + 1].text = t /\ \A i \in 1..n : chain'[i] = chain[i]
    BY <1>2, <1>4, <1>8, <2>1, <2>2, ChainGrows
  <2>4. DefinitiveIsClaudes'
    <3> SUFFICES ASSUME NEW i \in 1..(n + 1), chain'[i].text.as = "definitive"
                 PROVE  chain'[i].by = "claude" /\ Len(chain') = 4
      BY <2>3 DEF DefinitiveIsClaudes
    <3>1. CASE i \in 1..n
      <4>1. Len(chain) = 4
        BY <2>3, <3>1 DEF DefinitiveIsClaudes
      <4> QED
        BY <1>3, <4>1
    <3>2. CASE i = n + 1
      <4>1. t.as = "definitive"
        BY <2>3, <3>2
      <4>2. t # Failed
        BY <4>1, TextsAre
      <4>3. as = "definitive"
        BY <2>1, <4>1, <4>2
      <4>4. n = 3 /\ p = "claude"
        BY <1>4, <1>5, <2>2, <4>3
      <4> QED
        BY <2>2, <2>3, <3>2, <4>4
    <3> QED
      BY <3>1, <3>2
  <2>5. Successful' = Successful /\ Base' = Base
    BY <1>2 DEF Successful, Success, Base
  <2>6. /\ \A i \in Refiners : i \in 1..n /\ chain'[i] = chain[i]
        /\ Refiners' = IF t = Failed THEN Refiners ELSE Refiners \cup {n + 1}
    <3>1. \A i \in 1..n : i \in Refiners' <=> i \in Refiners
      BY <2>3 DEF Refiners
    <3>2. n + 1 \in Refiners' <=> t # Failed
      BY <2>3 DEF Refiners
    <3>3. Refiners \subseteq 1..n /\ Refiners' \subseteq 1..(n + 1) /\ n + 1 \notin Refiners
      BY <2>3 DEF Refiners
    <3>4. \A i \in 1..(n + 1) : i \in 1..n \/ i = n + 1
      OBVIOUS
    <3>5. \A i \in Refiners' : i \in Refiners \/ (i = n + 1 /\ t # Failed)
      BY <3>1, <3>2, <3>3, <3>4
    <3>6. \A i \in Refiners : i \in Refiners' /\ i \in 1..n
      BY <3>1, <3>3
    <3>7. CASE t = Failed
      BY <2>3, <3>5, <3>6, <3>7
    <3>8. CASE t # Failed
      BY <2>3, <3>2, <3>5, <3>6, <3>8
    <3> QED
      BY <3>7, <3>8
  <2>7. CASE t = Failed
    <3>1. current' = current /\ Refiners' = Refiners
      BY <1>8, <2>6, <2>7 DEF Kept
    <3>2. Standing' /\ Rewritten'
      BY <1>3, <2>5, <2>6, <3>1 DEF Refined, Standing, Rewritten
    <3>3. Refined'
      BY <1>2, <1>3, <2>5, <3>1, <3>2 DEF Refined
    <3> QED
      BY <1>2, <1>6, <2>3, <2>4, <3>3
  <2>8. CASE t # Failed
    <3>1. current' = t /\ Refiners' = Refiners \cup {n + 1}
      BY <1>8, <2>6, <2>8 DEF Kept
    <3>2. \A k \in Refiners' : k \in Nat /\ k <= n + 1
      BY <2>6, <3>1
    <3>3. Standing'
      BY <2>3, <3>1, <3>2 DEF Standing
    <3>4. Rewritten'
      <4> SUFFICES ASSUME NEW i \in Refiners', NEW j \in Refiners',
                          i < j, \A k \in Refiners' : k <= i \/ j <= k
                   PROVE  chain'[j].text.over = chain'[i].by
        BY DEF Rewritten
      <4>1. i \in Refiners /\ i \in 1..n
        BY <2>6, <3>1, <3>2
      <4>2. CASE j \in Refiners
        <5>1. \A k \in Refiners : k <= i \/ j <= k
          BY <3>1
        <5> QED
          BY <1>3, <2>6, <4>1, <4>2, <5>1 DEF Refined, Rewritten
      <4>3. CASE j = n + 1
        <5>1. \A k \in Refiners : k <= i
          BY <2>6, <3>1, <4>3
        <5>2. PICK m \in Refiners : (\A k \in Refiners : k <= m) /\ current = chain[m].text
          BY <1>3, <4>1 DEF Refined, Standing
        <5>3. m = i
          BY <2>6, <4>1, <5>1, <5>2
        <5>4. current # Failed /\ Wrote(chain[i].text, chain[i].by)
          BY <2>3, <4>1, <5>2, <5>3 DEF Refiners, ChainOK
        <5> QED
          BY <2>1, <2>3, <2>6, <2>8, <4>1, <4>3, <5>2, <5>3, <5>4 DEF Wrote
      <4> QED
        BY <3>1, <4>2, <4>3
    <3>5. Refined'
      BY <1>2, <1>3, <1>4, <2>1, <2>5, <2>8, <3>1, <3>3, <3>4 DEF Refined, Sound
    <3> QED
      BY <1>2, <1>6, <2>3, <2>4, <3>5
  <2> QED
    BY <2>7, <2>8
<1>9. UNCHANGED <<current, chain>> \/ \E t \in Outcomes(p, current.by, as) :
         chain' = Append(chain, [by |-> p, text |-> t]) /\ current' = Kept(t)
  BY <1>1 DEF Refine
<1> QED
  BY <1>7, <1>8, <1>9

\* The end of the refinement, and the binary that comes and goes.
LEMMA EndInv ==
  ASSUME InfusionInv, Conclude \/ Reinstall \/ UNCHANGED infusionVars
  PROVE  InfusionInv'
<1> USE DEF InfusionInv
<1>1. /\ heard' = heard /\ chain' = chain /\ turn' = turn /\ parts' = parts
      /\ infused' = infused /\ current' = current
  BY DEF Conclude, Reinstall, infusionVars
<1>2. HeardOK' /\ ChainOK' /\ DefinitiveIsClaudes' /\ Successful' = Successful
  BY <1>1 DEF HeardOK, ChainOK, DefinitiveIsClaudes, Successful, Success
<1>3. Refined => Refined'
  BY <1>1, RefinedStays
<1>4. CASE Conclude
  <2>1. stage = "refine" /\ stage' = "done" /\ answer' = current /\ Refined
    BY <1>4 DEF Conclude
  <2>2. parts' # <<>>
    BY <1>1, <2>1 DEF Refined
  <2> QED
    BY <1>1, <1>2, <1>3, <2>1, <2>2
<1>5. CASE Reinstall \/ UNCHANGED infusionVars
  <2>1. stage' = stage /\ answer' = answer
    BY <1>5 DEF Reinstall, infusionVars
  <2> QED
    BY <1>1, <1>2, <1>3, <2>1
<1> QED
  BY <1>4, <1>5

\* The inductive invariant of a call that goes to Infusion (infusion/engine.py): what was
\* heard and combined, the chain, and the text that stands, whichever provider fails.
THEOREM InfusionInvariant == InfusionSpec => []InfusionInv
<1>1. InfusionInv /\ [InfusionNext]_infusionVars => InfusionInv'
  BY BeginInv, CallProviderInv, CombineInv, RefineInv, EndInv DEF InfusionNext
<1> QED
  BY <1>1, InfusionStart, PTL DEF InfusionSpec

LEMMA LastRefinerHolds == InfusionInv => LastRefinerWins
<1> SUFFICES ASSUME InfusionInv, stage = "done", parts # <<>> PROVE LastRefinerWins
  BY DEF LastRefinerWins
<1>1. Refined /\ answer = current
  BY DEF InfusionInv
<1>2. CASE Refiners = {}
  <2>1. answer = Base
    BY <1>1, <1>2 DEF Refined, Standing
  <2> QED
    BY <1>1, <1>2, <2>1 DEF Refined, Rewritten, LastRefinerWins, Base
<1>3. CASE Refiners # {}
  <2>1. PICK i \in Refiners : (\A k \in Refiners : k <= i) /\ answer = chain[i].text
    BY <1>1, <1>3 DEF Refined, Standing
  <2>2. \A k \in Refiners : k \in Nat
    BY DEF Refiners, InfusionInv, ChainOK
  <2>3. PICK m : m = Max(Refiners)
    OBVIOUS
  <2>4. m \in Refiners /\ \A k \in Refiners : m >= k
    BY <2>1, <2>2, <2>3 DEF Max
  <2>5. m = i
    BY <2>1, <2>2, <2>4
  <2> QED
    BY <1>1, <1>3, <2>1, <2>3, <2>5 DEF Refined, Rewritten, LastRefinerWins
<1> QED
  BY <1>2, <1>3

LEMMA OrderHolds == InfusionInv => OrderIsFixed
<1> SUFFICES ASSUME InfusionInv, stage = "refine" PROVE OrderIsFixed
  BY DEF OrderIsFixed
<1>1. parts = Successful /\ HeardOK
  BY DEF InfusionInv, Refined
<1> QED
  BY <1>1, SuccessfulIs DEF OrderIsFixed

LEMMA EmptyHolds == InfusionInv => EmptyIsNotClaudes
<1> SUFFICES ASSUME InfusionInv, stage = "done", answer.as = "empty"
             PROVE  answer.by # "claude" /\ (chain # <<>> => Last(chain).by # "claude" \/ Last(chain).text = Failed)
  BY DEF EmptyIsNotClaudes
<1>1. parts # <<>> /\ Refined /\ answer = current
  BY DEF InfusionInv
<1>2. answer.by # "claude"
  BY <1>1, SoundIsNoFailure DEF Refined
<1>3. ASSUME chain # <<>>, Last(chain).text # Failed PROVE Last(chain).by # "claude"
  <2>1. PICK n : n = Len(chain)
    OBVIOUS
  <2>2. n \in DOMAIN chain /\ Last(chain) = chain[n] /\ \A k \in DOMAIN chain : k \in Nat /\ k <= n
    <3>1. chain \in Seq(Links)
      BY DEF InfusionInv, ChainOK
    <3>2. n \in Nat /\ n > 0 /\ DOMAIN chain = 1..n
      BY <1>3, <2>1, <3>1, EmptySeq
    <3> QED
      BY <2>1, <3>2 DEF Last
  <2>3. n \in Refiners /\ \A k \in Refiners : k \in Nat /\ k <= n
    BY <1>3, <2>2 DEF Refiners
  <2>4. PICK i \in Refiners : (\A k \in Refiners : k <= i) /\ current = chain[i].text
    BY <1>1, <2>3 DEF Refined, Standing
  <2>5. i = n
    BY <2>3, <2>4
  <2>6. Wrote(chain[n].text, chain[n].by)
    BY <1>3, <2>2 DEF InfusionInv, ChainOK
  <2> QED
    BY <1>1, <2>2, <2>4, <2>5, <2>6 DEF Wrote
<1> QED
  BY <1>2, <1>3

LEMMA FailureHolds == InfusionInv => FailureIsSpoken
<1> SUFFICES ASSUME InfusionInv, stage = "done", infused
             PROVE  answer # Failed /\ (answer = Apology <=> \A p \in DOMAIN heard : heard[p] = Failed)
  BY DEF FailureIsSpoken
<1>1. HeardOK
  BY DEF InfusionInv
<1>2. CASE parts = <<>>
  <2>1. answer = Apology /\ Successful = <<>>
    BY <1>2 DEF InfusionInv
  <2>2. Apology # Failed
    BY TextsAre
  <2> QED
    BY <1>1, <2>1, <2>2, SuccessfulIs
<1>3. CASE parts # <<>>
  <2>1. Refined /\ answer = current
    BY <1>3 DEF InfusionInv
  <2>2. answer # Failed /\ answer # Apology /\ Successful # <<>>
    BY <1>3, <2>1, SoundIsNoFailure DEF Refined
  <2> QED
    BY <1>1, <2>2, SuccessfulIs
<1> QED
  BY <1>2, <1>3

\* Whichever providers are there, fail, or answer nothing, in whatever order they come
\* back: the answer is the last successful refinement over what the broadcast gave, and a
\* failure reaches no caller as an answer but as the apology.
THEOREM InfusionHoldsAlways == InfusionSpec => []InfusionHolds
<1>1. InfusionInv => InfusionHolds
  BY LastRefinerHolds, OrderHolds, EmptyHolds, FailureHolds DEF InfusionInv, InfusionHolds
<1> QED
  BY <1>1, InfusionInvariant, PTL
=============================================================================
