-------------------------------- MODULE Sums --------------------------------
(***************************************************************************)
(* Lemmas on finite sets: the sum of a function over one, the greatest and *)
(* the least of its values, the maximum of a set of indices.               *)
(* MapThenSumSet is a recursive function that takes one chosen element     *)
(* after the other; what the proofs need is that the choice does not       *)
(* matter: an element, any one, contributes its own value.  Induction over *)
(* a finite set is done on a minimal counterexample (WFMin).               *)
(***************************************************************************)
EXTENDS FiniteSetsExt, Integers, FiniteSetTheorems, WellFoundedInduction, TLAPS

SumOver(f, S) == MapThenSumSet(LAMBDA x : f[x], S)

Pick(s) == CHOOSE x \in s : TRUE

\* g[s] is the value the recursion computes for each subset s of S.
Sums(g, f, S) ==
  g = [s \in SUBSET S |-> IF s = {} THEN 0 ELSE f[Pick(s)] + g[s \ {Pick(s)}]]

SumsOf(f, S) == CHOOSE g : Sums(g, f, S)

LEMMA PickIn == ASSUME NEW s, s # {} PROVE Pick(s) \in s
BY DEF Pick

\* A set of subsets of a finite set has a minimal element.
LEMMA MinimalSubset ==
  ASSUME NEW S, IsFiniteSet(S), NEW B \in SUBSET (SUBSET S), B # {}
  PROVE  \E T \in B : \A U \in B : U \subseteq T => U = T
<1>1. FiniteSubsetsOf(S) = SUBSET S
  BY FS_FiniteSubsetsOfFinite
<1>2. IsWellFoundedOn(StrictSubsetOrdering(S), SUBSET S)
  BY <1>1, FS_StrictSubsetOrderingWellFounded
<1>3. PICK T \in B : \A U \in B : ~(<<U, T>> \in StrictSubsetOrdering(S))
  BY <1>2, WFMin
<1>4. ASSUME NEW U \in B, U \subseteq T
      PROVE  U = T
  BY <1>3, <1>4 DEF StrictSubsetOrdering
<1> QED
  BY <1>4

LEMMA SumsAgree ==
  ASSUME NEW S, IsFiniteSet(S), NEW T, NEW f, NEW g, NEW h,
         Sums(g, f, S), Sums(h, f, T), T \subseteq S
  PROVE  \A s \in SUBSET T : g[s] = h[s]
<1> DEFINE B == {s \in SUBSET T : g[s] # h[s]}
<1> SUFFICES ASSUME B # {} PROVE FALSE
  OBVIOUS
<1>1. PICK s \in B : \A u \in B : u \subseteq s => u = s
  <2>1. B \in SUBSET (SUBSET S)
    OBVIOUS
  <2> HIDE DEF B
  <2> QED
    BY <2>1, MinimalSubset
<1>2. s # {}
  BY DEF Sums
<1>3. Pick(s) \in s
  BY <1>2, PickIn
<1> DEFINE u == s \ {Pick(s)}
<1>4. u \in SUBSET T /\ u \subseteq s /\ u # s
  BY <1>3
<1>5. g[u] = h[u]
  BY <1>1, <1>4
<1>6. g[s] = f[Pick(s)] + g[u] /\ h[s] = f[Pick(s)] + h[u]
  BY <1>2 DEF Sums
<1> QED
  BY <1>5, <1>6

LEMMA SumsExist ==
  ASSUME NEW S, IsFiniteSet(S), NEW f
  PROVE  \E g : Sums(g, f, S)
<1> DEFINE B == {T \in SUBSET S : ~ \E g : Sums(g, f, T)}
<1>1. S \in B => B # {}
  OBVIOUS
<1> SUFFICES ASSUME B # {} PROVE FALSE
  BY <1>1
<1>2. PICK T \in B : \A U \in B : U \subseteq T => U = T
  <2>1. B \in SUBSET (SUBSET S)
    OBVIOUS
  <2> HIDE DEF B
  <2> QED
    BY <2>1, MinimalSubset
<1>3. IsFiniteSet(T) /\ \A U \in SUBSET T : IsFiniteSet(U)
  BY FS_Subset
<1>4. ASSUME NEW U \in SUBSET T, U # T
      PROVE  Sums(SumsOf(f, U), f, U)
  <2>1. \E g : Sums(g, f, U)
    BY <1>2, <1>4
  <2> QED
    BY <2>1, Zenon DEF SumsOf
<1> DEFINE g == [s \in SUBSET T |->
                   IF s = {} THEN 0
                   ELSE f[Pick(s)] + SumsOf(f, s \ {Pick(s)})[s \ {Pick(s)}]]
<1>5. ASSUME NEW s \in SUBSET T, s # {}
      PROVE  g[s \ {Pick(s)}] = SumsOf(f, s \ {Pick(s)})[s \ {Pick(s)}]
  <2> DEFINE u == s \ {Pick(s)}
  <2>1. u \in SUBSET T /\ u # T
    BY <1>5, PickIn
  <2>2. Sums(SumsOf(f, u), f, u)
    BY <1>4, <2>1
  <2>3. CASE u = {}
    BY <2>2, <2>3 DEF Sums
  <2>4. CASE u # {}
    <3> DEFINE v == u \ {Pick(u)}
    <3>1. v \in SUBSET T /\ v # T /\ v \subseteq u
      BY <2>1
    <3>2. Sums(SumsOf(f, v), f, v)
      BY <1>4, <3>1
    <3>3. SumsOf(f, u)[v] = SumsOf(f, v)[v]
      BY <1>3, <2>1, <2>2, <3>1, <3>2, SumsAgree
    <3>4. SumsOf(f, u)[u] = f[Pick(u)] + SumsOf(f, u)[v]
      <4> HIDE DEF u
      <4> QED
        BY <2>2, <2>4 DEF Sums
    <3>5. g[u] = f[Pick(u)] + SumsOf(f, v)[v]
      BY <2>1, <2>4
    <3> QED
      BY <3>3, <3>4, <3>5
  <2> QED
    BY <2>3, <2>4
<1>6. Sums(g, f, T)
  <2>1. \A s \in SUBSET T :
          g[s] = IF s = {} THEN 0 ELSE f[Pick(s)] + g[s \ {Pick(s)}]
    BY <1>5
  <2> QED
    BY <2>1 DEF Sums
<1> QED
  BY <1>2, <1>6

LEMMA SumOverDef ==
  ASSUME NEW f, NEW S
  PROVE  SumOver(f, S) = SumsOf(f, S)[S]
BY DEF SumOver, MapThenSumSet, MapThenFoldSet, SumsOf, Sums, Pick

LEMMA SumsOfSums ==
  ASSUME NEW f, NEW S, IsFiniteSet(S)
  PROVE  Sums(SumsOf(f, S), f, S)
BY SumsExist, Zenon DEF SumsOf

LEMMA SumEmpty ==
  ASSUME NEW f
  PROVE  SumOver(f, {}) = 0
<1>1. Sums(SumsOf(f, {}), f, {})
  BY SumsOfSums, FS_EmptySet
<1>2. SumsOf(f, {})[{}] = 0
  BY <1>1 DEF Sums
<1> QED
  BY <1>2, SumOverDef

LEMMA SumPick ==
  ASSUME NEW f, NEW S, IsFiniteSet(S), S # {}
  PROVE  SumOver(f, S) = f[Pick(S)] + SumOver(f, S \ {Pick(S)})
<1> DEFINE T == S \ {Pick(S)}
<1>1. T \subseteq S /\ IsFiniteSet(T)
  BY FS_Subset
<1>2. Sums(SumsOf(f, S), f, S) /\ Sums(SumsOf(f, T), f, T)
  BY <1>1, SumsOfSums
<1>3. SumsOf(f, S)[T] = SumsOf(f, T)[T]
  BY <1>1, <1>2, SumsAgree
<1>4. SumsOf(f, S)[S] = f[Pick(S)] + SumsOf(f, S)[T]
  BY <1>2 DEF Sums
<1> QED
  BY <1>3, <1>4, SumOverDef

\* The sum of integers is an integer.
LEMMA SumInt ==
  ASSUME NEW f, NEW S, IsFiniteSet(S), \A x \in S : f[x] \in Int
  PROVE  SumOver(f, S) \in Int
<1> DEFINE B == {T \in SUBSET S : SumOver(f, T) \notin Int}
<1>1. S \in B => B # {}
  OBVIOUS
<1> SUFFICES ASSUME B # {} PROVE FALSE
  BY <1>1
<1>2. PICK T \in B : \A U \in B : U \subseteq T => U = T
  <2>1. B \in SUBSET (SUBSET S)
    OBVIOUS
  <2> HIDE DEF B
  <2> QED
    BY <2>1, MinimalSubset
<1>3. T # {}
  BY SumEmpty
<1>4. Pick(T) \in T /\ IsFiniteSet(T)
  BY <1>3, PickIn, FS_Subset
<1>5. SumOver(f, T \ {Pick(T)}) \in Int
  BY <1>2, <1>4
<1> QED
  BY <1>3, <1>4, <1>5, SumPick

\* The sum of nothing but zeros.
LEMMA SumZero ==
  ASSUME NEW f, NEW S, IsFiniteSet(S), \A x \in S : f[x] = 0
  PROVE  SumOver(f, S) = 0
<1> DEFINE B == {T \in SUBSET S : SumOver(f, T) # 0}
<1>1. S \in B => B # {}
  OBVIOUS
<1> SUFFICES ASSUME B # {} PROVE FALSE
  BY <1>1
<1>2. PICK T \in B : \A U \in B : U \subseteq T => U = T
  <2>1. B \in SUBSET (SUBSET S)
    OBVIOUS
  <2> HIDE DEF B
  <2> QED
    BY <2>1, MinimalSubset
<1>3. T # {}
  BY SumEmpty
<1>4. Pick(T) \in T /\ IsFiniteSet(T)
  BY <1>3, PickIn, FS_Subset
<1>5. SumOver(f, T \ {Pick(T)}) = 0 /\ f[Pick(T)] = 0
  BY <1>2, <1>4
<1> QED
  BY <1>2, <1>3, <1>4, <1>5, SumPick

\* Any element can be taken out of the sum.
LEMMA SumRemove ==
  ASSUME NEW f, NEW S, IsFiniteSet(S), NEW x \in S, \A y \in S : f[y] \in Int
  PROVE  SumOver(f, S) = f[x] + SumOver(f, S \ {x})
<1> DEFINE B == {T \in SUBSET S :
                   \E y \in T : SumOver(f, T) # f[y] + SumOver(f, T \ {y})}
<1>1. SumOver(f, S) # f[x] + SumOver(f, S \ {x}) => B # {}
  OBVIOUS
<1> SUFFICES ASSUME B # {} PROVE FALSE
  BY <1>1
<1>2. PICK T \in B : \A U \in B : U \subseteq T => U = T
  <2>1. B \in SUBSET (SUBSET S)
    OBVIOUS
  <2> HIDE DEF B
  <2> QED
    BY <2>1, MinimalSubset
<1>3. PICK y \in T : SumOver(f, T) # f[y] + SumOver(f, T \ {y})
  OBVIOUS
<1> DEFINE p == Pick(T)
<1>4. p \in T /\ \A U \in SUBSET T : IsFiniteSet(U)
  BY PickIn, FS_Subset
<1>5. SumOver(f, T) = f[p] + SumOver(f, T \ {p})
  BY <1>4, SumPick
<1>6. p # y
  BY <1>3, <1>5
<1>7. SumOver(f, T \ {p}) = f[y] + SumOver(f, (T \ {p}) \ {y})
  <2>1. T \ {p} \notin B /\ y \in T \ {p}
    BY <1>2, <1>4, <1>6
  <2> QED
    BY <2>1
<1>8. SumOver(f, T \ {y}) = f[p] + SumOver(f, (T \ {y}) \ {p})
  <2>1. T \ {y} \notin B /\ p \in T \ {y}
    BY <1>2, <1>4, <1>6
  <2> QED
    BY <2>1
<1>9. (T \ {p}) \ {y} = (T \ {y}) \ {p}
  OBVIOUS
<1>10. /\ f[p] \in Int /\ f[y] \in Int
       /\ SumOver(f, (T \ {p}) \ {y}) \in Int
  BY <1>4, SumInt
<1> HIDE DEF B, p
<1>11. SumOver(f, T) = f[p] + (f[y] + SumOver(f, (T \ {p}) \ {y}))
  BY <1>5, <1>7
<1>12. f[y] + SumOver(f, T \ {y}) = f[y] + (f[p] + SumOver(f, (T \ {p}) \ {y}))
  BY <1>8, <1>9
<1> QED
  BY <1>3, <1>10, <1>11, <1>12

LEMMA SumAdd ==
  ASSUME NEW f, NEW S, IsFiniteSet(S), NEW x, x \notin S,
         f[x] \in Int, \A y \in S : f[y] \in Int
  PROVE  SumOver(f, S \cup {x}) = f[x] + SumOver(f, S)
<1>1. IsFiniteSet(S \cup {x}) /\ (S \cup {x}) \ {x} = S
  BY FS_AddElement
<1> QED
  BY <1>1, SumRemove

\* Functions that agree on the set have the same sum.
LEMMA SumSame ==
  ASSUME NEW f, NEW g, NEW S, IsFiniteSet(S), \A x \in S : f[x] = g[x]
  PROVE  SumOver(f, S) = SumOver(g, S)
<1> DEFINE B == {T \in SUBSET S : SumOver(f, T) # SumOver(g, T)}
<1>1. S \in B => B # {}
  OBVIOUS
<1> SUFFICES ASSUME B # {} PROVE FALSE
  BY <1>1
<1>2. PICK T \in B : \A U \in B : U \subseteq T => U = T
  <2>1. B \in SUBSET (SUBSET S)
    OBVIOUS
  <2> HIDE DEF B
  <2> QED
    BY <2>1, MinimalSubset
<1>3. T # {}
  BY SumEmpty
<1>4. Pick(T) \in T /\ IsFiniteSet(T)
  BY <1>3, PickIn, FS_Subset
<1>5. SumOver(f, T \ {Pick(T)}) = SumOver(g, T \ {Pick(T)})
  BY <1>2, <1>4
<1>6. f[Pick(T)] = g[Pick(T)]
  BY <1>4
<1>7. SumOver(f, T) # SumOver(g, T)
  BY <1>2
<1>8. SumOver(f, T) = f[Pick(T)] + SumOver(f, T \ {Pick(T)})
  BY <1>3, <1>4, SumPick
<1>9. SumOver(g, T) = g[Pick(T)] + SumOver(g, T \ {Pick(T)})
  BY <1>3, <1>4, SumPick
<1> HIDE DEF B
<1> QED
  BY <1>5, <1>6, <1>7, <1>8, <1>9

\* Where one value changes by d, so does the sum.
LEMMA SumChange ==
  ASSUME NEW f, NEW g, NEW S, IsFiniteSet(S), NEW x \in S,
         \A y \in S : f[y] \in Int, g[x] \in Int,
         \A y \in S : y # x => g[y] = f[y]
  PROVE  SumOver(g, S) = SumOver(f, S) + (g[x] - f[x])
<1>1. SumOver(f, S) = f[x] + SumOver(f, S \ {x})
  BY SumRemove
<1>2. SumOver(g, S) = g[x] + SumOver(g, S \ {x})
  BY SumRemove
<1>3. IsFiniteSet(S \ {x})
  BY FS_Subset
<1>4. SumOver(f, S \ {x}) = SumOver(g, S \ {x})
  BY <1>3, SumSame
<1>5. SumOver(f, S \ {x}) \in Int /\ f[x] \in Int
  BY <1>3, SumInt
<1> QED
  BY <1>1, <1>2, <1>4, <1>5

\* The sum of natural numbers is a natural number.
LEMMA SumNat ==
  ASSUME NEW f, NEW S, IsFiniteSet(S), \A x \in S : f[x] \in Nat
  PROVE  SumOver(f, S) \in Nat
<1> DEFINE B == {T \in SUBSET S : SumOver(f, T) \notin Nat}
<1>1. S \in B => B # {}
  OBVIOUS
<1> SUFFICES ASSUME B # {} PROVE FALSE
  BY <1>1
<1>2. PICK T \in B : \A U \in B : U \subseteq T => U = T
  <2>1. B \in SUBSET (SUBSET S)
    OBVIOUS
  <2> HIDE DEF B
  <2> QED
    BY <2>1, MinimalSubset
<1>3. T # {}
  BY SumEmpty
<1>4. Pick(T) \in T /\ IsFiniteSet(T)
  BY <1>3, PickIn, FS_Subset
<1>5. SumOver(f, T \ {Pick(T)}) \in Nat
  BY <1>2, <1>4
<1> QED
  BY <1>3, <1>4, <1>5, SumPick

\* Where no value grows, the sum does not.
LEMMA SumLess ==
  ASSUME NEW f, NEW g, NEW S, IsFiniteSet(S),
         \A x \in S : f[x] \in Int /\ g[x] \in Int /\ g[x] <= f[x]
  PROVE  SumOver(g, S) <= SumOver(f, S)
<1> DEFINE B == {T \in SUBSET S : ~(SumOver(g, T) <= SumOver(f, T))}
<1>1. S \in B => B # {}
  OBVIOUS
<1> SUFFICES ASSUME B # {} PROVE FALSE
  BY <1>1
<1>2. PICK T \in B : \A U \in B : U \subseteq T => U = T
  <2>1. B \in SUBSET (SUBSET S)
    OBVIOUS
  <2> HIDE DEF B
  <2> QED
    BY <2>1, MinimalSubset
<1>3. T # {}
  BY SumEmpty
<1> DEFINE x == Pick(T)
           U == T \ {x}
<1>4. x \in T /\ IsFiniteSet(T) /\ IsFiniteSet(U)
  BY <1>3, PickIn, FS_Subset
<1>5. SumOver(g, U) <= SumOver(f, U)
  BY <1>2, <1>4
<1>6. SumOver(f, U) \in Int /\ SumOver(g, U) \in Int
  BY <1>4, SumInt
<1>7. SumOver(f, T) = f[x] + SumOver(f, U) /\ SumOver(g, T) = g[x] + SumOver(g, U)
  BY <1>3, <1>4, SumPick
<1>8. f[x] \in Int /\ g[x] \in Int /\ g[x] <= f[x]
  BY <1>4
<1>9. ~(SumOver(g, T) <= SumOver(f, T))
  BY <1>2
<1> HIDE DEF x, U, B
<1> QED
  BY <1>5, <1>6, <1>7, <1>8, <1>9

\* A factor of every value is a factor of the sum.
LEMMA SumScale ==
  ASSUME NEW f, NEW g, NEW S, IsFiniteSet(S), NEW c \in Int,
         \A x \in S : f[x] \in Int /\ g[x] = c * f[x]
  PROVE  SumOver(g, S) = c * SumOver(f, S)
<1> DEFINE B == {T \in SUBSET S : SumOver(g, T) # c * SumOver(f, T)}
<1>1. S \in B => B # {}
  OBVIOUS
<1> SUFFICES ASSUME B # {} PROVE FALSE
  BY <1>1
<1>2. PICK T \in B : \A U \in B : U \subseteq T => U = T
  <2>1. B \in SUBSET (SUBSET S)
    OBVIOUS
  <2> HIDE DEF B
  <2> QED
    BY <2>1, MinimalSubset
<1>3. T # {}
  <2>1. SumOver(f, {}) = 0 /\ SumOver(g, {}) = 0 /\ c * 0 = 0
    BY SumEmpty
  <2>2. SumOver(g, T) # c * SumOver(f, T)
    BY <1>2
  <2> QED
    BY <2>1, <2>2
<1> DEFINE x == Pick(T)
           U == T \ {x}
<1>4. x \in T /\ IsFiniteSet(T) /\ IsFiniteSet(U)
  BY <1>3, PickIn, FS_Subset
<1>5. SumOver(g, U) = c * SumOver(f, U)
  BY <1>2, <1>4
<1>6. SumOver(f, U) \in Int
  BY <1>4, SumInt
<1>7. SumOver(f, T) = f[x] + SumOver(f, U) /\ SumOver(g, T) = g[x] + SumOver(g, U)
  BY <1>3, <1>4, SumPick
<1>8. f[x] \in Int /\ g[x] = c * f[x]
  BY <1>4
<1>9. SumOver(g, T) # c * SumOver(f, T)
  BY <1>2
<1> HIDE DEF x, U, B
<1>10. c * (f[x] + SumOver(f, U)) = c * f[x] + c * SumOver(f, U)
  BY <1>6, <1>8
<1> QED
  BY <1>5, <1>7, <1>8, <1>9, <1>10

\* Elements that add nothing can be left out.
LEMMA SumSupport ==
  ASSUME NEW f, NEW S, IsFiniteSet(S), NEW T \in SUBSET S,
         \A x \in S : f[x] \in Int, \A x \in S \ T : f[x] = 0
  PROVE  SumOver(f, S) = SumOver(f, T)
<1> DEFINE D == S \ T
           B == {U \in SUBSET D : SumOver(f, T \cup U) # SumOver(f, T)}
<1>1. SumOver(f, S) # SumOver(f, T) => D \in B
  <2>1. T \cup D = S
    OBVIOUS
  <2> QED
    BY <2>1
<1> SUFFICES ASSUME B # {} PROVE FALSE
  BY <1>1
<1>2. PICK U \in B : \A V \in B : V \subseteq U => V = U
  <2>1. B \in SUBSET (SUBSET D) /\ IsFiniteSet(D)
    BY FS_Subset
  <2> HIDE DEF B, D
  <2> QED
    BY <2>1, MinimalSubset
<1>3. U # {}
  <2>1. T \cup {} = T
    OBVIOUS
  <2> QED
    BY <1>2, <2>1
<1> DEFINE x == Pick(U)
           V == U \ {x}
<1>4. /\ x \in U /\ x \in D /\ V \in SUBSET D /\ V \subseteq U /\ V # U
      /\ T \cup U = (T \cup V) \cup {x} /\ x \notin T \cup V
      /\ T \cup V \subseteq S /\ f[x] = 0
  BY <1>2, <1>3, PickIn
<1>5. SumOver(f, T \cup V) = SumOver(f, T)
  BY <1>2, <1>4
<1>6. IsFiniteSet(T \cup V) /\ IsFiniteSet(T)
  BY <1>4, FS_Subset
<1>7. SumOver(f, T) \in Int
  BY <1>6, SumInt
<1>8. SumOver(f, T \cup U) # SumOver(f, T)
  BY <1>2
<1>9. \A y \in T \cup V : f[y] \in Int
  BY <1>4
<1> HIDE DEF x, V, B, D
<1>10. SumOver(f, (T \cup V) \cup {x}) = f[x] + SumOver(f, T \cup V)
  BY <1>4, <1>6, <1>9, SumAdd
<1>11. SumOver(f, T \cup U) = f[x] + SumOver(f, T)
  BY <1>4, <1>5, <1>10
<1>12. f[x] = 0
  BY <1>4
<1> QED
  BY <1>7, <1>8, <1>11, <1>12

\* A function with integer values has a greatest one on a finite set.
LEMMA ArgMax ==
  ASSUME NEW S, IsFiniteSet(S), S # {}, NEW f, \A x \in S : f[x] \in Int
  PROVE  \E x \in S : \A y \in S : f[y] <= f[x]
<1> DEFINE Greatest(T) == \E x \in T : \A y \in T : f[y] <= f[x]
           B == {T \in SUBSET S : T # {} /\ ~Greatest(T)}
<1>1. S \in B => B # {}
  OBVIOUS
<1> SUFFICES ASSUME B # {} PROVE FALSE
  BY <1>1
<1>2. PICK T \in B : \A U \in B : U \subseteq T => U = T
  <2>1. B \in SUBSET (SUBSET S)
    OBVIOUS
  <2> HIDE DEF B
  <2> QED
    BY <2>1, MinimalSubset
<1>3. PICK x \in T : TRUE
  OBVIOUS
<1>4. CASE T \ {x} = {}
  BY <1>4
<1>5. CASE T \ {x} # {}
  <2>1. PICK z \in T \ {x} : \A y \in T \ {x} : f[y] <= f[z]
    <3>1. T \ {x} \in SUBSET S /\ T \ {x} \subseteq T /\ T \ {x} # T
      BY <1>2
    <3>2. T \ {x} \notin B
      BY <3>1, <1>2
    <3> QED
      BY <3>1, <3>2, <1>5
  <2>2. CASE f[x] <= f[z]
    BY <2>1, <2>2
  <2>3. CASE ~(f[x] <= f[z])
    <3>1. \A y \in T : f[y] <= f[x]
      BY <2>1, <2>3
    <3> QED
      BY <3>1
  <2> QED
    BY <2>2, <2>3
<1> QED
  BY <1>4, <1>5

\* ... and a least one.
LEMMA ArgMin ==
  ASSUME NEW S, IsFiniteSet(S), S # {}, NEW f, \A x \in S : f[x] \in Int
  PROVE  \E x \in S : \A y \in S : f[x] <= f[y]
<1> DEFINE g == [x \in S |-> -f[x]]
<1>1. \A x \in S : g[x] \in Int /\ g[x] = -f[x]
  OBVIOUS
<1> HIDE DEF g
<1>2. PICK x \in S : \A y \in S : g[y] <= g[x]
  BY <1>1, ArgMax
<1> QED
  BY <1>1, <1>2

\* A finite set of integers, as the indices of a sequence, has a maximum.
Indices(S) == S \subseteq Int /\ IsFiniteSet(S)

LEMMA SubIndices == ASSUME NEW S, Indices(S), NEW T, T \subseteq S PROVE Indices(T)
<1>1. IsFiniteSet(T)
  BY FS_Subset DEF Indices
<1> QED
  BY <1>1 DEF Indices

LEMMA MaxIn ==
  ASSUME NEW s, Indices(s), s # {}
  PROVE  Max(s) \in s
<1> DEFINE id == [x \in s |-> x]
<1>1. \A x \in s : id[x] = x /\ id[x] \in Int
  BY DEF Indices
<1>2. IsFiniteSet(s)
  BY DEF Indices
<1> HIDE DEF id
<1>3. \E x \in s : \A y \in s : id[y] <= id[x]
  BY <1>1, <1>2, ArgMax
<1>4. \E x \in s : \A y \in s : x >= y
  BY <1>1, <1>3
<1> QED
  BY <1>4 DEF Max

\* What holds of no index, and of a set of indices once it holds without the greatest of
\* them, holds of all: G has the sets of which it holds.
LEMMA IndexInduction ==
  ASSUME NEW S, Indices(S), NEW G, {} \in G,
         \A s \in SUBSET S : s # {} /\ s \ {Max(s)} \in G => s \in G
  PROVE  S \in G
<1> DEFINE B == {s \in SUBSET S : s \notin G}
<1>1. S \notin G => B # {}
  OBVIOUS
<1> SUFFICES ASSUME B # {} PROVE FALSE
  BY <1>1
<1>2. PICK s \in B : \A u \in B : u \subseteq s => u = s
  <2>1. B \in SUBSET (SUBSET S) /\ B # {} /\ IsFiniteSet(S)
    BY DEF Indices
  <2> HIDE DEF B
  <2> QED
    BY ONLY <2>1, MinimalSubset
<1>3. s # {} /\ s \in SUBSET S
  BY <1>2
<1>4. Max(s) \in s
  BY <1>3, MaxIn, SubIndices
<1> DEFINE u == s \ {Max(s)}
<1>5. u \in SUBSET S /\ u \subseteq s /\ u # s
  BY <1>3, <1>4
<1>6. u \in G
  BY <1>2, <1>5
<1> QED
  BY <1>2, <1>3, <1>6

=============================================================================
