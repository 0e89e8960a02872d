---------------------------- MODULE NumberLemmas ----------------------------
(***************************************************************************)
(* Lemmas that the proofs about accounts and budgets rest on: division,     *)
(* minima and maxima of pairs, and SumFunctionOnSet of the community        *)
(* modules, proved from its definition. Induction is on sets instead of     *)
(* predicates: every nonempty set of naturals has a least element, and a    *)
(* family of sets that has {} and is closed under adding an element of S    *)
(* has S.                                                                   *)
(***************************************************************************)
EXTENDS Integers, FiniteSetsExt, FiniteSetTheorems, WellFoundedInduction, TLAPS

\* Every nonempty set of naturals has a least element.
LEMMA LeastNatural ==
  ASSUME NEW T, T \subseteq Nat, T # {}
  PROVE  \E n \in T : \A m \in T : n <= m
<1> DEFINE R == OpToRel(<, Nat)
<1>1. IsWellFoundedOn(R, Nat)
  BY NatLessThanWellFounded
<1>2. \A m, n \in Nat : <<m, n>> \in R <=> m < n
  BY DEF OpToRel
<1> HIDE DEF R
<1>3. PICK n \in T : \A m \in T : ~ (<<m, n>> \in R)
  BY <1>1, WFMin
<1>4. n \in Nat /\ \A m \in T : ~ (m < n)
  BY <1>2, <1>3
<1> QED
  BY <1>3, <1>4

\* A set that has 0 and the successor of each natural it has has every natural.
LEMMA NaturalInduction ==
  ASSUME NEW P, 0 \in P, \A n \in Nat : n \in P => n + 1 \in P
  PROVE  Nat \subseteq P
<1> SUFFICES ASSUME Nat \ P # {} PROVE FALSE
  OBVIOUS
<1>1. PICK n \in Nat \ P : \A m \in Nat \ P : n <= m
  BY LeastNatural
<1>2. n # 0
  BY <1>1
<1>3. n - 1 \in Nat /\ n - 1 \in P
  BY <1>1, <1>2
<1>4. n \in P
  BY <1>1, <1>3
<1> QED
  BY <1>1, <1>4

\* Taking one element out of a set of n + 1 leaves n.
LEMMA OneLess ==
  ASSUME NEW T, IsFiniteSet(T), NEW x \in T, NEW n \in Nat, Cardinality(T) = n + 1
  PROVE  IsFiniteSet(T \ {x}) /\ Cardinality(T \ {x}) = n
<1>1. IsFiniteSet(T \ {x}) /\ Cardinality(T \ {x}) = Cardinality(T) - 1
  BY FS_RemoveElement
<1> QED
  BY <1>1

\* A family that has {} and stays closed when an element of the finite set S is
\* added has S.
LEMMA SetInduction ==
  ASSUME NEW S, IsFiniteSet(S), NEW P, {} \in P,
         \A T \in SUBSET S : \A x \in S \ T : T \in P => T \union {x} \in P
  PROVE  S \in P
<1> DEFINE Q == {n \in Nat : \A T \in SUBSET S : Cardinality(T) = n => T \in P}
<1>1. 0 \in Q
  <2> SUFFICES ASSUME NEW T \in SUBSET S, Cardinality(T) = 0 PROVE T \in P
    OBVIOUS
  <2>1. T = {}
    BY FS_EmptySet, FS_Subset
  <2> QED
    BY <2>1
<1>2. ASSUME NEW n \in Nat, n \in Q PROVE n + 1 \in Q
  <2> SUFFICES ASSUME NEW T \in SUBSET S, Cardinality(T) = n + 1 PROVE T \in P
    OBVIOUS
  <2>1. IsFiniteSet(T) /\ T # {}
    BY FS_EmptySet, FS_Subset
  <2>2. PICK x : x \in T
    BY <2>1
  <2>3. Cardinality(T \ {x}) = n
    BY <2>1, <2>2, OneLess
  <2>4. T \ {x} \in P
    BY <1>2, <2>3
  <2>5. (T \ {x}) \union {x} \in P
    BY <2>2, <2>4
  <2>6. (T \ {x}) \union {x} = T
    BY <2>2
  <2> QED
    BY <2>5, <2>6
<1>3. Nat \subseteq Q
  <2> HIDE DEF Q
  <2> QED
    BY <1>1, <1>2, NaturalInduction
<1>4. Cardinality(S) \in Q
  BY <1>3, FS_CardinalityType
<1> QED
  BY <1>4

-----------------------------------------------------------------------------
(* The recursion that the sum is defined by.                                *)

\* The element the fold takes next, and the function it is defined by.
Chosen(s) == CHOOSE x \in s : TRUE
Recursion(h, f, S) == h = [s \in SUBSET S |-> IF s = {} THEN 0 ELSE f[Chosen(s)] + h[s \ {Chosen(s)}]]

\* The library sum, with its recursion named.
LEMMA SumDefinition ==
  ASSUME NEW f, NEW S
  PROVE  SumFunctionOnSet(f, S) = (CHOOSE h : Recursion(h, f, S))[S]
BY DEF SumFunctionOnSet, FoldFunctionOnSet, MapThenFoldSet, Recursion, Chosen

\* Every finite set has a function that the recursion describes.
LEMMA RecursionExists ==
  ASSUME NEW f, NEW S, IsFiniteSet(S)
  PROVE  \E h : Recursion(h, f, S)
<1> DEFINE Step(h, s) == IF s = {} THEN 0 ELSE f[Chosen(s)] + h[s \ {Chosen(s)}]
           P == {n \in Nat : \E h : \A s \in SUBSET S : Cardinality(s) <= n => h[s] = Step(h, s)}
<1>0. \A s \in SUBSET S : /\ IsFiniteSet(s) /\ Cardinality(s) \in Nat
                          /\ s # {} => Chosen(s) \in s /\ Cardinality(s \ {Chosen(s)}) = Cardinality(s) - 1
  <2> SUFFICES ASSUME NEW s \in SUBSET S
               PROVE  /\ IsFiniteSet(s) /\ Cardinality(s) \in Nat
                      /\ s # {} => Chosen(s) \in s /\ Cardinality(s \ {Chosen(s)}) = Cardinality(s) - 1
    OBVIOUS
  <2>1. IsFiniteSet(s) /\ Cardinality(s) \in Nat
    BY FS_Subset, FS_CardinalityType
  <2>2. s # {} => Chosen(s) \in s
    BY DEF Chosen
  <2> QED
    BY <2>1, <2>2, FS_RemoveElement
<1>1. 0 \in P
  <2> DEFINE h == [s \in SUBSET S |-> 0]
  <2>1. \A s \in SUBSET S : Cardinality(s) <= 0 => h[s] = Step(h, s)
    <3> SUFFICES ASSUME NEW s \in SUBSET S, Cardinality(s) <= 0 PROVE h[s] = Step(h, s)
      OBVIOUS
    <3>0. IsFiniteSet(s) /\ Cardinality(s) \in Nat
      BY <1>0
    <3>1. IsFiniteSet(s) /\ Cardinality(s) = 0
      BY <3>0
    <3>2. s = {}
      BY <3>1, FS_EmptySet
    <3> QED
      BY <3>2
  <2> HIDE DEF h, Step
  <2> QED
    BY <2>1
<1>2. ASSUME NEW n \in Nat, n \in P PROVE n + 1 \in P
  <2>1. PICK g : \A s \in SUBSET S : Cardinality(s) <= n => g[s] = Step(g, s)
    BY <1>2
  <2> DEFINE h == [s \in SUBSET S |-> IF Cardinality(s) <= n THEN g[s] ELSE Step(g, s)]
  <2>2. ASSUME NEW s \in SUBSET S, Cardinality(s) <= n + 1 PROVE h[s] = Step(h, s)
    <3>1. CASE s = {}
      <4>1. Cardinality(s) <= n
        BY <3>1, FS_EmptySet
      <4> QED
        BY <2>1, <3>1, <4>1
    <3>2. CASE s # {}
      <4>1. /\ s \ {Chosen(s)} \in SUBSET S
            /\ Cardinality(s \ {Chosen(s)}) <= n
        BY <1>0, <2>2, <3>2
      <4>2. h[s \ {Chosen(s)}] = g[s \ {Chosen(s)}]
        BY <4>1
      <4>3. h[s] = Step(g, s)
        BY <2>1
      <4> QED
        BY <3>2, <4>2, <4>3
    <3> QED
      BY <3>1, <3>2
  <2> HIDE DEF h, Step
  <2> QED
    BY <2>2
<1>3. Cardinality(S) \in P
  <2>1. Nat \subseteq P
    <3> HIDE DEF P
    <3> QED
      BY <1>1, <1>2, NaturalInduction
  <2> QED
    BY <2>1, FS_CardinalityType
<1>4. PICK g : \A s \in SUBSET S : Cardinality(s) <= Cardinality(S) => g[s] = Step(g, s)
  BY <1>3
<1>5. \A s \in SUBSET S : g[s] = Step(g, s)
  BY <1>4, FS_Subset
<1> DEFINE h == [s \in SUBSET S |-> g[s]]
<1>6. \A s \in SUBSET S : h[s] = Step(h, s)
  <2> SUFFICES ASSUME NEW s \in SUBSET S PROVE h[s] = Step(h, s)
    OBVIOUS
  <2>1. s \ {Chosen(s)} \in SUBSET S
    OBVIOUS
  <2> QED
    BY <1>5, <2>1
<1>7. Recursion(h, f, S)
  BY <1>6 DEF Recursion
<1> QED
  BY <1>7

\* The functions of a set and of its subset agree.
LEMMA RecursionUnique ==
  ASSUME NEW f, NEW S, IsFiniteSet(S), NEW T \in SUBSET S,
         NEW g, Recursion(g, f, S), NEW h, Recursion(h, f, T)
  PROVE  g[T] = h[T]
<1> DEFINE P == {n \in Nat : \A s \in SUBSET T : Cardinality(s) = n => g[s] = h[s]}
<1>0. \A s \in SUBSET T : /\ s \in SUBSET S /\ IsFiniteSet(s) /\ Cardinality(s) \in Nat
                          /\ s # {} => /\ Chosen(s) \in s /\ s \ {Chosen(s)} \in SUBSET T
                                       /\ Cardinality(s \ {Chosen(s)}) = Cardinality(s) - 1
  <2> SUFFICES ASSUME NEW s \in SUBSET T
               PROVE  /\ s \in SUBSET S /\ IsFiniteSet(s) /\ Cardinality(s) \in Nat
                      /\ s # {} => /\ Chosen(s) \in s /\ s \ {Chosen(s)} \in SUBSET T
                                   /\ Cardinality(s \ {Chosen(s)}) = Cardinality(s) - 1
    OBVIOUS
  <2>1. s \in SUBSET S /\ IsFiniteSet(s) /\ Cardinality(s) \in Nat
    BY FS_Subset, FS_CardinalityType
  <2>2. s # {} => Chosen(s) \in s
    BY DEF Chosen
  <2> QED
    BY <2>1, <2>2, FS_RemoveElement
<1>1. 0 \in P
  <2> SUFFICES ASSUME NEW s \in SUBSET T, Cardinality(s) = 0 PROVE g[s] = h[s]
    OBVIOUS
  <2>1. s = {} /\ s \in SUBSET S
    BY <1>0, FS_EmptySet
  <2> QED
    BY <2>1 DEF Recursion
<1>2. ASSUME NEW n \in Nat, n \in P PROVE n + 1 \in P
  <2> SUFFICES ASSUME NEW s \in SUBSET T, Cardinality(s) = n + 1 PROVE g[s] = h[s]
    OBVIOUS
  <2>1. s # {}
    BY FS_EmptySet
  <2>2. g[s \ {Chosen(s)}] = h[s \ {Chosen(s)}]
    BY <1>0, <1>2, <2>1
  <2>3. g[s] = f[Chosen(s)] + g[s \ {Chosen(s)}] /\ h[s] = f[Chosen(s)] + h[s \ {Chosen(s)}]
    BY <1>0, <2>1 DEF Recursion
  <2> QED
    BY <2>2, <2>3
<1>3. Cardinality(T) \in P
  <2>1. Nat \subseteq P
    <3> HIDE DEF P
    <3> QED
      BY <1>1, <1>2, NaturalInduction
  <2> QED
    BY <1>0, <2>1
<1> QED
  BY <1>3

\* The sum is the chosen summand and the sum of the rest.
LEMMA SumStep ==
  ASSUME NEW f, NEW S, IsFiniteSet(S), S # {}
  PROVE  /\ Chosen(S) \in S
         /\ SumFunctionOnSet(f, S) = f[Chosen(S)] + SumFunctionOnSet(f, S \ {Chosen(S)})
<1> DEFINE T == S \ {Chosen(S)}
           g == CHOOSE h : Recursion(h, f, S)
           h == CHOOSE k : Recursion(k, f, T)
<1>1. Chosen(S) \in S
  BY DEF Chosen
<1>2. IsFiniteSet(T) /\ T \in SUBSET S
  BY FS_RemoveElement
<1>3. Recursion(g, f, S) /\ Recursion(h, f, T)
  <2> HIDE DEF T
  <2>1. \E k : Recursion(k, f, T)
    BY <1>2, RecursionExists
  <2>2. \E k : Recursion(k, f, S)
    BY RecursionExists
  <2> QED
    BY <2>1, <2>2
<1>4. g[T] = h[T]
  <2> HIDE DEF T, g, h
  <2> QED
    BY <1>2, <1>3, RecursionUnique
<1>5. g[S] = f[Chosen(S)] + g[T]
  <2> HIDE DEF g
  <2> QED
    BY <1>3 DEF Recursion
<1>6. SumFunctionOnSet(f, S) = g[S] /\ SumFunctionOnSet(f, T) = h[T]
  BY SumDefinition
<1> QED
  BY <1>1, <1>4, <1>5, <1>6

\* A sum of nothing is 0.
LEMMA SumEmpty == ASSUME NEW f PROVE SumFunctionOnSet(f, {}) = 0
<1>1. IsFiniteSet({})
  BY FS_EmptySet
<1> DEFINE g == CHOOSE h : Recursion(h, f, {})
<1>2. Recursion(g, f, {})
  BY <1>1, RecursionExists
<1>3. g[{}] = 0
  <2> HIDE DEF g
  <2> QED
    BY <1>2 DEF Recursion
<1> QED
  BY <1>3, SumDefinition

-----------------------------------------------------------------------------
(* What the proofs about the models use.                                    *)

\* A finite sum of integers is an integer.
LEMMA SumType ==
  ASSUME NEW S, IsFiniteSet(S), NEW f, \A s \in S : f[s] \in Int
  PROVE  SumFunctionOnSet(f, S) \in Int
<1> DEFINE P == {n \in Nat : \A T \in SUBSET S : Cardinality(T) = n => SumFunctionOnSet(f, T) \in Int}
<1>1. 0 \in P
  <2> SUFFICES ASSUME NEW T \in SUBSET S, Cardinality(T) = 0 PROVE SumFunctionOnSet(f, T) \in Int
    OBVIOUS
  <2>1. T = {}
    BY FS_Subset, FS_EmptySet
  <2> QED
    BY <2>1, SumEmpty
<1>2. ASSUME NEW n \in Nat, n \in P PROVE n + 1 \in P
  <2> SUFFICES ASSUME NEW T \in SUBSET S, Cardinality(T) = n + 1 PROVE SumFunctionOnSet(f, T) \in Int
    OBVIOUS
  <2>1. IsFiniteSet(T) /\ T # {}
    BY FS_Subset, FS_EmptySet
  <2>2. /\ Chosen(T) \in T
        /\ SumFunctionOnSet(f, T) = f[Chosen(T)] + SumFunctionOnSet(f, T \ {Chosen(T)})
    BY <2>1, SumStep
  <2>3. Cardinality(T \ {Chosen(T)}) = n
    BY <2>1, <2>2, OneLess
  <2>4. SumFunctionOnSet(f, T \ {Chosen(T)}) \in Int
    BY <1>2, <2>3
  <2> QED
    BY <2>2, <2>4
<1>3. Nat \subseteq P
  <2> HIDE DEF P
  <2> QED
    BY <1>1, <1>2, NaturalInduction
<1> QED
  BY <1>3, FS_CardinalityType

\* The order of the summands does not matter: any of them may be taken out first.
LEMMA SumRemove ==
  ASSUME NEW S, IsFiniteSet(S), NEW f, \A s \in S : f[s] \in Int, NEW x \in S
  PROVE  SumFunctionOnSet(f, S) = f[x] + SumFunctionOnSet(f, S \ {x})
<1> DEFINE Holds(T) == \A y \in T : SumFunctionOnSet(f, T) = f[y] + SumFunctionOnSet(f, T \ {y})
           P == {n \in Nat : \A T \in SUBSET S : Cardinality(T) = n => Holds(T)}
<1>1. 0 \in P
  <2> SUFFICES ASSUME NEW T \in SUBSET S, Cardinality(T) = 0 PROVE Holds(T)
    OBVIOUS
  <2>1. T = {}
    BY FS_Subset, FS_EmptySet
  <2> QED
    BY <2>1
<1>2. ASSUME NEW n \in Nat, n \in P PROVE n + 1 \in P
  <2> SUFFICES ASSUME NEW T \in SUBSET S, Cardinality(T) = n + 1, NEW y \in T
               PROVE  SumFunctionOnSet(f, T) = f[y] + SumFunctionOnSet(f, T \ {y})
    OBVIOUS
  <2> DEFINE c == Chosen(T)
  <2>1. IsFiniteSet(T)
    BY FS_Subset
  <2>2. c \in T /\ SumFunctionOnSet(f, T) = f[c] + SumFunctionOnSet(f, T \ {c})
    BY <2>1, SumStep
  <2> HIDE DEF c
  <2>3. CASE c = y
    BY <2>2, <2>3
  <2>4. CASE c # y
    <3>1. IsFiniteSet(T \ {c}) /\ IsFiniteSet(T \ {y}) /\ Cardinality(T \ {c}) = n /\ Cardinality(T \ {y}) = n
      BY <2>1, <2>2, OneLess
    <3>2. Holds(T \ {c}) /\ Holds(T \ {y})
      BY <1>2, <3>1
    <3>3. /\ SumFunctionOnSet(f, T \ {c}) = f[y] + SumFunctionOnSet(f, (T \ {c}) \ {y})
          /\ SumFunctionOnSet(f, T \ {y}) = f[c] + SumFunctionOnSet(f, (T \ {y}) \ {c})
      BY <2>2, <2>4, <3>2
    <3>4. (T \ {c}) \ {y} = (T \ {y}) \ {c}
      OBVIOUS
    <3>5. /\ f[c] \in Int /\ f[y] \in Int
          /\ SumFunctionOnSet(f, (T \ {c}) \ {y}) \in Int
      <4>1. IsFiniteSet((T \ {c}) \ {y})
        BY <3>1, FS_RemoveElement
      <4>2. \A s \in (T \ {c}) \ {y} : f[s] \in Int
        OBVIOUS
      <4> QED
        BY <2>2, <4>1, <4>2, SumType
    <3> DEFINE rest == SumFunctionOnSet(f, (T \ {c}) \ {y})
    <3>6. /\ SumFunctionOnSet(f, T) = f[c] + (f[y] + rest)
          /\ f[y] + SumFunctionOnSet(f, T \ {y}) = f[y] + (f[c] + rest)
      BY <2>2, <3>3, <3>4
    <3> HIDE DEF rest
    <3>7. f[c] + (f[y] + rest) = f[y] + (f[c] + rest)
      BY <3>5 DEF rest
    <3> QED
      BY <3>6, <3>7
  <2> QED
    BY <2>3, <2>4
<1>3. Nat \subseteq P
  <2> HIDE DEF P
  <2> QED
    BY <1>1, <1>2, NaturalInduction
<1> QED
  BY <1>3, FS_CardinalityType

\* A new element adds its summand.
LEMMA SumAdd ==
  ASSUME NEW S, IsFiniteSet(S), NEW f, NEW x, x \notin S, \A s \in S \union {x} : f[s] \in Int
  PROVE  SumFunctionOnSet(f, S \union {x}) = SumFunctionOnSet(f, S) + f[x]
<1>1. IsFiniteSet(S \union {x})
  BY FS_AddElement
<1>0. (S \union {x}) \ {x} = S
  OBVIOUS
<1>2. SumFunctionOnSet(f, S \union {x}) = f[x] + SumFunctionOnSet(f, (S \union {x}) \ {x})
  <2> DEFINE T == S \union {x}
  <2>1. IsFiniteSet(T) /\ (\A s \in T : f[s] \in Int) /\ x \in T
    BY <1>1
  <2> HIDE DEF T
  <2>2. SumFunctionOnSet(f, T) = f[x] + SumFunctionOnSet(f, T \ {x})
    BY <2>1, SumRemove
  <2> QED
    BY <2>2 DEF T
<1>3. SumFunctionOnSet(f, S) \in Int /\ f[x] \in Int
  BY SumType
<1>4. SumFunctionOnSet(f, S \union {x}) = f[x] + SumFunctionOnSet(f, S)
  BY <1>0, <1>2
<1> QED
  BY <1>3, <1>4

\* Only the summands matter.
LEMMA SumEqual ==
  ASSUME NEW S, IsFiniteSet(S), NEW f, NEW g, \A s \in S : f[s] = g[s] /\ f[s] \in Int
  PROVE  SumFunctionOnSet(f, S) = SumFunctionOnSet(g, S)
<1> DEFINE P == {T \in SUBSET S : SumFunctionOnSet(f, T) = SumFunctionOnSet(g, T)}
<1>1. {} \in P
  BY SumEmpty
<1>2. ASSUME NEW T \in SUBSET S, NEW x \in S \ T, T \in P PROVE T \union {x} \in P
  <2>1. IsFiniteSet(T) /\ x \notin T /\ f[x] = g[x]
    BY FS_Subset
  <2>4. \A s \in T \union {x} : f[s] \in Int
    OBVIOUS
  <2>5. \A s \in T \union {x} : g[s] \in Int
    OBVIOUS
  <2>2. SumFunctionOnSet(f, T \union {x}) = SumFunctionOnSet(f, T) + f[x]
    BY <2>1, <2>4, SumAdd
  <2>3. SumFunctionOnSet(g, T \union {x}) = SumFunctionOnSet(g, T) + g[x]
    BY <2>1, <2>5, SumAdd
  <2> QED
    BY <1>2, <2>1, <2>2, <2>3
<1>3. S \in P
  <2> HIDE DEF P
  <2> QED
    BY <1>1, <1>2, SetInduction
<1> QED
  BY <1>3

\* One summand changes.
LEMMA SumChange ==
  ASSUME NEW S, IsFiniteSet(S), NEW f, NEW g, NEW x \in S,
         \A s \in S : f[s] \in Int /\ g[s] \in Int, \A s \in S : s # x => f[s] = g[s]
  PROVE  SumFunctionOnSet(g, S) = SumFunctionOnSet(f, S) - f[x] + g[x]
<1>1. IsFiniteSet(S \ {x})
  BY FS_RemoveElement
<1>2. SumFunctionOnSet(f, S \ {x}) = SumFunctionOnSet(g, S \ {x}) /\ SumFunctionOnSet(f, S \ {x}) \in Int
  BY <1>1, SumEqual, SumType
<1>3. SumFunctionOnSet(f, S) = f[x] + SumFunctionOnSet(f, S \ {x})
  BY SumRemove
<1>4. SumFunctionOnSet(g, S) = g[x] + SumFunctionOnSet(g, S \ {x})
  BY SumRemove
<1> QED
  BY <1>2, <1>3, <1>4

\* A sum of zeros is 0.
LEMMA SumZero ==
  ASSUME NEW S, IsFiniteSet(S), NEW f, \A s \in S : f[s] = 0
  PROVE  SumFunctionOnSet(f, S) = 0
<1> DEFINE P == {T \in SUBSET S : SumFunctionOnSet(f, T) = 0}
<1>1. {} \in P
  BY SumEmpty
<1>2. ASSUME NEW T \in SUBSET S, NEW x \in S \ T, T \in P PROVE T \union {x} \in P
  <2>1. IsFiniteSet(T) /\ (\A s \in T \union {x} : f[s] \in Int) /\ f[x] = 0
    BY FS_Subset
  <2>2. SumFunctionOnSet(f, T \union {x}) = SumFunctionOnSet(f, T) + f[x]
    BY <2>1, SumAdd
  <2> QED
    BY <1>2, <2>1, <2>2
<1>3. S \in P
  <2> HIDE DEF P
  <2> QED
    BY <1>1, <1>2, SetInduction
<1> QED
  BY <1>3

\* A sum of naturals is a natural.
LEMMA SumNatural ==
  ASSUME NEW S, IsFiniteSet(S), NEW f, \A s \in S : f[s] \in Nat
  PROVE  SumFunctionOnSet(f, S) \in Nat
<1> DEFINE P == {T \in SUBSET S : SumFunctionOnSet(f, T) \in Nat}
<1>1. {} \in P
  BY SumEmpty
<1>2. ASSUME NEW T \in SUBSET S, NEW x \in S \ T, T \in P PROVE T \union {x} \in P
  <2>1. IsFiniteSet(T) /\ (\A s \in T \union {x} : f[s] \in Int) /\ f[x] \in Nat
    BY FS_Subset
  <2>2. SumFunctionOnSet(f, T \union {x}) = SumFunctionOnSet(f, T) + f[x]
    BY <2>1, SumAdd
  <2> QED
    BY <1>2, <2>1, <2>2
<1>3. S \in P
  <2> HIDE DEF P
  <2> QED
    BY <1>1, <1>2, SetInduction
<1> QED
  BY <1>3

\* No summand of naturals exceeds the sum.
LEMMA SumBound ==
  ASSUME NEW S, IsFiniteSet(S), NEW f, \A s \in S : f[s] \in Nat, NEW x \in S
  PROVE  f[x] <= SumFunctionOnSet(f, S)
<1>1. SumFunctionOnSet(f, S) = f[x] + SumFunctionOnSet(f, S \ {x})
  BY SumRemove
<1>2. IsFiniteSet(S \ {x}) /\ \A s \in S \ {x} : f[s] \in Nat
  BY FS_RemoveElement
<1>3. SumFunctionOnSet(f, S \ {x}) \in Nat
  BY <1>2, SumNatural
<1> QED
  BY <1>1, <1>3
\* A sum grows with its summands.
LEMMA SumMonotone ==
  ASSUME NEW S, IsFiniteSet(S), NEW f, NEW g,
         \A s \in S : f[s] \in Int /\ g[s] \in Int /\ f[s] <= g[s]
  PROVE  SumFunctionOnSet(f, S) <= SumFunctionOnSet(g, S)
<1> DEFINE P == {T \in SUBSET S : SumFunctionOnSet(f, T) <= SumFunctionOnSet(g, T)}
<1>1. {} \in P
  <2>1. SumFunctionOnSet(f, {}) = 0 /\ SumFunctionOnSet(g, {}) = 0
    BY SumEmpty
  <2> QED
    BY <2>1
<1>2. ASSUME NEW T \in SUBSET S, NEW x \in S \ T, T \in P PROVE T \union {x} \in P
  <2>1. IsFiniteSet(T) /\ x \notin T /\ f[x] <= g[x] /\ f[x] \in Int /\ g[x] \in Int
    BY FS_Subset
  <2>2. (\A s \in T \union {x} : f[s] \in Int) /\ \A s \in T \union {x} : g[s] \in Int
    OBVIOUS
  <2>3. SumFunctionOnSet(f, T \union {x}) = SumFunctionOnSet(f, T) + f[x]
    BY <2>1, <2>2, SumAdd
  <2>4. SumFunctionOnSet(g, T \union {x}) = SumFunctionOnSet(g, T) + g[x]
    BY <2>1, <2>2, SumAdd
  <2>5. SumFunctionOnSet(f, T) \in Int /\ SumFunctionOnSet(g, T) \in Int
    BY <2>1, <2>2, SumType
  <2>6. SumFunctionOnSet(f, T \union {x}) <= SumFunctionOnSet(g, T \union {x})
    BY <1>2, <2>1, <2>3, <2>4, <2>5
  <2> QED
    BY <2>6
<1>3. S \in P
  <2> HIDE DEF P
  <2> QED
    BY <1>1, <1>2, SetInduction
<1> QED
  BY <1>3
-----------------------------------------------------------------------------
(* Pairs and division.                                                      *)

\* A finite set of naturals has a greatest one, and one that has any has a least one.
LEMMA GreatestNatural ==
  ASSUME NEW T, T \subseteq Nat, IsFiniteSet(T), T # {}
  PROVE  Max(T) \in T /\ \A m \in T : m <= Max(T)
<1> DEFINE P == {U \in SUBSET T : U = {} \/ \E n \in U : \A m \in U : m <= n}
<1>1. {} \in P
  OBVIOUS
<1>2. ASSUME NEW U \in SUBSET T, NEW x \in T \ U, U \in P PROVE U \union {x} \in P
  <2>1. CASE U = {}
    BY <2>1
  <2>2. CASE \E n \in U : \A m \in U : m <= n
    <3>1. PICK n \in U : \A m \in U : m <= n
      BY <2>2
    <3>2. CASE x <= n
      BY <3>1, <3>2
    <3>3. CASE n < x
      BY <3>1, <3>3
    <3> QED
      BY <3>2, <3>3
  <2> QED
    BY <1>2, <2>1, <2>2
<1> HIDE DEF P
<1>3. T \in P
  BY <1>1, <1>2, SetInduction
<1>4. \E n \in T : \A m \in T : n >= m
  BY <1>3 DEF P
<1> QED
  BY <1>4 DEF Max

LEMMA LeastOf ==
  ASSUME NEW T, T \subseteq Nat, T # {}
  PROVE  Min(T) \in T /\ \A m \in T : Min(T) <= m
BY LeastNatural DEF Min

\* The library minimum of two integers.
LEMMA MinPair == \A a, b \in Int : Min({a, b}) = IF a <= b THEN a ELSE b
<1> SUFFICES ASSUME NEW a \in Int, NEW b \in Int PROVE Min({a, b}) = IF a <= b THEN a ELSE b
  OBVIOUS
<1> DEFINE m == IF a <= b THEN a ELSE b
<1>1. m \in {a, b} /\ \A y \in {a, b} : m <= y
  OBVIOUS
<1>2. \A x \in {a, b} : (\A y \in {a, b} : x <= y) => x = m
  OBVIOUS
<1> HIDE DEF m
<1> QED
  BY <1>1, <1>2 DEF Min

\* The library maximum of two integers.
LEMMA MaxPair == \A a, b \in Int : Max({a, b}) = IF a >= b THEN a ELSE b
<1> SUFFICES ASSUME NEW a \in Int, NEW b \in Int PROVE Max({a, b}) = IF a >= b THEN a ELSE b
  OBVIOUS
<1> DEFINE m == IF a >= b THEN a ELSE b
<1>1. m \in {a, b} /\ \A y \in {a, b} : m >= y
  OBVIOUS
<1>2. \A x \in {a, b} : (\A y \in {a, b} : x >= y) => x = m
  OBVIOUS
<1> HIDE DEF m
<1> QED
  BY <1>1, <1>2 DEF Max

\* What division by a positive number returns.
LEMMA DivRule ==
  ASSUME NEW a \in Int, NEW b \in Nat \ {0}
  PROVE  a \div b \in Int /\ (a \div b) * b <= a /\ a < (a \div b) * b + b
OBVIOUS

\* Multiplication by a natural keeps an order.
LEMMA TimesMonotone ==
  ASSUME NEW a \in Int, NEW b \in Int, a <= b, NEW c \in Nat
  PROVE  a * c <= b * c
OBVIOUS

\* A share of q in Q of a cost C is a natural, at most C, and all of it when q is Q.
LEMMA Share ==
  ASSUME NEW C \in Nat, NEW Q \in Nat \ {0}, NEW q \in 0 .. Q
  PROVE  (C * q) \div Q \in 0 .. C /\ (q = Q => (C * q) \div Q = C)
<1> DEFINE x == (C * q) \div Q
<1>1. x \in Int /\ x * Q <= C * q /\ C * q < x * Q + Q
  <2>1. C * q \in Int
    OBVIOUS
  <2> HIDE DEF x
  <2> QED
  BY <2>1, DivRule DEF x
<1>2. C * q >= 0 /\ C * q <= C * Q
  <2>1. q * C <= Q * C /\ 0 * C <= q * C
    BY TimesMonotone
  <2> QED
    BY <2>1
<1> HIDE DEF x
<1>3. x >= 0
  <2> SUFFICES ASSUME x <= -1 PROVE FALSE
    BY <1>1
  <2>1. x * Q <= (-1) * Q
    BY <1>1, TimesMonotone
  <2> QED
    BY <1>1, <1>2, <2>1
<1>4. x <= C
  <2> SUFFICES ASSUME C + 1 <= x PROVE FALSE
    BY <1>1
  <2>1. (C + 1) * Q <= x * Q
    BY <1>1, TimesMonotone
  <2>2. (C + 1) * Q = C * Q + Q
    OBVIOUS
  <2> QED
    BY <1>1, <1>2, <2>1, <2>2
<1>5. q = Q => x = C
  <2> SUFFICES ASSUME q = Q, x <= C - 1 PROVE FALSE
    BY <1>1, <1>4
  <2>1. x * Q <= (C - 1) * Q
    BY <1>1, TimesMonotone
  <2>2. (C - 1) * Q = C * Q - Q
    OBVIOUS
  <2> QED
    BY <1>1, <2>1, <2>2
<1> QED
  BY <1>1, <1>3, <1>4, <1>5 DEF x

-----------------------------------------------------------------------------
\* A fold over a sequence is a function of the places it has taken.
Folds(h, n, V, base, g) ==
  /\ h \in [SUBSET (1 .. n) -> V]
  /\ \A s \in SUBSET (1 .. n) : h[s] = IF s = {} THEN base ELSE g[<<Max(s), h[s \ {Max(s)}]>>]

LEMMA FoldExists ==
  ASSUME NEW n \in Nat, NEW V, NEW base \in V, NEW g, \A i \in 1 .. n, v \in V : g[<<i, v>>] \in V
  PROVE  \E h : Folds(h, n, V, base, g)
<1> DEFINE Step(h, s) == IF s = {} THEN base ELSE g[<<Max(s), h[s \ {Max(s)}]>>]
           Upto(k) == \E h \in [SUBSET (1 .. k) -> V] : \A s \in SUBSET (1 .. k) : h[s] = Step(h, s)
           P == {k \in Nat : k <= n => Upto(k)}
<1>1. 0 \in P
  <2>1. SUBSET (1 .. 0) = {{}}
    OBVIOUS
  <2> DEFINE h == [s \in SUBSET (1 .. 0) |-> base]
  <2>2. h \in [SUBSET (1 .. 0) -> V] /\ \A s \in SUBSET (1 .. 0) : h[s] = Step(h, s)
    BY <2>1
  <2> QED
    BY <2>2
<1>2. ASSUME NEW k \in Nat, k \in P PROVE k + 1 \in P
  <2> HIDE DEF Upto
  <2> SUFFICES ASSUME k + 1 <= n PROVE Upto(k + 1)
    OBVIOUS
  <2>0. Upto(k)
    BY <1>2
  <2>1. PICK h \in [SUBSET (1 .. k) -> V] : \A s \in SUBSET (1 .. k) : h[s] = Step(h, s)
    BY <2>0 DEF Upto
  <2> DEFINE t == [s \in SUBSET (1 .. k + 1) |-> IF k + 1 \in s THEN g[<<k + 1, h[s \ {k + 1}]>>] ELSE h[s]]
  <2>2. \A s \in SUBSET (1 .. k + 1) : s \ {k + 1} \in SUBSET (1 .. k)
    <3>1. \A i \in 1 .. k + 1 : i # k + 1 => i \in 1 .. k
      OBVIOUS
    <3> QED
      BY <3>1
  <2>3. k + 1 \in 1 .. n
    OBVIOUS
  <2>4. t \in [SUBSET (1 .. k + 1) -> V]
    <3> SUFFICES ASSUME NEW s \in SUBSET (1 .. k + 1)
                 PROVE  (IF k + 1 \in s THEN g[<<k + 1, h[s \ {k + 1}]>>] ELSE h[s]) \in V
      OBVIOUS
    <3>1. h[s \ {k + 1}] \in V /\ (k + 1 \notin s => h[s] \in V)
      <4>1. k + 1 \notin s => s \in SUBSET (1 .. k)
        BY <2>2
      <4> QED
        BY <2>1, <2>2, <4>1
    <3> QED
      BY <2>3, <3>1
  <2>5. \A s \in SUBSET (1 .. k) : t[s] = h[s] /\ k + 1 \notin s
    <3> SUFFICES ASSUME NEW s \in SUBSET (1 .. k) PROVE t[s] = h[s] /\ k + 1 \notin s
      OBVIOUS
    <3>1. k + 1 \notin 1 .. k /\ 1 .. k \subseteq 1 .. k + 1
      OBVIOUS
    <3>2. k + 1 \notin s /\ s \in SUBSET (1 .. k + 1)
      BY <3>1
    <3> QED
      BY <3>2
  <2>6. ASSUME NEW s \in SUBSET (1 .. k + 1) PROVE t[s] = Step(t, s)
    <3>1. CASE k + 1 \in s
      <4>1. Max(s) = k + 1
        <5>1. \A y \in s : k + 1 >= y
          OBVIOUS
        <5>2. \A x \in s : (\A y \in s : x >= y) => x = k + 1
          BY <3>1
        <5> QED
          BY <3>1, <5>1, <5>2 DEF Max
      <4>2. t[s] = g[<<k + 1, h[s \ {k + 1}]>>] /\ h[s \ {k + 1}] = t[s \ {k + 1}]
        BY <2>2, <2>5, <3>1
      <4> HIDE DEF t
      <4> QED
        BY <3>1, <4>1, <4>2
    <3>2. CASE k + 1 \notin s
      <4>1. s \in SUBSET (1 .. k)
        BY <2>2, <3>2
      <4>2. t[s] = Step(h, s)
        BY <2>1, <2>5, <4>1
      <4>3. s # {} => s \ {Max(s)} \in SUBSET (1 .. k)
        BY <4>1
      <4>4. s # {} => t[s \ {Max(s)}] = h[s \ {Max(s)}]
        BY <2>5, <4>3
      <4> HIDE DEF t
      <4> QED
        BY <4>2, <4>4
    <3> QED
      BY <3>1, <3>2
  <2> HIDE DEF t, Step
  <2> QED
    BY <2>4, <2>6 DEF Upto
<1>3. n \in P
  <2> HIDE DEF P
  <2> QED
    BY <1>1, <1>2, NaturalInduction
<1>4. Upto(n)
  <2> HIDE DEF Upto
  <2> QED
    BY <1>3
<1> QED
  BY <1>4 DEF Folds
=============================================================================
