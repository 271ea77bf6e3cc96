---------------------------- MODULE Foundations -----------------------------
(***************************************************************************)
(* Facts that the proofs of several components rest on: induction over the *)
(* natural numbers and over the sizes of finite sets, with the induction   *)
(* hypothesis given as a set rather than as an operator, products and      *)
(* quotients, sums, and ranks.                                             *)
(***************************************************************************)
EXTENDS Sums, FiniteSets, Functions, FiniteSetTheorems, WellFoundedInduction, TLAPS

(* A set of numbers that has 0, and with every number the next one, has all of them. *)
LEMMA NatSetInduction ==
    ASSUME NEW S, 0 \in S, \A n \in Nat : n \in S => n + 1 \in S
    PROVE  Nat \subseteq S
  <1> DEFINE T == Nat \ S
             R == {ss \in Nat \X Nat : ss[1] < ss[2]}
  <1> SUFFICES ASSUME T # {} PROVE FALSE
    OBVIOUS
  <1>1. OpToRel(<, Nat) = R
    BY Zenon DEF OpToRel
  <1>2. PICK m \in T : \A y \in T : ~ (<<y, m>> \in R)
    <2>1. IsWellFoundedOn(R, Nat) /\ T \subseteq Nat
      BY <1>1, NatLessThanWellFounded
    <2> HIDE DEF R, T
    <2> QED BY <2>1, WFMin, ZenonT(40)
  <1>3. ASSUME NEW y \in T PROVE ~ (y < m)
    <2>1. <<y, m>> \notin R
      BY <1>2
    <2>2. <<y, m>> \in Nat \X Nat /\ <<y, m>>[1] = y /\ <<y, m>>[2] = m
      OBVIOUS
    <2> QED BY <2>1, <2>2
  <1>4. m \in Nat /\ m # 0
    OBVIOUS
  <1>5. m - 1 \in Nat /\ m - 1 < m
    BY <1>4
  <1>6. m - 1 \in S /\ m - 1 + 1 = m
    BY <1>3, <1>4, <1>5
  <1> QED BY <1>2, <1>4, <1>5, <1>6

-----------------------------------------------------------------------------
(* Products and quotients. *)

(* Multiplication of naturals is monotone. *)
LEMMA TimesMonotone ==
    ASSUME NEW a \in Nat, NEW b \in Nat, NEW c \in Nat, a <= b
    PROVE  c * a \in Nat /\ c * a <= c * b
  <1>1. PICK d \in Nat : b = a + d
    <2>1. b - a \in Nat /\ b = a + (b - a)
      OBVIOUS
    <2> QED BY <2>1
  <1>2. c * b = c * a + c * d
    BY <1>1
  <1>3. c * d \in Nat /\ c * a \in Nat
    BY <1>1
  <1> QED BY <1>1, <1>2, <1>3

(* Division with remainder. *)
LEMMA DivMod ==
    ASSUME NEW a \in Nat, NEW d \in Nat \ {0}
    PROVE  a = d * (a \div d) + (a % d) /\ a % d \in 0 .. d - 1 /\ a \div d \in Nat
  OBVIOUS

(* And its converse: what is written as quotient and remainder is that quotient. *)
LEMMA QuotientIs ==
    ASSUME NEW a \in Nat, NEW d \in Nat \ {0}, NEW q \in Nat, NEW r \in 0 .. d - 1, a = d * q + r
    PROVE  a \div d = q
  OBVIOUS

(* Of two products with one factor in common, the smaller has the smaller other factor. *)
LEMMA TimesCancel ==
    ASSUME NEW a \in Nat, NEW b \in Nat, NEW c \in Nat, c * a < c * b
    PROVE  a < b
  <1> SUFFICES ASSUME b <= a PROVE FALSE
    OBVIOUS
  <1>1. PICK d \in Nat : a = b + d
    <2>1. a - b \in Nat /\ a = b + (a - b)
      OBVIOUS
    <2> QED BY <2>1
  <1>2. c * a = c * b + c * d
    BY <1>1
  <1>3. c * d \in Nat /\ c * b \in Nat
    BY <1>1
  <1> QED BY <1>2, <1>3

-----------------------------------------------------------------------------
(* Sums. *)
Chosen(T) == CHOOSE x \in T : TRUE

(* g gives the sums of f over the subsets of S that are in D. *)
SumsOver(g, f, D) == g = [T \in D |-> IF T = {} THEN 0 ELSE f[Chosen(T)] + g[T \ {Chosen(T)}]]

PartialSums(f, S) == CHOOSE g : SumsOver(g, f, SUBSET S)

LEMMA SumOfDef ==
    ASSUME NEW f, NEW S
    PROVE  SumOf(f, S) = PartialSums(f, S)[S]
  BY Zenon DEF SumOf, MapThenFoldSet, PartialSums, SumsOver, Chosen

(* Subsets of a finite set, by size. *)
UpTo(S, n) == {T \in SUBSET S : Cardinality(T) <= n}

LEMMA SizesOfSubsets ==
    ASSUME NEW S, IsFiniteSet(S)
    PROVE  /\ Cardinality(S) \in Nat /\ UpTo(S, Cardinality(S)) = SUBSET S
           /\ \A T \in SUBSET S : /\ IsFiniteSet(T) /\ Cardinality(T) \in Nat
                                  /\ Cardinality(T) = 0 <=> T = {}
                                  /\ \A x \in T : Cardinality(T \ {x}) = Cardinality(T) - 1
  <1>1. \A T \in SUBSET S : IsFiniteSet(T) /\ Cardinality(T) <= Cardinality(S)
    BY FS_Subset
  <1>2. \A T \in SUBSET S : Cardinality(T) \in Nat
    BY <1>1, FS_CardinalityType
  <1>3. \A T \in SUBSET S : Cardinality(T) = 0 <=> T = {}
    BY <1>1, FS_EmptySet
  <1>4. \A T \in SUBSET S : \A x \in T : Cardinality(T \ {x}) = Cardinality(T) - 1
    BY <1>1, FS_RemoveElement
  <1> QED BY <1>1, <1>2, <1>3, <1>4 DEF UpTo

LEMMA ChosenIn ==
    ASSUME NEW T, T # {}
    PROVE  Chosen(T) \in T
  BY DEF Chosen

(* Sums exist: over subsets of at most n elements for every n, hence over all subsets. *)
LEMMA SumsExist ==
    ASSUME NEW f, NEW S, IsFiniteSet(S)
    PROVE  SumsOver(PartialSums(f, S), f, SUBSET S)
  <1> DEFINE N == {n \in Nat : \E g : SumsOver(g, f, UpTo(S, n))}
  <1>1. 0 \in N
    <2> DEFINE g == [T \in UpTo(S, 0) |-> 0]
    <2>1. \A T \in UpTo(S, 0) : T = {}
      BY SizesOfSubsets DEF UpTo
    <2>2. SumsOver(g, f, UpTo(S, 0))
      BY <2>1 DEF SumsOver
    <2> QED BY <2>2
  <1>2. ASSUME NEW n \in Nat, n \in N PROVE n + 1 \in N
    <2>1. PICK g : SumsOver(g, f, UpTo(S, n))
      BY <1>2
    <2> DEFINE h == [T \in UpTo(S, n + 1) |-> IF T = {} THEN 0
                                              ELSE f[Chosen(T)] + g[T \ {Chosen(T)}]]
    <2>2. \A T \in UpTo(S, n) : T \in UpTo(S, n + 1) /\ h[T] = g[T]
      <3>1. \A T \in UpTo(S, n) : T \in UpTo(S, n + 1)
        BY SizesOfSubsets DEF UpTo
      <3>2. \A T \in UpTo(S, n) :
                g[T] = IF T = {} THEN 0 ELSE f[Chosen(T)] + g[T \ {Chosen(T)}]
        BY <2>1 DEF SumsOver
      <3> QED BY <3>1, <3>2
    <2>3. \A T \in UpTo(S, n + 1) : T # {} => T \ {Chosen(T)} \in UpTo(S, n)
      <3> SUFFICES ASSUME NEW T \in UpTo(S, n + 1), T # {} PROVE T \ {Chosen(T)} \in UpTo(S, n)
        OBVIOUS
      <3>1. Chosen(T) \in T /\ T \in SUBSET S /\ Cardinality(T) <= n + 1
        BY ChosenIn DEF UpTo
      <3>2. Cardinality(T \ {Chosen(T)}) = Cardinality(T) - 1 /\ Cardinality(T) \in Nat
        BY <3>1, SizesOfSubsets
      <3> QED BY <3>1, <3>2 DEF UpTo
    <2>4. \A T \in UpTo(S, n + 1) :
              h[T] = IF T = {} THEN 0 ELSE f[Chosen(T)] + h[T \ {Chosen(T)}]
      BY <2>2, <2>3
    <2>5. SumsOver(h, f, UpTo(S, n + 1))
      BY <2>4 DEF SumsOver
    <2> QED BY <2>5
  <1>3. Cardinality(S) \in N
    <2> HIDE DEF N
    <2> QED BY <1>1, <1>2, NatSetInduction, SizesOfSubsets
  <1>4. \E g : SumsOver(g, f, SUBSET S)
    <2>1. \E g : SumsOver(g, f, UpTo(S, Cardinality(S)))
      BY <1>3
    <2>2. UpTo(S, Cardinality(S)) = SUBSET S
      BY SizesOfSubsets
    <2> QED BY <2>1, <2>2
  <1> QED BY <1>4 DEF PartialSums

(* The first step of a sum. *)
LEMMA SumStep ==
    ASSUME NEW f, NEW S, IsFiniteSet(S), NEW T \in SUBSET S
    PROVE  PartialSums(f, S)[T] = IF T = {} THEN 0
                                  ELSE f[Chosen(T)] + PartialSums(f, S)[T \ {Chosen(T)}]
  <1>1. SumsOver(PartialSums(f, S), f, SUBSET S)
    BY SumsExist
  <1> HIDE DEF PartialSums
  <1> DEFINE g == PartialSums(f, S)
  <1>2. g = [U \in SUBSET S |-> IF U = {} THEN 0 ELSE f[Chosen(U)] + g[U \ {Chosen(U)}]]
    BY <1>1 DEF SumsOver
  <1> HIDE DEF g
  <1>3. g[T] = IF T = {} THEN 0 ELSE f[Chosen(T)] + g[T \ {Chosen(T)}]
    BY <1>2
  <1> QED BY <1>3 DEF g

(* Sums of integers are integers, sums of functions that agree are equal, and an element may be
   taken out of a sum first, whichever it is. *)
LEMMA SumFacts ==
    ASSUME NEW S, IsFiniteSet(S), NEW f, \A x \in S : f[x] \in Int
    PROVE  /\ \A T \in SUBSET S : PartialSums(f, S)[T] \in Int
           /\ \A T \in SUBSET S : \A x \in T :
                  PartialSums(f, S)[T] = f[x] + PartialSums(f, S)[T \ {x}]
  <1> DEFINE g == PartialSums(f, S)
             Good(T) == g[T] \in Int /\ \A x \in T : g[T] = f[x] + g[T \ {x}]
             N == {n \in Nat : \A T \in UpTo(S, n) : Good(T)}
  <1>0. \A T \in SUBSET S : g[T] = IF T = {} THEN 0 ELSE f[Chosen(T)] + g[T \ {Chosen(T)}]
    BY SumStep
  <1> HIDE DEF g
  <1>1. 0 \in N
    <2>1. \A T \in UpTo(S, 0) : T = {} /\ T \in SUBSET S
      BY SizesOfSubsets DEF UpTo
    <2>2. \A T \in UpTo(S, 0) : g[T] = 0
      BY <1>0, <2>1
    <2> QED BY <2>1, <2>2
  <1>2. ASSUME NEW n \in Nat, n \in N PROVE n + 1 \in N
    <2> SUFFICES ASSUME NEW T \in UpTo(S, n + 1) PROVE Good(T)
      OBVIOUS
    <2>1. T \in SUBSET S /\ Cardinality(T) <= n + 1 /\ Cardinality(T) \in Nat
      BY SizesOfSubsets DEF UpTo
    <2>2. CASE T = {}
      BY <1>0, <2>1, <2>2
    <2>3. CASE T # {}
      <3> DEFINE c == Chosen(T)
      <3>1. c \in T /\ g[T] = f[c] + g[T \ {c}]
        BY <1>0, <2>1, <2>3, ChosenIn
      <3> HIDE DEF c
      <3>2. \A x \in T : T \ {x} \in UpTo(S, n)
        BY <2>1, SizesOfSubsets DEF UpTo
      <3>3. \A x \in T : Good(T \ {x})
        BY <1>2, <3>2
      <3>4. f[c] \in Int /\ g[T \ {c}] \in Int
        BY <2>1, <3>1, <3>3
      <3>5. ASSUME NEW x \in T, x # c PROVE g[T] = f[x] + g[T \ {x}]
        <4> DEFINE U == (T \ {c}) \ {x}
        <4>1. U = (T \ {x}) \ {c} /\ c \in T \ {x} /\ x \in T \ {c}
          BY <3>1, <3>5
        <4>2. g[T \ {c}] = f[x] + g[U]
          BY <3>1, <3>3, <4>1
        <4>3. g[T \ {x}] = f[c] + g[U]
          BY <3>3, <4>1
        <4>4. U \in UpTo(S, n)
          <5>1. Cardinality(U) = Cardinality(T \ {c}) - 1 /\ Cardinality(T \ {c}) <= n
                /\ Cardinality(T \ {c}) \in Nat /\ U \in SUBSET S
            BY <2>1, <3>1, <3>2, <4>1, SizesOfSubsets DEF UpTo
          <5> QED BY <5>1, SizesOfSubsets DEF UpTo
        <4>5. f[x] \in Int /\ g[U] \in Int
          BY <1>2, <2>1, <4>4
        <4> HIDE DEF U
        <4> QED BY <3>1, <3>4, <4>2, <4>3, <4>5
      <3>6. g[T] \in Int
        BY <3>1, <3>4
      <3>7. \A x \in T : g[T] = f[x] + g[T \ {x}]
        BY <3>1, <3>5
      <3> QED BY <3>6, <3>7
    <2> QED BY <2>2, <2>3
  <1>3. Cardinality(S) \in N
    <2> HIDE DEF N
    <2> QED BY <1>1, <1>2, NatSetInduction, SizesOfSubsets
  <1>4. \A T \in SUBSET S : Good(T)
    BY <1>3, SizesOfSubsets
  <1> QED BY <1>4 DEF g

LEMMA SumAgree ==
    ASSUME NEW R, NEW S, IsFiniteSet(R), IsFiniteSet(S), R \subseteq S, NEW f, NEW h,
           \A x \in R : f[x] = h[x]
    PROVE  PartialSums(f, R)[R] = PartialSums(h, S)[R]
  <1> DEFINE p == PartialSums(f, R)
             q == PartialSums(h, S)
             N == {n \in Nat : \A T \in UpTo(R, n) : p[T] = q[T]}
  <1>0. \A T \in SUBSET R :
            /\ p[T] = IF T = {} THEN 0 ELSE f[Chosen(T)] + p[T \ {Chosen(T)}]
            /\ q[T] = IF T = {} THEN 0 ELSE h[Chosen(T)] + q[T \ {Chosen(T)}]
    <2> TAKE T \in SUBSET R
    <2>1. T \in SUBSET S
      OBVIOUS
    <2>2. p[T] = IF T = {} THEN 0 ELSE f[Chosen(T)] + p[T \ {Chosen(T)}]
      BY SumStep
    <2>3. q[T] = IF T = {} THEN 0 ELSE h[Chosen(T)] + q[T \ {Chosen(T)}]
      BY <2>1, SumStep
    <2> QED BY <2>2, <2>3
  <1> HIDE DEF p, q
  <1>1. 0 \in N
    <2>1. \A T \in UpTo(R, 0) : T = {} /\ T \in SUBSET R
      BY SizesOfSubsets DEF UpTo
    <2> QED BY <1>0, <2>1
  <1>2. ASSUME NEW n \in Nat, n \in N PROVE n + 1 \in N
    <2> SUFFICES ASSUME NEW T \in UpTo(R, n + 1) PROVE p[T] = q[T]
      OBVIOUS
    <2>1. T \in SUBSET R /\ Cardinality(T) <= n + 1 /\ Cardinality(T) \in Nat
      BY SizesOfSubsets DEF UpTo
    <2>2. CASE T = {}
      BY <1>0, <2>1, <2>2
    <2>3. CASE T # {}
      <3>1. Chosen(T) \in T
        BY <2>3, ChosenIn
      <3>2. T \ {Chosen(T)} \in UpTo(R, n)
        BY <2>1, <3>1, SizesOfSubsets DEF UpTo
      <3>3. p[T \ {Chosen(T)}] = q[T \ {Chosen(T)}] /\ f[Chosen(T)] = h[Chosen(T)]
        BY <1>2, <2>1, <3>1, <3>2
      <3> QED BY <1>0, <2>1, <2>3, <3>3
    <2> QED BY <2>2, <2>3
  <1>3. Cardinality(R) \in N
    <2> HIDE DEF N
    <2> QED BY <1>1, <1>2, NatSetInduction, SizesOfSubsets
  <1>4. p[R] = q[R]
    BY <1>3, SizesOfSubsets
  <1> QED BY <1>4 DEF p, q

(* What is used of sums elsewhere. *)
LEMMA SumEmpty ==
    ASSUME NEW f
    PROVE  SumOf(f, {}) = 0
  BY SumOfDef, SumStep, FS_EmptySet

LEMMA SumType ==
    ASSUME NEW S, IsFiniteSet(S), NEW f, \A x \in S : f[x] \in Int
    PROVE  SumOf(f, S) \in Int
  BY SumOfDef, SumFacts

(* The sum over S is that over S without x, and x's share. *)
LEMMA SumRemove ==
    ASSUME NEW S, IsFiniteSet(S), NEW f, \A x \in S : f[x] \in Int, NEW x \in S
    PROVE  SumOf(f, S) = f[x] + SumOf(f, S \ {x})
  <1>1. PartialSums(f, S)[S] = f[x] + PartialSums(f, S)[S \ {x}]
    BY SumFacts
  <1>2. PartialSums(f, S \ {x})[S \ {x}] = PartialSums(f, S)[S \ {x}]
    BY SumAgree, SizesOfSubsets
  <1> QED BY <1>1, <1>2, SumOfDef

(* Functions that agree on S have the same sum over S. *)
LEMMA SumEqual ==
    ASSUME NEW S, IsFiniteSet(S), NEW f, NEW h, \A x \in S : f[x] = h[x]
    PROVE  SumOf(f, S) = SumOf(h, S)
  BY SumAgree, SumOfDef

(* A change at x changes the sum by as much. *)
LEMMA SumUpdate ==
    ASSUME NEW S, IsFiniteSet(S), NEW f, NEW h, NEW x \in S,
           \A y \in S : f[y] \in Int /\ h[y] \in Int, \A y \in S \ {x} : f[y] = h[y]
    PROVE  SumOf(h, S) = SumOf(f, S) + h[x] - f[x]
  <1>1. IsFiniteSet(S \ {x})
    BY FS_RemoveElement
  <1>2. SumOf(f, S) = f[x] + SumOf(f, S \ {x}) /\ SumOf(h, S) = h[x] + SumOf(h, S \ {x})
    BY SumRemove
  <1>3. SumOf(f, S \ {x}) = SumOf(h, S \ {x}) /\ SumOf(f, S \ {x}) \in Int
    BY <1>1, SumEqual, SumType
  <1> QED BY <1>2, <1>3

(* A sum of natural numbers is one, and no smaller than any of them. *)
LEMMA SumNat ==
    ASSUME NEW S, IsFiniteSet(S), NEW f, \A x \in S : f[x] \in Nat
    PROVE  SumOf(f, S) \in Nat /\ \A x \in S : f[x] <= SumOf(f, S)
  <1> DEFINE N == {n \in Nat : \A T \in UpTo(S, n) : SumOf(f, T) \in Nat}
  <1>1. 0 \in N
    <2>1. \A T \in UpTo(S, 0) : T = {}
      BY SizesOfSubsets DEF UpTo
    <2>2. SumOf(f, {}) = 0
      BY SumEmpty
    <2>3. \A T \in UpTo(S, 0) : SumOf(f, T) = 0
      BY <2>1, <2>2, Zenon
    <2> QED BY <2>3
  <1>2. ASSUME NEW n \in Nat, n \in N PROVE n + 1 \in N
    <2> SUFFICES ASSUME NEW T \in UpTo(S, n + 1) PROVE SumOf(f, T) \in Nat
      OBVIOUS
    <2>0. SumOf(f, {}) \in Nat
      BY SumEmpty
    <2> SUFFICES ASSUME T # {} PROVE SumOf(f, T) \in Nat
      BY <2>0, Zenon
    <2>1. PICK x \in T : TRUE
      OBVIOUS
    <2>2. T \in SUBSET S /\ IsFiniteSet(T) /\ T \ {x} \in UpTo(S, n)
      BY SizesOfSubsets DEF UpTo
    <2>3. SumOf(f, T) = f[x] + SumOf(f, T \ {x})
      BY <2>2, SumRemove
    <2> QED BY <1>2, <2>2, <2>3
  <1>3. Cardinality(S) \in N
    <2> HIDE DEF N
    <2> QED BY <1>1, <1>2, NatSetInduction, SizesOfSubsets
  <1>4. \A T \in SUBSET S : SumOf(f, T) \in Nat
    BY <1>3, SizesOfSubsets
  <1>5. \A x \in S : SumOf(f, S) = f[x] + SumOf(f, S \ {x})
    BY SumRemove
  <1>6. SumOf(f, S) \in Nat /\ \A x \in S : SumOf(f, S \ {x}) \in Nat
    BY <1>4
  <1>7. ASSUME NEW x \in S PROVE f[x] <= SumOf(f, S)
    <2> DEFINE r == SumOf(f, S \ {x})
               t == SumOf(f, S)
    <2>1. t = f[x] + r /\ r \in Nat /\ f[x] \in Nat
      BY <1>5, <1>6
    <2> HIDE DEF r, t
    <2>2. f[x] <= t
      BY <2>1
    <2> QED BY <2>2 DEF t
  <1> QED BY <1>6, <1>7

(* A sum of zeros is zero. *)
LEMMA SumZero ==
    ASSUME NEW S, IsFiniteSet(S), NEW f, \A x \in S : f[x] = 0
    PROVE  SumOf(f, S) = 0
  <1> DEFINE N == {n \in Nat : \A T \in UpTo(S, n) : SumOf(f, T) = 0}
  <1>0. SumOf(f, {}) = 0
    BY SumEmpty
  <1>1. 0 \in N
    <2>1. \A T \in UpTo(S, 0) : T = {}
      BY SizesOfSubsets DEF UpTo
    <2>2. \A T \in UpTo(S, 0) : SumOf(f, T) = 0
      BY <1>0, <2>1, Zenon
    <2> QED BY <2>2
  <1>2. ASSUME NEW n \in Nat, n \in N PROVE n + 1 \in N
    <2> SUFFICES ASSUME NEW T \in UpTo(S, n + 1) PROVE SumOf(f, T) = 0
      OBVIOUS
    <2> SUFFICES ASSUME T # {} PROVE SumOf(f, T) = 0
      BY <1>0, Zenon
    <2>1. PICK x \in T : TRUE
      OBVIOUS
    <2>2. T \in SUBSET S /\ IsFiniteSet(T) /\ T \ {x} \in UpTo(S, n)
      BY SizesOfSubsets DEF UpTo
    <2>3. SumOf(f, T) = f[x] + SumOf(f, T \ {x})
      BY <2>2, SumRemove
    <2> QED BY <1>2, <2>2, <2>3
  <1>3. Cardinality(S) \in N
    <2> HIDE DEF N
    <2> QED BY <1>1, <1>2, NatSetInduction, SizesOfSubsets
  <1> QED BY <1>3, SizesOfSubsets

-----------------------------------------------------------------------------
(* Ranking. *)

(* The elements of S that come before h in the order R. *)
Below(R, S, h) == {g \in S : <<g, h>> \in R}

StrictOrder(R, S) ==
    /\ \A x \in S : <<x, x>> \notin R
    /\ \A x, y, z \in S : <<x, y>> \in R /\ <<y, z>> \in R => <<x, z>> \in R
    /\ \A x, y \in S : x = y \/ <<x, y>> \in R \/ <<y, x>> \in R

(* rank numbers S in the order R. *)
Numbering(rank, R, S) ==
    /\ \A h \in S : rank[h] \in Nat
    /\ \A g, h \in S : <<g, h>> \in R => rank[g] < rank[h]

(* In a finite set with a strict total order, the number of elements below an element is a
   numbering of the set from 0 in that order. *)
LEMMA Ranking ==
    ASSUME NEW S, IsFiniteSet(S), NEW R, StrictOrder(R, S)
    PROVE  /\ Cardinality(S) \in Nat
           /\ Numbering([h \in S |-> Cardinality(Below(R, S, h))], R, S)
           /\ \A k \in 0 .. Cardinality(S) - 1 : \E h \in S : Cardinality(Below(R, S, h)) = k
  <1> USE DEF StrictOrder
  <1> DEFINE n == Cardinality(S)
             rank == [h \in S |-> Cardinality(Below(R, S, h))]
             T == 0 .. n - 1
  <1>1. n \in Nat
    BY FS_CardinalityType
  <1>2. \A h \in S : IsFiniteSet(Below(R, S, h)) /\ Cardinality(Below(R, S, h)) \in Nat
    <2> TAKE h \in S
    <2>1. Below(R, S, h) \in SUBSET S
      BY DEF Below
    <2>2. IsFiniteSet(Below(R, S, h))
      BY <2>1, FS_Subset
    <2> QED BY <2>2, FS_CardinalityType
  <1>3. ASSUME NEW h \in S PROVE Cardinality(Below(R, S, h)) \in T
    <2>1. Below(R, S, h) \in SUBSET (S \ {h})
      BY DEF Below
    <2>2. IsFiniteSet(S \ {h}) /\ Cardinality(S \ {h}) = n - 1
      BY FS_RemoveElement
    <2>3. Cardinality(Below(R, S, h)) <= n - 1
      BY <2>1, <2>2, FS_Subset
    <2> HIDE DEF n
    <2> QED BY <1>1, <1>2, <2>3
  <1>4. ASSUME NEW g \in S, NEW h \in S, <<g, h>> \in R
        PROVE  Cardinality(Below(R, S, g)) < Cardinality(Below(R, S, h))
    <2>1. Below(R, S, g) \cup {g} \in SUBSET Below(R, S, h) /\ g \notin Below(R, S, g)
      BY <1>4 DEF Below
    <2>2. Cardinality(Below(R, S, g) \cup {g}) = Cardinality(Below(R, S, g)) + 1
      BY <1>2, <2>1, FS_AddElement
    <2>3. Cardinality(Below(R, S, g) \cup {g}) <= Cardinality(Below(R, S, h))
      BY <1>2, <2>1, FS_Subset
    <2> QED BY <1>2, <2>2, <2>3
  <1>5. rank \in Injection(S, T)
    <2>1. rank \in [S -> T]
      BY <1>3
    <2>2. ASSUME NEW g \in S, NEW h \in S, rank[g] = rank[h] PROVE g = h
      <3>1. ~ (Cardinality(Below(R, S, g)) < Cardinality(Below(R, S, h)))
            /\ ~ (Cardinality(Below(R, S, h)) < Cardinality(Below(R, S, g)))
        BY <1>2, <2>2
      <3> QED BY <1>4, <3>1
    <2> HIDE DEF rank, T
    <2> QED BY <2>1, <2>2 DEF Injection, IsInjective
  <1>6. IsFiniteSet(T) /\ Cardinality(T) = n
    <2>1. 0 \in Int /\ n - 1 \in Int
      BY <1>1
    <2>2. IsFiniteSet(0 .. n - 1) /\ Cardinality(0 .. n - 1) = IF 0 > n - 1 THEN 0 ELSE n - 1 - 0 + 1
      <3> HIDE DEF n
      <3> QED BY <2>1, FS_Interval
    <2> HIDE DEF n
    <2> QED BY <1>1, <2>2
  <1>7. rank \in Surjection(S, T)
    <2> HIDE DEF rank, T
    <2> QED BY <1>5, <1>6, FS_Injection
  <1>8. \A k \in T : \E h \in S : rank[h] = k
    <2> HIDE DEF rank, T
    <2> QED BY <1>7 DEF Surjection
  <1>9. Numbering(rank, R, S)
    BY <1>2, <1>4 DEF Numbering
  <1> QED BY <1>1, <1>8, <1>9

(* p picks the elements with the first n ranks. *)
PicksRanks(p, n, rank, S) == \A k \in 1 .. n : p[k] \in S /\ rank[p[k]] = k - 1

(* The elements with the first n ranks come in the order R, and before all others. *)
LEMMA FirstRanks ==
    ASSUME NEW S, NEW R, NEW rank, NEW n \in Nat, NEW p,
           StrictOrder(R, S), Numbering(rank, R, S), PicksRanks(p, n, rank, S)
    PROVE  /\ \A k \in 1 .. n : p[k] \in S
           /\ \A j, k \in 1 .. n : j < k => <<p[j], p[k]>> \in R /\ p[j] # p[k]
           /\ \A h \in S : (\A j \in 1 .. n : p[j] # h) => \A k \in 1 .. n : <<p[k], h>> \in R
  <1> USE DEF StrictOrder, Numbering, PicksRanks
  <1>1. ASSUME NEW g \in S, NEW h \in S, rank[g] < rank[h] PROVE <<g, h>> \in R /\ g # h
    <2>1. g # h /\ ~ (rank[h] < rank[g])
      BY <1>1
    <2> QED BY <2>1
  <1>2. ASSUME NEW j \in 1 .. n, NEW k \in 1 .. n, j < k PROVE <<p[j], p[k]>> \in R /\ p[j] # p[k]
    <2>1. rank[p[j]] < rank[p[k]]
      BY <1>2
    <2> QED BY <1>1, <2>1
  <1>3. ASSUME NEW h \in S, \A j \in 1 .. n : p[j] # h, NEW k \in 1 .. n PROVE <<p[k], h>> \in R
    <2>1. ~ (rank[h] < n)
      <3> SUFFICES ASSUME rank[h] < n PROVE FALSE
        OBVIOUS
      <3> DEFINE m == rank[h] + 1
      <3>1. m \in 1 .. n /\ m - 1 = rank[h]
        OBVIOUS
      <3> HIDE DEF m
      <3>2. p[m] \in S /\ rank[p[m]] = rank[h] /\ p[m] # h
        BY <1>3, <3>1
      <3>3. <<p[m], h>> \in R \/ <<h, p[m]>> \in R
        BY <3>2
      <3>4. rank[h] \in Nat
        OBVIOUS
      <3> QED BY <3>2, <3>3, <3>4
    <2>2. rank[p[k]] < rank[h]
      BY <2>1
    <2> QED BY <1>1, <2>2
  <1> QED BY <1>2, <1>3

(* The order in which transactions are pulled: dearer ones first, and of those that pay the same
   the one with the smaller hash. *)
Dearer(fee, g, h) == fee[g] > fee[h] \/ (fee[g] = fee[h] /\ g < h)

BestOf(fee, S, n) ==
    [k \in 1 .. n |-> CHOOSE h \in S : Cardinality({g \in S : Dearer(fee, g, h)}) = k - 1]

(* p lists n elements of S in that order, each once, and before all others. *)
Leads(p, n, fee, S) ==
    /\ \A k \in 1 .. n : p[k] \in S
    /\ \A j, k \in 1 .. n : j < k => Dearer(fee, p[j], p[k]) /\ p[j] # p[k]
    /\ \A h \in S : (\A j \in 1 .. n : p[j] # h) => \A k \in 1 .. n : Dearer(fee, p[k], h)

(* The first n of a finite set of numbers in that order: they come in that order, and before all
   that are left. *)
LEMMA BestFirst ==
    ASSUME NEW S, S \subseteq Nat, IsFiniteSet(S), NEW fee, \A h \in S : fee[h] \in Nat,
           NEW n \in Nat, n <= Cardinality(S)
    PROVE  Leads(BestOf(fee, S, n), n, fee, S)
  <1> DEFINE p == BestOf(fee, S, n)
             R == {d \in S \X S : Dearer(fee, d[1], d[2])}
             rank == [h \in S |-> Cardinality(Below(R, S, h))]
  <1>1. \A g, h \in S : <<g, h>> \in R <=> Dearer(fee, g, h)
    OBVIOUS
  <1>2. \A h \in S : Below(R, S, h) = {g \in S : Dearer(fee, g, h)}
    BY <1>1 DEF Below
  <1>3. StrictOrder(R, S)
    <2> HIDE DEF R
    <2>1. \A x, y \in S : fee[x] \in Nat /\ fee[y] \in Nat /\ x \in Nat /\ y \in Nat
      OBVIOUS
    <2>2. \A x \in S : ~ Dearer(fee, x, x)
      BY <2>1 DEF Dearer
    <2>3. \A x, y, z \in S : Dearer(fee, x, y) /\ Dearer(fee, y, z) => Dearer(fee, x, z)
      BY <2>1 DEF Dearer
    <2>4. \A x, y \in S : x = y \/ Dearer(fee, x, y) \/ Dearer(fee, y, x)
      BY <2>1 DEF Dearer
    <2> QED BY <1>1, <2>2, <2>3, <2>4 DEF StrictOrder
  <1> HIDE DEF R
  <1>4. /\ Cardinality(S) \in Nat /\ Numbering(rank, R, S)
        /\ \A k \in 0 .. Cardinality(S) - 1 : \E h \in S : Cardinality(Below(R, S, h)) = k
    BY <1>3, Ranking, SMTT(60)
  <1>5. ASSUME NEW k \in 1 .. n PROVE p[k] \in S /\ rank[p[k]] = k - 1
    <2>1. p[k] = CHOOSE h \in S : Cardinality({g \in S : Dearer(fee, g, h)}) = k - 1
      BY DEF BestOf
    <2>2. k - 1 \in 0 .. Cardinality(S) - 1
      BY <1>4
    <2>3. \A h \in S : rank[h] = Cardinality({g \in S : Dearer(fee, g, h)})
      BY <1>2
    <2> HIDE DEF rank
    <2>4. \E h \in S : Cardinality({g \in S : Dearer(fee, g, h)}) = k - 1
      BY <1>2, <1>4, <2>2
    <2>5. p[k] \in S /\ Cardinality({g \in S : Dearer(fee, g, p[k])}) = k - 1
      BY <2>1, <2>4
    <2> QED BY <2>3, <2>5
  <1> HIDE DEF rank
  <1>6. /\ \A k \in 1 .. n : p[k] \in S
        /\ \A j, k \in 1 .. n : j < k => <<p[j], p[k]>> \in R /\ p[j] # p[k]
        /\ \A h \in S : (\A j \in 1 .. n : p[j] # h) => \A k \in 1 .. n : <<p[k], h>> \in R
    <2>1. PicksRanks(p, n, rank, S)
      BY <1>5 DEF PicksRanks
    <2> QED BY <1>3, <1>4, <2>1, FirstRanks
  <1> QED BY <1>1, <1>6 DEF Leads
=============================================================================
