--------------------------- MODULE MempoolProofs ----------------------------
(***************************************************************************)
(* Proofs about Mempool, for every set of transactions, fees and capacity. *)
(* They rest on the eviction finding its victim: a finite or infinite pool *)
(* of naturals has an oldest transaction, ties broken by hash.             *)
(***************************************************************************)
EXTENDS Mempool, FiniteSetTheorems, WellFoundedInduction, TLAPS

(* A set of natural numbers that is not empty has a least element. *)
LEMMA LeastNatural ==
    ASSUME NEW T, T \subseteq Nat, T # {}
    PROVE  \E x \in T : \A y \in T : x <= y
  <1> DEFINE R == OpToRel(<, Nat)
  <1>1. PICK x \in T : \A y \in T : ~ (<<y, x>> \in R)
    <2>1. IsWellFoundedOn(R, Nat)
      BY NatLessThanWellFounded
    <2> HIDE DEF R
    <2> QED BY <2>1, WFMin
  <1>2. \A y \in T : ~ (y < x)
    BY <1>1 DEF OpToRel
  <1> QED BY <1>2

(* min_by_key finds a transaction of the pool, one that is older than all the others. *)
LEMMA OldestExists ==
    ASSUME PoolTypeOK, DOMAIN inner # {}
    PROVE  oldest_hash \in DOMAIN inner /\ \A h \in DOMAIN inner : Older(oldest_hash, h)
  <1> DEFINE D == DOMAIN inner
             Times == {inner[h] : h \in D}
  <1>1. D \subseteq Nat /\ \A h \in D : inner[h] \in Nat
    BY HashesAssumption, MillisAssumption DEF PoolTypeOK
  <1>2. PICK t \in Times : \A u \in Times : t <= u
    BY <1>1, LeastNatural
  <1> DEFINE First == {h \in D : inner[h] = t}
  <1>3. First # {} /\ First \subseteq Nat
    BY <1>1, <1>2
  <1>4. PICK g \in First : \A h \in First : g <= h
    BY <1>3, LeastNatural
  <1>5. \A h \in D : Older(g, h)
    <2> SUFFICES ASSUME NEW h \in D PROVE Older(g, h)
      OBVIOUS
    <2>1. inner[g] = t /\ t <= inner[h] /\ t \in Nat /\ inner[h] \in Nat
      BY <1>1, <1>2, <1>4
    <2>2. inner[h] = t => g <= h
      BY <1>4
    <2> QED BY <2>1, <2>2 DEF Older
  <1> QED BY <1>4, <1>5 DEF oldest_hash

(* The pool that submit leaves: one more, or one evicted for it. *)
LEMMA KeptBound ==
    ASSUME PoolTypeOK, IsFiniteSet(DOMAIN inner), WithinCap
    PROVE  /\ Kept \subseteq DOMAIN inner /\ IsFiniteSet(Kept)
           /\ Cardinality(Kept) + 1 <= (IF cap = 0 THEN 1 ELSE cap)
           /\ IsFiniteSet(DOMAIN inner \ Kept) /\ Cardinality(DOMAIN inner \ Kept) <= 1
           /\ DOMAIN inner \ Kept # {} => Cardinality(DOMAIN inner) >= cap
  <1> DEFINE D == DOMAIN inner
  <1>1. Cardinality(D) \in Nat /\ cap \in Nat /\ Cardinality(D) <= (IF cap = 0 THEN 1 ELSE cap)
    BY FS_CardinalityType, CapAssumption DEF WithinCap
  <1>2. CASE Cardinality(D) >= cap /\ D # {}
    <2>1. Kept = D \ {oldest_hash} /\ oldest_hash \in D
      BY <1>2, OldestExists DEF Kept
    <2>2. IsFiniteSet(Kept) /\ Cardinality(Kept) = Cardinality(D) - 1
      BY <2>1, FS_RemoveElement
    <2>3. D \ Kept = {oldest_hash}
      BY <2>1
    <2>4. IsFiniteSet(D \ Kept) /\ Cardinality(D \ Kept) = 1
      BY <2>3, FS_Singleton
    <2> QED BY <1>1, <1>2, <2>1, <2>2, <2>4
  <1>3. CASE ~ (Cardinality(D) >= cap /\ D # {})
    <2>1. Kept = D /\ D \ Kept = {}
      BY <1>3 DEF Kept
    <2>2. D = {} => Cardinality(D) = 0
      BY FS_EmptySet
    <2>3. IsFiniteSet({}) /\ Cardinality({}) = 0
      BY FS_EmptySet
    <2>4. Cardinality(D) + 1 <= (IF cap = 0 THEN 1 ELSE cap)
      <3>1. CASE D = {}
        BY <1>1, <2>2, <3>1
      <3>2. CASE D # {}
        <4>1. ~ (Cardinality(D) >= cap)
          BY <1>3, <3>2
        <4> QED BY <1>1, <4>1
      <3> QED BY <3>1, <3>2
    <2>5. Kept \subseteq D /\ IsFiniteSet(Kept) /\ Cardinality(Kept) + 1 <= (IF cap = 0 THEN 1 ELSE cap)
      BY <2>1, <2>4
    <2>6. IsFiniteSet(D \ Kept) /\ Cardinality(D \ Kept) <= 1
      BY <2>1, <2>3
    <2> QED BY <2>1, <2>5, <2>6
  <1> QED BY <1>2, <1>3

\* The inductive invariant: WithinCap alone says nothing of a pool that might be infinite.
IInv == PoolTypeOK /\ IsFiniteSet(DOMAIN inner) /\ WithinCap

(* submit keeps the invariant: the room it needs is made before it inserts. *)
LEMMA SubmitIInv ==
    ASSUME IInv, NEW h \in Hashes, Submit(h)
    PROVE  IInv'
  <1>1. /\ h \notin DOMAIN inner /\ millis' = millis
        /\ inner' = [g \in Kept \cup {h} |-> IF g = h THEN millis ELSE inner[g]]
    BY DEF Submit, submit
  <1>2. DOMAIN inner' = Kept \cup {h}
    BY <1>1
  <1>3. /\ Kept \subseteq DOMAIN inner /\ IsFiniteSet(Kept)
        /\ Cardinality(Kept) + 1 <= (IF cap = 0 THEN 1 ELSE cap)
    BY KeptBound DEF IInv
  <1>4. IsFiniteSet(DOMAIN inner') /\ Cardinality(DOMAIN inner') = Cardinality(Kept) + 1
    BY <1>1, <1>2, <1>3, FS_AddElement
  <1>5. PoolTypeOK'
    BY <1>1, <1>2, <1>3 DEF IInv, PoolTypeOK
  <1> QED BY <1>3, <1>4, <1>5 DEF IInv, WithinCap

(* confirm keeps the invariant: it only removes. *)
LEMMA ConfirmIInv ==
    ASSUME IInv, NEW S \in SUBSET Hashes, Confirm(S)
    PROVE  IInv'
  <1>1. inner' = [h \in DOMAIN inner \ S |-> inner[h]] /\ millis' = millis
    BY DEF Confirm, confirm
  <1>2. DOMAIN inner' = DOMAIN inner \ S /\ DOMAIN inner' \in SUBSET (DOMAIN inner)
    BY <1>1
  <1>3. IsFiniteSet(DOMAIN inner') /\ Cardinality(DOMAIN inner') <= Cardinality(DOMAIN inner)
    BY <1>2, FS_Subset DEF IInv
  <1>4. Cardinality(DOMAIN inner') \in Nat /\ Cardinality(DOMAIN inner) \in Nat /\ cap \in Nat
    BY <1>3, FS_CardinalityType, CapAssumption DEF IInv
  <1>5. WithinCap'
    BY <1>3, <1>4 DEF IInv, WithinCap
  <1>6. PoolTypeOK'
    BY <1>1, <1>2 DEF IInv, PoolTypeOK
  <1> QED BY <1>3, <1>5, <1>6 DEF IInv

(* The invariant holds of every behaviour of the pool. *)
LEMMA Inductive == PoolSpec => []IInv
  <1>1. PoolInit => IInv
    <2> SUFFICES ASSUME PoolInit PROVE IInv
      OBVIOUS
    <2>1. DOMAIN inner = {}
      BY DEF PoolInit
    <2>2. IsFiniteSet(DOMAIN inner) /\ Cardinality(DOMAIN inner) = 0
      BY <2>1, FS_EmptySet
    <2>3. PoolTypeOK
      BY <2>1, MillisAssumption DEF PoolInit, PoolTypeOK
    <2> QED BY <2>2, <2>3, CapAssumption DEF IInv, WithinCap
  <1>2. IInv /\ [PoolNext]_pool => IInv'
    <2> SUFFICES ASSUME IInv, [PoolNext]_pool PROVE IInv'
      OBVIOUS
    <2>1. CASE UNCHANGED pool
      BY <2>1 DEF pool, IInv, PoolTypeOK, WithinCap
    <2>2. ASSUME NEW h \in Hashes, Submit(h) PROVE IInv'
      BY <2>2, SubmitIInv
    <2>3. ASSUME NEW S \in SUBSET Hashes, Confirm(S) PROVE IInv'
      BY <2>3, ConfirmIInv
    <2>4. ASSUME NEW t \in 0 .. MaxMillis, SetClock(t) PROVE IInv'
      BY <2>4 DEF SetClock, IInv, PoolTypeOK, WithinCap
    <2> QED BY <2>1, <2>2, <2>3, <2>4 DEF PoolNext
  <1> QED BY <1>1, <1>2, PTL DEF PoolSpec

(* Whatever the clock does, the pool never outgrows its capacity. *)
THEOREM AlwaysWithinCap == PoolSpec => []WithinCap
  <1>1. IInv => WithinCap
    BY DEF IInv
  <1> QED BY <1>1, Inductive, PTL

(* The pool holds known transactions and times of the clock. *)
THEOREM TypeCorrect == PoolSpec => []PoolTypeOK
  <1>1. IInv => PoolTypeOK
    BY DEF IInv
  <1> QED BY <1>1, Inductive, PTL

(* An arrival evicts at most one transaction, and only from a pool that is full. *)
THEOREM OneOutForOneIn == PoolSpec => OneOutOneIn
  <1> DEFINE A == \A h \in Hashes :
          h \in DOMAIN inner' /\ h \notin DOMAIN inner =>
              /\ Cardinality(DOMAIN inner \ DOMAIN inner') <= 1
              /\ DOMAIN inner \ DOMAIN inner' # {} => Cardinality(DOMAIN inner) >= cap
  <1>1. IInv /\ [PoolNext]_pool => [A]_pool
    <2> SUFFICES ASSUME IInv, PoolNext, NEW h \in DOMAIN inner', h \notin DOMAIN inner
                 PROVE  /\ Cardinality(DOMAIN inner \ DOMAIN inner') <= 1
                        /\ DOMAIN inner \ DOMAIN inner' # {} => Cardinality(DOMAIN inner) >= cap
      OBVIOUS
    <2>1. PICK g \in Hashes : Submit(g)
      BY DEF PoolNext, Confirm, confirm, SetClock
    <2>2. DOMAIN inner' = Kept \cup {g} /\ g \notin DOMAIN inner
      BY <2>1 DEF Submit, submit
    <2>3. DOMAIN inner \ DOMAIN inner' = DOMAIN inner \ Kept
      BY <2>2
    <2> QED BY <2>3, KeptBound DEF IInv
  <1> QED BY <1>1, Inductive, PTL DEF PoolSpec, OneOutOneIn
=============================================================================
