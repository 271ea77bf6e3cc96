------------------------------ MODULE Mempool -------------------------------
(***************************************************************************)
(* crates/node/src/mempool.rs: pending transactions by body hash.  Every   *)
(* method takes the mutex for its whole body, so each is one action.  A    *)
(* transaction is named by its body hash, a number, because the code       *)
(* compares hashes; Fee gives its fee_sat.                                 *)
(***************************************************************************)
EXTENDS Naturals, FiniteSets

CONSTANTS
    Hashes,       \* body hashes of the transactions wallets may send
    Fee,          \* fee_sat by body hash
    cap,          \* capacity of the pool (10_000 in main.rs)
    MaxMillis     \* bound: the wall clock stays in 0 .. MaxMillis

ASSUME HashesAssumption == Hashes \subseteq Nat
ASSUME FeeAssumption == Fee \in [Hashes -> Nat]
ASSUME CapAssumption == cap \in Nat
ASSUME MillisAssumption == MaxMillis \in Nat

VARIABLES
    inner,        \* the BTreeMap: received_ms of every pending hash
    millis        \* wall clock, in milliseconds

pool == <<inner, millis>>

PoolInit == inner = [h \in {} |-> 0] /\ millis = 0

\* min_by_key over a BTreeMap: the smallest received_ms, and of those the smallest hash.
Older(g, h) == inner[g] < inner[h] \/ (inner[g] = inner[h] /\ g <= h)
oldest_hash == CHOOSE g \in DOMAIN inner : \A h \in DOMAIN inner : Older(g, h)

\* Mutant: the pool grows one past its cap.
Kept_off_by_one == IF Cardinality(DOMAIN inner) > cap /\ DOMAIN inner # {}
                   THEN DOMAIN inner \ {oldest_hash}
                   ELSE DOMAIN inner

\* Mutant: everything that arrived in the oldest millisecond is evicted.
Kept_evicts_ties == IF Cardinality(DOMAIN inner) >= cap /\ DOMAIN inner # {}
                    THEN {h \in DOMAIN inner : inner[h] # inner[oldest_hash]}
                    ELSE DOMAIN inner

\* What is left after the eviction that submit makes at the cap.
Kept == IF Cardinality(DOMAIN inner) >= cap /\ DOMAIN inner # {}
        THEN DOMAIN inner \ {oldest_hash}
        ELSE DOMAIN inner

\* submit on a witness whose hash matches; WitnessHashMismatch and Duplicate change nothing.
submit(h) ==
    /\ h \notin DOMAIN inner
    /\ inner' = [g \in Kept \cup {h} |-> IF g = h THEN millis ELSE inner[g]]

\* pull_for_block: by descending fee_sat (mempool.rs:73 says fee per byte), then by hash; nothing
\* is removed.
Before(g, h) == Fee[g] > Fee[h] \/ (Fee[g] = Fee[h] /\ g < h)
Rank(h, S) == Cardinality({g \in S : Before(g, h)})
Smaller(m, n) == IF m < n THEN m ELSE n
pull_for_block(max) ==
    [k \in 1 .. Smaller(max, Cardinality(DOMAIN inner)) |->
        CHOOSE h \in DOMAIN inner : Rank(h, DOMAIN inner) = k - 1]

confirm(block_hashes) == inner' = [h \in DOMAIN inner \ block_hashes |-> inner[h]]

\* The wall clock is not monotonic: it may be set back.
SetClock(t) == millis' = t /\ UNCHANGED inner

Submit(h) == submit(h) /\ UNCHANGED millis
Confirm(S) == confirm(S) /\ UNCHANGED millis

PoolNext ==
    \/ \E h \in Hashes : Submit(h)
    \/ \E S \in SUBSET Hashes : Confirm(S)
    \/ \E t \in 0 .. MaxMillis : SetClock(t)

PoolSpec == PoolInit /\ [][PoolNext]_pool

-----------------------------------------------------------------------------
\* The pool maps known hashes to times of the clock.
PoolTypeOK ==
    /\ inner \in [DOMAIN inner -> 0 .. MaxMillis]
    /\ DOMAIN inner \subseteq Hashes
    /\ millis \in 0 .. MaxMillis

\* The pool never holds more than cap transactions (one, if it is created with cap 0).
WithinCap == Cardinality(DOMAIN inner) <= (IF cap = 0 THEN 1 ELSE cap)

\* A transaction that was in the pool and is gone was either confirmed, or pushed out of a
\* full pool by exactly one new one: an arrival never costs the pool two transactions.
OneOutOneIn ==
    [][\A h \in Hashes :
          h \in DOMAIN inner' /\ h \notin DOMAIN inner =>
              /\ Cardinality(DOMAIN inner \ DOMAIN inner') <= 1
              /\ DOMAIN inner \ DOMAIN inner' # {} => Cardinality(DOMAIN inner) >= cap]_pool
=============================================================================
