-------------------------- MODULE ConsensusProofs --------------------------
(***************************************************************************)
(* Proofs about the consensus crate.  Emission, for every monotone         *)
(* schedule and every slew percentage: the reward never exceeds the first  *)
(* one, the supply never runs ahead of the calendar by more than the slew  *)
(* limit's fixed allowance, and a chain that is ahead pays less and less.  *)
(* Difficulty, for every width of a limb, a byte and a target:             *)
(* bitcoin_retarget computes the quotient exactly, and below the ceiling   *)
(* ASERT keeps its bounds and follows the schedule through every rounding. *)
(***************************************************************************)
EXTENDS Consensus, Foundations, SequenceTheorems, TLAPS

(* The integer division by 100 of the slew limits, as two inequalities. *)
LEMMA DivHundred ==
    ASSUME NEW x \in Nat
    PROVE  x \div 100 \in Nat /\ 100 * (x \div 100) <= x
  OBVIOUS

(* The lower clamp of the slew limit: at most the previous reward, and strictly less than a
   positive one. *)
LEMMA MaxDownBound ==
    ASSUME NEW p \in Nat
    PROVE  /\ max_down(p) \in Nat
           /\ 100 * max_down(p) <= (100 - pct) * p
           /\ max_down(p) <= p
           /\ p > 0 => max_down(p) < p
  <1>1. 100 - pct \in Nat /\ 100 - pct <= 99
    BY PctAssumption
  <1>2. p * (100 - pct) \in Nat /\ p * (100 - pct) <= p * 99
    BY <1>1, TimesMonotone
  <1>3. p * (100 - pct) = (100 - pct) * p
    BY <1>1
  <1>4. max_down(p) \in Nat /\ 100 * max_down(p) <= p * (100 - pct)
    BY <1>2, DivHundred DEF max_down
  <1>5. 100 * max_down(p) <= 99 * p
    BY <1>2, <1>4
  <1> QED BY <1>3, <1>4, <1>5

(* The upper clamp needs no bound: it only ever lowers the reward. *)
LEMMA MaxUpNatural ==
    ASSUME NEW p \in Nat
    PROVE  max_up(p) \in Nat
  <1>1. p * (100 + pct) \in Nat
    BY PctAssumption
  <1> QED BY <1>1, DivHundred DEF max_up

(* The caps: a natural number, at most the epoch's reward, and at most what the calendar
   owes. *)
LEMMA CappedBound ==
    ASSUME NEW t \in 0 .. MaxTime, NEW parent \in 0 .. MaxTime, NEW m \in Nat, NEW h \in Nat
    PROVE  /\ capped(t, parent, m, h) \in Nat
           /\ capped(t, parent, m, h) <= R0
           /\ m + capped(t, parent, m, h) <= Scheduled(t) \/ capped(t, parent, m, h) = 0
  <1> DEFINE cr == calendar_remaining(t, m)
             pc == proportional_cap(t, parent)
             bc == bootstrap_cap(t)
             er == EpochReward(t)
  <1>1. Scheduled(t) \in Nat /\ er \in Nat /\ er <= R0 /\ R0 \in Nat
    BY ScheduleAssumption, EpochAssumption, R0Assumption, BoundAssumption
  <1>2. cr \in Nat /\ (m + cr <= Scheduled(t) \/ cr = 0)
    BY <1>1 DEF calendar_remaining, Most
  <1>3. pc \in Nat
    <2>1. Most(t - parent, 1) \in Nat
      BY BoundAssumption DEF Most
    <2>2. er * Most(t - parent, 1) \in Nat
      BY <1>1, <2>1
    <2> HIDE DEF er
    <2>3. ASSUME NEW x \in Nat PROVE x \div target_block_time \in Nat
      BY TargetAssumption
    <2> QED BY <2>2, <2>3 DEF proportional_cap, er
  <1>4. bc \in Nat
    <2>1. er * bootstrap_pct \in Nat
      BY <1>1, BootstrapAssumption
    <2> QED BY <2>1, DivHundred DEF bootstrap_cap
  <1> HIDE DEF cr, pc, bc, er
  <1>5. capped(t, parent, m, h) =
            LET three == Least(Least(cr, er), pc)
            IN IF h < bootstrap_height THEN Least(three, bc) ELSE three
    BY DEF capped, cr, pc, bc, er
  <1> QED BY <1>1, <1>2, <1>3, <1>4, <1>5, BootstrapAssumption DEF Least

(* The slew limit keeps a reward within the caps or within its own lower clamp, and raises
   nothing when the previous reward is zero. *)
LEMMA SlewedBound ==
    ASSUME NEW r \in Nat, NEW p \in Nat
    PROVE  /\ slewed(r, p) \in Nat
           /\ slewed(r, p) <= r \/ (p > 0 /\ slewed(r, p) <= max_down(p))
  BY MaxDownBound, MaxUpNatural DEF slewed, Least, Most

(* What one block pays. *)
LEMMA RewardBound ==
    ASSUME NEW t \in 0 .. MaxTime, NEW parent \in 0 .. MaxTime, NEW m \in Nat, NEW h \in Nat,
           NEW p \in 0 .. R0
    PROVE  LET r == current_reward_with_height(t, parent, m, h, p) IN
           /\ r \in 0 .. R0
           /\ \/ r = 0
              \/ m + r <= Scheduled(t)
              \/ p > 0 /\ r <= max_down(p)
  <1> DEFINE c == capped(t, parent, m, h)
             r == current_reward_with_height(t, parent, m, h, p)
  <1>1. R0 \in Nat /\ p \in Nat /\ p <= R0
    BY R0Assumption
  <1>2. c \in Nat /\ c <= R0 /\ (m + c <= Scheduled(t) \/ c = 0)
    BY CappedBound
  <1>3. Scheduled(t) \in Nat
    BY ScheduleAssumption, BoundAssumption
  <1> HIDE DEF c
  <1>4. slewed(c, p) \in Nat /\ (slewed(c, p) <= c \/ (p > 0 /\ slewed(c, p) <= max_down(p)))
    BY <1>1, <1>2, SlewedBound
  <1>5. max_down(p) \in Nat /\ max_down(p) <= p
    BY <1>1, MaxDownBound
  <1>6. r = IF t = 0 THEN 0 ELSE slewed(c, p)
    BY DEF current_reward_with_height, c
  <1> HIDE DEF r
  <1>7. /\ r \in 0 .. R0
        /\ r = 0 \/ m + r <= Scheduled(t) \/ (p > 0 /\ r <= max_down(p))
    BY <1>1, <1>2, <1>3, <1>4, <1>5, <1>6
  <1> QED BY <1>7 DEF r

(* Rewards stay between zero and the first one, so the counters stay natural numbers: the
   code's saturating arithmetic never saturates. *)
THEOREM TypeCorrect == Spec => []TypeOK
  <1>1. Init => TypeOK
    BY BoundAssumption, R0Assumption DEF Init, TypeOK
  <1>2. TypeOK /\ [Next]_vars => TypeOK'
    <2> SUFFICES ASSUME TypeOK, [Next]_vars PROVE TypeOK'
      OBVIOUS
    <2>1. CASE UNCHANGED vars
      BY <2>1 DEF vars, TypeOK
    <2>2. ASSUME NEW t \in 0 .. MaxTime, Mine(t) PROVE TypeOK'
      <3>1. /\ prev' = current_reward_with_height(t, ts, minted, height + 1, prev)
            /\ minted' = minted + prev' /\ ts' = t /\ height' = height + 1 /\ height < MaxHeight
        BY <2>2 DEF Mine
      <3>2. ts \in 0 .. MaxTime /\ minted \in Nat /\ height + 1 \in Nat /\ prev \in 0 .. R0
        BY DEF TypeOK
      <3>3. current_reward_with_height(t, ts, minted, height + 1, prev) \in 0 .. R0
        BY <3>2, RewardBound
      <3> QED BY <3>1, <3>2, <3>3, R0Assumption, BoundAssumption DEF TypeOK
    <2> QED BY <2>1, <2>2 DEF Next
  <1> QED BY <1>1, <1>2, PTL DEF Spec

(* One block keeps the budget.  A block that the calendar owes its reward cannot pass the
   calendar; a block that only the slew limit makes pay costs at most what the drop from the
   previous reward frees. *)
LEMMA BudgetStep ==
    ASSUME NEW s \in Nat, NEW s2 \in Nat, s <= s2, NEW m \in Nat, NEW p \in Nat, p <= R0,
           NEW r \in Nat, r <= R0,
           pct * m + (100 - pct) * p <= pct * s + (100 - pct) * R0,
           r = 0 \/ m + r <= s2 \/ 100 * r <= (100 - pct) * p
    PROVE  pct * (m + r) + (100 - pct) * r <= pct * s2 + (100 - pct) * R0
  <1> DEFINE q == 100 - pct
  <1>1. pct \in Nat /\ q \in Nat /\ R0 \in Nat /\ pct + q = 100
    BY PctAssumption, R0Assumption
  <1> HIDE DEF q
  <1>2. pct * s <= pct * s2 /\ pct * s \in Nat /\ pct * s2 \in Nat
    BY <1>1, TimesMonotone
  <1>3. q * r <= q * R0 /\ q * r \in Nat /\ q * R0 \in Nat /\ q * p \in Nat
    BY <1>1, TimesMonotone
  <1>4. pct * m \in Nat /\ pct * r \in Nat /\ pct * (m + r) = pct * m + pct * r
    BY <1>1
  <1>5. pct * m + q * p <= pct * s + q * R0
    BY DEF q
  <1>6. pct * (m + r) + q * r <= pct * s2 + q * R0
    <2>1. CASE r = 0
      <3>1. pct * r = 0 /\ q * r = 0
        BY <1>1, <2>1
      <3> HIDE DEF q
      <3> QED BY <1>2, <1>3, <1>4, <1>5, <3>1
    <2>2. CASE m + r <= s2
      <3>1. pct * (m + r) <= pct * s2
        BY <1>1, <2>2, TimesMonotone
      <3> QED BY <1>2, <1>3, <1>4, <3>1
    <2>3. CASE 100 * r <= q * p
      <3>1. pct * r + q * r = 100 * r
        <4>1. (pct + q) * r = pct * r + q * r
          BY <1>1
        <4> QED BY <1>1, <4>1
      <3> QED BY <1>2, <1>3, <1>4, <1>5, <2>3, <3>1
    <2> QED BY <2>1, <2>2, <2>3 DEF q
  <1> QED BY <1>6 DEF q

(* The inductive form of the bound on what the slew limit pays ahead of the calendar. *)
THEOREM BudgetKept == Spec => []OvershootBudget
  <1>1. Init => OvershootBudget
    <2> SUFFICES ASSUME Init PROVE OvershootBudget
      OBVIOUS
    <2>1. Scheduled(0) \in Nat
      BY ScheduleAssumption, BoundAssumption
    <2>2. 100 - pct \in Nat /\ pct \in Nat
      BY PctAssumption
    <2>3. (100 - pct) * R0 \in Nat /\ pct * Scheduled(0) \in Nat
      BY <2>1, <2>2, R0Assumption
    <2>4. pct * 0 = 0 /\ (100 - pct) * 0 = 0
      BY <2>2
    <2> QED BY <2>3, <2>4 DEF Init, OvershootBudget
  <1>2. TypeOK /\ OvershootBudget /\ [Next]_vars => OvershootBudget'
    <2> SUFFICES ASSUME TypeOK, OvershootBudget, [Next]_vars PROVE OvershootBudget'
      OBVIOUS
    <2>1. CASE UNCHANGED vars
      BY <2>1 DEF vars, OvershootBudget
    <2>2. ASSUME NEW t \in 0 .. MaxTime, Mine(t) PROVE OvershootBudget'
      <3> DEFINE r == current_reward_with_height(t, ts, minted, height + 1, prev)
      <3>1. prev' = r /\ minted' = minted + r /\ ts' = t /\ t >= ts
        BY <2>2 DEF Mine
      <3>2. /\ ts \in 0 .. t /\ ts \in 0 .. MaxTime /\ minted \in Nat /\ height + 1 \in Nat
            /\ prev \in 0 .. R0 /\ prev \in Nat /\ prev <= R0
        BY <3>1, R0Assumption DEF TypeOK
      <3>3. r \in 0 .. R0 /\ (r = 0 \/ minted + r <= Scheduled(t) \/ r <= max_down(prev))
        BY <3>2, RewardBound
      <3>4. Scheduled(ts) \in Nat /\ Scheduled(t) \in Nat /\ Scheduled(ts) <= Scheduled(t)
        BY <3>2, ScheduleAssumption
      <3>5. max_down(prev) \in Nat /\ 100 * max_down(prev) <= (100 - pct) * prev
        BY <3>2, MaxDownBound
      <3> HIDE DEF r
      <3>6. r \in Nat /\ r <= R0
        BY <3>3, R0Assumption
      <3>7. r = 0 \/ minted + r <= Scheduled(t) \/ 100 * r <= (100 - pct) * prev
        <4>1. (100 - pct) * prev \in Int
          BY <3>2, PctAssumption
        <4> QED BY <3>3, <3>5, <3>6, <4>1
      <3>8. pct * minted + (100 - pct) * prev <= pct * Scheduled(ts) + (100 - pct) * R0
        BY DEF OvershootBudget
      <3>9. pct * (minted + r) + (100 - pct) * r <= pct * Scheduled(t) + (100 - pct) * R0
        BY <3>2, <3>4, <3>6, <3>7, <3>8, BudgetStep
      <3> QED BY <3>1, <3>9 DEF OvershootBudget
    <2> QED BY <2>1, <2>2 DEF Next
  <1> QED BY <1>1, <1>2, TypeCorrect, PTL DEF Spec

(* Whatever the block times, the supply is ahead of the calendar by at most the allowance
   R0 * (100 - pct) / pct. *)
THEOREM OvershootIsBounded == Spec => []OvershootBounded
  <1>1. TypeOK /\ OvershootBudget => OvershootBounded
    <2> SUFFICES ASSUME TypeOK, OvershootBudget PROVE OvershootBounded
      OBVIOUS
    <2>1. 100 - pct \in Nat /\ pct \in Nat /\ prev \in Nat /\ minted \in Nat
      BY PctAssumption, R0Assumption DEF TypeOK
    <2>2. (100 - pct) * prev \in Nat /\ pct * minted \in Nat /\ (100 - pct) * R0 \in Nat
      BY <2>1, R0Assumption
    <2>3. pct * Scheduled(ts) \in Nat
      BY <2>1, ScheduleAssumption DEF TypeOK
    <2>4. pct * minted + (100 - pct) * prev <= pct * Scheduled(ts) + (100 - pct) * R0
      BY DEF OvershootBudget
    <2> QED BY <2>2, <2>3, <2>4 DEF OvershootBounded
  <1> QED BY <1>1, TypeCorrect, BudgetKept, PTL

(* A block that the calendar owes nothing pays strictly less than the one before it. *)
THEOREM AheadAlwaysPaysLess == Spec => AheadPaysLess
  <1>1. TypeOK /\ [Next]_vars => [minted >= Scheduled(ts') /\ prev > 0 => prev' < prev]_vars
    <2> SUFFICES ASSUME TypeOK, NEW t \in 0 .. MaxTime, Mine(t),
                        minted >= Scheduled(ts'), prev > 0
                 PROVE  prev' < prev
      BY DEF Next
    <2> DEFINE r == current_reward_with_height(t, ts, minted, height + 1, prev)
    <2>1. prev' = r /\ ts' = t
      BY DEF Mine
    <2>2. /\ ts \in 0 .. MaxTime /\ minted \in Nat /\ height + 1 \in Nat
          /\ prev \in 0 .. R0 /\ prev \in Nat
      BY R0Assumption DEF TypeOK
    <2>3. r \in 0 .. R0 /\ (r = 0 \/ minted + r <= Scheduled(t) \/ r <= max_down(prev))
      BY <2>2, RewardBound
    <2>4. max_down(prev) \in Nat /\ max_down(prev) < prev
      BY <2>2, MaxDownBound
    <2>5. Scheduled(t) \in Nat
      BY ScheduleAssumption
    <2> HIDE DEF r
    <2> QED BY <2>1, <2>2, <2>3, <2>4, <2>5, R0Assumption
  <1> QED BY <1>1, TypeCorrect, PTL DEF Spec, AheadPaysLess

-----------------------------------------------------------------------------
(* Retargeting. *)

(* V gives the values of the first n digits of s. *)
IsValue(V, s, base, n) == V = [k \in 0 .. n |-> IF k = 0 THEN 0 ELSE V[k - 1] * base + s[k]]

LEMMA ValueDef ==
    ASSUME NEW s, NEW base
    PROVE  Value(s, base) = (CHOOSE V : IsValue(V, s, base, Len(s)))[Len(s)]
  BY Zenon DEF Value, IsValue

(* The value of four or five digits, written out. *)
LEMMA Value45 ==
    ASSUME NEW L \in Nat, NEW n \in {4, 5}, NEW s \in [1 .. n -> Nat]
    PROVE  /\ n = 4 => Value(s, L) = ((s[1] * L + s[2]) * L + s[3]) * L + s[4]
           /\ n = 5 => Value(s, L) = (((s[1] * L + s[2]) * L + s[3]) * L + s[4]) * L + s[5]
  <1>1. Len(s) = n
    BY SeqDef, LenProperties
  <1> DEFINE v1 == s[1]
             v2 == v1 * L + s[2]
             v3 == v2 * L + s[3]
             v4 == v3 * L + s[4]
             v5 == v4 * L + s[5]
             g == [k \in 0 .. n |-> IF k = 0 THEN 0 ELSE IF k = 1 THEN v1 ELSE IF k = 2 THEN v2
                                    ELSE IF k = 3 THEN v3 ELSE IF k = 4 THEN v4 ELSE v5]
  <1>3. /\ v1 = 0 * L + s[1] /\ v2 = v1 * L + s[2] /\ v3 = v2 * L + s[3] /\ v4 = v3 * L + s[4]
        /\ v5 = v4 * L + s[5]
    OBVIOUS
  <1>4. /\ v4 = ((s[1] * L + s[2]) * L + s[3]) * L + s[4]
        /\ v5 = (((s[1] * L + s[2]) * L + s[3]) * L + s[4]) * L + s[5]
    OBVIOUS
  <1> HIDE DEF v1, v2, v3, v4, v5
  <1>5. IsValue(g, s, L, n)
    <2>1. \A k \in 0 .. n : g[k] = IF k = 0 THEN 0 ELSE g[k - 1] * L + s[k]
      <3>1. \A k \in 0 .. n : k \in {0, 1, 2, 3, 4, 5} /\ (k = 5 => n = 5)
        OBVIOUS
      <3>2. g[0] = 0 /\ g[1] = v1 /\ g[2] = v2 /\ g[3] = v3 /\ g[4] = v4 /\ (n = 5 => g[5] = v5)
        OBVIOUS
      <3> HIDE DEF g
      <3> TAKE k \in 0 .. n
      <3>3. /\ k = 1 => k - 1 = 0
            /\ k = 2 => k - 1 = 1
            /\ k = 3 => k - 1 = 2
            /\ k = 4 => k - 1 = 3
            /\ k = 5 => k - 1 = 4
        OBVIOUS
      <3> QED BY <1>3, <3>1, <3>2, <3>3, Zenon
    <2> QED BY <2>1 DEF IsValue
  <1> DEFINE V == CHOOSE V : IsValue(V, s, L, n)
  <1>6. IsValue(V, s, L, n)
    BY <1>5, Zenon
  <1> HIDE DEF V
  <1>7. /\ V[0] = 0 /\ V[1] = V[0] * L + s[1] /\ V[2] = V[1] * L + s[2]
        /\ V[3] = V[2] * L + s[3] /\ V[4] = V[3] * L + s[4] /\ (n = 5 => V[5] = V[4] * L + s[5])
    BY <1>6, SMTT(30) DEF IsValue
  <1>8. V[1] = v1
    BY <1>3, <1>7
  <1>9. V[4] = v4
    BY <1>3, <1>7, <1>8
  <1>10. n = 5 => V[5] = v5
    BY <1>3, <1>7, <1>9
  <1>11. Value(s, L) = V[n]
    BY <1>1, ValueDef DEF V
  <1> QED BY <1>4, <1>9, <1>10, <1>11

LEMMA ProductType ==
    ASSUME NEW x \in Nat, NEW b \in Nat, NEW p \in Nat, NEW L \in Nat \ {0}
    PROVE  x * b \in Nat /\ x * b + (p \div L) \in Nat /\ x * b = x * b + (0 \div L)
  <1>1. p \div L \in Nat /\ 0 \div L = 0
    BY DivMod, SMTT(30)
  <1> QED BY <1>1

(* The products of mul_u256_u64, limb by limb from the low end. *)
IsProducts(P, a, b) == P = [k \in 1 .. 5 |-> IF k = 5 THEN 0 ELSE a[k] * b + (P[k + 1] \div Limb)]

LEMMA MulLimbs ==
    ASSUME NEW a \in [1 .. 4 -> 0 .. Limb - 1], NEW b \in 0 .. Limb - 1
    PROVE  \E p1, p2, p3, p4 \in Nat :
               /\ p4 = a[4] * b + 0 /\ p3 = a[3] * b + (p4 \div Limb)
               /\ p2 = a[2] * b + (p3 \div Limb) /\ p1 = a[1] * b + (p2 \div Limb)
               /\ mul_u256_u64(a, b) = [k \in 1 .. 5 |-> IF k = 1 THEN p1 \div Limb ELSE
                                                         IF k = 2 THEN p1 % Limb ELSE
                                                         IF k = 3 THEN p2 % Limb ELSE
                                                         IF k = 4 THEN p3 % Limb ELSE p4 % Limb]
  <1> DEFINE p4 == a[4] * b
             p3 == a[3] * b + (p4 \div Limb)
             p2 == a[2] * b + (p3 \div Limb)
             p1 == a[1] * b + (p2 \div Limb)
             g == [k \in 1 .. 5 |-> IF k = 1 THEN p1 ELSE IF k = 2 THEN p2 ELSE IF k = 3 THEN p3
                                    ELSE IF k = 4 THEN p4 ELSE 0]
             P == CHOOSE P : IsProducts(P, a, b)
  <1>0. Limb \in Nat \ {0} /\ b \in Nat /\ 0 \in Nat
        /\ a[1] \in Nat /\ a[2] \in Nat /\ a[3] \in Nat /\ a[4] \in Nat
    BY WidthAssumption
  <1>1. p4 \in Nat /\ p4 = a[4] * b + (0 \div Limb)
    BY <1>0, ProductType
  <1>2. p3 \in Nat /\ p3 = a[3] * b + (p4 \div Limb)
    <2> HIDE DEF p4
    <2> QED BY <1>0, <1>1, ProductType
  <1>3. p2 \in Nat /\ p2 = a[2] * b + (p3 \div Limb)
    <2> HIDE DEF p3
    <2> QED BY <1>0, <1>2, ProductType
  <1>4. p1 \in Nat /\ p1 = a[1] * b + (p2 \div Limb)
    <2> HIDE DEF p2
    <2> QED BY <1>0, <1>3, ProductType
  <1>5. p4 = a[4] * b + 0
    BY <1>0, <1>1
  <1> HIDE DEF p1, p2, p3, p4
  <1>6. IsProducts(g, a, b)
    <2>1. g[1] = p1 /\ g[2] = p2 /\ g[3] = p3 /\ g[4] = p4 /\ g[5] = 0
      OBVIOUS
    <2>2. \A k \in 1 .. 5 : g[k] = IF k = 5 THEN 0 ELSE a[k] * b + (g[k + 1] \div Limb)
      <3> HIDE DEF g
      <3> TAKE k \in 1 .. 5
      <3>1. k \in {1, 2, 3, 4, 5} /\ (k = 1 => k + 1 = 2) /\ (k = 2 => k + 1 = 3)
            /\ (k = 3 => k + 1 = 4) /\ (k = 4 => k + 1 = 5)
        OBVIOUS
      <3> QED BY <1>1, <1>2, <1>3, <1>4, <2>1, <3>1, Zenon
    <2> QED BY <2>2 DEF IsProducts
  <1>7. IsProducts(P, a, b)
    BY <1>6, Zenon
  <1>8. mul_u256_u64(a, b) = [k \in 1 .. 5 |-> IF k = 1 THEN P[1] \div Limb ELSE P[k - 1] % Limb]
    BY Zenon DEF mul_u256_u64, IsProducts
  <1> HIDE DEF P
  <1>9. P[5] = 0 /\ P[4] = p4
    <2>1. P[5] = 0 /\ P[4] = a[4] * b + (P[5] \div Limb)
      BY <1>7 DEF IsProducts
    <2> QED BY <1>1, <2>1
  <1>10. P[3] = p3 /\ P[2] = p2 /\ P[1] = p1
    <2>1. /\ P[3] = a[3] * b + (P[4] \div Limb) /\ P[2] = a[2] * b + (P[3] \div Limb)
          /\ P[1] = a[1] * b + (P[2] \div Limb)
      BY <1>7 DEF IsProducts
    <2> QED BY <1>2, <1>3, <1>4, <1>9, <2>1
  <1> DEFINE m == [k \in 1 .. 5 |-> IF k = 1 THEN p1 \div Limb ELSE IF k = 2 THEN p1 % Limb ELSE
                                    IF k = 3 THEN p2 % Limb ELSE
                                    IF k = 4 THEN p3 % Limb ELSE p4 % Limb]
  <1>11. \A k \in 1 .. 5 : (IF k = 1 THEN P[1] \div Limb ELSE P[k - 1] % Limb) = m[k]
    <2> TAKE k \in 1 .. 5
    <2>1. k \in {1, 2, 3, 4, 5} /\ (k = 5 => k - 1 = 4) /\ (k = 2 => k - 1 = 1)
          /\ (k = 3 => k - 1 = 2) /\ (k = 4 => k - 1 = 3)
      OBVIOUS
    <2>2. m[k] = IF k = 1 THEN p1 \div Limb ELSE IF k = 2 THEN p1 % Limb ELSE
                 IF k = 3 THEN p2 % Limb ELSE IF k = 4 THEN p3 % Limb ELSE p4 % Limb
      OBVIOUS
    <2> HIDE DEF m
    <2> QED BY <1>9, <1>10, <2>1, <2>2
  <1>12. mul_u256_u64(a, b) =
           [k \in 1 .. 5 |-> IF k = 1 THEN p1 \div Limb ELSE IF k = 2 THEN p1 % Limb ELSE
                             IF k = 3 THEN p2 % Limb ELSE IF k = 4 THEN p3 % Limb ELSE p4 % Limb]
    BY <1>8, <1>11
  <1>13. /\ p4 = a[4] * b + 0 /\ p3 = a[3] * b + (p4 \div Limb)
         /\ p2 = a[2] * b + (p3 \div Limb) /\ p1 = a[1] * b + (p2 \div Limb)
    BY <1>2, <1>3, <1>4, <1>5
  <1> DEFINE Good(q1, q2, q3, q4) ==
               /\ q4 = a[4] * b + 0 /\ q3 = a[3] * b + (q4 \div Limb)
               /\ q2 = a[2] * b + (q3 \div Limb) /\ q1 = a[1] * b + (q2 \div Limb)
               /\ mul_u256_u64(a, b) = [k \in 1 .. 5 |-> IF k = 1 THEN q1 \div Limb ELSE
                                                         IF k = 2 THEN q1 % Limb ELSE
                                                         IF k = 3 THEN q2 % Limb ELSE
                                                         IF k = 4 THEN q3 % Limb ELSE q4 % Limb]
  <1>14. Good(p1, p2, p3, p4)
    BY <1>12, <1>13
  <1>15. \E q1, q2, q3, q4 \in Nat : Good(q1, q2, q3, q4)
    <2> HIDE DEF Good
    <2> QED BY <1>1, <1>2, <1>3, <1>4, <1>14
  <1> QED BY <1>15

(* A carry is at most the factor. *)
LEMMA CarryBound ==
    ASSUME NEW L \in Nat \ {0}, NEW x \in 0 .. L - 1, NEW b \in Nat, NEW c \in 0 .. b
    PROVE  (x * b + c) \div L \in 0 .. b
  <1> DEFINE p == x * b + c
             q == p \div L
  <1>1. PICK y \in Nat : L = x + 1 + y
    <2>1. L - 1 - x \in Nat /\ L = x + 1 + (L - 1 - x)
      OBVIOUS
    <2> QED BY <2>1
  <1>2. L * b = x * b + b + y * b /\ x * b \in Nat /\ y * b \in Nat
    BY <1>1
  <1>3. p \in Nat /\ p <= L * b
    BY <1>2
  <1> HIDE DEF p
  <1>4. p = L * q + (p % L) /\ p % L \in 0 .. L - 1 /\ q \in Nat
    BY <1>3, DivMod
  <1> HIDE DEF q
  <1>5. L * q <= L * b /\ L * q \in Nat /\ L * b \in Nat /\ L * (b + 1) = L * b + L
    BY <1>3, <1>4
  <1>6. q < b + 1
    BY <1>4, <1>5, TimesCancel
  <1> QED BY <1>4, <1>6 DEF p, q

LEMMA MulStep ==
    ASSUME NEW L \in Nat, NEW A \in Nat, NEW b \in Nat, NEW q \in Nat, NEW r \in Nat, NEW x \in Nat,
           NEW c \in Nat, L * q + r = x * b + c
    PROVE  (A * b + q) * L + r = (A * L + x) * b + c
  <1>1. (A * b + q) * L + r = A * b * L + (L * q + r)
    OBVIOUS
  <1>2. (A * L + x) * b + c = A * b * L + (x * b + c)
    OBVIOUS
  <1> QED BY <1>1, <1>2

(* mul_u256_u64 is exact, and its result has five limbs. *)
LEMMA MulExact ==
    ASSUME NEW a \in [1 .. 4 -> 0 .. Limb - 1], NEW b \in 0 .. Limb - 1
    PROVE  /\ mul_u256_u64(a, b) \in [1 .. 5 -> 0 .. Limb - 1]
           /\ Value(mul_u256_u64(a, b), Limb) = Value(a, Limb) * b
  <1> DEFINE m == mul_u256_u64(a, b)
             L == Limb
  <1>0. L \in Nat \ {0} /\ b \in Nat /\ 0 \in 0 .. b /\ \A k \in 1 .. 4 : a[k] \in 0 .. L - 1 /\ a[k] \in Nat
    BY WidthAssumption
  <1>1. PICK p1, p2, p3, p4 \in Nat :
               /\ p4 = a[4] * b + 0 /\ p3 = a[3] * b + (p4 \div L)
               /\ p2 = a[2] * b + (p3 \div L) /\ p1 = a[1] * b + (p2 \div L)
               /\ m = [k \in 1 .. 5 |-> IF k = 1 THEN p1 \div L ELSE IF k = 2 THEN p1 % L ELSE
                                        IF k = 3 THEN p2 % L ELSE IF k = 4 THEN p3 % L ELSE p4 % L]
    BY MulLimbs
  <1> DEFINE q1 == p1 \div L  q2 == p2 \div L  q3 == p3 \div L  q4 == p4 \div L
             r1 == p1 % L  r2 == p2 % L  r3 == p3 % L  r4 == p4 % L
  <1>2. /\ p1 = L * q1 + r1 /\ p2 = L * q2 + r2 /\ p3 = L * q3 + r3 /\ p4 = L * q4 + r4
        /\ r1 \in 0 .. L - 1 /\ r2 \in 0 .. L - 1 /\ r3 \in 0 .. L - 1 /\ r4 \in 0 .. L - 1
        /\ q1 \in Nat /\ q2 \in Nat /\ q3 \in Nat /\ q4 \in Nat
    BY <1>0, DivMod
  <1>3. p4 = a[4] * b + 0 /\ p3 = a[3] * b + q4 /\ p2 = a[2] * b + q3 /\ p1 = a[1] * b + q2
    BY <1>1, Zenon
  <1>4. q4 \in 0 .. b
    <2>1. (a[4] * b + 0) \div L \in 0 .. b
      BY <1>0, CarryBound
    <2> QED BY <1>3, <2>1, Zenon
  <1>5. q3 \in 0 .. b
    <2>1. (a[3] * b + q4) \div L \in 0 .. b
      <3> HIDE DEF q4
      <3> QED BY <1>0, <1>4, CarryBound
    <2> QED BY <1>3, <2>1, Zenon
  <1>6. q2 \in 0 .. b
    <2>1. (a[2] * b + q3) \div L \in 0 .. b
      <3> HIDE DEF q3
      <3> QED BY <1>0, <1>5, CarryBound
    <2> QED BY <1>3, <2>1, Zenon
  <1>7. q1 \in 0 .. b
    <2>1. (a[1] * b + q2) \div L \in 0 .. b
      <3> HIDE DEF q2
      <3> QED BY <1>0, <1>6, CarryBound
    <2> QED BY <1>3, <2>1, Zenon
  <1>8. m = [k \in 1 .. 5 |-> IF k = 1 THEN q1 ELSE IF k = 2 THEN r1 ELSE
                               IF k = 3 THEN r2 ELSE IF k = 4 THEN r3 ELSE r4]
    BY <1>1, Zenon
  <1> HIDE DEF m, q1, q2, q3, q4, r1, r2, r3, r4
  <1>9. /\ m[1] = q1 /\ m[2] = r1 /\ m[3] = r2 /\ m[4] = r3 /\ m[5] = r4 /\ DOMAIN m = 1 .. 5
        /\ m = [k \in 1 .. 5 |-> m[k]]
    BY <1>8
  <1>10. m \in [1 .. 5 -> 0 .. L - 1]
    <2>1. q1 \in 0 .. L - 1
      BY <1>0, <1>7
    <2>2. \A k \in 1 .. 5 : k \in {1, 2, 3, 4, 5}
      OBVIOUS
    <2>3. \A k \in 1 .. 5 : m[k] \in 0 .. L - 1
      BY <1>2, <1>9, <2>1, <2>2, Zenon
    <2> HIDE DEF L
    <2> QED BY <1>9, <2>3
  <1>11. m \in [1 .. 5 -> Nat] /\ a \in [1 .. 4 -> Nat] /\ L \in Nat
    BY <1>0, <1>10
  <1> HIDE DEF L
  <1>12. /\ Value(m, L) = (((q1 * L + r1) * L + r2) * L + r3) * L + r4
         /\ Value(a, L) = ((a[1] * L + a[2]) * L + a[3]) * L + a[4]
    BY <1>9, <1>11, Value45
  <1>13. /\ r1 \in Nat /\ r2 \in Nat /\ r3 \in Nat /\ r4 \in Nat
         /\ a[1] \in Nat /\ a[2] \in Nat /\ a[3] \in Nat /\ a[4] \in Nat
    BY <1>0, <1>2, <1>11
  <1> DEFINE A2 == a[1] * L + a[2]
             A3 == A2 * L + a[3]
             A4 == A3 * L + a[4]
  <1>14. q1 * L + r1 = a[1] * b + q2
    BY <1>2, <1>3, <1>11
  <1>15. A2 \in Nat /\ (a[1] * b + q2) * L + r2 = A2 * b + q3
    <2>1. L * q2 + r2 = a[2] * b + q3
      BY <1>2, <1>3
    <2>2. A2 \in Nat
      BY <1>11, <1>13
    <2>3. (a[1] * b + q2) * L + r2 = (a[1] * L + a[2]) * b + q3
      BY <1>0, <1>2, <1>11, <1>13, <2>1, MulStep
    <2> QED BY <2>2, <2>3, Zenon
  <1> HIDE DEF A2
  <1>16. A3 \in Nat /\ (A2 * b + q3) * L + r3 = A3 * b + q4
    <2>1. L * q3 + r3 = a[3] * b + q4
      BY <1>2, <1>3
    <2> QED BY <1>0, <1>2, <1>11, <1>13, <1>15, <2>1, MulStep
  <1> HIDE DEF A3
  <1>17. A4 \in Nat /\ (A3 * b + q4) * L + r4 = A4 * b + 0
    <2>1. L * q4 + r4 = a[4] * b + 0
      BY <1>2, <1>3
    <2>2. A4 \in Nat
      BY <1>11, <1>13, <1>16
    <2> QED BY <1>0, <1>2, <1>11, <1>13, <1>16, <2>1, <2>2, MulStep
  <1>18. Value(m, L) = A4 * b
    <2> HIDE DEF A4
    <2> QED BY <1>0, <1>12, <1>14, <1>15, <1>16, <1>17
  <1>19. Value(a, L) = A4
    BY <1>12 DEF A2, A3
  <1> QED BY <1>10, <1>18, <1>19 DEF m, L

(* The partial dividends of div_u320_u64, from the high end. *)
IsDividends(acc, num, d) ==
    acc = [k \in 0 .. 5 |-> IF k = 0 THEN 0 ELSE (acc[k - 1] % d) * Limb + num[k]]

(* A remainder with the next limb behind it. *)
LEMMA DividendType ==
    ASSUME NEW L \in Nat \ {0}, NEW d \in Nat \ {0}, NEW x \in Nat, NEW n \in 0 .. L - 1
    PROVE  /\ (x % d) * L + n \in Nat
           /\ ((x % d) * L + n) \div d \in 0 .. L - 1
  <1> DEFINE r == x % d
             p == r * L + n
             q == p \div d
  <1>1. r \in 0 .. d - 1
    BY DivMod
  <1> HIDE DEF r
  <1>2. PICK y \in Nat : d = r + 1 + y
    <2>1. d - 1 - r \in Nat /\ d = r + 1 + (d - 1 - r)
      BY <1>1
    <2> QED BY <2>1
  <1>3. d * L = r * L + L + y * L /\ r * L \in Nat /\ y * L \in Nat
    BY <1>1, <1>2
  <1>4. p \in Nat /\ p < d * L
    BY <1>3
  <1> HIDE DEF p
  <1>5. p = d * q + (p % d) /\ p % d \in 0 .. d - 1 /\ q \in Nat
    BY <1>4, DivMod
  <1> HIDE DEF q
  <1>6. d * q < d * L /\ d * q \in Nat /\ d * L \in Nat
    BY <1>4, <1>5
  <1>7. q < L
    BY <1>5, <1>6, TimesCancel
  <1>8. q \in 0 .. L - 1
    BY <1>5, <1>7
  <1> QED BY <1>4, <1>8 DEF p, q, r

LEMMA DivLimbs ==
    ASSUME NEW num \in [1 .. 5 -> 0 .. Limb - 1], NEW d \in Nat \ {0}
    PROVE  \E acc \in [0 .. 5 -> Nat] :
               /\ acc[0] = 0
               /\ \A k \in 1 .. 5 : /\ acc[k] = (acc[k - 1] % d) * Limb + num[k]
                                    /\ acc[k] \div d \in 0 .. Limb - 1
               /\ div_u320_u64(num, d) = [k \in 1 .. 5 |-> acc[k] \div d]
  <1>0. Limb \in Nat \ {0} /\ \A k \in 1 .. 5 : num[k] \in 0 .. Limb - 1
    BY WidthAssumption
  <1> DEFINE s1 == (0 % d) * Limb + num[1]
             s2 == (s1 % d) * Limb + num[2]
             s3 == (s2 % d) * Limb + num[3]
             s4 == (s3 % d) * Limb + num[4]
             s5 == (s4 % d) * Limb + num[5]
             g == [k \in 0 .. 5 |-> IF k = 0 THEN 0 ELSE IF k = 1 THEN s1 ELSE IF k = 2 THEN s2 ELSE
                                    IF k = 3 THEN s3 ELSE IF k = 4 THEN s4 ELSE s5]
  <1>1. g[0] = 0 /\ g[1] = s1 /\ g[2] = s2 /\ g[3] = s3 /\ g[4] = s4 /\ g[5] = s5
    <2> HIDE DEF s1, s2, s3, s4, s5
    <2> QED OBVIOUS
  <1>2. IsDividends(g, num, d)
    <2>1. \A k \in 0 .. 5 : g[k] = IF k = 0 THEN 0 ELSE (g[k - 1] % d) * Limb + num[k]
      <3> HIDE DEF g
      <3> TAKE k \in 0 .. 5
      <3>1. k \in {0, 1, 2, 3, 4, 5} /\ (k = 1 => k - 1 = 0) /\ (k = 2 => k - 1 = 1)
            /\ (k = 3 => k - 1 = 2) /\ (k = 4 => k - 1 = 3) /\ (k = 5 => k - 1 = 4)
        OBVIOUS
      <3> QED BY <1>1, <3>1, Zenon
    <2> QED BY <2>1 DEF IsDividends
  <1> DEFINE acc == CHOOSE acc : IsDividends(acc, num, d)
  <1>3. IsDividends(acc, num, d)
    BY <1>2, Zenon
  <1>4. div_u320_u64(num, d) = [k \in 1 .. 5 |-> (acc[k] \div d) % Limb]
    BY Zenon DEF div_u320_u64, IsDividends
  <1> HIDE DEF acc
  <1>5. acc[0] = 0 /\ DOMAIN acc = 0 .. 5 /\ acc = [k \in 0 .. 5 |-> acc[k]]
    BY <1>3 DEF IsDividends
  <1>6. \A k \in 1 .. 5 : acc[k] = (acc[k - 1] % d) * Limb + num[k]
    BY <1>3 DEF IsDividends
  <1>7. ASSUME NEW k \in 1 .. 5, acc[k - 1] \in Nat
        PROVE  acc[k] \in Nat /\ acc[k] \div d \in 0 .. Limb - 1
    <2>1. /\ (acc[k - 1] % d) * Limb + num[k] \in Nat
          /\ ((acc[k - 1] % d) * Limb + num[k]) \div d \in 0 .. Limb - 1
      BY <1>0, <1>7, DividendType
    <2> QED BY <1>6, <2>1, Zenon
  <1>8. acc[1] \in Nat /\ acc[1] \div d \in 0 .. Limb - 1
    BY <1>5, <1>7
  <1>9. acc[2] \in Nat /\ acc[2] \div d \in 0 .. Limb - 1
    BY <1>7, <1>8
  <1>10. acc[3] \in Nat /\ acc[3] \div d \in 0 .. Limb - 1
    BY <1>7, <1>9
  <1>11. acc[4] \in Nat /\ acc[4] \div d \in 0 .. Limb - 1
    BY <1>7, <1>10
  <1>12. acc[5] \in Nat /\ acc[5] \div d \in 0 .. Limb - 1
    BY <1>7, <1>11
  <1>13. \A k \in 1 .. 5 : acc[k] \in Nat /\ acc[k] \div d \in 0 .. Limb - 1
    <2>1. \A k \in 1 .. 5 : k \in {1, 2, 3, 4, 5}
      OBVIOUS
    <2> QED BY <1>8, <1>9, <1>10, <1>11, <1>12, <2>1, Zenon
  <1>14. acc \in [0 .. 5 -> Nat]
    <2>1. \A k \in 0 .. 5 : k = 0 \/ k \in 1 .. 5
      OBVIOUS
    <2>2. \A k \in 0 .. 5 : acc[k] \in Nat
      BY <1>5, <1>13, <2>1
    <2> QED BY <1>5, <2>2
  <1>15. \A k \in 1 .. 5 : (acc[k] \div d) % Limb = acc[k] \div d
    <2> TAKE k \in 1 .. 5
    <2> DEFINE q == acc[k] \div d
    <2>1. q \in 0 .. Limb - 1
      BY <1>13
    <2> HIDE DEF q
    <2>2. q % Limb = q
      BY <1>0, <2>1
    <2> QED BY <2>2 DEF q
  <1>16. div_u320_u64(num, d) = [k \in 1 .. 5 |-> acc[k] \div d]
    BY <1>4, <1>15, Zenon
  <1> QED BY <1>5, <1>6, <1>13, <1>14, <1>16

(* div_u320_u64 is exact, and its result has five limbs. *)
LEMMA DivExact ==
    ASSUME NEW num \in [1 .. 5 -> 0 .. Limb - 1], NEW d \in Nat \ {0}
    PROVE  /\ div_u320_u64(num, d) \in [1 .. 5 -> 0 .. Limb - 1]
           /\ Value(div_u320_u64(num, d), Limb) = Value(num, Limb) \div d
  <1> DEFINE L == Limb
             u == div_u320_u64(num, d)
  <1>0. L \in Nat \ {0} /\ L \in Nat /\ num \in [1 .. 5 -> Nat] /\ \A k \in 1 .. 5 : num[k] \in Nat
    BY WidthAssumption
  <1>1. PICK acc \in [0 .. 5 -> Nat] :
               /\ acc[0] = 0
               /\ \A k \in 1 .. 5 : /\ acc[k] = (acc[k - 1] % d) * Limb + num[k]
                                    /\ acc[k] \div d \in 0 .. Limb - 1
               /\ u = [k \in 1 .. 5 |-> acc[k] \div d]
    BY DivLimbs
  <1> DEFINE r == [k \in 0 .. 5 |-> acc[k] % d]
  <1>2. \A k \in 1 .. 5 : u[k] = acc[k] \div d /\ u[k] \in Nat
    BY <1>1, <1>0
  <1>3. u \in [1 .. 5 -> 0 .. L - 1] /\ u \in [1 .. 5 -> Nat]
    BY <1>1, <1>0
  <1>4. \A k \in 0 .. 5 : r[k] = acc[k] % d /\ r[k] \in 0 .. d - 1 /\ r[k] \in Nat
    <2> TAKE k \in 0 .. 5
    <2>1. acc[k] % d \in 0 .. d - 1
      BY DivMod
    <2> QED BY <2>1
  <1> HIDE DEF u, r, L
  <1>5. ASSUME NEW k \in 1 .. 5 PROVE r[k - 1] * L + num[k] = d * u[k] + r[k]
    <2>1. k - 1 \in 0 .. 5 /\ k \in 0 .. 5
      OBVIOUS
    <2>2. acc[k] = d * (acc[k] \div d) + (acc[k] % d)
      BY <2>1, DivMod
    <2>3. acc[k] = d * u[k] + r[k]
      BY <1>2, <1>4, <2>1, <2>2, Zenon
    <2>4. acc[k] = r[k - 1] * L + num[k]
      BY <1>1, <1>4, <2>1, Zenon DEF L
    <2> QED BY <2>3, <2>4
  <1>6. r[0] = 0
    <2>1. 0 % d = 0
      OBVIOUS
    <2> QED BY <1>1, <1>4, <2>1
  <1>7. /\ Value(u, L) = (((u[1] * L + u[2]) * L + u[3]) * L + u[4]) * L + u[5]
        /\ Value(num, L) = (((num[1] * L + num[2]) * L + num[3]) * L + num[4]) * L + num[5]
    BY <1>0, <1>3, Value45
  <1>8. /\ r[0] * L + num[1] = d * u[1] + r[1] /\ r[1] * L + num[2] = d * u[2] + r[2]
        /\ r[2] * L + num[3] = d * u[3] + r[3] /\ r[3] * L + num[4] = d * u[4] + r[4]
        /\ r[4] * L + num[5] = d * u[5] + r[5]
    <2>1. 1 - 1 = 0 /\ 2 - 1 = 1 /\ 3 - 1 = 2 /\ 4 - 1 = 3 /\ 5 - 1 = 4
          /\ 1 \in 1 .. 5 /\ 2 \in 1 .. 5 /\ 3 \in 1 .. 5 /\ 4 \in 1 .. 5 /\ 5 \in 1 .. 5
      OBVIOUS
    <2> QED BY <1>5, <2>1
  <1>9. /\ num[1] \in Nat /\ num[2] \in Nat /\ num[3] \in Nat /\ num[4] \in Nat /\ num[5] \in Nat
        /\ u[1] \in Nat /\ u[2] \in Nat /\ u[3] \in Nat /\ u[4] \in Nat /\ u[5] \in Nat
        /\ r[1] \in Nat /\ r[2] \in Nat /\ r[3] \in Nat /\ r[4] \in Nat /\ r[5] \in Nat
        /\ d \in Nat /\ L \in Nat
    BY <1>0, <1>2, <1>4
  <1> DEFINE h2 == u[1] * L + u[2]
             h3 == h2 * L + u[3]
             h4 == h3 * L + u[4]
             h5 == h4 * L + u[5]
  <1>10. num[1] = d * u[1] + r[1]
    BY <1>6, <1>8, <1>9
  <1>11. h2 \in Nat /\ num[1] * L + num[2] = d * h2 + r[2]
    <2>1. h2 \in Nat
      BY <1>9
    <2>2. (d * u[1] + r[1]) * L + num[2] = d * (u[1] * L + u[2]) + r[2]
      <3>1. /\ L \in Nat /\ d \in Nat /\ u[1] \in Nat /\ r[1] \in Nat /\ num[2] \in Nat
            /\ u[2] \in Nat /\ r[2] \in Nat
        BY <1>9, Zenon
      <3>2. (d * u[1] + r[1]) * L + num[2] = d * u[1] * L + (r[1] * L + num[2])
        BY <3>1
      <3>3. d * (u[1] * L + u[2]) + r[2] = d * u[1] * L + (d * u[2] + r[2])
        BY <3>1
      <3> QED BY <1>8, <3>2, <3>3, Zenon
    <2> QED BY <1>10, <2>1, <2>2, Zenon
  <1> HIDE DEF h2
  <1>12. h3 \in Nat /\ (num[1] * L + num[2]) * L + num[3] = d * h3 + r[3]
    <2>1. h3 \in Nat
      BY <1>9, <1>11
    <2>2. (d * h2 + r[2]) * L + num[3] = d * (h2 * L + u[3]) + r[3]
      <3>1. /\ L \in Nat /\ d \in Nat /\ h2 \in Nat /\ r[2] \in Nat /\ num[3] \in Nat
            /\ u[3] \in Nat /\ r[3] \in Nat
        BY <1>9, <1>11, Zenon
      <3>2. (d * h2 + r[2]) * L + num[3] = d * h2 * L + (r[2] * L + num[3])
        BY <3>1
      <3>3. d * (h2 * L + u[3]) + r[3] = d * h2 * L + (d * u[3] + r[3])
        BY <3>1
      <3> QED BY <1>8, <3>2, <3>3, Zenon
    <2> QED BY <1>11, <2>1, <2>2, Zenon
  <1> HIDE DEF h3
  <1>13. h4 \in Nat /\ ((num[1] * L + num[2]) * L + num[3]) * L + num[4] = d * h4 + r[4]
    <2>1. h4 \in Nat
      BY <1>9, <1>12
    <2>2. (d * h3 + r[3]) * L + num[4] = d * (h3 * L + u[4]) + r[4]
      <3>1. /\ L \in Nat /\ d \in Nat /\ h3 \in Nat /\ r[3] \in Nat /\ num[4] \in Nat
            /\ u[4] \in Nat /\ r[4] \in Nat
        BY <1>9, <1>12, Zenon
      <3>2. (d * h3 + r[3]) * L + num[4] = d * h3 * L + (r[3] * L + num[4])
        BY <3>1
      <3>3. d * (h3 * L + u[4]) + r[4] = d * h3 * L + (d * u[4] + r[4])
        BY <3>1
      <3> QED BY <1>8, <3>2, <3>3, Zenon
    <2> QED BY <1>12, <2>1, <2>2, Zenon
  <1> HIDE DEF h4
  <1>14. h5 \in Nat /\ Value(num, L) = d * h5 + r[5]
    <2>1. h5 \in Nat
      BY <1>9, <1>13
    <2>2. (d * h4 + r[4]) * L + num[5] = d * (h4 * L + u[5]) + r[5]
      <3>1. /\ L \in Nat /\ d \in Nat /\ h4 \in Nat /\ r[4] \in Nat /\ num[5] \in Nat
            /\ u[5] \in Nat /\ r[5] \in Nat
        BY <1>9, <1>13, Zenon
      <3>2. (d * h4 + r[4]) * L + num[5] = d * h4 * L + (r[4] * L + num[5])
        BY <3>1
      <3>3. d * (h4 * L + u[5]) + r[5] = d * h4 * L + (d * u[5] + r[5])
        BY <3>1
      <3> QED BY <1>8, <3>2, <3>3, Zenon
    <2> QED BY <1>7, <1>13, <2>1, <2>2, Zenon
  <1>15. Value(u, L) = h5
    BY <1>7, Zenon DEF h2, h3, h4
  <1> HIDE DEF h5
  <1>16. Value(num, L) \in Nat /\ r[5] \in 0 .. d - 1
    BY <1>4, <1>9, <1>14
  <1>17. Value(num, L) \div d = h5
    BY <1>14, <1>16, QuotientIs
  <1> QED BY <1>3, <1>15, <1>17 DEF u, L

(* One more digit keeps an inequality. *)
LEMMA DigitLess ==
    ASSUME NEW L \in Nat \ {0}, NEW t \in Nat, NEW h \in Nat, t < h, NEW x \in 0 .. L - 1, NEW y \in Nat
    PROVE  t * L + x \in Nat /\ h * L + y \in Nat /\ t * L + x < h * L + y
  <1>1. PICK z \in Nat : h = t + 1 + z
    <2>1. h - t - 1 \in Nat /\ h = t + 1 + (h - t - 1)
      OBVIOUS
    <2> QED BY <2>1
  <1>2. h * L = t * L + L + z * L /\ z * L \in Nat /\ t * L \in Nat
    BY <1>1
  <1> QED BY <1>2

LEMMA DigitAtMost ==
    ASSUME NEW L \in Nat \ {0}, NEW t \in Nat, NEW h \in Nat, t <= h, NEW y \in Nat, NEW x \in 0 .. y
    PROVE  t * L + x \in Nat /\ h * L + y \in Nat /\ t * L + x <= h * L + y
  <1>1. PICK z \in Nat : h = t + z
    <2>1. h - t \in Nat /\ h = t + (h - t)
      OBVIOUS
    <2> QED BY <2>1
  <1>2. h * L = t * L + z * L /\ z * L \in Nat /\ t * L \in Nat
    BY <1>1
  <1> QED BY <1>2

(* No number of four limbs is above MaxTarget, and one with a fifth limb is. *)
LEMMA MaxIsMost ==
    ASSUME NEW s \in [1 .. 4 -> 0 .. Limb - 1]
    PROVE  /\ Value(s, Limb) \in Nat /\ Value(MaxTarget, Limb) \in Nat
           /\ Value(s, Limb) <= Value(MaxTarget, Limb)
  <1> DEFINE L == Limb
             m == L - 1
  <1>1. L \in Nat \ {0} /\ L \in Nat /\ m \in Nat
    BY WidthAssumption
  <1>2. MaxTarget \in [1 .. 4 -> Nat] /\ MaxTarget[1] = m /\ MaxTarget[2] = m /\ MaxTarget[3] = m
        /\ MaxTarget[4] = m
    BY <1>1 DEF MaxTarget
  <1>3. /\ s[1] \in 0 .. m /\ s[2] \in 0 .. m /\ s[3] \in 0 .. m /\ s[4] \in 0 .. m
        /\ s[1] \in Nat /\ s[1] <= m /\ s \in [1 .. 4 -> Nat]
    BY <1>1
  <1>4. /\ Value(s, L) = ((s[1] * L + s[2]) * L + s[3]) * L + s[4]
        /\ Value(MaxTarget, L) = ((m * L + m) * L + m) * L + m
    BY <1>1, <1>2, <1>3, Value45
  <1> HIDE DEF L, m
  <1> DEFINE s2 == s[1] * L + s[2]
             s3 == s2 * L + s[3]
             s4 == s3 * L + s[4]
             m2 == m * L + m
             m3 == m2 * L + m
             m4 == m3 * L + m
  <1>5. s2 \in Nat /\ m2 \in Nat /\ s2 <= m2
    BY <1>1, <1>3, DigitAtMost
  <1> HIDE DEF s2, m2
  <1>6. s3 \in Nat /\ m3 \in Nat /\ s3 <= m3
    BY <1>1, <1>3, <1>5, DigitAtMost
  <1> HIDE DEF s3, m3
  <1>7. s4 \in Nat /\ m4 \in Nat /\ s4 <= m4
    BY <1>1, <1>3, <1>6, DigitAtMost
  <1>8. Value(s, L) = s4 /\ Value(MaxTarget, L) = m4
    BY <1>4, Zenon DEF s2, s3, m2, m3
  <1> HIDE DEF s4, m4
  <1> QED BY <1>7, <1>8 DEF L

LEMMA FifthLimbIsAbove ==
    ASSUME NEW u \in [1 .. 5 -> 0 .. Limb - 1], u[1] # 0
    PROVE  Value(u, Limb) \in Nat /\ Value(MaxTarget, Limb) < Value(u, Limb)
  <1> DEFINE L == Limb
             m == L - 1
  <1>1. L \in Nat \ {0} /\ L \in Nat /\ m \in Nat /\ m \in 0 .. L - 1
    BY WidthAssumption
  <1>2. MaxTarget \in [1 .. 4 -> Nat] /\ MaxTarget[1] = m /\ MaxTarget[2] = m /\ MaxTarget[3] = m
        /\ MaxTarget[4] = m
    BY <1>1 DEF MaxTarget
  <1>3. /\ u[1] \in Nat /\ u[2] \in Nat /\ u[3] \in Nat /\ u[4] \in Nat /\ u[5] \in Nat
        /\ 0 < u[1] /\ u \in [1 .. 5 -> Nat]
    BY <1>1
  <1>4. /\ Value(u, L) = (((u[1] * L + u[2]) * L + u[3]) * L + u[4]) * L + u[5]
        /\ Value(MaxTarget, L) = ((m * L + m) * L + m) * L + m
    BY <1>1, <1>2, <1>3, Value45
  <1> HIDE DEF L, m
  <1> DEFINE u2 == u[1] * L + u[2]
             u3 == u2 * L + u[3]
             u4 == u3 * L + u[4]
             u5 == u4 * L + u[5]
             m2 == m * L + m
             m3 == m2 * L + m
             m4 == m3 * L + m
  <1>5. u2 \in Nat /\ m < u2
    <2>1. 0 * L + m < u[1] * L + u[2] /\ u2 \in Nat
      BY <1>1, <1>3, DigitLess
    <2>2. 0 * L + m = m
      BY <1>1
    <2> QED BY <2>1, <2>2, Zenon
  <1> HIDE DEF u2
  <1>6. m2 \in Nat /\ u3 \in Nat /\ m2 < u3
    BY <1>1, <1>3, <1>5, DigitLess
  <1> HIDE DEF m2, u3
  <1>7. m3 \in Nat /\ u4 \in Nat /\ m3 < u4
    BY <1>1, <1>3, <1>6, DigitLess
  <1> HIDE DEF m3, u4
  <1>8. m4 \in Nat /\ u5 \in Nat /\ m4 < u5
    BY <1>1, <1>3, <1>7, DigitLess
  <1>9. Value(u, L) = u5 /\ Value(MaxTarget, L) = m4
    BY <1>4, Zenon DEF u2, u3, u4, m2, m3
  <1> HIDE DEF u5, m4
  <1> QED BY <1>8, <1>9 DEF L

(* A quotient without a fifth limb is its four low limbs. *)
LEMMA DropHighLimb ==
    ASSUME NEW u \in [1 .. 5 -> 0 .. Limb - 1], u[1] = 0
    PROVE  /\ SubSeq(u, 2, 5) \in [1 .. 4 -> 0 .. Limb - 1]
           /\ Value(SubSeq(u, 2, 5), Limb) = Value(u, Limb)
  <1> DEFINE L == Limb
             w == SubSeq(u, 2, 5)
  <1>1. L \in Nat /\ u \in [1 .. 5 -> Nat]
    BY WidthAssumption
  <1>2. w = [k \in 1 .. 4 |-> u[k + 1]]
    <2>1. u \in Seq(0 .. Limb - 1)
      BY SeqDef
    <2>2. Len(u) = 5
      BY <2>1, LenProperties
    <2> QED BY <2>1, <2>2, SubSeqProperties
  <1>3. w \in [1 .. 4 -> 0 .. Limb - 1] /\ w \in [1 .. 4 -> Nat]
    <2>1. \A k \in 1 .. 4 : k + 1 \in 1 .. 5
      OBVIOUS
    <2>2. \A k \in 1 .. 4 : u[k + 1] \in 0 .. Limb - 1
      BY <2>1
    <2>3. w \in [1 .. 4 -> 0 .. Limb - 1]
      BY <1>2, <2>2
    <2> HIDE DEF w
    <2> QED BY <1>1, <2>3
  <1>4. w[1] = u[2] /\ w[2] = u[3] /\ w[3] = u[4] /\ w[4] = u[5] /\ u[2] \in Nat
    BY <1>1, <1>2
  <1> HIDE DEF w
  <1>5. /\ Value(w, L) = ((u[2] * L + u[3]) * L + u[4]) * L + u[5]
        /\ Value(u, L) = (((0 * L + u[2]) * L + u[3]) * L + u[4]) * L + u[5]
    BY <1>1, <1>3, <1>4, Value45
  <1>6. 0 * L + u[2] = u[2]
    BY <1>1, <1>4
  <1> QED BY <1>3, <1>5, <1>6, Zenon DEF w, L

LEMMA ClampType ==
    ASSUME NEW actual \in 0 .. Limb - 1, NEW expected \in 0 .. Limb - 1
    PROVE  clamp_retarget(actual, expected) \in 0 .. Limb - 1
  BY WidthAssumption DEF clamp_retarget, AtMost, AtLeast

(* The limb arithmetic of bitcoin_retarget is exact for every width of a limb: no carry is lost in
   the product, none in the quotient, and it saturates only above 2^256 - 1. *)
THEOREM RetargetsExactly == ChainSpec => []RetargetExact
  <1>1. RetargetExact
    <2> SUFFICES ASSUME NEW old \in [1 .. 4 -> 0 .. Limb - 1], NEW actual \in 0 .. Limb - 1,
                        NEW expected \in 0 .. Limb - 1
                 PROVE  Value(bitcoin_retarget(old, actual, expected), Limb) =
                            IF expected = 0 THEN Value(old, Limb)
                            ELSE AtMost((Value(old, Limb) * clamp_retarget(actual, expected))
                                           \div expected, Value(MaxTarget, Limb))
      BY DEF RetargetExact
    <2> DEFINE c == clamp_retarget(actual, expected)
               prod == mul_u256_u64(old, c)
               quot == div_u320_u64(prod, expected)
               exact == (Value(old, Limb) * c) \div expected
               most == Value(MaxTarget, Limb)
    <2>1. bitcoin_retarget(old, actual, expected) =
              IF expected = 0 THEN old ELSE IF quot[1] # 0 THEN MaxTarget ELSE SubSeq(quot, 2, 5)
      BY Zenon DEF bitcoin_retarget
    <2>2. CASE expected = 0
      BY <2>1, <2>2, Zenon
    <2>3. CASE expected # 0
      <3>1. expected \in Nat \ {0} /\ c \in 0 .. Limb - 1
        BY <2>3, ClampType, WidthAssumption
      <3> HIDE DEF c
      <3>2. prod \in [1 .. 5 -> 0 .. Limb - 1] /\ Value(prod, Limb) = Value(old, Limb) * c
        BY <3>1, MulExact
      <3> HIDE DEF prod
      <3>3. quot \in [1 .. 5 -> 0 .. Limb - 1] /\ Value(quot, Limb) = exact
        BY <3>1, <3>2, DivExact
      <3> HIDE DEF quot, exact
      <3>4. CASE quot[1] # 0
        <4>1. exact \in Nat /\ most < exact /\ most \in Nat
          BY <3>3, <3>4, FifthLimbIsAbove, MaxIsMost
        <4> HIDE DEF most
        <4>2. AtMost(exact, most) = most
          BY <4>1 DEF AtMost
        <4>3. bitcoin_retarget(old, actual, expected) = MaxTarget
          BY <2>1, <2>3, <3>4
        <4>4. Value(bitcoin_retarget(old, actual, expected), Limb) = most
          BY <4>3 DEF most
        <4> QED BY <2>3, <4>2, <4>4, Zenon DEF exact, most, c
      <3>5. CASE quot[1] = 0
        <4>1. SubSeq(quot, 2, 5) \in [1 .. 4 -> 0 .. Limb - 1] /\ Value(SubSeq(quot, 2, 5), Limb) = exact
          BY <3>3, <3>5, DropHighLimb, Zenon
        <4>2. exact \in Nat /\ most \in Nat /\ exact <= most
          BY <4>1, MaxIsMost
        <4> HIDE DEF most
        <4>3. AtMost(exact, most) = exact
          BY <4>2 DEF AtMost
        <4>4. bitcoin_retarget(old, actual, expected) = SubSeq(quot, 2, 5)
          BY <2>1, <2>3, <3>5
        <4> QED BY <2>3, <4>1, <4>3, <4>4, Zenon DEF exact, most, c
      <3> QED BY <3>4, <3>5
    <2> QED BY <2>2, <2>3
  <1> QED BY <1>1, PTL

-----------------------------------------------------------------------------
(* Numbers and their digits, for any base and any number of digits. *)

IsPower(P, base, n) == P = [k \in 0 .. n |-> IF k = 0 THEN 1 ELSE P[k - 1] * base]
(* V gives the values of the first digits of s, up to n of them. *)
IsValueOf(V, s, base, n) ==
    V[0] = 0 /\ \A k \in 1 .. n : V[k] = V[k - 1] * base + s[k]

LEMMA PowerDef ==
    ASSUME NEW base, NEW n
    PROVE  Power(base, n) = (CHOOSE P : IsPower(P, base, n))[n]
  BY Zenon DEF Power, IsPower

(* The powers of a base, as one function. *)
LEMMA PowersExist ==
    ASSUME NEW base, NEW n \in Nat
    PROVE  IsPower(CHOOSE P : IsPower(P, base, n), base, n)
  <1> DEFINE M == {m \in Nat : \E P : IsPower(P, base, m)}
  <1>1. 0 \in M
    <2> DEFINE P == [k \in 0 .. 0 |-> 1]
    <2>1. IsPower(P, base, 0)
      BY DEF IsPower
    <2> QED BY <2>1
  <1>2. ASSUME NEW m \in Nat, m \in M PROVE m + 1 \in M
    <2>1. PICK P : IsPower(P, base, m)
      BY <1>2
    <2> DEFINE R == [k \in 0 .. m + 1 |-> IF k = 0 THEN 1 ELSE P[k - 1] * base]
    <2>2. \A k \in 0 .. m : P[k] = IF k = 0 THEN 1 ELSE P[k - 1] * base
      BY <2>1 DEF IsPower
    <2>3. \A k \in 0 .. m : R[k] = P[k]
      BY <2>2
    <2>4. \A k \in 0 .. m + 1 : k # 0 => k - 1 \in 0 .. m
      OBVIOUS
    <2>5. \A k \in 0 .. m + 1 : R[k] = IF k = 0 THEN 1 ELSE R[k - 1] * base
      BY <2>3, <2>4
    <2>6. IsPower(R, base, m + 1)
      BY <2>5 DEF IsPower
    <2> QED BY <2>6
  <1>3. n \in M
    <2> HIDE DEF M
    <2> QED BY <1>1, <1>2, NatSetInduction
  <1> QED BY <1>3

(* Powers computed up to different exponents agree. *)
LEMMA PowersAgree ==
    ASSUME NEW base, NEW m \in Nat, NEW n \in Nat, NEW P, NEW R, IsPower(P, base, m),
           IsPower(R, base, n)
    PROVE  \A k \in Nat : k <= m /\ k <= n => P[k] = R[k]
  <1> DEFINE M == {k \in Nat : k <= m /\ k <= n => P[k] = R[k]}
  <1>0. /\ \A k \in 0 .. m : P[k] = IF k = 0 THEN 1 ELSE P[k - 1] * base
        /\ \A k \in 0 .. n : R[k] = IF k = 0 THEN 1 ELSE R[k - 1] * base
    BY DEF IsPower
  <1>1. 0 \in M
    BY <1>0
  <1>2. ASSUME NEW k \in Nat, k \in M PROVE k + 1 \in M
    <2> SUFFICES ASSUME k + 1 <= m, k + 1 <= n PROVE P[k + 1] = R[k + 1]
      OBVIOUS
    <2>1. /\ k + 1 \in 0 .. m /\ k + 1 \in 0 .. n /\ k + 1 # 0 /\ (k + 1) - 1 = k
          /\ P[k] = R[k]
      BY <1>2
    <2>2. P[k + 1] = P[k] * base /\ R[k + 1] = R[k] * base
      BY <1>0, <2>1
    <2> QED BY <2>1, <2>2
  <1>3. Nat \subseteq M
    <2> HIDE DEF M
    <2> QED BY <1>1, <1>2, NatSetInduction
  <1> QED BY <1>3

LEMMA PowerFacts ==
    ASSUME NEW base \in Nat \ {0}
    PROVE  /\ Power(base, 0) = 1
           /\ \A n \in Nat : Power(base, n + 1) = Power(base, n) * base
           /\ \A n \in Nat : Power(base, n) \in Nat \ {0}
  <1> DEFINE P(n) == CHOOSE F : IsPower(F, base, n)
  <1>1. \A n \in Nat : Power(base, n) = P(n)[n] /\ IsPower(P(n), base, n)
    BY PowerDef, PowersExist
  <1> HIDE DEF P
  <1>2. \A n \in Nat : \A k \in 0 .. n : P(n)[k] = IF k = 0 THEN 1 ELSE P(n)[k - 1] * base
    BY <1>1 DEF IsPower
  <1>3. Power(base, 0) = 1
    BY <1>1, <1>2
  <1>4. ASSUME NEW n \in Nat PROVE Power(base, n + 1) = Power(base, n) * base
    <2>1. n + 1 \in Nat /\ n + 1 \in 0 .. n + 1 /\ n + 1 # 0 /\ (n + 1) - 1 = n /\ n <= n + 1
          /\ n <= n
      OBVIOUS
    <2>2. P(n + 1)[n + 1] = P(n + 1)[n] * base
      BY <1>2, <2>1
    <2>3. P(n + 1)[n] = P(n)[n]
      BY <1>1, <2>1, PowersAgree
    <2> QED BY <1>1, <2>1, <2>2, <2>3
  <1>5. \A n \in Nat : Power(base, n) \in Nat \ {0}
    <2> DEFINE M == {n \in Nat : Power(base, n) \in Nat \ {0}}
    <2>1. 0 \in M
      BY <1>3
    <2>2. ASSUME NEW n \in Nat, n \in M PROVE n + 1 \in M
      <3> DEFINE x == Power(base, n)
      <3>1. x \in Nat \ {0}
        BY <2>2
      <3>2. Power(base, n + 1) = x * base
        BY <1>4
      <3> HIDE DEF x
      <3>3. x * base \in Nat \ {0}
        BY <3>1
      <3> QED BY <3>2, <3>3
    <2> HIDE DEF M
    <2>3. Nat \subseteq M
      BY <2>1, <2>2, NatSetInduction
    <2> QED BY <2>3 DEF M
  <1> QED BY <1>3, <1>4, <1>5

Digits(s, base, n) == \A k \in 1 .. n : s[k] \in 0 .. base - 1
Values(s, base, n) == CHOOSE V : IsValue(V, s, base, n)

LEMMA ValuesUnfold ==
    ASSUME NEW s, NEW base, NEW n \in Nat
    PROVE  IsValueOf(Values(s, base, n), s, base, n)
  <1> DEFINE M == {m \in Nat : \E V : IsValue(V, s, base, m)}
             V == Values(s, base, n)
  <1>1. 0 \in M
    <2> DEFINE U == [k \in 0 .. 0 |-> 0]
    <2>1. IsValue(U, s, base, 0)
      BY DEF IsValue
    <2> QED BY <2>1
  <1>2. ASSUME NEW m \in Nat, m \in M PROVE m + 1 \in M
    <2>1. PICK U : IsValue(U, s, base, m)
      BY <1>2
    <2> DEFINE R == [k \in 0 .. m + 1 |-> IF k = 0 THEN 0 ELSE U[k - 1] * base + s[k]]
    <2>2. \A k \in 0 .. m : U[k] = IF k = 0 THEN 0 ELSE U[k - 1] * base + s[k]
      BY <2>1 DEF IsValue
    <2>3. \A k \in 0 .. m : R[k] = U[k]
      BY <2>2
    <2>4. \A k \in 0 .. m + 1 : k # 0 => k - 1 \in 0 .. m
      OBVIOUS
    <2>5. \A k \in 0 .. m + 1 : R[k] = IF k = 0 THEN 0 ELSE R[k - 1] * base + s[k]
      BY <2>3, <2>4
    <2>6. IsValue(R, s, base, m + 1)
      BY <2>5 DEF IsValue
    <2> QED BY <2>6
  <1>3. n \in M
    <2> HIDE DEF M
    <2> QED BY <1>1, <1>2, NatSetInduction
  <1>4. IsValue(V, s, base, n)
    BY <1>3 DEF Values
  <1> HIDE DEF V
  <1>5. \A k \in 0 .. n : V[k] = IF k = 0 THEN 0 ELSE V[k - 1] * base + s[k]
    BY <1>4 DEF IsValue
  <1>6. V[0] = 0 /\ \A k \in 1 .. n : V[k] = V[k - 1] * base + s[k]
    BY <1>5
  <1> QED BY <1>6 DEF V, IsValueOf

LEMMA ValueType ==
    ASSUME NEW base \in Nat \ {0}, NEW n \in Nat, NEW s, Digits(s, base, n), NEW V,
           IsValueOf(V, s, base, n)
    PROVE  \A k \in 0 .. n : V[k] \in Nat
  <1> DEFINE M == {m \in Nat : m <= n => V[m] \in Nat}
  <1>1. 0 \in M
    BY DEF IsValueOf
  <1>2. ASSUME NEW m \in Nat, m \in M PROVE m + 1 \in M
    <2> SUFFICES ASSUME m + 1 <= n PROVE V[m + 1] \in Nat
      OBVIOUS
    <2>1. m + 1 \in 1 .. n /\ (m + 1) - 1 = m /\ V[m] \in Nat
      BY <1>2
    <2>2. V[m + 1] = V[m] * base + s[m + 1] /\ s[m + 1] \in Nat
      BY <2>1 DEF IsValueOf, Digits
    <2> QED BY <2>1, <2>2
  <1>3. Nat \subseteq M
    <2> HIDE DEF M
    <2> QED BY <1>1, <1>2, NatSetInduction
  <1> QED BY <1>3

(* Larger digits, larger value. *)
LEMMA ValueMonotone ==
    ASSUME NEW base \in Nat \ {0}, NEW n \in Nat, NEW s, NEW t, Digits(s, base, n),
           Digits(t, base, n), \A k \in 1 .. n : s[k] <= t[k],
           NEW V, IsValueOf(V, s, base, n), NEW W, IsValueOf(W, t, base, n)
    PROVE  \A k \in 0 .. n : V[k] <= W[k]
  <1> DEFINE M == {m \in Nat : m <= n => V[m] <= W[m]}
  <1>0. \A k \in 0 .. n : V[k] \in Nat /\ W[k] \in Nat
    BY ValueType
  <1>1. 0 \in M
    BY DEF IsValueOf
  <1>2. ASSUME NEW m \in Nat, m \in M PROVE m + 1 \in M
    <2> SUFFICES ASSUME m + 1 <= n PROVE V[m + 1] <= W[m + 1]
      OBVIOUS
    <2>1. /\ m + 1 \in 1 .. n /\ (m + 1) - 1 = m /\ V[m] <= W[m] /\ m \in 0 .. n
          /\ V[m] \in Nat /\ W[m] \in Nat
      BY <1>0, <1>2
    <2>2. V[m + 1] = V[m] * base + s[m + 1] /\ s[m + 1] \in Nat
      BY <2>1 DEF IsValueOf, Digits
    <2>3. W[m + 1] = W[m] * base + t[m + 1] /\ t[m + 1] \in Nat /\ s[m + 1] <= t[m + 1]
      BY <2>1 DEF IsValueOf, Digits
    <2> DEFINE x == V[m] * base
               y == W[m] * base
    <2>4. base * V[m] <= base * W[m]
      BY <2>1, TimesMonotone
    <2>5. x \in Nat /\ y \in Nat /\ x <= y
      BY <2>1, <2>4
    <2> HIDE DEF x, y
    <2> QED BY <2>2, <2>3, <2>5 DEF x, y
  <1>3. Nat \subseteq M
    <2> HIDE DEF M
    <2> QED BY <1>1, <1>2, NatSetInduction
  <1> QED BY <1>3

(* The same digits, the same value. *)
LEMMA ValueSame ==
    ASSUME NEW base \in Nat \ {0}, NEW n \in Nat, NEW s, NEW t, Digits(s, base, n),
           \A k \in 1 .. n : s[k] = t[k],
           NEW V, IsValueOf(V, s, base, n), NEW W, IsValueOf(W, t, base, n)
    PROVE  \A k \in 0 .. n : V[k] = W[k]
  <1>1. Digits(t, base, n) /\ \A k \in 1 .. n : s[k] <= t[k] /\ t[k] <= s[k]
    BY DEF Digits
  <1>2. \A k \in 0 .. n : V[k] <= W[k]
    BY <1>1, ValueMonotone
  <1>3. \A k \in 0 .. n : W[k] <= V[k]
    BY <1>1, ValueMonotone
  <1>4. \A k \in 0 .. n : V[k] \in Nat /\ W[k] \in Nat
    BY <1>1, ValueType
  <1> QED BY <1>2, <1>3, <1>4

(* A number is its first c digits, moved up by the others, and what the others add, which is less
   than one unit of digit c, nothing if they are all zero, and does not depend on the first. *)
LEMMA ValueSplit ==
    ASSUME NEW base \in Nat \ {0}, NEW n \in Nat, NEW s, Digits(s, base, n), NEW V,
           IsValueOf(V, s, base, n), NEW c \in 0 .. n
    PROVE  \A k \in c .. n : /\ V[c] * Power(base, k - c) <= V[k]
                             /\ V[k] < (V[c] + 1) * Power(base, k - c)
                             /\ (\A j \in c + 1 .. k : s[j] = 0) => V[k] = V[c] * Power(base, k - c)
  <1> DEFINE P(j) == Power(base, j)
             Good(k) == /\ V[c] * P(k - c) <= V[k]
                        /\ V[k] < (V[c] + 1) * P(k - c)
                        /\ (\A j \in c + 1 .. k : s[j] = 0) => V[k] = V[c] * P(k - c)
             M == {m \in Nat : c + m <= n => Good(c + m)}
  <1>0. \A k \in 0 .. n : V[k] \in Nat
    BY ValueType
  <1>1. P(0) = 1 /\ \A m \in Nat : P(m + 1) = P(m) * base /\ P(m) \in Nat \ {0}
    BY PowerFacts
  <1> HIDE DEF P
  <1>2. 0 \in M
    <2>1. V[c] \in Nat /\ c + 0 = c /\ c - c = 0
      BY <1>0
    <2>2. V[c] * P(0) = V[c] /\ (V[c] + 1) * P(0) = V[c] + 1
      BY <1>1, <2>1
    <2> QED BY <2>1, <2>2
  <1>3. ASSUME NEW m \in Nat, m \in M PROVE m + 1 \in M
    <2> SUFFICES ASSUME c + (m + 1) <= n PROVE Good(c + (m + 1))
      OBVIOUS
    <2> DEFINE k == c + m
    <2>1. /\ k \in 0 .. n /\ k + 1 \in 1 .. n /\ (k + 1) - 1 = k /\ c + (m + 1) = k + 1
          /\ k - c = m /\ (k + 1) - c = m + 1 /\ Good(k) /\ k \in Nat /\ c \in Nat
      BY <1>3
    <2> HIDE DEF k
    <2> DEFINE a == V[c]
               p == P(m)
               v == V[k]
               d == s[k + 1]
    <2>2. a \in Nat /\ p \in Nat /\ v \in Nat /\ V[k + 1] = v * base + d /\ d \in 0 .. base - 1
      BY <1>0, <1>1, <2>1 DEF IsValueOf, Digits
    <2>3. P((k + 1) - c) = p * base /\ P(k - c) = p
      BY <1>1, <2>1
    <2>4. /\ a * p <= v /\ v < (a + 1) * p
          /\ (\A j \in c + 1 .. k : s[j] = 0) => v = a * p
      BY <2>1, <2>3
    <2>5. (\A j \in c + 1 .. k + 1 : s[j] = 0) => d = 0 /\ \A j \in c + 1 .. k : s[j] = 0
      <3>1. k + 1 \in c + 1 .. k + 1 /\ \A j \in c + 1 .. k : j \in c + 1 .. k + 1
        BY <2>1, <2>2
      <3> QED BY <3>1
    <2> HIDE DEF a, p, v, d
    <2>6. a * (p * base) = base * (a * p) /\ (a + 1) * (p * base) = base * ((a + 1) * p)
          /\ v * base = base * v
      BY <2>2
    <2> DEFINE x == a * p
               y == (a + 1) * p
    <2>7. x \in Nat /\ y \in Nat /\ x <= v /\ v + 1 <= y
      BY <2>2, <2>4
    <2> HIDE DEF x, y
    <2>8. base * x <= base * v /\ base * (v + 1) <= base * y
      BY <2>2, <2>7, TimesMonotone
    <2>9. base * (v + 1) = base * v + base
      BY <2>2
    <2> DEFINE X == base * x
               Y == base * y
               Z == base * v
    <2>10. X \in Nat /\ Y \in Nat /\ Z \in Nat
      BY <2>2, <2>7
    <2>11. X <= Z /\ Z + base <= Y
      BY <2>8, <2>9
    <2> HIDE DEF X, Y, Z
    <2>12. X <= Z + d /\ Z + d < Y
      BY <2>2, <2>10, <2>11
    <2>13. V[k + 1] = Z + d /\ a * (p * base) = X /\ (a + 1) * (p * base) = Y
      BY <2>2, <2>6 DEF X, Y, Z, x, y
    <2>14. (\A j \in c + 1 .. k + 1 : s[j] = 0) => Z + d = X
      <3> SUFFICES ASSUME \A j \in c + 1 .. k + 1 : s[j] = 0 PROVE Z + d = X
        OBVIOUS
      <3>1. d = 0 /\ v = x
        BY <2>4, <2>5 DEF x
      <3> QED BY <2>10, <3>1 DEF X, Z
    <2>15. Good(k + 1)
      BY <2>3, <2>12, <2>13, <2>14 DEF a
    <2> QED BY <2>1, <2>15
  <1>4. Nat \subseteq M
    <2> HIDE DEF M
    <2> QED BY <1>2, <1>3, NatSetInduction
  <1>5. ASSUME NEW k \in c .. n PROVE Good(k)
    <2>1. k - c \in Nat /\ c + (k - c) = k /\ k <= n
      OBVIOUS
    <2>2. Good(c + (k - c))
      BY <1>4, <2>1
    <2> QED BY <2>1, <2>2
  <1> QED BY <1>5 DEF P

(* Numbers with the same last digits differ by what their first digits differ. *)
LEMMA ValueShift ==
    ASSUME NEW base \in Nat \ {0}, NEW n \in Nat, NEW s, NEW t, Digits(s, base, n),
           Digits(t, base, n), NEW V, IsValueOf(V, s, base, n), NEW W, IsValueOf(W, t, base, n),
           NEW c \in 0 .. n, \A k \in c + 1 .. n : s[k] = t[k]
    PROVE  \A k \in c .. n :
               V[k] + W[c] * Power(base, k - c) = W[k] + V[c] * Power(base, k - c)
  <1> DEFINE P(j) == Power(base, j)
             Good(k) == V[k] + W[c] * P(k - c) = W[k] + V[c] * P(k - c)
             M == {m \in Nat : c + m <= n => Good(c + m)}
  <1>0. \A k \in 0 .. n : V[k] \in Nat /\ W[k] \in Nat
    BY ValueType
  <1>1. P(0) = 1 /\ \A m \in Nat : P(m + 1) = P(m) * base /\ P(m) \in Nat \ {0}
    BY PowerFacts
  <1> HIDE DEF P
  <1>2. 0 \in M
    <2>1. V[c] \in Nat /\ W[c] \in Nat /\ c + 0 = c /\ c - c = 0
      BY <1>0
    <2>2. V[c] * P(0) = V[c] /\ W[c] * P(0) = W[c]
      BY <1>1, <2>1
    <2> QED BY <2>1, <2>2
  <1>3. ASSUME NEW m \in Nat, m \in M PROVE m + 1 \in M
    <2> SUFFICES ASSUME c + (m + 1) <= n PROVE Good(c + (m + 1))
      OBVIOUS
    <2> DEFINE k == c + m
    <2>1. /\ k \in 0 .. n /\ k + 1 \in 1 .. n /\ (k + 1) - 1 = k /\ c + (m + 1) = k + 1
          /\ k - c = m /\ (k + 1) - c = m + 1 /\ Good(k) /\ k + 1 \in c + 1 .. n
      BY <1>3
    <2> HIDE DEF k
    <2> DEFINE a == V[c]
               b == W[c]
               p == P(m)
               v == V[k]
               w == W[k]
               d == s[k + 1]
    <2>2. /\ a \in Nat /\ b \in Nat /\ p \in Nat /\ v \in Nat /\ w \in Nat
          /\ V[k + 1] = v * base + d /\ W[k + 1] = w * base + d /\ d \in 0 .. base - 1
      BY <1>0, <1>1, <2>1 DEF IsValueOf, Digits
    <2>3. P((k + 1) - c) = p * base /\ P(k - c) = p
      BY <1>1, <2>1
    <2>4. v + b * p = w + a * p
      BY <2>1, <2>3
    <2> HIDE DEF a, b, p, v, w, d
    <2>5. (v + b * p) * base = (w + a * p) * base
      BY <2>4
    <2>6. /\ (v + b * p) * base = v * base + b * (p * base)
          /\ (w + a * p) * base = w * base + a * (p * base)
      BY <2>2
    <2>7. (v * base + d) + b * (p * base) = (w * base + d) + a * (p * base)
      <3> DEFINE x == v * base
                 y == w * base
                 X == a * (p * base)
                 Y == b * (p * base)
      <3>1. x \in Nat /\ y \in Nat /\ X \in Nat /\ Y \in Nat /\ x + Y = y + X
        BY <2>2, <2>5, <2>6
      <3> HIDE DEF x, y, X, Y
      <3>2. (x + d) + Y = (y + d) + X
        BY <2>2, <3>1
      <3> QED BY <3>2 DEF x, y, X, Y
    <2>8. Good(k + 1)
      BY <2>2, <2>3, <2>7 DEF a, b
    <2> QED BY <2>1, <2>8
  <1>4. Nat \subseteq M
    <2> HIDE DEF M
    <2> QED BY <1>2, <1>3, NatSetInduction
  <1>5. ASSUME NEW k \in c .. n PROVE Good(k)
    <2>1. k - c \in Nat /\ c + (k - c) = k /\ k <= n
      OBVIOUS
    <2>2. Good(c + (k - c))
      BY <1>4, <2>1
    <2> QED BY <2>1, <2>2
  <1> QED BY <1>5 DEF P

(* Dividing twice is dividing by the product. *)
LEMMA DivTwice ==
    ASSUME NEW v \in Nat, NEW p \in Nat \ {0}, NEW b \in Nat \ {0}
    PROVE  v \div (p * b) = (v \div p) \div b
  <1> DEFINE q == v \div p
             r == v % p
             Q2 == q \div b
             R2 == q % b
  <1>1. v = p * q + r /\ r \in 0 .. p - 1 /\ q \in Nat
    BY DivMod
  <1> HIDE DEF q, r
  <1>2. q = b * Q2 + R2 /\ R2 \in 0 .. b - 1 /\ Q2 \in Nat
    BY <1>1, DivMod
  <1> HIDE DEF Q2, R2
  <1>3. p * q = (p * b) * Q2 + p * R2
    BY <1>1, <1>2
  <1>4. p * R2 \in Nat /\ p * R2 <= p * (b - 1) /\ p * (b - 1) = p * b - p
    BY <1>2, TimesMonotone
  <1> DEFINE d == p * b
             x == p * R2
  <1>5. d \in Nat \ {0}
    OBVIOUS
  <1>6. x + r \in 0 .. d - 1 /\ x \in Nat
    <2>1. d \in Nat /\ x \in Nat /\ x <= d - p
      BY <1>4, <1>5
    <2> HIDE DEF d, x
    <2> QED BY <1>1, <2>1
  <1>7. v = d * Q2 + (x + r)
    <2>1. v = (d * Q2 + x) + r
      BY <1>1, <1>3
    <2>2. d * Q2 \in Nat
      BY <1>2, <1>5
    <2> HIDE DEF d, x
    <2> QED BY <1>1, <1>6, <2>1, <2>2
  <1> HIDE DEF d, x
  <1>8. v \div d = Q2
    BY <1>2, <1>5, <1>6, <1>7, QuotientIs
  <1> QED BY <1>8 DEF d, Q2, q

LEMMA PowerPositive ==
    ASSUME NEW base \in Nat \ {0}, NEW n \in Nat
    PROVE  Power(base, n) \in Nat \ {0}
  BY PowerFacts

LEMMA DigitType ==
    ASSUME NEW base \in Nat \ {0}, NEW n \in Nat, NEW v \in Int, NEW k \in 1 .. n
    PROVE  Digit(v, base, n, k) \in 0 .. base - 1
  <1> DEFINE p == Power(base, n - k)
  <1>1. n - k \in Nat
    OBVIOUS
  <1>2. p \in Nat \ {0}
    BY <1>1, PowerPositive
  <1> HIDE DEF p
  <1>3. v \div p \in Int
    BY <1>2
  <1> DEFINE q == v \div p
  <1> HIDE DEF q
  <1>4. q % base \in 0 .. base - 1
    BY <1>3 DEF q
  <1> QED BY <1>4 DEF Digit, p, q

(* The digits of a number that fits have that number as their value. *)
LEMMA DigitsGiveValue ==
    ASSUME NEW base \in Nat \ {0}, NEW n \in Nat, NEW v \in Nat, v < Power(base, n),
           NEW s, \A k \in 1 .. n : s[k] = Digit(v, base, n, k),
           NEW V, IsValueOf(V, s, base, n)
    PROVE  V[n] = v
  <1> DEFINE P(j) == Power(base, j)
             M == {m \in Nat : m <= n => V[m] = v \div P(n - m)}
  <1>1. P(0) = 1 /\ \A m \in Nat : P(m + 1) = P(m) * base /\ P(m) \in Nat \ {0}
    BY PowerFacts
  <1>2. \A k \in 1 .. n : s[k] = (v \div P(n - k)) % base
    BY DEF Digit
  <1>3. v < P(n)
    OBVIOUS
  <1> HIDE DEF P
  <1>4. 0 \in M
    <2>1. P(n) \in Nat \ {0} /\ n - 0 = n
      BY <1>1
    <2>2. v = P(n) * 0 + v /\ v \in 0 .. P(n) - 1
      BY <1>3, <2>1
    <2>3. v \div P(n) = 0
      BY <2>1, <2>2, QuotientIs
    <2> QED BY <2>1, <2>3 DEF IsValueOf
  <1>5. ASSUME NEW m \in Nat, m \in M PROVE m + 1 \in M
    <2> SUFFICES ASSUME m + 1 <= n PROVE V[m + 1] = v \div P(n - (m + 1))
      OBVIOUS
    <2> DEFINE j == n - (m + 1)
               p == P(j)
               q == v \div p
    <2>1. j \in Nat /\ n - m = j + 1 /\ m + 1 \in 1 .. n /\ (m + 1) - 1 = m
      OBVIOUS
    <2>2. V[m] = v \div P(n - m)
      BY <1>5
    <2>3. p \in Nat \ {0} /\ P(n - m) = p * base
      BY <1>1, <2>1
    <2>4. s[m + 1] = q % base /\ V[m + 1] = V[m] * base + s[m + 1]
      BY <1>2, <2>1 DEF IsValueOf
    <2> HIDE DEF j, p
    <2>5. v \div (p * base) = q \div base /\ q \in Nat
      BY <2>3, DivTwice, DivMod
    <2> HIDE DEF q
    <2>6. q = base * (q \div base) + (q % base) /\ q \div base \in Nat
      BY <2>5, DivMod
    <2>7. V[m] = q \div base
      BY <2>2, <2>3, <2>5
    <2>8. V[m + 1] = q
      BY <2>4, <2>6, <2>7
    <2> QED BY <2>8 DEF q, p, j
  <1>6. Nat \subseteq M
    <2> HIDE DEF M
    <2> QED BY <1>4, <1>5, NatSetInduction
  <1>7. V[n] = v \div P(0)
    <2>1. n \in M /\ n - n = 0 /\ n <= n
      BY <1>6
    <2> QED BY <2>1
  <1> QED BY <1>1, <1>7

(* The values of the sequences that the code sums up. *)
LEMMA ValueOfDigits ==
    ASSUME NEW base, NEW n \in Nat, NEW S, NEW s \in [1 .. n -> S]
    PROVE  Value(s, base) = Values(s, base, n)[n] /\ s \in Seq(S) /\ Len(s) = n
  <1>1. Len(s) = n /\ s \in Seq(S)
    BY SeqDef, LenProperties
  <1>2. Value(s, base) = (CHOOSE V : IsValue(V, s, base, n))[n]
    BY <1>1, ValueDef
  <1> QED BY <1>1, <1>2 DEF Values

-----------------------------------------------------------------------------
(* Compact bits. *)

Bytes == 0 .. Byte - 1
Targets == [1 .. N -> Bytes]
(* Half of a byte: the first byte of a mantissa without the sign bit is below it. *)
HalfByte == Byte \div 2
(* A target whose bytes are zero, except the three after the first w. *)
Window(w, x, y, u) ==
    [k \in 1 .. N |-> IF k = w + 1 THEN x ELSE IF k = w + 2 THEN y ELSE IF k = w + 3 THEN u ELSE 0]
(* The first z bytes are the zeros before the first byte that is not zero. *)
FirstAt(t, z) == z \in 0 .. N - 1 /\ t[z + 1] # 0 /\ \A k \in 1 .. z : t[k] = 0
(* The bytes that the compact bits of t keep, when its first byte is at z + 1. *)
Cut(t, z) == IF t[z + 1] >= HalfByte THEN z + 2 ELSE z + 3
Truncated(t, c) == [k \in 1 .. N |-> IF k <= c THEN t[k] ELSE 0]

LEMMA ByteFacts ==
    /\ Byte \in Nat \ {0, 1} /\ HalfByte \in Nat \ {0} /\ Byte = 2 * HalfByte
    /\ N \in Nat /\ N >= 4 /\ N \div 2 \in Nat /\ N \div 2 >= 2 /\ N \div 2 + N \div 2 = N
  BY WidthAssumption, BitAssumption DEF HalfByte

LEMMA SmallPowers ==
    /\ Power(Byte, 0) = 1 /\ Power(Byte, 1) = Byte /\ Power(Byte, 2) = Byte * Byte
    /\ Power(Byte, 3) = (Byte * Byte) * Byte
  <1>1. Byte \in Nat \ {0}
    BY ByteFacts
  <1>2. Power(Byte, 0) = 1 /\ \A n \in Nat : Power(Byte, n + 1) = Power(Byte, n) * Byte
    BY <1>1, PowerFacts
  <1>3. 0 + 1 = 1 /\ 1 + 1 = 2 /\ 2 + 1 = 3 /\ 0 \in Nat /\ 1 \in Nat /\ 2 \in Nat /\ 1 * Byte = Byte
    BY <1>1
  <1> QED BY <1>2, <1>3

LEMMA SignIs == Sign = (HalfByte * Byte) * Byte /\ Sign \in Nat \ {0}
  <1> DEFINE x == (HalfByte * Byte) * Byte
  <1>1. (Byte * Byte) * Byte = 2 * x /\ x \in Nat \ {0}
    BY ByteFacts
  <1> HIDE DEF x
  <1>2. (2 * x) \div 2 = x
    BY <1>1
  <1>3. Sign = x
    BY <1>1, <1>2, SmallPowers DEF Sign
  <1> QED BY <1>1, <1>3 DEF x

LEMMA ThreeBytes ==
    ASSUME NEW x \in Bytes, NEW y \in Bytes, NEW u \in Bytes
    PROVE  LET m == (x * Byte + y) * Byte + u IN
           /\ m \in Nat /\ m \div Byte = x * Byte + y
           /\ Digit(m, Byte, 3, 1) = x /\ Digit(m, Byte, 3, 2) = y /\ Digit(m, Byte, 3, 3) = u
           /\ x >= HalfByte <=> m >= Sign
  <1> DEFINE p == x * Byte + y
             m == p * Byte + u
  <1>0. x \in 0 .. Byte - 1 /\ y \in 0 .. Byte - 1 /\ u \in 0 .. Byte - 1 /\ Byte \in Nat \ {0}
    BY ByteFacts DEF Bytes
  <1>1. p \in Nat /\ p = Byte * x + y
    BY <1>0
  <1>2. p \div Byte = x /\ p % Byte = y
    <2>1. p \div Byte = x
      BY <1>0, <1>1, QuotientIs
    <2>2. p = Byte * x + (p % Byte) /\ p % Byte \in 0 .. Byte - 1
      BY <1>0, <1>1, <2>1, DivMod
    <2>3. Byte * x \in Nat
      BY <1>0
    <2> QED BY <1>0, <1>1, <2>2, <2>3
  <1>3. m \in Nat /\ m = Byte * p + u
    BY <1>0, <1>1
  <1>4. m \div Byte = p /\ m % Byte = u
    <2> HIDE DEF p
    <2>1. m \div Byte = p
      BY <1>0, <1>1, <1>3, QuotientIs
    <2>2. m = Byte * p + (m % Byte) /\ m % Byte \in 0 .. Byte - 1
      BY <1>0, <1>3, <2>1, DivMod
    <2> DEFINE X == Byte * p
    <2>3. X \in Nat /\ m = X + u /\ m = X + (m % Byte)
      BY <1>0, <1>1, <1>3, <2>2
    <2> HIDE DEF m, X
    <2> QED BY <1>0, <2>1, <2>2, <2>3
  <1>5. m \div (Byte * Byte) = x
    <2> HIDE DEF m, p
    <2> QED BY <1>0, <1>2, <1>3, <1>4, DivTwice
  <1>6. x % Byte = x
    BY <1>0
  <1>7. m \div 1 = m
    <2> HIDE DEF m
    <2> QED BY <1>3
  <1>8. Digit(m, Byte, 3, 1) = x /\ Digit(m, Byte, 3, 2) = y /\ Digit(m, Byte, 3, 3) = u
    <2>1. 3 - 1 = 2 /\ 3 - 2 = 1 /\ 3 - 3 = 0
      OBVIOUS
    <2> HIDE DEF m, p
    <2> QED BY <1>2, <1>4, <1>5, <1>6, <1>7, <2>1, SmallPowers DEF Digit
  <1>9. x >= HalfByte <=> m >= Sign
    <2> DEFINE BB == Byte * Byte
    <2>0. BB \in Nat \ {0}
      BY <1>0
    <2>1. m = BB * x + (m % BB) /\ m % BB \in 0 .. BB - 1
      <3> HIDE DEF m, BB
      <3> QED BY <1>3, <1>5, <2>0, DivMod DEF BB
    <2>2. Sign = BB * HalfByte /\ HalfByte \in Nat
      BY SignIs, ByteFacts
    <2> HIDE DEF BB, m
    <2>3. CASE x >= HalfByte
      <3>1. BB * HalfByte <= BB * x /\ BB * HalfByte \in Nat /\ BB * x \in Nat
        BY <1>0, <2>0, <2>2, <2>3, TimesMonotone
      <3> QED BY <1>3, <2>0, <2>1, <2>2, <2>3, <3>1
    <2>4. CASE ~ (x >= HalfByte)
      <3>1. x + 1 \in Nat /\ x + 1 <= HalfByte
        BY <1>0, <2>2, <2>4
      <3>2. BB * (x + 1) <= BB * HalfByte /\ BB * (x + 1) = BB * x + BB /\ BB * x \in Nat /\ BB * HalfByte \in Nat
        BY <1>0, <2>0, <2>2, <3>1, TimesMonotone
      <3> QED BY <1>3, <2>0, <2>1, <2>2, <2>4, <3>2
    <2> QED BY <2>3, <2>4
  <1> QED BY <1>3, <1>4, <1>8, <1>9

LEMMA LeadingZerosIs ==
    ASSUME NEW t, NEW z, FirstAt(t, z)
    PROVE  leading_zeros(t) = z
  <1> DEFINE c == leading_zeros(t)
  <1>1. \E y \in 0 .. N - 1 : t[y + 1] # 0 /\ \A k \in 1 .. y : t[k] = 0
    BY Zenon DEF FirstAt
  <1>2. c \in 0 .. N - 1 /\ t[c + 1] # 0 /\ \A k \in 1 .. c : t[k] = 0
    BY <1>1, Zenon DEF leading_zeros
  <1> HIDE DEF c
  <1>3. z \in 0 .. N - 1 /\ t[z + 1] # 0 /\ \A k \in 1 .. z : t[k] = 0
    BY Zenon DEF FirstAt
  <1>4. ~ (c < z) /\ ~ (z < c)
    <2>1. N \in Nat
      BY ByteFacts
    <2>2. c < z => c + 1 \in 1 .. z
      BY <1>2, <1>3, <2>1
    <2>3. z < c => z + 1 \in 1 .. c
      BY <1>2, <1>3, <2>1
    <2> QED BY <1>2, <1>3, <2>2, <2>3
  <1>5. c = z
    BY <1>2, <1>3, <1>4, ByteFacts
  <1> QED BY <1>5 DEF c

LEMMA FirstExists ==
    ASSUME NEW t \in Targets, NEW n \in 1 .. N, t[n] # 0
    PROVE  \E z \in 0 .. n - 1 : FirstAt(t, z)
  <1> DEFINE M == {m \in Nat : m <= n => (\E z \in 0 .. m - 1 : FirstAt(t, z)) \/ \A k \in 1 .. m : t[k] = 0}
  <1>0. N \in Nat /\ n \in Nat /\ n <= N
    BY ByteFacts
  <1>1. 0 \in M
    OBVIOUS
  <1>2. ASSUME NEW m \in Nat, m \in M PROVE m + 1 \in M
    <2> SUFFICES ASSUME m + 1 <= n
                 PROVE  (\E z \in 0 .. (m + 1) - 1 : FirstAt(t, z)) \/ \A k \in 1 .. m + 1 : t[k] = 0
      OBVIOUS
    <2>1. CASE \E z \in 0 .. m - 1 : FirstAt(t, z)
      <3>1. \A z \in 0 .. m - 1 : z \in 0 .. (m + 1) - 1
        OBVIOUS
      <3> QED BY <2>1, <3>1
    <2>2. CASE (\A k \in 1 .. m : t[k] = 0) /\ t[m + 1] # 0
      <3>1. m \in 0 .. N - 1 /\ m \in 0 .. (m + 1) - 1
        BY <1>0
      <3>2. FirstAt(t, m)
        BY <2>2, <3>1 DEF FirstAt
      <3> QED BY <3>1, <3>2
    <2>3. CASE (\A k \in 1 .. m : t[k] = 0) /\ t[m + 1] = 0
      <3>1. \A k \in 1 .. m + 1 : k \in 1 .. m \/ k = m + 1
        OBVIOUS
      <3> QED BY <2>3, <3>1
    <2> QED BY <1>2, <2>1, <2>2, <2>3
  <1>3. n \in M
    <2> HIDE DEF M
    <2>1. Nat \subseteq M
      BY <1>1, <1>2, NatSetInduction
    <2> QED BY <1>0, <2>1
  <1>4. n \in 1 .. n
    BY <1>0
  <1> QED BY <1>0, <1>3, <1>4

(* What target_from_bits makes of three bytes whose sign bit is clear. *)
LEMMA TargetFromBytes ==
    ASSUME NEW w \in 0 .. N - 1, NEW m \in Nat, NEW x \in 0 .. HalfByte - 1, NEW y \in Bytes, NEW u \in Bytes,
           m % Sign = (x * Byte + y) * Byte + u
    PROVE  target_from_bits([exponent |-> N - w, mantissa |-> m]) = Window(w, x, y, u)
  <1> DEFINE b == [exponent |-> N - w, mantissa |-> m]
             d == m % Sign
  <1>1. /\ b.exponent = N - w /\ b.mantissa = m /\ ~ (b.exponent = 0 \/ b.exponent > N)
        /\ N - (N - w) = w /\ w \in Nat /\ N \in Nat
    BY ByteFacts
  <1>2. x \in Bytes
    BY ByteFacts DEF Bytes
  <1>3. Digit(d, Byte, 3, 1) = x /\ Digit(d, Byte, 3, 2) = y /\ Digit(d, Byte, 3, 3) = u
    BY <1>2, ThreeBytes
  <1> HIDE DEF d
  <1>4. target_from_bits(b) =
          [k \in 1 .. N |-> IF k - w \in 1 .. 3 THEN Digit(d, Byte, 3, k - w) ELSE 0]
    BY <1>1 DEF target_from_bits, d
  <1> HIDE DEF b
  <1>5. ASSUME NEW k \in 1 .. N
        PROVE  (IF k - w \in 1 .. 3 THEN Digit(d, Byte, 3, k - w) ELSE 0) =
                  IF k = w + 1 THEN x ELSE IF k = w + 2 THEN y ELSE IF k = w + 3 THEN u ELSE 0
    <2>1. /\ k = w + 1 => k - w = 1
          /\ k = w + 2 => k - w = 2
          /\ k = w + 3 => k - w = 3
          /\ k - w \in 1 .. 3 => k = w + 1 \/ k = w + 2 \/ k = w + 3
          /\ 1 \in 1 .. 3 /\ 2 \in 1 .. 3 /\ 3 \in 1 .. 3
          /\ w + 2 # w + 1 /\ w + 3 # w + 1 /\ w + 3 # w + 2
      BY <1>1
    <2>2. CASE k = w + 1
      BY <1>3, <2>1, <2>2
    <2>3. CASE k = w + 2
      BY <1>3, <2>1, <2>3
    <2>4. CASE k = w + 3
      BY <1>3, <2>1, <2>4
    <2>5. CASE k # w + 1 /\ k # w + 2 /\ k # w + 3
      BY <2>1, <2>5
    <2> QED BY <2>2, <2>3, <2>4, <2>5
  <1>6. target_from_bits(b) = Window(w, x, y, u)
    BY <1>4, <1>5 DEF Window
  <1> QED BY <1>6 DEF b

(* Every target that compact bits express is such a window, or zero. *)
LEMMA TargetShape ==
    ASSUME NEW b \in [exponent : Nat, mantissa : Nat]
    PROVE  \/ target_from_bits(b) = Zero
           \/ \E w \in 0 .. N - 1, x \in 0 .. HalfByte - 1, y \in Bytes, u \in Bytes :
                 target_from_bits(b) = Window(w, x, y, u)
  <1>1. CASE b.exponent = 0 \/ b.exponent > N
    BY <1>1 DEF target_from_bits
  <1>2. CASE ~ (b.exponent = 0 \/ b.exponent > N)
    <2> DEFINE w == N - b.exponent
               d == b.mantissa % Sign
               p == d \div Byte
               x == p \div Byte
               y == p % Byte
               u == d % Byte
    <2>1. w \in 0 .. N - 1 /\ b = [exponent |-> N - w, mantissa |-> b.mantissa] /\ b.mantissa \in Nat
      BY <1>2, ByteFacts
    <2>2. d \in Nat /\ d < Sign
      BY <2>1, SignIs, DivMod
    <2> HIDE DEF w, d
    <2>3. d = Byte * p + u /\ u \in Bytes /\ p \in Nat
      BY <2>2, DivMod, ByteFacts DEF Bytes
    <2> HIDE DEF p, u
    <2>4. p = Byte * x + y /\ y \in Bytes /\ x \in Nat
      BY <2>3, DivMod, ByteFacts DEF Bytes
    <2> HIDE DEF x, y
    <2>5. x < HalfByte
      <3>1. p = x * Byte + y /\ d = (x * Byte + y) * Byte + u
        BY <2>3, <2>4, ByteFacts
      <3> SUFFICES ASSUME HalfByte <= x PROVE FALSE
        BY <2>4, ByteFacts
      <3>2. (Byte * Byte) * HalfByte <= (Byte * Byte) * x /\ (Byte * Byte) * HalfByte \in Nat
        BY <2>4, TimesMonotone, ByteFacts
      <3>3. d = (Byte * Byte) * x + (Byte * y + u) /\ Byte * y + u \in Nat /\ (Byte * Byte) * x \in Nat
        BY <2>3, <2>4, <3>1, ByteFacts DEF Bytes
      <3>4. Sign = (Byte * Byte) * HalfByte
        BY SignIs, ByteFacts
      <3> DEFINE S == (Byte * Byte) * HalfByte
                 X == (Byte * Byte) * x
                 R == Byte * y + u
      <3>5. d < S /\ S <= X /\ d = X + R /\ R \in Nat /\ S \in Nat /\ X \in Nat /\ d \in Nat
        BY <2>2, <3>2, <3>3, <3>4
      <3> HIDE DEF S, X, R
      <3> QED BY <3>5
    <2>6. x \in 0 .. HalfByte - 1 /\ d = (x * Byte + y) * Byte + u
      <3>1. p = x * Byte + y /\ d = p * Byte + u
        BY <2>3, <2>4, ByteFacts DEF Bytes
      <3> QED BY <2>4, <2>5, <3>1, ByteFacts
    <2>7. target_from_bits([exponent |-> N - w, mantissa |-> b.mantissa]) = Window(w, x, y, u)
      BY <2>1, <2>3, <2>4, <2>6, TargetFromBytes DEF d
    <2>8. target_from_bits(b) = Window(w, x, y, u)
      BY <2>1, <2>7
    <2> QED BY <2>1, <2>3, <2>4, <2>6, <2>8
  <1> QED BY <1>1, <1>2

LEMMA WindowType ==
    ASSUME NEW w \in 0 .. N - 1, NEW x \in 0 .. HalfByte - 1, NEW y \in Bytes, NEW u \in Bytes
    PROVE  Window(w, x, y, u) \in Targets
  BY ByteFacts DEF Window, Targets, Bytes

LEMMA TargetType ==
    ASSUME NEW b \in [exponent : Nat, mantissa : Nat]
    PROVE  target_from_bits(b) \in Targets
  <1>1. Zero \in Targets
    BY ByteFacts DEF Zero, Targets, Bytes
  <1> QED BY <1>1, TargetShape, WindowType

(* The compact bits of a target, by its first three bytes. *)
LEMMA BitsOf ==
    ASSUME NEW t \in Targets, NEW z, FirstAt(t, z), z + 3 <= N
    PROVE  LET a == t[z + 1] b == t[z + 2] c == t[z + 3] IN
           /\ a \in Bytes \ {0} /\ b \in Bytes /\ c \in Bytes
           /\ bits_from_target(t) =
                 IF a >= HalfByte THEN [exponent |-> N - z + 1, mantissa |-> a * Byte + b]
                 ELSE [exponent |-> N - z, mantissa |-> (a * Byte + b) * Byte + c]
  <1> DEFINE a == t[z + 1]
             b == t[z + 2]
             c == t[z + 3]
  <1>1. z \in Nat /\ z \in 0 .. N - 1 /\ N \in Nat /\ z + 1 \in 1 .. N /\ z + 2 \in 1 .. N /\ z + 3 \in 1 .. N
    BY ByteFacts DEF FirstAt
  <1>2. a \in Bytes /\ b \in Bytes /\ c \in Bytes
    BY <1>1 DEF Targets
  <1>3. a # 0
    BY DEF FirstAt
  <1>4. leading_zeros(t) = z
    BY LeadingZerosIs
  <1>5. leading(t) = (a * Byte + b) * Byte + c
    <2>1. z + 1 <= N /\ z + 2 <= N /\ z + 3 <= N
      BY <1>1
    <2> QED BY <1>4, <2>1 DEF leading
  <1>6. t # Zero
    <2>1. Zero[z + 1] = 0
      BY <1>1 DEF Zero
    <2> QED BY <1>3, <2>1
  <1>7. /\ a >= HalfByte <=> (a * Byte + b) * Byte + c >= Sign
        /\ ((a * Byte + b) * Byte + c) \div Byte = a * Byte + b
    BY <1>2, ThreeBytes
  <1> HIDE DEF a, b, c
  <1>8. bits_from_target(t) =
                 IF a >= HalfByte THEN [exponent |-> N - z + 1, mantissa |-> a * Byte + b]
                 ELSE [exponent |-> N - z, mantissa |-> (a * Byte + b) * Byte + c]
    BY <1>4, <1>5, <1>6, <1>7, Zenon DEF bits_from_target
  <1> QED BY <1>2, <1>3, <1>8 DEF a, b, c

(* Through compact bits and back, a target keeps two or three bytes from the first that is not
   zero, provided a byte is left for the sign. *)
LEMMA TargetOfBits ==
    ASSUME NEW t \in Targets, NEW z, FirstAt(t, z), z + 3 <= N, t[z + 1] >= HalfByte => z >= 1
    PROVE  target_from_bits(bits_from_target(t)) = Truncated(t, Cut(t, z))
  <1> DEFINE a == t[z + 1]
             b == t[z + 2]
             c == t[z + 3]
  <1>1. /\ a \in Bytes \ {0} /\ b \in Bytes /\ c \in Bytes
        /\ bits_from_target(t) =
              IF a >= HalfByte THEN [exponent |-> N - z + 1, mantissa |-> a * Byte + b]
              ELSE [exponent |-> N - z, mantissa |-> (a * Byte + b) * Byte + c]
    BY BitsOf
  <1>2. z \in Nat /\ z <= N - 1 /\ N \in Nat /\ \A k \in 1 .. z : t[k] = 0
    BY ByteFacts DEF FirstAt
  <1>3. CASE a >= HalfByte
    <2> DEFINE w == z - 1
               m == a * Byte + b
    <2>1. w \in 0 .. N - 1 /\ N - w = N - z + 1 /\ w + 1 = z /\ w + 2 = z + 1 /\ w + 3 = z + 2
      BY <1>2, <1>3
    <2>2. 0 \in Bytes /\ 0 \in 0 .. HalfByte - 1 /\ m = 0 * Byte + m /\ (0 * Byte + a) * Byte + b = m /\ m \in Nat
      BY <1>1, ByteFacts DEF Bytes
    <2>3. m < Sign
      <3>1. ~ ((0 * Byte + a) * Byte + b >= Sign)
        <4>1. ~ (0 >= HalfByte)
          BY ByteFacts
        <4> QED BY <1>1, <2>2, <4>1, ThreeBytes
      <3> HIDE DEF m
      <3> QED BY <2>2, <3>1, SignIs
    <2> HIDE DEF m
    <2>4. m % Sign = m
      BY <2>2, <2>3, SignIs
    <2>5. m % Sign = (0 * Byte + a) * Byte + b
      BY <2>2, <2>4
    <2> HIDE DEF a, b, c, w
    <2>6. target_from_bits([exponent |-> N - w, mantissa |-> m]) = Window(w, 0, a, b)
      BY <1>1, <2>1, <2>2, <2>5, TargetFromBytes
    <2>7. bits_from_target(t) = [exponent |-> N - w, mantissa |-> m]
      BY <1>1, <1>3, <2>1 DEF m
    <2>8. Cut(t, z) = z + 2
      BY <1>3 DEF Cut, a
    <2>9. \A k \in 1 .. N : Window(w, 0, a, b)[k] = Truncated(t, z + 2)[k]
      <3> TAKE k \in 1 .. N
      <3>1. Window(w, 0, a, b)[k] = IF k = z THEN 0 ELSE IF k = z + 1 THEN a ELSE IF k = z + 2 THEN b ELSE 0
        BY <2>1 DEF Window
      <3>2. Truncated(t, z + 2)[k] = IF k <= z + 2 THEN t[k] ELSE 0
        BY DEF Truncated
      <3>3. k \in 1 .. z \/ k = z + 1 \/ k = z + 2 \/ k > z + 2
        BY <1>2
      <3>4. CASE k \in 1 .. z
        BY <1>2, <3>1, <3>2, <3>4
      <3>5. CASE k = z + 1
        BY <1>2, <3>1, <3>2, <3>5 DEF a
      <3>6. CASE k = z + 2
        BY <1>2, <3>1, <3>2, <3>6 DEF b
      <3>7. CASE k > z + 2
        BY <1>2, <3>1, <3>2, <3>7
      <3> QED BY <3>3, <3>4, <3>5, <3>6, <3>7
    <2>10. Window(w, 0, a, b) = Truncated(t, z + 2)
      BY <2>9 DEF Window, Truncated
    <2> QED BY <2>6, <2>7, <2>8, <2>10
  <1>4. CASE ~ (a >= HalfByte)
    <2> DEFINE m == (a * Byte + b) * Byte + c
    <2>1. m \in Nat /\ m < Sign
      <3>1. m \in Nat /\ ~ (m >= Sign)
        BY <1>1, <1>4, ThreeBytes
      <3> HIDE DEF m
      <3> QED BY <3>1, SignIs
    <2> HIDE DEF m
    <2>2. m % Sign = m
      BY <2>1, SignIs
    <2>3. a \in 0 .. HalfByte - 1 /\ z \in 0 .. N - 1
      BY <1>1, <1>2, <1>4, ByteFacts DEF Bytes
    <2>4. m % Sign = (a * Byte + b) * Byte + c
      BY <2>2 DEF m
    <2> HIDE DEF a, b, c
    <2>6. target_from_bits([exponent |-> N - z, mantissa |-> m]) = Window(z, a, b, c)
      BY <1>1, <2>1, <2>3, <2>4, TargetFromBytes
    <2>7. bits_from_target(t) = [exponent |-> N - z, mantissa |-> m]
      BY <1>1, <1>4 DEF m
    <2>8. Cut(t, z) = z + 3
      BY <1>4 DEF Cut, a
    <2>9. \A k \in 1 .. N : Window(z, a, b, c)[k] = Truncated(t, z + 3)[k]
      <3> TAKE k \in 1 .. N
      <3>1. Window(z, a, b, c)[k] =
               IF k = z + 1 THEN a ELSE IF k = z + 2 THEN b ELSE IF k = z + 3 THEN c ELSE 0
        BY DEF Window
      <3>2. Truncated(t, z + 3)[k] = IF k <= z + 3 THEN t[k] ELSE 0
        BY DEF Truncated
      <3>3. k \in 1 .. z \/ k = z + 1 \/ k = z + 2 \/ k = z + 3 \/ k > z + 3
        BY <1>2
      <3>4. CASE k \in 1 .. z
        BY <1>2, <3>1, <3>2, <3>4
      <3>5. CASE k = z + 1
        BY <1>2, <3>1, <3>2, <3>5 DEF a
      <3>6. CASE k = z + 2
        BY <1>2, <3>1, <3>2, <3>6 DEF b
      <3>7. CASE k = z + 3
        BY <1>2, <3>1, <3>2, <3>7 DEF c
      <3>8. CASE k > z + 3
        BY <1>2, <3>1, <3>2, <3>8
      <3> QED BY <3>3, <3>4, <3>5, <3>6, <3>7, <3>8
    <2>10. Window(z, a, b, c) = Truncated(t, z + 3)
      BY <2>9 DEF Window, Truncated
    <2> QED BY <2>6, <2>7, <2>8, <2>10
  <1> QED BY <1>3, <1>4

LEMMA TruncatedType ==
    ASSUME NEW t \in Targets, NEW c \in Int
    PROVE  Truncated(t, c) \in Targets
  BY ByteFacts DEF Truncated, Targets, Bytes

LEMMA CutFacts ==
    ASSUME NEW t, NEW z, FirstAt(t, z), z + 3 <= N
    PROVE  /\ Cut(t, z) \in 0 .. N /\ z \in Nat /\ z + 2 <= Cut(t, z) /\ Cut(t, z) <= z + 3
           /\ t[z + 1] >= HalfByte => Cut(t, z) = z + 2
           /\ ~ (t[z + 1] >= HalfByte) => Cut(t, z) = z + 3
  BY ByteFacts DEF Cut, FirstAt

(* Bits that came from a target survive the round trip. *)
LEMMA RoundTrip ==
    ASSUME NEW t \in Targets, NEW z, FirstAt(t, z), z + 3 <= N
    PROVE  bits_from_target(Truncated(t, Cut(t, z))) = bits_from_target(t)
  <1> DEFINE s == Truncated(t, Cut(t, z))
  <1>1. /\ Cut(t, z) \in 0 .. N /\ z \in Nat /\ z + 2 <= Cut(t, z) /\ Cut(t, z) <= z + 3
        /\ t[z + 1] >= HalfByte => Cut(t, z) = z + 2
        /\ ~ (t[z + 1] >= HalfByte) => Cut(t, z) = z + 3
    BY CutFacts
  <1>2. N \in Nat /\ z \in 0 .. N - 1 /\ t[z + 1] # 0 /\ \A k \in 1 .. z : t[k] = 0
    BY ByteFacts DEF FirstAt
  <1>3. s \in Targets
    BY <1>1, TruncatedType
  <1>4. \A k \in 1 .. N : s[k] = IF k <= Cut(t, z) THEN t[k] ELSE 0
    BY DEF Truncated
  <1> HIDE DEF s
  <1>5. s[z + 1] = t[z + 1] /\ s[z + 2] = t[z + 2]
    <2>1. /\ z + 1 \in 1 .. N /\ z + 2 \in 1 .. N /\ z + 1 <= Cut(t, z) /\ z + 2 <= Cut(t, z)
      BY <1>1, <1>2
    <2> QED BY <1>4, <2>1
  <1>6. ~ (t[z + 1] >= HalfByte) => s[z + 3] = t[z + 3]
    <2>1. z + 3 \in 1 .. N /\ (~ (t[z + 1] >= HalfByte) => z + 3 <= Cut(t, z))
      BY <1>1, <1>2
    <2> QED BY <1>4, <2>1
  <1>7. FirstAt(s, z)
    <2>1. \A k \in 1 .. z : k \in 1 .. N /\ k <= Cut(t, z)
      BY <1>1, <1>2
    <2> QED BY <1>2, <1>4, <1>5, <2>1 DEF FirstAt
  <1> DEFINE bits_by(a, b, c) ==
               IF a >= HalfByte THEN [exponent |-> N - z + 1, mantissa |-> a * Byte + b]
               ELSE [exponent |-> N - z, mantissa |-> (a * Byte + b) * Byte + c]
  <1>8. bits_from_target(t) = bits_by(t[z + 1], t[z + 2], t[z + 3])
    BY BitsOf
  <1>9. bits_from_target(s) = bits_by(s[z + 1], s[z + 2], s[z + 3])
    BY <1>3, <1>7, BitsOf
  <1>10. bits_from_target(s) = bits_from_target(t)
    <2>1. CASE t[z + 1] >= HalfByte
      BY <1>5, <1>8, <1>9, <2>1
    <2>2. CASE ~ (t[z + 1] >= HalfByte)
      BY <1>5, <1>6, <1>8, <1>9, <2>2
    <2> QED BY <2>1, <2>2
  <1> QED BY <1>10 DEF s

ValueAt(t, k) == Values(t, Byte, N)[k]

LEMMA ValueAtType ==
    ASSUME NEW t \in Targets
    PROVE  /\ Digits(t, Byte, N) /\ IsValueOf(Values(t, Byte, N), t, Byte, N)
           /\ \A k \in 0 .. N : ValueAt(t, k) \in Nat
  <1>1. Byte \in Nat \ {0} /\ N \in Nat
    BY ByteFacts
  <1>2. Digits(t, Byte, N)
    BY DEF Digits, Targets, Bytes
  <1>3. IsValueOf(Values(t, Byte, N), t, Byte, N)
    BY <1>1, ValuesUnfold
  <1>4. \A k \in 0 .. N : Values(t, Byte, N)[k] \in Nat
    BY <1>1, <1>2, <1>3, ValueType
  <1> QED BY <1>2, <1>3, <1>4 DEF ValueAt

(* ValueSplit, for targets. *)
LEMMA TargetSplit ==
    ASSUME NEW t \in Targets, NEW c \in 0 .. N, NEW k \in c .. N
    PROVE  /\ ValueAt(t, c) \in Nat /\ ValueAt(t, k) \in Nat /\ Power(Byte, k - c) \in Nat \ {0}
           /\ ValueAt(t, c) * Power(Byte, k - c) <= ValueAt(t, k)
           /\ ValueAt(t, k) < (ValueAt(t, c) + 1) * Power(Byte, k - c)
           /\ (\A j \in c + 1 .. k : t[j] = 0) => ValueAt(t, k) = ValueAt(t, c) * Power(Byte, k - c)
  <1>1. Byte \in Nat \ {0} /\ N \in Nat /\ k \in 0 .. N /\ c \in 0 .. N /\ k - c \in Nat
    BY ByteFacts
  <1>2. Power(Byte, k - c) \in Nat \ {0}
    BY <1>1, PowerPositive
  <1> QED BY <1>1, <1>2, ValueAtType, ValueSplit DEF ValueAt

LEMMA TruncatedValue ==
    ASSUME NEW t \in Targets, NEW c \in 0 .. N
    PROVE  LET s == Truncated(t, c) IN
           /\ \A k \in 0 .. c : ValueAt(s, k) = ValueAt(t, k)
           /\ \A k \in 0 .. N : ValueAt(s, k) <= ValueAt(t, k)
           /\ ValueAt(s, N) = ValueAt(t, c) * Power(Byte, N - c)
           /\ ValueAt(t, N) < ValueAt(s, N) + Power(Byte, N - c)
  <1> DEFINE s == Truncated(t, c)
             p == Power(Byte, N - c)
             V == Values(t, Byte, N)
             W == Values(s, Byte, N)
  <1>1. N \in Nat /\ c \in Nat /\ c <= N /\ Byte \in Nat \ {0} /\ N - c \in Nat /\ N \in c .. N /\ c \in 0 .. c
    BY ByteFacts
  <1>2. s \in Targets
    BY TruncatedType
  <1>3. /\ \A k \in 1 .. N : s[k] = IF k <= c THEN t[k] ELSE 0
        /\ \A k \in 1 .. N : t[k] \in Nat
    BY DEF Truncated, Targets, Bytes
  <1>4. p \in Nat \ {0}
    BY <1>1, PowerPositive
  <1> HIDE DEF s, p
  <1>5. /\ IsValueOf(V, t, Byte, N) /\ IsValueOf(W, s, Byte, N) /\ Digits(s, Byte, N)
        /\ Digits(t, Byte, N)
        /\ \A k \in 0 .. N : ValueAt(s, k) \in Nat /\ ValueAt(t, k) \in Nat
    BY <1>2, ValueAtType
  <1>6. \A k \in 0 .. c : W[k] = V[k]
    <2>1. \A k \in 1 .. c : k \in 1 .. N /\ k <= c
      BY <1>1
    <2>2. IsValueOf(V, t, Byte, c) /\ IsValueOf(W, s, Byte, c) /\ Digits(s, Byte, c)
      BY <1>5, <2>1 DEF IsValueOf, Digits
    <2>3. \A k \in 1 .. c : s[k] = t[k]
      BY <1>3, <2>1
    <2> HIDE DEF V, W
    <2> QED BY <1>1, <2>2, <2>3, ValueSame
  <1>7. \A k \in 0 .. N : W[k] <= V[k]
    <2>1. \A k \in 1 .. N : s[k] <= t[k]
      BY <1>3
    <2> HIDE DEF V, W
    <2> QED BY <1>1, <1>5, <2>1, ValueMonotone
  <1>8. ValueAt(s, N) = ValueAt(s, c) * p
    <2>1. \A j \in c + 1 .. N : j \in 1 .. N /\ ~ (j <= c)
      BY <1>1
    <2>2. \A j \in c + 1 .. N : s[j] = 0
      BY <1>3, <2>1
    <2> QED BY <1>1, <1>2, <2>2, TargetSplit DEF p
  <1>9. ValueAt(s, c) = ValueAt(t, c)
    BY <1>1, <1>6 DEF ValueAt
  <1>10. ValueAt(t, N) < (ValueAt(t, c) + 1) * p /\ ValueAt(t, c) \in Nat
    BY <1>1, TargetSplit DEF p
  <1>11. (ValueAt(t, c) + 1) * p = ValueAt(t, c) * p + p
    BY <1>4, <1>10
  <1>12. ValueAt(s, N) = ValueAt(t, c) * p /\ ValueAt(t, N) < ValueAt(s, N) + p
    BY <1>8, <1>9, <1>10, <1>11
  <1> QED BY <1>6, <1>7, <1>12 DEF ValueAt, s, p

(* What compact bits express, and is not above t, is not above what they keep of t. *)
LEMMA TruncatedAbove ==
    ASSUME NEW w \in 0 .. N - 1, NEW x \in 0 .. HalfByte - 1, NEW y \in Bytes, NEW u \in Bytes,
           NEW t \in Targets, NEW z, FirstAt(t, z), z + 3 <= N,
           ValueAt(Window(w, x, y, u), N) <= ValueAt(t, N)
    PROVE  ValueAt(Window(w, x, y, u), N) <= ValueAt(Truncated(t, Cut(t, z)), N)
  <1> DEFINE s == Window(w, x, y, u)
             c == Cut(t, z)
             r == Truncated(t, c)
  <1>1. /\ c \in 0 .. N /\ z \in Nat /\ z + 2 <= c /\ c <= z + 3
        /\ t[z + 1] >= HalfByte => c = z + 2
        /\ ~ (t[z + 1] >= HalfByte) => c = z + 3
    BY CutFacts
  <1>2. N \in Nat /\ HalfByte \in Nat \ {0} /\ Byte \in Nat /\ z \in 0 .. N - 1 /\ t[z + 1] # 0
    BY ByteFacts DEF FirstAt
  <1>3. s \in Targets
    BY WindowType
  <1>4. \A k \in 1 .. N : s[k] = IF k = w + 1 THEN x ELSE IF k = w + 2 THEN y ELSE IF k = w + 3 THEN u ELSE 0
    BY DEF Window
  <1> HIDE DEF c
  <1>5. r \in Targets
    BY <1>1, TruncatedType
  <1>6. /\ \A k \in 0 .. c : ValueAt(r, k) = ValueAt(t, k)
        /\ ValueAt(r, N) = ValueAt(t, c) * Power(Byte, N - c)
    BY <1>1, TruncatedValue
  <1>7. ValueAt(s, N) <= ValueAt(t, N)
    OBVIOUS
  <1> HIDE DEF s, r
  <1>8. CASE w + 3 <= c
    <2> DEFINE p == Power(Byte, N - c)
               S == ValueAt(s, c)
               T == ValueAt(t, c)
    <2>0. c \in 0 .. N /\ N \in c .. N
      BY <1>1, <1>2
    <2>1. \A j \in c + 1 .. N : s[j] = 0
      <3> TAKE j \in c + 1 .. N
      <3>1. j \in 1 .. N /\ j # w + 1 /\ j # w + 2 /\ j # w + 3
        BY <1>1, <1>2, <1>8
      <3> QED BY <1>4, <3>1
    <2>2. ValueAt(s, N) = S * p /\ S \in Nat /\ p \in Nat \ {0}
      BY <1>3, <2>0, <2>1, TargetSplit
    <2>3. ValueAt(t, N) < (T + 1) * p /\ T \in Nat /\ ValueAt(t, N) \in Nat
      BY <2>0, TargetSplit
    <2>4. ValueAt(r, N) = T * p
      BY <1>6
    <2> HIDE DEF p, S, T
    <2>5. p * S < p * (T + 1)
      <3>1. S * p = p * S /\ (T + 1) * p = p * (T + 1) /\ p * S \in Nat /\ p * (T + 1) \in Nat
        BY <2>2, <2>3
      <3> DEFINE X == p * S
                 Y == p * (T + 1)
      <3>2. X \in Nat /\ Y \in Nat /\ X <= ValueAt(t, N) /\ ValueAt(t, N) < Y
        BY <1>7, <2>2, <2>3, <3>1
      <3> HIDE DEF X, Y
      <3>3. X < Y
        BY <2>3, <3>2
      <3> QED BY <3>3 DEF X, Y
    <2>6. S < T + 1
      BY <2>2, <2>3, <2>5, TimesCancel
    <2>7. p * S <= p * T
      BY <2>2, <2>3, <2>6, TimesMonotone
    <2>8. S * p = p * S /\ T * p = p * T
      BY <2>2, <2>3
    <2> QED BY <2>2, <2>4, <2>7, <2>8 DEF s, r, c
  <1>9. CASE ~ (w + 3 <= c)
    <2> DEFINE i == z + 1
               p == Power(Byte, N - i)
               S == ValueAt(s, i)
               T == ValueAt(t, i)
    <2>1. i \in 0 .. N /\ N \in i .. N /\ i \in 0 .. c /\ i \in 1 .. N /\ w >= z /\ i \in Nat
      BY <1>1, <1>2, <1>9
    <2>2. s[i] < t[i]
      <3>1. t[i] \in Nat \ {0} /\ s[i] \in Nat
        BY <1>2, <1>3, <2>1 DEF Targets, Bytes
      <3>2. CASE w > z
        <4>1. i # w + 1 /\ i # w + 2 /\ i # w + 3
          BY <1>2, <2>1, <3>2
        <4> QED BY <1>4, <2>1, <3>1, <4>1
      <3>3. CASE w = z
        <4>1. s[i] = x
          BY <1>4, <2>1, <3>3
        <4>2. t[i] >= HalfByte
          BY <1>1, <1>2, <1>9, <3>3
        <4> QED BY <1>2, <3>1, <4>1, <4>2
      <3> QED BY <2>1, <3>2, <3>3, <1>2
    <2>3. \A k \in 1 .. z : s[k] = 0 /\ t[k] = 0
      <3> TAKE k \in 1 .. z
      <3>1. k \in 1 .. N /\ k # w + 1 /\ k # w + 2 /\ k # w + 3
        BY <1>2, <2>1
      <3> QED BY <1>4, <3>1 DEF FirstAt
    <2>4. S = s[i] /\ T = t[i] /\ S \in Nat /\ T \in Nat
      <3>1. ValueAt(s, z) = 0 /\ ValueAt(t, z) = 0
        <4>1. 0 \in 0 .. N /\ z \in 0 .. N /\ z \in 0 .. z /\ 0 + 1 = 1 /\ z - 0 = z /\ z \in 0 .. N
          BY <1>2
        <4>2. ValueAt(s, 0) = 0 /\ ValueAt(t, 0) = 0
          BY <1>3, ValueAtType DEF ValueAt, IsValueOf
        <4>3. /\ ValueAt(s, z) = ValueAt(s, 0) * Power(Byte, z - 0)
              /\ ValueAt(t, z) = ValueAt(t, 0) * Power(Byte, z - 0)
              /\ Power(Byte, z - 0) \in Nat
          BY <1>3, <2>3, <4>1, TargetSplit
        <4> QED BY <4>2, <4>3
      <3>2. i - 1 = z
        BY <1>2
      <3>3. ValueAt(s, i) = ValueAt(s, z) * Byte + s[i] /\ ValueAt(t, i) = ValueAt(t, z) * Byte + t[i]
        BY <1>3, <2>1, <3>2, ValueAtType DEF ValueAt, IsValueOf
      <3>4. s[i] \in Nat /\ t[i] \in Nat
        BY <1>3, <2>1 DEF Targets, Bytes
      <3> QED BY <1>2, <3>1, <3>3, <3>4
    <2>5. /\ ValueAt(s, N) < (S + 1) * p /\ p \in Nat \ {0} /\ ValueAt(s, N) \in Nat
          /\ ValueAt(r, i) * p <= ValueAt(r, N) /\ ValueAt(r, N) \in Nat /\ ValueAt(r, i) = T
      BY <1>3, <1>5, <1>6, <2>1, TargetSplit
    <2>6. S + 1 \in Nat /\ S + 1 <= T
      BY <2>2, <2>4
    <2> HIDE DEF S, T, p
    <2>7. p * (S + 1) <= p * T /\ p * (S + 1) \in Nat
      BY <2>4, <2>5, <2>6, TimesMonotone
    <2>8. (S + 1) * p = p * (S + 1) /\ T * p = p * T /\ p * T \in Nat
      BY <2>4, <2>5
    <2> DEFINE X == p * (S + 1)
               Y == p * T
    <2>9. X \in Nat /\ Y \in Nat /\ X <= Y /\ ValueAt(s, N) < X /\ Y <= ValueAt(r, N)
      BY <2>5, <2>7, <2>8
    <2> HIDE DEF X, Y
    <2>10. ValueAt(s, N) <= ValueAt(r, N)
      BY <2>5, <2>9
    <2> QED BY <2>10 DEF s, r, c
  <1> QED BY <1>8, <1>9

-----------------------------------------------------------------------------
(* The step of ASERT, on the high half. *)

Ceiling == (Half - 1) \div Q

(* The high half that asert_target computes, for a child dt after its parent. *)
next_hi(h, dt, t) ==
    LET mult == pow2_q16(dt - spacing, t)
        raw == IF mult < 0 THEN 0 ELSE AtLeast(Saturated(h * mult) \div Q, 1)
    IN clamped(h, raw)

LEMMA HalfFacts ==
    /\ Half \in Nat \ {0} /\ Q \in Nat \ {0} /\ Q >= 108 /\ Ceiling \in Nat
    /\ Ceiling * Q <= Half - 1
  <1>1. Half \in Nat \ {0}
    BY ByteFacts, PowerPositive DEF Half
  <1>2. Q \in Nat \ {0} /\ Q >= 108 /\ Half - 1 \in Nat
    BY <1>1, WidthAssumption, BitAssumption
  <1>3. Half - 1 = Q * Ceiling + ((Half - 1) % Q) /\ (Half - 1) % Q \in 0 .. Q - 1 /\ Ceiling \in Nat
    BY <1>2, DivMod DEF Ceiling
  <1>4. Q * Ceiling = Ceiling * Q /\ Q * Ceiling \in Nat
    BY <1>2, <1>3
  <1> QED BY <1>1, <1>2, <1>3, <1>4

(* The multiplier is one on schedule, below one before it and above one after it. *)
LEMMA Multiplier ==
    ASSUME NEW dt \in Int, NEW t \in Nat \ {0}
    PROVE  LET mult == pow2_q16(dt - spacing, t) IN
           /\ mult \in Int
           /\ dt = spacing => mult = Q
           /\ dt < spacing => mult <= Q
           /\ dt > spacing => mult >= Q
  <1> DEFINE num == dt - spacing
             n == num * Q
             e == Quotient(n, t)
             g == (e * LN2) \div Q
  <1>1. spacing \in Nat /\ num \in Int /\ Q \in Nat \ {0} /\ LN2 \in Nat /\ AtLeast(t, 1) = t
    BY AsertAssumption, WidthAssumption DEF AtLeast
  <1>2. pow2_q16(num, t) = Q + g
    BY <1>1 DEF pow2_q16
  <1>3. n \in Int /\ (num = 0 => n = 0) /\ (num <= 0 => n <= 0) /\ (num >= 0 => n >= 0)
    <2>1. n \in Int /\ (num = 0 => n = 0)
      BY <1>1
    <2>2. ASSUME num >= 0 PROVE n >= 0
      BY <1>1, <2>2
    <2>3. ASSUME num <= 0 PROVE n <= 0
      <3>1. (0 - num) \in Nat /\ (0 - num) * Q \in Nat /\ n = 0 - ((0 - num) * Q)
        BY <1>1, <2>3
      <3> HIDE DEF n
      <3> QED BY <2>1, <3>1
    <2> QED BY <2>1, <2>2, <2>3
  <1> HIDE DEF n
  <1>4. e \in Int /\ (n = 0 => e = 0) /\ (n <= 0 => e <= 0) /\ (n >= 0 => e >= 0)
    <2>1. CASE n >= 0
      <3>1. n \div t \in Nat /\ (n = 0 => n \div t = 0)
        BY <1>3, <2>1
      <3>2. e = n \div t
        BY <1>3, <2>1 DEF Quotient
      <3> QED BY <1>3, <2>1, <3>1, <3>2
    <2>2. CASE ~ (n >= 0)
      <3>1. -n \in Nat /\ (-n) \div t \in Nat /\ n < 0
        BY <1>3, <2>2
      <3>2. e = -((-n) \div t)
        BY <1>3, <2>2 DEF Quotient
      <3> DEFINE a == (-n) \div t
      <3> HIDE DEF a
      <3>3. a \in Nat /\ e = -a
        BY <3>1, <3>2 DEF a
      <3> HIDE DEF e
      <3> QED BY <1>3, <3>1, <3>3
    <2> QED BY <2>1, <2>2
  <1> HIDE DEF e
  <1> DEFINE f == e * LN2
  <1>5. f \in Int /\ (e = 0 => f = 0) /\ (e <= 0 => f <= 0) /\ (e >= 0 => f >= 0)
    <2>1. f \in Int /\ (e = 0 => f = 0)
      BY <1>1, <1>4
    <2>2. ASSUME e >= 0 PROVE f >= 0
      BY <1>1, <1>4, <2>2
    <2>3. ASSUME e <= 0 PROVE f <= 0
      <3>1. (0 - e) \in Nat /\ (0 - e) * LN2 \in Nat /\ f = 0 - ((0 - e) * LN2)
        BY <1>1, <1>4, <2>3
      <3> HIDE DEF f
      <3> QED BY <2>1, <3>1
    <2> QED BY <2>1, <2>2, <2>3
  <1>6. g = f \div Q
    OBVIOUS
  <1> HIDE DEF f, g
  <1>7. g \in Int /\ (f = 0 => g = 0) /\ (f <= 0 => g <= 0) /\ (f >= 0 => g >= 0)
    <2>1. g \in Int /\ f = Q * g + (f % Q) /\ f % Q \in 0 .. Q - 1
      BY <1>1, <1>5, <1>6
    <2>2. ASSUME f >= 0 PROVE g >= 0
      BY <1>1, <1>5, <1>6, <2>2
    <2>3. ASSUME f <= 0 PROVE g <= 0
      <3> SUFFICES ASSUME g >= 1 PROVE FALSE
        BY <2>1
      <3>1. g - 1 \in Nat /\ Q * (g - 1) \in Nat /\ Q * g = Q + Q * (g - 1)
        BY <1>1, <2>1
      <3> DEFINE A == Q * g
                 C == Q * (g - 1)
      <3>2. A = Q + C /\ C \in Nat /\ f = A + (f % Q)
        BY <2>1, <3>1
      <3> HIDE DEF A, C
      <3> QED BY <1>1, <1>5, <2>1, <2>3, <3>2
    <2> QED BY <2>1, <2>2, <2>3
  <1>8. /\ dt = spacing => num = 0
        /\ dt < spacing => num <= 0
        /\ dt > spacing => num >= 0
    BY <1>1
  <1>9. /\ dt = spacing => g = 0
        /\ dt < spacing => g <= 0
        /\ dt > spacing => g >= 0
        /\ g \in Int
    <2> HIDE DEF num
    <2> QED BY <1>3, <1>4, <1>5, <1>7, <1>8
  <1>10. /\ Q + g \in Int
         /\ dt = spacing => Q + g = Q
         /\ dt < spacing => Q + g <= Q
         /\ dt > spacing => Q + g >= Q
    BY <1>1, <1>9
  <1> QED BY <1>2, <1>10

(* A product with the high half, divided by one, follows the multiplier. *)
LEMMA ScaledBy ==
    ASSUME NEW h \in 1 .. Ceiling, NEW mult \in Nat
    PROVE  LET s == Saturated(h * mult) \div Q IN
           /\ s \in 0 .. Ceiling
           /\ mult <= Q => s <= h
           /\ mult >= Q => s >= h
  <1> DEFINE p == h * mult
             m == Saturated(p)
             s == m \div Q
  <1>0. h \in Nat /\ h >= 1 /\ h <= Ceiling
    BY HalfFacts
  <1>1. p \in Nat
    BY <1>0
  <1>2. Q * h <= Half - 1 /\ Q * h \in Nat
    <2>1. Q * h <= Q * Ceiling /\ Q * h \in Nat
      BY <1>0, HalfFacts, TimesMonotone
    <2>2. Q * Ceiling = Ceiling * Q /\ Q * Ceiling \in Nat
      BY HalfFacts
    <2> QED BY <2>1, <2>2, HalfFacts
  <1>3. (mult <= Q => p <= Q * h) /\ (mult >= Q => p >= Q * h)
    <2>1. mult <= Q => h * mult <= h * Q
      BY <1>0, HalfFacts, TimesMonotone
    <2>2. mult >= Q => h * Q <= h * mult
      BY <1>0, HalfFacts, TimesMonotone
    <2>3. h * Q = Q * h
      BY <1>0, HalfFacts
    <2> QED BY <1>0, <1>1, <2>1, <2>2, <2>3
  <1> HIDE DEF p
  <1>4. m \in Nat /\ m <= Half - 1 /\ (mult <= Q => m <= Q * h) /\ (mult >= Q => m >= Q * h)
    BY <1>1, <1>2, <1>3, HalfFacts DEF Saturated, AtMost
  <1> HIDE DEF m
  <1>5. m = Q * s + (m % Q) /\ m % Q \in 0 .. Q - 1 /\ s \in Nat
    BY <1>4, HalfFacts, DivMod
  <1> HIDE DEF s
  <1>6. \A a \in Nat : m <= Q * a + (Q - 1) => s <= a
    <2> TAKE a \in Nat
    <2> SUFFICES ASSUME m <= Q * a + (Q - 1) PROVE s <= a
      OBVIOUS
    <2>1. Q * (a + 1) = Q * a + Q /\ Q * a \in Nat /\ Q * s \in Nat
      BY <1>5, HalfFacts
    <2>2. Q * s < Q * (a + 1)
      <3> DEFINE A == Q * a
                 S == Q * s
      <3>1. A \in Nat /\ S \in Nat /\ m <= A + (Q - 1) /\ m = S + (m % Q) /\ Q * (a + 1) = A + Q
        BY <1>5, <2>1
      <3> HIDE DEF A, S
      <3>2. S < A + Q
        BY <1>4, <1>5, <3>1, HalfFacts
      <3> QED BY <3>1, <3>2 DEF S
    <2>3. s < a + 1
      BY <1>5, <2>2, HalfFacts, TimesCancel
    <2> QED BY <1>5, <2>3
  <1>7. mult <= Q => s <= h
    <2>1. Q * h <= Q * h + (Q - 1)
      BY <1>2, HalfFacts
    <2>2. m <= Q * h => m <= Q * h + (Q - 1)
      BY <1>2, <1>4, HalfFacts
    <2> QED BY <1>0, <1>4, <1>6, <2>2
  <1>8. s <= Ceiling
    <2> DEFINE A == Q * Ceiling
    <2>0. Half - 1 \in Nat /\ Q \in Nat \ {0} /\ A \in Nat
      BY HalfFacts
    <2>1. Half - 1 = A + ((Half - 1) % Q) /\ (Half - 1) % Q \in 0 .. Q - 1 /\ A \in Nat
      BY <2>0, DivMod DEF Ceiling
    <2>2. m <= A + (Q - 1)
      <3> HIDE DEF A
      <3> QED BY <1>4, <2>1, HalfFacts
    <2> QED BY <1>6, <2>2, HalfFacts
  <1>9. mult >= Q => s >= h
    <2> SUFFICES ASSUME mult >= Q, s < h PROVE FALSE
      BY <1>0, <1>5
    <2>1. Q * (s + 1) <= Q * h /\ Q * (s + 1) = Q * s + Q /\ Q * s \in Nat
      BY <1>0, <1>5, HalfFacts, TimesMonotone
    <2> DEFINE S == Q * s
               A == Q * h
    <2>2. S \in Nat /\ A \in Nat /\ S + Q <= A /\ m >= A /\ m = S + (m % Q)
      BY <1>2, <1>4, <1>5, <2>1
    <2> HIDE DEF S, A
    <2> QED BY <1>4, <1>5, <2>2, HalfFacts
  <1> QED BY <1>5, <1>7, <1>8, <1>9 DEF s, m, p

(* The clamps, below the ceiling: nothing saturates and their bounds are in order. *)
LEMMA ClampBounds ==
    ASSUME NEW h \in 1 .. Ceiling
    PROVE  LET lower == AtLeast(Saturated(h * 100) \div 108, 1)
               upper == Saturated(h * 108) \div 100
           IN /\ lower \in 1 .. h /\ upper \in Nat /\ h <= upper
              /\ 100 * upper <= 108 * h /\ 100 * h <= 108 * (lower + 1)
              /\ ~ ClampPanics(h)
  <1> DEFINE lower == AtLeast(Saturated(h * 100) \div 108, 1)
             upper == Saturated(h * 108) \div 100
  <1>0. h \in Nat /\ h >= 1 /\ h <= Ceiling
    BY HalfFacts
  <1>1. h * 108 <= Half - 1
    <2>1. h * 108 <= h * Q /\ h * 108 \in Nat /\ Q * h <= Q * Ceiling /\ Q * h \in Nat
      BY <1>0, HalfFacts, TimesMonotone
    <2>2. Q * Ceiling = Ceiling * Q /\ h * Q = Q * h /\ Q * Ceiling \in Nat
      BY <1>0, HalfFacts
    <2>3. h * 108 <= Ceiling * Q
      BY <2>1, <2>2
    <2> QED BY <2>1, <2>2, <2>3, HalfFacts
  <1>2. Saturated(h * 100) = h * 100 /\ Saturated(h * 108) = h * 108
    BY <1>0, <1>1, HalfFacts DEF Saturated, AtMost
  <1>3. lower \in 1 .. h /\ 100 * h <= 108 * (lower + 1)
    BY <1>0, <1>2 DEF AtLeast
  <1>4. upper \in Nat /\ h <= upper /\ 100 * upper <= 108 * h
    BY <1>0, <1>2
  <1>5. ~ ClampPanics(h)
    <2>1. ClampPanics(h) <=> lower > upper
      BY DEF ClampPanics
    <2> HIDE DEF lower, upper
    <2> QED BY <1>0, <1>3, <1>4, <2>1
  <1> QED BY <1>3, <1>4, <1>5

(* The new high half: below the ceiling, within 8 percent, and on the side of the schedule. *)
LEMMA NextHi ==
    ASSUME NEW h \in 1 .. Ceiling, NEW dt \in Int, NEW t \in Nat \ {0}
    PROVE  LET new == next_hi(h, dt, t) IN
           /\ new \in 1 .. Ceiling
           /\ 100 * new <= 108 * h /\ 100 * h <= 108 * (new + 1)
           /\ dt = spacing => new = h
           /\ dt < spacing => new <= h
           /\ dt > spacing => new >= h
  <1> DEFINE mult == pow2_q16(dt - spacing, t)
             raw == IF mult < 0 THEN 0 ELSE AtLeast(Saturated(h * mult) \div Q, 1)
             lower == AtLeast(Saturated(h * 100) \div 108, 1)
             upper == Saturated(h * 108) \div 100
             new == next_hi(h, dt, t)
  <1>0. h \in Nat /\ h >= 1 /\ h <= Ceiling /\ Ceiling \in Nat
    BY HalfFacts
  <1>1. /\ mult \in Int
        /\ dt = spacing => mult = Q
        /\ dt < spacing => mult <= Q
        /\ dt > spacing => mult >= Q
    BY Multiplier
  <1>2. new = AtMost(AtLeast(raw, lower), upper)
    BY Zenon DEF next_hi, clamped
  <1>3. /\ lower \in 1 .. h /\ upper \in Nat /\ h <= upper
        /\ 100 * upper <= 108 * h /\ 100 * h <= 108 * (lower + 1)
    BY ClampBounds
  <1> HIDE DEF mult, lower, upper, new
  <1>4. /\ raw \in 0 .. Ceiling
        /\ mult <= Q => raw <= h
        /\ mult >= Q => raw >= h
    <2>1. CASE mult < 0
      <3>1. ~ (mult >= Q)
        BY <1>1, <2>1, HalfFacts
      <3> QED BY <1>0, <2>1, <3>1
    <2>2. CASE ~ (mult < 0)
      <3> DEFINE s == Saturated(h * mult) \div Q
      <3>1. mult \in Nat
        BY <1>1, <2>2
      <3>2. s \in 0 .. Ceiling /\ (mult <= Q => s <= h) /\ (mult >= Q => s >= h)
        BY <3>1, ScaledBy
      <3>3. raw = AtLeast(s, 1)
        BY <2>2
      <3> HIDE DEF s, raw
      <3> QED BY <1>0, <3>2, <3>3 DEF AtLeast
    <2> QED BY <2>1, <2>2
  <1> HIDE DEF raw
  <1>5. /\ new \in 1 .. Ceiling /\ new <= upper /\ (new >= lower)
        /\ mult <= Q => new <= h
        /\ mult >= Q => new >= h
    BY <1>0, <1>2, <1>3, <1>4 DEF AtLeast, AtMost
  <1>6. 100 * new <= 108 * h /\ 100 * h <= 108 * (new + 1)
    BY <1>0, <1>3, <1>5
  <1>7. dt = spacing => new = h
    BY <1>0, <1>1, <1>5, HalfFacts
  <1> QED BY <1>1, <1>5, <1>6, <1>7 DEF new

-----------------------------------------------------------------------------
(* The step of ASERT, on targets. *)

CompactBits == [exponent : Nat, mantissa : Nat]
Mid == N \div 2

LEMMA HiIs ==
    ASSUME NEW t \in Targets
    PROVE  hi(t) = ValueAt(t, Mid) /\ ValueAt(t, Mid) \in Nat
  <1> DEFINE s == SubSeq(t, 1, Mid)
             V == Values(t, Byte, N)
             W == Values(s, Byte, Mid)
  <1>1. Mid \in Nat /\ Mid <= N /\ N \in Nat /\ Byte \in Nat \ {0} /\ Mid \in 0 .. N /\ Mid \in 0 .. Mid
    BY ByteFacts DEF Mid
  <1>2. t \in Seq(Bytes) /\ Len(t) = N
    BY <1>1, ValueOfDigits DEF Targets
  <1>3. s \in [1 .. Mid -> Bytes] /\ \A k \in 1 .. Mid : s[k] = t[k]
    <2>1. s = [i \in 1 .. Mid |-> t[i]]
      BY <1>1, <1>2 DEF SubSeq
    <2>2. \A i \in 1 .. Mid : t[i] \in Bytes
      BY <1>1 DEF Targets
    <2> QED BY <2>1, <2>2
  <1> HIDE DEF s
  <1>4. Value(s, Byte) = W[Mid]
    BY <1>1, <1>3, ValueOfDigits
  <1>5. IsValueOf(W, s, Byte, Mid)
    BY <1>1, ValuesUnfold
  <1>6. IsValueOf(V, t, Byte, Mid) /\ Digits(t, Byte, Mid) /\ ValueAt(t, Mid) \in Nat
    <2>1. IsValueOf(V, t, Byte, N) /\ Digits(t, Byte, N) /\ ValueAt(t, Mid) \in Nat
      BY <1>1, ValueAtType
    <2>2. \A k \in 1 .. Mid : k \in 1 .. N
      BY <1>1
    <2> QED BY <2>1, <2>2 DEF IsValueOf, Digits
  <1> HIDE DEF V, W
  <1>7. V[Mid] = W[Mid]
    <2>1. \A k \in 1 .. Mid : t[k] = s[k]
      BY <1>3
    <2>2. \A k \in 0 .. Mid : V[k] = W[k]
      BY <1>1, <1>5, <1>6, <2>1, ValueSame
    <2> QED BY <1>1, <2>2
  <1> QED BY <1>4, <1>6, <1>7 DEF hi, s, V, Mid, ValueAt

LEMMA HalfIs == Half = Power(Byte, N - Mid) /\ Mid \in 0 .. N /\ N \in Mid .. N /\ N - Mid = Mid
  BY ByteFacts DEF Half, Mid

(* Below the ceiling asert_target replaces the high half by next_hi and keeps the low one. *)
LEMMA AsertTarget ==
    ASSUME NEW b \in CompactBits, BelowCeiling(b), NEW dt \in Int, NEW t \in Nat
    PROVE  LET A == target_from_bits(b)
               T == asert_target(b, dt, t)
               h == hi(A)
           IN /\ A \in Targets /\ T \in Targets /\ h \in 1 .. Ceiling
              /\ \E new \in 1 .. Ceiling :
                    /\ ValueAt(T, Mid) = new
                    /\ ValueAt(T, N) + h * Half = ValueAt(A, N) + new * Half
                    /\ 100 * new <= 108 * h /\ 100 * h <= 108 * (new + 1)
                    /\ dt = spacing => new = h
                    /\ dt < spacing => new <= h
                    /\ dt > spacing => new >= h
  <1> DEFINE A == target_from_bits(b)
             T == asert_target(b, dt, t)
             h == hi(A)
  <1>1. A \in Targets
    BY TargetType DEF CompactBits
  <1>2. h \in 1 .. Ceiling
    BY DEF BelowCeiling, Ceiling
  <1>3. h = ValueAt(A, Mid) /\ h \in Nat
    BY <1>1, HiIs
  <1>4. CASE t = 0
    <2>1. T = A
      BY <1>4, Zenon DEF asert_target
    <2>2. 100 * h <= 108 * h /\ 100 * h <= 108 * (h + 1) /\ h <= h /\ h >= h
      <3> HIDE DEF h
      <3> QED BY <1>3
    <2> QED BY <1>1, <1>2, <1>3, <2>1, <2>2, Zenon
  <1>5. CASE t # 0
    <2> DEFINE new == next_hi(h, dt, t)
    <2>1. t \in Nat \ {0}
      BY <1>5
    <2>2. T = [k \in 1 .. N |-> IF k <= Mid THEN Digit(new, Byte, Mid, k) ELSE A[k]]
      BY <1>5, Zenon DEF asert_target, next_hi, Mid
    <2> HIDE DEF h
    <2>3. /\ new \in 1 .. Ceiling
          /\ 100 * new <= 108 * h /\ 100 * h <= 108 * (new + 1)
          /\ dt = spacing => new = h
          /\ dt < spacing => new <= h
          /\ dt > spacing => new >= h
      BY <1>2, <2>1, NextHi
    <2> HIDE DEF new
    <2>4. Mid \in Nat /\ Mid <= N /\ N \in Nat /\ Byte \in Nat \ {0} /\ Mid \in 0 .. N /\ N \in Mid .. N
      BY ByteFacts, HalfIs DEF Mid
    <2>5. new \in Nat /\ new < Half
      <3>1. new \in Nat /\ new <= Ceiling /\ Ceiling \in Nat
        BY <2>3, HalfFacts
      <3>2. Ceiling * 1 <= Ceiling * Q /\ Ceiling * Q \in Nat
        BY <3>1, HalfFacts, TimesMonotone
      <3> QED BY <3>1, <3>2, HalfFacts
    <2>6. \A k \in 1 .. Mid : k \in 1 .. N /\ k <= Mid /\ Digit(new, Byte, Mid, k) \in Bytes
      <3>1. new \in Int /\ \A k \in 1 .. Mid : k \in 1 .. N /\ k <= Mid
        BY <2>4, <2>5
      <3>2. \A k \in 1 .. Mid : Digit(new, Byte, Mid, k) \in 0 .. Byte - 1
        BY <2>4, <3>1, DigitType
      <3> QED BY <3>1, <3>2 DEF Bytes
    <2>7. T \in Targets
      <3>1. \A k \in 1 .. N : k <= Mid => k \in 1 .. Mid
        BY <2>4
      <3>2. \A k \in 1 .. N : A[k] \in Bytes
        BY <1>1 DEF Targets
      <3> HIDE DEF A
      <3> QED BY <2>2, <2>6, <3>1, <3>2 DEF Targets
    <2>8. \A k \in 1 .. Mid : T[k] = Digit(new, Byte, Mid, k)
      BY <2>2, <2>6
    <2>9. \A k \in Mid + 1 .. N : T[k] = A[k]
      <3>1. \A k \in Mid + 1 .. N : k \in 1 .. N /\ ~ (k <= Mid)
        BY <2>4
      <3> QED BY <2>2, <3>1
    <2> HIDE DEF T, A
    <2> DEFINE V == Values(T, Byte, N)
               W == Values(A, Byte, N)
    <2>10. /\ IsValueOf(V, T, Byte, N) /\ Digits(T, Byte, N)
           /\ IsValueOf(W, A, Byte, N) /\ Digits(A, Byte, N)
      BY <1>1, <2>7, ValueAtType
    <2>11. IsValueOf(V, T, Byte, Mid)
      <3>1. \A k \in 1 .. Mid : k \in 1 .. N
        BY <2>4
      <3> QED BY <2>10, <3>1 DEF IsValueOf
    <2>12. V[Mid] = new
      <3>1. new < Power(Byte, Mid)
        BY <2>5 DEF Half, Mid
      <3> HIDE DEF V
      <3> QED BY <2>4, <2>5, <2>8, <2>11, <3>1, DigitsGiveValue
    <2>13. V[N] + W[Mid] * Power(Byte, N - Mid) = W[N] + V[Mid] * Power(Byte, N - Mid)
      <3> HIDE DEF V, W
      <3>1. \A k \in Mid .. N :
                V[k] + W[Mid] * Power(Byte, k - Mid) = W[k] + V[Mid] * Power(Byte, k - Mid)
        BY <2>4, <2>9, <2>10, ValueShift
      <3> QED BY <2>4, <3>1
    <2>14. ValueAt(T, Mid) = new /\ ValueAt(T, N) + h * Half = ValueAt(A, N) + new * Half
      BY <1>3, <2>12, <2>13, HalfIs DEF ValueAt
    <2> QED BY <1>1, <1>2, <2>3, <2>7, <2>14 DEF T, A, h
  <1> QED BY <1>4, <1>5

(* A target whose high half is not zero and below the ceiling has room for the sign, and its
   first byte is in the high half. *)
LEMMA FirstByte ==
    ASSUME NEW T \in Targets, ValueAt(T, Mid) \in 1 .. Ceiling
    PROVE  \E z \in Nat : FirstAt(T, z) /\ z + 1 <= Mid /\ z + 3 <= N /\ (T[z + 1] >= HalfByte => z >= 1)
  <1>1. /\ Mid \in Nat /\ Mid >= 2 /\ Mid + Mid = N /\ N \in Nat /\ Byte \in Nat \ {0}
        /\ HalfByte \in Nat \ {0} /\ Byte = 2 * HalfByte
    BY ByteFacts DEF Mid
  <1> DEFINE v == ValueAt(T, Mid)
  <1>2. v \in Nat \ {0} /\ v <= Ceiling /\ Ceiling \in Nat
    BY HalfFacts
  <1>3. \E n \in 1 .. Mid : T[n] # 0
    <2> SUFFICES ASSUME \A n \in 1 .. Mid : T[n] = 0 PROVE FALSE
      OBVIOUS
    <2>1. 0 \in 0 .. N /\ Mid \in 0 .. N /\ 0 + 1 = 1 /\ Mid - 0 = Mid
      BY <1>1
    <2>2. v = ValueAt(T, 0) * Power(Byte, Mid - 0) /\ Power(Byte, Mid - 0) \in Nat
      BY <2>1, TargetSplit
    <2>3. ValueAt(T, 0) = 0
      BY ValueAtType DEF ValueAt, IsValueOf
    <2> QED BY <1>2, <2>2, <2>3
  <1>4. PICK n \in 1 .. Mid : T[n] # 0
    BY <1>3
  <1>5. n \in 1 .. N
    BY <1>1
  <1>6. PICK z \in 0 .. n - 1 : FirstAt(T, z)
    BY <1>4, <1>5, FirstExists
  <1>7. z \in Nat /\ z + 1 <= Mid /\ z + 3 <= N
    BY <1>1
  <1>8. ASSUME T[z + 1] >= HalfByte, z = 0 PROVE FALSE
    <2> DEFINE p == Power(Byte, Mid - 1)
               a == ValueAt(T, 1)
    <2>1. 1 \in 0 .. N /\ Mid \in 1 .. N /\ 1 \in 1 .. N /\ 1 - 1 = 0 /\ Mid - 1 \in Nat
          /\ (Mid - 1) + 1 = Mid
      BY <1>1
    <2>2. a * p <= v /\ a \in Nat /\ p \in Nat \ {0}
      BY <2>1, TargetSplit
    <2>3. a = T[1] /\ a >= HalfByte
      <3>1. ValueAt(T, 1) = ValueAt(T, 0) * Byte + T[1] /\ ValueAt(T, 0) = 0
        BY <2>1, ValueAtType DEF ValueAt, IsValueOf
      <3>2. T[1] \in Nat
        BY <2>1 DEF Targets, Bytes
      <3>3. a = T[1]
        BY <1>1, <3>1, <3>2
      <3> QED BY <1>8, <3>3
    <2>4. Half = p * Byte
      BY <1>1, <2>1, PowerFacts DEF Half, Mid
    <2> HIDE DEF a, p, v
    <2>5. p * HalfByte <= p * a /\ p * HalfByte \in Nat /\ p * a = a * p /\ p * Byte = 2 * (p * HalfByte)
      BY <1>1, <2>2, <2>3, TimesMonotone
    <2>6. Ceiling * 108 <= Ceiling * Q /\ Ceiling * 108 \in Nat
      BY <1>2, HalfFacts, TimesMonotone
    <2> DEFINE x == p * HalfByte
               y == Ceiling * Q
    <2>7. /\ x \in Nat /\ x <= v /\ Half = 2 * x /\ y <= Half - 1 /\ 108 * Ceiling <= y
      BY <1>2, <2>2, <2>4, <2>5, <2>6, HalfFacts
    <2>8. y \in Nat
      BY HalfFacts
    <2> HIDE DEF x, y
    <2> QED BY <1>2, <2>7, <2>8, HalfFacts
  <1> QED BY <1>6, <1>7, <1>8

LEMMA UlpIs ==
    ASSUME NEW T \in Targets, NEW z \in Nat, FirstAt(T, z), z + 3 <= N
    PROVE  Ulp(bits_from_target(T)) = Power(Byte, N - Cut(T, z))
  <1> DEFINE e == bits_from_target(T).exponent
  <1>1. /\ Cut(T, z) \in 0 .. N /\ N \in Nat
        /\ T[z + 1] >= HalfByte => Cut(T, z) = z + 2
        /\ ~ (T[z + 1] >= HalfByte) => Cut(T, z) = z + 3
    BY CutFacts, ByteFacts
  <1>2. /\ T[z + 1] >= HalfByte => e = N - z + 1
        /\ ~ (T[z + 1] >= HalfByte) => e = N - z
    BY BitsOf
  <1> HIDE DEF e
  <1>3. e \in Int /\ e - 3 = N - Cut(T, z) /\ N - Cut(T, z) >= 0
    BY <1>1, <1>2
  <1>4. AtLeast(e - 3, 0) = N - Cut(T, z)
    BY <1>1, <1>3 DEF AtLeast
  <1> QED BY <1>4 DEF Ulp, e

(* One block, below the ceiling. *)
LEMMA AsertStep ==
    ASSUME NEW b \in CompactBits, BelowCeiling(b), NEW dt \in Int, NEW n \in Nat
    PROVE  LET b2 == next_bits_from_parent(b, n, dt) IN
           /\ BelowCeiling(b2)
           /\ bits_from_target(target_from_bits(b2)) = b2
           /\ Target(b2) * 100 <= Target(b) * 108
           /\ (Target(b2) + Ulp(b2) + Half) * 108 >= Target(b) * 100
           /\ dt = spacing => Target(b2) = Target(b)
           /\ dt < spacing => Target(b2) <= Target(b)
           /\ dt > spacing => Target(b2) >= Target(b)
  <1> DEFINE b2 == next_bits_from_parent(b, n, dt)
             A == target_from_bits(b)
             T == asert_target(b, dt, tau_ms(n + 1))
             h == hi(A)
  <1>1. tau_ms(n + 1) \in Nat
    BY AsertAssumption DEF tau_ms
  <1>2. /\ A \in Targets /\ T \in Targets /\ h \in 1 .. Ceiling
        /\ \E new \in 1 .. Ceiling :
              /\ ValueAt(T, Mid) = new
              /\ ValueAt(T, N) + h * Half = ValueAt(A, N) + new * Half
              /\ 100 * new <= 108 * h /\ 100 * h <= 108 * (new + 1)
              /\ dt = spacing => new = h
              /\ dt < spacing => new <= h
              /\ dt > spacing => new >= h
    BY <1>1, AsertTarget
  <1>3. b2 = bits_from_target(T)
    BY DEF next_bits_from_parent
  <1>4. h = ValueAt(A, Mid) /\ h \in Nat
    BY <1>2, HiIs
  <1>5. \/ A = Zero
        \/ \E w \in 0 .. N - 1, x \in 0 .. HalfByte - 1, y \in Bytes, u \in Bytes : A = Window(w, x, y, u)
    BY TargetShape DEF CompactBits
  <1>6. Target(b) = ValueAt(A, N) /\ N \in Nat
    <2>1. N \in Nat
      BY ByteFacts
    <2>2. A \in [1 .. N -> Bytes]
      BY <1>2 DEF Targets
    <2>3. Target(b) = Value(A, Byte)
      BY DEF Target
    <2> HIDE DEF A
    <2>4. Value(A, Byte) = Values(A, Byte, N)[N]
      BY <2>1, <2>2, ValueOfDigits
    <2> QED BY <2>1, <2>3, <2>4 DEF ValueAt
  <1> HIDE DEF A, T, h, b2
  <1>7. PICK new \in 1 .. Ceiling :
              /\ ValueAt(T, Mid) = new
              /\ ValueAt(T, N) + h * Half = ValueAt(A, N) + new * Half
              /\ 100 * new <= 108 * h /\ 100 * h <= 108 * (new + 1)
              /\ dt = spacing => new = h
              /\ dt < spacing => new <= h
              /\ dt > spacing => new >= h
    BY <1>2
  <1>8. PICK z \in Nat : FirstAt(T, z) /\ z + 1 <= Mid /\ z + 3 <= N /\ (T[z + 1] >= HalfByte => z >= 1)
    BY <1>2, <1>7, FirstByte
  <1> DEFINE c == Cut(T, z)
             R == Truncated(T, c)
             p == Power(Byte, N - c)
  <1>9. c \in 0 .. N /\ z + 2 <= c
    BY <1>8, CutFacts
  <1>10. target_from_bits(b2) = R
    BY <1>2, <1>3, <1>8, TargetOfBits
  <1>11. bits_from_target(target_from_bits(b2)) = b2
    BY <1>2, <1>3, <1>8, <1>10, RoundTrip
  <1>12. R \in Targets
    BY <1>2, <1>9, TruncatedType
  <1>13. Target(b2) = ValueAt(R, N)
    <2>1. Value(R, Byte) = Values(R, Byte, N)[N]
      BY <1>6, <1>12, ValueOfDigits DEF Targets
    <2> QED BY <1>10, <2>1 DEF Target, ValueAt
  <1>14. Ulp(b2) = p
    BY <1>2, <1>3, <1>8, UlpIs
  <1>15. /\ \A k \in 0 .. c : ValueAt(R, k) = ValueAt(T, k)
         /\ \A k \in 0 .. N : ValueAt(R, k) <= ValueAt(T, k)
         /\ ValueAt(T, N) < ValueAt(R, N) + p
    BY <1>2, <1>9, TruncatedValue
  <1>16. ValueAt(A, N) <= ValueAt(T, N) => ValueAt(A, N) <= ValueAt(R, N)
    <2>1. A # Zero
      <3>2. ASSUME A = Zero PROVE FALSE
        <4>1. 0 \in 0 .. N /\ Mid \in 0 .. N /\ 0 + 1 = 1 /\ Mid - 0 = Mid /\ Mid \in Nat /\ Mid <= N
          BY ByteFacts DEF Mid
        <4>2. \A k \in 1 .. Mid : A[k] = 0
          BY <3>2, <4>1, <1>6 DEF Zero
        <4>3. ValueAt(A, Mid) = ValueAt(A, 0) * Power(Byte, Mid - 0) /\ Power(Byte, Mid - 0) \in Nat
          BY <1>2, <4>1, <4>2, TargetSplit
        <4>4. ValueAt(A, 0) = 0
          BY <1>2, ValueAtType DEF ValueAt, IsValueOf
        <4> QED BY <1>2, <1>4, <4>3, <4>4, HalfFacts
      <3> QED BY <3>2
    <2>2. PICK w \in 0 .. N - 1, x \in 0 .. HalfByte - 1, y \in Bytes, u \in Bytes : A = Window(w, x, y, u)
      BY <1>5, <2>1
    <2> QED BY <1>2, <1>8, <2>2, TruncatedAbove
  <1> DEFINE X == ValueAt(R, N)
             Y == ValueAt(T, N)
             V == ValueAt(A, N)
             a == h * Half
             m == new * Half
  <1>17. X \in Nat /\ Y \in Nat /\ V \in Nat /\ a \in Nat /\ m \in Nat /\ p \in Nat \ {0} /\ Half \in Nat \ {0}
    <2>1. N \in 0 .. N /\ N - c \in Nat /\ new \in Nat
      BY <1>6, <1>9, HalfFacts
    <2>2. X \in Nat /\ Y \in Nat /\ V \in Nat
      BY <1>2, <1>12, <2>1, ValueAtType
    <2>3. p \in Nat \ {0}
      BY <2>1, ByteFacts, PowerPositive
    <2> QED BY <1>4, <2>1, <2>2, <2>3, HalfFacts
  <1>18. a <= V
    BY <1>2, <1>4, HalfIs, TargetSplit
  <1>19. 100 * m <= 108 * a /\ 100 * a <= 108 * (m + Half) /\ (new <= h => m <= a) /\ (h <= new => a <= m)
    <2>1. new \in Nat /\ h \in Nat /\ Half \in Nat
      BY <1>4, HalfFacts
    <2>2. Half * (100 * new) <= Half * (108 * h) /\ Half * (100 * h) <= Half * (108 * (new + 1))
      BY <1>7, <2>1, TimesMonotone
    <2>3. (new <= h => Half * new <= Half * h) /\ (h <= new => Half * h <= Half * new)
      BY <2>1, TimesMonotone
    <2>4. /\ Half * (100 * new) = 100 * m /\ Half * (108 * h) = 108 * a
          /\ Half * (100 * h) = 100 * a /\ Half * (108 * (new + 1)) = 108 * (m + Half)
          /\ Half * new = m /\ Half * h = a
      BY <2>1
    <2> QED BY <2>2, <2>3, <2>4
  <1>20. /\ X <= Y /\ Y < X + p /\ Y + a = V + m /\ (V <= Y => V <= X)
    <2>1. N \in 0 .. N
      BY <1>6
    <2> QED BY <1>7, <1>15, <1>16, <2>1
  <1>21. BelowCeiling(b2)
    <2> DEFINE r == ValueAt(R, Mid)
               i == z + 1
               q == Power(Byte, Mid - i)
    <2>1. Mid \in 0 .. N /\ i \in 0 .. N /\ Mid \in i .. N /\ i \in 0 .. c /\ i \in 1 .. N /\ i - 1 = z
          /\ z \in 0 .. N
      BY <1>6, <1>8, <1>9, ByteFacts DEF Mid
    <2>2. hi(R) = r /\ r \in Nat
      BY <1>12, HiIs
    <2>3. r <= Ceiling
      <3>1. r <= new
        BY <1>7, <1>15, <2>1
      <3> QED BY <2>2, <3>1, HalfFacts
    <2>4. r >= 1
      <3>1. ValueAt(R, i) * q <= r /\ q \in Nat \ {0} /\ ValueAt(R, i) \in Nat
        BY <1>12, <2>1, TargetSplit
      <3>2. ValueAt(R, i) = ValueAt(T, i)
        BY <1>15, <2>1
      <3>3. ValueAt(T, i) = ValueAt(T, z) * Byte + T[i] /\ ValueAt(T, z) \in Nat
        BY <1>2, <2>1, ValueAtType DEF ValueAt, IsValueOf
      <3>4. T[i] \in Nat \ {0}
        BY <1>2, <1>8, <2>1 DEF Targets, Bytes, FirstAt
      <3> DEFINE g == ValueAt(T, i)
      <3>5. g >= 1 /\ g \in Nat
        <4>1. ValueAt(T, z) * Byte \in Nat
          BY <3>3, ByteFacts
        <4> QED BY <3>3, <3>4, <4>1
      <3> HIDE DEF g, q, r
      <3>6. q * 1 <= q * g /\ g * q = q * g /\ q * g \in Nat
        BY <3>1, <3>5, TimesMonotone
      <3>7. g * q <= r
        BY <3>1, <3>2 DEF g
      <3> QED BY <2>2, <3>1, <3>6, <3>7
    <2>5. r \in 1 .. Ceiling
      BY <2>2, <2>3, <2>4, HalfFacts
    <2> QED BY <1>10, <2>2, <2>5 DEF BelowCeiling, Ceiling
  <1> HIDE DEF X, Y, V, a, m, p
  <1>22. X * 100 <= V * 108 /\ (X + p + Half) * 108 >= V * 100
    BY <1>17, <1>18, <1>19, <1>20
  <1>23. /\ dt < spacing => X <= V
         /\ dt > spacing => X >= V
         /\ dt = spacing => X = V
    <2>1. new \in Nat /\ h \in Nat
      BY <1>4, HalfFacts
    <2>2. dt < spacing => m <= a
      BY <1>7, <1>19
    <2>3. dt > spacing => a <= m
      BY <1>7, <1>19, <2>1
    <2>4. dt = spacing => a = m
      BY <1>7 DEF a, m
    <2> QED BY <1>17, <1>20, <2>2, <2>3, <2>4
  <1>24. Target(b) = V /\ Target(b2) = X /\ Ulp(b2) = p
    BY <1>6, <1>13, <1>14 DEF X, V, p
  <1> QED BY <1>11, <1>21, <1>22, <1>23, <1>24 DEF b2

(* The bits of every block, below the ceiling or not, are compact bits. *)
LEMMA BitsType ==
    ASSUME NEW b \in CompactBits, NEW dt \in Int, NEW n \in Nat
    PROVE  next_bits_from_parent(b, n, dt) \in CompactBits
  <1> DEFINE A == target_from_bits(b)
             t == tau_ms(n + 1)
             T == asert_target(b, dt, t)
  <1>1. t \in Nat /\ N \in Nat /\ Byte \in Nat \ {0} /\ Mid \in Nat /\ Mid <= N
    BY AsertAssumption, ByteFacts DEF tau_ms, Mid
  <1>2. A \in Targets
    BY TargetType DEF CompactBits
  <1>3. T \in Targets
    <2>1. CASE t = 0
      BY <1>2, <2>1, Zenon DEF asert_target
    <2>2. CASE t # 0
      <3> DEFINE h == hi(A)
                 new == next_hi(h, dt, t)
      <3>1. T = [k \in 1 .. N |-> IF k <= Mid THEN Digit(new, Byte, Mid, k) ELSE A[k]]
        BY <2>2, Zenon DEF asert_target, next_hi, Mid
      <3>2. h \in Nat
        BY <1>2, HiIs
      <3> HIDE DEF h
      <3>3. new \in Int
        <4> DEFINE mult == pow2_q16(dt - spacing, t)
                   raw == IF mult < 0 THEN 0 ELSE AtLeast(Saturated(h * mult) \div Q, 1)
                   lower == AtLeast(Saturated(h * 100) \div 108, 1)
                   upper == Saturated(h * 108) \div 100
        <4>1. mult \in Int
          BY <1>1, <2>2, Multiplier
        <4>2. new = AtMost(AtLeast(raw, lower), upper)
          BY Zenon DEF next_hi, clamped
        <4>3. lower \in Int /\ upper \in Int
          BY <3>2, HalfFacts DEF Saturated, AtMost, AtLeast
        <4> HIDE DEF mult, lower, upper
        <4>4. raw \in Int
          <5>1. h * mult \in Int
            BY <3>2, <4>1
          <5>2. Saturated(h * mult) \in Int
            BY <5>1, HalfFacts DEF Saturated, AtMost
          <5>3. Saturated(h * mult) \div Q \in Int
            BY <5>2, HalfFacts
          <5> QED BY <5>3 DEF AtLeast
        <4> HIDE DEF raw
        <4> QED BY <4>2, <4>3, <4>4 DEF AtMost, AtLeast
      <3> HIDE DEF new
      <3>4. \A k \in 1 .. Mid : Digit(new, Byte, Mid, k) \in Bytes
        BY <1>1, <3>3, DigitType DEF Bytes
      <3>5. \A k \in 1 .. N : A[k] \in Bytes /\ (k <= Mid => k \in 1 .. Mid)
        BY <1>1, <1>2 DEF Targets
      <3> HIDE DEF A
      <3> QED BY <3>1, <3>4, <3>5 DEF Targets
    <2> QED BY <2>1, <2>2
  <1>4. next_bits_from_parent(b, n, dt) = bits_from_target(T)
    BY DEF next_bits_from_parent
  <1> HIDE DEF T
  <1>5. CASE T = Zero
    BY <1>4, <1>5 DEF bits_from_target, CompactBits
  <1>6. CASE T # Zero
    <2>1. \E k \in 1 .. N : T[k] # 0
      <3> SUFFICES ASSUME \A k \in 1 .. N : T[k] = 0 PROVE FALSE
        OBVIOUS
      <3>1. T = Zero
        BY <1>3 DEF Targets, Zero
      <3> QED BY <1>6, <3>1
    <2>2. \E z : FirstAt(T, z)
      BY <1>3, <2>1, FirstExists
    <2>3. PICK z : FirstAt(T, z)
      BY <2>2
    <2>4. leading_zeros(T) = z /\ z \in 0 .. N - 1
      BY <2>3, LeadingZerosIs DEF FirstAt
    <2>5. leading(T) \in Nat
      <3> DEFINE byte(k) == IF z + k <= N THEN T[z + k] ELSE 0
      <3>1. \A k \in {1, 2, 3} : byte(k) \in Nat
        <4>1. \A k \in {1, 2, 3} : z + k <= N => z + k \in 1 .. N
          BY <1>1, <2>4
        <4>2. \A k \in 1 .. N : T[k] \in Nat
          BY <1>3 DEF Targets, Bytes
        <4> QED BY <4>1, <4>2
      <3>2. leading(T) = (byte(1) * Byte + byte(2)) * Byte + byte(3)
        BY <2>4 DEF leading
      <3> HIDE DEF byte
      <3>3. byte(1) \in Nat /\ byte(2) \in Nat /\ byte(3) \in Nat
        BY <3>1
      <3> QED BY <1>1, <3>2, <3>3
    <2>6. leading(T) \div Byte \in Nat /\ N - z \in Nat /\ N - z + 1 \in Nat
      BY <1>1, <2>4, <2>5
    <2>7. \/ bits_from_target(T) = [exponent |-> N - z + 1, mantissa |-> leading(T) \div Byte]
          \/ bits_from_target(T) = [exponent |-> N - z, mantissa |-> leading(T)]
      BY <1>6, <2>4, Zenon DEF bits_from_target
    <2> QED BY <1>4, <2>5, <2>6, <2>7 DEF CompactBits
  <1> QED BY <1>5, <1>6

(* Timestamps and heights are numbers, and bits are compact bits. *)
Headed == ts \in 0 .. MaxTime /\ height \in Nat /\ bits \in CompactBits

LEMMA HeadedAlways == ChainSpec => []Headed
  <1>1. ChainInit => Headed
    BY InitialAssumption, BoundAssumption DEF ChainInit, Init, Headed, CompactBits
  <1>2. Headed /\ [ChainNext]_chain => Headed'
    <2> SUFFICES ASSUME Headed, [ChainNext]_chain PROVE Headed'
      OBVIOUS
    <2>1. ASSUME NEW t \in ts .. MaxTime, Extend(t) PROVE Headed'
      <3>1. ts' = t /\ height' = height + 1 /\ bits' = next_bits_from_parent(bits, height, t - ts)
        BY <2>1 DEF Extend, Mine
      <3>2. t \in 0 .. MaxTime /\ t - ts \in Int /\ height + 1 \in Nat
        BY BoundAssumption DEF Headed
      <3>3. bits' \in CompactBits
        BY <3>1, <3>2, BitsType DEF Headed
      <3> QED BY <3>1, <3>2, <3>3 DEF Headed
    <2>2. CASE Panic
      BY <2>2 DEF Panic, vars, Headed
    <2>3. CASE UNCHANGED chain
      BY <2>3 DEF chain, vars, Headed
    <2> QED BY <2>1, <2>2, <2>3 DEF ChainNext
  <1> QED BY <1>1, <1>2, PTL DEF ChainSpec

(* What a step of the chain is, below the ceiling: a block, or nothing. *)
LEMMA ChainStep ==
    ASSUME Headed, ChainNext, BelowCeiling(bits)
    PROVE  /\ alive' /\ height' > height /\ ts' - ts \in Int
           /\ bits' = next_bits_from_parent(bits, height, ts' - ts)
  <1>1. ~ Panics
    <2> DEFINE h == hi(target_from_bits(bits))
    <2>1. h \in 1 .. Ceiling
      BY DEF BelowCeiling, Ceiling
    <2> HIDE DEF h
    <2>2. ~ ClampPanics(h)
      BY <2>1, ClampBounds
    <2> QED BY <2>2 DEF Panics, h
  <1>2. PICK t \in ts .. MaxTime : Extend(t)
    BY <1>1 DEF ChainNext, Panic
  <1>3. ts' = t /\ height' = height + 1 /\ alive' /\ bits' = next_bits_from_parent(bits, height, t - ts)
    BY <1>2 DEF Extend, Mine
  <1> QED BY <1>3, BoundAssumption DEF Headed

(* A chain whose target is at or below 2^112 in the high half stays there, for every width of a
   byte, a target and the fixed point: saturation never shrinks the window of the clamp, no call
   panics, the target never reaches zero, and the bits that next_bits_from_parent returns are the
   compact form of the target they stand for. *)
THEOREM CeilingIsKept == ChainSpec => CeilingHolds
  <1>1. Headed /\ [ChainNext]_chain
           => [BelowCeiling(bits) =>
                 /\ alive' /\ BelowCeiling(bits')
                 /\ height' > height => bits_from_target(target_from_bits(bits')) = bits']_chain
    <2> SUFFICES ASSUME Headed, ChainNext, BelowCeiling(bits)
                 PROVE  /\ alive' /\ BelowCeiling(bits')
                        /\ bits_from_target(target_from_bits(bits')) = bits'
      OBVIOUS
    <2>1. alive' /\ ts' - ts \in Int /\ bits' = next_bits_from_parent(bits, height, ts' - ts)
      BY ChainStep
    <2>2. BelowCeiling(bits') /\ bits_from_target(target_from_bits(bits')) = bits'
      BY <2>1, AsertStep DEF Headed
    <2> QED BY <2>1, <2>2
  <1> QED BY <1>1, HeadedAlways, PTL DEF ChainSpec, CeilingHolds

(* Below the ceiling no block, however early or late, moves the target by more than 8 percent,
   within the unit of the compact bits and of the high half that asert_target scales. *)
THEOREM StepsAreSmall == ChainSpec => StepWithin8Percent
  <1>1. Headed /\ [ChainNext]_chain
           => [BelowCeiling(bits) /\ height' > height =>
                 /\ Target(bits') * 100 <= Target(bits) * 108
                 /\ (Target(bits') + Ulp(bits') + Half) * 108 >= Target(bits) * 100]_chain
    <2> SUFFICES ASSUME Headed, ChainNext, BelowCeiling(bits)
                 PROVE  /\ Target(bits') * 100 <= Target(bits) * 108
                        /\ (Target(bits') + Ulp(bits') + Half) * 108 >= Target(bits) * 100
      OBVIOUS
    <2>1. ts' - ts \in Int /\ bits' = next_bits_from_parent(bits, height, ts' - ts)
      BY ChainStep
    <2> QED BY <2>1, AsertStep DEF Headed
  <1> QED BY <1>1, HeadedAlways, PTL DEF ChainSpec, StepWithin8Percent

(* Below the ceiling the target follows the schedule exactly where it must: no rounding, neither
   of the fixed point nor of the compact bits, drifts a chain that is on time, eases one that is
   early or hardens one that is late. *)
THEOREM ScheduleIsFollowed == ChainSpec => FollowsSchedule
  <1>1. Headed /\ [ChainNext]_chain
           => [BelowCeiling(bits) /\ height' > height =>
                 /\ ts' - ts = spacing => Target(bits') = Target(bits)
                 /\ ts' - ts < spacing => Target(bits') <= Target(bits)
                 /\ ts' - ts > spacing => Target(bits') >= Target(bits)]_chain
    <2> SUFFICES ASSUME Headed, ChainNext, BelowCeiling(bits)
                 PROVE  /\ ts' - ts = spacing => Target(bits') = Target(bits)
                        /\ ts' - ts < spacing => Target(bits') <= Target(bits)
                        /\ ts' - ts > spacing => Target(bits') >= Target(bits)
      OBVIOUS
    <2>1. ts' - ts \in Int /\ bits' = next_bits_from_parent(bits, height, ts' - ts)
      BY ChainStep
    <2> QED BY <2>1, AsertStep DEF Headed
  <1> QED BY <1>1, HeadedAlways, PTL DEF ChainSpec, FollowsSchedule
=============================================================================
