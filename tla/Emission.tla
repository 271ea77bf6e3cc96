------------------------------ MODULE Emission ------------------------------
(***************************************************************************)
(* The block reward (crates/consensus/src/emission.rs) as a chain of blocks *)
(* sees it: current_reward_with_height applied to block after block, with  *)
(* the counters minted_so_far and prev_reward that rpc.rs and main.rs carry *)
(* from one block to the next.  Times are offsets from genesis.  The       *)
(* schedule is a parameter, of which only monotonicity is assumed; module  *)
(* EmissionSchedule has the code's schedule and MCConsensus puts them      *)
(* together.                                                               *)
(***************************************************************************)
EXTENDS Integers

CONSTANTS
    R0,                 \* initial_reward_sat
    Scheduled(_),       \* scheduled_supply_at
    EpochReward(_),     \* initial_reward_sat >> epoch
    target_block_time,
    pct,                \* max_reward_pct_change_per_block, after .max(1)
    bootstrap_height,
    bootstrap_pct,      \* bootstrap_reward_pct
    MaxTime,            \* bound: last timestamp
    MaxHeight           \* bound: last height

ASSUME R0Assumption == R0 \in Nat
ASSUME TargetAssumption == target_block_time \in Nat \ {0}
ASSUME PctAssumption == pct \in 1 .. 100
ASSUME BootstrapAssumption == bootstrap_height \in Nat /\ bootstrap_pct \in Nat
ASSUME BoundAssumption == MaxTime \in Nat /\ MaxHeight \in Nat
ASSUME ScheduleAssumption ==
    \A t \in 0 .. MaxTime :
        /\ Scheduled(t) \in Nat
        /\ \A s \in 0 .. t : Scheduled(s) <= Scheduled(t)
ASSUME EpochAssumption == \A t \in 0 .. MaxTime : EpochReward(t) \in 0 .. R0

VARIABLES
    ts,       \* timestamp of the tip
    height,   \* height of the tip
    minted,   \* minted_so_far
    prev      \* prev_reward_sat (Some(0) after genesis)

vars == <<ts, height, minted, prev>>

Least(x, y) == IF x < y THEN x ELSE y
Most(x, y) == IF x > y THEN x ELSE y

-----------------------------------------------------------------------------
\* scheduled_supply_at(t), saturating_sub minted
calendar_remaining(t, m) == Most(Scheduled(t) - m, 0)
proportional_cap(t, parent) == (EpochReward(t) * Most(t - parent, 1)) \div target_block_time
bootstrap_cap(t) == (EpochReward(t) * bootstrap_pct) \div 100

\* The minimum of the three caps, and of the bootstrap cap below bootstrap_height.
capped(t, parent, m, h) ==
    LET three == Least(Least(calendar_remaining(t, m), EpochReward(t)), proportional_cap(t, parent))
    IN IF h < bootstrap_height THEN Least(three, bootstrap_cap(t)) ELSE three

\* Slew-rate limit: clamp to pct percent around the previous reward, skipped when that is 0.
max_up(p) == (p * (100 + pct)) \div 100

\* Mutants: the lower clamp never lets go, or rounds up.
max_down_flat(p) == p
max_down_rounded_up(p) == (p * (100 - pct) + 99) \div 100

\* the lower clamp rounds down
max_down(p) == (p * (100 - pct)) \div 100
slewed(r, p) == IF p > 0 THEN Least(Most(r, max_down(p)), max_up(p)) ELSE r

current_reward_with_height(t, parent, m, h, p) ==
    IF t = 0 THEN 0 ELSE slewed(capped(t, parent, m, h), p)

-----------------------------------------------------------------------------
Init == ts = 0 /\ height = 0 /\ minted = 0 /\ prev = 0

\* A block with timestamp t, not before its parent's, is applied.
Mine(t) ==
    LET reward == current_reward_with_height(t, ts, minted, height + 1, prev) IN
    /\ height < MaxHeight /\ t >= ts
    /\ ts' = t /\ height' = height + 1
    /\ minted' = minted + reward
    /\ prev' = reward

Next == \E t \in 0 .. MaxTime : Mine(t)
Spec == Init /\ [][Next]_vars

-----------------------------------------------------------------------------
\* Timestamps and heights within their bounds, amounts natural, no reward above the first.
TypeOK == ts \in 0 .. MaxTime /\ height \in 0 .. MaxHeight /\ minted \in Nat /\ prev \in 0 .. R0

\* The slew limit may pay ahead of the calendar, but only by what a reward that shrinks by
\* pct percent per block can still add up to: R0 * (100 - pct) / pct in all.  README.md:93 has no
\* such allowance, and tests/emission_long_form.rs:10-11 one epoch_reward, which is less.
OvershootBounded == pct * minted <= pct * Scheduled(ts) + (100 - pct) * R0

\* Of that allowance, the part a chain has left is measured by its last reward: this is the
\* inductive form of OvershootBounded.
OvershootBudget == pct * minted + (100 - pct) * prev <= pct * Scheduled(ts) + (100 - pct) * R0

\* No flood: a block that is owed nothing pays strictly less than the block before it, so a
\* run of blocks ahead of the calendar soon pays nothing at all.
AheadPaysLess ==
    [][minted >= Scheduled(ts') /\ prev > 0 => prev' < prev]_vars
=============================================================================
