-------------------------- MODULE EmissionSchedule --------------------------
(***************************************************************************)
(* scheduled_supply_at (crates/consensus/src/emission.rs): the supply the  *)
(* calendar intends at t units after genesis, halving the reward every     *)
(* t_h units.                                                              *)
(***************************************************************************)
EXTENDS Integers

CONSTANTS
    initial_reward,     \* initial_reward_sat
    t_h,                \* seconds_per_halving, in the unit of t
    target,             \* target_block_time_ms, in the unit of t
    supply_cap          \* supply_cap_sat

ASSUME ParamAssumption == /\ initial_reward \in Nat /\ supply_cap \in Nat
                          /\ t_h \in Nat \ {0} /\ target \in Nat \ {0}

blocks_per_halving == t_h \div target
epoch(t) == t \div t_h
reward_of_epoch(e) == IF e >= 64 THEN 0 ELSE initial_reward \div 2 ^ e

\* The loop over past epochs: what they paid in all.
cumulative(e) ==
    LET C[k \in 0 .. e] == IF k = 0 THEN 0
                           ELSE C[k - 1] + reward_of_epoch(k - 1) * blocks_per_halving
    IN C[e]

partial_blocks(t) == ((t - epoch(t) * t_h) * blocks_per_halving) \div t_h

scheduled_supply_at(t) ==
    IF t = 0 THEN 0
    ELSE IF epoch(t) >= 64 THEN supply_cap
    ELSE LET s == cumulative(epoch(t)) + reward_of_epoch(epoch(t)) * partial_blocks(t)
         IN IF s < supply_cap THEN s ELSE supply_cap

\* epoch_reward in current_reward_with_height
epoch_reward(t) == reward_of_epoch(epoch(t))
=============================================================================
