----------------------------- MODULE Consensus ------------------------------
(***************************************************************************)
(* The consensus crate as a chain of blocks drives it: the timestamp of a  *)
(* block decides its reward (module Emission) and its bits (module         *)
(* Difficulty), and both carry state from block to block.  try_apply_block *)
(* and the self-miner derive the bits of a child from its parent; a child  *)
(* whose parent's target is below 2^128 makes asert_target panic.          *)
(***************************************************************************)
EXTENDS Emission, Difficulty

CONSTANTS InitialBits   \* initial_bits that a genesis.toml may have

ASSUME InitialAssumption == InitialBits \subseteq [exponent : Nat, mantissa : Nat]

VARIABLES
    bits,     \* bits of the tip
    alive     \* FALSE once the thread that asked for the next bits has panicked

chain == <<vars, bits, alive>>

ChainInit == Init /\ bits \in InitialBits /\ alive = TRUE

Panics == tau_ms(height + 1) # 0 /\ ClampPanics(hi(target_from_bits(bits)))

\* A block with timestamp t is mined and applied.
Extend(t) ==
    /\ alive /\ ~ Panics
    /\ Mine(t)
    /\ bits' = next_bits_from_parent(bits, height, t - ts)
    /\ alive' = alive

Panic ==
    /\ alive /\ height < MaxHeight /\ Panics
    /\ alive' = FALSE
    /\ UNCHANGED <<vars, bits>>

ChainNext == (\E t \in ts .. MaxTime : Extend(t)) \/ Panic
ChainSpec == ChainInit /\ [][ChainNext]_chain

-----------------------------------------------------------------------------
(* Properties of the difficulty. *)

Target(b) == Value(target_from_bits(b), Byte)

\* The weight of the mantissa's last byte: what compact bits cannot express is below it.
Ulp(b) == Power(Byte, AtLeast(b.exponent - 3, 0))

\* Targets up to the one from which hi.saturating_mul(mult_q16) saturates: 2^112 in the high
\* half, the target of initial_bits = 0x1f00ffff in genesis.toml.
BelowCeiling(b) == hi(target_from_bits(b)) \in 1 .. (Half - 1) \div Q

\* A chain that starts at or below the ceiling stays there: its target is never zero, no
\* thread panics, and its bits survive the round trip that pow.rs:42-43 states.
CeilingHolds ==
    [][BelowCeiling(bits) =>
          /\ alive' /\ BelowCeiling(bits')
          /\ height' > height => bits_from_target(target_from_bits(bits')) = bits']_chain

\* Below the ceiling one block moves the target by at most 8 percent, within the precision of
\* compact bits (asert.rs:39-40: "difficulty cannot halve or double in a single block").
StepWithin8Percent ==
    [][BelowCeiling(bits) /\ height' > height =>
          /\ Target(bits') * 100 <= Target(bits) * 108
          /\ (Target(bits') + Ulp(bits') + Half) * 108 >= Target(bits) * 100]_chain

\* Below the ceiling a block on schedule leaves the target alone, an early one never makes
\* mining easier and a late one never harder, whatever is rounded (asert.rs:22-25).
FollowsSchedule ==
    [][BelowCeiling(bits) /\ height' > height =>
          /\ ts' - ts = spacing => Target(bits') = Target(bits)
          /\ ts' - ts < spacing => Target(bits') <= Target(bits)
          /\ ts' - ts > spacing => Target(bits') >= Target(bits)]_chain

\* The limb arithmetic of bitcoin_retarget computes old * actual / expected, exactly and without
\* wrapping (retarget.rs:15-16: "Full 256-bit big-integer arithmetic, no truncation").  It
\* depends on no block, so it is asked once, where the chain starts.
RetargetExact ==
    height = 0 =>
        \A old \in [1 .. 4 -> 0 .. Limb - 1], actual, expected \in 0 .. Limb - 1 :
            Value(bitcoin_retarget(old, actual, expected), Limb) =
                IF expected = 0 THEN Value(old, Limb)
                ELSE AtMost((Value(old, Limb) * clamp_retarget(actual, expected)) \div expected,
                            Value(MaxTarget, Limb))
=============================================================================
