----------------------------- MODULE Difficulty -----------------------------
(***************************************************************************)
(* The difficulty of a block: compact bits (crates/consensus/src/pow.rs),  *)
(* the per-block ASERT rule (asert.rs) and the Bitcoin retarget on limbs   *)
(* (retarget.rs).  A target is a big-endian sequence of bytes, as in the   *)
(* code; the width of a byte, of the target, of a limb and of the fixed-   *)
(* point multiplier are constants, so that a small instance meets the      *)
(* edges the real widths have.  Compact bits are the pair of exponent and  *)
(* mantissa that the code packs into a u32.                                *)
(***************************************************************************)
EXTENDS Integers, Sequences

CONSTANTS
    Byte,               \* values of a byte (256)
    N,                  \* bytes of a target (32)
    Q,                  \* one, in the fixed point of pow2_q16 (65536)
    LN2,                \* LN2_Q16 (45426)
    spacing,            \* target_block_time_ms
    boot_height,        \* bootstrap_height
    boot_tau, tau,      \* bootstrap_asert_tau_ms, asert_tau_ms
    Limb                \* values of a limb, and of a timespan, in retarget.rs (2^64)

ASSUME WidthAssumption == /\ Byte \in Nat \ {0, 1} /\ N \in Nat \ {0, 1, 2} /\ N % 2 = 0
                          /\ Q \in Nat \ {0} /\ LN2 \in 0 .. Q /\ Limb \in Nat \ {0, 1}
\* The sign is one bit of a byte; a high half that the multiplier may scale fits times 108 too.
ASSUME BitAssumption == Byte % 2 = 0 /\ Q >= 108
ASSUME AsertAssumption == spacing \in Nat /\ boot_height \in Nat /\ boot_tau \in Nat /\ tau \in Nat

Zero == [k \in 1 .. N |-> 0]
\* The number that a big-endian sequence of digits stands for.
Value(s, base) == LET V[k \in 0 .. Len(s)] == IF k = 0 THEN 0 ELSE V[k - 1] * base + s[k]
                  IN V[Len(s)]
\* base to the n, as a recursive function, which a proof can unfold.
Power(base, n) == LET P[k \in 0 .. n] == IF k = 0 THEN 1 ELSE P[k - 1] * base IN P[n]
\* The digit at position k of len, counted from the most significant one.
Digit(v, base, len, k) == (v \div Power(base, len - k)) % base

-----------------------------------------------------------------------------
(* pow.rs.  The mantissa has three bytes, and its highest bit is a sign. *)

Sign == Power(Byte, 3) \div 2

\* target_from_bits: bytes of the mantissa that fall off the low end are dropped.
target_from_bits(b) ==
    IF b.exponent = 0 \/ b.exponent > N THEN Zero
    ELSE [k \in 1 .. N |-> LET j == k - (N - b.exponent)
                           IN IF j \in 1 .. 3 THEN Digit(b.mantissa % Sign, Byte, 3, j) ELSE 0]

\* leading_zeros of a target that is not zero
leading_zeros(t) == CHOOSE z \in 0 .. N - 1 : t[z + 1] # 0 /\ \A k \in 1 .. z : t[k] = 0

\* The three bytes from the first that is not zero.
leading(t) == LET z == leading_zeros(t)
                  byte(k) == IF z + k <= N THEN t[z + k] ELSE 0
              IN (byte(1) * Byte + byte(2)) * Byte + byte(3)

\* Mutant: a mantissa with the sign bit set is not shifted.
bits_from_target_keeps_sign(t) ==
    IF t = Zero THEN [exponent |-> 0, mantissa |-> 0]
    ELSE [exponent |-> N - leading_zeros(t), mantissa |-> leading(t) % Sign]

bits_from_target(t) ==
    IF t = Zero THEN [exponent |-> 0, mantissa |-> 0]
    ELSE IF leading(t) >= Sign
    THEN [exponent |-> N - leading_zeros(t) + 1, mantissa |-> leading(t) \div Byte]
    ELSE [exponent |-> N - leading_zeros(t), mantissa |-> leading(t)]

-----------------------------------------------------------------------------
(* asert.rs *)

\* Division of the code: toward zero.  The shift of a negative number rounds down, as \div.
Quotient(a, b) == IF a >= 0 THEN a \div b ELSE -((-a) \div b)
AtLeast(a, b) == IF a > b THEN a ELSE b
AtMost(a, b) == IF a < b THEN a ELSE b

\* Mutant: the exponent has the wrong sign.
pow2_q16_negated(num, den) == Q - (Quotient(num * Q, AtLeast(den, 1)) * LN2) \div Q

\* 2^(num/den) in fixed point, by its linear approximation around 1
pow2_q16(num, den) == Q + (Quotient(num * Q, AtLeast(den, 1)) * LN2) \div Q

Half == Power(Byte, N \div 2)
hi(t) == Value(SubSeq(t, 1, N \div 2), Byte)
\* saturating_mul on u128, here on half a target
Saturated(x) == AtMost(x, Half - 1)

\* Mutant: the upper clamp is missing.
clamped_above_free(h, raw) == AtLeast(raw, AtLeast(Saturated(h * 100) \div 108, 1))

\* The clamp to 8 percent around the parent; clamp panics when its bounds are out of order.
clamped(h, raw) ==
    AtMost(AtLeast(raw, AtLeast(Saturated(h * 100) \div 108, 1)), Saturated(h * 108) \div 100)
ClampPanics(h) == AtLeast(Saturated(h * 100) \div 108, 1) > Saturated(h * 108) \div 100

\* asert_target for a child dt after its parent: only the high half is scaled.
asert_target(b, dt, t) ==
    LET anchor == target_from_bits(b)
        mult == pow2_q16(dt - spacing, t)
        raw == IF mult < 0 THEN 0 ELSE AtLeast(Saturated(hi(anchor) * mult) \div Q, 1)
        new == clamped(hi(anchor), raw)
    IN IF t = 0 THEN anchor
       ELSE [k \in 1 .. N |-> IF k <= N \div 2 THEN Digit(new, Byte, N \div 2, k) ELSE anchor[k]]

tau_ms(h) == IF h < boot_height THEN boot_tau ELSE tau
next_bits_from_parent(b, h, dt) == bits_from_target(asert_target(b, dt, tau_ms(h + 1)))

-----------------------------------------------------------------------------
(* retarget.rs: four limbs of old_target, most significant first, and timespans of a limb. *)

\* clamp_retarget; saturating_mul
clamp_retarget(actual, expected) ==
    AtMost(AtLeast(actual, expected \div 4), AtMost(expected * 4, Limb - 1))

\* Mutant: the carry into the next limb is forgotten.
mul_u256_u64_no_carry(a, b) ==
    [k \in 1 .. 5 |-> IF k = 1 THEN 0 ELSE (a[k - 1] * b) % Limb]

\* mul_u256_u64: from the low limb up, P[k] is the product at limb k with the carry from k + 1.
mul_u256_u64(a, b) ==
    LET P[k \in 1 .. 5] == IF k = 5 THEN 0 ELSE a[k] * b + P[k + 1] \div Limb
    IN [k \in 1 .. 5 |-> IF k = 1 THEN P[1] \div Limb ELSE P[k - 1] % Limb]

\* div_u320_u64: long division from the high limb down, with the remainder carried on.
div_u320_u64(num, d) ==
    LET acc[k \in 0 .. 5] == IF k = 0 THEN 0 ELSE (acc[k - 1] % d) * Limb + num[k]
    IN [k \in 1 .. 5 |-> (acc[k] \div d) % Limb]

\* 2^256 - 1, where the new target saturates
MaxTarget == [k \in 1 .. 4 |-> Limb - 1]

bitcoin_retarget(old, actual, expected) ==
    LET quot == div_u320_u64(mul_u256_u64(old, clamp_retarget(actual, expected)), expected)
    IN IF expected = 0 THEN old
       ELSE IF quot[1] # 0 THEN MaxTarget
       ELSE SubSeq(quot, 2, 5)
=============================================================================
