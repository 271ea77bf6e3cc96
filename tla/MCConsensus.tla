---------------------------- MODULE MCConsensus -----------------------------
(* A reward of 16, four blocks to a halving, a block every two time units: the supply tends
   to 128.  Bytes of five bits and targets of six bytes put the ceiling at 255 in the high
   half, and keep 2^16 of the multiplier above 108 percent, as in the code.  Genesis bits at
   the ceiling (as genesis.toml has them), where the sign bit forces a shift, near the lowest
   high half, above the ceiling, and below the high half. *)
EXTENDS Consensus, EmissionSchedule
MCInitialBits == {[exponent |-> 5, mantissa |-> 8160], [exponent |-> 5, mantissa |-> 560],
                  [exponent |-> 4, mantissa |-> 2048], [exponent |-> 6, mantissa |-> 12000],
                  [exponent |-> 3, mantissa |-> 9000]}
=============================================================================
