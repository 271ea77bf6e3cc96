------------------------------- MODULE MCNode -------------------------------
(* Transactions 1 and 2 have different senders; 3 is the next one of the sender of 1, 4 is
   transfer 1 in its other form, 5 another transfer with the nonce of 1, and 6 one with that
   nonce whose effect is refused.  All blocks pay alice, who can send once a reward was paid; bob
   can when one of her transfers has paid him; or everybody can.  In the race the effect of 1 is
   refused at one height and not at another, as that of a rotation or a proposal is.  Rewards
   follow a schedule of one unit per time step, at most one for each step since the parent, and
   fall by at most one from block to block; the difficulty moves with every block, or never. *)
EXTENDS Queries
CONSTANTS alice, bob
MCSender == [h \in Hashes |-> IF h = 2 THEN bob ELSE alice]
MCNonce == [h \in Hashes |-> IF h = 3 THEN 1 ELSE 0]
MCKnownForm == [h \in Hashes |-> IF h = 1 /\ 4 \in Hashes THEN 4 ELSE h]
MCFee == [h \in Hashes |-> h]
MCCovers(s, h) == IF Sender[h] = bob THEN s.nonce[alice] > 0 ELSE s.issued > 0
MCFunded(s, h) == TRUE
MCEffectFails(s, txs, k) == txs[k] = 6
MCOnceRefused(s, txs, k) == txs[k] = 1 /\ Len(s.applied) = 2
MCReward(ts, pts, m, height, p) ==
    LET owed == IF ts > GenesisTime + m THEN ts - GenesisTime - m ELSE 0
        elapsed == IF ts > pts THEN ts - pts ELSE 1
        capped == IF owed < elapsed THEN owed ELSE elapsed
    IN IF p \notin {None, 0} /\ capped < p - 1 THEN p - 1 ELSE capped
MCSteadyBits(bits, pts, ts) == bits
MCNextBits(bits, pts, ts) == bits + 1
=============================================================================
