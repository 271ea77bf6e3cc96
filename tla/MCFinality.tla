----------------------------- MODULE MCFinality -----------------------------
(* Epoch 1: three of four with one validator, z, that signs anything; a round at every
   height.  Epoch 2: two of two, one of them with a scheme that does not aggregate; a round
   at every other height. *)
EXTENDS Finality, TLC

CONSTANTS h1, h2, h3, z, out, x, y

Member(id, algo) == [validator_id |-> id, sig_algo |-> algo]
MCCommittees ==
    <<[epoch |-> 1, epoch_blocks |-> 1, quorum |-> 3,
       members |-> <<Member(h1, Bls), Member(h2, Bls), Member(h3, Bls), Member(z, Bls)>>],
      [epoch |-> 2, epoch_blocks |-> 2, quorum |-> 2,
       members |-> <<Member(h1, 2), Member(z, Bls)>>]>>

Vote(e, r, h, hash, id) ==
    [vote |-> [committee_epoch |-> e, round |-> r, block_height |-> h, block_hash |-> hash,
               validator_id |-> id],
     sig_algo |-> IF e = 2 /\ id = h1 THEN 2 ELSE Bls]
Cert(e, r, h, hash, votes) ==
    [committee_epoch |-> e, round |-> r, block_height |-> h, block_hash |-> hash, votes |-> votes]
By(e, r, h, hash, ids) == [k \in DOMAIN ids |-> Vote(e, r, h, hash, ids[k])]

Genuines == {Cert(1, r, r, hash, By(1, r, r, hash, ids)) :
                 r \in Heights, hash \in Hashes, ids \in {<<h1, h2, z>>, <<z, h3, h2>>}}
            \cup {Cert(2, 1, 2, hash, By(2, 1, 2, hash, <<h1, z>>)) : hash \in Hashes}

\* A repeated, a missing and a foreign voter; votes for another hash, height, round or epoch;
\* a round that does not belong to the height; the scheme of another epoch.
Flawed ==
    {Cert(1, 1, 1, x, By(1, 1, 1, x, ids)) : ids \in {<<z, h1, z>>, <<h1, z>>, <<h1, z, out>>}}
    \cup {Cert(1, 1, 1, x, <<Vote(1, 1, 1, x, z), v, Vote(1, 1, 1, x, h2)>>) :
            v \in {Vote(1, 1, 1, y, h1), Vote(1, 1, 2, x, h1), Vote(1, 2, 2, x, h1),
                   Vote(2, 1, 1, x, h1), [Vote(1, 1, 1, x, h1) EXCEPT !.sig_algo = 2]}}
    \cup {Cert(1, 1, 1, x, By(1, 1, 1, y, <<h1, h2, z>>)), Cert(1, 1, 2, x, By(1, 1, 1, x, <<h1, h2, z>>)),
          Cert(1, 1, 2, x, By(1, 1, 2, x, <<h1, h2, z>>)), Cert(2, 1, 2, x, By(1, 1, 2, x, <<h1, z>>))}

MCCerts == Genuines \cup Flawed

\* Bit 7 is of no member; the last two are of an epoch that cannot aggregate, and unsigned.
Agg(e, r, bits, ids) ==
    [committee_epoch |-> e, round |-> r, block_height |-> r * e, block_hash |-> x,
     signer_bitmap |-> bits, agg_sig_algo |-> Bls, aggregates |-> ids]
MCAggCerts ==
    {Agg(1, 1, {0, 1, 3}, {h1, h2, z}), Agg(1, 1, {0, 1, 3}, {h1, h3, z}), Agg(1, 1, {0, 3}, {h1, z}),
     Agg(1, 1, {0, 3, 7}, {h1, z}), Agg(1, 1, {5, 6, 7}, {}), Agg(2, 1, {0, 1}, {h1, z}),
     [Agg(1, 1, {0, 1, 3}, {h1, h2, z}) EXCEPT !.agg_sig_algo = 2]}
=============================================================================
