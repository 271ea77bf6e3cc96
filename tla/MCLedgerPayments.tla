-------------------------- MODULE MCLedgerPayments --------------------------
(* Payments between two accounts with one key each, and blocks of up to two transactions:
   first use with an inline key, later use of the known key, replayed and future nonces,
   overspending, self-transfer, a foreign key, a witness that does not match. *)
EXTENDS Ledger, TLC

CONSTANTS a, b, ka, kb, alg, alg2, j1

MCDerive == (ka :> a) @@ (kb :> b)

Base == [kind |-> "Transfer", to |-> a, amount |-> 0, job |-> j1, item |-> 1, cage |-> TRUE,
         coordinators |-> {}, target_height |-> 0, sig_algo |-> alg, hash_algo |-> alg,
         config |-> None]

Pay(to, amount) == [Base EXCEPT !.to = to, !.amount = amount]

Inline(k) == [inline |-> TRUE, key |-> k, sig_algo |-> alg, signed_by |-> k, signed_algo |-> alg]
Known(k) == [inline |-> FALSE, key |-> NoKey, sig_algo |-> alg, signed_by |-> k, signed_algo |-> alg]

Tx(from, nonce, fee, c, w) ==
    [from_account |-> from, nonce |-> nonce, fee_sat |-> fee, call |-> c, gov_proof |-> None,
     witness |-> w, witness_hash_ok |-> TRUE]

MCTxs ==
    {Tx(a, 0, 1, Pay(b, 1), Inline(ka)), Tx(a, 0, 0, Pay(b, 2), Inline(ka)),
     Tx(a, 1, 0, Pay(b, 1), Known(ka)), Tx(a, 1, 1, Pay(a, 1), Known(ka)),
     Tx(b, 0, 1, Pay(a, 2), Inline(kb)), Tx(b, 0, 0, Pay(a, 1), Inline(ka)),
     Tx(a, 0, 1, [Base EXCEPT !.kind = "AttestRound"], Known(kb)),
     Tx(a, 1, 1, [Base EXCEPT !.kind = "AttestPedigree", !.cage = FALSE], Known(ka)),
     Tx(b, 0, 0, [Base EXCEPT !.kind = "DeployContract"], Inline(kb)),
     Tx(b, 0, 1, Pay(b, 7), [Inline(kb) EXCEPT !.sig_algo = alg2]),
     [Tx(b, 0, 0, Pay(a, 1), Inline(kb)) EXCEPT !.witness = None],
     [Tx(b, 0, 0, Pay(a, 1), Inline(kb)) EXCEPT !.witness_hash_ok = FALSE]}

MCBodies == {<< >>} \cup {<<t>> : t \in MCTxs} \cup {<<t, u>> : t \in MCTxs, u \in MCTxs}
MCGenesis == {[genesis_committee |-> << >>, threshold |-> 0, epoch |-> 0]}
=============================================================================
