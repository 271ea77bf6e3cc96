------------------------- MODULE MCLedgerGovernance -------------------------
(* Governed calls: a committee that is installed at genesis or by the first SetGovernance,
   rotations of the committee, coordinator registries and crypto rotations, with proofs that
   are missing, short, duplicated, by strangers, or made over another call. *)
EXTENDS Ledger, TLC

CONSTANTS a, b, ka, kb, alg, alg2, j1, s1, s2

MCDerive == (ka :> a) @@ (kb :> b)

Base == [kind |-> "AttestRound", to |-> a, amount |-> 0, job |-> j1, item |-> 1, cage |-> TRUE,
         coordinators |-> {}, target_height |-> 0, sig_algo |-> alg, hash_algo |-> alg,
         config |-> None]

Both == [epoch |-> 0, threshold |-> 2, signers |-> <<s1, s2>>]
Single == [epoch |-> 1, threshold |-> 1, signers |-> <<s2>>]
Twice == [epoch |-> 0, threshold |-> 2, signers |-> <<s1, s1>>]

Upgrade(t, x) == [Base EXCEPT !.kind = "UpgradeCrypto", !.target_height = t, !.sig_algo = x]
Register == [Base EXCEPT !.kind = "RegisterAttestCoordinator", !.coordinators = {a}]
SetGov(c) == [Base EXCEPT !.kind = "SetGovernance", !.config = c]
Sig(s, c) == [signer_id |-> s, over |-> c]

Governed(c) == {<<c, None>>, <<c, <<Sig(s2, c)>> >>, <<c, <<Sig(s1, c), Sig(s2, c)>> >>}

\* Proofs that repeat a signer or that were made over another call.
Flawed == {<<Register, <<Sig(s1, Register), Sig(s1, Register)>> >>,
           <<Upgrade(3, alg), <<Sig(s1, Upgrade(2, alg)), Sig(s2, Upgrade(3, alg))>> >>}

Acts == {<<Base, None>>, <<[Base EXCEPT !.kind = "AttestPedigree"], None>>,
         <<Upgrade(2, alg2), None>>, <<SetGov(None), None>>, <<SetGov(Twice), None>>}
        \cup Flawed \cup Governed(Register) \cup Governed(SetGov(Both)) \cup Governed(SetGov(Single))
        \cup UNION {Governed(Upgrade(t, alg)) : t \in {2, 3}}

Tx(from, k, nonce, act) ==
    [from_account |-> from, nonce |-> nonce, fee_sat |-> 0, call |-> act[1], gov_proof |-> act[2],
     witness |-> [inline |-> TRUE, key |-> k, sig_algo |-> alg, signed_by |-> k, signed_algo |-> alg],
     witness_hash_ok |-> TRUE]

\* The first of two transactions moves the committee, a registry or a rotation.
Firsts == {<<SetGov(Both), None>>, <<SetGov(Single), <<Sig(s1, SetGov(Single)), Sig(s2, SetGov(Single))>> >>,
           <<Register, None>>, <<Upgrade(3, alg), None>>}

MCBodies == {<< >>}
            \cup {<<Tx(b, kb, n, x)>> : n \in 0 .. 1, x \in Acts}
            \cup {<<Tx(a, ka, 0, x), Tx(b, kb, 0, y)>> : x \in Firsts, y \in Acts}
\* No committee; a two-of-two one by default; one that is rejected because it repeats a member,
\* and one because its threshold is out of reach.
File(members, t) == [genesis_committee |-> members, threshold |-> t, epoch |-> 0]
MCGenesis == {File(<< >>, 0), File(<<s1, s2>>, 0), File(<<s1, s1>>, 2), File(<<s2>>, 2)}
=============================================================================
