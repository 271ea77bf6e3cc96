------------------------------- MODULE Ledger -------------------------------
(***************************************************************************)
(* pygrove_state::apply_block (crates/state/src/apply.rs) and the account  *)
(* records it rewrites.  A block body is applied in the order of the code: *)
(* every transaction is validated against the store as it was before the   *)
(* block (pass 1), then every one is executed on the live store (pass 2),  *)
(* then the non-account effects run, then coinbase, reflection and crypto  *)
(* activation.  Each loop iteration is one action, so a block that fails   *)
(* in pass 2 or in the effects shows which writes are already in the store.*)
(* The store has one caller at a time (NodeState.state is a Mutex).        *)
(***************************************************************************)
EXTENDS Naturals, Sequences, FiniteSets, Sums

CONSTANTS
    Accounts,       \* 20-byte account ids
    Keys,           \* public key byte strings
    Derive,         \* AccountId::from_pubkey, a function from Keys to Accounts
    NoKey,          \* the empty pubkey of an account that never signed
    Algos,          \* sig_algo bytes
    AllowedAlgos,   \* pygrove_crypto::allowed_sig / allowed_hash of this build
    Jobs,           \* job ids of attestation rounds
    Items,          \* round ids and lot ids within a job
    Signers,        \* governance signer ids
    None,           \* Option::None
    Bodies,         \* block bodies that a miner may publish
    Miners,         \* accounts a block's coinbase may pay
    Rewards,        \* block rewards the emission schedule may hand over
    GenesisFiles,   \* committee, threshold and epoch that a genesis.toml may state
    MaxAmount,      \* u128::MAX
    MaxBlocks       \* bound: number of blocks applied

ASSUME KeyAssumption == Derive \in [Keys -> Accounts] /\ NoKey \notin Keys
ASSUME WidthAssumption == MaxAmount \in Nat /\ MaxBlocks \in Nat
ASSUME RewardAssumption == Rewards \subseteq Nat /\ Miners \subseteq Accounts

\* There are finitely many accounts, and until the last block all the money fits an amount:
\* heights and rewards are 64 bits wide, amounts 128.
ASSUME SupplyAssumption ==
    /\ IsFiniteSet(Accounts)
    /\ \E most \in Rewards : /\ \A r \in Rewards : r <= most
                            /\ \A n \in 0 .. MaxBlocks - 1 : n * most <= MaxAmount

Configs == [epoch : Nat, threshold : Nat, signers : Seq(Signers)]

(* TxCall: one record shape, every variant reads the fields it has. *)
Calls == [kind : {"Transfer", "AttestRound", "RegisterAttestCoordinator", "AttestPedigree",
                  "UpgradeCrypto", "SetGovernance", "DeployContract", "CallContract"},
          to : Accounts, amount : Nat, job : Jobs, item : Items, cage : BOOLEAN,
          coordinators : SUBSET Accounts, target_height : Nat, sig_algo : Algos,
          hash_algo : Algos, config : Configs \cup {None}]

(* A governance signature: who it claims to be from, and the payload it was made over. *)
Proofs == Seq([signer_id : Signers, over : Calls]) \cup {None}

(* PubKeyRef::Inline(key), or PubKeyRef::Known (key = NoKey).  signed_by is the key whose
   holder really produced sig over this transaction's signing hash, with signed_algo. *)
Witnesses == {w \in [inline : BOOLEAN, key : Keys \cup {NoKey}, sig_algo : Algos,
                     signed_by : Keys, signed_algo : Algos] : w.inline <=> w.key # NoKey}

Txs == [from_account : Accounts, nonce : Nat, fee_sat : Nat, call : Calls, gov_proof : Proofs,
        witness : Witnesses \cup {None}, witness_hash_ok : BOOLEAN]

Rotations == [sig_algo : Algos, hash_algo : Algos, activated_at_height : Nat]
ASSUME NoneAssumption == None \notin Rotations

ASSUME BodyAssumption == Bodies \subseteq Seq(Txs)

AttestKeys == {"AttestRound", "AttestPedigree"} \X Jobs \X Items

VARIABLES
    acct,         \* Subtree::Accounts: balance, nonce, pubkey and sig_algo of each account
    governance,   \* Meta/"governance": the committee, or None in bootstrap mode
    authority,    \* Meta/"attau"+job: coordinators of the job, or None
    attest,       \* Attest: who wrote the record of a (kind, job, item), and at which height
    pending,      \* Meta/"upgrade_crypto": announced rotation, or None
    active,       \* Meta/"active_crypto": active rotation, or None
    reflect,      \* Reflect/"block/"+height, by height; Reflect/"latest" is always reflect[height]
    pc, i,        \* where apply_block is, and the index of the loop it is in
    block,        \* the block being applied: txs, and the header's coinbase and height
    reward,       \* block_reward_sat, computed by the caller
    fees,         \* fees_total of pass 1
    height,       \* header.height of the last block applied
    result,       \* what the last call of apply_block returned
    blocks,       \* history: number of blocks applied
    minted,       \* history: sum of the rewards of the blocks applied
    held          \* history: fees debited and not paid to a miner

store == <<acct, governance, authority, attest, pending, active, reflect>>
call == <<pc, i, block, reward, fees>>
vars == <<store, call, height, result, blocks, minted, held>>

-----------------------------------------------------------------------------
(* Governance. *)

\* Mutant: a committee may list a signer twice.
validate_allows_duplicates(cfg) ==
    cfg.signers # << >> /\ cfg.threshold > 0 /\ cfg.threshold <= Len(cfg.signers)

\* GovernanceConfig::validate
validate(cfg) ==
    /\ cfg.signers # << >>
    /\ cfg.threshold > 0
    /\ cfg.threshold <= Len(cfg.signers)
    /\ \A j, k \in DOMAIN cfg.signers : cfg.signers[j] = cfg.signers[k] => j = k

\* A threshold of 0 was left out of the file and stands for all members; without members the
\* chain starts in bootstrap mode.
install_genesis_governance(g) ==
    IF g.genesis_committee = << >> THEN None
    ELSE [epoch |-> g.epoch, signers |-> g.genesis_committee,
          threshold |-> IF g.threshold = 0 THEN Len(g.genesis_committee) ELSE g.threshold]

ASSUME GenesisAssumption ==
    GenesisFiles \subseteq [genesis_committee : Seq(Signers), threshold : Nat, epoch : Nat]

Members(cfg) == {cfg.signers[j] : j \in DOMAIN cfg.signers}

\* The three *_gov_payload functions: the call's own fields under the call's domain tag.
payload(c) ==
    CASE c.kind = "UpgradeCrypto" -> <<c.kind, c.target_height, c.sig_algo, c.hash_algo>>
      [] c.kind = "RegisterAttestCoordinator" -> <<c.kind, c.job, c.coordinators>>
      [] c.kind = "SetGovernance" -> <<c.kind, c.config>>
      [] OTHER -> << >>

\* Mutant: a signature that repeats a signer counts again.
verify_counts_repeats(cfg, proof, c) ==
    Cardinality({k \in DOMAIN proof : /\ proof[k].signer_id \in Members(cfg)
                                      /\ payload(proof[k].over) = payload(c)}) >= cfg.threshold

\* verify_governance_proof: only the first signature of a signer id is looked at.
verify_governance_proof(cfg, proof, c) ==
    /\ Len(proof) >= cfg.threshold
    /\ Cardinality({k \in DOMAIN proof :
           /\ \A j \in 1 .. k - 1 : proof[j].signer_id # proof[k].signer_id
           /\ proof[k].signer_id \in Members(cfg)
           /\ payload(proof[k].over) = payload(c)}) >= cfg.threshold

\* The gate shared by the three governed calls: open in bootstrap mode.
GovernanceGate(tx) ==
    governance # None => /\ tx.gov_proof # None
                         /\ verify_governance_proof(governance, tx.gov_proof, tx.call)

load_attest_authority(job) == authority[job]

\* The registry gate shared by AttestRound and AttestPedigree.
CoordinatorGate(tx) ==
    LET coordinators == load_attest_authority(tx.call.job)
    IN coordinators # None => coordinators = {} \/ tx.from_account \in coordinators

\* The checks of the effects loop, by call.
EffectOk(tx) ==
    /\ tx.call.kind \in {"AttestRound", "AttestPedigree"} => CoordinatorGate(tx)
    /\ tx.call.kind = "AttestPedigree" => tx.call.cage
    /\ tx.call.kind = "UpgradeCrypto" =>
          tx.call.sig_algo \in AllowedAlgos /\ tx.call.hash_algo \in AllowedAlgos
    /\ tx.call.kind = "SetGovernance" => tx.call.config # None /\ validate(tx.call.config)
    /\ tx.call.kind \in {"RegisterAttestCoordinator", "UpgradeCrypto", "SetGovernance"} =>
          GovernanceGate(tx)

-----------------------------------------------------------------------------
(* Pass 1. *)

Amount(c) == IF c.kind = "Transfer" THEN c.amount ELSE 0
To(tx) == IF tx.call.kind = "Transfer" THEN tx.call.to ELSE tx.from_account

\* Mutant: the fee is not debited.
Required_without_fee(tx) == Amount(tx.call)

\* amount plus fee, checked_add
Required(tx) == Amount(tx.call) + tx.fee_sat

\* The key the witness names: its own bytes, or the account's stored ones.
pubkey_bytes(tx) == IF tx.witness.inline THEN tx.witness.key ELSE acct[tx.from_account].pubkey

\* crypto::verify
verify(tx) == /\ tx.witness.signed_by = pubkey_bytes(tx)
              /\ tx.witness.signed_algo = tx.witness.sig_algo

\* Mutant: an inline key need not derive to the sender.
KeyOk_without_derivation(tx) ==
    \/ tx.witness.inline
    \/ acct[tx.from_account].pubkey # NoKey /\ acct[tx.from_account].sig_algo = tx.witness.sig_algo

\* The match on PubKeyRef.
KeyOk(tx) ==
    IF tx.witness.inline
    THEN Derive[tx.witness.key] = tx.from_account
    ELSE /\ acct[tx.from_account].pubkey # NoKey
         /\ acct[tx.from_account].sig_algo = tx.witness.sig_algo

validate_tx(tx) ==
    /\ tx.witness # None
    /\ tx.witness_hash_ok
    /\ tx.call.kind \notin {"DeployContract", "CallContract"}
    /\ KeyOk(tx)
    /\ verify(tx)
    /\ tx.nonce = acct[tx.from_account].nonce
    /\ Required(tx) <= MaxAmount
    /\ Required(tx) <= acct[tx.from_account].balance

-----------------------------------------------------------------------------

(* apply_block *)

NoBlock == [txs |-> << >>, coinbase |-> None, height |-> 0]

Init ==
    /\ acct = [a \in Accounts |-> [balance |-> 0, nonce |-> 0, pubkey |-> NoKey, sig_algo |-> None]]
    /\ \E g \in GenesisFiles :   \* the node does not start with a committee it cannot validate
           /\ governance = install_genesis_governance(g)
           /\ governance # None => validate(governance)
    /\ authority = [j \in Jobs |-> None]
    /\ attest = [k \in AttestKeys |-> None]
    /\ pending = None
    /\ active = None
    /\ reflect = [h \in {} |-> << >>]
    /\ pc = "idle" /\ i = 1 /\ block = NoBlock /\ reward = 0 /\ fees = 0
    /\ height = 0 /\ result = "none"
    /\ blocks = 0 /\ minted = 0 /\ held = 0

\* return Err(..): whatever the call has written so far stays in the store.
ReturnErr ==
    /\ pc' = "idle" /\ i' = 1 /\ block' = NoBlock /\ reward' = 0 /\ fees' = 0
    /\ result' = "Err"
    /\ UNCHANGED <<store, height, blocks, minted, held>>

\* The end of one loop iteration: the next transaction, or the phase that follows the loop.
Advance(phase) ==
    IF i < Len(block.txs) THEN i' = i + 1 /\ pc' = pc
                          ELSE i' = 1 /\ pc' = phase

\* The heights a header can have: one more than the last block's in the log, which is the last
\* block applied, or its parent when the append failed or another publisher was on the same parent.
NextHeights == {height, height + 1} \ {0}

Begin(txs, coinbase, h, r) ==
    /\ pc = "idle" /\ blocks < MaxBlocks
    /\ block' = [txs |-> txs, coinbase |-> coinbase, height |-> h]
    /\ reward' = r /\ fees' = 0 /\ i' = 1
    /\ pc' = IF txs = << >> THEN "finish" ELSE "validate"
    /\ result' = "none"
    /\ UNCHANGED <<store, height, blocks, minted, held>>

ValidateTx ==
    /\ pc = "validate"
    /\ validate_tx(block.txs[i])
    /\ fees + block.txs[i].fee_sat <= MaxAmount
    /\ fees' = fees + block.txs[i].fee_sat
    /\ Advance("apply")
    /\ UNCHANGED <<store, block, reward, height, result, blocks, minted, held>>

RejectTx ==
    /\ pc = "validate"
    /\ ~ (validate_tx(block.txs[i]) /\ fees + block.txs[i].fee_sat <= MaxAmount)
    /\ ReturnErr

\* Mutant: pass 2 looks at the balance only.
StillApplies_without_nonce(tx) == acct[tx.from_account].balance >= Required(tx)

\* Pass 2 loads the sender again: an earlier transaction may have changed it.
StillApplies(tx) ==
    /\ acct[tx.from_account].nonce = tx.nonce
    /\ acct[tx.from_account].balance >= Required(tx)

\* Mutant: the sender's nonce is not consumed.
Debited_keeps_nonce(tx) ==
    [acct EXCEPT ![tx.from_account] =
        [@ EXCEPT !.balance = @ - Required(tx),
                  !.pubkey = IF @ = NoKey THEN tx.witness.key ELSE @]]

\* The sender's record after its transaction: the first one commits its key.
Debited(tx) ==
    [acct EXCEPT ![tx.from_account] =
        [balance  |-> @.balance - Required(tx),
         nonce    |-> @.nonce + 1,
         pubkey   |-> IF @.pubkey = NoKey THEN tx.witness.key ELSE @.pubkey,
         sig_algo |-> IF @.pubkey = NoKey THEN tx.witness.sig_algo ELSE @.sig_algo]]

SaturatingAdd(x, y) == IF x + y <= MaxAmount THEN x + y ELSE MaxAmount

\* The recipient is loaded after the sender is saved, so a self-transfer sees its own debit.
ExecuteTx ==
    /\ pc = "apply"
    /\ LET tx == block.txs[i] IN
        /\ StillApplies(tx)
        /\ acct' = [Debited(tx) EXCEPT ![To(tx)].balance = SaturatingAdd(@, Amount(tx.call))]
        /\ held' = held + tx.fee_sat
    /\ Advance("effects")
    /\ UNCHANGED <<governance, authority, attest, pending, active, reflect,
                   block, reward, fees, height, result, blocks, minted>>

AbortTx == pc = "apply" /\ ~ StillApplies(block.txs[i]) /\ ReturnErr

AttestEffect ==
    /\ pc = "effects"
    /\ LET tx == block.txs[i] IN
        /\ tx.call.kind \in {"AttestRound", "AttestPedigree"} /\ EffectOk(tx)
        /\ attest' = [attest EXCEPT ![<<tx.call.kind, tx.call.job, tx.call.item>>] =
                        [by |-> tx.from_account, at |-> block.height]]
    /\ Advance("finish")
    /\ UNCHANGED <<acct, governance, authority, pending, active, reflect,
                   block, reward, fees, height, result, blocks, minted, held>>

RegisterEffect ==
    /\ pc = "effects"
    /\ LET tx == block.txs[i] IN
        /\ tx.call.kind = "RegisterAttestCoordinator" /\ EffectOk(tx)
        /\ authority' = [authority EXCEPT ![tx.call.job] = tx.call.coordinators]
    /\ Advance("finish")
    /\ UNCHANGED <<acct, governance, attest, pending, active, reflect,
                   block, reward, fees, height, result, blocks, minted, held>>

UpgradeEffect ==
    /\ pc = "effects"
    /\ LET tx == block.txs[i] IN
        /\ tx.call.kind = "UpgradeCrypto" /\ EffectOk(tx)
        /\ pending' = [target_height |-> tx.call.target_height, sig_algo |-> tx.call.sig_algo,
                       hash_algo |-> tx.call.hash_algo, announced_at_height |-> block.height]
    /\ Advance("finish")
    /\ UNCHANGED <<acct, governance, authority, attest, active, reflect,
                   block, reward, fees, height, result, blocks, minted, held>>

SetGovernanceEffect ==
    /\ pc = "effects"
    /\ LET tx == block.txs[i] IN
        /\ tx.call.kind = "SetGovernance" /\ EffectOk(tx)
        /\ governance' = tx.call.config
    /\ Advance("finish")
    /\ UNCHANGED <<acct, authority, attest, pending, active, reflect,
                   block, reward, fees, height, result, blocks, minted, held>>

TransferEffect ==
    /\ pc = "effects" /\ block.txs[i].call.kind = "Transfer"
    /\ Advance("finish")
    /\ UNCHANGED <<store, block, reward, fees, height, result, blocks, minted, held>>

\* An effect whose checks fail: accounts are already debited and credited.
RejectEffect == pc = "effects" /\ ~ EffectOk(block.txs[i]) /\ ReturnErr

TotalMinted == reward + fees

\* checked_add on the miner's balance
MinerOverflow == acct[block.coinbase].balance + TotalMinted > MaxAmount
Senders(txs) == {txs[k].from_account : k \in DOMAIN txs}

\* The fields of a Reflection that depend on the body and the reward.
Reflection ==
    [active_addresses |-> Cardinality(Senders(block.txs)), fee_sum |-> fees,
     emission |-> TotalMinted]

\* Mutant: activation compares with the height before the block.
Activated_late ==
    IF pending # None /\ pending.target_height = height
    THEN [sig_algo |-> pending.sig_algo, hash_algo |-> pending.hash_algo,
          activated_at_height |-> block.height]
    ELSE active

\* A pending rotation becomes active in the block at its target height, and only there.
Activated ==
    IF pending # None /\ pending.target_height = block.height
    THEN [sig_algo |-> pending.sig_algo, hash_algo |-> pending.hash_algo,
          activated_at_height |-> block.height]
    ELSE active

\* Coinbase, reflection record, activation of a rotation that targets this height.  The record is
\* put at the header's height, over the one of an earlier block of that height.
Finish ==
    /\ pc = "finish" /\ ~ MinerOverflow
    /\ acct' = [acct EXCEPT ![block.coinbase].balance = @ + TotalMinted]
    /\ reflect' = [h \in DOMAIN reflect \cup {block.height} |->
                      IF h = block.height THEN Reflection ELSE reflect[h]]
    /\ active' = Activated
    /\ height' = block.height /\ blocks' = blocks + 1
    /\ minted' = minted + reward /\ held' = held - fees
    /\ pc' = "idle" /\ i' = 1 /\ block' = NoBlock /\ reward' = 0 /\ fees' = 0
    /\ result' = "Ok"
    /\ UNCHANGED <<governance, authority, attest, pending>>

CoinbaseOverflow == pc = "finish" /\ MinerOverflow /\ ReturnErr

Next ==
    \/ \E txs \in Bodies, coinbase \in Miners, h \in NextHeights, r \in Rewards :
           Begin(txs, coinbase, h, r)
    \/ ValidateTx \/ RejectTx \/ ExecuteTx \/ AbortTx
    \/ AttestEffect \/ RegisterEffect \/ UpgradeEffect \/ SetGovernanceEffect
    \/ TransferEffect \/ RejectEffect \/ Finish \/ CoinbaseOverflow

Spec == Init /\ [][Next]_vars

-----------------------------------------------------------------------------
(* Properties. *)

Called == [txs : Bodies, coinbase : Miners, height : Nat \ {0}]

\* Every variable has the type of the record or local it stands for.
TypeOK ==
    /\ acct \in [Accounts -> [balance : 0 .. MaxAmount, nonce : Nat, pubkey : Keys \cup {NoKey},
                              sig_algo : Algos \cup {None}]]
    /\ governance \in Configs \cup {None}
    /\ authority \in [Jobs -> (SUBSET Accounts) \cup {None}]
    /\ attest \in [AttestKeys -> [by : Accounts, at : Nat] \cup {None}]
    /\ pending \in [target_height : Nat, sig_algo : Algos, hash_algo : Algos,
                    announced_at_height : Nat] \cup {None}
    /\ active \in Rotations \cup {None}
    /\ reflect \in [DOMAIN reflect -> [active_addresses : Nat, fee_sum : Nat, emission : Nat]]
    /\ DOMAIN reflect \subseteq 1 .. height
    /\ pc \in {"idle", "validate", "apply", "effects", "finish"}
    /\ block \in Called \cup {NoBlock}
    /\ pc # "idle" => block \in Called /\ block.height \in {height, height + 1}
    /\ i \in Nat
    /\ pc \in {"validate", "apply", "effects"} => i \in DOMAIN block.txs
    /\ reward \in Nat /\ fees \in Nat /\ height \in Nat
    /\ blocks \in 0 .. MaxBlocks /\ (pc # "idle" => blocks < MaxBlocks)
    /\ result \in {"none", "Ok", "Err"}
    /\ minted \in Nat

TotalBalance == SumOf([a \in Accounts |-> acct[a].balance], Accounts)

\* Money is only made by coinbase: at every moment, the balances plus the fees that were
\* debited and not yet paid to a miner are exactly the sum of the rewards of applied blocks.
SupplyExact == TotalBalance + held = minted

\* Once an account has executed a transaction its committed key is one that derives to it,
\* so validate_tx's Known path checks later signatures against the owner's key.
KeyBinding == \A a \in Accounts :
    /\ acct[a].nonce > 0 => acct[a].pubkey # NoKey
    /\ acct[a].pubkey # NoKey => Derive[acct[a].pubkey] = a

\* tx really carries a signature, made for this transaction, by a key that derives to a.
SignedByOwner(tx, a) ==
    /\ tx.from_account = a
    /\ Derive[tx.witness.signed_by] = a
    /\ tx.witness.signed_algo = tx.witness.sig_algo

\* No balance goes down unless the owner signed a transaction of the current block with
\* exactly the account's nonce, and that nonce is consumed by the same write: a payment is
\* never taken without a signature and never taken twice, failed blocks included.
DebitAuthorised ==
    [][\A a \in Accounts : acct'[a].balance < acct[a].balance =>
          \E k \in DOMAIN block.txs :
             /\ SignedByOwner(block.txs[k], a)
             /\ acct[a].nonce = block.txs[k].nonce
             /\ acct'[a].nonce = block.txs[k].nonce + 1]_vars

\* Pass 1 runs on the store before the block and pass 2 on the live one, so a body that
\* survives both has at most one transaction per sender.
SenderOncePerBlock ==
    pc \in {"effects", "finish"} =>
        \A j, k \in DOMAIN block.txs :
            block.txs[j].from_account = block.txs[k].from_account => j = k

\* The committed committee can always reach its own threshold with distinct members.
CommitteeCanAct ==
    governance # None => /\ governance.threshold > 0
                         /\ Cardinality(Members(governance)) >= governance.threshold

\* Members of cfg that really signed call c in proof.
Endorsers(cfg, proof, c) ==
    {m \in Members(cfg) : \E k \in DOMAIN proof :
        proof[k].signer_id = m /\ payload(proof[k].over) = payload(c)}

\* With a committee in force, no step changes the committee, a coordinator registry or the
\* pending rotation unless threshold-many distinct members of the committee in force at
\* that step (not at the start of the block) signed exactly that change.
GovernedByCommittee ==
    [][governance # None /\ <<governance, authority, pending>>' # <<governance, authority, pending>> =>
          /\ block.txs[i].gov_proof # None
          /\ Cardinality(Endorsers(governance, block.txs[i].gov_proof, block.txs[i].call))
                >= governance.threshold]_vars

\* A rotation announced before its target height is active from that height on, unless a later
\* announcement replaced it, and never before; also when blocks repeat a height, or fail after
\* they announced it.
RotationOnTime ==
    pending # None /\ pending.announced_at_height < pending.target_height =>
        IF height >= pending.target_height
        THEN /\ active # None
             /\ active.activated_at_height = pending.target_height
             /\ active.sig_algo = pending.sig_algo /\ active.hash_algo = pending.hash_algo
        ELSE active # None => active.activated_at_height < pending.target_height
=============================================================================
