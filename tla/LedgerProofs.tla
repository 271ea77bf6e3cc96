---------------------------- MODULE LedgerProofs ----------------------------
(***************************************************************************)
(* Proofs about Ledger, for every set of accounts, keys, committees and    *)
(* bodies.  The inductive invariant adds to the type invariant what pass 1 *)
(* has established of the body (Vetted), and what pass 2 knows of the      *)
(* nonces of the transactions it has executed.                             *)
(***************************************************************************)
EXTENDS Ledger, Foundations, FunctionTheorems, TLAPS

-----------------------------------------------------------------------------
(* Types of the data. *)

(* What the fields of a transaction are. *)
LEMMA TxType ==
    ASSUME NEW tx \in Txs
    PROVE  /\ tx.from_account \in Accounts /\ tx.nonce \in Nat /\ tx.fee_sat \in Nat
           /\ tx.call \in Calls /\ tx.gov_proof \in Proofs
           /\ tx.witness \in Witnesses \cup {None}
  BY DEF Txs

(* What the fields of a call are. *)
LEMMA CallType ==
    ASSUME NEW c \in Calls
    PROVE  /\ c.to \in Accounts /\ c.amount \in Nat /\ c.job \in Jobs /\ c.item \in Items
           /\ c.coordinators \in SUBSET Accounts /\ c.target_height \in Nat
           /\ c.sig_algo \in Algos /\ c.hash_algo \in Algos /\ c.config \in Configs \cup {None}
  BY DEF Calls

(* Amounts are natural numbers and go to accounts. *)
LEMMA AmountType ==
    ASSUME NEW tx \in Txs
    PROVE  Amount(tx.call) \in Nat /\ To(tx) \in Accounts /\ Required(tx) \in Nat
  BY TxType, CallType DEF Amount, To, Required

(* What the fields of a witness are. *)
LEMMA WitnessType ==
    ASSUME NEW w \in Witnesses
    PROVE  /\ w.inline \in BOOLEAN /\ w.key \in Keys \cup {NoKey} /\ w.sig_algo \in Algos
           /\ w.signed_by \in Keys /\ w.signed_algo \in Algos
           /\ w.inline <=> w.key # NoKey
  BY DEF Witnesses

(* A block in progress is a sequence of transactions with a paying account. *)
LEMMA BlockType ==
    ASSUME NEW b \in Called
    PROVE  /\ b.txs \in Seq(Txs) /\ b.coinbase \in Accounts /\ b.height \in Nat \ {0}
           /\ DOMAIN b.txs = 1 .. Len(b.txs) /\ Len(b.txs) \in Nat
           /\ \A k \in DOMAIN b.txs : b.txs[k] \in Txs
  <1>1. b.txs \in Seq(Txs) /\ b.coinbase \in Accounts /\ b.height \in Nat \ {0}
    BY BodyAssumption, RewardAssumption DEF Called
  <1> QED BY <1>1

(* An interval of naturals has as many elements as its length. *)
LEMMA IntervalSize ==
    ASSUME NEW n \in Nat
    PROVE  IsFiniteSet(1 .. n) /\ Cardinality(1 .. n) = n
  <1>1. 1 \in Int /\ n \in Int /\ (1 > n => n = 0) /\ (n - 1) + 1 = n
    OBVIOUS
  <1>2. IsFiniteSet(1 .. n) /\ Cardinality(1 .. n) = IF 1 > n THEN 0 ELSE n - 1 + 1
    BY <1>1, FS_Interval
  <1> QED BY <1>1, <1>2

(* The image of the indices of a sequence is finite; it is as large as they are when no two
   indices have the same image. *)
LEMMA ImageOfSeq ==
    ASSUME NEW n \in Nat, NEW f, NEW T, f \in [1 .. n -> T], T = {f[k] : k \in 1 .. n}
    PROVE  /\ IsFiniteSet(T) /\ Cardinality(T) \in Nat
           /\ (\A j, k \in 1 .. n : f[j] = f[k] => j = k) => Cardinality(T) = n
  <1>1. IsFiniteSet(1 .. n) /\ Cardinality(1 .. n) = n
    BY IntervalSize
  <1>2. f \in Surjection(1 .. n, T)
    BY DEF Surjection
  <1>3. IsFiniteSet(T) /\ (Cardinality(T) = Cardinality(1 .. n) <=> f \in Injection(1 .. n, T))
    BY <1>1, <1>2, FS_Surjection
  <1>4. (\A j, k \in 1 .. n : f[j] = f[k] => j = k) => f \in Injection(1 .. n, T)
    BY DEF Injection, IsInjective
  <1> QED BY <1>1, <1>3, <1>4, FS_CardinalityType

-----------------------------------------------------------------------------
(* The inductive invariant. *)

(* What pass 1 has established of a transaction and no later write undoes: it carries a
   signature by a key of its sender, and the key that pass 2 would commit is that key. *)
Vetted(tx) ==
    /\ tx.witness \in Witnesses
    /\ Derive[tx.witness.signed_by] = tx.from_account
    /\ tx.witness.signed_algo = tx.witness.sig_algo
    /\ tx.witness.inline => Derive[tx.witness.key] = tx.from_account
    /\ ~ tx.witness.inline => acct[tx.from_account].pubkey # NoKey

(* In pass 1, the transactions looked at have the nonce of their sender. *)
PassOne ==
    pc = "validate" => \A k \in 1 .. i - 1 :
        /\ Vetted(block.txs[k])
        /\ block.txs[k].nonce = acct[block.txs[k].from_account].nonce

(* After pass 1, all transactions of a sender have the same nonce. *)
PassTwo ==
    pc \in {"apply", "effects", "finish"} => \A k \in DOMAIN block.txs :
        /\ Vetted(block.txs[k])
        /\ \A j \in DOMAIN block.txs :
              block.txs[j].from_account = block.txs[k].from_account =>
                  block.txs[j].nonce = block.txs[k].nonce

(* In pass 2, the transactions executed have used the nonce of their sender, so no two of
   them have the same sender. *)
Executed ==
    pc = "apply" => \A k \in 1 .. i - 1 :
        /\ acct[block.txs[k].from_account].nonce = block.txs[k].nonce + 1
        /\ \A j \in 1 .. i - 1 :
              block.txs[j].from_account = block.txs[k].from_account => j = k

IInv == TypeOK /\ KeyBinding /\ PassOne /\ PassTwo /\ Executed /\ SenderOncePerBlock

(* What start-up installs is a configuration. *)
LEMMA GenesisInstalled ==
    ASSUME NEW g \in GenesisFiles
    PROVE  install_genesis_governance(g) \in Configs \cup {None}
  <1>1. g.genesis_committee \in Seq(Signers) /\ g.threshold \in Nat /\ g.epoch \in Nat
    BY GenesisAssumption
  <1>2. Len(g.genesis_committee) \in Nat
    BY <1>1
  <1> QED BY <1>1, <1>2 DEF install_genesis_governance, Configs

(* Between calls and at the start, everything about the block in progress holds trivially. *)
LEMMA InitIInv == Init => IInv
  <1> SUFFICES ASSUME Init PROVE IInv
    OBVIOUS
  <1>1. TypeOK
    <2>1. governance \in Configs \cup {None}
      BY GenesisInstalled DEF Init
    <2>2. acct \in [Accounts -> [balance : 0 .. MaxAmount, nonce : Nat, pubkey : Keys \cup {NoKey},
                                sig_algo : Algos \cup {None}]]
      BY WidthAssumption DEF Init
    <2>3. attest \in [AttestKeys -> [by : Accounts, at : Nat] \cup {None}]
      BY DEF Init
    <2>4. authority \in [Jobs -> (SUBSET Accounts) \cup {None}]
      BY DEF Init
    <2>5. /\ reflect \in [DOMAIN reflect -> [active_addresses : Nat, fee_sum : Nat, emission : Nat]]
          /\ DOMAIN reflect \subseteq 1 .. height
      BY DEF Init
    <2>6. /\ pc = "idle" /\ i \in Nat /\ block = NoBlock /\ reward \in Nat /\ fees \in Nat
          /\ height \in Nat /\ blocks \in 0 .. MaxBlocks
          /\ result \in {"none", "Ok", "Err"} /\ minted \in Nat
      BY WidthAssumption DEF Init
    <2>7. pending = None /\ active = None
      BY DEF Init
    <2> QED BY <2>1, <2>2, <2>3, <2>4, <2>5, <2>6, <2>7 DEF TypeOK
  <1>2. KeyBinding
    BY DEF Init, KeyBinding
  <1>3. PassOne /\ PassTwo /\ Executed /\ SenderOncePerBlock
    BY DEF Init, PassOne, PassTwo, Executed, SenderOncePerBlock
  <1> QED BY <1>1, <1>2, <1>3 DEF IInv

(* A return to idle keeps the store's part of the invariant and empties the rest. *)
LEMMA ReturnErrIInv == IInv /\ ReturnErr => IInv'
  <1> SUFFICES ASSUME IInv, ReturnErr PROVE IInv'
    OBVIOUS
  <1> USE DEF ReturnErr, store
  <1>1. TypeOK'
    BY DEF IInv, TypeOK
  <1>2. KeyBinding'
    BY DEF IInv, KeyBinding
  <1>3. (PassOne /\ PassTwo /\ Executed /\ SenderOncePerBlock)'
    BY DEF PassOne, PassTwo, Executed, SenderOncePerBlock
  <1> QED BY <1>1, <1>2, <1>3 DEF IInv

(* The loop index stays within the body, and pc moves to the phase named. *)
LEMMA AdvanceType ==
    ASSUME TypeOK, pc \in {"validate", "apply", "effects"}, NEW phase, Advance(phase)
    PROVE  /\ block \in Called /\ i \in 1 .. Len(block.txs)
           /\ Len(block.txs) \in Nat /\ DOMAIN block.txs = 1 .. Len(block.txs)
           /\ block.txs[i] \in Txs
           /\ \/ i < Len(block.txs) /\ i' = i + 1 /\ pc' = pc
              \/ i = Len(block.txs) /\ i' = 1 /\ pc' = phase
           /\ i' \in 1 .. Len(block.txs)
  <1>1. block \in Called /\ i \in DOMAIN block.txs
    BY DEF TypeOK
  <1>2. DOMAIN block.txs = 1 .. Len(block.txs) /\ Len(block.txs) \in Nat /\ block.txs[i] \in Txs
    BY <1>1, BlockType
  <1> QED BY <1>1, <1>2 DEF Advance

(* A call starts with no transaction looked at. *)
LEMMA BeginIInv ==
    ASSUME IInv, NEW txs \in Bodies, NEW coinbase \in Miners, NEW h \in NextHeights,
           NEW r \in Rewards, Begin(txs, coinbase, h, r)
    PROVE  IInv'
  <1> USE DEF Begin, store
  <1>0. /\ block' \in Called /\ block'.txs = txs /\ block'.height \in {height, height + 1}
        /\ DOMAIN txs = 1 .. Len(txs) /\ Len(txs) \in Nat /\ (txs # << >> => Len(txs) > 0)
    <2>1. h \in Nat \ {0} /\ h \in {height, height + 1}
      BY DEF NextHeights, IInv, TypeOK
    <2> QED BY <2>1, BodyAssumption DEF Called
  <1>1. TypeOK'
    <2>1. pc' \in {"validate", "finish"} /\ (pc' = "validate" => i' \in DOMAIN block'.txs)
      BY <1>0
    <2>2. reward' \in Nat /\ fees' \in Nat /\ i' \in Nat /\ result' = "none"
      BY RewardAssumption
    <2>3. height' = height /\ blocks' \in 0 .. MaxBlocks /\ blocks' < MaxBlocks /\ minted' \in Nat
      BY DEF IInv, TypeOK
    <2> QED BY <1>0, <2>1, <2>2, <2>3 DEF IInv, TypeOK
  <1>2. KeyBinding'
    BY DEF IInv, KeyBinding
  <1>3. i' = 1 /\ pc' \in {"validate", "finish"} /\ (pc' = "finish" => block'.txs = << >>)
    BY <1>0
  <1>4. (PassOne /\ Executed)'
    BY <1>3 DEF PassOne, Executed
  <1>5. (PassTwo /\ SenderOncePerBlock)'
    BY <1>3 DEF PassTwo, SenderOncePerBlock
  <1> QED BY <1>1, <1>2, <1>4, <1>5 DEF IInv

(* A validated transaction is vetted: the stored key of a sender derives to it. *)
LEMMA ValidatedIsVetted ==
    ASSUME TypeOK, KeyBinding, NEW tx \in Txs, validate_tx(tx)
    PROVE  Vetted(tx) /\ tx.nonce = acct[tx.from_account].nonce
  <1>1. tx.witness \in Witnesses /\ tx.from_account \in Accounts
    BY TxType DEF validate_tx
  <1>2. tx.nonce = acct[tx.from_account].nonce
    BY DEF validate_tx
  <1>3. tx.witness.inline \in BOOLEAN /\ tx.witness.signed_algo = tx.witness.sig_algo
    BY <1>1, WitnessType DEF validate_tx, verify
  <1>4. CASE tx.witness.inline
    <2>1. Derive[tx.witness.key] = tx.from_account /\ tx.witness.signed_by = tx.witness.key
      BY <1>4 DEF validate_tx, KeyOk, verify, pubkey_bytes
    <2> QED BY <1>1, <1>2, <1>3, <1>4, <2>1 DEF Vetted
  <1>5. CASE ~ tx.witness.inline
    <2>1. /\ acct[tx.from_account].pubkey # NoKey
          /\ tx.witness.signed_by = acct[tx.from_account].pubkey
      BY <1>5 DEF validate_tx, KeyOk, verify, pubkey_bytes
    <2>2. Derive[acct[tx.from_account].pubkey] = tx.from_account
      BY <1>1, <2>1 DEF KeyBinding
    <2> QED BY <1>1, <1>2, <1>3, <1>5, <2>1, <2>2 DEF Vetted
  <1> QED BY <1>4, <1>5

(* Pass 1 leaves the accounts alone, so what it found of earlier transactions stays true. *)
LEMMA ValidateIInv == IInv /\ ValidateTx => IInv'
  <1> SUFFICES ASSUME IInv, ValidateTx PROVE IInv'
    OBVIOUS
  <1> DEFINE n == Len(block.txs)
  <1>0. TypeOK /\ KeyBinding /\ PassOne /\ pc = "validate" /\ Advance("apply")
    BY DEF IInv, ValidateTx
  <1>1. /\ block \in Called /\ i \in 1 .. n /\ n \in Nat
        /\ DOMAIN block.txs = 1 .. n /\ block.txs[i] \in Txs
        /\ \/ i < n /\ i' = i + 1 /\ pc' = "validate"
           \/ i = n /\ i' = 1 /\ pc' = "apply"
        /\ i' \in 1 .. n
    BY <1>0, AdvanceType
  <1>2. Vetted(block.txs[i]) /\ block.txs[i].nonce = acct[block.txs[i].from_account].nonce
    BY <1>0, <1>1, ValidatedIsVetted DEF ValidateTx
  <1>3. \A k \in 1 .. i : /\ Vetted(block.txs[k])
                          /\ block.txs[k].nonce = acct[block.txs[k].from_account].nonce
    BY <1>0, <1>1, <1>2 DEF PassOne
  <1>4. /\ UNCHANGED <<acct, governance, authority, attest, pending, active, reflect>>
        /\ UNCHANGED <<block, reward, height, result, blocks, minted>>
    BY DEF ValidateTx, store
  <1>5. TypeOK'
    <2>1. fees' \in Nat
      BY <1>0, <1>1, TxType DEF ValidateTx, TypeOK
    <2>2. i' \in Nat /\ pc' \in {"validate", "apply"} /\ i' \in DOMAIN block'.txs
      BY <1>1, <1>4
    <2> QED BY <1>0, <1>1, <1>4, <2>1, <2>2 DEF TypeOK
  <1>6. KeyBinding'
    BY <1>0, <1>4 DEF KeyBinding
  <1>7. \A tx : Vetted(tx)' <=> Vetted(tx)
    BY <1>4 DEF Vetted
  <1>8. PassOne'
    BY <1>1, <1>3, <1>4, <1>7 DEF PassOne
  <1>9. PassTwo'
    BY <1>1, <1>3, <1>4, <1>7 DEF PassTwo
  <1>10. Executed' /\ SenderOncePerBlock'
    BY <1>1 DEF Executed, SenderOncePerBlock
  <1> QED BY <1>5, <1>6, <1>8, <1>9, <1>10 DEF IInv

(* What one execution in pass 2 does to the accounts: the sender pays and uses its nonce and,
   if it has no key yet, gets the witness's; nobody else's nonce or key moves. *)
LEMMA ExecuteEffect ==
    ASSUME TypeOK, pc = "apply", ExecuteTx, NEW tx \in Txs, tx = block.txs[i], Vetted(tx)
    PROVE  /\ acct' \in [Accounts -> [balance : 0 .. MaxAmount, nonce : Nat,
                                      pubkey : Keys \cup {NoKey}, sig_algo : Algos \cup {None}]]
           /\ acct[tx.from_account].nonce = tx.nonce
           /\ acct'[tx.from_account].nonce = tx.nonce + 1
           /\ acct'[tx.from_account].pubkey = (IF acct[tx.from_account].pubkey = NoKey
                                               THEN tx.witness.key
                                               ELSE acct[tx.from_account].pubkey)
           /\ \A a \in Accounts \ {tx.from_account} :
                 /\ acct'[a].nonce = acct[a].nonce /\ acct'[a].pubkey = acct[a].pubkey
                 /\ acct'[a].balance >= acct[a].balance
  <1> DEFINE Rec == [balance : 0 .. MaxAmount, nonce : Nat, pubkey : Keys \cup {NoKey},
                     sig_algo : Algos \cup {None}]
             f == tx.from_account
             D == Debited(tx)
             t == To(tx)
             am == Amount(tx.call)
             d == [balance  |-> acct[f].balance - Required(tx), nonce |-> acct[f].nonce + 1,
                   pubkey   |-> IF acct[f].pubkey = NoKey THEN tx.witness.key ELSE acct[f].pubkey,
                   sig_algo |-> IF acct[f].pubkey = NoKey THEN tx.witness.sig_algo
                                ELSE acct[f].sig_algo]
  <1>1. f \in Accounts /\ t \in Accounts /\ am \in Nat /\ Required(tx) \in Nat /\ tx.nonce \in Nat
    BY TxType, AmountType
  <1>2. acct \in [Accounts -> Rec] /\ MaxAmount \in Nat
    BY WidthAssumption DEF TypeOK
  <1>3. /\ acct[f].nonce = tx.nonce /\ acct[f].balance >= Required(tx)
        /\ acct' = [D EXCEPT ![t].balance = SaturatingAdd(@, am)]
    BY DEF ExecuteTx, StillApplies
  <1>4. D = [acct EXCEPT ![f] = d]
    BY DEF Debited
  <1>5. acct[f] \in Rec
    BY <1>1, <1>2
  <1>6. tx.witness.key \in Keys \cup {NoKey} /\ tx.witness.sig_algo \in Algos
    BY WitnessType DEF Vetted
  <1>7. d \in Rec
    <2>1. acct[f].balance - Required(tx) \in 0 .. MaxAmount
      BY <1>1, <1>2, <1>3, <1>5
    <2> QED BY <1>5, <1>6, <2>1
  <1> HIDE DEF d, D, t, am, f
  <1>8. D \in [Accounts -> Rec] /\ D[f] = d /\ \A a \in Accounts \ {f} : D[a] = acct[a]
    BY <1>1, <1>2, <1>4, <1>7
  <1> DEFINE c == [D[t] EXCEPT !.balance = SaturatingAdd(@, am)]
  <1>9. acct' = [D EXCEPT ![t] = c]
    BY <1>3
  <1>10. D[t] \in Rec
    BY <1>1, <1>8
  <1>11. c \in Rec /\ c.nonce = D[t].nonce /\ c.pubkey = D[t].pubkey /\ c.balance >= D[t].balance
    <2>1. SaturatingAdd(D[t].balance, am) \in 0 .. MaxAmount
          /\ SaturatingAdd(D[t].balance, am) >= D[t].balance
      BY <1>1, <1>2, <1>10 DEF SaturatingAdd
    <2> QED BY <1>10, <2>1
  <1> HIDE DEF c
  <1>12. acct' \in [Accounts -> Rec] /\ acct'[t] = c /\ \A a \in Accounts \ {t} : acct'[a] = D[a]
    BY <1>1, <1>8, <1>9, <1>11
  <1>13. \A a \in Accounts : /\ acct'[a].nonce = D[a].nonce /\ acct'[a].pubkey = D[a].pubkey
                             /\ acct'[a].balance >= D[a].balance
    <2> TAKE a \in Accounts
    <2>1. CASE a = t
      BY <1>11, <1>12, <2>1
    <2>2. CASE a # t
      <3>1. acct'[a] = D[a] /\ D[a] \in Rec
        BY <1>8, <1>12, <2>2
      <3> QED BY <3>1, <1>2
    <2> QED BY <2>1, <2>2
  <1>14. /\ d.nonce = tx.nonce + 1
         /\ d.pubkey = IF acct[f].pubkey = NoKey THEN tx.witness.key ELSE acct[f].pubkey
    BY <1>3 DEF d
  <1> QED BY <1>1, <1>3, <1>8, <1>12, <1>13, <1>14 DEF f

(* Executing a transaction: its sender's nonce was the transaction's, so none of those
   executed before has the same sender; when it is the last, the body is one per sender. *)
LEMMA ExecuteIInv == IInv /\ ExecuteTx => IInv'
  <1> SUFFICES ASSUME IInv, ExecuteTx PROVE IInv'
    OBVIOUS
  <1> DEFINE n == Len(block.txs)
             tx == block.txs[i]
  <1>0. /\ TypeOK /\ KeyBinding /\ PassTwo /\ Executed
        /\ pc = "apply" /\ Advance("effects")
    BY DEF IInv, ExecuteTx
  <1>1. /\ block \in Called /\ i \in 1 .. n /\ n \in Nat
        /\ DOMAIN block.txs = 1 .. n /\ tx \in Txs
        /\ \/ i < n /\ i' = i + 1 /\ pc' = "apply"
           \/ i = n /\ i' = 1 /\ pc' = "effects"
        /\ i' \in 1 .. n
    BY <1>0, AdvanceType
  <1>2. \A k \in 1 .. n : block.txs[k] \in Txs /\ block.txs[k].from_account \in Accounts
                          /\ block.txs[k].nonce \in Nat
    BY <1>1, BlockType, TxType
  <1>3. Vetted(tx) /\ \A j, k \in 1 .. n : block.txs[j].from_account = block.txs[k].from_account =>
                                             block.txs[j].nonce = block.txs[k].nonce
    BY <1>0, <1>1 DEF PassTwo
  <1> DEFINE f == tx.from_account
  <1>4. /\ acct' \in [Accounts -> [balance : 0 .. MaxAmount, nonce : Nat,
                                   pubkey : Keys \cup {NoKey}, sig_algo : Algos \cup {None}]]
        /\ acct[f].nonce = tx.nonce /\ acct'[f].nonce = tx.nonce + 1
        /\ acct'[f].pubkey = (IF acct[f].pubkey = NoKey THEN tx.witness.key ELSE acct[f].pubkey)
        /\ \A a \in Accounts \ {f} :
              acct'[a].nonce = acct[a].nonce /\ acct'[a].pubkey = acct[a].pubkey
    BY <1>0, <1>1, <1>3, ExecuteEffect
  <1>5. /\ UNCHANGED <<governance, authority, attest, pending, active, reflect>>
        /\ UNCHANGED <<block, reward, fees, height, result, blocks, minted>>
    BY DEF ExecuteTx
  <1>6. TypeOK'
    <2>1. i' \in Nat /\ pc' \in {"apply", "effects"} /\ i' \in DOMAIN block'.txs
      BY <1>1, <1>5
    <2> QED BY <1>0, <1>1, <1>4, <1>5, <2>1 DEF TypeOK
  <1> HIDE DEF tx, n
  <1>7. acct'[f].pubkey # NoKey /\ Derive[acct'[f].pubkey] = f
    <2>1. CASE acct[f].pubkey = NoKey
      <3>1. tx.witness \in Witnesses /\ tx.witness.inline
        BY <1>3, <2>1, WitnessType DEF Vetted
      <3> QED BY <1>3, <1>4, <2>1, <3>1, WitnessType DEF Vetted
    <2>2. CASE acct[f].pubkey # NoKey
      <3>1. f \in Accounts
        BY <1>1, TxType
      <3> QED BY <1>0, <1>4, <2>2, <3>1 DEF KeyBinding
    <2> QED BY <2>1, <2>2
  <1>8. KeyBinding'
    BY <1>0, <1>4, <1>7 DEF KeyBinding
  <1>9. \A k \in 1 .. n : Vetted(block.txs[k]) => Vetted(block.txs[k])'
    BY <1>2, <1>4, <1>5, <1>7 DEF Vetted
  <1>10. PassTwo'
    BY <1>0, <1>1, <1>3, <1>5, <1>9 DEF PassTwo
  <1>11. \A k \in 1 .. i - 1 : block.txs[k].from_account # f
    <2> SUFFICES ASSUME NEW k \in 1 .. i - 1, block.txs[k].from_account = f PROVE FALSE
      OBVIOUS
    <2>1. acct[f].nonce = block.txs[k].nonce + 1
      BY <1>0 DEF Executed
    <2>2. block.txs[k].nonce = tx.nonce /\ tx.nonce \in Nat
      BY <1>1, <1>2, <1>3 DEF tx
    <2> QED BY <1>4, <2>1, <2>2
  <1>12. \A k \in 1 .. i : acct'[block.txs[k].from_account].nonce = block.txs[k].nonce + 1
    <2> SUFFICES ASSUME NEW k \in 1 .. i
                 PROVE  acct'[block.txs[k].from_account].nonce = block.txs[k].nonce + 1
      OBVIOUS
    <2>1. CASE k = i
      BY <1>4, <2>1 DEF tx
    <2>2. CASE k # i
      <3>1. k \in 1 .. i - 1 /\ k \in 1 .. n
        BY <1>1, <2>2
      <3> QED BY <1>0, <1>2, <1>4, <1>11, <3>1 DEF Executed
    <2> QED BY <2>1, <2>2
  <1>13. \A j, k \in 1 .. i : block.txs[j].from_account = block.txs[k].from_account => j = k
    <2> SUFFICES ASSUME NEW j \in 1 .. i, NEW k \in 1 .. i,
                        block.txs[j].from_account = block.txs[k].from_account
                 PROVE  j = k
      OBVIOUS
    <2>1. CASE j = i \/ k = i
      BY <1>1, <1>11, <2>1 DEF tx
    <2>2. CASE j # i /\ k # i
      <3>1. j \in 1 .. i - 1 /\ k \in 1 .. i - 1
        BY <1>1, <2>2
      <3> QED BY <1>0, <3>1 DEF Executed
    <2> QED BY <2>1, <2>2
  <1>14. Executed'
    BY <1>1, <1>5, <1>12, <1>13 DEF Executed
  <1>15. SenderOncePerBlock'
    BY <1>1, <1>5, <1>13 DEF SenderOncePerBlock
  <1>16. PassOne'
    BY <1>1 DEF PassOne
  <1> QED BY <1>6, <1>8, <1>10, <1>14, <1>15, <1>16 DEF IInv

(* An effect writes to one subtree that the rest of the invariant does not look at. *)
LEMMA EffectIInv ==
    ASSUME IInv, pc = "effects", Advance("finish"), UNCHANGED acct,
           UNCHANGED <<reflect, active, block, reward, fees, height, result, blocks, minted>>,
           governance' \in Configs \cup {None},
           authority' \in [Jobs -> (SUBSET Accounts) \cup {None}],
           attest' \in [AttestKeys -> [by : Accounts, at : Nat] \cup {None}],
           pending' \in [target_height : Nat, sig_algo : Algos, hash_algo : Algos,
                         announced_at_height : Nat] \cup {None}
    PROVE  IInv'
  <1>1. TypeOK
    BY DEF IInv
  <1>2. /\ block \in Called
        /\ DOMAIN block.txs = 1 .. Len(block.txs)
        /\ i' \in 1 .. Len(block.txs) /\ pc' \in {"effects", "finish"}
    BY <1>1, AdvanceType
  <1>3. i' \in Nat /\ i' \in DOMAIN block'.txs
    BY <1>2
  <1>4. TypeOK'
    BY <1>1, <1>2, <1>3 DEF TypeOK
  <1>5. KeyBinding'
    BY DEF IInv, KeyBinding
  <1>6. \A tx : Vetted(tx)' <=> Vetted(tx)
    BY DEF Vetted
  <1>7. PassTwo'
    BY <1>2, <1>6 DEF IInv, PassTwo
  <1>8. SenderOncePerBlock'
    BY <1>2 DEF IInv, SenderOncePerBlock
  <1>9. PassOne' /\ Executed'
    BY <1>2 DEF PassOne, Executed
  <1> QED BY <1>4, <1>5, <1>7, <1>8, <1>9 DEF IInv

(* The five effects that succeed. *)
LEMMA EffectsIInv ==
    ASSUME IInv,
           AttestEffect \/ RegisterEffect \/ UpgradeEffect \/ SetGovernanceEffect \/ TransferEffect
    PROVE  IInv'
  <1> DEFINE tx == block.txs[i]
  <1>0. TypeOK /\ pc = "effects" /\ Advance("finish")
    BY DEF IInv, AttestEffect, RegisterEffect, UpgradeEffect, SetGovernanceEffect, TransferEffect
  <1>1. tx \in Txs
    BY <1>0, AdvanceType
  <1>2. tx.call \in Calls /\ tx.from_account \in Accounts /\ block.height \in Nat
    BY <1>0, <1>1, TxType, BlockType DEF TypeOK
  <1>3. /\ tx.call.job \in Jobs /\ tx.call.item \in Items /\ tx.call.coordinators \in SUBSET Accounts
        /\ tx.call.target_height \in Nat /\ tx.call.sig_algo \in Algos /\ tx.call.hash_algo \in Algos
        /\ tx.call.config \in Configs \cup {None}
    BY <1>2, CallType
  <1>4. /\ governance \in Configs \cup {None}
        /\ authority \in [Jobs -> (SUBSET Accounts) \cup {None}]
        /\ attest \in [AttestKeys -> [by : Accounts, at : Nat] \cup {None}]
        /\ pending \in [target_height : Nat, sig_algo : Algos, hash_algo : Algos,
                         announced_at_height : Nat] \cup {None}
    BY <1>0 DEF TypeOK
  <1> HIDE DEF tx
  <1>5. CASE AttestEffect
    <2>1. /\ tx.call.kind \in {"AttestRound", "AttestPedigree"}
          /\ attest' = [attest EXCEPT ![<<tx.call.kind, tx.call.job, tx.call.item>>] =
                          [by |-> tx.from_account, at |-> block.height]]
          /\ UNCHANGED <<acct, governance, authority, pending, active, reflect,
                         block, reward, fees, height, result, blocks, minted, held>>
      BY <1>5 DEF AttestEffect, tx
    <2>2. attest' \in [AttestKeys -> [by : Accounts, at : Nat] \cup {None}]
      BY <1>2, <1>3, <1>4, <2>1 DEF AttestKeys
    <2> QED BY <1>0, <1>4, <2>1, <2>2, EffectIInv
  <1>6. CASE RegisterEffect
    <2>1. /\ authority' = [authority EXCEPT ![tx.call.job] = tx.call.coordinators]
          /\ UNCHANGED <<acct, governance, attest, pending, active, reflect,
                         block, reward, fees, height, result, blocks, minted, held>>
      BY <1>6 DEF RegisterEffect, tx
    <2>2. authority' \in [Jobs -> (SUBSET Accounts) \cup {None}]
      BY <1>3, <1>4, <2>1
    <2> QED BY <1>0, <1>4, <2>1, <2>2, EffectIInv
  <1>7. CASE UpgradeEffect
    <2>1. /\ pending' = [target_height |-> tx.call.target_height, sig_algo |-> tx.call.sig_algo,
                         hash_algo |-> tx.call.hash_algo, announced_at_height |-> block.height]
          /\ UNCHANGED <<acct, governance, authority, attest, active, reflect,
                         block, reward, fees, height, result, blocks, minted, held>>
      BY <1>7 DEF UpgradeEffect, tx
    <2>2. pending' \in [target_height : Nat, sig_algo : Algos, hash_algo : Algos,
                        announced_at_height : Nat]
      BY <1>2, <1>3, <2>1
    <2> QED BY <1>0, <1>4, <2>1, <2>2, EffectIInv
  <1>8. CASE SetGovernanceEffect
    <2>1. /\ governance' = tx.call.config
          /\ UNCHANGED <<acct, authority, attest, pending, active, reflect,
                         block, reward, fees, height, result, blocks, minted, held>>
      BY <1>8 DEF SetGovernanceEffect, tx
    <2> QED BY <1>0, <1>3, <1>4, <2>1, EffectIInv
  <1>9. CASE TransferEffect
    <2>1. UNCHANGED <<acct, governance, authority, attest, pending, active, reflect,
                      block, reward, fees, height, result, blocks, minted, held>>
      BY <1>9 DEF TransferEffect, store
    <2> QED BY <1>0, <1>4, <2>1, EffectIInv
  <1> QED BY <1>5, <1>6, <1>7, <1>8, <1>9

(* The senders of a body are finitely many. *)
LEMMA SendersFinite ==
    ASSUME NEW b \in Called
    PROVE  Cardinality(Senders(b.txs)) \in Nat
  <1> DEFINE n == Len(b.txs)
             f == [k \in 1 .. n |-> b.txs[k].from_account]
             T == Senders(b.txs)
  <1>1. n \in Nat /\ DOMAIN b.txs = 1 .. n
    BY BlockType
  <1> HIDE DEF n
  <1>2. T = {f[k] : k \in 1 .. n}
    BY <1>1 DEF Senders
  <1>3. f \in [1 .. n -> T]
    BY <1>2
  <1> HIDE DEF f, T
  <1>4. Cardinality(T) \in Nat
    BY <1>1, <1>2, <1>3, ImageOfSeq
  <1> QED BY <1>4 DEF T

(* The end of a block only raises the miner's balance. *)
LEMMA FinishIInv == IInv /\ Finish => IInv'
  <1> SUFFICES ASSUME IInv, Finish PROVE IInv'
    OBVIOUS
  <1> DEFINE Rec == [balance : 0 .. MaxAmount, nonce : Nat, pubkey : Keys \cup {NoKey},
                     sig_algo : Algos \cup {None}]
             m == block.coinbase
  <1>0. TypeOK /\ KeyBinding /\ pc = "finish"
    BY DEF IInv, Finish
  <1>1. /\ block \in Called /\ acct \in [Accounts -> Rec]
        /\ height \in Nat /\ blocks \in Nat /\ blocks < MaxBlocks
        /\ block.height \in {height, height + 1} /\ reward \in Nat /\ fees \in Nat /\ minted \in Nat
    BY <1>0 DEF TypeOK
  <1>2. m \in Accounts /\ block.height \in Nat \ {0} /\ MaxAmount \in Nat /\ MaxBlocks \in Nat
    BY <1>1, BlockType, WidthAssumption
  <1>3. /\ acct' = [acct EXCEPT ![m].balance = @ + TotalMinted]
        /\ acct[m].balance + TotalMinted <= MaxAmount /\ TotalMinted \in Nat
    <2>1. TotalMinted \in Nat
      BY <1>1 DEF TotalMinted
    <2>2. acct[m].balance \in Nat
      BY <1>1, <1>2
    <2>3. ~ MinerOverflow /\ acct' = [acct EXCEPT ![m].balance = @ + TotalMinted]
      BY DEF Finish
    <2> QED BY <1>2, <2>1, <2>2, <2>3 DEF MinerOverflow
  <1> HIDE DEF m
  <1>4. acct' \in [Accounts -> Rec]
    <2>1. acct[m] \in Rec /\ acct[m].balance + TotalMinted \in 0 .. MaxAmount
      BY <1>1, <1>2, <1>3
    <2> QED BY <1>1, <1>2, <1>3, <2>1
  <1>5. \A a \in Accounts : acct'[a].nonce = acct[a].nonce /\ acct'[a].pubkey = acct[a].pubkey
    BY <1>1, <1>2, <1>3
  <1>6. TypeOK'
    <2>1. /\ reflect' \in [DOMAIN reflect' -> [active_addresses : Nat, fee_sum : Nat, emission : Nat]]
          /\ DOMAIN reflect' \subseteq 1 .. block.height
      <3>1. Reflection \in [active_addresses : Nat, fee_sum : Nat, emission : Nat]
        BY <1>1, <1>3, SendersFinite DEF Reflection
      <3>2. /\ reflect \in [DOMAIN reflect -> [active_addresses : Nat, fee_sum : Nat, emission : Nat]]
            /\ DOMAIN reflect \subseteq 1 .. height
        BY <1>0 DEF TypeOK
      <3>3. reflect' = [h \in DOMAIN reflect \cup {block.height} |->
                           IF h = block.height THEN Reflection ELSE reflect[h]]
        BY DEF Finish
      <3>4. DOMAIN reflect' = DOMAIN reflect \cup {block.height}
        BY <3>3
      <3>5. DOMAIN reflect' \subseteq 1 .. block.height
        BY <1>1, <1>2, <3>2, <3>4
      <3> HIDE DEF Reflection
      <3> QED BY <3>1, <3>2, <3>3, <3>4, <3>5
    <2>2. active' \in Rotations \cup {None}
      <3>1. active' = Activated
        BY DEF Finish
      <3>2. pending # None => pending.sig_algo \in Algos /\ pending.hash_algo \in Algos
        BY <1>0 DEF TypeOK
      <3> QED BY <1>0, <1>2, <3>1, <3>2 DEF Activated, Rotations, TypeOK
    <2>3. /\ height' = block.height /\ blocks' \in 0 .. MaxBlocks /\ minted' \in Nat /\ pc' = "idle" /\ i' = 1
          /\ block' = NoBlock /\ reward' = 0 /\ fees' = 0 /\ result' = "Ok"
      BY <1>1, <1>2 DEF Finish
    <2>4. UNCHANGED <<governance, authority, attest, pending>>
      BY DEF Finish
    <2> QED BY <1>0, <1>2, <1>4, <2>1, <2>2, <2>3, <2>4 DEF TypeOK
  <1>7. KeyBinding'
    BY <1>0, <1>5 DEF KeyBinding
  <1>8. (PassOne /\ PassTwo /\ Executed /\ SenderOncePerBlock)'
    BY DEF Finish, PassOne, PassTwo, Executed, SenderOncePerBlock
  <1> QED BY <1>6, <1>7, <1>8 DEF IInv

(* Every step of apply_block, and the start of one, keeps the inductive invariant. *)
LEMMA NextIInv == IInv /\ [Next]_vars => IInv'
  <1> SUFFICES ASSUME IInv, [Next]_vars PROVE IInv'
    OBVIOUS
  <1>1. CASE UNCHANGED vars
    <2>1. TypeOK' /\ KeyBinding'
      BY <1>1 DEF vars, store, call, IInv, TypeOK, KeyBinding
    <2>2. \A tx : Vetted(tx)' <=> Vetted(tx)
      BY <1>1 DEF vars, store, Vetted
    <2>3. (PassOne /\ PassTwo /\ Executed /\ SenderOncePerBlock)'
      BY <1>1, <2>2 DEF vars, store, call, IInv, PassOne, PassTwo, Executed, SenderOncePerBlock
    <2> QED BY <2>1, <2>3 DEF IInv
  <1>2. ASSUME NEW txs \in Bodies, NEW coinbase \in Miners, NEW h \in NextHeights,
               NEW r \in Rewards, Begin(txs, coinbase, h, r)
        PROVE  IInv'
    BY <1>2, BeginIInv
  <1>3. CASE RejectTx \/ AbortTx \/ RejectEffect \/ CoinbaseOverflow
    <2>1. ReturnErr
      BY <1>3 DEF RejectTx, AbortTx, RejectEffect, CoinbaseOverflow
    <2> QED BY <2>1, ReturnErrIInv
  <1>4. CASE ValidateTx
    BY <1>4, ValidateIInv
  <1>5. CASE ExecuteTx
    BY <1>5, ExecuteIInv
  <1>6. CASE AttestEffect \/ RegisterEffect \/ UpgradeEffect \/ SetGovernanceEffect \/ TransferEffect
    BY <1>6, EffectsIInv
  <1>7. CASE Finish
    BY <1>7, FinishIInv
  <1> QED BY <1>1, <1>2, <1>3, <1>4, <1>5, <1>6, <1>7 DEF Next

(* The inductive invariant holds of every behaviour. *)
LEMMA Inductive == Spec => []IInv
  BY InitIInv, NextIInv, PTL DEF Spec

-----------------------------------------------------------------------------
(* What the invariant gives. *)

(* Every record in the store and every local of apply_block keeps its type: in particular no
   balance is ever negative or above u128::MAX. *)
THEOREM TypeCorrect == Spec => []TypeOK
  <1>1. IInv => TypeOK
    BY DEF IInv
  <1> QED BY <1>1, Inductive, PTL

(* The key that an account commits at its first transaction derives to that account, for
   every interleaving of accepted, rejected and half-applied blocks. *)
THEOREM KeysBound == Spec => []KeyBinding
  <1>1. IInv => KeyBinding
    BY DEF IInv
  <1> QED BY <1>1, Inductive, PTL

(* A body that both passes accept has one transaction per sender. *)
THEOREM OneTxPerSender == Spec => []SenderOncePerBlock
  <1>1. IInv => SenderOncePerBlock
    BY DEF IInv
  <1> QED BY <1>1, Inductive, PTL

(* Only pass 2 lowers a balance, and only the sender's: it has a vetted transaction, whose
   nonce the same write consumes. *)
THEOREM DebitsAuthorised == Spec => DebitAuthorised
  <1> DEFINE Authorised ==
        \A a \in Accounts : acct'[a].balance < acct[a].balance =>
            \E k \in DOMAIN block.txs :
                /\ SignedByOwner(block.txs[k], a)
                /\ acct[a].nonce = block.txs[k].nonce
                /\ acct'[a].nonce = block.txs[k].nonce + 1
  <1>1. IInv /\ [Next]_vars => [Authorised]_vars
    <2> SUFFICES ASSUME IInv, Next, NEW a \in Accounts, acct'[a].balance < acct[a].balance
                 PROVE  \E k \in DOMAIN block.txs :
                            /\ SignedByOwner(block.txs[k], a)
                            /\ acct[a].nonce = block.txs[k].nonce
                            /\ acct'[a].nonce = block.txs[k].nonce + 1
      OBVIOUS
    <2>0. TypeOK /\ PassTwo /\ acct[a].balance \in Nat
      BY DEF IInv, TypeOK
    <2>1. CASE UNCHANGED acct
      BY <2>0, <2>1
    <2>2. CASE ExecuteTx
      <3> DEFINE tx == block.txs[i]
      <3>1. pc = "apply" /\ i \in DOMAIN block.txs /\ tx \in Txs
        BY <2>0, <2>2, AdvanceType DEF ExecuteTx, TypeOK
      <3>2. Vetted(tx)
        BY <2>0, <3>1 DEF PassTwo
      <3>3. /\ acct[tx.from_account].nonce = tx.nonce /\ acct'[tx.from_account].nonce = tx.nonce + 1
            /\ \A b \in Accounts \ {tx.from_account} : acct'[b].balance >= acct[b].balance
            /\ acct' \in [Accounts -> [balance : 0 .. MaxAmount, nonce : Nat,
                                       pubkey : Keys \cup {NoKey}, sig_algo : Algos \cup {None}]]
        BY <2>0, <2>2, <3>1, <3>2, ExecuteEffect
      <3> HIDE DEF tx
      <3>4. acct'[a].balance \in Nat
        BY <3>3
      <3>5. tx.from_account = a
        BY <2>0, <3>3, <3>4
      <3>6. SignedByOwner(tx, a)
        BY <3>2, <3>5 DEF Vetted, SignedByOwner
      <3> QED BY <3>1, <3>3, <3>5, <3>6 DEF tx
    <2>3. CASE Finish
      <3> DEFINE m == block.coinbase
      <3>1. TotalMinted \in Nat /\ acct' = [acct EXCEPT ![m].balance = @ + TotalMinted]
        BY <2>0, <2>3 DEF TypeOK, TotalMinted, Finish
      <3> HIDE DEF m
      <3>2. acct'[a].balance = acct[a].balance \/ acct'[a].balance = acct[a].balance + TotalMinted
        BY <2>0, <3>1 DEF TypeOK
      <3> QED BY <2>0, <3>1, <3>2
    <2> QED BY <2>1, <2>2, <2>3 DEF Next, Begin, ValidateTx, RejectTx, AbortTx, AttestEffect,
               RegisterEffect, UpgradeEffect, SetGovernanceEffect, TransferEffect, RejectEffect,
               CoinbaseOverflow, ReturnErr, store
  <1> QED BY <1>1, Inductive, PTL DEF Spec, DebitAuthorised

-----------------------------------------------------------------------------
(* Governance. *)

(* A configuration that validates has at least threshold-many distinct members. *)
LEMMA ValidCanAct ==
    ASSUME NEW cfg \in Configs, validate(cfg)
    PROVE  cfg.threshold > 0 /\ Cardinality(Members(cfg)) >= cfg.threshold
  <1> DEFINE f == cfg.signers
             n == Len(cfg.signers)
  <1>1. f \in Seq(Signers) /\ cfg.threshold \in Nat
    BY DEF Configs
  <1>2. n \in Nat /\ DOMAIN f = 1 .. n /\ f \in [1 .. n -> Signers]
    BY <1>1
  <1>3. /\ cfg.threshold > 0 /\ cfg.threshold <= n
        /\ \A j, k \in DOMAIN f : f[j] = f[k] => j = k
    BY DEF validate
  <1> HIDE DEF f, n
  <1>4. Members(cfg) = {f[k] : k \in 1 .. n} /\ f \in [1 .. n -> Members(cfg)]
    BY <1>2 DEF Members, f
  <1>5. Cardinality(Members(cfg)) = n
    <2>1. \A j, k \in 1 .. n : f[j] = f[k] => j = k
      BY <1>2, <1>3
    <2> QED BY <1>2, <1>4, <2>1, ImageOfSeq
  <1> QED BY <1>1, <1>2, <1>3, <1>5

(* Whoever installs it, genesis or a transaction, the committee in force can act. *)
THEOREM CommitteesCanAct == Spec => []CommitteeCanAct
  <1>1. Init => CommitteeCanAct
    BY GenesisInstalled, ValidCanAct DEF Init, CommitteeCanAct
  <1>2. IInv /\ CommitteeCanAct /\ [Next]_vars => CommitteeCanAct'
    <2> SUFFICES ASSUME IInv, CommitteeCanAct, [Next]_vars PROVE CommitteeCanAct'
      OBVIOUS
    <2>1. CASE UNCHANGED governance
      BY <2>1 DEF CommitteeCanAct, Members
    <2>2. CASE SetGovernanceEffect
      <3> DEFINE c == block.txs[i].call
      <3>1. pc = "effects" /\ Advance("finish") /\ governance' = c.config
            /\ c.kind = "SetGovernance" /\ EffectOk(block.txs[i])
        BY <2>2 DEF SetGovernanceEffect
      <3>2. c.config # None /\ validate(c.config)
        BY <3>1 DEF EffectOk
      <3>3. block.txs[i] \in Txs
        BY <3>1, AdvanceType DEF IInv
      <3>4. c.config \in Configs
        BY <3>2, <3>3, TxType, CallType
      <3> QED BY <3>1, <3>2, <3>4, ValidCanAct DEF CommitteeCanAct
    <2> QED BY <2>1, <2>2 DEF Next, Begin, ValidateTx, RejectTx, AbortTx, AttestEffect, ExecuteTx,
               RegisterEffect, UpgradeEffect, TransferEffect, RejectEffect, Finish,
               CoinbaseOverflow, ReturnErr, store, vars
  <1> QED BY <1>1, <1>2, Inductive, PTL DEF Spec

(* A proof that verifies is endorsed by threshold-many distinct members: the signatures that
   verify_governance_proof counts are the first ones of their signers. *)
LEMMA VerifiedIsEndorsed ==
    ASSUME NEW cfg \in Configs, NEW proof \in Seq([signer_id : Signers, over : Calls]), NEW c,
           verify_governance_proof(cfg, proof, c)
    PROVE  Cardinality(Endorsers(cfg, proof, c)) >= cfg.threshold
  <1> DEFINE K == {k \in DOMAIN proof :
                     /\ \A j \in 1 .. k - 1 : proof[j].signer_id # proof[k].signer_id
                     /\ proof[k].signer_id \in Members(cfg)
                     /\ payload(proof[k].over) = payload(c)}
             E == Endorsers(cfg, proof, c)
             g == [k \in K |-> proof[k].signer_id]
             s == cfg.signers
             n == Len(cfg.signers)
  <1>1. Cardinality(K) >= cfg.threshold /\ cfg.threshold \in Nat
    BY DEF verify_governance_proof, Configs
  <1>2. s \in Seq(Signers)
    BY DEF Configs
  <1>3. n \in Nat /\ DOMAIN s = 1 .. n /\ s \in [1 .. n -> Signers]
    BY <1>2
  <1>4. IsFiniteSet(Members(cfg))
    <2>1. Members(cfg) = {s[k] : k \in 1 .. n} /\ s \in [1 .. n -> Members(cfg)]
      BY <1>3 DEF Members
    <2> HIDE DEF s, n
    <2> QED BY <1>3, <2>1, ImageOfSeq
  <1>5. IsFiniteSet(E)
    <2>1. E \in SUBSET Members(cfg)
      BY DEF Endorsers
    <2> QED BY <1>4, <2>1, FS_Subset
  <1>6. K \subseteq 1 .. Len(proof) /\ Len(proof) \in Nat
    OBVIOUS
  <1>7. g \in Injection(K, E)
    <2>1. g \in [K -> E]
      BY DEF Endorsers
    <2>2. ASSUME NEW j \in K, NEW k \in K, g[j] = g[k] PROVE j = k
      <3>1. j \in Nat /\ k \in Nat /\ j >= 1 /\ k >= 1
        BY <1>6
      <3>2. proof[j].signer_id = proof[k].signer_id
        BY <2>2
      <3>3. ~ (j \in 1 .. k - 1) /\ ~ (k \in 1 .. j - 1)
        BY <3>2
      <3> QED BY <3>1, <3>3
    <2> QED BY <2>1, <2>2 DEF Injection, IsInjective
  <1> HIDE DEF K, E, g
  <1>8. IsFiniteSet(K) /\ Cardinality(K) <= Cardinality(E)
    BY <1>5, <1>7, FS_Injection
  <1>9. Cardinality(K) \in Nat /\ Cardinality(E) \in Nat
    BY <1>5, <1>8, FS_CardinalityType
  <1> QED BY <1>1, <1>8, <1>9 DEF E

(* With a committee in force, nothing it governs changes without its endorsement. *)
THEOREM GovernedChanges == Spec => GovernedByCommittee
  <1> DEFINE Endorsed ==
        governance # None /\ <<governance, authority, pending>>' # <<governance, authority, pending>> =>
            /\ block.txs[i].gov_proof # None
            /\ Cardinality(Endorsers(governance, block.txs[i].gov_proof, block.txs[i].call))
                  >= governance.threshold
  <1>1. IInv /\ [Next]_vars => [Endorsed]_vars
    <2> SUFFICES ASSUME IInv, Next, governance # None,
                        <<governance, authority, pending>>' # <<governance, authority, pending>>
                 PROVE  /\ block.txs[i].gov_proof # None
                        /\ Cardinality(Endorsers(governance, block.txs[i].gov_proof,
                                                 block.txs[i].call)) >= governance.threshold
      OBVIOUS
    <2>1. RegisterEffect \/ UpgradeEffect \/ SetGovernanceEffect
      BY DEF Next, Begin, ValidateTx, RejectTx, AbortTx, AttestEffect, ExecuteTx,
             TransferEffect, RejectEffect, Finish, CoinbaseOverflow, ReturnErr, store
    <2>2. /\ pc = "effects" /\ Advance("finish") /\ EffectOk(block.txs[i])
          /\ block.txs[i].call.kind \in {"RegisterAttestCoordinator", "UpgradeCrypto", "SetGovernance"}
      BY <2>1 DEF RegisterEffect, UpgradeEffect, SetGovernanceEffect
    <2>3. GovernanceGate(block.txs[i])
      BY <2>2 DEF EffectOk
    <2>4. block.txs[i] \in Txs /\ governance \in Configs
      BY <2>2, AdvanceType DEF IInv, TypeOK
    <2>5. /\ block.txs[i].gov_proof # None
          /\ verify_governance_proof(governance, block.txs[i].gov_proof, block.txs[i].call)
      BY <2>3 DEF GovernanceGate
    <2>6. block.txs[i].gov_proof \in Seq([signer_id : Signers, over : Calls])
      BY <2>4, <2>5, TxType DEF Proofs
    <2> QED BY <2>4, <2>5, <2>6, VerifiedIsEndorsed
  <1> QED BY <1>1, Inductive, PTL DEF Spec, GovernedByCommittee

-----------------------------------------------------------------------------
(* Rotations. *)

(* A rotation that is active became so at a height that the chain has reached. *)
ActiveSince == active # None => active.activated_at_height <= height

(* A rotation announced before its target height is active from that height on, and no rotation
   that targets a later height is active before, through blocks that repeat a height and blocks
   that fail after they have announced one. *)
THEOREM RotationsOnTime == Spec => []RotationOnTime
  <1>1. Init => ActiveSince /\ RotationOnTime
    BY DEF Init, ActiveSince, RotationOnTime
  <1>2. IInv /\ ActiveSince /\ RotationOnTime /\ [Next]_vars => (ActiveSince /\ RotationOnTime)'
    <2> SUFFICES ASSUME IInv, ActiveSince, RotationOnTime, [Next]_vars
                 PROVE  ActiveSince' /\ RotationOnTime'
      OBVIOUS
    <2>0. /\ height \in Nat /\ (active # None => active \in Rotations)
          /\ (pending # None => /\ pending.target_height \in Nat /\ pending.sig_algo \in Algos
                                /\ pending.hash_algo \in Algos /\ pending.announced_at_height \in Nat)
          /\ (active # None => active.activated_at_height \in Nat)
      BY DEF IInv, TypeOK, Rotations
    <2>1. CASE UNCHANGED <<pending, active, height>>
      BY <2>1 DEF ActiveSince, RotationOnTime
    <2>2. CASE UpgradeEffect
      <3> DEFINE c == block.txs[i].call
      <3>1. /\ pending' = [target_height |-> c.target_height, sig_algo |-> c.sig_algo,
                           hash_algo |-> c.hash_algo, announced_at_height |-> block.height]
            /\ UNCHANGED <<active, height>> /\ pc = "effects" /\ Advance("finish")
        BY <2>2 DEF UpgradeEffect
      <3>2. c.target_height \in Nat /\ block.height \in {height, height + 1}
        BY <3>1, AdvanceType, TxType, CallType DEF IInv, TypeOK
      <3> HIDE DEF c
      <3>3. pending'.target_height = c.target_height /\ pending'.announced_at_height = block.height
        BY <3>1
      <3> QED BY <2>0, <3>1, <3>2, <3>3 DEF ActiveSince, RotationOnTime
    <2>3. CASE Finish
      <3>1. /\ height' = block.height /\ pending' = pending /\ active' = Activated
            /\ block.height \in {height, height + 1}
        BY <2>3 DEF Finish, IInv, TypeOK
      <3>2. CASE pending # None /\ pending.target_height = block.height
        <4> DEFINE r == [sig_algo |-> pending.sig_algo, hash_algo |-> pending.hash_algo,
                         activated_at_height |-> block.height]
        <4>1. active' = r
          BY <3>1, <3>2 DEF Activated
        <4>2. r \in Rotations
          BY <2>0, <3>1, <3>2 DEF Rotations
        <4>3. active' # None
          BY <4>1, <4>2, NoneAssumption
        <4> QED BY <2>0, <3>1, <3>2, <4>1, <4>3 DEF ActiveSince, RotationOnTime
      <3>3. CASE ~ (pending # None /\ pending.target_height = block.height)
        <4>1. active' = active
          BY <3>1, <3>3 DEF Activated
        <4>2. pending # None /\ block.height >= pending.target_height =>
                  height >= pending.target_height
          BY <2>0, <3>1, <3>3
        <4>3. pending # None /\ ~ (block.height >= pending.target_height) =>
                  ~ (height >= pending.target_height)
          BY <2>0, <3>1
        <4> QED BY <2>0, <3>1, <4>1, <4>2, <4>3 DEF ActiveSince, RotationOnTime
      <3> QED BY <3>2, <3>3
    <2> QED BY <2>1, <2>2, <2>3 DEF Next, Begin, ValidateTx, RejectTx, AbortTx, AttestEffect,
               ExecuteTx, RegisterEffect, SetGovernanceEffect, TransferEffect, RejectEffect,
               CoinbaseOverflow, ReturnErr, store, vars
  <1> QED BY <1>1, <1>2, Inductive, PTL DEF Spec

-----------------------------------------------------------------------------
(* Money. *)
Balances(a) == [x \in Accounts |-> a[x].balance]
TxFees == [k \in DOMAIN block.txs |-> block.txs[k].fee_sat]

(* Pass 1 has added up the fees of the transactions it has looked at, and pass 2 has debited at
   least as much as the transactions it has executed offer: with what blocks that failed have left,
   possibly more. *)
FeesHeld ==
    /\ held \in Nat
    /\ pc = "validate" => fees = SumOf(TxFees, 1 .. i - 1)
    /\ pc = "apply" => fees = SumOf(TxFees, 1 .. Len(block.txs)) /\ held >= SumOf(TxFees, 1 .. i - 1)
    /\ pc \in {"effects", "finish"} => held >= fees

(* No block has paid more than the highest reward. *)
MintedBounded ==
    /\ pc # "idle" => reward \in Rewards
    /\ \E most \in Rewards : /\ \A r \in Rewards : r <= most
                             /\ \A n \in 0 .. MaxBlocks - 1 : n * most <= MaxAmount
                             /\ minted <= blocks * most

SupplyInv == FeesHeld /\ MintedBounded /\ SupplyExact

(* Balances are natural numbers, and so is what they add up to. *)
LEMMA BalancesType ==
    ASSUME NEW a \in [Accounts -> [balance : 0 .. MaxAmount, nonce : Nat, pubkey : Keys \cup {NoKey},
                                   sig_algo : Algos \cup {None}]]
    PROVE  /\ \A x \in Accounts : Balances(a)[x] = a[x].balance /\ a[x].balance \in Nat
           /\ SumOf(Balances(a), Accounts) \in Nat
           /\ \A x \in Accounts : a[x].balance <= SumOf(Balances(a), Accounts)
  <1>1. \A x \in Accounts : Balances(a)[x] = a[x].balance /\ a[x].balance \in Nat
    BY WidthAssumption DEF Balances
  <1> HIDE DEF Balances
  <1> QED BY <1>1, SumNat, SupplyAssumption

(* A change of one balance changes the total by as much. *)
LEMMA BalanceUpdate ==
    ASSUME NEW a, NEW b, NEW x \in Accounts,
           \A y \in Accounts : a[y].balance \in Int /\ b[y].balance \in Int,
           \A y \in Accounts \ {x} : a[y].balance = b[y].balance
    PROVE  SumOf(Balances(b), Accounts) =
               SumOf(Balances(a), Accounts) + b[x].balance - a[x].balance
  <1>1. \A y \in Accounts : Balances(a)[y] = a[y].balance /\ Balances(b)[y] = b[y].balance
    BY DEF Balances
  <1> HIDE DEF Balances
  <1>2. /\ \A y \in Accounts : Balances(a)[y] \in Int /\ Balances(b)[y] \in Int
        /\ \A y \in Accounts \ {x} : Balances(a)[y] = Balances(b)[y]
    BY <1>1
  <1>3. SumOf(Balances(b), Accounts) = SumOf(Balances(a), Accounts) + Balances(b)[x] - Balances(a)[x]
    BY <1>2, SumUpdate, SupplyAssumption
  <1> QED BY <1>1, <1>3

(* One more fee. *)
LEMMA FeesUpTo ==
    ASSUME TypeOK, pc \in {"validate", "apply"}
    PROVE  /\ block.txs[i].fee_sat \in Nat /\ i \in 1 .. Len(block.txs) /\ Len(block.txs) \in Nat
           /\ SumOf(TxFees, 1 .. i) = SumOf(TxFees, 1 .. i - 1) + block.txs[i].fee_sat
           /\ \A k \in 0 .. Len(block.txs) : SumOf(TxFees, 1 .. k) \in Nat
  <1>1. /\ DOMAIN block.txs = 1 .. Len(block.txs) /\ Len(block.txs) \in Nat
        /\ \A k \in DOMAIN block.txs : block.txs[k] \in Txs
    BY BlockType DEF TypeOK
  <1>2. \A k \in DOMAIN block.txs : TxFees[k] = block.txs[k].fee_sat /\ block.txs[k].fee_sat \in Nat
    BY <1>1, TxType DEF TxFees
  <1>3. i \in 1 .. Len(block.txs)
    BY <1>1 DEF TypeOK
  <1> HIDE DEF TxFees
  <1>4. \A k \in 0 .. Len(block.txs) : IsFiniteSet(1 .. k) /\ \A j \in 1 .. k : TxFees[j] \in Nat
    BY <1>1, <1>2, IntervalSize
  <1>5. \A k \in 0 .. Len(block.txs) : SumOf(TxFees, 1 .. k) \in Nat
    BY <1>4, SumNat
  <1>6. SumOf(TxFees, 1 .. i) = TxFees[i] + SumOf(TxFees, (1 .. i) \ {i})
    <2>1. IsFiniteSet(1 .. i) /\ i \in 1 .. i /\ \A j \in 1 .. i : TxFees[j] \in Int
      BY <1>1, <1>3, <1>4
    <2> QED BY <2>1, SumRemove
  <1>7. (1 .. i) \ {i} = 1 .. i - 1 /\ i - 1 \in 0 .. Len(block.txs)
    BY <1>1, <1>3
  <1>8. TxFees[i] = block.txs[i].fee_sat /\ block.txs[i].fee_sat \in Nat
    BY <1>1, <1>2, <1>3
  <1>9. SumOf(TxFees, 1 .. i) = TxFees[i] + SumOf(TxFees, 1 .. i - 1)
    BY <1>6, <1>7
  <1>10. SumOf(TxFees, 1 .. i - 1) \in Nat
    BY <1>5, <1>7
  <1> QED BY <1>1, <1>3, <1>5, <1>8, <1>9, <1>10

(* What one execution in pass 2 does to the total: it falls by the fee.  The recipient's
   saturating addition loses nothing, because all balances together still fit. *)
LEMMA ExecuteTotal ==
    ASSUME IInv, SupplyInv, ExecuteTx
    PROVE  TotalBalance' = TotalBalance - block.txs[i].fee_sat
  <1> DEFINE Rec == [balance : 0 .. MaxAmount, nonce : Nat, pubkey : Keys \cup {NoKey},
                     sig_algo : Algos \cup {None}]
             tx == block.txs[i]
             f == tx.from_account
             D == Debited(tx)
             t == To(tx)
             am == Amount(tx.call)
             total == SumOf(Balances(acct), Accounts)
             left == SumOf(Balances(D), Accounts)
  <1>1. /\ pc = "apply" /\ acct[f].balance >= Required(tx) /\ Advance("effects")
        /\ acct' = [D EXCEPT ![t].balance = SaturatingAdd(@, am)]
    BY DEF ExecuteTx, StillApplies
  <1>2. TypeOK /\ acct \in [Accounts -> Rec] /\ MaxAmount \in Nat /\ blocks \in Nat
        /\ MaxBlocks \in Nat /\ blocks < MaxBlocks /\ minted \in Nat
    BY <1>1, WidthAssumption DEF IInv, TypeOK
  <1>3. tx \in Txs /\ Vetted(tx)
    BY <1>1, <1>2, AdvanceType DEF IInv, PassTwo, TypeOK
  <1>4. /\ f \in Accounts /\ t \in Accounts /\ am \in Nat /\ Required(tx) = am + tx.fee_sat
        /\ tx.fee_sat \in Nat
    BY <1>3, TxType, AmountType DEF Required
  <1>5. D \in [Accounts -> Rec] /\ D[f].balance = acct[f].balance - Required(tx)
        /\ \A a \in Accounts \ {f} : D[a] = acct[a]
    <2>1. acct[f] \in Rec /\ acct[f].balance - Required(tx) \in 0 .. MaxAmount
      BY <1>1, <1>2, <1>4
    <2>2. tx.witness.key \in Keys \cup {NoKey} /\ tx.witness.sig_algo \in Algos
      BY <1>3, WitnessType DEF Vetted
    <2> HIDE DEF f, tx
    <2> QED BY <1>2, <1>4, <2>1, <2>2 DEF Debited, f
  <1> HIDE DEF tx, f, D, t, am
  <1>6. left = total - Required(tx)
    <2>1. \A y \in Accounts : acct[y].balance \in Int /\ D[y].balance \in Int
      BY <1>2, <1>5, BalancesType
    <2>2. left = total + D[f].balance - acct[f].balance
      BY <1>4, <1>5, <2>1, BalanceUpdate
    <2>3. total \in Nat
      BY <1>2, BalancesType
    <2> HIDE DEF left, total
    <2> QED BY <1>4, <1>5, <2>1, <2>2, <2>3
  <1>7. total <= MaxAmount /\ total \in Nat
    <2>1. total + held = minted /\ held \in Nat
      BY DEF SupplyInv, SupplyExact, TotalBalance, FeesHeld, Balances
    <2>2. PICK most \in Rewards : /\ \A n \in 0 .. MaxBlocks - 1 : n * most <= MaxAmount
                                  /\ minted <= blocks * most
      BY DEF SupplyInv, MintedBounded
    <2>3. blocks * most <= MaxAmount /\ blocks * most \in Nat
      BY <1>2, <2>2, RewardAssumption
    <2>4. total \in Nat
      BY <1>2, BalancesType
    <2> HIDE DEF total
    <2> QED BY <1>2, <2>1, <2>2, <2>3, <2>4
  <1>8. D[t].balance <= left /\ D[t].balance \in Nat /\ left \in Nat
    BY <1>4, <1>5, BalancesType
  <1>9. acct'[t].balance = D[t].balance + am /\ \A y \in Accounts \ {t} : acct'[y] = D[y]
    <2>1. D[t].balance + am <= MaxAmount
      <3> HIDE DEF left, total
      <3> QED BY <1>2, <1>4, <1>6, <1>7, <1>8
    <2>2. SaturatingAdd(D[t].balance, am) = D[t].balance + am
      BY <2>1 DEF SaturatingAdd
    <2>3. D[t] \in Rec
      BY <1>4, <1>5
    <2> QED BY <1>1, <1>4, <1>5, <2>2, <2>3
  <1>10. SumOf(Balances(acct'), Accounts) = left + am
    <2>1. \A y \in Accounts : acct'[y].balance \in Int /\ D[y].balance \in Int
      <3>1. \A y \in Accounts : D[y].balance \in Int
        BY <1>5, BalancesType
      <3> QED BY <1>4, <1>9, <3>1
    <2>2. SumOf(Balances(acct'), Accounts) = left + acct'[t].balance - D[t].balance
      BY <1>4, <1>9, <2>1, BalanceUpdate
    <2> HIDE DEF left
    <2> QED BY <1>4, <1>8, <1>9, <2>2
  <1>11. TotalBalance = total /\ TotalBalance' = SumOf(Balances(acct'), Accounts)
    BY DEF TotalBalance, Balances
  <1> HIDE DEF total, left
  <1> QED BY <1>4, <1>6, <1>7, <1>8, <1>10, <1>11 DEF tx

(* What the end of a block does to the total: reward and fees are added. *)
LEMMA FinishTotal ==
    ASSUME IInv, Finish
    PROVE  TotalBalance' = TotalBalance + reward + fees
  <1> DEFINE Rec == [balance : 0 .. MaxAmount, nonce : Nat, pubkey : Keys \cup {NoKey},
                     sig_algo : Algos \cup {None}]
             m == block.coinbase
             total == SumOf(Balances(acct), Accounts)
  <1>1. /\ acct \in [Accounts -> Rec] /\ m \in Accounts /\ reward \in Nat /\ fees \in Nat
        /\ acct' = [acct EXCEPT ![m].balance = @ + TotalMinted]
    BY BlockType DEF Finish, IInv, TypeOK
  <1>2. TotalMinted = reward + fees
    BY DEF TotalMinted
  <1> HIDE DEF m
  <1>3. \A y \in Accounts : acct[y] \in Rec /\ acct[y].balance \in Nat
    BY <1>1, BalancesType
  <1>4. /\ acct'[m].balance = acct[m].balance + TotalMinted
        /\ \A y \in Accounts \ {m} : acct'[y] = acct[y]
    BY <1>1, <1>3
  <1>5. \A y \in Accounts : acct[y].balance \in Int /\ acct'[y].balance \in Int
    BY <1>1, <1>2, <1>3, <1>4
  <1>6. SumOf(Balances(acct'), Accounts) = total + acct'[m].balance - acct[m].balance
    <2>1. \A y \in Accounts \ {m} : acct[y].balance = acct'[y].balance
      BY <1>4
    <2>2. m \in Accounts
      BY <1>1
    <2> QED BY <1>5, <2>1, <2>2, BalanceUpdate
  <1>7. TotalBalance = total /\ TotalBalance' = SumOf(Balances(acct'), Accounts) /\ total \in Nat
    BY <1>1, BalancesType DEF TotalBalance, Balances
  <1> HIDE DEF total
  <1> QED BY <1>1, <1>2, <1>3, <1>4, <1>6, <1>7

LEMMA InitSupply == Init => SupplyInv
  <1> SUFFICES ASSUME Init PROVE SupplyInv
    OBVIOUS
  <1>1. FeesHeld
    BY DEF Init, FeesHeld
  <1>2. MintedBounded
    <2>1. pc = "idle" /\ minted = 0 /\ blocks = 0 /\ \A most \in Rewards : 0 * most = 0
      BY RewardAssumption DEF Init
    <2> QED BY <2>1, SupplyAssumption DEF MintedBounded
  <1>3. TotalBalance = 0
    <2>1. \A x \in Accounts : Balances(acct)[x] = 0
      BY DEF Init, Balances
    <2>2. SumOf(Balances(acct), Accounts) = 0
      BY <2>1, SupplyAssumption, SumZero
    <2> QED BY <2>2 DEF TotalBalance, Balances
  <1> QED BY <1>1, <1>2, <1>3 DEF Init, SupplyInv, SupplyExact

LEMMA SupplyStep ==
    ASSUME IInv, SupplyInv, [Next]_vars
    PROVE  SupplyInv'
  <1>0. /\ TypeOK /\ blocks \in Nat /\ minted \in Nat /\ reward \in Nat /\ fees \in Nat
        /\ held \in Nat /\ SupplyExact /\ TotalBalance \in Nat
    <2>1. TypeOK /\ blocks \in Nat /\ minted \in Nat /\ reward \in Nat /\ fees \in Nat
      BY DEF IInv, TypeOK
    <2>2. TotalBalance \in Nat
      BY <2>1, BalancesType DEF TypeOK, TotalBalance, Balances
    <2> QED BY <2>1, <2>2 DEF SupplyInv, FeesHeld
  <1>1. ASSUME UNCHANGED <<acct, blocks, minted, held>>, pc' # "idle" => reward' \in Rewards, FeesHeld'
        PROVE  SupplyInv'
    <2>1. SupplyExact'
      BY <1>0, <1>1 DEF SupplyExact, TotalBalance
    <2>2. MintedBounded'
      BY <1>1 DEF SupplyInv, MintedBounded
    <2> QED BY <1>1, <2>1, <2>2 DEF SupplyInv
  <1>2. CASE UNCHANGED vars
    <2>1. FeesHeld'
      BY <1>2 DEF SupplyInv, FeesHeld, TxFees, vars, call
    <2> QED BY <1>1, <1>2, <2>1 DEF SupplyInv, MintedBounded, vars, store, call
  <1>3. ASSUME NEW txs \in Bodies, NEW coinbase \in Miners, NEW h \in NextHeights,
               NEW r \in Rewards, Begin(txs, coinbase, h, r)
        PROVE  SupplyInv'
    <2>1. /\ UNCHANGED <<acct, blocks, minted, held>> /\ reward' = r /\ fees' = 0 /\ i' = 1
          /\ pc' \in {"validate", "finish"}
      BY <1>3 DEF Begin, store
    <2>2. SumOf(TxFees', 1 .. i' - 1) = 0
      <3>1. 1 .. i' - 1 = {}
        BY <2>1
      <3> QED BY <3>1, SumEmpty
    <2>3. FeesHeld'
      BY <1>0, <2>1, <2>2 DEF FeesHeld
    <2> QED BY <1>1, <2>1, <2>3
  <1>4. CASE RejectTx \/ AbortTx \/ RejectEffect \/ CoinbaseOverflow
    <2>1. pc' = "idle" /\ UNCHANGED <<acct, blocks, minted, held>>
      BY <1>4 DEF RejectTx, AbortTx, RejectEffect, CoinbaseOverflow, ReturnErr, store
    <2>2. FeesHeld'
      BY <1>0, <2>1 DEF FeesHeld
    <2> QED BY <1>1, <2>1, <2>2
  <1>5. CASE ValidateTx
    <2>1. /\ pc = "validate" /\ fees' = fees + block.txs[i].fee_sat /\ Advance("apply")
          /\ UNCHANGED <<acct, block, reward, blocks, minted, held>>
      BY <1>5 DEF ValidateTx, store
    <2>2. /\ \/ i < Len(block.txs) /\ i' = i + 1 /\ pc' = "validate"
             \/ i = Len(block.txs) /\ i' = 1 /\ pc' = "apply"
      BY <1>0, <2>1, AdvanceType
    <2>3. /\ fees' = SumOf(TxFees, 1 .. i) /\ i \in Nat /\ i + 1 - 1 = i
      BY <1>0, <2>1, FeesUpTo DEF SupplyInv, FeesHeld
    <2>4. TxFees' = TxFees
      BY <2>1 DEF TxFees
    <2>5. SumOf(TxFees, 1 .. 1 - 1) = 0
      <3>1. 1 .. 1 - 1 = {}
        OBVIOUS
      <3> QED BY <3>1, SumEmpty
    <2>6. pc' = "validate" => fees' = SumOf(TxFees', 1 .. i' - 1)
      BY <2>2, <2>3, <2>4
    <2>7. pc' = "apply" => /\ fees' = SumOf(TxFees', 1 .. Len(block'.txs))
                           /\ held' >= SumOf(TxFees', 1 .. i' - 1)
      BY <1>0, <2>1, <2>2, <2>3, <2>4, <2>5
    <2>8. FeesHeld'
      BY <1>0, <2>1, <2>2, <2>6, <2>7 DEF FeesHeld
    <2> QED BY <1>1, <2>1, <2>8 DEF SupplyInv, MintedBounded
  <1>6. CASE ExecuteTx
    <2> DEFINE fee == block.txs[i].fee_sat
               paid == SumOf(TxFees, 1 .. i - 1)
    <2>1. /\ pc = "apply" /\ held' = held + fee /\ Advance("effects")
          /\ UNCHANGED <<block, reward, fees, blocks, minted>>
      BY <1>6 DEF ExecuteTx
    <2>2. /\ \/ i < Len(block.txs) /\ i' = i + 1 /\ pc' = "apply"
             \/ i = Len(block.txs) /\ i' = 1 /\ pc' = "effects"
      BY <1>0, <2>1, AdvanceType
    <2>3. /\ SumOf(TxFees, 1 .. i) = paid + fee /\ i \in Nat /\ i + 1 - 1 = i /\ fee \in Nat
          /\ i - 1 \in 0 .. Len(block.txs) /\ paid \in Nat
      <3>1. /\ SumOf(TxFees, 1 .. i) = paid + fee /\ i \in 1 .. Len(block.txs) /\ fee \in Nat
            /\ Len(block.txs) \in Nat /\ \A k \in 0 .. Len(block.txs) : SumOf(TxFees, 1 .. k) \in Nat
        BY <1>0, <2>1, FeesUpTo
      <3>2. i - 1 \in 0 .. Len(block.txs) /\ i \in Nat /\ i + 1 - 1 = i
        BY <3>1
      <3> QED BY <3>1, <3>2
    <2>4. fees = SumOf(TxFees, 1 .. Len(block.txs)) /\ held >= paid
      BY <2>1 DEF SupplyInv, FeesHeld
    <2>5. TxFees' = TxFees
      BY <2>1 DEF TxFees
    <2> HIDE DEF paid, fee
    <2>6. held' \in Nat /\ held' >= SumOf(TxFees, 1 .. i)
      BY <1>0, <2>1, <2>3, <2>4
    <2>7. FeesHeld'
      BY <2>1, <2>2, <2>3, <2>4, <2>5, <2>6 DEF FeesHeld
    <2>8. SupplyExact'
      <3>1. TotalBalance' = TotalBalance - fee
        BY <1>6, ExecuteTotal DEF fee
      <3> QED BY <1>0, <2>1, <2>3, <3>1 DEF SupplyExact
    <2>9. MintedBounded'
      BY <2>1, <2>2 DEF SupplyInv, MintedBounded
    <2> QED BY <2>7, <2>8, <2>9 DEF SupplyInv
  <1>7. CASE AttestEffect \/ RegisterEffect \/ UpgradeEffect \/ SetGovernanceEffect \/ TransferEffect
    <2>1. /\ pc = "effects" /\ Advance("finish")
          /\ UNCHANGED <<acct, reward, fees, blocks, minted, held>>
      BY <1>7 DEF AttestEffect, RegisterEffect, UpgradeEffect, SetGovernanceEffect, TransferEffect,
                  store
    <2>2. pc' \in {"effects", "finish"}
      BY <2>1 DEF Advance
    <2>3. FeesHeld'
      BY <2>1, <2>2 DEF SupplyInv, FeesHeld
    <2> QED BY <1>1, <2>1, <2>2, <2>3 DEF SupplyInv, MintedBounded
  <1>8. CASE Finish
    <2>1. /\ pc = "finish" /\ pc' = "idle" /\ blocks' = blocks + 1 /\ minted' = minted + reward
          /\ held' = held - fees
      BY <1>8 DEF Finish
    <2>2. held >= fees
      BY <2>1 DEF SupplyInv, FeesHeld
    <2>3. FeesHeld'
      BY <1>0, <2>1, <2>2 DEF FeesHeld
    <2>4. SupplyExact'
      BY <1>0, <1>8, <2>1, <2>2, FinishTotal DEF SupplyExact
    <2>5. MintedBounded'
      <3>1. PICK most \in Rewards : /\ \A r \in Rewards : r <= most
                                    /\ \A n \in 0 .. MaxBlocks - 1 : n * most <= MaxAmount
                                    /\ minted <= blocks * most
        BY DEF SupplyInv, MintedBounded
      <3>2. reward <= most
        BY <2>1, <3>1 DEF SupplyInv, MintedBounded
      <3>3. most \in Nat
        BY RewardAssumption
      <3>4. (blocks + 1) * most = blocks * most + most /\ blocks * most \in Nat
        BY <1>0, <3>3
      <3>5. minted' <= blocks' * most
        BY <1>0, <2>1, <3>1, <3>2, <3>3, <3>4
      <3> QED BY <2>1, <3>1, <3>5 DEF MintedBounded
    <2> QED BY <2>3, <2>4, <2>5 DEF SupplyInv
  <1> QED BY <1>2, <1>3, <1>4, <1>5, <1>6, <1>7, <1>8 DEF Next

(* Money is only made by coinbase.  At every moment, in the middle of a block and after blocks that
   failed half-way, the balances and the fees that were debited and paid to nobody are together
   exactly the rewards of the blocks that were applied. *)
THEOREM SupplyStaysExact == Spec => []SupplyExact
  <1>1. Init => SupplyInv
    BY InitSupply
  <1>2. IInv /\ SupplyInv /\ [Next]_vars => SupplyInv'
    BY SupplyStep
  <1>3. SupplyInv => SupplyExact
    BY DEF SupplyInv
  <1> QED BY <1>1, <1>2, <1>3, Inductive, PTL DEF Spec
=============================================================================
