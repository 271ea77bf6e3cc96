-------------------------------- MODULE Node --------------------------------
(***************************************************************************)
(* A running pygrove-node (crates/node/src/rpc.rs and main.rs): the JSON-  *)
(* RPC thread, the self-miner thread, and what they share.  Both publish   *)
(* blocks through try_apply_block, which takes no lock of its own: every   *)
(* mutex it needs is taken and released separately, so each critical       *)
(* section is one step and the threads interleave between them.            *)
(*                                                                         *)
(* Accounts are abstracted to their nonces (module Ledger has apply_block  *)
(* in full): whether a balance covers a transaction and whether an effect  *)
(* is refused are operators of the state.  A header's hash is the block's  *)
(* id, emission and difficulty are constant operators, and the chain log   *)
(* is the blocks it holds and how its bytes end (module ChainStore).       *)
(***************************************************************************)
EXTENDS Naturals, Sequences, FiniteSets

CONSTANTS
    Actors,            \* threads that publish blocks: "rpc", and "miner" with --self-mine
    Hashes, Fee, cap,  \* transactions and the mempool, as in Mempool
    Senders,           \* accounts that send transactions
    Sender, Nonce,     \* from_account and nonce by transaction
    KnownForm,         \* by transaction, the same transfer with PubKeyRef::Known
    Covers(_, _),      \* (state, tx): the sender's balance covers amount and fee
    EffectFails(_, _, _),  \* (state after pass 2, txs, k): the effect of txs[k] is refused
    Reward(_, _, _, _, _),  \* current_reward_with_height(ts, parent_ts, minted, height, prev)
    NextBits(_, _, _), \* next_bits_from_parent(parent_bits, parent_ts, ts)
    GenesisBits,       \* initial_bits of genesis.toml
    GenesisTime,       \* genesis_time_ms
    Skew,              \* FUTURE_TIME_TOLERANCE_MS
    BlockTxs,          \* transactions pulled for a block (256)
    None,              \* Option::None
    IoErrors,          \* TRUE if store.append may fail
    Faults,            \* bound: kills and failed appends
    MaxTime,           \* bound: last value of the clock
    MaxHeight,         \* bound: no block is built above this height
    MaxOffered,        \* bound: blocks that remote miners hold at once
    MaxBody,           \* bound: transactions in a body that a remote miner makes up
    MaxIds,            \* bound: block ids in use at once
    OrderlyWallets,    \* TRUE if wallets send a transaction with the nonce of their account
    Retries            \* TRUE if they send a transfer again

ASSUME ActorsAssumption == Actors \subseteq {"rpc", "miner"}
ASSUME TxAssumption == Sender \in [Hashes -> Senders] /\ Nonce \in [Hashes -> Nat]
                       /\ KnownForm \in [Hashes -> Hashes]
ASSUME PoolAssumption == Hashes \subseteq Nat /\ Fee \in [Hashes -> Nat] /\ cap \in Nat
ASSUME GenesisAssumption == GenesisTime \in Nat /\ Skew \in Nat
ASSUME BoundAssumption == Faults \in Nat /\ MaxTime \in Nat /\ MaxHeight \in Nat
                          /\ MaxOffered \in Nat /\ MaxBody \in Nat /\ MaxIds \in Nat
                          /\ BlockTxs \in Nat
ASSUME IoAssumption == IoErrors \in BOOLEAN /\ OrderlyWallets \in BOOLEAN
                       /\ Retries \in BOOLEAN

VARIABLES
    now,          \* wall clock
    disk,         \* blocks in chain.log; the store's cached tip is the last one
    tail,         \* how its bytes end: "whole", "stub" (part of a prefix), or "torn" for good
    tainted,      \* history: a block was logged that a replay of the log need not accept
    up,           \* "running", "down", or "failed" when open or replay aborts start-up
    state,        \* NodeState.state
    minted,       \* NodeState.minted_so_far
    prev,         \* NodeState.prev_reward_sat
    inner,        \* NodeState.mempool
    offered,      \* blocks that remote miners may submit
    sent,         \* transactions that wallets have submitted
    pc,           \* where each thread is in try_apply_block
    blk,          \* the block each thread is publishing
    loc,          \* each thread's locals: parent_ts, minted and reward
    faults        \* kills and failed appends so far

chain_log == <<disk, tail, tainted>>
shared == <<chain_log, state, minted, prev, inner>>
vars == <<now, chain_log, up, state, minted, prev, inner, offered, sent, pc, blk, loc, faults>>

Pool == INSTANCE Mempool WITH millis <- now, MaxMillis <- MaxTime

-----------------------------------------------------------------------------
(* apply_block, on nonces.  Pass 1 looks at the state before the block.  Pass 2 stops at the
   second transaction of a sender and the effects at the first that is refused; what they have
   written until then stays.  The balance that pass 1 has seen is still there in pass 2, which
   only credits the sender before its one debit (Ledger's SenderOncePerBlock). *)

\* applied: the blocks applied whole; partly: some refused block has left a part of itself.
Fresh == [nonce |-> [s \in Senders |-> 0], issued |-> 0, applied |-> << >>, partly |-> FALSE]

Known(h) == \E g \in Hashes : g # h /\ KnownForm[g] = h

\* Mutant: a nonce that was used before is let through.
Passes1_accepts_used(s, b) == \A k \in DOMAIN b.txs : Nonce[b.txs[k]] <= s.nonce[Sender[b.txs[k]]]

\* validate_tx on every transaction: the nonce is the sender's next one, the key of a
\* PubKeyRef::Known is in the state, which it is after the sender's first transaction, and the
\* balance is enough.
Passes1(s, b) == \A k \in DOMAIN b.txs : /\ Nonce[b.txs[k]] = s.nonce[Sender[b.txs[k]]]
                                         /\ Known(b.txs[k]) => s.nonce[Sender[b.txs[k]]] > 0
                                         /\ Covers(s, b.txs[k])
Repeats(b) == {k \in DOMAIN b.txs : \E j \in 1 .. k - 1 : Sender[b.txs[j]] = Sender[b.txs[k]]}
Executed(b) == {k \in DOMAIN b.txs : \A j \in Repeats(b) : k < j}
Bump(s, b) == [a \in Senders |-> s.nonce[a] +
                  Cardinality({k \in Executed(b) : Sender[b.txs[k]] = a})]
Debited(s, b) == [s EXCEPT !.nonce = Bump(s, b)]
Effective(s, b) == \A k \in DOMAIN b.txs : ~ EffectFails(Debited(s, b), b.txs, k)

apply_block(s, b, reward) ==
    IF ~ Passes1(s, b) THEN [ok |-> FALSE, state |-> s]
    ELSE IF Repeats(b) # {} \/ ~ Effective(s, b)
         THEN [ok |-> FALSE, state |-> [Debited(s, b) EXCEPT !.partly = TRUE]]
         ELSE [ok |-> TRUE, state |-> [Debited(s, b) EXCEPT !.issued = @ + reward,
                                                            !.applied = Append(@, b.id)]]

(* cmd_run: replay of the log.  The parent's timestamp is looked up by height as an index. *)

Genesis == [id |-> 0, parent |-> None, height |-> 0, ts |-> GenesisTime, bits |-> GenesisBits,
            txs |-> << >>]

parent_ts(log, b) == IF b.height \in 1 .. Len(log) THEN log[b.height].ts ELSE GenesisTime

\* Mutant: start-up does not carry the previous reward from block to block.
ReplayStep_drops_prev(log, r, b) ==
    LET reward == Reward(b.ts, parent_ts(log, b), r.minted, b.height, r.prev)
        out == apply_block(r.state, b, reward)
    IN [ok |-> r.ok /\ out.ok, state |-> out.state, minted |-> r.minted + reward, prev |-> None]

\* Mutant: start-up computes each reward as if nothing had been minted.
ReplayStep_ignores_minted(log, r, b) ==
    LET reward == Reward(b.ts, parent_ts(log, b), 0, b.height, r.prev)
        out == apply_block(r.state, b, reward)
    IN [ok |-> r.ok /\ out.ok, state |-> out.state, minted |-> r.minted + reward, prev |-> reward]

\* One iteration of the replay loop
ReplayStep(log, r, b) ==
    LET reward == Reward(b.ts, parent_ts(log, b), r.minted, b.height, r.prev)
        out == apply_block(r.state, b, reward)
    IN [ok |-> r.ok /\ out.ok, state |-> out.state, minted |-> r.minted + reward, prev |-> reward]

Replay(log) ==
    LET R[k \in 0 .. Len(log)] ==
            IF k = 0 THEN [ok |-> TRUE, state |-> Fresh, minted |-> 0, prev |-> None]
            ELSE LET r == R[k - 1] IN IF r.ok THEN ReplayStep(log, r, log[k]) ELSE r
    IN R[Len(log)]

-----------------------------------------------------------------------------
Tip == disk[Len(disk)]
Idle == [a \in Actors |-> "idle"]
Unset == [parent_ts |-> 0, minted |-> 0, reward |-> 0]

Boot(log) ==
    /\ state' = Replay(log).state /\ minted' = Replay(log).minted /\ prev' = Replay(log).prev
    /\ inner' = [h \in {} |-> 0]

Init ==
    /\ now = 0 /\ disk = <<Genesis>> /\ tail = "whole" /\ tainted = FALSE /\ up = "running"
    /\ state = Replay(disk).state /\ minted = Replay(disk).minted /\ prev = Replay(disk).prev
    /\ inner = [h \in {} |-> 0]
    /\ offered = {} /\ sent = {}
    /\ pc = Idle /\ blk = [a \in Actors |-> Genesis] /\ loc = [a \in Actors |-> Unset] /\ faults = 0

\* The least id that no block in the log, on offer or in a thread has: its hash is new.
FreshId(n) ==
    LET used == {0} \cup {disk[k].id : k \in DOMAIN disk} \cup {b.id : b \in offered}
                    \cup {blk[a].id : a \in Actors}
                    \cup {state.applied[k] : k \in DOMAIN state.applied}
    IN n \notin used /\ \A m \in 0 .. n - 1 : m \in used

\* template_from_parent_with_body on the tip, with the transactions pulled from the mempool.
Template(id, bits) ==
    [id |-> id, parent |-> Tip.id, height |-> Tip.height + 1, ts |-> now, bits |-> bits,
     txs |-> Pool!pull_for_block(BlockTxs)]

RpcFree == up = "running" /\ "rpc" \in Actors /\ pc["rpc"] = "idle"

\* A wallet asks the node for its account and sends a transaction with that nonce, and with its
\* key if the account has none yet.
InOrder(h) ==
    /\ h \notin sent /\ state.nonce[Sender[h]] = Nonce[h]
    /\ Known(h) => state.nonce[Sender[h]] > 0

\* submit_tx: the mempool takes any well-formed transaction.
SubmitTx(h) ==
    /\ RpcFree /\ Pool!submit(h)
    /\ OrderlyWallets => InOrder(h)
    /\ sent' = IF OrderlyWallets THEN sent \cup {h} ELSE sent
    /\ UNCHANGED <<now, chain_log, up, state, minted, prev, offered, pc, blk, loc, faults>>

\* submit_transfer of a transfer that a wallet has sent before: an account whose key is in the
\* state, because it has sent a transaction, gets the body with PubKeyRef::Known, and with it
\* another hash.  A key that is committed between the look at the state and the submission
\* leaves the body that SubmitTx submits.
SubmitTransfer(h) ==
    LET form == IF state.nonce[Sender[h]] = 0 THEN h ELSE KnownForm[h]
    IN /\ RpcFree /\ Retries /\ h \in sent /\ Pool!submit(form)
       /\ sent' = sent \cup {form}
       /\ UNCHANGED <<now, chain_log, up, state, minted, prev, offered, pc, blk, loc, faults>>

\* What a remote miner may make of the template b: a block with any body, with another timestamp
\* and the bits that go with it, or with a parent that this node does not have.
Bodies == UNION {[1 .. n -> Hashes] : n \in 0 .. MaxBody}
Remote(b) == {[b EXCEPT !.txs = body] : body \in Bodies \cup {b.txs}}
             \cup {[b EXCEPT !.ts = t, !.bits = NextBits(Tip.bits, Tip.ts, t)] : t \in now .. MaxTime}
             \cup {[b EXCEPT !.parent = MaxIds + 1, !.txs = << >>]}

\* get_template: a remote miner takes any time to find a block with it, and may come back with it.
GetTemplate(n) ==
    /\ RpcFree /\ Tip.height < MaxHeight /\ Cardinality(offered) < MaxOffered /\ FreshId(n)
    /\ \E b \in Remote(Template(n, GenesisBits)) : offered' = offered \cup {b}
    /\ UNCHANGED <<now, shared, up, sent, pc, blk, loc, faults>>

\* submit_block; a remote miner may keep the block and submit it again.
SubmitBlock(b) ==
    /\ RpcFree
    /\ pc' = [pc EXCEPT !["rpc"] = "check"] /\ blk' = [blk EXCEPT !["rpc"] = b]
    /\ offered' \in {offered, offered \ {b}}
    /\ UNCHANGED <<now, shared, up, sent, loc, faults>>

At(a, label) == up = "running" /\ pc[a] = label
Goto(a, label) == pc' = [pc EXCEPT ![a] = label] /\ blk' = blk
\* The thread is done with its block, and its locals go out of scope.
Return(a) == /\ pc' = [pc EXCEPT ![a] = "idle"]
             /\ blk' = [blk EXCEPT ![a] = Genesis] /\ loc' = [loc EXCEPT ![a] = Unset]

\* Mutant: the self-miner takes the bits of genesis, as templates do.
MinerBuild_genesis_bits(n) ==
    /\ up = "running" /\ "miner" \in Actors /\ pc["miner"] = "idle"
    /\ now >= GenesisTime /\ Tip.height < MaxHeight /\ FreshId(n)
    /\ pc' = [pc EXCEPT !["miner"] = "mining"]
    /\ blk' = [blk EXCEPT !["miner"] = Template(n, GenesisBits)]
    /\ UNCHANGED <<now, shared, up, offered, sent, loc, faults>>

\* self_miner_loop up to the hash search: tip, mempool snapshot, time and bits.  The tip is
\* read first; if it moves before the rest is read, Check rejects the block, as it does one
\* whose tip moved after all was read.
MinerBuild(n) ==
    /\ up = "running" /\ "miner" \in Actors /\ pc["miner"] = "idle"
    /\ now >= GenesisTime /\ Tip.height < MaxHeight /\ FreshId(n)
    /\ pc' = [pc EXCEPT !["miner"] = "mining"]
    /\ blk' = [blk EXCEPT !["miner"] = Template(n, NextBits(Tip.bits, Tip.ts, now))]
    /\ UNCHANGED <<now, shared, up, offered, sent, loc, faults>>

MinerFound ==
    /\ "miner" \in Actors /\ At("miner", "mining") /\ Goto("miner", "check")
    /\ UNCHANGED <<now, shared, up, offered, sent, loc, faults>>

\* The periodic look at the tip while hashing.
MinerAbandon ==
    /\ "miner" \in Actors /\ At("miner", "mining")
    /\ Tip.height >= blk["miner"].height
    /\ Return("miner")
    /\ UNCHANGED <<now, shared, up, offered, sent, faults>>

(* try_apply_block *)

\* Mutant: the block's parent is not compared with the tip.
Acceptable_any_parent(b) ==
    /\ now >= GenesisTime
    /\ b.height = Tip.height + 1
    /\ b.bits = NextBits(Tip.bits, Tip.ts, b.ts)
    /\ b.ts >= Tip.ts /\ b.ts <= now + Skew

\* Mutant: the block may be dated before its parent.
Acceptable_any_past(b) ==
    /\ now >= GenesisTime
    /\ b.parent = Tip.id /\ b.height = Tip.height + 1
    /\ b.bits = NextBits(Tip.bits, Tip.ts, b.ts)
    /\ b.ts <= now + Skew

\* Checks 1 to 5, against one reading of the tip.  PoW and body roots are met by every
\* block built here.
Acceptable(b) ==
    /\ now >= GenesisTime
    /\ b.parent = Tip.id /\ b.height = Tip.height + 1
    /\ b.bits = NextBits(Tip.bits, Tip.ts, b.ts)
    /\ b.ts >= Tip.ts /\ b.ts <= now + Skew

Check(a) ==
    /\ At(a, "check") /\ Acceptable(blk[a]) /\ Goto(a, "read_tip")
    /\ UNCHANGED <<now, shared, up, offered, sent, loc, faults>>

Reject(a) ==
    /\ At(a, "check") /\ ~ Acceptable(blk[a]) /\ Return(a)
    /\ UNCHANGED <<now, shared, up, offered, sent, faults>>

ReadTip(a) ==
    /\ At(a, "read_tip") /\ Goto(a, "read_minted")
    /\ loc' = [loc EXCEPT ![a].parent_ts = Tip.ts]
    /\ UNCHANGED <<now, shared, up, offered, sent, faults>>

ReadMinted(a) ==
    /\ At(a, "read_minted") /\ Goto(a, "read_prev")
    /\ loc' = [loc EXCEPT ![a].minted = minted]
    /\ UNCHANGED <<now, shared, up, offered, sent, faults>>

ReadPrev(a) ==
    /\ At(a, "read_prev") /\ Goto(a, "apply")
    /\ loc' = [loc EXCEPT ![a].reward = Reward(blk[a].ts, loc[a].parent_ts, loc[a].minted,
                                               blk[a].height, prev)]
    /\ UNCHANGED <<now, shared, up, offered, sent, faults>>

\* apply_block under the state mutex.
ApplyBlock(a) ==
    /\ At(a, "apply") /\ apply_block(state, blk[a], loc[a].reward).ok
    /\ state' = apply_block(state, blk[a], loc[a].reward).state
    /\ Goto(a, "write_minted")
    /\ UNCHANGED <<now, chain_log, up, minted, prev, inner, offered, sent, loc, faults>>

\* Mutant: the error of apply_block is ignored.
ApplyFails_goes_on(a) ==
    /\ At(a, "apply") /\ ~ apply_block(state, blk[a], loc[a].reward).ok
    /\ state' = apply_block(state, blk[a], loc[a].reward).state
    /\ Goto(a, "write_minted")
    /\ UNCHANGED <<now, chain_log, up, minted, prev, inner, offered, sent, loc, faults>>

\* apply_block fails: what it has written stays in the live state.
ApplyFails(a) ==
    /\ At(a, "apply") /\ ~ apply_block(state, blk[a], loc[a].reward).ok
    /\ state' = apply_block(state, blk[a], loc[a].reward).state
    /\ Return(a)
    /\ UNCHANGED <<now, chain_log, up, minted, prev, inner, offered, sent, faults>>

WriteMinted(a) ==
    /\ At(a, "write_minted") /\ Goto(a, "write_prev")
    /\ minted' = loc[a].minted + loc[a].reward
    /\ UNCHANGED <<now, chain_log, up, state, prev, inner, offered, sent, loc, faults>>

WritePrev(a) ==
    /\ At(a, "write_prev") /\ Goto(a, "confirm")
    /\ prev' = loc[a].reward
    /\ UNCHANGED <<now, chain_log, up, state, minted, inner, offered, sent, loc, faults>>

ConfirmTxs(a) ==
    /\ At(a, "confirm") /\ Goto(a, "append")
    /\ Pool!confirm({blk[a].txs[k] : k \in DOMAIN blk[a].txs})
    /\ UNCHANGED <<now, chain_log, up, state, minted, prev, offered, sent, loc, faults>>

\* Mutant: a write that is taken for failed is made again.
AppendBlock_again(a) ==
    /\ At(a, "append") /\ Return(a)
    /\ disk' = Append(Append(disk, blk[a]), blk[a])
    /\ tail' = IF tail = "whole" THEN "whole" ELSE "torn"
    /\ tainted' = (tainted \/ state.partly \/ Len(state.applied) # Len(disk) + 1)
    /\ UNCHANGED <<now, up, state, minted, prev, inner, offered, sent, faults>>

\* store.append under its mutex.  Behind a stub the record is not read as one.
AppendBlock(a) ==
    /\ At(a, "append") /\ Return(a)
    /\ disk' = Append(disk, blk[a])
    /\ tail' = IF tail = "whole" THEN "whole" ELSE "torn"
    /\ tainted' = (tainted \/ state.partly \/ Len(state.applied) # Len(disk) + 1)
    /\ UNCHANGED <<now, up, state, minted, prev, inner, offered, sent, faults>>

\* What an append that stops after any number of bytes, before the last, leaves behind.
CutShort == IF tail = "torn" THEN {"torn"} ELSE {tail, "stub", "torn"}

\* store.append returns an error: counters, state and mempool have moved, the cached tip has not.
AppendFails(a) ==
    /\ IoErrors /\ faults < Faults /\ At(a, "append") /\ Return(a)
    /\ faults' = faults + 1 /\ tail' \in CutShort
    /\ UNCHANGED <<now, disk, tainted, state, minted, prev, inner, up, offered, sent>>

(* The process is killed, perhaps inside an append; cmd_run starts it again. *)

Crash ==
    /\ up = "running" /\ faults < Faults
    /\ up' = "down" /\ faults' = faults + 1
    /\ state' = Fresh /\ minted' = 0 /\ prev' = None /\ inner' = [h \in {} |-> 0]
    /\ pc' = Idle /\ blk' = [a \in Actors |-> Genesis] /\ loc' = [a \in Actors |-> Unset]
    /\ tail' \in {tail} \cup (IF \E a \in Actors : pc[a] = "append" THEN CutShort ELSE {})
    /\ UNCHANGED <<now, disk, tainted, offered, sent>>

Restart ==
    /\ up = "down" /\ tail # "torn" /\ Replay(disk).ok
    /\ up' = "running" /\ Boot(disk)
    /\ UNCHANGED <<now, chain_log, offered, sent, pc, blk, loc, faults>>

RestartFails ==
    /\ up = "down" /\ (tail = "torn" \/ ~ Replay(disk).ok)
    /\ up' = "failed"
    /\ UNCHANGED <<now, shared, offered, sent, pc, blk, loc, faults>>

Tick ==
    /\ now < MaxTime /\ now' = now + 1
    /\ UNCHANGED <<shared, up, offered, sent, pc, blk, loc, faults>>

Publish(a) ==
    \/ Check(a) \/ Reject(a) \/ ReadTip(a) \/ ReadMinted(a) \/ ReadPrev(a)
    \/ ApplyBlock(a) \/ ApplyFails(a) \/ WriteMinted(a) \/ WritePrev(a)
    \/ ConfirmTxs(a) \/ AppendBlock(a)

Mine == (\E n \in 1 .. MaxIds : MinerBuild(n)) \/ MinerFound \/ MinerAbandon

Next ==
    \/ \E h \in Hashes : SubmitTx(h) \/ SubmitTransfer(h)
    \/ (\E n \in 1 .. MaxIds : GetTemplate(n)) \/ (\E b \in offered : SubmitBlock(b))
    \/ Mine
    \/ \E a \in Actors : Publish(a) \/ AppendFails(a)
    \/ Crash \/ Restart \/ RestartFails \/ Tick

Spec == Init /\ [][Next]_vars

\* The scheduler runs the miner thread and the operating system restarts the process;
\* nothing is assumed of remote miners, wallets, kills or I/O errors.
Fairness ==
    /\ WF_vars(Mine) /\ WF_vars(Restart \/ RestartFails) /\ WF_vars(Tick)
    /\ \A a \in Actors : WF_vars(Publish(a))
FairSpec == Spec /\ Fairness

-----------------------------------------------------------------------------
(* Properties. *)

Labels == {"idle", "mining", "check", "read_tip", "read_minted", "read_prev", "apply",
           "write_minted", "write_prev", "confirm", "append"}
Blocks == [id : Nat, parent : Nat \cup {None}, height : Nat, ts : Nat, bits : {GenesisBits} \cup Nat,
           txs : Seq(Hashes)]

\* Every variable has the type of the field or local it stands for.
TypeOK ==
    /\ now \in Nat /\ disk \in Seq(Blocks) /\ disk # << >>
    /\ tail \in {"whole", "stub", "torn"} /\ tainted \in BOOLEAN
    /\ up \in {"running", "down", "failed"}
    /\ state \in [nonce : [Senders -> Nat], issued : Nat, applied : Seq(Nat),
                 partly : BOOLEAN]
    /\ minted \in Nat /\ prev \in Nat \cup {None}
    /\ DOMAIN inner \subseteq Hashes /\ inner \in [DOMAIN inner -> Nat]
    /\ offered \subseteq Blocks /\ sent \subseteq Hashes
    /\ pc \in [Actors -> Labels] /\ blk \in [Actors -> Blocks]
    /\ loc \in [Actors -> [parent_ts : Nat, minted : Nat, reward : Nat]]
    /\ faults \in Nat

\* A block is on its way into the log once apply_block has accepted it.
Committing(a) == pc[a] \in {"write_minted", "write_prev", "confirm", "append"}
Quiet == up = "running" /\ \A a \in Actors : ~ Committing(a)

\* The log is one chain: every block extends the block before it.
ChainLinked ==
    \A k \in DOMAIN disk : k > 1 =>
        /\ disk[k].parent = disk[k - 1].id
        /\ disk[k].height = disk[k - 1].height + 1
        /\ disk[k].ts >= disk[k - 1].ts

\* Even when threads race, every block in the log extends some block before it.
ParentsLogged ==
    \A k \in DOMAIN disk : k > 1 =>
        \E j \in 1 .. k - 1 : /\ disk[k].parent = disk[j].id
                              /\ disk[k].height = disk[j].height + 1
                              /\ disk[k].ts >= disk[j].ts

\* Even when threads race, wallets repeat themselves and appends fail, no transfer is in the log
\* twice, in one form or in two: a sender's nonces in the log are all different.
TxOncePerLog ==
    \A j, k \in DOMAIN disk : \A m \in DOMAIN disk[j].txs, n \in DOMAIN disk[k].txs :
        LET g == disk[j].txs[m]  h == disk[k].txs[n]
        IN Sender[g] = Sender[h] /\ Nonce[g] = Nonce[h] => j = k /\ m = n

\* Between blocks, and every block that was applied since the start was also logged.
Settled == Quiet /\ Len(state.applied) = Len(disk)

\* Between blocks, and unless an append has failed, the emission counters are the ones that
\* start-up would compute from the log, although they are not written together with it and
\* although refused blocks may have left a part of themselves in the state.
MintedMatchesLog ==
    Settled /\ Replay(disk).ok => minted = Replay(disk).minted /\ prev = Replay(disk).prev

\* Only a block that was refused half way or not logged sets the live state apart from the one
\* that start-up rebuilds; without one the log can be replayed.
LiveMatchesReplay ==
    Settled /\ ~ state.partly => Replay(disk).ok /\ state = Replay(disk).state

\* Start-up fails only on a log that was cut off inside a record, or that holds a block which
\* was accepted by a live state that had gone apart from the log.
RestartFailsOnlyIf == up = "failed" => tail = "torn" \/ tainted

\* A log whose bytes are whole can be started from (chainstore.rs:3-4: the log is what "survives
\* a restart"; apply.rs:416-418: apply_block "on failure, leaves `store` unchanged").
WholeLogStarts == up = "failed" => tail = "torn"

\* The block that would be built from the pool can be applied.
PoolApplies ==
    up = "running" => apply_block(state, [Genesis EXCEPT !.txs = Pool!pull_for_block(BlockTxs)], 0).ok

\* Nothing but a pool that cannot be applied, and a start-up that fails, keeps the self-miner
\* from extending the chain: not foreign or repeated submissions, a moving difficulty that
\* templates do not follow, kills or failed appends.
ChainGrows == <>[](PoolApplies /\ up # "failed") => <>(Tip.height = MaxHeight)

\* Without kills, a pending transaction gets into a block while blocks are made (main.rs:299-301:
\* what arrives while a block is mined goes "into the *next* block").
PendingIsMined ==
    \A h \in Hashes : h \in DOMAIN inner ~>
        (\E k \in DOMAIN disk : \E m \in DOMAIN disk[k].txs : disk[k].txs[m] = h)
        \/ Tip.height = MaxHeight

\* Whatever fails, the log never runs ahead of the live state: no transaction of the log is
\* still unspent in it.
LogNeverAhead ==
    up = "running" => \A k \in DOMAIN disk : \A m \in DOMAIN disk[k].txs :
        LET h == disk[k].txs[m] IN state.nonce[Sender[h]] > Nonce[h]
=============================================================================
