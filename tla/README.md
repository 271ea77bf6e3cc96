# Verification of pygrove-chain

TLA+ models of the parts of pygrove-chain that decide what the ledger is: applying a
block, the mempool, the node that accepts, publishes and reports blocks, its log on disk,
the rules for reward and difficulty, the finality certificates, the mining GUI with its
wallet, and two libraries that are waiting for a caller (the P2P broker and the RocksDB
store). Every module is translated from the Rust source; TLC checks it on small instances,
and TLAPS proves every safety property that TLC checks, invariants and action properties,
for every value of the constants. What TLC checks alone is liveness. Three runs are
violations: they show where the program does not do what its comments say.

Source paths are relative to `src/`; `apply.rs` is `crates/state/src/apply.rs`, `rpc.rs`,
`main.rs`, `mempool.rs`, `chainstore.rs`, `mining.rs` are in `crates/node/src/`,
`emission.rs`, `asert.rs`, `retarget.rs`, `pow.rs` are in `crates/consensus/src/`,
`rocks_store.rs` and `store.rs` in `crates/state/src/`, `wallet.rs`, `miner.rs` in
`crates/gui/src/`, `finality` is `crates/finality/src/lib.rs`, `p2p` is
`crates/p2p/src/lib.rs`.

## The system

| component | state it keeps | operations | what makes it right |
|---|---|---|---|
| Ledger (`apply.rs`, `accounts.rs`) | accounts, governance committee, coordinator registries, attestations, announced and active crypto, reflection records | `apply_block`: pass 1 validates, pass 2 executes, then effects, coinbase, reflection, activation | money is only made by coinbase; no debit without the owner's signature and nonce; governed state moves only with the committee |
| Mempool (`mempool.rs`) | transactions by hash, with arrival time | `submit`, `pull_for_block`, `confirm` | bounded; evicts one for one |
| Node (`rpc.rs`, `main.rs`, `mining.rs`) | `NodeState`: live state, `minted_so_far`, `prev_reward_sat`, mempool, chain store | JSON-RPC handlers, `try_apply_block`, `self_miner_loop`, start-up replay | one chain; when live state and counters equal a replay of the log; when it can start again; what can stop it |
| Chain log (`chainstore.rs`) | `chain.log`, cached tip and count | `open`, `append`, reading back | an acknowledged block is read back; a torn record is never taken for a block |
| Emission (`emission.rs`) | none (the node carries the counters) | `scheduled_supply_at`, `current_reward_with_height` | supply stays near the calendar |
| Finality (`finality`) | none | `verify_vote`, `verify_cert`, `verify_aggregated_cert`, `reorg_allowed` | a certificate means a quorum; no two certificates conflict; finalized blocks stay |
| Queries (`rpc.rs`, `chainstore.rs`) | none | `get_info`, `list_blocks`, `get_block`, `get_account`, `emission_series`, metrics | they tell one story about the chain and the accounts |
| Difficulty (`asert.rs`, `retarget.rs`, `pow.rs`) | none (bits are in the header) | `next_bits_from_parent`, `bitcoin_retarget`, compact bits | exact, bounded per block, follows the schedule, never zero |
| GUI miner and wallet (`crates/gui`) | wallet and its file, worker threads with flag and counters | mine, stop, replace the wallet, send | rewards go to a key that was saved; counters mean something; workers stop |
| P2P broker (`p2p`) | subscriptions, inboxes | `join`, `subscribe`, `publish`, `recv` | each message once, in order, to each subscriber |
| RocksDB store (`rocks_store.rs`) | key-value directory, cached root | `open`, `put`, `get`, `root`, `import_from` | same answers as `MemState` |
| contract VM, cryptography, CLI, explorer page, web | | | see "Not modelled" |

How they interact. `pygrove-node run` replays `chain.log` through `apply_block`, then runs
one RPC thread (`serve` handles one connection at a time) and, with `--self-mine`, one
miner thread. Both publish blocks through `try_apply_block`, which takes the mutexes of
chain store, counters, state and mempool one after another and never two together.
Remote miners and wallets, the GUI among them, reach the node through RPC. The finality
crate, the broker and the RocksDB store have no caller in the node yet.

What is hard here: the two publishing threads between the locks of `try_apply_block`;
a kill, a failed write or a power loss between its steps; a block that fails after part
of it was written to the live state; late, repeated and timed-out submissions; worker
threads that outlive their handle; a wallet file that is truncated before it is written;
rounding, saturation and carries; cached values that must go when what they were computed
from changes; certificates made of votes that do not belong together. `PROJECT.json` lists
each hazard at its line.

## Modules

**Ledger** models `apply_block` statement by statement, one transaction of one loop per
step: `Begin`, `ValidateTx`/`RejectTx` (pass 1 on the store before the block),
`ExecuteTx`/`AbortTx` (pass 2 on the live store), one action per kind of effect and
`RejectEffect`, then `Finish` or `CoinbaseOverflow`. A rejected block leaves what it has
written, as in the code. A signature is modelled by who made it, over what, with which
algorithm; a hash by what is hashed. `MaxAmount` is u128::MAX. A node starts from one of
`GenesisFiles` that `install_genesis_governance` accepts. `apply_block` takes the height from
the header and checks nothing about it. `Begin` gives it the heights its caller lets through:
the next one, or, after a failed append and when two threads publish, that of the block
before it again (`NextHeights`; a thread that is overtaken by two blocks or more between its
check and `apply_block` has an older one, which is left out). The reflection record is stored under that height
(`reflect`), so a second block of a height overwrites the first one's record. The properties
add up money with **Sums**.

**Mempool** has `submit`, `pull_for_block` and `confirm`, and a clock that may be set
back, since the code uses wall-clock milliseconds. The order of a pull is defined by rank
instead of a sort; it is by fee, as the code has it, and no property is stated of it.

**Node** composes Mempool (`Pool == INSTANCE Mempool`) with the two threads. Every
critical section of `try_apply_block` is an action: `Check`/`Reject`, `ReadTip`,
`ReadMinted`, `ReadPrev`, `ApplyBlock`/`ApplyFails`, `WriteMinted`, `WritePrev`,
`ConfirmTxs`, `AppendBlock`/`AppendFails`. `Crash`, `Restart` and `RestartFails` are the
process; `Replay` is the loop of `cmd_run`. Accounts are reduced to nonces, and `apply_block`
refuses a block where Ledger's does: in pass 1 (nonce, key form or balance, `Covers`), with
nothing written; in pass 2 at the second transaction of a sender, or in the effects
(`EffectFails`), with the nonces of the transactions executed so far left in the live state
(`partly`). `Covers` and `EffectFails` are constant operators of the state, so the proofs hold
for every choice of them; emission and difficulty are constant operators too. A remote miner
may submit any body (`Bodies`), another timestamp, a foreign parent, and any block again
(`Remote`, `SubmitBlock`). The log is the blocks it holds and how its bytes end (`tail`): an
append that stops on the way, by an error or by a kill inside it, leaves nothing, part of a
prefix (`stub`) or part of a body (`torn`); behind a stub the next record is not read as one,
so that makes the log torn too, and a torn log cannot be opened again. These are the outcomes
that ChainStore has cell by cell. `tainted` is a history variable: a block was logged though
the state that accepted it was not the one of a replay. `SubmitTransfer` is
a transfer sent again, whose key form and with it whose hash depend on the state of the
moment (`KnownForm`). The tip and the
mempool are read in one step when a block is built: if the tip moves in between, `Check`
rejects the block, which is also what happens if it moves later.

**Queries** extends Node with the read-only requests as operators on its state: a query
changes nothing, so it is no action. The metrics and `get_info` report the node's fields.
The window of a chart and its samples are sets of places in the log, listed by rank.

**ChainStore** has the file as a sequence of cells, so that a write may stop inside a
length prefix or inside a body, the page cache (`synced`), and the cached tip and count.

**Emission** is `current_reward_with_height` with the counters the node carries; the
schedule is a parameter, given by **EmissionSchedule** (`scheduled_supply_at` and the
epoch reward) in the model-checked instance.

**Difficulty** has the number formats as digit sequences in a base that is a parameter:
`target_from_bits`, `bits_from_target`, `asert_target`, `next_bits_from_parent` over
bytes of base `Byte`, `bitcoin_retarget` over limbs of base `Limb`. Powers of a base are a
recursive function (`Power`), which proofs can unfold. **Consensus** puts
Emission and Difficulty on one chain: `Extend` is what `try_apply_block` demands of the
next block's bits and pays for it, `Panic` the thread that `u128::clamp` ends.

**Finality** has the crate's functions in full. Since the crate has no state and no
caller, its surroundings are modelled and marked external: honest validators sign one block
per epoch and round, on the round's boundary; the others sign anything; a node verifies
whatever arrives, finalizes what is on its chain, reorganises where `reorg_allowed` says
so (the candidate height is taken as the height of the last common block), and changes
committee between epochs.

**Gui** has the UI thread with the wallet file (`Launch`, `Regenerate`, `SaveOpen`,
`SaveWrite`, `StartMining`, `StopMining`, `Quit`) and the loop of each worker
(`GetTemplate`, `InnerGo`, `Exhaust`, `Find`, `SendFails`, `Timeout`, `Receive`, `OuterStop`,
`InnerStop`). The node is reduced to a chain and a queue of requests. `Process` takes the
oldest request, accepts it if it extends the chain or refuses it for any reason of
`try_apply_block` (so also because the bits have moved), and puts its answer on the way to the
worker (`answer`); the worker counts it in `Receive`, or has timed out before. `walletless` is a
history variable: the generations that were started while no wallet was loaded.

**Broker** has `join`, `subscribe`, `publish` and `recv`, each one step because each holds
the broker's mutex, and history variables that make it an implementation of the abstract
**Gossip**: one log of messages, of which every peer reads, once and in order, those of
others published on its topics after it subscribed. `BrokerSpec` is the broker by itself.

**RocksStore** runs `MemState` beside `RocksState`: `import_from` takes the first over into
the second, after which every `put` goes to both. Keys are byte sequences, so that an empty
key and a prefix of another are told apart by `encode_key`. A walk in the order of the keys
(a BTreeMap's, an iterator's) is defined by rank: the i-th entry is the one with i - 1 before
it. `RocksSpec` is the pair of stores by themselves.

The `MC*` modules give the constants values; the `*Proofs` modules hold the theorems, and
**Foundations** the facts about induction, recursion, products and quotients, sums and ranks
that several of them use.
**StoreGossipProofs** is about the three modules of storage and messages: ChainStore, Broker
and RocksStore.

## Runs

| run | instance | states | shows |
|---|---|---|---|
| `ledger_payments` | 2 accounts, 12 transactions, bodies of up to 2, 3 blocks, heights that may repeat, balances up to 8 | 302 686 | supply is exact at every step, keys stay bound, debits are authorised, one transaction per sender |
| `ledger_governance` | 2 signers, 4 genesis files (two of them refused), committees of 2-of-2 and 1-of-1, proofs missing, short, repeated or misdirected, 3 blocks | 230 867 | the committee can always act, governed state moves only with it, rotations happen on time |
| `node_serial` | RPC thread alone, a transfer, the sender's next one and one whose effect is refused, any body of up to 1 besides what is pulled, 3 blocks, 2 faults (kills, also inside an append, and failed appends) | 2 166 626 | one chain; counters and state equal a replay, with the exceptions named in the properties; the two ways in which a start can fail; chart, explorer and accounts agree with the chain |
| `node_live` | both threads, a transfer and one whose effect is refused, bits that move with every block, 2 faults, 1 block | 884 821 | the chain gets its next block unless the pool cannot be applied or the node does not start |
| `node_race` | both threads, a transfer in both its forms and the sender's next one, an effect that is refused at one height, 1 fault (kill or failed append) | 2 679 867 | parents are in the log, no sender's nonce is in it twice, the log is never ahead of the state |
| `consensus` | schedule with halvings, bytes of 5 bits, 5 initial targets, 8 blocks of any spacing; every 4-limb number of base 6 | 128 805 | overshoot bounded, reward falls while ahead, target bounded, steps within 8 percent, towards the schedule, retarget exact |
| `finality` | 3-of-4 with one dishonest, then 2-of-2; genuine and flawed certificates, plain and aggregated | 220 752 | certificates mean a quorum and agree; finalized blocks stay |
| `libraries` | pool of 3 with 5 transactions, two pairs of equal fees, 4 clock values; log of 2 blocks, 3 records, prefix of 2 cells, body of 1; 2 peers, 2 topics, 3 messages; 3 keys in 2 subtrees, 2 faults, an empty or a used directory | 1 500 291 | capacity and one out for one in; a readable log equals the cache and holds what was acknowledged; the broker implements Gossip; RocksDB answers like MemState |
| `gui` | 1 worker per generation, 2 generations, 2 sessions, 3 keys, 2 blocks, 2 requests in flight | 112 750 | who is paid, counters bracket the chain, workers end |
| `node_race_chain` | both threads, no fault | violation | two blocks with one parent in the log |
| `node_stall` | both threads, two transactions with the nonce that the wallet was told, no fault | violation | neither is ever mined, and no other block is |
| `node_restart` | RPC thread alone, a transaction whose effect is refused and the sender's next one, 1 kill | violation | an undamaged log that no start can replay |

Bounds. The hazards are short: a race needs two threads and two blocks, a torn write one
record with a record before and after it, a half-applied block a body of two, a rotation
two heights before and at its target. Each instance is large enough for its actions to
happen and for every property's mutant to be caught. The order of appends, kills and
submissions is free within the bounds; heights, times, faults, templates and block ids
are bounded by constants named as bounds. In `consensus` the base of a byte and the width of
a target are smaller than in the code, with the ratios that matter kept: the multiplier's
fixed point lies above 108 percent, the ceiling inside the high half, and a mantissa can
meet its sign bit. In `libraries` a behaviour exercises one of the four pieces, which
share nothing; blocks and peers are symmetric, since nothing orders them. `node_live` has one
block: what can hold it up (a foreign or repeated block in the other thread, a template with
the bits of genesis, a refused pool, a failed append, a kill after it) is there at the first
height, and a block that the other thread gets in before it is progress. In `gui` the three `Pasts` split the work: two generations in one session, a
wallet replaced while mining, and two sessions around the first save; the counters stop at
`MaxCount`, which is no smaller than the chain. Deadlock checking is off only where bounded
behaviours end (height or time reached, or a node that does not start again).

Fairness of `node_live` and `node_stall`. Weak fairness of the miner thread and of each
publishing thread: they are OS threads that never block for good, since no two locks are held
together. Weak fairness of restart: `ops/pygrove-node.service` has `Restart=always`. Weak
fairness of the clock. A hash is assumed to be found eventually (`MinerFound` is part of
`Mine`). Nothing is assumed of remote miners, wallets, kills or I/O errors; faults are bounded
by `Faults`, so they do not go on for ever. `ChainGrows` has the two things that do stop the
miner as its premise: a pool whose block is refused (the stall below) and a start that fails.
Wallets in these runs send with the nonce that the node reports, as `build_and_submit_tx` of the
GUI does (`OrderlyWallets`); the stall does not need wallets that do otherwise.

Fairness of `gui`. Weak fairness of each worker, a thread whose calls have a timeout of five
seconds. Nothing is assumed of the user, the node or the network. That a miner earns is not
claimed: the node hands out templates with the bits of genesis, and while the bits have moved
every block made of them is refused.

## What the violations show

`node_race_chain`: `try_apply_block` compares with the tip and appends under separate
locks. Both threads can pass the check on one tip and append siblings; the comment at
`main.rs:340-342` expects the later one to be refused. The log then is no chain, the
loser's reward is lost from `minted_so_far`, and a replay of the log may fail.

`node_stall`: two pending transactions of one sender keep each other, and everything else, out
of the chain. They are pulled together, the block is refused, nothing takes them out of the
pool, and the next block is built from the same pool. `main.rs:299-301` expects what arrives
late to go "into the *next* block". A wallet gets there by sending twice before a block: it is
told the same nonce both times. A single transaction whose effect is refused, and a transfer
sent again in its other form (`SubmitTransfer`), stop the chain in the same way.

`node_restart`: an effect is refused after pass 2 has written the debit and the nonce of its
sender to the live state (`rpc.rs:1075` passes it, though `apply.rs:416-418` asks for a clone
and says that a failing block leaves the store unchanged). The sender's next transaction is
then valid for the live state; its block is accepted and logged, and after a kill the replay
refuses it at every start, though every byte of the log is whole (`chainstore.rs:3-4`: the log
is what "survives a restart"). `RestartFailsOnlyIf` says that this and a torn record are the
only two ways to such a log with one publishing thread.

Other differences between code and comments met while modelling, which the modules show
and no run is spent on:

* What remains true of a half-applied block (`apply.rs:416-418`) is `SupplyExact` and
  `DebitAuthorised`.
* A kill between prefix and body of an append leaves a short body, and `open` fails on it
  from then on (`OpenFails` of ChainStore, `tail` of Node). The properties of the log speak of
  logs that can be read; none says that a torn one can be opened, because it cannot.
* `rpc.rs:56-58` says the counters move atomically with the log; they are written before
  `append`, whose failure does not undo them (`AppendFails`). `MintedMatchesLog`,
  `LiveMatchesReplay` and `ChartFollowsChain` except a node whose append has failed, until it
  is started again, and the blocks on their way into the log.
* `rpc.rs:994-995` says miner and check cannot diverge in the difficulty; `get_template`
  hands out the genesis bits (`GetTemplate`), and `get_info` and the metric `pygrove_bits`
  report them.
* `asert.rs:156` multiplies with saturation, which makes an implicit ceiling: targets never
  rise above that of genesis's 0x1f00ffff, and a chain that started above it would get
  harder by 8 percent a block even on schedule. The three properties of the target speak of
  chains at or below it. A high half of 0 makes `clamp` panic (`Panic`), one below 13 cannot
  rise again by 8 percent.
* `rpc.rs:267` caps a chart at the number of points; the stride rounds down, so there may be
  one less than twice as many.
* The HELP text of the minted metric (`rpc.rs:484`) includes fees; the counter has rewards
  only, and so has the chart: `ChartFollowsChain` compares two numbers without fees.
* `rocks_store.rs:94` says that after `import_from` the root equals the source's; keys that
  the directory held before stay (`Foreign`). A `root` whose iterator fails on an entry skips
  it and caches the result (`misread`).
* The GUI counts a submission that timed out as rejected though the node may accept it, and
  submits a block it has found again and again until its template is ten seconds old;
  `CountersMatchChain` is what its counters still tell.
* Stopping drops the handle without joining; replacing the wallet while mining leaves the
  workers paying the old key; a kill inside `save` leaves a file that no later start can
  parse, and mining then pays nobody. `PaysSavedKeys` allows these two, a key that was saved
  and overwritten and a burn by a generation started without a wallet, and nothing else.
* The broker never returns `UnknownPeer` or `NoSubscription`: it makes what is missing.
  A message's `seq` counts a peer's messages of all topics, so a subscriber of one topic
  sees gaps that are no losses.
* `README.md:93` bounds the reward by three caps, and
  `crates/consensus/tests/emission_long_form.rs:10-11` allows the supply one epoch reward above
  the calendar; the slew limit's lower clamp is applied after the caps, and `OvershootBounded`,
  which allows more than that, is what holds for every spacing of blocks.
* `emission.rs:145-146` says the reward catches up; `max_up` rounds down, so a reward
  below 100/pct stays where it is.
* `mempool.rs:6-7` and `73-74` say fee per byte; the sort is by fee, so a large transaction
  goes before a small one that pays more per byte. `mempool.rs:17` says FIFO; eviction is by wall-clock time, then by hash.
* `signer_count` counts bits that belong to no member, and `verify_aggregated_cert`
  compares that count with the quorum; `AggCertMeansQuorum` therefore speaks of bitmaps
  that mark members only, and of committees that list nobody twice: a bit counts for each
  place in the list, and nothing in the crate keeps a validator from having two. (The second
  condition was found by the proof, which failed without it.)
* `chainstore.rs:28` says the cached count always equals the disk; after a failed write
  the file holds part of a record more. `ReadableMeansCached` is what holds.

## What is proved

All theorems hold for every value of the constants that satisfies the assumptions named in
the modules that declare them, and for behaviours of any length within the named bounds. The
assumptions that are more than types:

* `SupplyAssumption` (Ledger): finitely many accounts, and until the last block all the money
  fits an amount; heights and rewards have 64 bits, amounts 128.
* `QuorumAssumption` (Finality): any two quorums of a committee share an honest validator;
  N-of-N with one honest member is the committee of v1.0.
* `ScheduleAssumption` (Emission): the scheduled supply does not fall with time.
* `RewardAssumption` (Queries): genesis earns nothing, and the block after it is paid the same
  whether the reward of its parent is unknown (as `emission_series` starts its replay) or 0 (as
  the node has it); `emission.rs:160-162` and `190-192`.
* `BitAssumption` (Difficulty): a byte has an even number of values, so that a sign bit halves
  it, and the fixed point of the multiplier is at least 108 (it is 65 536).
* `GuiPastAssumption` (Gui): a wallet file found at the start was saved whole, or is torn.
* `NoneAssumption` (Ledger, ChainStore) and `BrokerAssumption`: a value that stands for "none"
  is no record and no number.

**LedgerProofs**

* `TypeCorrect`, `KeysBound`, `OneTxPerSender`, `DebitsAuthorised`, `CommitteesCanAct`,
  `GovernedChanges`. The inductive invariant is the type invariant, `KeyBinding`, what pass 1
  has established of the transactions it has seen (they carry their owner's signature and the
  nonce of the store before the block), what pass 2 knows of the executed ones (their senders'
  nonces have moved on), and that executed transactions have different senders.
  `SenderOncePerBlock` is not inductive without the link between pass-1 nonces and pass-2
  nonces; `DebitAuthorised` needs the pass-1 facts at the moment of the debit.
* `RotationsOnTime`, with the addition that an active rotation became so at a height reached. It
  speaks of rotations announced before their target, since the code announces others too: one
  announced at its target is active only once a block of that height succeeds, one announced
  later never.
* `SupplyStaysExact`: balances plus fees that were debited and paid to nobody are the rewards
  handed over, at every step of every block. The invariant `SupplyInv` adds that the fees of
  the running block are held (`FeesHeld`) and that rewards are bounded by the height
  (`MintedBounded`). The bound is what makes the saturating credit of pass 2 exact, and the
  order of the writes is what makes a transfer to oneself neutral.

**NodeProofs**, for any number of publishing threads, kills and failing appends:

* `ParentsAlwaysLogged`: a block that passed the check has its parent in the log, which only
  grows.
* `NoTransferTwice` and `LogIsSpent`: no sender's nonce is in the log twice, and whatever is
  in the log is spent in the live state. The invariant `OnceInv` says that the transactions of
  the log and of the blocks between `ApplyBlock` and `AppendBlock` are spent in the state and
  disjoint; the one lock around `apply_block` is enough for it, and a restart restores it
  because a replay that succeeds has applied every block of the log.

and for one publishing thread:

* `OnePublisherOneChain`: its parent still is the tip at the append.
* `CountersMatchReplay`, `StateMatchesReplay`, `NodeStartsAgain`: with kills, kills inside an
  append, failed appends and blocks refused anywhere in `apply_block`. The state says itself what
  has happened to it: `applied` are the blocks it has applied, `partly` that a refused block has
  left a part of itself. The invariant `Serial` says how far the state and each counter are ahead
  of the replay of the log at every step of `try_apply_block`, as long as no applied block is
  missing from the log; that without `partly` the state is that replay; and that a log which
  is not tainted can be replayed. `MintedMatchesLog` needs no condition on `partly`, because the
  counters are written only after `apply_block` has succeeded; `LiveMatchesReplay` does, and
  `node_restart` shows why.
* `ExplorerAgrees` and `ChartAgrees`, what the queries tell of the chain. Block k of the log has
  height k - 1, so a height finds one block, and no block is older than its parent; dates stay
  within the clock's (`Dated`), and the replay of the rewards that the chart does for itself computes
  what the start-up replay does (`RunningIsReplay`). A nonce is the number of the sender's
  transactions in the log because each block that applied moved it by as many (`NonceCounts`);
  a block that was refused half way or not logged breaks that, so the property excepts it.
  For the sampling, a set of places listed by rank is listed in order, and what every stride-th
  place leaves of it is bounded by the rounding of the stride (`StridedFew`).

**MempoolProofs**: `TypeCorrect`, `AlwaysWithinCap`, `OneOutForOneIn`, from the type invariant
and the capacity: an eviction removes exactly the one entry that is first by time and hash.

**ConsensusProofs**

* `TypeCorrect`, `BudgetKept`, `OvershootIsBounded`, `AheadAlwaysPaysLess` of Emission, for
  every monotone schedule. `OvershootBudget` is the inductive form: the last reward measures
  how much of the allowance ahead of the calendar is left, because a reward ahead of it is at
  most (100 - pct)% of the one before.
* `RetargetsExactly`, for every width of a limb: a carry is at most the factor, a digit of the
  quotient always fits a limb, and a product or quotient up to some limb is related to the
  exact one by the carry or the remainder that is still to come. A quotient with a fifth limb
  is above the largest target, so saturation is the only inexactness.
* `CeilingIsKept`, `StepsAreSmall` and `ScheduleIsFollowed` of ASERT, for every width of a byte,
  a target and the fixed point, every spacing and time constant, and initial bits of any form.
  Three arguments meet in `AsertStep`. On the high half (`NextHi`): below the ceiling neither
  product with 100 or 108 saturates, the bounds of the clamp are in order and lie on both sides
  of the parent, and the multiplier is on the schedule's side of one whatever the two divisions
  round away. On digits (`ValueSplit`, `ValueShift`, `DigitsGiveValue`): replacing the high half
  moves the value by the difference of the halves times 2^128. On compact bits (`TargetOfBits`,
  `TruncatedAbove`): through `bits_from_target` and back a target keeps two or three bytes from
  the first that is not zero, two if that byte has its highest bit set; whatever compact bits
  express and is not above a target is not above what they keep of it. The last fact is why a
  late block never makes mining harder, although compact bits round down. The invariant under
  them is only that bits are an exponent and a mantissa (`Headed`); the ceiling is preserved by
  each step on its own, which is what `CeilingHolds` says.

**FinalityProofs**: `TypeCorrect`, `CertsHaveQuorum`, `AggregatesHaveQuorum`, `CertsAgree`,
`CertsAtBoundary`, `FinalizedForGood`. The votes of a certificate that passes, or the bits of
its bitmap, are mapped injectively into the members that signed it; the invariant adds that
honest validators sign once per epoch and round, on boundaries, so that the common honest
signer of two certificates forces them to agree.

**GuiProofs**

* `PaysKeysThatWereSaved`: the wallet, the coinbase of every generation of workers that was
  started with one, the requests in flight and the chain hold keys that were once completely in
  the file; generations started without a wallet have the burn coinbase, and so have their
  requests and blocks (`KeysInv`).
* `CountersFollowTheChain`: the invariant `CountInv` says that a worker has at most one
  request that it waits for or answer on its way, that a generation that has not started has left
  no trace, and that a request or an answer nobody waits for any more was counted as rejected
  when it timed out (`LateWereRejected`). Without the answers on their way (`Unreported`) the
  upper bound is false between the node's append and the worker's count.

**StoreGossipProofs**

* `ReadableLogIsCached` and `AckedBlocksSurvive`, for every size of prefix and body. The
  invariant `LogInv` is that the file parses into whole records and a rest, and that either
  the rest makes every later reading fail for good, or cache and acknowledged blocks are those
  of the whole records. A record appended behind a torn one is why the first case must be
  stable.
* `BrokerImplementsGossip`: step by step, `join` and a repeated `subscribe` stutter, the others
  are the steps of Gossip of the same name. The invariant `BrokerInv` says that an inbox is
  what is due to its peer: the log from its cursor, filtered by the topics it had at the time.
* `StoreAnswersLikeMemState`: the bytes under the root, not only the answers of `get`. The
  invariant is that the directory is the image of the map under `encode_key` and that a cached
  root is the current one unless a read failed; `encode_key` is injective and keeps the order,
  and rank commutes with an order isomorphism.

How data are handled. The library's induction theorems do not fit the provers, but induction
with the hypothesis written as a set does (`NatSetInduction` of Foundations: a set of numbers
with 0 and closed under successor has them all). With it the recursive functions of the models
(`Replay`, the reader of the log, what is due to a peer, sums over accounts) are shown to exist
and to satisfy their equations.

Only model-checked: liveness (`ChainGrows`, `WorkersEnd`), since the prover does not do
fairness. The schedule of EmissionSchedule, which Emission takes as a
parameter, enters the runs by its definition and the proofs by `ScheduleAssumption`, which TLC
evaluates for it.

## Not modelled

* Accordion and reflection windows (`accordion.rs`, `reflection.rs`): pure functions that
  nothing in the node calls.
* Contract VM: no transaction reaches it, `apply_block` refuses `DeployContract` and
  `CallContract`.
* Cryptography, hashes, CBOR: library wrappers and conversions; signatures are modelled by
  their maker, hashes as injective names.
* Saturation of u64 nonces and of the u128 sums in emission: out of reach of real values.
* A read error of RocksDB, which `get` turns into None (`rocks_store.rs:160`).
* Limits on request sizes and the texts of answers; command line, explorer page, web pages,
  simulations, scripts.
* `cmd_init` passes parent height u64::MAX, which a debug build rejects by overflow; one
  expression with constant arguments.

## Plan

Done: Ledger, Mempool, Node with Queries, Emission, Difficulty, ChainStore, Finality, Broker
with Gossip, RocksStore, Gui and their runs; the proofs listed above. Left to whoever extends
the system:

1. **Finality in the node**: once `try_apply_block` or a fork choice calls the crate, replace
   the external surroundings of Finality by the caller.
2. **RocksStore under the node**: once the node opens it, a kill between the writes of
   `apply_block` becomes a state that a restart finds, and Node's `Restart` has to start from it.
3. **A lock around check and append**: with it `ChainLinked` would hold for both threads, and
   the run `node_race_chain` turn from a violation into a pass.
4. **`apply_block` on a copy of the state**: with it `partly` could not happen, and
   `node_restart` would pass; taking refused transactions out of the pool would do the same
   for `node_stall`.
