------------------------------ MODULE Queries ------------------------------
(***************************************************************************)
(* The read-only side of the node: what ChainStore's readers and the       *)
(* JSON-RPC queries of rpc.rs answer in a state of module Node.  A query   *)
(* changes nothing, so it is an operator on the state, not an action.      *)
(* Texts, hexadecimal and JSON shapes are left out; a block stands for its *)
(* summary and its detail.                                                 *)
(***************************************************************************)
EXTENDS Node, FiniteSetsExt, Sums

CONSTANTS
    ListCap,    \* blocks that list_blocks returns at most (500)
    PointCap    \* upper end of the clamp on a chart's points (500)

ASSUME CapAssumption == ListCap \in Nat /\ PointCap \in Nat \ {0, 1}

\* Genesis earns nothing, and the first block after it is paid the same whether its parent's
\* reward is unknown or zero (the first and the last test of current_reward_with_height).
ASSUME RewardAssumption ==
    /\ Reward(GenesisTime, GenesisTime, 0, 0, None) = 0
    /\ \A ts \in 0 .. GenesisTime + MaxTime + Skew :
           Reward(ts, GenesisTime, 0, 1, 0) = Reward(ts, GenesisTime, 0, 1, None)

Least(a, b) == IF a < b THEN a ELSE b

-----------------------------------------------------------------------------
(* ChainStore.  load_all reads the file and tip the cache; module ChainStore shows that they
   agree whenever the file can be read, that is, unless it is torn. *)

load_all == disk

\* Mutant: the oldest of the recent blocks comes first.
recent_oldest_first(n) == SubSeq(load_all, Len(load_all) - Least(n, Len(load_all)) + 1, Len(load_all))

recent(n) == [i \in 1 .. Least(n, Len(load_all)) |-> load_all[Len(load_all) + 1 - i]]

\* The first block of that height.
get_by_height(h) ==
    LET found == {k \in DOMAIN load_all : load_all[k].height = h}
    IN IF found = {} THEN None ELSE load_all[Min(found)]

-----------------------------------------------------------------------------
(* JSON-RPC queries. *)

list_blocks(limit) == recent(Least(limit, ListCap))
get_block(height) == get_by_height(height)

\* get_info and /metrics report the bits that the node was started with.
info ==
    [height |-> Tip.height, tip_hash |-> Tip.id, bits |-> GenesisBits,
     genesis_offset |-> now - GenesisTime, mempool_size |-> Cardinality(DOMAIN inner)]
prometheus_metrics ==
    [height |-> Tip.height, mempool_size |-> Cardinality(DOMAIN inner), bits |-> GenesisBits,
     minted_so_far |-> minted, genesis_offset |-> now - GenesisTime]

\* get_account and get_balance: an account that was never written has the default nonce.
get_account(s) == [nonce |-> state.nonce[s]]

-----------------------------------------------------------------------------
(* emission_series: the chart of the supply. *)

\* Mutant: the replay starts every reward from an empty chain.
running_from_zero(log) ==
    LET R[k \in DOMAIN log] ==
            IF k = 1 THEN [total |-> 0, prev |-> None]
            ELSE LET r == R[k - 1]
                     reward == Reward(log[k].ts, log[k - 1].ts, 0, log[k].height, r.prev)
                 IN [total |-> r.total + reward, prev |-> reward]
    IN R

\* The replay of the rewards, from the second block on; a parent is the block before.
running(log) ==
    LET R[k \in DOMAIN log] ==
            IF k = 1 THEN [total |-> 0, prev |-> None]
            ELSE LET r == R[k - 1]
                     reward == Reward(log[k].ts, log[k - 1].ts, r.total, log[k].height, r.prev)
                 IN [total |-> r.total + reward, prev |-> reward]
    IN R

\* Of blocks with the same height the last one is kept.
cumulative_by_height(log, h) ==
    LET at == {k \in DOMAIN log : log[k].height = h}
    IN running(log)[Max(at)].total

\* The blocks of the log that are in the window, by their place in the log.
in_window(seconds) == {k \in DOMAIN load_all : load_all[k].ts + seconds >= Tip.ts}

points(wanted) == IF wanted < 2 THEN 2 ELSE Least(wanted, PointCap)
stride(len, n) == IF len \div n = 0 THEN 1 ELSE len \div n

\* The position of k when S is listed in order, from 0.
Position(S, k) == Cardinality({j \in S : j < k})

\* Every stride-th block of the window; the last one is pushed unless it is there already.
samples(seconds, wanted) ==
    LET window == in_window(seconds)
        step == stride(Cardinality(window), points(wanted))
        strided == {k \in window : Position(window, k) % step = 0}
    IN IF load_all[Max(strided)].height = load_all[Max(window)].height
       THEN strided ELSE strided \cup {Max(window)}

emission_series(seconds, wanted) ==
    LET picked == samples(seconds, wanted)
        sample(i) == load_all[CHOOSE k \in picked : Position(picked, k) = i - 1]
    IN [i \in 1 .. Cardinality(picked) |->
            [height |-> sample(i).height, timestamp |-> sample(i).ts,
             minted |-> cumulative_by_height(load_all, sample(i).height)]]

-----------------------------------------------------------------------------
(* Properties. *)

\* Between blocks, unless an append has failed or the log cannot be started from, the chart of
\* emission_series ends at the tip with the counter of the live node, every sample is what
\* start-up would have counted at that block, without fees (rpc.rs:654-656: "so the chart matches
\* what's actually on-chain"), samples are in order, and there are fewer than twice as many as
\* asked for.
ChartFollowsChain ==
    Settled /\ tail # "torn" /\ Replay(disk).ok =>
        LET minted_at == [h \in 0 .. Tip.height |-> Replay(SubSeq(disk, 1, h + 1)).minted] IN
        \A seconds \in 0 .. MaxTime, wanted \in 1 .. PointCap + 1 :
        LET s == emission_series(seconds, wanted)
        IN /\ s[Len(s)] = [height |-> info.height, timestamp |-> Tip.ts, minted |-> minted]
           /\ \A i \in DOMAIN s : s[i].minted = minted_at[s[i].height]
           /\ \A i, j \in DOMAIN s : i < j => s[i].height < s[j].height
           /\ wanted \in 2 .. PointCap => Len(s) < 2 * wanted

\* Between blocks, what a wallet and an explorer read agree: blocks are listed newest first down
\* from get_info's tip, get_block finds each of them by its height, and, unless a block was
\* refused half way or not logged, the nonce that get_account gives a wallet is the number of its
\* transactions in the blocks on show.
ExplorerMatchesAccounts ==
    Quiet /\ tail # "torn" =>
        /\ \A limit \in 0 .. ListCap + 1 :
               LET l == list_blocks(limit)
               IN \A i \in DOMAIN l : /\ l[i].height = info.height + 1 - i
                                      /\ get_block(l[i].height) = l[i]
        /\ get_block(info.height).id = info.tip_hash /\ get_block(info.height + 1) = None
        /\ Settled /\ ~ state.partly => \A s \in Senders :
               get_account(s).nonce =
                   SumOf([h \in 1 .. info.height |-> Cardinality(
                              {m \in DOMAIN get_block(h).txs : Sender[get_block(h).txs[m]] = s})],
                         1 .. info.height)
=============================================================================
