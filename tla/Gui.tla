-------------------------------- MODULE Gui ---------------------------------
(***************************************************************************)
(* pygrove-gui (crates/gui): the UI thread with its wallet file, and the   *)
(* miner's worker threads, which outlive the handle that started them.     *)
(* Every click on Mine starts a generation of workers with its own stop    *)
(* flag, counters and coinbase.  The node at the other end is reduced to   *)
(* its chain and its queue of requests (module Node has it in full); a     *)
(* header is its parent, which is the length of the chain it extends.      *)
(***************************************************************************)
EXTENDS Naturals, Sequences, FiniteSets

CONSTANTS
    Threads,      \* workers of a generation
    None,         \* no wallet
    Absent, Torn, \* wallet.json does not exist; holds part of a wallet
    Burn,         \* the all-zero coinbase
    Pasts,        \* what earlier sessions may have left: keys, saved, file, launches, gens
    MaxGens,      \* bound: clicks that start mining
    MaxKeys,      \* bound: keypairs generated
    MaxLaunches,  \* bound: starts of the program
    MaxHeight,    \* bound: length of the chain
    MaxQueue,     \* bound: requests waiting at the node
    MaxCount      \* the counters stop here

ASSUME GuiBoundAssumption ==
    /\ MaxGens \in Nat /\ MaxKeys \in Nat /\ MaxLaunches \in Nat
    /\ MaxHeight \in Nat /\ MaxQueue \in Nat /\ MaxCount \in Nat /\ MaxCount >= MaxHeight
    /\ IsFiniteSet(Threads)

\* What wallet.json holds at the start was completely saved once, or is torn.
ASSUME GuiPastAssumption ==
    \A past \in Pasts :
        /\ past.gens \in 0 .. MaxGens /\ past.keys \in 0 .. MaxKeys /\ past.launches \in Nat
        /\ past.saved \subseteq 1 .. past.keys
        /\ past.file \in past.saved \cup {Absent, Torn}

Gens == 1 .. MaxGens
Keys == 1 .. MaxKeys

VARIABLES
    running, launches,   \* the program runs; how often it was started
    wallet,              \* the Rc<RefCell<Option<Wallet>>> of main
    file,                \* wallet.json
    saving,              \* the UI thread is in Wallet::save: "no", "open" or "write"
    keys,                \* keypairs generated; the last one is the one being saved
    saved,               \* keypairs that were at some time completely in wallet.json
    slot,                \* miner_slot: the generation whose handle it holds, or 0
    gens,                \* generations started
    stop, coinbase,      \* by generation
    walletless,          \* history: the generations started while no wallet was loaded
    accepted, rejected,  \* by generation
    pc, parent,          \* by generation and worker; parent is the template's, 0 without one
    answer,              \* by generation and worker: the node's answer, while it is on its way
    queue,               \* submit_block requests that the node has not read
    chain                \* the node's blocks: who mined them and the key they pay

ui == <<running, launches, wallet, file, saving, keys, saved, slot, gens, stop, coinbase, walletless>>
counters == <<accepted, rejected>>
workers == <<pc, parent>>
node == <<answer, queue, chain>>
vars == <<ui, counters, workers, node>>

Init ==
    /\ \E past \in Pasts :
           /\ launches = past.launches /\ file = past.file /\ keys = past.keys
           /\ saved = past.saved /\ gens = past.gens
    /\ running = FALSE /\ wallet = None /\ saving = "no" /\ slot = 0
    /\ stop = [g \in Gens |-> FALSE] /\ coinbase = [g \in Gens |-> Burn]
    /\ accepted = [g \in Gens |-> 0] /\ rejected = [g \in Gens |-> 0]
    /\ pc = [g \in Gens |-> [w \in Threads |-> IF g <= gens THEN "killed" ELSE "off"]]
    /\ parent = [g \in Gens |-> [w \in Threads |-> 0]]
    /\ answer = [g \in Gens |-> [w \in Threads |-> "none"]]
    /\ queue = << >> /\ chain = << >> /\ walletless = {}

-----------------------------------------------------------------------------
(* The UI thread. *)

Idle == running /\ saving = "no"

\* A keypair that nobody had before.
generate == keys < MaxKeys /\ keys' = keys + 1

\* A file that cannot be parsed gives no wallet.
load == IF file = Torn THEN None ELSE file

load_or_create ==
    IF file = Absent
    THEN generate /\ saving' = "open" /\ wallet' = None
    ELSE keys' = keys /\ saving' = "no" /\ wallet' = load

\* main
Launch ==
    /\ ~ running /\ launches < MaxLaunches
    /\ running' = TRUE /\ launches' = launches + 1
    /\ load_or_create
    /\ UNCHANGED <<file, saved, slot, gens, stop, coinbase, walletless,
                   counters, workers, node>>

\* Mutant: the new keypair is in use before it is saved.
Regenerate_swaps_first ==
    /\ Idle /\ generate
    /\ saving' = "open" /\ wallet' = keys + 1
    /\ UNCHANGED <<running, launches, file, saved, slot, gens, stop, coinbase, walletless,
                   counters, workers, node>>

Regenerate ==
    /\ Idle /\ generate
    /\ saving' = "open"
    /\ UNCHANGED <<running, launches, wallet, file, saved, slot, gens, stop, coinbase, walletless,
                   counters, workers, node>>

\* fs::write opens and truncates, then writes; either may fail, and then the wallet in use stays.
SaveOpen ==
    /\ saving = "open"
    /\ \/ file' = Torn /\ saving' = "write"
       \/ file' = file /\ saving' = "no"
    /\ UNCHANGED <<running, launches, wallet, keys, saved, slot, gens, stop, coinbase, walletless,
                   counters, workers, node>>

SaveWrite ==
    /\ saving = "write" /\ saving' = "no"
    /\ \/ file' = keys /\ saved' = saved \cup {keys} /\ wallet' = keys
       \/ UNCHANGED <<file, saved, wallet>>
    /\ UNCHANGED <<running, launches, keys, slot, gens, stop, coinbase, walletless,
                   counters, workers, node>>

\* miner::start: a flag and counters of their own for the workers of generation g.
start(g, pays) ==
    /\ coinbase' = [coinbase EXCEPT ![g] = pays]
    /\ pc' = [pc EXCEPT ![g] = [w \in Threads |-> "outer"]]

\* A click on Mine ...
StartMining ==
    /\ Idle /\ slot = 0 /\ gens < MaxGens
    /\ gens' = gens + 1 /\ slot' = gens + 1
    /\ start(gens + 1, IF wallet = None THEN Burn ELSE wallet)
    /\ walletless' = IF wallet = None THEN walletless \cup {gens + 1} ELSE walletless
    /\ UNCHANGED <<running, launches, wallet, file, saving, keys, saved, stop, counters,
                   parent, node>>

\* ... and the next one: the flag is set, nobody is joined.
StopMining ==
    /\ Idle /\ slot # 0
    /\ stop' = [stop EXCEPT ![slot] = TRUE] /\ slot' = 0
    /\ UNCHANGED <<running, launches, wallet, file, saving, keys, saved, gens, coinbase, walletless,
                   counters, workers, node>>

\* The window is closed, or the program is killed; requests it has sent stay with the node.
Quit ==
    /\ running /\ running' = FALSE /\ saving' = "no" /\ wallet' = None /\ slot' = 0
    /\ pc' = [g \in Gens |-> [w \in Threads |-> IF g <= gens THEN "killed" ELSE "off"]]
    /\ queue' = [i \in DOMAIN queue |-> [queue[i] EXCEPT !.waiting = FALSE]]
    /\ stop' = [g \in Gens |-> FALSE] /\ coinbase' = [g \in Gens |-> Burn]
    /\ accepted' = [g \in Gens |-> 0] /\ rejected' = [g \in Gens |-> 0]
    /\ parent' = [g \in Gens |-> [w \in Threads |-> 0]]
    /\ answer' = [g \in Gens |-> [w \in Threads |-> "none"]]
    /\ UNCHANGED <<launches, file, keys, saved, gens, walletless, chain>>

-----------------------------------------------------------------------------
(* worker(thread_id, ...) of a generation. *)

Goto(g, w, label) == pc' = [pc EXCEPT ![g][w] = label]
Count(c, g) == [c EXCEPT ![g] = IF @ < MaxCount THEN @ + 1 ELSE @]

\* The template goes out of scope.
Drop(g, w, label) == Goto(g, w, label) /\ parent' = [parent EXCEPT ![g][w] = 0]

\* A worker returns.  The handle is gone by then, so the last worker frees what they share.
End(g, w) ==
    LET last == \A v \in Threads \ {w} : pc[g][v] = "done"
        Freed(table, v) == IF last THEN [table EXCEPT ![g] = v] ELSE table
    IN /\ Drop(g, w, "done")
       /\ stop' = Freed(stop, FALSE) /\ coinbase' = Freed(coinbase, Burn)
       /\ accepted' = Freed(accepted, 0) /\ rejected' = Freed(rejected, 0)
       /\ UNCHANGED <<running, launches, wallet, file, saving, keys, saved, slot, gens,
                      walletless, node>>

\* The end of a batch of nonces: on with the same template, or out after ten seconds on it.
Resume(g, w) == (Goto(g, w, "check") /\ parent' = parent) \/ Drop(g, w, "outer")

OuterStop(g, w) ==
    pc[g][w] = "outer" /\ stop[g] /\ End(g, w)

\* What the node offers: a header on its tip.
rpc_get_template == Len(chain)

\* A call that fails is made again after two seconds; a stop during the call is seen below.
GetTemplate(g, w) ==
    /\ pc[g][w] = "outer" /\ ~ stop[g] /\ Goto(g, w, "check")
    /\ parent' = [parent EXCEPT ![g][w] = rpc_get_template]
    /\ UNCHANGED <<ui, counters, node>>

\* Mutant: the loop over nonces is continued, not left.
InnerStop_continues(g, w) ==
    pc[g][w] = "check" /\ stop[g] /\ UNCHANGED vars

InnerStop(g, w) ==
    pc[g][w] = "check" /\ stop[g] /\ End(g, w)

InnerGo(g, w) ==
    /\ pc[g][w] = "check" /\ ~ stop[g] /\ Goto(g, w, "hash")
    /\ UNCHANGED <<ui, counters, parent, node>>

\* None of 4096 nonces meets the target.
Exhaust(g, w) ==
    /\ pc[g][w] = "hash" /\ Resume(g, w)
    /\ UNCHANGED <<ui, counters, node>>

\* The block goes to the node, and the worker waits for the answer.
rpc_submit_block(g, w) ==
    queue' = Append(queue, [gen |-> g, worker |-> w, parent |-> parent[g][w],
                            pays |-> coinbase[g], waiting |-> TRUE])

\* A nonce meets the target and the block is submitted.  After the answer the worker goes on
\* from the same nonce, and submits the same block again.
Find(g, w) ==
    /\ pc[g][w] = "hash" /\ Len(queue) < MaxQueue /\ Goto(g, w, "submit")
    /\ rpc_submit_block(g, w)
    /\ UNCHANGED <<ui, counters, parent, answer, chain>>

\* A nonce meets the target and the node cannot be reached.
SendFails(g, w) ==
    /\ pc[g][w] = "hash" /\ Resume(g, w)
    /\ rejected' = Count(rejected, g)
    /\ UNCHANGED <<ui, accepted, node>>

\* Five seconds without the answer.  The request may still be on its way to the node, or the node
\* has acted on it and its answer is late or lost: nobody reads it any more.
Timeout(g, w) ==
    /\ pc[g][w] = "submit" /\ Resume(g, w)
    /\ rejected' = Count(rejected, g)
    /\ answer' = [answer EXCEPT ![g][w] = "none"]
    /\ queue' = [i \in DOMAIN queue |->
                    IF queue[i].gen = g /\ queue[i].worker = w
                    THEN [queue[i] EXCEPT !.waiting = FALSE] ELSE queue[i]]
    /\ UNCHANGED <<ui, accepted, chain>>

\* Mutant: any answer counts as an acceptance.
Answered_any(g, w, ok) == accepted' = Count(accepted, g) /\ rejected' = rejected

Answered(g, w, ok) ==
    /\ accepted' = IF ok THEN Count(accepted, g) ELSE accepted
    /\ rejected' = IF ok THEN rejected ELSE Count(rejected, g)

\* The answer arrives in time.
Receive(g, w) ==
    /\ pc[g][w] = "submit" /\ answer[g][w] # "none" /\ Resume(g, w)
    /\ Answered(g, w, answer[g][w] = "ok")
    /\ answer' = [answer EXCEPT ![g][w] = "none"]
    /\ UNCHANGED <<ui, queue, chain>>

Worker(g, w) ==
    \/ OuterStop(g, w) \/ GetTemplate(g, w) \/ InnerStop(g, w) \/ InnerGo(g, w)
    \/ Exhaust(g, w) \/ Find(g, w) \/ SendFails(g, w) \/ Timeout(g, w) \/ Receive(g, w)

-----------------------------------------------------------------------------
(* The node and the other miners. *)

\* One request is read and tried as a block, and a worker that still waits is answered.  A block on
\* the tip may be refused as well: its bits are the genesis ones, and the bits it should have depend
\* on its own timestamp; the clock, the launch gate and its transactions may be against it too.
Process ==
    /\ queue # << >> /\ queue' = Tail(queue)
    /\ LET r == Head(queue) IN
       \E ok \in BOOLEAN :
          /\ ok => r.parent = Len(chain) /\ Len(chain) < MaxHeight
          /\ chain' = IF ok THEN Append(chain, [gen |-> r.gen, pays |-> r.pays]) ELSE chain
          /\ answer' = IF r.waiting
                       THEN [answer EXCEPT ![r.gen][r.worker] = IF ok THEN "ok" ELSE "err"]
                       ELSE answer
    /\ UNCHANGED <<ui, counters, workers>>

OtherMiner ==
    /\ Len(chain) < MaxHeight
    /\ chain' = Append(chain, [gen |-> 0, pays |-> Burn])
    /\ UNCHANGED <<ui, counters, workers, answer, queue>>

Next ==
    \/ Launch \/ Regenerate \/ SaveOpen \/ SaveWrite \/ StartMining \/ StopMining \/ Quit
    \/ \E g \in Gens, w \in Threads : Worker(g, w)
    \/ Process \/ OtherMiner

\* Threads are scheduled, and every call of a worker ends within five seconds.
Spec == Init /\ [][Next]_vars /\ \A g \in Gens, w \in Threads : WF_vars(Worker(g, w))

-----------------------------------------------------------------------------
(* Properties. *)

\* Whatever fails while a wallet is created or replaced, and however long old workers go on, a block
\* of this miner pays a keypair that was once completely saved; it pays nobody if, and only if, its
\* generation was started while no wallet was loaded (main.rs:95-97).
PaysSavedKeys ==
    \A k \in DOMAIN chain : chain[k].gen # 0 =>
        chain[k].pays \in (IF chain[k].gen \in walletless THEN {Burn} ELSE saved)

Mined(g) == Cardinality({k \in DOMAIN chain : chain[k].gen = g})

\* Workers whose block is in the chain and whose answer has not reached them.
Unreported(g) == Cardinality({w \in Threads : answer[g][w] = "ok"})

\* Through timeouts before and after the node has acted, late processing and repeated submissions,
\* "accepted" counts only blocks of the chain, and a block of the chain that it misses was counted
\* as rejected, unless the answer that reports it is on its way.
CountersMatchChain ==
    \A g \in Gens : (\E w \in Threads : pc[g][w] \notin {"done", "killed"}) =>
        /\ accepted[g] + Unreported(g) <= Mined(g)
        /\ Mined(g) <= accepted[g] + rejected[g] + Unreported(g)

\* Once the handle is gone, by a click, a new start or the end of the program, every worker of that
\* generation ends, whatever call it was in.
WorkersEnd ==
    \A g \in Gens : g <= gens /\ slot # g ~>
        \A w \in Threads : pc[g][w] \in {"done", "killed"}
=============================================================================
