------------------------------ MODULE GuiProofs -----------------------------
(***************************************************************************)
(* Proofs about Gui, for every number of workers, generations, keypairs    *)
(* and launches, every chain and queue, and every interleaving of the UI   *)
(* thread, the workers of all generations and the node.  PaysSavedKeys     *)
(* needs to know where every key on its way to the chain comes from;       *)
(* CountersMatchChain needs to know of the requests that nobody waits for  *)
(* any more that each of them was counted as rejected, and of the workers  *)
(* an acceptance is on its way to that their block is in the chain.        *)
(***************************************************************************)
EXTENDS Gui, FiniteSetTheorems, SequenceTheorems, TLAPS

Labels == {"off", "outer", "check", "hash", "submit", "done", "killed"}
Answers == {"none", "ok", "err"}
Payees == Keys \cup {Burn}
Requests == [gen : Gens, worker : Threads, parent : Nat, pays : Payees, waiting : BOOLEAN]
Blocks == [gen : Gens \cup {0}, pays : Payees]

TypeOK ==
    /\ keys \in 0 .. MaxKeys /\ saved \subseteq Keys /\ gens \in 0 .. MaxGens
    /\ saving \in {"no", "open", "write"} /\ slot \in 0 .. MaxGens
    /\ saving # "no" => keys \in Keys
    /\ wallet \in Keys \cup {None}
    /\ file \in Keys \cup {Absent, Torn}
    /\ stop \in [Gens -> BOOLEAN] /\ coinbase \in [Gens -> Payees]
    /\ accepted \in [Gens -> 0 .. MaxCount] /\ rejected \in [Gens -> 0 .. MaxCount]
    /\ pc \in [Gens -> [Threads -> Labels]] /\ parent \in [Gens -> [Threads -> Nat]]
    /\ answer \in [Gens -> [Threads -> Answers]]
    /\ queue \in Seq(Requests) /\ chain \in Seq(Blocks) /\ walletless \subseteq Gens

-----------------------------------------------------------------------------
(* An element of a sequence over T is in T, and so is what Append and Tail leave. *)
LEMMA SeqFacts ==
    ASSUME NEW T, NEW s \in Seq(T)
    PROVE  /\ Len(s) \in Nat /\ DOMAIN s = 1 .. Len(s) /\ \A k \in DOMAIN s : s[k] \in T
           /\ \A e \in T : /\ Append(s, e) \in Seq(T) /\ DOMAIN Append(s, e) = 1 .. Len(s) + 1
                           /\ Append(s, e)[Len(s) + 1] = e
                           /\ \A k \in 1 .. Len(s) : Append(s, e)[k] = s[k]
           /\ s # << >> => /\ Tail(s) \in Seq(T) /\ DOMAIN Tail(s) = 1 .. Len(s) - 1
                           /\ Head(s) = s[1] /\ Len(s) >= 1
                           /\ \A k \in 1 .. Len(s) - 1 : Tail(s)[k] = s[k + 1]
  OBVIOUS

(* An element of a sequence that was appended to is the new one or was there before. *)
LEMMA Appended ==
    ASSUME NEW T, NEW s \in Seq(T), NEW e \in T
    PROVE  \A k \in DOMAIN Append(s, e) :
               Append(s, e)[k] = e \/ (k \in DOMAIN s /\ Append(s, e)[k] = s[k])
  <1> TAKE k \in DOMAIN Append(s, e)
  <1>1. k \in 1 .. Len(s) + 1 /\ Len(s) \in Nat /\ DOMAIN s = 1 .. Len(s)
    BY SeqFacts
  <1>2. k = Len(s) + 1 \/ k \in 1 .. Len(s)
    BY <1>1
  <1> QED BY <1>1, <1>2, SeqFacts

(* A queue in which some requests are no longer waited for is a queue. *)
LEMMA ForsakenQueue ==
    ASSUME NEW q \in Seq(Requests), NEW r,
           r = [i \in DOMAIN q |-> r[i]],
           \A i \in DOMAIN q : r[i] = q[i] \/ r[i] = [q[i] EXCEPT !.waiting = FALSE]
    PROVE  r \in Seq(Requests) /\ DOMAIN r = DOMAIN q
  <1>1. \A i \in 1 .. Len(q) : r[i] \in Requests
    <2>1. \A i \in 1 .. Len(q) : q[i] \in Requests
      OBVIOUS
    <2>2. \A x \in Requests : [x EXCEPT !.waiting = FALSE] \in Requests
      BY DEF Requests
    <2> HIDE DEF Requests
    <2> QED BY <2>1, <2>2
  <1>2. r = [i \in 1 .. Len(q) |-> r[i]]
    OBVIOUS
  <1>3. r \in [1 .. Len(q) -> Requests]
    BY <1>1, <1>2
  <1> HIDE DEF Requests
  <1> QED BY <1>3, SeqDef

(* The worker's elementary steps keep the tables of labels, templates and counters in shape. *)
LEMMA WorkerTables ==
    ASSUME TypeOK, NEW g \in Gens, NEW w \in Threads, NEW label \in Labels, NEW n \in Nat
    PROVE  /\ [pc EXCEPT ![g][w] = label] \in [Gens -> [Threads -> Labels]]
           /\ \A a \in Answers : [answer EXCEPT ![g][w] = a] \in [Gens -> [Threads -> Answers]]
           /\ [parent EXCEPT ![g][w] = n] \in [Gens -> [Threads -> Nat]]
           /\ Count(accepted, g) \in [Gens -> 0 .. MaxCount]
           /\ Count(rejected, g) \in [Gens -> 0 .. MaxCount]
  BY GuiBoundAssumption DEF TypeOK, Count

LEMMA ResumeType ==
    ASSUME TypeOK, NEW g \in Gens, NEW w \in Threads, Resume(g, w)
    PROVE  pc' \in [Gens -> [Threads -> Labels]] /\ parent' \in [Gens -> [Threads -> Nat]]
  <1>1. \A label \in Labels : [pc EXCEPT ![g][w] = label] \in [Gens -> [Threads -> Labels]]
    BY DEF TypeOK
  <1>2. [parent EXCEPT ![g][w] = 0] \in [Gens -> [Threads -> Nat]]
    BY DEF TypeOK
  <1> QED BY <1>1, <1>2 DEF Resume, Drop, Goto, Labels, TypeOK

LEMMA EndType ==
    ASSUME TypeOK, NEW g \in Gens, NEW w \in Threads, End(g, w)
    PROVE  TypeOK'
  <1>1. pc' \in [Gens -> [Threads -> Labels]] /\ parent' \in [Gens -> [Threads -> Nat]]
    BY WorkerTables DEF End, Drop, Goto, Labels
  <1>2. /\ stop' \in [Gens -> BOOLEAN] /\ coinbase' \in [Gens -> Payees]
        /\ accepted' \in [Gens -> 0 .. MaxCount] /\ rejected' \in [Gens -> 0 .. MaxCount]
    BY GuiBoundAssumption DEF TypeOK, End, Payees
  <1> QED BY <1>1, <1>2 DEF TypeOK, End, node

-----------------------------------------------------------------------------
(* Types. *)
LEMMA InitType == Init => TypeOK
  <1> SUFFICES ASSUME Init PROVE TypeOK
    OBVIOUS
  <1>1. /\ keys \in 0 .. MaxKeys /\ saved \subseteq Keys /\ gens \in 0 .. MaxGens
        /\ file \in Keys \cup {Absent, Torn}
    BY GuiBoundAssumption, GuiPastAssumption DEF Init, Keys
  <1>2. pc \in [Gens -> [Threads -> Labels]] /\ parent \in [Gens -> [Threads -> Nat]]
    BY DEF Init, Labels
  <1>a. answer \in [Gens -> [Threads -> Answers]] /\ walletless \subseteq Gens
    BY DEF Init, Answers
  <1>3. queue \in Seq(Requests) /\ chain \in Seq(Blocks)
    BY EmptySeq DEF Init
  <1>4. /\ accepted \in [Gens -> 0 .. MaxCount] /\ rejected \in [Gens -> 0 .. MaxCount]
        /\ stop \in [Gens -> BOOLEAN] /\ coinbase \in [Gens -> Payees] /\ slot \in 0 .. MaxGens
    BY GuiBoundAssumption DEF Init, Payees
  <1> QED BY <1>1, <1>2, <1>a, <1>3, <1>4 DEF Init, TypeOK

LEMMA UiType ==
    ASSUME TypeOK,
           Launch \/ Regenerate \/ SaveOpen \/ SaveWrite \/ StartMining \/ StopMining \/ Quit
    PROVE  TypeOK'
  <1> USE GuiBoundAssumption
  <1>1. CASE Launch
    BY <1>1 DEF Launch, load_or_create, load, generate, TypeOK, Keys, counters, workers, node
  <1>2. CASE Regenerate
    BY <1>2 DEF Regenerate, generate, TypeOK, Keys, counters, workers, node
  <1>3. CASE SaveOpen
    BY <1>3 DEF SaveOpen, TypeOK, Keys, counters, workers, node
  <1>4. CASE SaveWrite
    BY <1>4 DEF SaveWrite, TypeOK, Keys, counters, workers, node
  <1>5. CASE StartMining
    <2>1. gens + 1 \in Gens /\ (IF wallet = None THEN Burn ELSE wallet) \in Payees
      BY <1>5 DEF StartMining, TypeOK, Gens, Payees
    <2>2. coinbase' \in [Gens -> Payees] /\ pc' \in [Gens -> [Threads -> Labels]]
      BY <1>5, <2>1 DEF StartMining, start, TypeOK, Labels
    <2>3. gens' \in 0 .. MaxGens /\ slot' \in 0 .. MaxGens
      BY <1>5, <2>1 DEF StartMining, Gens
    <2>4. walletless' \subseteq Gens
      BY <1>5, <2>1 DEF StartMining, TypeOK
    <2> QED BY <1>5, <2>2, <2>3, <2>4 DEF StartMining, TypeOK, counters, node
  <1>6. CASE StopMining
    <2>1. [stop EXCEPT ![slot] = TRUE] \in [Gens -> BOOLEAN]
      BY DEF TypeOK
    <2>2. slot' \in 0 .. MaxGens
      BY <1>6 DEF StopMining
    <2> QED BY <1>6, <2>1, <2>2 DEF StopMining, TypeOK, counters, workers, node
  <1>7. CASE Quit
    <2>1. queue' \in Seq(Requests)
      BY <1>7, ForsakenQueue DEF Quit, TypeOK
    <2>2. /\ pc' \in [Gens -> [Threads -> Labels]] /\ parent' \in [Gens -> [Threads -> Nat]]
          /\ stop' \in [Gens -> BOOLEAN] /\ coinbase' \in [Gens -> Payees]
          /\ accepted' \in [Gens -> 0 .. MaxCount] /\ rejected' \in [Gens -> 0 .. MaxCount]
          /\ answer' \in [Gens -> [Threads -> Answers]]
      BY <1>7 DEF Quit, Labels, Payees, Answers
    <2> QED BY <1>7, <2>1, <2>2 DEF Quit, TypeOK
  <1> QED BY <1>1, <1>2, <1>3, <1>4, <1>5, <1>6, <1>7

LEMMA WorkerType ==
    ASSUME TypeOK, NEW g \in Gens, NEW w \in Threads, Worker(g, w)
    PROVE  TypeOK'
  <1>1. CASE OuterStop(g, w) \/ InnerStop(g, w)
    BY <1>1, EndType DEF OuterStop, InnerStop
  <1>2. CASE GetTemplate(g, w)
    <2>1. rpc_get_template \in Nat
      BY SeqFacts DEF rpc_get_template, TypeOK
    <2> QED BY <1>2, <2>1, WorkerTables DEF GetTemplate, Goto, Labels, TypeOK, ui, counters, node
  <1>3. CASE InnerGo(g, w)
    BY <1>3, WorkerTables DEF InnerGo, Goto, Labels, TypeOK, ui, counters, node
  <1>4. CASE Exhaust(g, w)
    BY <1>4, ResumeType DEF Exhaust, TypeOK, ui, counters, node
  <1>5. CASE Find(g, w)
    <2>1. [gen |-> g, worker |-> w, parent |-> parent[g][w], pays |-> coinbase[g],
           waiting |-> TRUE] \in Requests
      BY DEF TypeOK, Requests
    <2>2. queue' \in Seq(Requests)
      BY <1>5, <2>1, SeqFacts DEF Find, rpc_submit_block, TypeOK
    <2>3. pc' \in [Gens -> [Threads -> Labels]]
      BY <1>5, WorkerTables DEF Find, Goto, Labels
    <2> QED BY <1>5, <2>2, <2>3 DEF Find, TypeOK, ui, counters
  <1>6. CASE SendFails(g, w)
    BY <1>6, ResumeType, WorkerTables DEF SendFails, Labels, TypeOK, ui, node
  <1>7. CASE Timeout(g, w)
    <2>1. queue' \in Seq(Requests)
      BY <1>7, ForsakenQueue DEF Timeout, TypeOK
    <2>2. rejected' \in [Gens -> 0 .. MaxCount]
      BY <1>7, WorkerTables DEF Timeout, Labels
    <2>3. answer' \in [Gens -> [Threads -> Answers]]
      BY <1>7, WorkerTables DEF Timeout, Labels, Answers
    <2> QED BY <1>7, <2>1, <2>2, <2>3, ResumeType DEF Timeout, TypeOK, ui
  <1>8. CASE Receive(g, w)
    <2>1. accepted' \in [Gens -> 0 .. MaxCount] /\ rejected' \in [Gens -> 0 .. MaxCount]
      BY <1>8, WorkerTables DEF Receive, Answered, Labels, TypeOK
    <2>2. answer' \in [Gens -> [Threads -> Answers]]
      BY <1>8, WorkerTables DEF Receive, Labels, Answers
    <2> QED BY <1>8, <2>1, <2>2, ResumeType DEF Receive, TypeOK, ui
  <1> QED BY <1>1, <1>2, <1>3, <1>4, <1>5, <1>6, <1>7, <1>8 DEF Worker

(* The fields of the requests in the queue. *)
LEMMA QueuedRequests ==
    ASSUME TypeOK
    PROVE  \A i \in DOMAIN queue : /\ queue[i] \in Requests /\ queue[i].gen \in Gens
                                   /\ queue[i].worker \in Threads /\ queue[i].waiting \in BOOLEAN
  <1>1. \A i \in DOMAIN queue : queue[i] \in Requests
    BY SeqFacts DEF TypeOK
  <1> QED BY <1>1 DEF Requests

(* A request at the head of the queue. *)
LEMMA HeadRequest ==
    ASSUME TypeOK, queue # << >>
    PROVE  /\ Head(queue) \in Requests /\ Head(queue) = queue[1] /\ 1 \in DOMAIN queue
           /\ Head(queue).gen \in Gens /\ Head(queue).worker \in Threads
           /\ Head(queue).pays \in Payees /\ Head(queue).waiting \in BOOLEAN
           /\ [gen |-> Head(queue).gen, pays |-> Head(queue).pays] \in Blocks
  <1>1. Head(queue) = queue[1] /\ 1 \in DOMAIN queue
    BY SeqFacts DEF TypeOK
  <1>2. Head(queue) \in Requests
    BY <1>1, SeqFacts DEF TypeOK
  <1> QED BY <1>1, <1>2 DEF Requests, Blocks

LEMMA NodeType ==
    ASSUME TypeOK, Process \/ OtherMiner
    PROVE  TypeOK'
  <1>1. CASE Process
    <2>1. queue # << >> /\ queue' \in Seq(Requests)
      BY <1>1, SeqFacts DEF Process, TypeOK
    <2>2. chain' \in Seq(Blocks)
      BY <1>1, <2>1, HeadRequest, SeqFacts DEF Process, TypeOK
    <2>3. answer' \in [Gens -> [Threads -> Answers]]
      BY <1>1, <2>1, HeadRequest DEF Process, TypeOK, Answers
    <2> QED BY <1>1, <2>1, <2>2, <2>3 DEF Process, TypeOK, ui, counters, workers
  <1>2. CASE OtherMiner
    <2>1. [gen |-> 0, pays |-> Burn] \in Blocks
      BY DEF Blocks, Payees
    <2> QED BY <1>2, <2>1, SeqFacts DEF OtherMiner, TypeOK, ui, counters, workers
  <1> QED BY <1>1, <1>2

LEMMA NextType == TypeOK /\ [Next]_vars => TypeOK'
  <1> SUFFICES ASSUME TypeOK, [Next]_vars PROVE TypeOK'
    OBVIOUS
  <1>1. CASE UNCHANGED vars
    BY <1>1 DEF TypeOK, vars, ui, counters, workers, node
  <1>2. CASE Next
    BY <1>2, UiType, WorkerType, NodeType DEF Next
  <1> QED BY <1>1, <1>2

-----------------------------------------------------------------------------
(* The counters.  Live is the premise of CountersMatchChain. *)
Live(g) == \E w \in Threads : pc[g][w] \notin {"done", "killed"}

(* Positions of the blocks of generation g in a chain c. *)
MinedIn(c, g) == {k \in DOMAIN c : c[k].gen = g}

(* Positions in a queue q of requests of generation g that nobody waits for any more. *)
LateIn(q, g) == {i \in DOMAIN q : q[i].gen = g /\ ~ q[i].waiting}

(* Workers of generation g for whom an acceptance is on its way, in a table of answers a. *)
OkIn(a, g) == {w \in Threads : a[g][w] = "ok"}

(* A worker waits for at most one answer, waits for it in its call, and is sent it once. *)
OneCallEach ==
    /\ \A g \in Gens, w \in Threads : answer[g][w] # "none" => pc[g][w] = "submit"
    /\ \A i \in DOMAIN queue :
           queue[i].waiting => answer[queue[i].gen][queue[i].worker] = "none"
    /\ \A i \in DOMAIN queue :
           queue[i].waiting => pc[queue[i].gen][queue[i].worker] = "submit"
    /\ \A i, j \in DOMAIN queue :
           queue[i].waiting /\ queue[j].waiting /\ queue[i].gen = queue[j].gen
               /\ queue[i].worker = queue[j].worker => i = j

(* A generation that has not started has left no trace. *)
NotYetStarted ==
    \A g \in Gens : g > gens =>
        /\ accepted[g] = 0 /\ rejected[g] = 0 /\ g \notin walletless
        /\ \A w \in Threads : pc[g][w] = "off"
        /\ MinedIn(chain, g) = {} /\ \A i \in DOMAIN queue : queue[i].gen # g

(* a accepted, r rejected, u unreported and m mined blocks, and l late requests, are in order. *)
Agree(a, r, u, m, l) ==
    /\ a + u <= m /\ m <= a + r + u
    /\ r < MaxCount => m + l <= a + r + u

(* Every request that is no longer waited for was counted as rejected, unless that counter is at
   its limit, which is at least the length of any chain. *)
LateWereRejected ==
    \A g \in Gens : Live(g) =>
        Agree(accepted[g], rejected[g], Cardinality(OkIn(answer, g)),
              Cardinality(MinedIn(chain, g)), Cardinality(LateIn(queue, g)))

CountInv == OneCallEach /\ NotYetStarted /\ LateWereRejected /\ Len(chain) <= MaxHeight

Bump(n) == IF n < MaxCount THEN n + 1 ELSE n

(* What may happen to the counts and leaves them in order: a rejection is counted, and another
   request becomes late or an acceptance gets lost with it; an acceptance is counted; a block is
   mined for a worker that waits; a late request is refused, or mined. *)
LEMMA AgreeSteps ==
    ASSUME NEW a \in 0 .. MaxCount, NEW r \in 0 .. MaxCount, NEW u \in Nat, NEW m \in Nat,
           NEW l \in Nat, Agree(a, r, u, m, l), m <= MaxHeight
    PROVE  /\ \A k \in Nat : k <= l + 1 => Agree(a, Bump(r), u, m, k)
           /\ u >= 1 => /\ Agree(a, Bump(r), u - 1, m, l)
                        /\ Agree(a + 1, r, u - 1, m, l) /\ a < MaxCount
           /\ m < MaxHeight => Agree(a, r, u + 1, m + 1, l)
           /\ l >= 1 => /\ Agree(a, r, u, m, l - 1)
                        /\ m < MaxHeight => Agree(a, r, u, m + 1, l - 1)
  BY GuiBoundAssumption DEF Agree, Bump

(* A set of positions of a sequence is finite and no larger than the sequence is long. *)
LEMMA PositionsFinite ==
    ASSUME NEW T, NEW s \in Seq(T), NEW P \in SUBSET DOMAIN s
    PROVE  IsFiniteSet(P) /\ Cardinality(P) \in Nat /\ Cardinality(P) <= Len(s)
  <1>1. Len(s) \in Nat /\ DOMAIN s = 1 .. Len(s)
    BY SeqFacts
  <1>2. IsFiniteSet(1 .. Len(s)) /\ Cardinality(1 .. Len(s)) = Len(s)
    <2>1. 1 \in Int /\ Len(s) \in Int
      BY <1>1
    <2>2. /\ IsFiniteSet(1 .. Len(s))
          /\ Cardinality(1 .. Len(s)) = IF 1 > Len(s) THEN 0 ELSE Len(s) - 1 + 1
      BY <2>1, FS_Interval
    <2> QED BY <1>1, <2>2
  <1>3. IsFiniteSet(P) /\ Cardinality(P) <= Len(s)
    BY <1>1, <1>2, FS_Subset
  <1> QED BY <1>3, FS_CardinalityType

LEMMA PositionCounts ==
    ASSUME TypeOK, NEW g
    PROVE  /\ IsFiniteSet(MinedIn(chain, g)) /\ Cardinality(MinedIn(chain, g)) \in Nat
           /\ Cardinality(MinedIn(chain, g)) <= Len(chain)
           /\ IsFiniteSet(LateIn(queue, g)) /\ Cardinality(LateIn(queue, g)) \in Nat
  <1>1. MinedIn(chain, g) \subseteq DOMAIN chain /\ LateIn(queue, g) \subseteq DOMAIN queue
    BY DEF MinedIn, LateIn
  <1> QED BY <1>1, PositionsFinite DEF TypeOK

LEMMA OkCounts ==
    ASSUME NEW a, NEW g
    PROVE  IsFiniteSet(OkIn(a, g)) /\ Cardinality(OkIn(a, g)) \in Nat
  <1>1. OkIn(a, g) \subseteq Threads
    BY DEF OkIn
  <1>2. IsFiniteSet(OkIn(a, g))
    BY <1>1, FS_Subset, GuiBoundAssumption
  <1> QED BY <1>2, FS_CardinalityType

(* An acceptance is sent to a worker, or has reached it or is no longer waited for. *)
LEMMA OkChanges ==
    ASSUME TypeOK, NEW g \in Gens, NEW h \in Gens, NEW w \in Threads, NEW v \in Answers
    PROVE  LET a == [answer EXCEPT ![h][w] = v] IN
           /\ h # g => OkIn(a, g) = OkIn(answer, g)
           /\ (v = "ok") = (answer[h][w] = "ok") => OkIn(a, g) = OkIn(answer, g)
           /\ h = g /\ v = "ok" /\ answer[h][w] # "ok" =>
                  Cardinality(OkIn(a, g)) = Cardinality(OkIn(answer, g)) + 1
           /\ h = g /\ v # "ok" /\ answer[h][w] = "ok" =>
                  Cardinality(OkIn(a, g)) = Cardinality(OkIn(answer, g)) - 1
  <1> DEFINE a == [answer EXCEPT ![h][w] = v]
  <1>1. \A k \in Gens, u \in Threads : a[k][u] = IF k = h /\ u = w THEN v ELSE answer[k][u]
    BY DEF TypeOK
  <1> HIDE DEF a
  <1>2. h # g => OkIn(a, g) = OkIn(answer, g)
    BY <1>1 DEF OkIn
  <1>3. (v = "ok") = (answer[h][w] = "ok") => OkIn(a, g) = OkIn(answer, g)
    BY <1>1 DEF OkIn
  <1>4. ASSUME h = g, v = "ok", answer[h][w] # "ok"
        PROVE  Cardinality(OkIn(a, g)) = Cardinality(OkIn(answer, g)) + 1
    <2>1. OkIn(a, g) = OkIn(answer, g) \cup {w} /\ w \notin OkIn(answer, g)
      BY <1>1, <1>4 DEF OkIn
    <2> QED BY <2>1, OkCounts, FS_AddElement
  <1>5. ASSUME h = g, v # "ok", answer[h][w] = "ok"
        PROVE  Cardinality(OkIn(a, g)) = Cardinality(OkIn(answer, g)) - 1
    <2>1. OkIn(a, g) = OkIn(answer, g) \ {w} /\ w \in OkIn(answer, g)
      BY <1>1, <1>5 DEF OkIn
    <2> QED BY <2>1, OkCounts, FS_RemoveElement
  <1> QED BY <1>2, <1>3, <1>4, <1>5 DEF a

(* A new block is one more of its generation and none of the others. *)
LEMMA MinedGrows ==
    ASSUME TypeOK, NEW g, NEW b \in Blocks
    PROVE  Cardinality(MinedIn(Append(chain, b), g)) =
               Cardinality(MinedIn(chain, g)) + (IF b.gen = g THEN 1 ELSE 0)
  <1> DEFINE n == Len(chain) + 1
             c == Append(chain, b)
  <1>1. /\ Len(chain) \in Nat /\ DOMAIN chain = 1 .. Len(chain) /\ DOMAIN c = 1 .. n /\ c[n] = b
        /\ \A k \in 1 .. Len(chain) : c[k] = chain[k]
    BY SeqFacts DEF TypeOK
  <1>2. n \in Nat /\ n \notin 1 .. Len(chain) /\ 1 .. n = 1 .. Len(chain) \cup {n}
    BY <1>1
  <1> HIDE DEF c, n
  <1>3. MinedIn(c, g) = MinedIn(chain, g) \cup (IF b.gen = g THEN {n} ELSE {})
    BY <1>1, <1>2 DEF MinedIn
  <1>4. n \notin MinedIn(chain, g)
    BY <1>1, <1>2 DEF MinedIn
  <1>5. CASE b.gen = g
    BY <1>3, <1>4, <1>5, PositionCounts, FS_AddElement DEF c
  <1>6. CASE b.gen # g
    BY <1>3, <1>6, PositionCounts DEF c
  <1> QED BY <1>5, <1>6

(* When the node reads the first request, the others move up by one. *)
LEMMA LateShrinks ==
    ASSUME TypeOK, NEW g, queue # << >>
    PROVE  Cardinality(LateIn(Tail(queue), g)) = Cardinality(LateIn(queue, g) \ {1})
  <1> DEFINE t == Tail(queue)
             f == [i \in LateIn(t, g) |-> i + 1]
             L == LateIn(queue, g) \ {1}
  <1>1. /\ Len(queue) \in Nat /\ DOMAIN queue = 1 .. Len(queue) /\ DOMAIN t = 1 .. Len(queue) - 1
        /\ \A k \in 1 .. Len(queue) - 1 : t[k] = queue[k + 1]
    BY SeqFacts DEF TypeOK
  <1> HIDE DEF t
  <1>2. \A i \in LateIn(t, g) : i \in Nat /\ i + 1 \in L
    BY <1>1 DEF LateIn
  <1>3. \A j \in L : j - 1 \in LateIn(t, g) /\ j - 1 + 1 = j /\ j \in Nat
    BY <1>1 DEF LateIn
  <1> HIDE DEF L
  <1>4. f \in [LateIn(t, g) -> L]
    BY <1>2
  <1>5. \A i, j \in LateIn(t, g) : f[i] = f[j] => i = j
    BY <1>2
  <1>6. \A j \in L : \E i \in LateIn(t, g) : f[i] = j
    BY <1>3
  <1>7. f \in Bijection(LateIn(t, g), L)
    BY <1>4, <1>5, <1>6 DEF Bijection, Injection, Surjection, IsInjective
  <1>8. IsFiniteSet(LateIn(t, g))
    <2>1. t \in Seq(Requests) /\ LateIn(t, g) \subseteq DOMAIN t
      BY SeqFacts DEF TypeOK, t, LateIn
    <2> QED BY <2>1, PositionsFinite
  <1> QED BY <1>7, <1>8, FS_Bijection DEF ExistsBijection, t, L


Active == {"outer", "check", "hash", "submit"}

(* A step of a worker is taken by a worker that runs, and moves no other. *)
LEMMA WorkerMoves ==
    ASSUME TypeOK, NEW g \in Gens, NEW w \in Threads, Worker(g, w)
    PROVE  /\ pc[g][w] \in Active
           /\ \E label : pc' = [pc EXCEPT ![g][w] = label]
           /\ \A h \in Gens, v \in Threads : ~ (h = g /\ v = w) => pc'[h][v] = pc[h][v]
  <1>1. pc[g][w] \in Active
    BY DEF Worker, OuterStop, InnerStop, GetTemplate, InnerGo, Exhaust, Find, SendFails, Timeout,
           Receive, Active
  <1>2. \E label : pc' = [pc EXCEPT ![g][w] = label]
    BY DEF Worker, OuterStop, InnerStop, GetTemplate, InnerGo, Exhaust, Find, SendFails, Timeout,
           Receive, Resume, End, Drop, Goto
  <1>3. \A h \in Gens, v \in Threads : ~ (h = g /\ v = w) => pc'[h][v] = pc[h][v]
    BY <1>2 DEF TypeOK
  <1> QED BY <1>1, <1>2, <1>3

(* Workers do not come back: a generation that is live after a step was live before, one that
   has not started included. *)
LEMMA LiveStays ==
    ASSUME TypeOK, TypeOK', CountInv, Next \/ UNCHANGED vars, NEW g \in Gens, Live(g)'
    PROVE  Live(g)
  <1> PICK w \in Threads : pc'[g][w] \notin {"done", "killed"}
    BY DEF Live
  <1>1. CASE UNCHANGED pc
    BY <1>1 DEF Live
  <1>2. CASE StartMining
    <2>1. g = gens + 1 => pc[g][w] = "off"
      BY <1>2 DEF CountInv, NotYetStarted, TypeOK
    <2>2. g # gens + 1 => pc'[g][w] = pc[g][w]
      BY <1>2 DEF StartMining, start, TypeOK
    <2> QED BY <2>1, <2>2 DEF Live
  <1>3. CASE Quit
    <2>1. g > gens
      BY <1>3 DEF Quit, TypeOK, Gens
    <2> QED BY <2>1 DEF CountInv, NotYetStarted, Live
  <1>4. ASSUME NEW h \in Gens, NEW v \in Threads, NEW label, pc' = [pc EXCEPT ![h][v] = label],
               pc[h][v] \notin {"done", "killed"}
        PROVE  Live(g)
    <2>1. g = h /\ w = v => pc[g][w] \notin {"done", "killed"}
      BY <1>4
    <2>2. ~ (g = h /\ w = v) => pc'[g][w] = pc[g][w]
      BY <1>4 DEF TypeOK
    <2> QED BY <2>1, <2>2 DEF Live
  <1>5. ASSUME NEW h \in Gens, NEW v \in Threads, Worker(h, v) PROVE Live(g)
    <2>1. pc[h][v] \notin {"done", "killed"}
      BY <1>5, WorkerMoves DEF Active
    <2> QED BY <1>4, <1>5, <2>1, WorkerMoves
  <1>6. CASE Process
    BY <1>1, <1>6 DEF Process, workers
  <1> QED
    BY <1>1, <1>2, <1>3, <1>5, <1>6
    DEF Next, Launch, Regenerate, SaveOpen, SaveWrite, StopMining, OtherMiner, workers, vars


(* The steps of workers that leave the queue alone. *)
Local(g, w) ==
    \/ OuterStop(g, w) \/ GetTemplate(g, w) \/ InnerStop(g, w) \/ InnerGo(g, w)
    \/ Exhaust(g, w) \/ SendFails(g, w)

LEMMA LocalStep ==
    ASSUME NEW g \in Gens, NEW w \in Threads, Local(g, w)
    PROVE  /\ pc[g][w] \in {"outer", "check", "hash"} /\ UNCHANGED <<answer, queue, chain, gens, walletless>>
           /\ \E label : pc' = [pc EXCEPT ![g][w] = label]
  BY DEF Local, OuterStop, InnerStop, GetTemplate, InnerGo, Exhaust, SendFails, Resume, End, Drop,
         Goto, node, ui

(* A worker that runs belongs to a generation that has started. *)
LEMMA Started ==
    ASSUME TypeOK, CountInv, NEW g \in Gens, NEW w \in Threads, pc[g][w] # "off"
    PROVE  g <= gens
  <1>1. ~ (g > gens)
    BY DEF CountInv, NotYetStarted
  <1> QED BY <1>1 DEF TypeOK, Gens

LEMMA OneCallEachStep ==
    ASSUME TypeOK, CountInv, Next \/ UNCHANGED vars
    PROVE  OneCallEach'
  <1> USE DEF CountInv
  <1>0. \A i \in DOMAIN queue : /\ queue[i] \in Requests /\ queue[i].gen \in Gens
                                /\ queue[i].worker \in Threads /\ queue[i].waiting \in BOOLEAN
    BY QueuedRequests
  <1>1. CASE UNCHANGED <<answer, pc, queue>>
    BY <1>1 DEF OneCallEach
  <1>2. CASE StartMining
    <2>1. gens + 1 \in Gens /\ gens + 1 > gens
      BY <1>2, GuiBoundAssumption DEF StartMining, TypeOK, Gens
    <2>2. \A i \in DOMAIN queue : queue[i].gen # gens + 1
      BY <2>1 DEF NotYetStarted
    <2>3. \A h \in Gens : h # gens + 1 => pc'[h] = pc[h]
      BY <1>2 DEF StartMining, start, TypeOK
    <2>4. \A w \in Threads : pc[gens + 1][w] = "off"
      BY <2>1 DEF NotYetStarted
    <2>5. UNCHANGED <<answer, queue>>
      BY <1>2 DEF StartMining, node
    <2> QED BY <1>0, <2>2, <2>3, <2>4, <2>5 DEF OneCallEach
  <1>3. CASE Quit
    <2>1. \A i \in DOMAIN queue' : ~ queue'[i].waiting
      <3>1. \A x \in Requests : ~ [x EXCEPT !.waiting = FALSE].waiting
        BY DEF Requests
      <3> QED BY <1>0, <1>3, <3>1 DEF Quit
    <2>2. \A g \in Gens, w \in Threads : answer'[g][w] = "none"
      BY <1>3 DEF Quit
    <2> QED BY <2>1, <2>2 DEF OneCallEach
  <1>4. ASSUME NEW g \in Gens, NEW w \in Threads, Local(g, w) PROVE OneCallEach'
    <2>1. \A i \in DOMAIN queue : queue[i].waiting => ~ (queue[i].gen = g /\ queue[i].worker = w)
      BY <1>4, LocalStep DEF OneCallEach
    <2>2. \A h \in Gens, v \in Threads : ~ (h = g /\ v = w) => pc'[h][v] = pc[h][v]
      BY <1>4, LocalStep DEF TypeOK
    <2>3. answer[g][w] = "none" /\ UNCHANGED <<answer, queue>>
      BY <1>4, LocalStep DEF OneCallEach
    <2> QED BY <1>0, <2>1, <2>2, <2>3 DEF OneCallEach
  <1>5. ASSUME NEW g \in Gens, NEW w \in Threads, Find(g, w) PROVE OneCallEach'
    <2> DEFINE r == [gen |-> g, worker |-> w, parent |-> parent[g][w], pays |-> coinbase[g],
                     waiting |-> TRUE]
    <2>1. r \in Requests /\ r.gen = g /\ r.worker = w /\ queue' = Append(queue, r)
      BY <1>5 DEF TypeOK, Requests, Find, rpc_submit_block
    <2> HIDE DEF r
    <2>2. /\ Len(queue) \in Nat /\ DOMAIN queue = 1 .. Len(queue)
          /\ DOMAIN queue' = 1 .. Len(queue) + 1 /\ queue'[Len(queue) + 1] = r
          /\ \A i \in 1 .. Len(queue) : queue'[i] = queue[i]
      BY <2>1, SeqFacts DEF TypeOK
    <2>3. \A i \in DOMAIN queue' : i = Len(queue) + 1 \/ i \in DOMAIN queue
      BY <2>2
    <2>4. pc[g][w] = "hash" /\ pc' = [pc EXCEPT ![g][w] = "submit"]
      BY <1>5 DEF Find, Goto
    <2>5. pc'[g][w] = "submit" /\ \A h \in Gens, v \in Threads : ~ (h = g /\ v = w) => pc'[h][v] = pc[h][v]
      BY <2>4 DEF TypeOK
    <2>6. \A i \in DOMAIN queue : queue[i].waiting => ~ (queue[i].gen = g /\ queue[i].worker = w)
      BY <2>4 DEF OneCallEach
    <2>7. \A i \in DOMAIN queue' :
              queue'[i].waiting => pc'[queue'[i].gen][queue'[i].worker] = "submit"
      BY <1>0, <2>1, <2>2, <2>3, <2>5, <2>6 DEF OneCallEach
    <2>8. \A i, j \in DOMAIN queue' :
              queue'[i].waiting /\ queue'[j].waiting /\ queue'[i].gen = queue'[j].gen
                  /\ queue'[i].worker = queue'[j].worker => i = j
      BY <2>1, <2>2, <2>3, <2>6 DEF OneCallEach
    <2>9. UNCHANGED answer /\ answer[g][w] = "none"
      BY <1>5, <2>4 DEF Find, OneCallEach
    <2>10. \A i \in DOMAIN queue' :
               queue'[i].waiting => answer[queue'[i].gen][queue'[i].worker] = "none"
      BY <2>1, <2>2, <2>3, <2>9 DEF OneCallEach
    <2>11. \A h \in Gens, v \in Threads : answer[h][v] # "none" => pc'[h][v] = "submit"
      BY <2>5 DEF OneCallEach
    <2> QED BY <2>7, <2>8, <2>9, <2>10, <2>11 DEF OneCallEach
  <1>6. ASSUME NEW g \in Gens, NEW w \in Threads, Timeout(g, w) PROVE OneCallEach'
    <2>1. \A x \in Requests : [x EXCEPT !.waiting = FALSE].waiting = FALSE
      BY DEF Requests
    <2>2. /\ DOMAIN queue' = DOMAIN queue
          /\ \A i \in DOMAIN queue : queue'[i].waiting =>
                 queue'[i] = queue[i] /\ ~ (queue[i].gen = g /\ queue[i].worker = w)
      BY <1>0, <1>6, <2>1 DEF Timeout
    <2>3. \E label : pc' = [pc EXCEPT ![g][w] = label]
      BY <1>6 DEF Timeout, Resume, Drop, Goto
    <2>4. \A h \in Gens, v \in Threads : ~ (h = g /\ v = w) => pc'[h][v] = pc[h][v]
      BY <2>3 DEF TypeOK
    <2>5. \A h \in Gens, v \in Threads :
              answer'[h][v] = IF h = g /\ v = w THEN "none" ELSE answer[h][v]
      BY <1>6 DEF Timeout, TypeOK
    <2> QED BY <1>0, <2>2, <2>4, <2>5 DEF OneCallEach
  <1>7. ASSUME NEW g \in Gens, NEW w \in Threads, Receive(g, w) PROVE OneCallEach'
    <2>1. \A h \in Gens, v \in Threads : ~ (h = g /\ v = w) => pc'[h][v] = pc[h][v]
      BY <1>7, WorkerMoves DEF Worker
    <2>2. \A h \in Gens, v \in Threads :
              answer'[h][v] = IF h = g /\ v = w THEN "none" ELSE answer[h][v]
      BY <1>7 DEF Receive, TypeOK
    <2>3. answer[g][w] # "none" /\ UNCHANGED queue
      BY <1>7 DEF Receive
    <2>4. \A i \in DOMAIN queue : queue[i].waiting => ~ (queue[i].gen = g /\ queue[i].worker = w)
      BY <2>3 DEF OneCallEach
    <2> QED BY <1>0, <2>1, <2>2, <2>3, <2>4 DEF OneCallEach
  <1>8. CASE Process
    <2> DEFINE r == Head(queue)
    <2>1. /\ queue # << >> /\ r = queue[1] /\ 1 \in DOMAIN queue
          /\ r.gen \in Gens /\ r.worker \in Threads
      BY <1>8, HeadRequest DEF Process
    <2>2. \A i \in DOMAIN queue' :
              i \in Nat \ {0} /\ i + 1 \in DOMAIN queue /\ queue'[i] = queue[i + 1]
      BY <1>8, <2>1, SeqFacts DEF Process, TypeOK
    <2>3. UNCHANGED pc /\ \/ UNCHANGED answer
                          \/ r.waiting /\ \E v : answer' = [answer EXCEPT ![r.gen][r.worker] = v]
      BY <1>8 DEF Process, workers
    <2> HIDE DEF r
    <2>4. \A h \in Gens, v \in Threads :
              answer'[h][v] = answer[h][v] \/ (r.waiting /\ h = r.gen /\ v = r.worker)
      <3> TAKE h \in Gens, v \in Threads
      <3>1. CASE UNCHANGED answer
        BY <3>1
      <3>2. ASSUME r.waiting, NEW a, answer' = [answer EXCEPT ![r.gen][r.worker] = a]
            PROVE  answer'[h][v] = answer[h][v] \/ (r.waiting /\ h = r.gen /\ v = r.worker)
        BY <2>1, <3>2 DEF TypeOK
      <3> QED BY <2>3, <3>1, <3>2
    <2>5. \A i \in DOMAIN queue :
              i # 1 /\ queue[i].waiting => ~ (r.waiting /\ queue[i].gen = r.gen /\ queue[i].worker = r.worker)
      BY <2>1 DEF OneCallEach
    <2>6. \A i \in DOMAIN queue' :
              queue'[i].waiting => /\ pc'[queue'[i].gen][queue'[i].worker] = "submit"
                                   /\ answer'[queue'[i].gen][queue'[i].worker] = "none"
      BY <1>0, <2>2, <2>3, <2>4, <2>5 DEF OneCallEach
    <2>7. \A i, j \in DOMAIN queue' :
              queue'[i].waiting /\ queue'[j].waiting /\ queue'[i].gen = queue'[j].gen
                  /\ queue'[i].worker = queue'[j].worker => i = j
      BY <2>2 DEF OneCallEach
    <2>8. r.waiting => pc[r.gen][r.worker] = "submit"
      BY <2>1 DEF OneCallEach
    <2>9. \A g \in Gens, w \in Threads : answer'[g][w] # "none" => pc'[g][w] = "submit"
      BY <2>3, <2>4, <2>8 DEF OneCallEach
    <2> QED BY <2>6, <2>7, <2>9 DEF OneCallEach
  <1> QED
    BY <1>1, <1>2, <1>3, <1>4, <1>5, <1>6, <1>7, <1>8
    DEF Next, Worker, Local, Launch, Regenerate, SaveOpen, SaveWrite, StopMining, OtherMiner,
        workers, node, vars


LEMMA NotYetStartedStep ==
    ASSUME TypeOK, CountInv, Next \/ UNCHANGED vars
    PROVE  NotYetStarted'
  <1> USE DEF CountInv
  <1>1. CASE UNCHANGED <<accepted, rejected, pc, chain, queue, gens, walletless>>
    BY <1>1 DEF NotYetStarted
  <1>2. CASE StartMining
    <2>1. gens' = gens + 1 /\ UNCHANGED <<accepted, rejected, chain, queue>>
      BY <1>2 DEF StartMining, counters, node
    <2>2. \A g \in Gens : g > gens' => /\ g > gens /\ pc'[g] = pc[g]
                                       /\ g \in walletless' => g \in walletless
      BY <1>2, <2>1 DEF StartMining, start, TypeOK, Gens
    <2> QED BY <2>1, <2>2 DEF NotYetStarted
  <1>3. CASE Quit
    <2>1. \A g \in Gens, w \in Threads : g > gens => pc'[g][w] = "off"
      BY <1>3 DEF Quit, TypeOK, Gens
    <2>2. \A g \in Gens : accepted'[g] = 0 /\ rejected'[g] = 0
      BY <1>3 DEF Quit
    <2>3. \A i \in DOMAIN queue' : queue'[i].gen = queue[i].gen /\ i \in DOMAIN queue
      <3>1. \A x \in Requests : [x EXCEPT !.waiting = FALSE].gen = x.gen
        BY DEF Requests
      <3> QED BY <1>3, <3>1, QueuedRequests DEF Quit
    <2> QED BY <1>3, <2>1, <2>2, <2>3 DEF Quit, NotYetStarted
  <1>4. ASSUME NEW g \in Gens, NEW w \in Threads, pc[g][w] \notin {"off", "done", "killed"},
               \E label : pc' = [pc EXCEPT ![g][w] = label],
               \A h \in Gens : h # g => accepted'[h] = accepted[h] /\ rejected'[h] = rejected[h],
               \A h \in Gens : h # g => MinedIn(chain', h) = MinedIn(chain, h),
               \A h \in Gens, i \in DOMAIN queue' : queue'[i].gen = h =>
                   h = g \/ \E j \in DOMAIN queue : queue[j].gen = h,
               UNCHANGED <<gens, walletless>>
        PROVE  NotYetStarted'
    <2>1. \A h \in Gens : h > gens => h # g
      <3>1. g <= gens
        BY <1>4, Started
      <3> QED BY <3>1 DEF Gens, TypeOK
    <2>2. \A h \in Gens, v \in Threads : h # g => pc'[h][v] = pc[h][v]
      BY <1>4 DEF TypeOK
    <2> QED BY <1>4, <2>1, <2>2 DEF NotYetStarted
  <1>5. ASSUME NEW g \in Gens, NEW w \in Threads, Local(g, w) PROVE NotYetStarted'
    <2>1. \A h \in Gens : h # g => accepted'[h] = accepted[h] /\ rejected'[h] = rejected[h]
      BY <1>5 DEF Local, OuterStop, InnerStop, GetTemplate, InnerGo, Exhaust, SendFails, End,
                  Count, TypeOK, counters
    <2> QED BY <1>4, <1>5, <2>1, LocalStep
  <1>6. ASSUME NEW g \in Gens, NEW w \in Threads, Find(g, w) PROVE NotYetStarted'
    <2> DEFINE r == [gen |-> g, worker |-> w, parent |-> parent[g][w], pays |-> coinbase[g],
                     waiting |-> TRUE]
    <2>1. r \in Requests /\ r.gen = g /\ queue' = Append(queue, r)
      BY <1>6 DEF TypeOK, Requests, Find, rpc_submit_block
    <2> HIDE DEF r
    <2>2. \A i \in DOMAIN queue' : queue'[i] = r \/ (i \in DOMAIN queue /\ queue'[i] = queue[i])
      BY <2>1, Appended DEF TypeOK
    <2>3. pc[g][w] = "hash" /\ pc' = [pc EXCEPT ![g][w] = "submit"]
          /\ UNCHANGED <<accepted, rejected, chain, gens, walletless>>
      BY <1>6 DEF Find, Goto, ui, counters
    <2>4. \A h \in Gens, i \in DOMAIN queue' : queue'[i].gen = h =>
              h = g \/ \E j \in DOMAIN queue : queue[j].gen = h
      BY <2>1, <2>2
    <2> QED BY <1>4, <2>3, <2>4
  <1>7. ASSUME NEW g \in Gens, NEW w \in Threads, Timeout(g, w) PROVE NotYetStarted'
    <2>1. \A i \in DOMAIN queue' : queue'[i].gen = queue[i].gen /\ i \in DOMAIN queue
      <3>1. \A x \in Requests : [x EXCEPT !.waiting = FALSE].gen = x.gen
        BY DEF Requests
      <3> QED BY <1>7, <3>1, QueuedRequests DEF Timeout
    <2>2. pc[g][w] = "submit" /\ \E label : pc' = [pc EXCEPT ![g][w] = label]
      BY <1>7 DEF Timeout, Resume, Drop, Goto
    <2>3. \A h \in Gens : h # g => accepted'[h] = accepted[h] /\ rejected'[h] = rejected[h]
      BY <1>7 DEF Timeout, Count, TypeOK
    <2>4. UNCHANGED <<chain, gens, walletless>>
      BY <1>7 DEF Timeout, ui
    <2>5. \A h \in Gens, i \in DOMAIN queue' : queue'[i].gen = h =>
              h = g \/ \E j \in DOMAIN queue : queue[j].gen = h
      BY <2>1
    <2>6. pc[g][w] \notin {"off", "done", "killed"}
      BY <2>2
    <2> QED BY <1>4, <2>2, <2>3, <2>4, <2>5, <2>6
  <1>r. ASSUME NEW g \in Gens, NEW w \in Threads, Receive(g, w) PROVE NotYetStarted'
    <2>1. pc[g][w] = "submit" /\ \E label : pc' = [pc EXCEPT ![g][w] = label]
      BY <1>r DEF Receive, Resume, Drop, Goto
    <2>2. \A h \in Gens : h # g => accepted'[h] = accepted[h] /\ rejected'[h] = rejected[h]
      BY <1>r DEF Receive, Answered, Count, TypeOK
    <2>3. UNCHANGED <<chain, queue, gens, walletless>>
      BY <1>r DEF Receive, ui
    <2>4. pc[g][w] \notin {"off", "done", "killed"}
      BY <2>1
    <2> QED BY <1>4, <2>1, <2>2, <2>3, <2>4
  <1>8. CASE Process
    <2> DEFINE r == Head(queue)
               b == [gen |-> r.gen, pays |-> r.pays]
    <2>1. /\ queue # << >> /\ r = queue[1] /\ 1 \in DOMAIN queue
          /\ r.gen \in Gens /\ r.worker \in Threads /\ b \in Blocks
          /\ UNCHANGED <<gens, walletless>>
      BY <1>8, HeadRequest DEF Process, ui
    <2>2. \A i \in DOMAIN queue' : i + 1 \in DOMAIN queue /\ queue'[i] = queue[i + 1]
      BY <1>8, <2>1, SeqFacts DEF Process, TypeOK
    <2>3. chain' = chain \/ chain' = Append(chain, b)
      BY <1>8 DEF Process
    <2>4. \A h \in Gens : MinedIn(chain, h) = {} /\ h # r.gen => MinedIn(chain', h) = {}
      <3>1. b.gen = r.gen
        OBVIOUS
      <3> HIDE DEF b, r
      <3>2. \A k \in DOMAIN Append(chain, b) :
                Append(chain, b)[k] = b \/ (k \in DOMAIN chain /\ Append(chain, b)[k] = chain[k])
        BY <2>1, Appended DEF TypeOK
      <3> QED BY <2>3, <3>1, <3>2 DEF MinedIn
    <2>5. \A g \in Gens : g > gens => g # r.gen
      BY <2>1 DEF NotYetStarted
    <2>6. UNCHANGED <<accepted, rejected, pc>>
      BY <1>8 DEF Process, counters, workers
    <2> QED BY <2>1, <2>2, <2>4, <2>5, <2>6 DEF NotYetStarted
  <1>9. CASE OtherMiner
    <2> DEFINE b == [gen |-> 0, pays |-> Burn]
    <2>1. b \in Blocks /\ b.gen = 0 /\ chain' = Append(chain, b)
      BY <1>9 DEF OtherMiner, Blocks, Payees
    <2> HIDE DEF b
    <2>2. \A k \in DOMAIN chain' : chain'[k] = b \/ (k \in DOMAIN chain /\ chain'[k] = chain[k])
      BY <2>1, Appended DEF TypeOK
    <2>3. \A h \in Gens : MinedIn(chain, h) = {} => MinedIn(chain', h) = {}
      BY <2>1, <2>2 DEF MinedIn, Gens
    <2> QED BY <1>9, <2>3 DEF OtherMiner, NotYetStarted, ui, counters, workers
  <1> QED
    BY <1>1, <1>2, <1>3, <1>5, <1>6, <1>7, <1>r, <1>8, <1>9
    DEF Next, Worker, Local, Launch, Regenerate, SaveOpen, SaveWrite, StopMining,
        counters, workers, node, vars, ui


LEMMA LateWereRejectedStep ==
    ASSUME TypeOK, TypeOK', CountInv, Next \/ UNCHANGED vars
    PROVE  LateWereRejected'
  <1> DEFINE M(g) == Cardinality(MinedIn(chain, g))
             L(g) == Cardinality(LateIn(queue, g))
             U(g) == Cardinality(OkIn(answer, g))
             Good(g) == Agree(accepted[g], rejected[g], U(g), M(g), L(g))
  <1> SUFFICES ASSUME NEW g \in Gens, Live(g)' PROVE Good(g)'
    BY DEF LateWereRejected
  <1> USE DEF CountInv
  <1>0. Live(g) /\ Good(g)
    BY LiveStays DEF LateWereRejected
  <1>t. /\ accepted[g] \in 0 .. MaxCount /\ rejected[g] \in 0 .. MaxCount
        /\ M(g) \in Nat /\ L(g) \in Nat /\ U(g) \in Nat /\ M(g) <= Len(chain) /\ Len(chain) \in Nat
        /\ MaxCount \in Nat /\ MaxHeight \in Nat /\ MaxCount >= MaxHeight
    BY PositionCounts, OkCounts, GuiBoundAssumption, SeqFacts DEF TypeOK
  <1>s. /\ \A k \in Nat : k <= L(g) + 1 => Agree(accepted[g], Bump(rejected[g]), U(g), M(g), k)
        /\ U(g) >= 1 => /\ Agree(accepted[g], Bump(rejected[g]), U(g) - 1, M(g), L(g))
                        /\ Agree(accepted[g] + 1, rejected[g], U(g) - 1, M(g), L(g))
                        /\ accepted[g] < MaxCount
        /\ M(g) < MaxHeight => Agree(accepted[g], rejected[g], U(g) + 1, M(g) + 1, L(g))
        /\ L(g) >= 1 =>
               /\ Agree(accepted[g], rejected[g], U(g), M(g), L(g) - 1)
               /\ M(g) < MaxHeight => Agree(accepted[g], rejected[g], U(g), M(g) + 1, L(g) - 1)
    <2>1. M(g) <= MaxHeight
      BY <1>t
    <2> HIDE DEF M, L, U
    <2> QED BY <1>0, <1>t, <2>1, AgreeSteps
  <1>1. CASE UNCHANGED <<accepted, rejected, answer, chain, queue>>
    BY <1>0, <1>1
  <1>2. CASE Quit
    <2>1. g > gens
      BY <1>2 DEF Quit, TypeOK, Gens, Live
    <2>2. accepted'[g] = 0 /\ rejected'[g] = 0 /\ MinedIn(chain, g) = {} /\ UNCHANGED chain
      BY <1>2, <2>1 DEF Quit, NotYetStarted
    <2>3. LateIn(queue', g) = {}
      <3>1. \A x \in Requests : [x EXCEPT !.waiting = FALSE].gen = x.gen
        BY DEF Requests
      <3>2. \A i \in DOMAIN queue' : queue'[i].gen = queue[i].gen /\ i \in DOMAIN queue
        BY <1>2, <3>1, QueuedRequests DEF Quit
      <3> QED BY <2>1, <3>2 DEF NotYetStarted, LateIn
    <2>4. OkIn(answer', g) = {}
      BY <1>2 DEF Quit, OkIn
    <2>5. /\ Cardinality(MinedIn(chain', g)) = 0 /\ Cardinality(LateIn(queue', g)) = 0
          /\ Cardinality(OkIn(answer', g)) = 0
      BY <2>2, <2>3, <2>4, FS_EmptySet
    <2> QED BY <2>2, <2>5, <1>t DEF Agree
  <1>3. ASSUME NEW h \in Gens, NEW w \in Threads, Local(h, w) PROVE Good(g)'
    <2>1. UNCHANGED <<answer, chain, queue>>
      BY <1>3, LocalStep
    <2>2. CASE End(h, w)
      <3>1. CASE g # h
        <4>1. accepted'[g] = accepted[g] /\ rejected'[g] = rejected[g]
          BY <2>2, <3>1 DEF End, TypeOK
        <4> QED BY <1>0, <2>1, <4>1
      <3>2. CASE g = h
        <4>1. PICK v \in Threads : pc'[g][v] \notin {"done", "killed"}
          BY DEF Live
        <4>2. pc' = [pc EXCEPT ![h][w] = "done"]
          BY <2>2 DEF End, Drop, Goto
        <4>3. v # w /\ pc'[g][v] = pc[g][v]
          BY <3>2, <4>1, <4>2 DEF TypeOK
        <4>4. ~ \A u \in Threads \ {w} : pc[h][u] = "done"
          BY <3>2, <4>1, <4>3
        <4>5. UNCHANGED <<accepted, rejected>>
          BY <2>2, <4>4 DEF End
        <4> QED BY <1>0, <2>1, <4>5
      <3> QED BY <3>1, <3>2
    <2>3. CASE SendFails(h, w)
      <3>1. accepted' = accepted /\ rejected' = Count(rejected, h)
        BY <2>3 DEF SendFails
      <3>2. rejected'[g] = rejected[g] \/ rejected'[g] = Bump(rejected[g])
        BY <3>1 DEF Count, Bump, TypeOK
      <3>3. L(g) \in Nat /\ L(g) <= L(g) + 1
        BY <1>t
      <3> QED BY <1>0, <1>s, <2>1, <3>1, <3>2, <3>3
    <2>4. CASE GetTemplate(h, w) \/ InnerGo(h, w) \/ Exhaust(h, w)
      <3>1. UNCHANGED <<accepted, rejected>>
        BY <2>4 DEF GetTemplate, InnerGo, Exhaust, counters
      <3> QED BY <1>0, <2>1, <3>1
    <2> QED BY <1>3, <2>2, <2>3, <2>4 DEF Local, OuterStop, InnerStop
  <1>4. ASSUME NEW h \in Gens, NEW w \in Threads, Find(h, w) PROVE Good(g)'
    <2> DEFINE r == [gen |-> h, worker |-> w, parent |-> parent[h][w], pays |-> coinbase[h],
                     waiting |-> TRUE]
    <2>1. r \in Requests /\ r.waiting /\ queue' = Append(queue, r)
      BY <1>4 DEF TypeOK, Requests, Find, rpc_submit_block
    <2> HIDE DEF r
    <2>2. /\ Len(queue) \in Nat /\ DOMAIN queue = 1 .. Len(queue)
          /\ DOMAIN queue' = 1 .. Len(queue) + 1 /\ queue'[Len(queue) + 1] = r
          /\ \A i \in 1 .. Len(queue) : queue'[i] = queue[i]
      BY <2>1, SeqFacts DEF TypeOK
    <2>3. \A i \in DOMAIN queue' : i = Len(queue) + 1 \/ i \in DOMAIN queue
      BY <2>2
    <2>4. LateIn(queue', g) = LateIn(queue, g)
      BY <2>1, <2>2, <2>3 DEF LateIn
    <2>5. UNCHANGED <<accepted, rejected, answer, chain>>
      BY <1>4 DEF Find, counters
    <2> QED BY <1>0, <2>4, <2>5
  <1>5. ASSUME NEW h \in Gens, NEW w \in Threads, Timeout(h, w) PROVE Good(g)'
    <2>1. /\ accepted' = accepted /\ chain' = chain /\ rejected' = Count(rejected, h)
          /\ DOMAIN queue' = DOMAIN queue
          /\ \A i \in DOMAIN queue : queue'[i] = IF queue[i].gen = h /\ queue[i].worker = w
                 THEN [queue[i] EXCEPT !.waiting = FALSE] ELSE queue[i]
      BY <1>5 DEF Timeout
    <2>2. \A x \in Requests : /\ [x EXCEPT !.waiting = FALSE].gen = x.gen
                              /\ [x EXCEPT !.waiting = FALSE].waiting = FALSE
      BY DEF Requests
    <2>3. \A i \in DOMAIN queue :
              /\ queue'[i].gen = queue[i].gen
              /\ ~ queue'[i].waiting <=>
                     ~ queue[i].waiting \/ (queue[i].gen = h /\ queue[i].worker = w)
      BY <2>1, <2>2, QueuedRequests
    <2>4. CASE g # h
      <3>1. LateIn(queue', g) = LateIn(queue, g)
        BY <2>1, <2>3, <2>4 DEF LateIn
      <3>2. rejected'[g] = rejected[g]
        BY <2>1, <2>4 DEF Count, TypeOK
      <3>3. OkIn(answer', g) = OkIn(answer, g)
        BY <1>5, <2>4, OkChanges DEF Timeout, Answers
      <3> QED BY <1>0, <2>1, <3>1, <3>2, <3>3
    <2>5. CASE g = h
      <3>1. /\ Cardinality(LateIn(queue', g)) \in Nat /\ Cardinality(LateIn(queue', g)) <= L(g) + 1
            /\ answer[g][w] # "none" => Cardinality(LateIn(queue', g)) = L(g)
        <4>1. CASE \E i \in DOMAIN queue : queue[i].waiting /\ queue[i].gen = h /\ queue[i].worker = w
          <5> PICK i \in DOMAIN queue : queue[i].waiting /\ queue[i].gen = h /\ queue[i].worker = w
            BY <4>1
          <5>1. LateIn(queue', g) = LateIn(queue, g) \cup {i}
            BY <2>1, <2>3, <2>5 DEF LateIn, OneCallEach
          <5>2. Cardinality(LateIn(queue, g) \cup {i}) \in {L(g), L(g) + 1}
            BY PositionCounts, FS_AddElement
          <5>3. answer[g][w] = "none"
            BY <2>5 DEF OneCallEach
          <5> QED BY <1>t, <5>1, <5>2, <5>3
        <4>2. CASE ~ \E i \in DOMAIN queue : queue[i].waiting /\ queue[i].gen = h /\ queue[i].worker = w
          <5>1. LateIn(queue', g) = LateIn(queue, g)
            BY <2>1, <2>3, <4>2 DEF LateIn
          <5> QED BY <5>1, <1>t
        <4> QED BY <4>1, <4>2
      <3>2. rejected'[g] = Bump(rejected[g])
        BY <2>1, <2>5 DEF Count, Bump, TypeOK
      <3>3. Cardinality(OkIn(answer', g)) = IF answer[g][w] = "ok" THEN U(g) - 1 ELSE U(g)
        BY <1>5, <2>5, OkChanges DEF Timeout, Answers
      <3>4. Cardinality(OkIn(answer', g)) \in Nat
        BY OkCounts
      <3>5. CASE answer[g][w] = "ok"
        <4>1. U(g) >= 1
          BY <1>t, <3>3, <3>4, <3>5
        <4>2. Cardinality(LateIn(queue', g)) = L(g) /\ Cardinality(OkIn(answer', g)) = U(g) - 1
          BY <3>1, <3>3, <3>5
        <4> QED BY <1>s, <2>1, <3>2, <4>1, <4>2
      <3>6. CASE answer[g][w] # "ok"
        BY <1>s, <2>1, <3>1, <3>2, <3>3, <3>6
      <3> QED BY <3>5, <3>6
    <2> QED BY <2>4, <2>5
  <1>r. ASSUME NEW h \in Gens, NEW w \in Threads, Receive(h, w) PROVE Good(g)'
    <2>1. /\ answer[h][w] \in {"ok", "err"} /\ answer' = [answer EXCEPT ![h][w] = "none"]
          /\ accepted' = IF answer[h][w] = "ok" THEN Count(accepted, h) ELSE accepted
          /\ rejected' = IF answer[h][w] = "ok" THEN rejected ELSE Count(rejected, h)
          /\ UNCHANGED <<chain, queue>>
      BY <1>r DEF Receive, Answered, TypeOK, Answers
    <2>2. CASE h # g
      <3>1. accepted'[g] = accepted[g] /\ rejected'[g] = rejected[g]
        BY <2>1, <2>2 DEF Count, TypeOK
      <3>2. OkIn(answer', g) = OkIn(answer, g)
        BY <2>1, <2>2, OkChanges DEF Answers
      <3> QED BY <1>0, <2>1, <3>1, <3>2
    <2>3. CASE h = g /\ answer[h][w] = "ok"
      <3>1. Cardinality(OkIn(answer', g)) = U(g) - 1 /\ Cardinality(OkIn(answer', g)) \in Nat
        BY <2>1, <2>3, OkChanges, OkCounts DEF Answers
      <3>2. U(g) >= 1 /\ accepted[g] < MaxCount
        BY <1>s, <1>t, <3>1
      <3>3. accepted'[g] = accepted[g] + 1 /\ rejected'[g] = rejected[g]
        BY <2>1, <2>3, <3>2 DEF Count, TypeOK
      <3> QED BY <1>s, <2>1, <3>1, <3>2, <3>3
    <2>4. CASE h = g /\ answer[h][w] = "err"
      <3>1. OkIn(answer', g) = OkIn(answer, g)
        BY <2>1, <2>4, OkChanges DEF Answers
      <3>2. accepted'[g] = accepted[g] /\ rejected'[g] = Bump(rejected[g])
        BY <2>1, <2>4 DEF Count, Bump, TypeOK
      <3>3. L(g) \in Nat /\ L(g) <= L(g) + 1
        BY <1>t
      <3> QED BY <1>s, <2>1, <3>1, <3>2, <3>3
    <2> QED BY <2>1, <2>2, <2>3, <2>4
  <1>6. CASE Process
    <2> DEFINE r == Head(queue)
               b == [gen |-> r.gen, pays |-> r.pays]
    <2>1. /\ queue # << >> /\ r = queue[1] /\ 1 \in DOMAIN queue /\ queue' = Tail(queue)
          /\ r.gen \in Gens /\ r.worker \in Threads /\ b \in Blocks /\ b.gen = r.gen
          /\ r.waiting \in BOOLEAN
      BY <1>6, HeadRequest DEF Process
    <2>2. PICK ok \in BOOLEAN :
              /\ ok => Len(chain) < MaxHeight
              /\ chain' = IF ok THEN Append(chain, b) ELSE chain
              /\ answer' = IF r.waiting
                           THEN [answer EXCEPT ![r.gen][r.worker] = IF ok THEN "ok" ELSE "err"]
                           ELSE answer
      BY <1>6 DEF Process
    <2>3. UNCHANGED <<accepted, rejected>>
      BY <1>6 DEF Process, counters
    <2>4. /\ Cardinality(LateIn(queue', g)) = Cardinality(LateIn(queue, g) \ {1})
          /\ 1 \in LateIn(queue, g) <=> r.gen = g /\ ~ r.waiting
      <3>1. Cardinality(LateIn(Tail(queue), g)) = Cardinality(LateIn(queue, g) \ {1})
        BY <2>1, LateShrinks
      <3>2. 1 \in LateIn(queue, g) <=> queue[1].gen = g /\ ~ queue[1].waiting
        BY <2>1 DEF LateIn
      <3> QED BY <2>1, <3>1, <3>2
    <2>5. /\ Cardinality(LateIn(queue', g)) \in Nat
          /\ Cardinality(LateIn(queue', g)) = IF r.gen = g /\ ~ r.waiting THEN L(g) - 1 ELSE L(g)
      BY <1>t, <2>4, PositionCounts, FS_RemoveElement, FS_CardinalityType
    <2>6. Cardinality(MinedIn(Append(chain, b), g)) = M(g) + (IF r.gen = g THEN 1 ELSE 0)
      BY <2>1, MinedGrows
    <2>7. r.waiting => answer[r.gen][r.worker] = "none"
      BY <2>1 DEF OneCallEach
    <2> HIDE DEF r, b
    <2>8. Cardinality(OkIn(answer', g)) = IF r.gen = g /\ r.waiting /\ ok THEN U(g) + 1 ELSE U(g)
      <3>1. CASE ~ r.waiting
        BY <2>2, <3>1
      <3>2. CASE r.waiting /\ ok
        BY <2>1, <2>2, <2>7, <3>2, OkChanges DEF Answers
      <3>3. CASE r.waiting /\ ~ ok
        BY <2>1, <2>2, <2>7, <3>3, OkChanges DEF Answers
      <3> QED BY <2>1, <2>2, <3>1, <3>2, <3>3
    <2>9. Cardinality(MinedIn(chain', g)) = IF r.gen = g /\ ok THEN M(g) + 1 ELSE M(g)
      BY <1>t, <2>2, <2>6
    <2>10. ok => M(g) < MaxHeight
      BY <1>t, <2>2
    <2>11. CASE r.gen = g /\ ~ r.waiting
      <3>1. L(g) >= 1
        BY <1>t, <2>5, <2>11
      <3> QED BY <1>s, <2>3, <2>5, <2>8, <2>9, <2>10, <2>11, <3>1
    <2>12. CASE r.gen = g /\ r.waiting /\ ok
      BY <1>s, <2>3, <2>5, <2>8, <2>9, <2>10, <2>12
    <2>13. CASE r.gen # g \/ (r.waiting /\ ~ ok)
      BY <1>0, <2>3, <2>5, <2>8, <2>9, <2>13
    <2> QED BY <2>1, <2>11, <2>12, <2>13
  <1>7. CASE OtherMiner
    <2> DEFINE b == [gen |-> 0, pays |-> Burn]
    <2>1. b \in Blocks /\ b.gen # g /\ chain' = Append(chain, b)
      BY <1>7 DEF OtherMiner, Blocks, Payees, Gens
    <2> HIDE DEF b
    <2>2. Cardinality(MinedIn(chain', g)) = M(g)
      BY <1>t, <2>1, MinedGrows
    <2>3. UNCHANGED <<accepted, rejected, answer, queue>>
      BY <1>7 DEF OtherMiner, counters
    <2> QED BY <1>0, <2>2, <2>3
  <1> QED
    BY <1>1, <1>2, <1>3, <1>4, <1>5, <1>r, <1>6, <1>7
    DEF Next, Worker, Local, Launch, Regenerate, SaveOpen, SaveWrite, StartMining, StopMining,
        counters, workers, node, vars, ui


LEMMA CountInit == Init => CountInv
  <1> SUFFICES ASSUME Init PROVE CountInv
    OBVIOUS
  <1>1. TypeOK /\ DOMAIN queue = {} /\ DOMAIN chain = {} /\ Len(chain) = 0
    BY InitType DEF Init
  <1>2. \A g \in Gens : /\ accepted[g] = 0 /\ rejected[g] = 0 /\ g \notin walletless
                        /\ MinedIn(chain, g) = {} /\ LateIn(queue, g) = {} /\ OkIn(answer, g) = {}
    BY <1>1 DEF Init, MinedIn, LateIn, OkIn
  <1>3. \A g \in Gens, w \in Threads : answer[g][w] = "none" /\ (g > gens => pc[g][w] = "off")
    BY <1>1 DEF Init, TypeOK, Gens
  <1>4. LateWereRejected
    BY <1>2, FS_EmptySet, GuiBoundAssumption DEF LateWereRejected, Agree
  <1>5. OneCallEach /\ NotYetStarted
    BY <1>1, <1>2, <1>3 DEF OneCallEach, NotYetStarted
  <1> QED BY <1>1, <1>4, <1>5, GuiBoundAssumption DEF CountInv

LEMMA CountStep == TypeOK /\ CountInv /\ [Next]_vars => CountInv'
  <1> SUFFICES ASSUME TypeOK, CountInv, [Next]_vars PROVE CountInv'
    OBVIOUS
  <1>1. TypeOK'
    BY NextType
  <1>2. Len(chain') <= MaxHeight
    <2>1. UNCHANGED chain \/ (Len(chain) < MaxHeight /\ \E b \in Blocks : chain' = Append(chain, b))
      <3>1. CASE Process
        BY <3>1, HeadRequest DEF Process
      <3>2. CASE OtherMiner
        BY <3>2 DEF OtherMiner, Blocks, Payees
      <3> QED
        BY <3>1, <3>2
        DEF Next, Worker, OuterStop, InnerStop, GetTemplate, InnerGo, Exhaust, Find, SendFails,
            Timeout, Receive, End, Launch, Regenerate, SaveOpen, SaveWrite, StartMining, StopMining,
            Quit, node, vars
    <2>2. \A b \in Blocks : Len(Append(chain, b)) = Len(chain) + 1
      BY DEF TypeOK
    <2>3. Len(chain) \in Nat
      BY SeqFacts DEF TypeOK
    <2> QED BY <2>1, <2>2, <2>3, GuiBoundAssumption DEF CountInv
  <1> QED BY <1>1, <1>2, OneCallEachStep, NotYetStartedStep, LateWereRejectedStep DEF CountInv

(* Through time-outs before and after the node has acted, late processing, repeated submissions,
   restarts and counters at their limit, "accepted" counts only blocks that are in the chain, and a
   block of the chain that it misses was counted as rejected, unless its answer is on its way. *)
THEOREM CountersFollowTheChain == Spec => []CountersMatchChain
  <1>1. Init => TypeOK /\ CountInv
    BY InitType, CountInit
  <1>2. TypeOK /\ CountInv /\ [Next]_vars => (TypeOK /\ CountInv)'
    BY NextType, CountStep
  <1>3. CountInv => CountersMatchChain
    BY DEF CountInv, LateWereRejected, Agree, CountersMatchChain, Mined, MinedIn, Unreported, OkIn, Live
  <1> QED BY <1>1, <1>2, <1>3, PTL DEF Spec

-----------------------------------------------------------------------------
(* The keys that blocks pay. *)

(* Whom the blocks of a generation may pay. *)
Pays(g) == IF g \in walletless THEN {Burn} ELSE saved

(* Where a key may be before it is paid: in the file, in use, in the hands of workers that run, on
   its way to the node. *)
KeysSaved ==
    /\ file \in saved \cup {Absent, Torn}
    /\ wallet \in saved \cup {None}
    /\ \A g \in Gens, w \in Threads : pc[g][w] \in Active => coinbase[g] \in Pays(g)
    /\ \A i \in DOMAIN queue : queue[i].pays \in Pays(queue[i].gen)

KeysInv == KeysSaved /\ PaysSavedKeys

(* Steps in which no key becomes unsaved, no worker starts and nothing is sent or mined. *)
LEMMA KeysStay ==
    ASSUME TypeOK, KeysInv, saved \subseteq saved', UNCHANGED <<walletless, chain>>,
           file' \in saved' \cup {Absent, Torn}, wallet' \in saved' \cup {None},
           \A g \in Gens, w \in Threads : pc'[g][w] \in Active =>
               coinbase'[g] = coinbase[g] /\ \E v \in Threads : pc[g][v] \in Active,
           \A i \in DOMAIN queue' :
               i \in DOMAIN queue /\ queue'[i].pays = queue[i].pays /\ queue'[i].gen = queue[i].gen
    PROVE  KeysInv'
  <1>1. \A g : Pays(g) \subseteq Pays(g)'
    BY DEF Pays
  <1>2. KeysSaved'
    BY <1>1 DEF KeysInv, KeysSaved
  <1>3. PaysSavedKeys'
    BY <1>1 DEF KeysInv, PaysSavedKeys, Pays
  <1> QED BY <1>2, <1>3 DEF KeysInv

LEMMA KeysStep ==
    ASSUME TypeOK, CountInv, KeysInv, [Next]_vars
    PROVE  KeysInv'
  <1>1. CASE Launch \/ Regenerate \/ SaveOpen \/ SaveWrite \/ StopMining \/ UNCHANGED vars
    <2>1. UNCHANGED <<walletless, coinbase, pc, queue, chain>>
      BY <1>1 DEF Launch, Regenerate, SaveOpen, SaveWrite, StopMining, vars, ui, workers, node
    <2>2. /\ saved \subseteq saved'
          /\ file' \in saved' \cup {Absent, Torn} /\ wallet' \in saved' \cup {None}
      BY <1>1 DEF Launch, load_or_create, load, Regenerate, SaveOpen, SaveWrite, StopMining, vars,
                  ui, KeysInv, KeysSaved
    <2> QED BY <2>1, <2>2, KeysStay
  <1>2. CASE StartMining
    <2>0. gens + 1 \in Gens
      BY <1>2, GuiBoundAssumption DEF StartMining, TypeOK, Gens
    <2> PICK n \in Gens : n = gens + 1
      BY <2>0
    <2>1. /\ n > gens /\ UNCHANGED <<saved, file, wallet, queue, chain>>
          /\ coinbase' = [coinbase EXCEPT ![n] = IF wallet = None THEN Burn ELSE wallet]
          /\ pc' = [pc EXCEPT ![n] = [w \in Threads |-> "outer"]]
          /\ walletless' = IF wallet = None THEN walletless \cup {n} ELSE walletless
      BY <1>2, GuiBoundAssumption DEF StartMining, start, node, TypeOK, Gens
    <2>2. /\ n \notin walletless /\ MinedIn(chain, n) = {}
          /\ \A i \in DOMAIN queue : queue[i].gen # n
      BY <2>1 DEF CountInv, NotYetStarted
    <2>3. \A g : g # n => Pays(g)' = Pays(g)
      BY <2>1 DEF Pays
    <2>4. coinbase'[n] \in Pays(n)'
      <3>1. coinbase'[n] = IF wallet = None THEN Burn ELSE wallet
        BY <2>1 DEF TypeOK
      <3>2. wallet \in saved \cup {None}
        BY DEF KeysInv, KeysSaved
      <3>3. CASE wallet = None
        BY <2>1, <3>1, <3>3 DEF Pays
      <3>4. CASE wallet # None
        BY <2>1, <2>2, <3>1, <3>2, <3>4 DEF Pays
      <3> QED BY <3>3, <3>4
    <2>5. \A g \in Gens : g # n => coinbase'[g] = coinbase[g] /\ pc'[g] = pc[g]
      BY <2>1 DEF TypeOK
    <2>6. KeysSaved'
      <3>1. \A g \in Gens, w \in Threads : pc'[g][w] \in Active => coinbase'[g] \in Pays(g)'
        BY <2>3, <2>4, <2>5 DEF KeysInv, KeysSaved
      <3>2. (\A i \in DOMAIN queue : queue[i].pays \in Pays(queue[i].gen))'
        BY <2>1, <2>2 DEF KeysInv, KeysSaved, Pays
      <3>3. file' \in saved' \cup {Absent, Torn} /\ wallet' \in saved' \cup {None}
        BY <2>1 DEF KeysInv, KeysSaved
      <3> QED BY <3>1, <3>2, <3>3 DEF KeysSaved
    <2>7. PaysSavedKeys'
      BY <2>1, <2>2, <2>3 DEF KeysInv, PaysSavedKeys, Pays, MinedIn
    <2> QED BY <2>6, <2>7 DEF KeysInv
  <1>3. CASE Quit
    <2>1. \A i \in DOMAIN queue' :
              i \in DOMAIN queue /\ queue'[i].pays = queue[i].pays /\ queue'[i].gen = queue[i].gen
      <3>1. \A x \in Requests : LET y == [x EXCEPT !.waiting = FALSE]
                               IN y.pays = x.pays /\ y.gen = x.gen
        BY DEF Requests
      <3> QED BY <1>3, <3>1, QueuedRequests DEF Quit
    <2>2. \A g \in Gens, w \in Threads : pc'[g][w] \notin Active
      BY <1>3 DEF Quit, Active
    <2> QED BY <1>3, <2>1, <2>2, KeysStay DEF Quit, KeysInv, KeysSaved
  <1>4. ASSUME NEW g \in Gens, NEW w \in Threads, Worker(g, w) PROVE KeysInv'
    <2>1. \A h \in Gens, v \in Threads : pc'[h][v] \in Active => pc[h][v] \in Active
      BY <1>4, WorkerMoves
    <2>2. CASE OuterStop(g, w) \/ InnerStop(g, w)
      <3>1. End(g, w)
        BY <2>2 DEF OuterStop, InnerStop
      <3>2. \A h \in Gens, v \in Threads : pc'[h][v] \in Active => coinbase'[h] = coinbase[h]
        <4> SUFFICES ASSUME NEW h \in Gens, NEW v \in Threads, pc'[h][v] \in Active,
                            coinbase'[h] # coinbase[h]
                     PROVE  FALSE
          OBVIOUS
        <4>1. h = g /\ \A u \in Threads \ {w} : pc[g][u] = "done"
          BY <3>1 DEF End, TypeOK
        <4>2. pc' = [pc EXCEPT ![g][w] = "done"]
          BY <3>1 DEF End, Drop, Goto
        <4>3. pc'[g][v] = "done"
          BY <4>1, <4>2 DEF TypeOK
        <4> QED BY <4>1, <4>3 DEF Active
      <3>3. UNCHANGED <<saved, file, wallet, walletless, queue, chain>>
        BY <3>1 DEF End, node
      <3>4. file \in saved \cup {Absent, Torn} /\ wallet \in saved \cup {None}
        BY DEF KeysInv, KeysSaved
      <3> QED BY <2>1, <3>2, <3>3, <3>4, KeysStay
    <2>3. CASE GetTemplate(g, w) \/ InnerGo(g, w) \/ Exhaust(g, w) \/ SendFails(g, w) \/ Receive(g, w)
      <3>1. UNCHANGED <<saved, file, wallet, coinbase, walletless, queue, chain>>
        BY <2>3 DEF GetTemplate, InnerGo, Exhaust, SendFails, Receive, ui, node
      <3>2. file \in saved \cup {Absent, Torn} /\ wallet \in saved \cup {None}
        BY DEF KeysInv, KeysSaved
      <3> QED BY <2>1, <3>1, <3>2, KeysStay
    <2>4. CASE Find(g, w)
      <3> DEFINE r == [gen |-> g, worker |-> w, parent |-> parent[g][w], pays |-> coinbase[g],
                       waiting |-> TRUE]
      <3>1. r \in Requests /\ r.pays = coinbase[g] /\ r.gen = g
        BY DEF TypeOK, Requests
      <3>2. queue' = Append(queue, r) /\ UNCHANGED <<saved, file, wallet, coinbase, walletless, chain>>
        BY <2>4 DEF Find, rpc_submit_block, ui
      <3> HIDE DEF r
      <3>3. \A i \in DOMAIN queue' : queue'[i] = r \/ (i \in DOMAIN queue /\ queue'[i] = queue[i])
        BY <3>1, <3>2, Appended DEF TypeOK
      <3>4. coinbase[g] \in Pays(g) /\ \A h : Pays(h)' = Pays(h)
        BY <1>4, <3>2, WorkerMoves DEF KeysInv, KeysSaved, Pays
      <3>5. KeysSaved'
        BY <2>1, <3>1, <3>2, <3>3, <3>4 DEF KeysInv, KeysSaved
      <3>6. PaysSavedKeys'
        BY <3>2 DEF KeysInv, PaysSavedKeys
      <3> QED BY <3>5, <3>6 DEF KeysInv
    <2>5. CASE Timeout(g, w)
      <3>1. \A i \in DOMAIN queue' :
                i \in DOMAIN queue /\ queue'[i].pays = queue[i].pays /\ queue'[i].gen = queue[i].gen
        <4>1. \A x \in Requests : LET y == [x EXCEPT !.waiting = FALSE]
                                 IN y.pays = x.pays /\ y.gen = x.gen
          BY DEF Requests
        <4> QED BY <2>5, <4>1, QueuedRequests DEF Timeout
      <3>2. UNCHANGED <<saved, file, wallet, coinbase, walletless, chain>>
        BY <2>5 DEF Timeout, ui
      <3>3. file \in saved \cup {Absent, Torn} /\ wallet \in saved \cup {None}
        BY DEF KeysInv, KeysSaved
      <3> QED BY <2>1, <3>1, <3>2, <3>3, KeysStay
    <2> QED BY <1>4, <2>2, <2>3, <2>4, <2>5 DEF Worker
  <1>5. CASE Process \/ OtherMiner
    <2>1. UNCHANGED <<saved, file, wallet, coinbase, walletless, pc>>
      BY <1>5 DEF Process, OtherMiner, ui, workers
    <2>2. \A g : Pays(g)' = Pays(g)
      BY <2>1 DEF Pays
    <2>3. \A i \in DOMAIN queue' : \E j \in DOMAIN queue : queue'[i] = queue[j]
      <3>1. CASE Process
        <4>1. queue' = Tail(queue) /\ queue # << >>
          BY <3>1 DEF Process
        <4>2. \A i \in DOMAIN queue' : i + 1 \in DOMAIN queue /\ queue'[i] = queue[i + 1]
          BY <4>1, SeqFacts DEF TypeOK
        <4> QED BY <4>2
      <3>2. CASE OtherMiner
        BY <3>2 DEF OtherMiner
      <3> QED BY <1>5, <3>1, <3>2
    <2>4. KeysSaved'
      BY <2>1, <2>2, <2>3 DEF KeysInv, KeysSaved
    <2>5. \/ UNCHANGED chain
          \/ \E b \in Blocks : chain' = Append(chain, b) /\ (b.gen # 0 => b.pays \in Pays(b.gen))
      <3>1. CASE Process
        <4> DEFINE r == Head(queue)
                   b == [gen |-> r.gen, pays |-> r.pays]
        <4>1. b \in Blocks /\ b.gen = r.gen /\ b.pays = r.pays /\ r = queue[1] /\ 1 \in DOMAIN queue
          BY <3>1, HeadRequest DEF Process
        <4>2. chain' = Append(chain, b) \/ chain' = chain
          BY <3>1 DEF Process
        <4> HIDE DEF r, b
        <4>3. b.pays \in Pays(b.gen)
          BY <4>1 DEF KeysInv, KeysSaved
        <4> QED BY <4>1, <4>2, <4>3
      <3>2. CASE OtherMiner
        <4> DEFINE b == [gen |-> 0, pays |-> Burn]
        <4>1. b \in Blocks /\ b.gen = 0 /\ chain' = Append(chain, b)
          BY <3>2 DEF OtherMiner, Blocks, Payees
        <4> QED BY <4>1
      <3> QED BY <1>5, <3>1, <3>2
    <2>6. ASSUME NEW b \in Blocks, chain' = Append(chain, b), b.gen # 0 => b.pays \in Pays(b.gen)
          PROVE  PaysSavedKeys'
      <3>1. \A k \in DOMAIN chain' : chain'[k] = b \/ (k \in DOMAIN chain /\ chain'[k] = chain[k])
        BY <2>6, Appended DEF TypeOK
      <3> QED BY <2>1, <2>6, <3>1 DEF KeysInv, PaysSavedKeys, Pays
    <2>7. UNCHANGED chain => PaysSavedKeys'
      BY <2>1 DEF KeysInv, PaysSavedKeys
    <2> QED BY <2>4, <2>5, <2>6, <2>7 DEF KeysInv
  <1> QED BY <1>1, <1>2, <1>3, <1>4, <1>5 DEF Next

(* Whatever fails while a wallet is created or replaced, however often the program is ended and
   started, and however long old workers go on with the coinbase they were given, a block of this
   miner pays a keypair that was once completely in wallet.json; it pays nobody if, and only if, its
   generation was started while no wallet was loaded. *)
THEOREM PaysKeysThatWereSaved == Spec => []PaysSavedKeys
  <1>1. Init => TypeOK /\ CountInv /\ KeysInv
    <2> SUFFICES ASSUME Init PROVE KeysInv
      BY InitType, CountInit
    <2>1. file \in saved \cup {Absent, Torn} /\ wallet = None
      BY GuiPastAssumption DEF Init
    <2>2. \A g \in Gens, w \in Threads : pc[g][w] \notin Active
      BY DEF Init, Active
    <2>3. DOMAIN queue = {} /\ DOMAIN chain = {}
      BY DEF Init
    <2> QED BY <2>1, <2>2, <2>3 DEF KeysInv, KeysSaved, PaysSavedKeys
  <1>2. TypeOK /\ CountInv /\ KeysInv /\ [Next]_vars => (TypeOK /\ CountInv /\ KeysInv)'
    BY NextType, CountStep, KeysStep
  <1>3. KeysInv => PaysSavedKeys
    BY DEF KeysInv
  <1> QED BY <1>1, <1>2, <1>3, PTL DEF Spec
=============================================================================
