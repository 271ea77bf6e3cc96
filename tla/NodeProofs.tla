----------------------------- MODULE NodeProofs -----------------------------
(***************************************************************************)
(* Proofs about Node, for every mempool, schedule, difficulty rule and     *)
(* number of kills and I/O errors.  What try_apply_block checked of the    *)
(* tip when it read it is all that is known when it appends: with one      *)
(* publishing thread that tip is still the tip, with two it is still in    *)
(* the log.  The last part is about what the queries tell of that log.     *)
(***************************************************************************)
EXTENDS Queries, Foundations, SequenceTheorems, TLAPS

Logged == {disk[k] : k \in DOMAIN disk}

(* The log is a sequence of blocks that starts with genesis; threads have a label and a block. *)
Shape ==
    /\ disk \in Seq(Logged) /\ Len(disk) >= 1
    /\ pc \in [Actors -> Labels]
    /\ blk = [a \in Actors |-> blk[a]]

Extends(b, p) == b.parent = p.id /\ b.height = p.height + 1 /\ b.ts >= p.ts

(* The labels after the checks, up to the append. *)
Accepted == {"read_tip", "read_minted", "read_prev", "apply", "write_minted", "write_prev",
             "confirm", "append"}

(* A sequence is a sequence of its own elements. *)
LEMMA SeqOfOwnElements ==
    ASSUME NEW S, NEW s \in Seq(S)
    PROVE  s \in Seq({s[k] : k \in DOMAIN s})
  <1> DEFINE T == {s[k] : k \in DOMAIN s}
             n == Len(s)
  <1>1. n \in Nat /\ DOMAIN s = 1 .. n /\ s \in [1 .. n -> S]
    BY LenProperties
  <1>2. \A k \in 1 .. n : s[k] \in T
    BY <1>1
  <1> HIDE DEF T, n
  <1>3. s \in [1 .. n -> T]
    BY <1>1, <1>2
  <1>4. s \in Seq(T)
    BY <1>1, <1>3, SeqDef
  <1> QED BY <1>4 DEF T

(* Appending to the log keeps what is in it and adds one block at its end. *)
LEMMA AppendLog ==
    ASSUME Shape, NEW b, disk' = Append(disk, b)
    PROVE  /\ disk' \in Seq(Logged') /\ Len(disk') = Len(disk) + 1 /\ Len(disk) \in Nat
           /\ DOMAIN disk = 1 .. Len(disk) /\ DOMAIN disk' = 1 .. Len(disk) + 1
           /\ \A k \in 1 .. Len(disk) : disk'[k] = disk[k]
           /\ disk'[Len(disk) + 1] = b
  <1> DEFINE S == Logged \cup {b}
  <1>1. disk \in Seq(Logged) /\ Len(disk) \in Nat /\ DOMAIN disk = 1 .. Len(disk)
    BY DEF Shape
  <1>2. disk \in Seq(S)
    BY <1>1, SeqDef
  <1> HIDE DEF S
  <1>3. b \in S
    BY DEF S
  <1>4. /\ disk' \in Seq(S) /\ Len(disk') = Len(disk) + 1
        /\ \A k \in 1 .. Len(disk) : disk'[k] = disk[k]
        /\ disk'[Len(disk) + 1] = b
    BY <1>2, <1>3, AppendProperties
  <1>5. DOMAIN disk' = 1 .. Len(disk) + 1
    BY <1>4
  <1>6. disk' \in Seq(Logged')
    BY <1>4, SeqOfOwnElements DEF Logged
  <1> QED BY <1>1, <1>4, <1>5, <1>6

(* What a step may do to one thread when the log stands still: leave it outside the accepted
   labels, move it along within them with the same block, or let it in past the checks. *)
Moves(a) ==
    \/ pc'[a] \notin Accepted
    \/ pc[a] \in Accepted /\ blk'[a] = blk[a]
    \/ Acceptable(blk[a]) /\ blk'[a] = blk[a]

(* A step of one thread from one label to another, with its block. *)
LEMMA GotoMoves ==
    ASSUME Shape, NEW a \in Actors, NEW to \in Labels, Goto(a, to), disk' = disk,
           pc[a] \in Accepted \/ to \notin Accepted \/ Acceptable(blk[a])
    PROVE  Shape' /\ \A b \in Actors : Moves(b)
  <1>1. pc' = [pc EXCEPT ![a] = to] /\ blk' = blk
    BY DEF Goto
  <1>2. Shape'
    BY <1>1 DEF Shape, Logged
  <1>3. \A b \in Actors \ {a} : pc'[b] = pc[b] /\ blk'[b] = blk[b]
    BY <1>1 DEF Shape
  <1>4. pc'[a] = to /\ blk'[a] = blk[a]
    BY <1>1 DEF Shape
  <1> QED BY <1>2, <1>3, <1>4 DEF Moves

(* A thread that is set to a label outside the accepted ones, whatever its block. *)
LEMMA OutsideMoves ==
    ASSUME Shape, NEW a \in Actors, NEW to \in Labels \ Accepted, NEW c, disk' = disk,
           pc' = [pc EXCEPT ![a] = to], blk' = [blk EXCEPT ![a] = c]
    PROVE  Shape' /\ \A b \in Actors : Moves(b)
  <1>1. Shape'
    BY DEF Shape, Logged
  <1>2. \A b \in Actors \ {a} : pc'[b] = pc[b] /\ blk'[b] = blk[b]
    BY DEF Shape
  <1>3. pc'[a] = to
    BY DEF Shape
  <1> QED BY <1>1, <1>2, <1>3 DEF Moves

(* A step that touches neither the log nor any thread. *)
LEMMA StillMoves ==
    ASSUME Shape, UNCHANGED <<disk, pc, blk>>
    PROVE  Shape' /\ \A b \in Actors : Moves(b)
  BY DEF Shape, Logged, Moves

(* Every step but an append leaves the log alone and moves threads as Moves says. *)
LEMMA StepMoves ==
    ASSUME Shape, [Next]_vars, ~ \E a \in Actors : AppendBlock(a)
    PROVE  Shape' /\ disk' = disk /\ \A b \in Actors : Moves(b)
  <1> USE DEF shared, chain_log, Labels, Accepted
  <1>1. CASE UNCHANGED vars
    BY <1>1, StillMoves DEF vars
  <1>2. ASSUME NEW h \in Hashes, SubmitTx(h) PROVE Shape' /\ disk' = disk /\ \A b \in Actors : Moves(b)
    BY <1>2, StillMoves DEF SubmitTx
  <1>13. ASSUME NEW h \in Hashes, SubmitTransfer(h)
         PROVE  Shape' /\ disk' = disk /\ \A b \in Actors : Moves(b)
    BY <1>13, StillMoves DEF SubmitTransfer
  <1>3. ASSUME NEW n \in 1 .. MaxIds, GetTemplate(n)
        PROVE  Shape' /\ disk' = disk /\ \A b \in Actors : Moves(b)
    BY <1>3, StillMoves DEF GetTemplate
  <1>4. ASSUME NEW b \in offered, SubmitBlock(b)
        PROVE  Shape' /\ disk' = disk /\ \A d \in Actors : Moves(d)
    BY <1>4, OutsideMoves DEF SubmitBlock, RpcFree
  <1>5. ASSUME NEW n \in 1 .. MaxIds, MinerBuild(n)
        PROVE  Shape' /\ disk' = disk /\ \A b \in Actors : Moves(b)
    BY <1>5, OutsideMoves DEF MinerBuild
  <1>6. CASE MinerFound
    BY <1>6, GotoMoves DEF MinerFound
  <1>7. CASE MinerAbandon
    BY <1>7, OutsideMoves DEF MinerAbandon, Return
  <1>8. ASSUME NEW a \in Actors, Publish(a) \/ AppendFails(a)
        PROVE  Shape' /\ disk' = disk /\ \A b \in Actors : Moves(b)
    <2>1. CASE Check(a)
      BY <2>1, GotoMoves DEF Check
    <2>2. CASE Reject(a)
      BY <2>2, OutsideMoves DEF Reject, Return
    <2>3. CASE ReadTip(a)
      BY <2>3, GotoMoves DEF ReadTip, At
    <2>4. CASE ReadMinted(a)
      BY <2>4, GotoMoves DEF ReadMinted, At
    <2>5. CASE ReadPrev(a)
      BY <2>5, GotoMoves DEF ReadPrev, At
    <2>6. CASE ApplyBlock(a)
      BY <2>6, GotoMoves DEF ApplyBlock, At
    <2>7. CASE ApplyFails(a)
      BY <2>7, OutsideMoves DEF ApplyFails, Return
    <2>8. CASE WriteMinted(a)
      BY <2>8, GotoMoves DEF WriteMinted, At
    <2>9. CASE WritePrev(a)
      BY <2>9, GotoMoves DEF WritePrev, At
    <2>10. CASE ConfirmTxs(a)
      BY <2>10, GotoMoves DEF ConfirmTxs, At
    <2>11. CASE AppendFails(a)
      BY <2>11, OutsideMoves DEF AppendFails, Return
    <2> QED BY <1>8, <2>1, <2>2, <2>3, <2>4, <2>5, <2>6, <2>7, <2>8, <2>9, <2>10, <2>11
            DEF Publish
  <1>9. CASE Crash
    <2>1. disk' = disk /\ pc' = [a \in Actors |-> "idle"] /\ blk' = [a \in Actors |-> Genesis]
      BY <1>9 DEF Crash, Idle
    <2> QED BY <2>1 DEF Shape, Logged, Moves
  <1>10. CASE Restart
    BY <1>10, StillMoves DEF Restart
  <1>11. CASE RestartFails
    BY <1>11, StillMoves DEF RestartFails
  <1>12. CASE Tick
    BY <1>12, StillMoves DEF Tick
  <1> QED BY <1>1, <1>2, <1>3, <1>4, <1>5, <1>6, <1>7, <1>8, <1>9, <1>10, <1>11, <1>12, <1>13
          DEF Next, Mine

(* An append takes one thread out of the accepted labels and leaves the others where they
   are. *)
LEMMA AppendMoves ==
    ASSUME Shape, NEW a \in Actors, AppendBlock(a)
    PROVE  /\ Shape' /\ pc[a] = "append" /\ disk' = Append(disk, blk[a]) /\ pc'[a] = "idle"
           /\ \A b \in Actors \ {a} : pc'[b] = pc[b] /\ blk'[b] = blk[b]
  <1>1. /\ pc[a] = "append" /\ disk' = Append(disk, blk[a])
        /\ pc' = [pc EXCEPT ![a] = "idle"] /\ blk' = [blk EXCEPT ![a] = Genesis]
    BY DEF AppendBlock, At, Return
  <1>2. disk' \in Seq(Logged') /\ Len(disk') >= 1
    BY <1>1, AppendLog DEF Shape
  <1> QED BY <1>1, <1>2 DEF Shape, Labels

(* At the start the log is the genesis block and no thread holds an accepted block. *)
LEMMA InitShape == Init => Shape
  <1> SUFFICES ASSUME Init PROVE Shape
    OBVIOUS
  <1>1. disk = <<Genesis>> /\ disk \in Seq({Genesis}) /\ Len(disk) = 1
    BY DEF Init
  <1>2. disk \in Seq(Logged)
    BY <1>1, SeqOfOwnElements DEF Logged
  <1>3. pc \in [Actors -> Labels] /\ blk = [a \in Actors |-> blk[a]]
    BY DEF Init, Idle, Labels
  <1> QED BY <1>1, <1>2, <1>3 DEF Shape

(* The tip is a block of the log, and what the checks accept extends it. *)
LEMMA AcceptableExtends ==
    ASSUME Shape, NEW b, Acceptable(b)
    PROVE  Len(disk) \in DOMAIN disk /\ Extends(b, disk[Len(disk)])
  BY DEF Shape, Acceptable, Extends, Tip

-----------------------------------------------------------------------------
(* Any number of publishing threads. *)

(* The parent that the checks saw is still in the log when the block is appended. *)
ParentKept ==
    \A a \in Actors : pc[a] \in Accepted => \E j \in DOMAIN disk : Extends(blk[a], disk[j])

(* Even with the self-miner and submit_block racing, kills and failing appends, every block
   of the log extends some block before it. *)
THEOREM ParentsAlwaysLogged == Spec => []ParentsLogged
  <1> DEFINE Inv == Shape /\ ParentKept /\ ParentsLogged
  <1>1. Init => Inv
    <2> SUFFICES ASSUME Init PROVE Inv
      OBVIOUS
    <2>1. Shape
      BY InitShape
    <2>2. disk = <<Genesis>> /\ DOMAIN disk = {1}
      BY DEF Init
    <2>3. ParentsLogged
      BY <2>2 DEF ParentsLogged
    <2>4. ParentKept
      BY DEF Init, Idle, ParentKept, Accepted
    <2> QED BY <2>1, <2>3, <2>4
  <1>2. Inv /\ [Next]_vars => Inv'
    <2> SUFFICES ASSUME Inv, [Next]_vars PROVE Inv'
      OBVIOUS
    <2>1. CASE ~ \E a \in Actors : AppendBlock(a)
      <3>1. Shape' /\ disk' = disk /\ \A b \in Actors : Moves(b)
        BY <2>1, StepMoves
      <3>2. ParentKept'
        <4> SUFFICES ASSUME NEW b \in Actors, pc'[b] \in Accepted
                     PROVE  \E j \in DOMAIN disk' : Extends(blk'[b], disk'[j])
          BY DEF ParentKept, Extends
        <4>1. CASE pc[b] \in Accepted /\ blk'[b] = blk[b]
          BY <3>1, <4>1 DEF ParentKept
        <4>2. CASE Acceptable(blk[b]) /\ blk'[b] = blk[b]
          BY <3>1, <4>2, AcceptableExtends
        <4> QED BY <3>1, <4>1, <4>2 DEF Moves
      <3>3. ParentsLogged'
        BY <3>1 DEF ParentsLogged
      <3> QED BY <3>1, <3>2, <3>3
    <2>2. ASSUME NEW a \in Actors, AppendBlock(a) PROVE Inv'
      <3> DEFINE n == Len(disk)
      <3>1. /\ Shape' /\ pc[a] = "append" /\ disk' = Append(disk, blk[a]) /\ pc'[a] = "idle"
            /\ \A b \in Actors \ {a} : pc'[b] = pc[b] /\ blk'[b] = blk[b]
        BY <2>2, AppendMoves
      <3>2. /\ n \in Nat /\ DOMAIN disk = 1 .. n /\ DOMAIN disk' = 1 .. n + 1
            /\ \A k \in 1 .. n : disk'[k] = disk[k]
            /\ disk'[n + 1] = blk[a]
        BY <3>1, AppendLog
      <3> HIDE DEF n
      <3>3. PICK j \in 1 .. n : Extends(blk[a], disk[j])
        BY <3>1, <3>2 DEF ParentKept, Accepted
      <3>4. ParentsLogged'
        <4> SUFFICES ASSUME NEW k \in 1 .. n + 1, k > 1
                     PROVE  \E m \in 1 .. k - 1 : Extends(disk'[k], disk'[m])
          BY <3>2 DEF ParentsLogged, Extends
        <4>1. CASE k = n + 1
          BY <3>2, <3>3, <4>1
        <4>2. CASE k \in 1 .. n
          <5>1. PICK m \in 1 .. k - 1 : Extends(disk[k], disk[m])
            BY <3>2, <4>2 DEF ParentsLogged, Extends
          <5>2. m \in 1 .. n
            BY <3>2, <4>2
          <5> QED BY <3>2, <4>2, <5>1, <5>2
        <4> QED BY <3>2, <4>1, <4>2
      <3>5. ParentKept'
        <4> SUFFICES ASSUME NEW b \in Actors, pc'[b] \in Accepted
                     PROVE  \E m \in DOMAIN disk' : Extends(blk'[b], disk'[m])
          BY DEF ParentKept, Extends
        <4>1. b # a
          BY <3>1 DEF Accepted
        <4>2. PICK m \in 1 .. n : Extends(blk[b], disk[m])
          BY <3>1, <3>2, <4>1 DEF ParentKept
        <4> QED BY <3>1, <3>2, <4>1, <4>2
      <3> QED BY <3>1, <3>4, <3>5
    <2> QED BY <2>1, <2>2
  <1> QED BY <1>1, <1>2, PTL DEF Spec

-----------------------------------------------------------------------------
(* One publishing thread: no self-miner, or no one but the self-miner. *)

(* The parent that the checks saw is still the tip when the block is appended. *)
TipKept ==
    \A a \in Actors : pc[a] \in Accepted => Extends(blk[a], disk[Len(disk)])

LEMMA TipStays ==
    ASSUME \A a, b \in Actors : a = b
    PROVE  Spec => [](Shape /\ TipKept /\ ChainLinked)
  <1> DEFINE Inv == Shape /\ TipKept /\ ChainLinked
  <1>1. Init => Inv
    <2> SUFFICES ASSUME Init PROVE Inv
      OBVIOUS
    <2>1. Shape
      BY InitShape
    <2>2. disk = <<Genesis>> /\ DOMAIN disk = {1}
      BY DEF Init
    <2>3. ChainLinked
      BY <2>2 DEF ChainLinked
    <2>4. TipKept
      BY DEF Init, Idle, TipKept, Accepted
    <2> QED BY <2>1, <2>3, <2>4
  <1>2. Inv /\ [Next]_vars => Inv'
    <2> SUFFICES ASSUME Inv, [Next]_vars PROVE Inv'
      OBVIOUS
    <2>1. CASE ~ \E a \in Actors : AppendBlock(a)
      <3>1. Shape' /\ disk' = disk /\ \A b \in Actors : Moves(b)
        BY <2>1, StepMoves
      <3>2. TipKept'
        <4> SUFFICES ASSUME NEW b \in Actors, pc'[b] \in Accepted
                     PROVE  Extends(blk'[b], disk'[Len(disk')])
          BY DEF TipKept, Extends
        <4>1. CASE pc[b] \in Accepted /\ blk'[b] = blk[b]
          BY <3>1, <4>1 DEF TipKept
        <4>2. CASE Acceptable(blk[b]) /\ blk'[b] = blk[b]
          BY <3>1, <4>2, AcceptableExtends
        <4> QED BY <3>1, <4>1, <4>2 DEF Moves
      <3>3. ChainLinked'
        BY <3>1 DEF ChainLinked
      <3> QED BY <3>1, <3>2, <3>3
    <2>2. ASSUME NEW a \in Actors, AppendBlock(a) PROVE Inv'
      <3> DEFINE n == Len(disk)
      <3>1. Shape' /\ pc[a] = "append" /\ disk' = Append(disk, blk[a]) /\ pc'[a] = "idle"
        BY <2>2, AppendMoves
      <3>2. /\ n \in Nat /\ DOMAIN disk = 1 .. n /\ DOMAIN disk' = 1 .. n + 1
            /\ \A k \in 1 .. n : disk'[k] = disk[k]
            /\ disk'[n + 1] = blk[a]
        BY <3>1, AppendLog
      <3>3. Extends(blk[a], disk[n]) /\ n >= 1
        BY <3>1 DEF TipKept, Accepted, Shape
      <3> HIDE DEF n
      <3>4. ChainLinked'
        <4> SUFFICES ASSUME NEW k \in 1 .. n + 1, k > 1 PROVE Extends(disk'[k], disk'[k - 1])
          BY <3>2 DEF ChainLinked, Extends
        <4>1. CASE k = n + 1
          <5>1. k - 1 = n /\ n \in 1 .. n
            BY <3>2, <3>3, <4>1
          <5> QED BY <3>2, <3>3, <4>1, <5>1
        <4>2. CASE k \in 1 .. n
          <5>1. k - 1 \in 1 .. n
            BY <3>2, <4>2
          <5>2. Extends(disk[k], disk[k - 1])
            BY <3>2, <4>2 DEF ChainLinked, Extends
          <5> QED BY <3>2, <4>2, <5>1, <5>2
        <4> QED BY <3>2, <4>1, <4>2
      <3>5. TipKept'
        BY <3>1 DEF TipKept, Accepted
      <3> QED BY <3>1, <3>4, <3>5
    <2> QED BY <2>1, <2>2
  <1> QED BY <1>1, <1>2, PTL DEF Spec

(* With one publishing thread the log is one chain, through kills, I/O errors, stale and
   repeated submissions: what try_apply_block lacks is a lock, not a check. *)
THEOREM OnePublisherOneChain ==
    ASSUME \A a, b \in Actors : a = b
    PROVE  Spec => []ChainLinked
  <1>1. Spec => [](Shape /\ TipKept /\ ChainLinked)
    BY TipStays
  <1> QED BY <1>1, PTL

-----------------------------------------------------------------------------
(* Block bodies: whatever thread holds it, a body is a list of transactions. *)

IsBody(txs) == txs \in Seq(Hashes)

PoolFine == IsFiniteSet(DOMAIN inner) /\ DOMAIN inner \subseteq Hashes
Bodied ==
    /\ PoolFine
    /\ \A b \in offered : "txs" \in DOMAIN b /\ IsBody(b.txs)
    /\ \A a \in Actors : IsBody(blk[a].txs)
    /\ \A k \in DOMAIN disk : IsBody(disk[k].txs)

LEMMA EmptyBody == IsBody(Genesis.txs)
  BY DEF IsBody, Genesis

(* The instance of the mempool counts with an operator of its own. *)
LEMMA PoolCardinality == \A T : Pool!Cardinality(T) = Cardinality(T)
  BY Zenon DEF Pool!Cardinality, Pool!IsFiniteSet, Cardinality, IsFiniteSet

LEMMA PullIsBody ==
    ASSUME PoolFine
    PROVE  IsBody(Pool!pull_for_block(BlockTxs))
  <1> DEFINE S == DOMAIN inner
             n == Pool!Smaller(BlockTxs, Cardinality(S))
             p == Pool!pull_for_block(BlockTxs)
  <1>1. S \subseteq Nat /\ S \subseteq Hashes /\ IsFiniteSet(S) /\ \A h \in S : Fee[h] \in Nat
    BY PoolAssumption DEF PoolFine
  <1>2. n \in Nat /\ n <= Cardinality(S)
    <2>1. Cardinality(S) \in Nat
      BY <1>1, FS_CardinalityType
    <2> QED BY <2>1, BoundAssumption DEF Pool!Smaller
  <1>3. p = BestOf(Fee, S, n)
    <2> DEFINE below(h) == {g \in S : Dearer(Fee, g, h)}
    <2>1. \A h : Pool!Rank(h, S) = Cardinality(below(h))
      <3> TAKE h
      <3>1. below(h) = {g \in S : Pool!Before(g, h)}
        BY DEF Pool!Before, Dearer
      <3> HIDE DEF below
      <3> QED BY <3>1, PoolCardinality DEF Pool!Rank
    <2>2. \A k \in 1 .. n : p[k] = CHOOSE h \in S : Pool!Rank(h, S) = k - 1
      BY PoolCardinality DEF Pool!pull_for_block
    <2>3. \A k \in 1 .. n : p[k] = CHOOSE h \in S : Cardinality(below(h)) = k - 1
      <3> HIDE DEF below
      <3> QED BY <2>1, <2>2
    <2>4. DOMAIN p = 1 .. n /\ p = [k \in 1 .. n |-> p[k]]
      BY PoolCardinality DEF Pool!pull_for_block
    <2> HIDE DEF p
    <2>5. p = [k \in 1 .. n |-> CHOOSE h \in S : Cardinality(below(h)) = k - 1]
      BY <2>3, <2>4
    <2> QED BY <2>5 DEF BestOf
  <1>4. DOMAIN p = 1 .. n /\ p = [k \in 1 .. n |-> p[k]]
    BY PoolCardinality DEF Pool!pull_for_block
  <1> HIDE DEF S, n, p
  <1>5. Leads(p, n, Fee, S)
    BY <1>1, <1>2, <1>3, BestFirst
  <1>6. p \in [1 .. n -> Hashes]
    BY <1>1, <1>4, <1>5 DEF Leads
  <1>7. IsBody(p)
    BY <1>2, <1>6, SeqDef DEF IsBody
  <1> QED BY <1>7 DEF p

(* So is the body of whatever a remote miner makes of a template. *)
LEMMA RemoteIsBody ==
    ASSUME NEW b, "txs" \in DOMAIN b, IsBody(b.txs), NEW c \in Remote(b)
    PROVE  "txs" \in DOMAIN c /\ IsBody(c.txs)
  <1>1. ASSUME NEW body \in Bodies PROVE IsBody(body)
    <2>1. PICK n \in 0 .. MaxBody : body \in [1 .. n -> Hashes]
      BY DEF Bodies
    <2>2. n \in Nat
      BY BoundAssumption
    <2> QED BY <2>1, <2>2, SeqDef DEF IsBody
  <1>2. IsBody(<< >>)
    BY DEF IsBody
  <1>3. CASE \E body \in Bodies \cup {b.txs} : c = [b EXCEPT !.txs = body]
    BY <1>1, <1>3
  <1>4. CASE \E t \in now .. MaxTime : c = [b EXCEPT !.ts = t, !.bits = NextBits(Tip.bits, Tip.ts, t)]
    BY <1>4
  <1>5. CASE c = [b EXCEPT !.parent = MaxIds + 1, !.txs = << >>]
    BY <1>2, <1>5
  <1> QED BY <1>3, <1>4, <1>5 DEF Remote

LEMMA SubmitPool ==
    ASSUME PoolFine, NEW h \in Hashes, Pool!submit(h)
    PROVE  PoolFine'
  <1>1. inner' = [g \in Pool!Kept \cup {h} |-> IF g = h THEN now ELSE inner[g]]
    BY DEF Pool!submit
  <1>2. Pool!Kept \in SUBSET DOMAIN inner
    BY DEF Pool!Kept
  <1>3. IsFiniteSet(Pool!Kept) /\ IsFiniteSet(Pool!Kept \cup {h})
    BY <1>2, FS_Subset, FS_AddElement DEF PoolFine
  <1> QED BY <1>1, <1>2, <1>3 DEF PoolFine

LEMMA ConfirmPool ==
    ASSUME PoolFine, NEW T, Pool!confirm(T)
    PROVE  PoolFine'
  <1>1. DOMAIN inner' = DOMAIN inner \ T
    BY DEF Pool!confirm
  <1>2. DOMAIN inner \ T \in SUBSET DOMAIN inner
    OBVIOUS
  <1> QED BY <1>1, <1>2, FS_Subset DEF PoolFine

LEMMA EmptyPool ==
    ASSUME inner' = [h \in {} |-> 0]
    PROVE  PoolFine'
  BY FS_EmptySet DEF PoolFine

LEMMA InitBodied == Init => Bodied
  <1> SUFFICES ASSUME Init PROVE Bodied
    OBVIOUS
  <1>1. PoolFine
    BY FS_EmptySet DEF Init, PoolFine
  <1>2. disk = <<Genesis>> /\ DOMAIN disk = {1} /\ offered = {} /\ blk = [a \in Actors |-> Genesis]
    BY DEF Init
  <1> QED BY <1>1, <1>2, EmptyBody DEF Bodied

(* A step keeps the bodies of offered blocks and of threads. *)
LEMMA StepBodied ==
    ASSUME Shape, Bodied, [Next]_vars
    PROVE  Bodied'
  <1> DEFINE OfferedFine == \A b \in offered : "txs" \in DOMAIN b /\ IsBody(b.txs)
             BlkFine == \A a \in Actors : IsBody(blk[a].txs)
             DiskFine == \A k \in DOMAIN disk : IsBody(disk[k].txs)
  <1>0. /\ PoolFine /\ OfferedFine /\ BlkFine /\ DiskFine
        /\ (PoolFine' /\ OfferedFine' /\ BlkFine' /\ DiskFine' => Bodied')
    BY DEF Bodied
  <1> USE DEF shared, chain_log
  <1> HIDE DEF OfferedFine, BlkFine, DiskFine
  <1>1. /\ UNCHANGED inner => PoolFine'
        /\ UNCHANGED offered => OfferedFine'
        /\ UNCHANGED blk => BlkFine'
        /\ UNCHANGED disk => DiskFine'
    BY <1>0 DEF PoolFine, OfferedFine, BlkFine, DiskFine
  <1>2. ASSUME NEW a \in Actors, NEW c, blk' = [blk EXCEPT ![a] = c], IsBody(c.txs) PROVE BlkFine'
    BY <1>0, <1>2 DEF BlkFine, Shape
  <1>3. ASSUME NEW a \in Actors, Return(a) PROVE BlkFine'
    BY <1>2, <1>3, EmptyBody DEF Return
  <1>4. ASSUME NEW n, NEW bits
        PROVE  "txs" \in DOMAIN Template(n, bits) /\ IsBody(Template(n, bits).txs)
    BY <1>0, PullIsBody DEF Template
  <1>5. CASE UNCHANGED vars
    BY <1>0, <1>1, <1>5 DEF vars
  <1>6. ASSUME NEW h \in Hashes, SubmitTx(h) \/ SubmitTransfer(h) PROVE Bodied'
    <2>1. UNCHANGED <<offered, blk, disk>>
      BY <1>6 DEF SubmitTx, SubmitTransfer
    <2>2. PoolFine'
      <3>1. CASE SubmitTx(h)
        BY <1>0, <3>1, SubmitPool DEF SubmitTx
      <3>2. CASE SubmitTransfer(h)
        <4>1. PICK form \in Hashes : Pool!submit(form)
          BY <3>2, TxAssumption DEF SubmitTransfer
        <4> QED BY <1>0, <4>1, SubmitPool
      <3> QED BY <1>6, <3>1, <3>2
    <2> QED BY <1>0, <1>1, <2>1, <2>2
  <1>7. ASSUME NEW n \in 1 .. MaxIds, GetTemplate(n) PROVE Bodied'
    <2>1. UNCHANGED <<inner, blk, disk>>
      BY <1>7 DEF GetTemplate
    <2>2. PICK b \in Remote(Template(n, GenesisBits)) : offered' = offered \cup {b}
      BY <1>7 DEF GetTemplate
    <2>3. "txs" \in DOMAIN b /\ IsBody(b.txs)
      BY <1>4, RemoteIsBody
    <2>4. OfferedFine'
      BY <1>0, <2>2, <2>3 DEF OfferedFine
    <2> QED BY <1>0, <1>1, <2>1, <2>4
  <1>8. ASSUME NEW b \in offered, SubmitBlock(b) PROVE Bodied'
    <2>1. /\ UNCHANGED <<inner, disk>> /\ offered' \in {offered, offered \ {b}} /\ "rpc" \in Actors
          /\ blk' = [blk EXCEPT !["rpc"] = b]
      BY <1>8 DEF SubmitBlock, RpcFree
    <2>2. IsBody(b.txs)
      BY <1>0 DEF OfferedFine
    <2>3. BlkFine'
      BY <1>2, <2>1, <2>2
    <2>4. OfferedFine'
      BY <1>0, <2>1 DEF OfferedFine
    <2> QED BY <1>0, <1>1, <2>1, <2>3, <2>4
  <1>9. ASSUME NEW n \in 1 .. MaxIds, MinerBuild(n) PROVE Bodied'
    <2>1. /\ UNCHANGED <<inner, disk, offered>> /\ "miner" \in Actors
          /\ blk' = [blk EXCEPT !["miner"] = Template(n, NextBits(Tip.bits, Tip.ts, now))]
      BY <1>9 DEF MinerBuild
    <2>2. BlkFine'
      BY <1>2, <1>4, <2>1
    <2> QED BY <1>0, <1>1, <2>1, <2>2
  <1>10. CASE MinerFound
    BY <1>0, <1>1, <1>10 DEF MinerFound, Goto
  <1>11. CASE MinerAbandon
    BY <1>0, <1>1, <1>3, <1>11 DEF MinerAbandon
  <1>12. ASSUME NEW a \in Actors, Publish(a) \/ AppendFails(a) PROVE Bodied'
    <2>1. CASE Check(a) \/ ReadTip(a) \/ ReadMinted(a) \/ ReadPrev(a) \/ ApplyBlock(a)
               \/ WriteMinted(a) \/ WritePrev(a)
      <3>1. UNCHANGED <<inner, offered, blk, disk>>
        BY <2>1 DEF Check, ReadTip, ReadMinted, ReadPrev, ApplyBlock, WriteMinted, WritePrev, Goto
      <3> QED BY <1>0, <1>1, <3>1
    <2>2. CASE Reject(a) \/ ApplyFails(a) \/ AppendFails(a)
      <3>1. UNCHANGED <<inner, offered, disk>> /\ Return(a)
        BY <2>2 DEF Reject, ApplyFails, AppendFails
      <3> QED BY <1>0, <1>1, <1>3, <3>1
    <2>3. CASE ConfirmTxs(a)
      <3>1. UNCHANGED <<offered, disk, blk>>
            /\ Pool!confirm({blk[a].txs[k] : k \in DOMAIN blk[a].txs})
        BY <2>3 DEF ConfirmTxs, Goto
      <3>2. PoolFine'
        BY <1>0, <3>1, ConfirmPool
      <3> QED BY <1>0, <1>1, <3>1, <3>2
    <2>4. CASE AppendBlock(a)
      <3>1. UNCHANGED <<offered, inner>> /\ Return(a) /\ disk' = Append(disk, blk[a])
        BY <2>4 DEF AppendBlock
      <3>2. DiskFine'
        <4>1. /\ DOMAIN disk = 1 .. Len(disk) /\ DOMAIN disk' = 1 .. Len(disk) + 1 /\ Len(disk) \in Nat
              /\ \A k \in 1 .. Len(disk) : disk'[k] = disk[k]
              /\ disk'[Len(disk) + 1] = blk[a]
          BY <3>1, AppendLog
        <4> SUFFICES ASSUME NEW k \in DOMAIN disk' PROVE IsBody(disk'[k].txs)
          BY DEF DiskFine
        <4>2. k \in 1 .. Len(disk) \/ k = Len(disk) + 1
          BY <4>1
        <4> QED BY <1>0, <4>1, <4>2 DEF DiskFine, BlkFine
      <3> QED BY <1>0, <1>1, <1>3, <3>1, <3>2
    <2> QED BY <1>12, <2>1, <2>2, <2>3, <2>4 DEF Publish
  <1>13. CASE Crash
    <2>1. UNCHANGED <<disk, offered>> /\ blk' = [b \in Actors |-> Genesis] /\ PoolFine'
      BY <1>13, EmptyPool DEF Crash
    <2>2. BlkFine'
      BY <2>1, EmptyBody DEF BlkFine
    <2> QED BY <1>0, <1>1, <2>1, <2>2
  <1>14. CASE Restart
    <2>1. UNCHANGED <<disk, offered, blk>> /\ PoolFine'
      BY <1>14, EmptyPool DEF Restart, Boot
    <2> QED BY <1>0, <1>1, <2>1
  <1>15. CASE RestartFails \/ Tick
    BY <1>0, <1>1, <1>15 DEF RestartFails, Tick
  <1> QED BY <1>5, <1>6, <1>7, <1>8, <1>9, <1>10, <1>11, <1>12, <1>13, <1>14, <1>15 DEF Next, Mine

-----------------------------------------------------------------------------
(* apply_block. *)

IsState(s) ==
    /\ s = [nonce |-> s.nonce, issued |-> s.issued, applied |-> s.applied, partly |-> s.partly]
    /\ s.nonce \in [Senders -> Nat]
    /\ s.applied \in Seq({s.applied[k] : k \in DOMAIN s.applied})

(* No transaction of b can be applied to s any more. *)
Spent(s, b) == \A m \in DOMAIN b.txs : s.nonce[Sender[b.txs[m]]] > Nonce[b.txs[m]]

(* One transfer, in one form or in two. *)
Same(g, h) == Sender[g] = Sender[h] /\ Nonce[g] = Nonce[h]
OnceEach(b) == \A m, n \in DOMAIN b.txs : Same(b.txs[m], b.txs[n]) => m = n
Apart(b, c) == \A m \in DOMAIN b.txs, n \in DOMAIN c.txs : ~ Same(b.txs[m], c.txs[n])

LEMMA BodyTypes ==
    ASSUME NEW txs, IsBody(txs)
    PROVE  /\ IsFiniteSet(DOMAIN txs) /\ DOMAIN txs \subseteq Nat
           /\ \A k \in DOMAIN txs : /\ txs[k] \in Hashes /\ Sender[txs[k]] \in Senders
                                    /\ Nonce[txs[k]] \in Nat
  <1>1. txs \in Seq(Hashes) /\ DOMAIN txs = 1 .. Len(txs) /\ Len(txs) \in Nat
    BY DEF IsBody
  <1>2. 1 \in Int /\ Len(txs) \in Int
    BY <1>1
  <1>3. IsFiniteSet(1 .. Len(txs))
    BY <1>2, FS_Interval
  <1>4. \A k \in DOMAIN txs : txs[k] \in Hashes
    BY <1>1
  <1> QED BY <1>1, <1>3, <1>4, TxAssumption

(* A nonce is raised by the number of the sender's transactions that were executed. *)
LEMMA BumpGrows ==
    ASSUME NEW s, IsState(s), NEW b, IsBody(b.txs)
    PROVE  /\ Bump(s, b) \in [Senders -> Nat]
           /\ \A a \in Senders : Bump(s, b)[a] >= s.nonce[a]
           /\ \A k \in Executed(b) : Bump(s, b)[Sender[b.txs[k]]] > s.nonce[Sender[b.txs[k]]]
  <1> DEFINE Of(a) == {k \in Executed(b) : Sender[b.txs[k]] = a}
  <1>1. IsFiniteSet(DOMAIN b.txs) /\ \A k \in DOMAIN b.txs : Sender[b.txs[k]] \in Senders
    BY BodyTypes
  <1>2. ASSUME NEW a PROVE IsFiniteSet(Of(a)) /\ Cardinality(Of(a)) \in Nat
    <2>1. Of(a) \in SUBSET DOMAIN b.txs
      BY DEF Executed
    <2>2. IsFiniteSet(Of(a))
      BY <1>1, <2>1, FS_Subset
    <2> QED BY <2>2, FS_CardinalityType
  <1>3. ASSUME NEW k \in Executed(b) PROVE Cardinality(Of(Sender[b.txs[k]])) > 0
    <2>1. Of(Sender[b.txs[k]]) # {}
      OBVIOUS
    <2> HIDE DEF Of
    <2> QED BY <1>2, <2>1, FS_EmptySet
  <1>4. Bump(s, b) = [a \in Senders |-> s.nonce[a] + Cardinality(Of(a))]
    BY DEF Bump
  <1>5. \A k \in Executed(b) : Sender[b.txs[k]] \in Senders
    BY <1>1 DEF Executed
  <1>6. \A a \in Senders : s.nonce[a] \in Nat
    BY DEF IsState
  <1> HIDE DEF Of
  <1> QED BY <1>2, <1>3, <1>4, <1>5, <1>6

(* The three ways apply_block can end: nothing written, a part of the block written, all of it. *)
LEMMA ApplyEnds ==
    ASSUME NEW s, IsState(s), NEW b, NEW r
    PROVE  \/ apply_block(s, b, r) = [ok |-> FALSE, state |-> s]
           \/ apply_block(s, b, r) =
                  [ok |-> FALSE, state |-> [nonce |-> Bump(s, b), issued |-> s.issued,
                                            applied |-> s.applied, partly |-> TRUE]]
           \/ /\ Passes1(s, b) /\ Repeats(b) = {}
              /\ apply_block(s, b, r) =
                     [ok |-> TRUE, state |-> [nonce |-> Bump(s, b), issued |-> s.issued + r,
                                              applied |-> Append(s.applied, b.id), partly |-> s.partly]]
  <1>1. s = [nonce |-> s.nonce, issued |-> s.issued, applied |-> s.applied, partly |-> s.partly]
    BY DEF IsState
  <1>2. Debited(s, b) = [nonce |-> Bump(s, b), issued |-> s.issued, applied |-> s.applied,
                         partly |-> s.partly]
    BY <1>1 DEF Debited
  <1>3. /\ [Debited(s, b) EXCEPT !.partly = TRUE] =
               [nonce |-> Bump(s, b), issued |-> s.issued, applied |-> s.applied, partly |-> TRUE]
        /\ [Debited(s, b) EXCEPT !.issued = @ + r, !.applied = Append(@, b.id)] =
               [nonce |-> Bump(s, b), issued |-> s.issued + r, applied |-> Append(s.applied, b.id),
                partly |-> s.partly]
    <2> DEFINE d == Debited(s, b)
               n == Bump(s, b)
               i == s.issued
               q == s.applied
               p == s.partly
               x == b.id
    <2>1. d = [nonce |-> n, issued |-> i, applied |-> q, partly |-> p]
      BY <1>2
    <2> HIDE DEF d, n, i, q, p, x
    <2>2. ASSUME NEW t, t = [d EXCEPT !.partly = TRUE]
          PROVE  t = [nonce |-> n, issued |-> i, applied |-> q, partly |-> TRUE]
      BY <2>1, <2>2
    <2>3. ASSUME NEW t, NEW j, NEW z, t = [d EXCEPT !.issued = j, !.applied = z]
          PROVE  t = [nonce |-> n, issued |-> j, applied |-> z, partly |-> p]
      BY <2>1, <2>3
    <2>4. d.issued = i /\ d.applied = q
      BY <2>1
    <2>5. /\ [d EXCEPT !.partly = TRUE] = [nonce |-> n, issued |-> i, applied |-> q, partly |-> TRUE]
          /\ [d EXCEPT !.issued = @ + r, !.applied = Append(@, x)] =
                 [nonce |-> n, issued |-> i + r, applied |-> Append(q, x), partly |-> p]
      BY <2>2, <2>3, <2>4
    <2> QED BY <2>5 DEF d, n, i, q, p, x
  <1> QED BY <1>3, Zenon DEF apply_block

(* Appending one more id to what was applied. *)
LEMMA OneMore ==
    ASSUME NEW q, q \in Seq({q[k] : k \in DOMAIN q}), NEW x
    PROVE  LET t == Append(q, x)
           IN t \in Seq({t[k] : k \in DOMAIN t}) /\ Len(t) = Len(q) + 1 /\ Len(q) \in Nat
  <1> DEFINE S == {q[k] : k \in DOMAIN q} \cup {x}
             t == Append(q, x)
  <1>1. q \in Seq(S)
    BY SeqDef
  <1> HIDE DEF S
  <1>2. x \in S
    BY DEF S
  <1>3. t \in Seq(S) /\ Len(t) = Len(q) + 1 /\ Len(q) \in Nat
    BY <1>1, <1>2, AppendProperties
  <1> QED BY <1>3, SeqOfOwnElements

(* Whatever apply_block returns, no nonce of the state it leaves is smaller; a block that is
   accepted is counted, and one that is refused leaves nothing or a mark. *)
LEMMA ApplyGrows ==
    ASSUME NEW s, IsState(s), NEW b, IsBody(b.txs), NEW r
    PROVE  /\ IsState(apply_block(s, b, r).state)
           /\ \A a \in Senders : apply_block(s, b, r).state.nonce[a] >= s.nonce[a]
           /\ Len(s.applied) \in Nat
           /\ apply_block(s, b, r).ok =>
                  /\ Len(apply_block(s, b, r).state.applied) = Len(s.applied) + 1
                  /\ apply_block(s, b, r).state.partly = s.partly
           /\ ~ apply_block(s, b, r).ok =>
                  /\ apply_block(s, b, r).state.applied = s.applied
                  /\ apply_block(s, b, r).state = s \/ apply_block(s, b, r).state.partly
  <1> DEFINE out == apply_block(s, b, r)
             t == out.state
             q == Append(s.applied, b.id)
  <1>1. \A a \in Senders : s.nonce[a] \in Nat
    BY DEF IsState
  <1>2. q \in Seq({q[k] : k \in DOMAIN q}) /\ Len(q) = Len(s.applied) + 1 /\ Len(s.applied) \in Nat
    BY OneMore DEF IsState
  <1> HIDE DEF q
  <1>3. CASE out = [ok |-> FALSE, state |-> s]
    <2>1. ~ out.ok /\ t = s
      BY <1>3
    <2> HIDE DEF out
    <2> QED BY <1>1, <1>2, <2>1 DEF out
  <1>4. CASE out = [ok |-> FALSE, state |-> [nonce |-> Bump(s, b), issued |-> s.issued,
                                             applied |-> s.applied, partly |-> TRUE]]
    <2> HIDE DEF out
    <2>1. ~ out.ok /\ t.nonce = Bump(s, b) /\ t.applied = s.applied /\ t.partly /\ t.issued = s.issued
          /\ t = [nonce |-> t.nonce, issued |-> t.issued, applied |-> t.applied, partly |-> t.partly]
      BY <1>4
    <2>2. IsState(t)
      BY <2>1, BumpGrows DEF IsState
    <2> QED BY <1>2, <2>1, <2>2, BumpGrows DEF out
  <1>5. CASE out = [ok |-> TRUE, state |-> [nonce |-> Bump(s, b), issued |-> s.issued + r,
                                            applied |-> q, partly |-> s.partly]]
    <2> HIDE DEF out
    <2>1. out.ok /\ t.nonce = Bump(s, b) /\ t.applied = q /\ t.partly = s.partly
          /\ t = [nonce |-> t.nonce, issued |-> t.issued, applied |-> t.applied, partly |-> t.partly]
      BY <1>5
    <2>2. IsState(t)
      BY <1>2, <2>1, BumpGrows DEF IsState
    <2> QED BY <1>2, <2>1, <2>2, BumpGrows DEF out
  <1> QED BY <1>3, <1>4, <1>5, ApplyEnds DEF q

(* What stays spent. *)
LEMMA SpentStays ==
    ASSUME NEW s, IsState(s), NEW t, IsState(t), \A a \in Senders : t.nonce[a] >= s.nonce[a],
           NEW c, IsBody(c.txs), Spent(s, c)
    PROVE  Spent(t, c)
  <1> SUFFICES ASSUME NEW m \in DOMAIN c.txs
               PROVE  t.nonce[Sender[c.txs[m]]] > Nonce[c.txs[m]]
    BY DEF Spent
  <1>1. Sender[c.txs[m]] \in Senders /\ Nonce[c.txs[m]] \in Nat
    BY BodyTypes
  <1>2. s.nonce[Sender[c.txs[m]]] > Nonce[c.txs[m]]
    BY DEF Spent
  <1>3. s.nonce[Sender[c.txs[m]]] \in Nat /\ t.nonce[Sender[c.txs[m]]] \in Nat
    BY <1>1 DEF IsState
  <1> QED BY <1>1, <1>2, <1>3

(* A block that apply_block accepts has one transaction per sender, none that was spent, and
   spends them. *)
LEMMA ApplyOk ==
    ASSUME NEW s, IsState(s), NEW b, IsBody(b.txs), NEW r, apply_block(s, b, r).ok
    PROVE  /\ Spent(apply_block(s, b, r).state, b) /\ OnceEach(b)
           /\ \A c : IsBody(c.txs) /\ Spent(s, c) => Apart(b, c) /\ Apart(c, b)
           /\ apply_block(s, b, r).state.nonce = Bump(s, b) /\ Executed(b) = DOMAIN b.txs
  <1>1. Passes1(s, b) /\ Repeats(b) = {} /\ apply_block(s, b, r).state.nonce = Bump(s, b)
    <2> DEFINE out == apply_block(s, b, r)
    <2>1. out.ok
      OBVIOUS
    <2>2. \/ out = [ok |-> FALSE, state |-> out.state]
          \/ /\ Passes1(s, b) /\ Repeats(b) = {}
             /\ out.state = [nonce |-> Bump(s, b), issued |-> s.issued + r,
                             applied |-> Append(s.applied, b.id), partly |-> s.partly]
      BY ApplyEnds
    <2> HIDE DEF out
    <2> QED BY <2>1, <2>2 DEF out
  <1>2. apply_block(s, b, r).state.nonce = Bump(s, b)
    BY <1>1
  <1>3. Executed(b) = DOMAIN b.txs
    BY <1>1 DEF Executed
  <1>4. \A k \in DOMAIN b.txs : /\ Nonce[b.txs[k]] = s.nonce[Sender[b.txs[k]]]
                                /\ Nonce[b.txs[k]] \in Nat
    BY <1>1, BodyTypes DEF Passes1
  <1>5. Spent(apply_block(s, b, r).state, b)
    BY <1>2, <1>3, <1>4, BumpGrows DEF Spent
  <1>6. OnceEach(b)
    <2> SUFFICES ASSUME NEW m \in DOMAIN b.txs, NEW n \in DOMAIN b.txs,
                        Sender[b.txs[m]] = Sender[b.txs[n]], m # n
                 PROVE  FALSE
      BY DEF OnceEach, Same
    <2>1. m \in Nat /\ n \in Nat /\ DOMAIN b.txs = 1 .. Len(b.txs)
      BY DEF IsBody
    <2>2. m \in 1 .. n - 1 \/ n \in 1 .. m - 1
      BY <2>1
    <2> QED BY <1>1, <2>2 DEF Repeats
  <1>7. ASSUME NEW c, IsBody(c.txs), Spent(s, c) PROVE Apart(b, c) /\ Apart(c, b)
    <2> SUFFICES ASSUME NEW m \in DOMAIN b.txs, NEW n \in DOMAIN c.txs,
                        Sender[b.txs[m]] = Sender[c.txs[n]], Nonce[b.txs[m]] = Nonce[c.txs[n]]
                 PROVE  FALSE
      BY DEF Apart, Same
    <2>1. s.nonce[Sender[c.txs[n]]] > Nonce[c.txs[n]] /\ Nonce[c.txs[n]] \in Nat
      BY <1>7, BodyTypes DEF Spent
    <2> QED BY <1>4, <2>1
  <1> QED BY <1>2, <1>3, <1>5, <1>6, <1>7

-----------------------------------------------------------------------------
(* The replay of a log. *)

Start == [ok |-> TRUE, state |-> Fresh, minted |-> 0, prev |-> None]
Then(log, r, b) == IF r.ok THEN ReplayStep(log, r, b) ELSE r

(* R is the loop of the replay over the first n blocks. *)
Loops(R, log, n) == R = [k \in 0 .. n |-> IF k = 0 THEN Start ELSE Then(log, R[k - 1], log[k])]
ReplayLoop(log) == CHOOSE R : Loops(R, log, Len(log))

LEMMA ReplayDef ==
    ASSUME NEW log
    PROVE  Replay(log) = ReplayLoop(log)[Len(log)]
  BY Zenon DEF Replay, ReplayLoop, Loops, Then, Start

(* The loop starts with an empty state and takes one step per block. *)
LEMMA ReplayUnfolds ==
    ASSUME NEW log, Len(log) \in Nat
    PROVE  /\ ReplayLoop(log)[0] = Start
           /\ \A k \in 1 .. Len(log) : ReplayLoop(log)[k] = Then(log, ReplayLoop(log)[k - 1], log[k])
  <1> DEFINE N == {n \in Nat : \E R : Loops(R, log, n)}
             L == Len(log)
  <1>1. 0 \in N
    <2> DEFINE R == [k \in 0 .. 0 |-> Start]
    <2>1. Loops(R, log, 0)
      BY DEF Loops
    <2> QED BY <2>1
  <1>2. ASSUME NEW n \in Nat, n \in N PROVE n + 1 \in N
    <2>1. PICK R : Loops(R, log, n)
      BY <1>2
    <2> DEFINE Q == [k \in 0 .. n + 1 |-> IF k = 0 THEN Start ELSE Then(log, R[k - 1], log[k])]
    <2>2. \A k \in 0 .. n : R[k] = IF k = 0 THEN Start ELSE Then(log, R[k - 1], log[k])
      BY <2>1 DEF Loops
    <2>3. \A k \in 0 .. n : Q[k] = R[k]
      BY <2>2
    <2>4. \A k \in 0 .. n + 1 : k # 0 => k - 1 \in 0 .. n
      OBVIOUS
    <2>5. \A k \in 0 .. n + 1 : Q[k] = IF k = 0 THEN Start ELSE Then(log, Q[k - 1], log[k])
      BY <2>3, <2>4
    <2>6. Loops(Q, log, n + 1)
      BY <2>5 DEF Loops
    <2> QED BY <2>6
  <1>3. L \in N
    <2> HIDE DEF N
    <2> QED BY <1>1, <1>2, NatSetInduction
  <1>4. Loops(ReplayLoop(log), log, L)
    BY <1>3 DEF ReplayLoop
  <1> DEFINE R == ReplayLoop(log)
  <1>5. R = [k \in 0 .. L |-> IF k = 0 THEN Start ELSE Then(log, R[k - 1], log[k])]
    BY <1>4 DEF Loops
  <1> HIDE DEF R, L
  <1>6. L \in Nat
    BY DEF L
  <1>7. R[0] = Start /\ \A k \in 1 .. L : R[k] = Then(log, R[k - 1], log[k])
    BY <1>5, <1>6
  <1> QED BY <1>7 DEF R, L

(* As long as it succeeds, a replay has spent every transaction and applied every block that it
   has come to. *)
LEMMA LoopSpends ==
    ASSUME NEW log, Len(log) \in Nat, \A k \in 1 .. Len(log) : IsBody(log[k].txs)
    PROVE  \A n \in 0 .. Len(log) :
               /\ IsState(ReplayLoop(log)[n].state)
               /\ ReplayLoop(log)[n].ok =>
                      /\ Len(ReplayLoop(log)[n].state.applied) = n
                      /\ ~ ReplayLoop(log)[n].state.partly
                      /\ \A k \in 1 .. n : Spent(ReplayLoop(log)[n].state, log[k])
  <1> DEFINE L == Len(log)
             R == ReplayLoop(log)
             Good(n) == /\ IsState(R[n].state)
                        /\ R[n].ok => /\ Len(R[n].state.applied) = n /\ ~ R[n].state.partly
                                      /\ \A k \in 1 .. n : Spent(R[n].state, log[k])
             N == {n \in Nat : n <= L => Good(n)}
  <1>1. R[0] = Start /\ \A k \in 1 .. L : R[k] = Then(log, R[k - 1], log[k])
    BY ReplayUnfolds
  <1> HIDE DEF R, L
  <1>2. Good(0)
    <2>1. R[0].state = Fresh /\ 1 .. 0 = {}
      BY <1>1 DEF Start
    <2> QED BY <2>1 DEF Fresh, IsState
  <1>3. ASSUME NEW n \in Nat, n \in N PROVE n + 1 \in N
    <2> SUFFICES ASSUME n + 1 <= L PROVE Good(n + 1)
      OBVIOUS
    <2>1. L \in Nat /\ n + 1 \in 1 .. L /\ n + 1 - 1 = n /\ Good(n)
      BY <1>3 DEF L
    <2>2. R[n + 1] = Then(log, R[n], log[n + 1])
      BY <1>1, <2>1
    <2>3. CASE ~ R[n].ok
      <3>1. R[n + 1] = R[n]
        BY <2>2, <2>3 DEF Then
      <3> QED BY <2>1, <2>3, <3>1
    <2>4. CASE R[n].ok
      <3> DEFINE b == log[n + 1]
                 reward == Reward(b.ts, parent_ts(log, b), R[n].minted, b.height, R[n].prev)
                 out == apply_block(R[n].state, b, reward)
      <3>1. R[n + 1].ok = (R[n].ok /\ out.ok) /\ R[n + 1].state = out.state
        BY <2>2, <2>4 DEF Then, ReplayStep
      <3>2. IsBody(b.txs) /\ \A k \in 1 .. n : IsBody(log[k].txs)
        BY <2>1 DEF L
      <3> HIDE DEF reward, b
      <3>3. /\ IsState(out.state) /\ \A a \in Senders : out.state.nonce[a] >= R[n].state.nonce[a]
            /\ out.ok => Len(out.state.applied) = n + 1 /\ ~ out.state.partly
        BY <2>1, <2>4, <3>2, ApplyGrows
      <3>4. out.ok => Spent(out.state, b)
        BY <2>1, <3>2, ApplyOk
      <3>5. \A k \in 1 .. n : Spent(out.state, log[k])
        BY <2>1, <2>4, <3>2, <3>3, SpentStays
      <3> HIDE DEF out
      <3>6. ASSUME R[n + 1].ok, NEW k \in 1 .. n + 1 PROVE Spent(out.state, log[k])
        <4>1. k \in 1 .. n \/ k = n + 1
          OBVIOUS
        <4> QED BY <2>4, <3>1, <3>4, <3>5, <3>6, <4>1 DEF b
      <3> QED BY <2>4, <3>1, <3>3, <3>6
    <2> QED BY <2>3, <2>4
  <1>4. Nat \subseteq N
    <2>1. 0 \in N
      BY <1>2
    <2> HIDE DEF N
    <2> QED BY <1>3, <2>1, NatSetInduction
  <1>5. \A n \in 0 .. L : Good(n)
    <2>1. L \in Nat
      BY DEF L
    <2>2. \A n \in 0 .. L : n \in Nat /\ n <= L
      BY <2>1
    <2> QED BY <1>4, <2>2
  <1> QED BY <1>5 DEF R, L

LEMMA ReplaySpends ==
    ASSUME NEW log, Len(log) \in Nat, \A k \in 1 .. Len(log) : IsBody(log[k].txs)
    PROVE  /\ IsState(Replay(log).state)
           /\ Replay(log).ok => /\ Len(Replay(log).state.applied) = Len(log)
                                /\ ~ Replay(log).state.partly
                                /\ \A k \in 1 .. Len(log) : Spent(Replay(log).state, log[k])
  <1>1. Len(log) \in 0 .. Len(log)
    OBVIOUS
  <1> QED BY <1>1, LoopSpends, ReplayDef

-----------------------------------------------------------------------------
(* No transfer twice, with any number of publishing threads. *)

(* The inductive invariant.  While the node runs, everything in the log and everything on its way
   there is spent in the live state, so that apply_block, which all threads go through one at a
   time, cannot accept it again; what it has accepted is pairwise different. *)
LogSpent == \A k \in DOMAIN disk : Spent(state, disk[k])
CommittedSpent == \A a \in Actors : Committing(a) => Spent(state, blk[a])
LogApart ==
    /\ \A k \in DOMAIN disk : OnceEach(disk[k])
    /\ \A j, k \in DOMAIN disk : j # k => Apart(disk[j], disk[k])
CommittedApart ==
    /\ \A a \in Actors : Committing(a) =>
           /\ OnceEach(blk[a])
           /\ \A k \in DOMAIN disk : Apart(blk[a], disk[k]) /\ Apart(disk[k], blk[a])
    /\ \A a, b \in Actors : a # b /\ Committing(a) /\ Committing(b) => Apart(blk[a], blk[b])
OnceInv ==
    /\ up = "running" => IsState(state) /\ LogSpent /\ CommittedSpent
    /\ up # "running" => \A a \in Actors : ~ Committing(a)
    /\ LogApart /\ CommittedApart

(* A step by which no block gets any nearer to the log. *)
Idles ==
    /\ UNCHANGED <<disk, up>>
    /\ \A b \in Actors : Committing(b)' => Committing(b) /\ blk'[b] = blk[b]
    /\ \/ UNCHANGED state
       \/ up = "running" /\ \E a \in Actors : state' = apply_block(state, blk[a], loc[a].reward).state

LEMMA GotoIdles ==
    ASSUME Shape, NEW a \in Actors, NEW to \in Labels, Goto(a, to),
           Committing(a) \/ to \notin {"write_minted", "write_prev", "confirm", "append"}
    PROVE  \A b \in Actors : Committing(b)' => Committing(b) /\ blk'[b] = blk[b]
  <1>1. pc' = [pc EXCEPT ![a] = to] /\ blk' = blk
    BY DEF Goto
  <1>2. pc'[a] = to /\ \A b \in Actors \ {a} : pc'[b] = pc[b]
    BY <1>1 DEF Shape
  <1> QED BY <1>1, <1>2 DEF Committing

LEMMA OutsideIdles ==
    ASSUME Shape, NEW a \in Actors, NEW to, to \notin {"write_minted", "write_prev", "confirm", "append"},
           NEW c, pc' = [pc EXCEPT ![a] = to], blk' = [blk EXCEPT ![a] = c]
    PROVE  \A b \in Actors : Committing(b)' => Committing(b) /\ blk'[b] = blk[b]
  <1>1. pc'[a] = to /\ \A b \in Actors \ {a} : pc'[b] = pc[b] /\ blk'[b] = blk[b]
    BY DEF Shape
  <1> QED BY <1>1 DEF Committing

LEMMA MostStepsIdle ==
    ASSUME Shape, [Next]_vars, ~ (Crash \/ Restart \/ RestartFails),
           \A a \in Actors : ~ ApplyBlock(a) /\ ~ AppendBlock(a)
    PROVE  Idles
  <1> USE DEF shared, chain_log
  <1>0. ASSUME UNCHANGED <<disk, up, state>>,
               \A b \in Actors : Committing(b)' => Committing(b) /\ blk'[b] = blk[b]
        PROVE  Idles
    BY <1>0 DEF Idles
  <1>1. ASSUME UNCHANGED <<disk, up, state, pc, blk>> PROVE Idles
    BY <1>1 DEF Idles, Committing
  <1>2. CASE UNCHANGED vars
    BY <1>1, <1>2 DEF vars
  <1>3. ASSUME NEW h \in Hashes, SubmitTx(h) \/ SubmitTransfer(h) PROVE Idles
    BY <1>1, <1>3 DEF SubmitTx, SubmitTransfer
  <1>4. ASSUME NEW n \in 1 .. MaxIds, GetTemplate(n) PROVE Idles
    BY <1>1, <1>4 DEF GetTemplate
  <1>5. ASSUME NEW b \in offered, SubmitBlock(b) PROVE Idles
    <2>1. /\ "rpc" \in Actors /\ pc' = [pc EXCEPT !["rpc"] = "check"]
          /\ blk' = [blk EXCEPT !["rpc"] = b] /\ UNCHANGED <<disk, up, state>>
      BY <1>5 DEF SubmitBlock, RpcFree
    <2> QED BY <1>0, <2>1, OutsideIdles
  <1>6. ASSUME NEW n \in 1 .. MaxIds, MinerBuild(n) PROVE Idles
    <2>1. /\ "miner" \in Actors /\ pc' = [pc EXCEPT !["miner"] = "mining"]
          /\ UNCHANGED <<disk, up, state>>
          /\ blk' = [blk EXCEPT !["miner"] = Template(n, NextBits(Tip.bits, Tip.ts, now))]
      BY <1>6 DEF MinerBuild
    <2> QED BY <1>0, <2>1, OutsideIdles
  <1>7. CASE MinerFound
    <2>1. "miner" \in Actors /\ Goto("miner", "check") /\ UNCHANGED <<disk, up, state>>
      BY <1>7 DEF MinerFound
    <2>2. "check" \in Labels
      BY DEF Labels
    <2> QED BY <1>0, <2>1, <2>2, GotoIdles
  <1>8. ASSUME NEW a \in Actors, Return(a), UNCHANGED <<disk, up, state>> PROVE Idles
    BY <1>0, <1>8, OutsideIdles DEF Return
  <1>9. CASE MinerAbandon
    BY <1>8, <1>9 DEF MinerAbandon
  <1>10. ASSUME NEW a \in Actors, Publish(a) \/ AppendFails(a) PROVE Idles
    <2>1. CASE Check(a) \/ ReadTip(a) \/ ReadMinted(a) \/ ReadPrev(a)
      <3>1. PICK to \in {"read_tip", "read_minted", "read_prev", "apply"} :
                Goto(a, to) /\ UNCHANGED <<disk, up, state>>
        BY <2>1 DEF Check, ReadTip, ReadMinted, ReadPrev
      <3>2. to \in Labels /\ to \notin {"write_minted", "write_prev", "confirm", "append"}
        BY DEF Labels
      <3> QED BY <1>0, <3>1, <3>2, GotoIdles
    <2>2. CASE WriteMinted(a) \/ WritePrev(a) \/ ConfirmTxs(a)
      <3>1. PICK to \in {"write_prev", "confirm", "append"} :
                Goto(a, to) /\ Committing(a) /\ UNCHANGED <<disk, up, state>>
        BY <2>2 DEF WriteMinted, WritePrev, ConfirmTxs, At, Committing
      <3>2. to \in Labels
        BY DEF Labels
      <3> QED BY <1>0, <3>1, <3>2, GotoIdles
    <2>3. CASE Reject(a) \/ AppendFails(a)
      BY <1>8, <2>3 DEF Reject, AppendFails
    <2>4. CASE ApplyFails(a)
      <3>1. /\ Return(a) /\ UNCHANGED <<disk, up>> /\ up = "running"
            /\ state' = apply_block(state, blk[a], loc[a].reward).state
        BY <2>4 DEF ApplyFails, At
      <3>2. \A b \in Actors : Committing(b)' => Committing(b) /\ blk'[b] = blk[b]
        BY <3>1, OutsideIdles DEF Return
      <3> QED BY <3>1, <3>2 DEF Idles
    <2> QED BY <1>10, <2>1, <2>2, <2>3, <2>4 DEF Publish
  <1>11. CASE Tick
    BY <1>1, <1>11 DEF Tick
  <1> QED BY <1>2, <1>3, <1>4, <1>5, <1>6, <1>7, <1>9, <1>10, <1>11 DEF Next, Mine

(* The invariant through such a step. *)
LEMMA IdlesOnce ==
    ASSUME Shape, Bodied, OnceInv, Idles
    PROVE  OnceInv'
  <1>1. LogApart'
    BY DEF Idles, OnceInv, LogApart
  <1>2. CommittedApart'
    <2>1. ASSUME NEW a \in Actors, Committing(a)'
          PROVE  OnceEach(blk'[a]) /\ \A k \in DOMAIN disk' : Apart(blk'[a], disk'[k]) /\ Apart(disk'[k], blk'[a])
      BY <2>1 DEF Idles, OnceInv, CommittedApart
    <2>2. ASSUME NEW a \in Actors, NEW b \in Actors, a # b, Committing(a)', Committing(b)'
          PROVE  Apart(blk'[a], blk'[b])
      BY <2>2 DEF Idles, OnceInv, CommittedApart
    <2> QED BY <2>1, <2>2 DEF CommittedApart
  <1>3. ASSUME up' # "running", NEW a \in Actors PROVE ~ Committing(a)'
    BY <1>3 DEF Idles, OnceInv
  <1>4. ASSUME up' = "running" PROVE IsState(state') /\ LogSpent' /\ CommittedSpent'
    <2>1. IsState(state) /\ LogSpent /\ CommittedSpent
      BY <1>4 DEF Idles, OnceInv
    <2>2. IsState(state') /\ \A x \in Senders : state'.nonce[x] >= state.nonce[x]
      <3>1. CASE UNCHANGED state
        <4>1. \A x \in Senders : state.nonce[x] \in Nat
          BY <2>1 DEF IsState
        <4> QED BY <2>1, <3>1, <4>1
      <3>2. CASE \E a \in Actors : state' = apply_block(state, blk[a], loc[a].reward).state
        <4>1. PICK a \in Actors : state' = apply_block(state, blk[a], loc[a].reward).state
          BY <3>2
        <4>2. IsBody(blk[a].txs)
          BY DEF Bodied
        <4> QED BY <2>1, <4>1, <4>2, ApplyGrows
      <3> QED BY <3>1, <3>2 DEF Idles
    <2>3. LogSpent'
      <3> SUFFICES ASSUME NEW k \in DOMAIN disk PROVE Spent(state', disk[k])
        BY DEF LogSpent, Idles
      <3>1. IsBody(disk[k].txs) /\ Spent(state, disk[k])
        BY <2>1 DEF Bodied, LogSpent
      <3> QED BY <2>1, <2>2, <3>1, SpentStays
    <2>4. CommittedSpent'
      <3> SUFFICES ASSUME NEW a \in Actors, Committing(a)' PROVE Spent(state', blk'[a])
        BY DEF CommittedSpent
      <3>1. Committing(a) /\ blk'[a] = blk[a]
        BY DEF Idles
      <3>2. IsBody(blk[a].txs) /\ Spent(state, blk[a])
        BY <2>1, <3>1 DEF Bodied, CommittedSpent
      <3> QED BY <2>1, <2>2, <3>1, <3>2, SpentStays
    <2> QED BY <2>2, <2>3, <2>4
  <1> QED BY <1>1, <1>2, <1>3, <1>4 DEF OnceInv

(* apply_block accepts a block: everything accepted before is spent, so it is new. *)
LEMMA ApplyOnce ==
    ASSUME Shape, Bodied, OnceInv, NEW a \in Actors, ApplyBlock(a)
    PROVE  OnceInv'
  <1> DEFINE r == loc[a].reward
             b == blk[a]
  <1>1. /\ up = "running" /\ apply_block(state, b, r).ok /\ state' = apply_block(state, b, r).state
        /\ pc' = [pc EXCEPT ![a] = "write_minted"] /\ blk' = blk /\ UNCHANGED <<disk, up>>
        /\ pc[a] = "apply"
    BY DEF ApplyBlock, At, Goto, chain_log
  <1>2. ~ Committing(a) /\ Committing(a)' /\ \A c \in Actors \ {a} : Committing(c)' <=> Committing(c)
    BY <1>1 DEF Shape, Committing
  <1>3. IsState(state) /\ LogSpent /\ CommittedSpent /\ IsBody(b.txs)
    BY <1>1 DEF OnceInv, Bodied
  <1> HIDE DEF r
  <1>4. IsState(state') /\ \A x \in Senders : state'.nonce[x] >= state.nonce[x]
    BY <1>1, <1>3, ApplyGrows
  <1>5. /\ Spent(state', b) /\ OnceEach(b)
        /\ \A c : IsBody(c.txs) /\ Spent(state, c) => Apart(b, c) /\ Apart(c, b)
    BY <1>1, <1>3, ApplyOk
  <1>6. \A k \in DOMAIN disk : Spent(state', disk[k]) /\ Apart(b, disk[k]) /\ Apart(disk[k], b)
    <2> TAKE k \in DOMAIN disk
    <2>1. IsBody(disk[k].txs) /\ Spent(state, disk[k])
      BY <1>3 DEF Bodied, LogSpent
    <2> QED BY <1>3, <1>4, <1>5, <2>1, SpentStays
  <1>7. ASSUME NEW c \in Actors \ {a}, Committing(c)
        PROVE  Spent(state', blk[c]) /\ Apart(b, blk[c]) /\ Apart(blk[c], b)
    <2>1. IsBody(blk[c].txs) /\ Spent(state, blk[c])
      BY <1>3, <1>7 DEF Bodied, CommittedSpent
    <2> QED BY <1>3, <1>4, <1>5, <2>1, SpentStays
  <1> HIDE DEF b
  <1>8. LogSpent' /\ LogApart'
    BY <1>1, <1>6 DEF LogSpent, LogApart, OnceInv
  <1>9. CommittedSpent'
    BY <1>1, <1>2, <1>5, <1>7 DEF CommittedSpent, b
  <1>10. CommittedApart'
    <2>1. ASSUME NEW c \in Actors, Committing(c)'
          PROVE  OnceEach(blk'[c]) /\ \A k \in DOMAIN disk' : Apart(blk'[c], disk'[k]) /\ Apart(disk'[k], blk'[c])
      <3>1. CASE c = a
        BY <1>1, <1>5, <1>6, <3>1 DEF b
      <3>2. CASE c # a
        BY <1>1, <1>2, <2>1, <3>2 DEF OnceInv, CommittedApart
      <3> QED BY <3>1, <3>2
    <2>2. ASSUME NEW c \in Actors, NEW d \in Actors, c # d, Committing(c)', Committing(d)'
          PROVE  Apart(blk'[c], blk'[d])
      <3>1. CASE c = a
        BY <1>1, <1>2, <1>7, <2>2, <3>1 DEF b
      <3>2. CASE d = a
        BY <1>1, <1>2, <1>7, <2>2, <3>2 DEF b
      <3>3. CASE c # a /\ d # a
        BY <1>1, <1>2, <2>2, <3>3 DEF OnceInv, CommittedApart
      <3> QED BY <3>1, <3>2, <3>3
    <2> QED BY <2>1, <2>2 DEF CommittedApart
  <1> QED BY <1>1, <1>4, <1>8, <1>9, <1>10 DEF OnceInv

(* A block reaches the log: it was spent and apart from the log, and stays so. *)
LEMMA AppendOnce ==
    ASSUME Shape, Bodied, OnceInv, NEW a \in Actors, AppendBlock(a)
    PROVE  OnceInv'
  <1> DEFINE n == Len(disk)
             b == blk[a]
  <1>1. /\ pc[a] = "append" /\ disk' = Append(disk, b) /\ pc'[a] = "idle"
        /\ \A c \in Actors \ {a} : pc'[c] = pc[c] /\ blk'[c] = blk[c]
    BY AppendMoves
  <1>2. /\ n \in Nat /\ DOMAIN disk = 1 .. n /\ DOMAIN disk' = 1 .. n + 1
        /\ \A k \in 1 .. n : disk'[k] = disk[k]
        /\ disk'[n + 1] = b
    BY <1>1, AppendLog
  <1>3. Committing(a) /\ ~ Committing(a)' /\ \A c \in Actors \ {a} : Committing(c)' <=> Committing(c)
    BY <1>1 DEF Committing
  <1>4. up = "running" /\ up' = up /\ state' = state
    BY DEF AppendBlock, At
  <1>5. IsState(state) /\ LogSpent /\ CommittedSpent
    BY <1>4 DEF OnceInv
  <1>6. /\ Spent(state, b) /\ OnceEach(b)
        /\ \A k \in 1 .. n : Apart(b, disk[k]) /\ Apart(disk[k], b)
    BY <1>2, <1>3, <1>5 DEF OnceInv, CommittedSpent, CommittedApart
  <1> HIDE DEF n, b
  <1>7. \A k \in DOMAIN disk' : k \in 1 .. n \/ k = n + 1
    BY <1>2
  <1>8. LogSpent'
    <2> SUFFICES ASSUME NEW k \in DOMAIN disk' PROVE Spent(state, disk'[k])
      BY <1>4 DEF LogSpent
    <2>1. k \in 1 .. n \/ k = n + 1
      BY <1>7
    <2> QED BY <1>2, <1>5, <1>6, <2>1 DEF LogSpent
  <1>9. LogApart'
    <2>1. ASSUME NEW k \in DOMAIN disk' PROVE OnceEach(disk'[k])
      <3>1. k \in 1 .. n \/ k = n + 1
        BY <1>7
      <3> QED BY <1>2, <1>6, <3>1 DEF OnceInv, LogApart
    <2>2. ASSUME NEW j \in DOMAIN disk', NEW k \in DOMAIN disk', j # k
          PROVE  Apart(disk'[j], disk'[k])
      <3>1. (j \in 1 .. n \/ j = n + 1) /\ (k \in 1 .. n \/ k = n + 1)
        BY <1>7
      <3> QED BY <1>2, <1>6, <2>2, <3>1 DEF OnceInv, LogApart
    <2> QED BY <2>1, <2>2 DEF LogApart
  <1>10. CommittedSpent'
    BY <1>1, <1>3, <1>4, <1>5 DEF CommittedSpent
  <1>11. CommittedApart'
    <2>1. ASSUME NEW c \in Actors, Committing(c)'
          PROVE  OnceEach(blk'[c]) /\ \A k \in DOMAIN disk' : Apart(blk'[c], disk'[k]) /\ Apart(disk'[k], blk'[c])
      <3>1. c # a /\ Committing(c) /\ blk'[c] = blk[c]
        BY <1>1, <1>3, <2>1
      <3>2. OnceEach(blk[c]) /\ \A k \in 1 .. n : Apart(blk[c], disk[k]) /\ Apart(disk[k], blk[c])
        BY <1>2, <3>1 DEF OnceInv, CommittedApart
      <3>3. Apart(blk[c], b) /\ Apart(b, blk[c])
        BY <1>3, <3>1 DEF OnceInv, CommittedApart, b
      <3>4. ASSUME NEW k \in DOMAIN disk' PROVE Apart(blk'[c], disk'[k]) /\ Apart(disk'[k], blk'[c])
        <4>1. k \in 1 .. n \/ k = n + 1
          BY <1>7
        <4> QED BY <1>2, <3>1, <3>2, <3>3, <4>1
      <3> QED BY <3>1, <3>2, <3>4
    <2>2. ASSUME NEW c \in Actors, NEW d \in Actors, c # d, Committing(c)', Committing(d)'
          PROVE  Apart(blk'[c], blk'[d])
      <3>1. c # a /\ d # a /\ Committing(c) /\ Committing(d) /\ blk'[c] = blk[c] /\ blk'[d] = blk[d]
        BY <1>1, <1>3, <2>2
      <3> QED BY <2>2, <3>1 DEF OnceInv, CommittedApart
    <2> QED BY <2>1, <2>2 DEF CommittedApart
  <1> QED BY <1>4, <1>5, <1>8, <1>9, <1>10, <1>11 DEF OnceInv

(* A kill takes the threads with it; a replay that succeeds spends the whole log. *)
LEMMA RestartOnce ==
    ASSUME Shape, Bodied, OnceInv, Crash \/ Restart \/ RestartFails
    PROVE  OnceInv'
  <1>1. disk' = disk /\ LogApart'
    BY DEF Crash, Restart, RestartFails, OnceInv, LogApart, shared, chain_log
  <1>2. \A a \in Actors : ~ Committing(a)'
    <2>1. CASE Crash
      BY <2>1 DEF Crash, Idle, Committing
    <2>2. CASE Restart \/ RestartFails
      BY <2>2 DEF Restart, RestartFails, OnceInv, Committing
    <2> QED BY <2>1, <2>2
  <1>3. CommittedApart' /\ CommittedSpent'
    BY <1>2 DEF CommittedApart, CommittedSpent
  <1>4. ASSUME up' = "running" PROVE IsState(state') /\ LogSpent'
    <2>1. Restart
      BY <1>4 DEF Crash, Restart, RestartFails
    <2>2. Replay(disk).ok /\ state' = Replay(disk).state
      BY <2>1 DEF Restart, Boot
    <2>3. Len(disk) \in Nat /\ DOMAIN disk = 1 .. Len(disk)
      BY DEF Shape
    <2>4. \A k \in 1 .. Len(disk) : IsBody(disk[k].txs)
      BY <2>3 DEF Bodied
    <2>5. IsState(state') /\ \A k \in 1 .. Len(disk) : Spent(state', disk[k])
      BY <2>2, <2>3, <2>4, ReplaySpends
    <2> QED BY <1>1, <2>3, <2>5 DEF LogSpent
  <1> QED BY <1>1, <1>2, <1>3, <1>4 DEF OnceInv

LEMMA InitOnce == Init => OnceInv
  <1> SUFFICES ASSUME Init PROVE OnceInv
    OBVIOUS
  <1>1. disk = <<Genesis>> /\ DOMAIN disk = {1} /\ disk[1] = Genesis /\ DOMAIN Genesis.txs = {}
    BY DEF Init, Genesis
  <1>2. \A a \in Actors : ~ Committing(a)
    BY DEF Init, Idle, Committing
  <1>3. IsState(state)
    <2>1. state = Replay(disk).state /\ Len(disk) = 1 /\ Len(disk) \in Nat
      BY <1>1 DEF Init
    <2>2. \A k \in 1 .. Len(disk) : IsBody(disk[k].txs)
      BY <1>1, <2>1, EmptyBody
    <2> QED BY <2>1, <2>2, ReplaySpends
  <1>4. LogSpent /\ LogApart
    BY <1>1 DEF LogSpent, LogApart, Spent, OnceEach, Apart
  <1> QED BY <1>2, <1>3, <1>4 DEF OnceInv, CommittedSpent, CommittedApart, Init

LEMMA OnceAlways == Spec => [](Shape /\ Bodied /\ OnceInv)
  <1> DEFINE Inv == Shape /\ Bodied /\ OnceInv
  <1>1. Init => Inv
    BY InitShape, InitBodied, InitOnce
  <1>2. Inv /\ [Next]_vars => Inv'
    <2> SUFFICES ASSUME Inv, [Next]_vars PROVE Inv'
      OBVIOUS
    <2>1. Shape'
      <3>1. CASE \E a \in Actors : AppendBlock(a)
        BY <3>1, AppendMoves
      <3>2. CASE ~ \E a \in Actors : AppendBlock(a)
        BY <3>2, StepMoves
      <3> QED BY <3>1, <3>2
    <2>2. Bodied'
      BY StepBodied
    <2>3. OnceInv'
      <3>1. CASE Crash \/ Restart \/ RestartFails
        BY <3>1, RestartOnce
      <3>2. CASE \E a \in Actors : ApplyBlock(a)
        BY <3>2, ApplyOnce
      <3>3. CASE \E a \in Actors : AppendBlock(a)
        BY <3>3, AppendOnce
      <3>4. CASE /\ ~ (Crash \/ Restart \/ RestartFails)
                 /\ \A a \in Actors : ~ ApplyBlock(a) /\ ~ AppendBlock(a)
        BY <3>4, MostStepsIdle, IdlesOnce
      <3> QED BY <3>1, <3>2, <3>3, <3>4
    <2> QED BY <2>1, <2>2, <2>3
  <1> QED BY <1>1, <1>2, PTL DEF Spec

(* Even with publishing threads racing past each other, transfers sent again in another form,
   appends that fail and kills, no sender's nonce is in the log twice: the one lock that all
   blocks go through, the one around apply_block, is enough for that. *)
THEOREM NoTransferTwice == Spec => []TxOncePerLog
  <1>1. OnceInv => TxOncePerLog
    <2> SUFFICES ASSUME OnceInv, NEW j \in DOMAIN disk, NEW k \in DOMAIN disk,
                        NEW m \in DOMAIN disk[j].txs, NEW n \in DOMAIN disk[k].txs,
                        Same(disk[j].txs[m], disk[k].txs[n])
                 PROVE  j = k /\ m = n
      BY DEF TxOncePerLog, Same
    <2>1. j = k
      BY DEF OnceInv, LogApart, Apart
    <2> QED BY <2>1 DEF OnceInv, LogApart, OnceEach
  <1> QED BY <1>1, OnceAlways, PTL

(* The live state is never behind the log: whatever is in the log is spent in it, after every
   interleaving and after every restart that succeeds. *)
THEOREM LogIsSpent == Spec => []LogNeverAhead
  <1>1. OnceInv => LogNeverAhead
    BY DEF OnceInv, LogSpent, Spent, LogNeverAhead
  <1> QED BY <1>1, OnceAlways, PTL

-----------------------------------------------------------------------------
(* One publishing thread: live state, counters and log. *)

(* Replaying one block more: the parent's timestamp is found by height, so this needs the heights
   of the log to be its positions. *)
LEMMA ReplayAppend ==
    ASSUME NEW log, NEW more, NEW b, Len(log) \in Nat, Len(log) >= 1, Len(more) = Len(log) + 1,
           \A k \in 1 .. Len(log) : more[k] = log[k] /\ log[k].height = k - 1,
           more[Len(log) + 1] = b, b.height = Len(log)
    PROVE  Replay(more) = Then(log, Replay(log), b)
  <1> DEFINE L == Len(log)
             R == ReplayLoop(log)
             Q == ReplayLoop(more)
             N == {n \in Nat : n <= L => Q[n] = R[n]}
  <1>0. L \in Nat /\ L >= 1 /\ Len(more) = L + 1 /\ L + 1 \in Nat
    OBVIOUS
  <1>1. R[0] = Start /\ \A k \in 1 .. L : R[k] = Then(log, R[k - 1], log[k])
    BY ReplayUnfolds
  <1>2. Q[0] = Start /\ \A k \in 1 .. L + 1 : Q[k] = Then(more, Q[k - 1], more[k])
    BY <1>0, ReplayUnfolds
  <1>3. ASSUME NEW c, c.height \in 0 .. L PROVE parent_ts(more, c) = parent_ts(log, c)
    BY <1>0, <1>3 DEF parent_ts
  <1>4. ASSUME NEW c, c.height \in 0 .. L, NEW r PROVE Then(more, r, c) = Then(log, r, c)
    BY <1>3, <1>4 DEF Then, ReplayStep
  <1>5. L \in N
    <2>1. 0 \in N
      BY <1>1, <1>2
    <2>2. ASSUME NEW n \in Nat, n \in N PROVE n + 1 \in N
      <3> SUFFICES ASSUME n + 1 <= L PROVE Q[n + 1] = R[n + 1]
        OBVIOUS
      <3>1. /\ n + 1 \in 1 .. L /\ n + 1 \in 1 .. L + 1 /\ n + 1 - 1 = n /\ Q[n] = R[n]
        BY <1>0, <2>2
      <3>2. more[n + 1] = log[n + 1] /\ log[n + 1].height \in 0 .. L
        BY <1>0, <3>1
      <3> HIDE DEF Q, R
      <3>3. Q[n + 1] = Then(more, R[n], log[n + 1]) /\ R[n + 1] = Then(log, R[n], log[n + 1])
        BY <1>1, <1>2, <3>1, <3>2
      <3>4. Then(more, R[n], log[n + 1]) = Then(log, R[n], log[n + 1])
        BY <1>4, <3>2
      <3> QED BY <3>3, <3>4
    <2> HIDE DEF N
    <2> QED BY <1>0, <2>1, <2>2, NatSetInduction
  <1>6. Q[L] = R[L]
    BY <1>0, <1>5
  <1>7. Q[L + 1] = Then(more, R[L], b)
    <2>1. L + 1 \in 1 .. L + 1 /\ L + 1 - 1 = L /\ more[L + 1] = b
      BY <1>0
    <2> HIDE DEF Q, R
    <2> QED BY <1>2, <1>6, <2>1
  <1>8. Then(more, R[L], b) = Then(log, R[L], b)
    BY <1>0, <1>4
  <1> QED BY <1>0, <1>7, <1>8, ReplayDef

(* The labels at which the live state, minted_so_far and prev_reward_sat are a block ahead of the
   log. *)
StateAhead == {"write_minted", "write_prev", "confirm", "append"}
MintedAhead == {"write_prev", "confirm", "append"}
PrevAhead == {"confirm", "append"}

(* The blocks that are applied if none was lost to a failed append. *)
Ahead == \E a \in Actors : pc[a] \in StateAhead
Expected == IF Ahead THEN Len(disk) + 1 ELSE Len(disk)
Lossless == Len(state.applied) = Expected

TipRead(a) ==
    pc[a] \in {"read_minted", "read_prev", "apply"} \cup StateAhead => loc[a].parent_ts = Tip.ts

(* What a thread has read of the counters, and written to them, is what the replay of the log
   would use for its block; elsewhere they are what the replay ends with. *)
ReadCounters(a) ==
    /\ pc[a] \in {"read_prev", "apply"} \cup StateAhead => loc[a].minted = Replay(disk).minted
    /\ pc[a] \in {"apply"} \cup StateAhead =>
           loc[a].reward = Reward(blk[a].ts, Tip.ts, Replay(disk).minted, blk[a].height,
                                  Replay(disk).prev)
    /\ pc[a] \in MintedAhead => minted = loc[a].minted + loc[a].reward
    /\ pc[a] \in PrevAhead => prev = loc[a].reward
Counted ==
    /\ \A a \in Actors : ReadCounters(a)
    /\ (\A a \in Actors : pc[a] \notin MintedAhead) => minted = Replay(disk).minted
    /\ (\A a \in Actors : pc[a] \notin PrevAhead) => prev = Replay(disk).prev

(* The live state is the replayed one, or one block further. *)
Further(a) ==
    pc[a] \in StateAhead => /\ apply_block(Replay(disk).state, blk[a], loc[a].reward).ok
                            /\ state = apply_block(Replay(disk).state, blk[a], loc[a].reward).state
Rebuilt ==
    /\ Replay(disk).ok
    /\ ~ Ahead => state = Replay(disk).state
    /\ \A a \in Actors : Further(a)

Live ==
    /\ Len(state.applied) >= Expected
    /\ \A a \in Actors : TipRead(a)
    /\ Lossless /\ Replay(disk).ok => Counted
    /\ Lossless /\ ~ state.partly => Rebuilt

(* The inductive invariant.  Refused blocks and failed appends may take the live state away from
   the log; as long as neither has happened since the start, the next block that is logged can be
   replayed. *)
Record(l) == [parent_ts |-> l.parent_ts, minted |-> l.minted, reward |-> l.reward]
Serial ==
    /\ \A k \in DOMAIN disk : disk[k].height = k - 1
    /\ loc = [a \in Actors |-> Record(loc[a])]
    /\ ~ tainted => Replay(disk).ok
    /\ up = "failed" => tail = "torn" \/ tainted
    /\ up = "running" => Live
    /\ up # "running" => \A a \in Actors : pc[a] = "idle"

(* A step of the running node that leaves the log alone. *)
LEMMA LiveStep ==
    ASSUME Serial, up = "running", UNCHANGED <<disk, tainted, up>>, Live => Live',
           loc' = [a \in Actors |-> Record(loc'[a])]
    PROVE  Serial'
  BY DEF Serial

Early == {"idle", "mining", "check"}

(* A step of the one thread while it has read nothing yet. *)
LEMMA EarlyStep ==
    ASSUME \A a, b \in Actors : a = b, Serial, NEW a \in Actors, up = "running",
           pc[a] \in Early, pc'[a] \in Early \cup {"read_tip"},
           UNCHANGED <<disk, tainted, up, state, minted, prev>>,
           loc' = [c \in Actors |-> Record(loc'[c])]
    PROVE  Serial'
  <1> USE DEF Early, StateAhead, MintedAhead, PrevAhead
  <1>1. \A c \in Actors : pc[c] \in Early /\ pc'[c] \in Early \cup {"read_tip"}
    OBVIOUS
  <1>2. ~ Ahead /\ ~ Ahead'
    BY <1>1 DEF Ahead
  <1>3. Expected' = Expected /\ (Lossless' <=> Lossless)
    BY <1>2 DEF Expected, Lossless
  <1>4. Counted => Counted'
    BY <1>1 DEF Counted, ReadCounters
  <1>5. Rebuilt => Rebuilt'
    BY <1>1, <1>2 DEF Rebuilt, Further
  <1>6. \A c \in Actors : TipRead(c)'
    BY <1>1 DEF TipRead
  <1>7. Live => Live'
    BY <1>3, <1>4, <1>5, <1>6 DEF Live
  <1> QED BY <1>7, LiveStep

LEMMA StillStep ==
    ASSUME Serial, UNCHANGED <<disk, tail, tainted, up, state, minted, prev, pc, blk, loc>>
    PROVE  Serial'
  <1>1. Ahead' = Ahead /\ Expected' = Expected
    BY DEF Ahead, Expected
  <1>2. Lossless' = Lossless /\ Counted' = Counted /\ Rebuilt' = Rebuilt
    BY <1>1 DEF Lossless, Counted, ReadCounters, Rebuilt, Further, Tip
  <1>3. \A a \in Actors : TipRead(a)' = TipRead(a)
    BY DEF TipRead, Tip
  <1>4. Live' = Live
    BY <1>1, <1>2, <1>3 DEF Live
  <1> QED BY <1>4 DEF Serial

LEMMA ReturnKeeps ==
    ASSUME Shape, Serial, NEW a \in Actors, Return(a)
    PROVE  pc'[a] = "idle" /\ loc' = [c \in Actors |-> Record(loc'[c])]
  <1>1. pc'[a] = "idle" /\ loc' = [loc EXCEPT ![a] = Unset] /\ loc = [c \in Actors |-> Record(loc[c])]
    BY DEF Return, Shape, Serial
  <1>2. Unset = Record(Unset)
    BY DEF Unset, Record
  <1>3. \A c \in Actors : loc'[c] = Record(loc'[c])
    <2> TAKE c \in Actors
    <2>1. loc[c] = Record(loc[c])
      BY <1>1
    <2>2. loc'[c] = IF c = a THEN Unset ELSE loc[c]
      BY <1>1
    <2> QED BY <1>2, <2>1, <2>2
  <1> QED BY <1>1, <1>3

(* The reads: each stores what the replay would use. *)
LEMMA ReadStep ==
    ASSUME \A a, b \in Actors : a = b, Shape, Serial, NEW a \in Actors,
           ReadTip(a) \/ ReadMinted(a) \/ ReadPrev(a)
    PROVE  Serial'
  <1> USE DEF StateAhead, MintedAhead, PrevAhead
  <1>1. /\ up = "running" /\ blk' = blk /\ UNCHANGED <<disk, tainted, up, state, minted, prev>>
        /\ loc = [c \in Actors |-> Record(loc[c])]
        /\ pc[a] \in {"read_tip", "read_minted", "read_prev"}
        /\ pc'[a] \in {"read_minted", "read_prev", "apply"}
    BY DEF ReadTip, ReadMinted, ReadPrev, At, Goto, Shape, Serial, shared, chain_log
  <1>2. Live /\ ~ Ahead /\ ~ Ahead'
    BY <1>1 DEF Serial, Ahead
  <1>3. Expected' = Expected /\ (Lossless' <=> Lossless)
    BY <1>1, <1>2 DEF Expected, Lossless
  <1>4. Rebuilt => Rebuilt'
    BY <1>1, <1>2 DEF Rebuilt, Further
  <1>5. loc[a] = Record(loc[a]) /\ TipRead(a)
    BY <1>1, <1>2 DEF Live
  <1>6. TipRead(a)' /\ (Counted => Counted') /\ loc'[a] = Record(loc'[a]) /\ loc' = [c \in Actors |-> loc'[c]]
    <2>0. ASSUME Counted PROVE minted = Replay(disk).minted /\ prev = Replay(disk).prev /\ ReadCounters(a)
      BY <1>1, <2>0 DEF Counted
    <2>00. ASSUME ReadCounters(a)', Counted PROVE Counted'
      BY <1>1, <2>0, <2>00 DEF Counted
    <2>1. CASE ReadTip(a)
      <3>1. pc[a] = "read_tip" /\ pc'[a] = "read_minted" /\ loc' = [loc EXCEPT ![a].parent_ts = Tip.ts]
        BY <2>1 DEF ReadTip, At, Goto, Shape
      <3>2. loc'[a] = [loc[a] EXCEPT !.parent_ts = Tip.ts] /\ loc' = [c \in Actors |-> loc'[c]]
        BY <1>1, <3>1
      <3>3. loc'[a] = [parent_ts |-> Tip.ts, minted |-> loc[a].minted, reward |-> loc[a].reward]
        BY <1>5, <3>2 DEF Record
      <3>4. TipRead(a)' /\ ReadCounters(a)'
        BY <1>1, <3>1, <3>3 DEF TipRead, ReadCounters, Tip
      <3> QED BY <2>00, <3>2, <3>3, <3>4 DEF Record
    <2>2. CASE ReadMinted(a)
      <3>1. pc[a] = "read_minted" /\ pc'[a] = "read_prev" /\ loc' = [loc EXCEPT ![a].minted = minted]
        BY <2>2 DEF ReadMinted, At, Goto, Shape
      <3>2. loc'[a] = [loc[a] EXCEPT !.minted = minted] /\ loc' = [c \in Actors |-> loc'[c]]
        BY <1>1, <3>1
      <3>3. loc'[a] = [parent_ts |-> loc[a].parent_ts, minted |-> minted, reward |-> loc[a].reward]
        BY <1>5, <3>2 DEF Record
      <3>4. TipRead(a)'
        BY <1>1, <1>5, <3>1, <3>3 DEF TipRead, Tip
      <3>5. Counted => ReadCounters(a)'
        BY <1>1, <2>0, <3>1, <3>3 DEF ReadCounters, Tip
      <3> QED BY <2>00, <3>2, <3>3, <3>4, <3>5 DEF Record
    <2>3. CASE ReadPrev(a)
      <3> DEFINE r == Reward(blk[a].ts, loc[a].parent_ts, loc[a].minted, blk[a].height, prev)
      <3>1. pc[a] = "read_prev" /\ pc'[a] = "apply" /\ loc' = [loc EXCEPT ![a].reward = r]
        BY <2>3 DEF ReadPrev, At, Goto, Shape
      <3>2. loc[a].parent_ts = Tip.ts
        BY <1>5, <3>1 DEF TipRead
      <3>3. ASSUME Counted
            PROVE  /\ r = Reward(blk[a].ts, Tip.ts, Replay(disk).minted, blk[a].height, Replay(disk).prev)
                   /\ loc[a].minted = Replay(disk).minted
        BY <2>0, <3>1, <3>2, <3>3 DEF ReadCounters
      <3> HIDE DEF r
      <3>4. loc'[a] = [loc[a] EXCEPT !.reward = r] /\ loc' = [c \in Actors |-> loc'[c]]
        BY <1>1, <3>1
      <3>5. loc'[a] = [parent_ts |-> loc[a].parent_ts, minted |-> loc[a].minted, reward |-> r]
        BY <1>5, <3>4 DEF Record
      <3>6. TipRead(a)'
        BY <1>1, <3>1, <3>2, <3>5 DEF TipRead, Tip
      <3>7. Counted => ReadCounters(a)'
        BY <1>1, <3>1, <3>3, <3>5 DEF ReadCounters, Tip
      <3> QED BY <2>00, <3>4, <3>5, <3>6, <3>7 DEF Record
    <2> QED BY <2>1, <2>2, <2>3
  <1>7. Live'
    BY <1>1, <1>2, <1>3, <1>4, <1>6 DEF Live
  <1> QED BY <1>1, <1>6, <1>7, LiveStep

(* apply_block accepts the block, and the counters are written. *)
LEMMA CommitStep ==
    ASSUME \A a, b \in Actors : a = b, Shape, Bodied, IsState(state), Serial, NEW a \in Actors,
           ApplyBlock(a) \/ WriteMinted(a) \/ WritePrev(a) \/ ConfirmTxs(a)
    PROVE  Serial'
  <1> USE DEF StateAhead, MintedAhead, PrevAhead
  <1>1. /\ up = "running" /\ blk' = blk /\ UNCHANGED <<disk, tainted, up, loc>>
        /\ loc = [c \in Actors |-> Record(loc[c])]
        /\ pc[a] \in {"apply", "write_minted", "write_prev", "confirm"} /\ pc'[a] \in StateAhead
    BY DEF ApplyBlock, WriteMinted, WritePrev, ConfirmTxs, At, Goto, Shape, Serial, chain_log
  <1>2. Live /\ Ahead'
    BY <1>1 DEF Serial, Ahead
  <1>3. TipRead(a)'
    BY <1>1, <1>2 DEF Live, TipRead, Tip
  <1>4. /\ Len(state'.applied) >= Expected' /\ (Lossless' <=> Lossless)
        /\ state'.partly = state.partly
        /\ Lossless /\ ~ state.partly => Rebuilt'
    <2>1. CASE ApplyBlock(a)
      <3>1. /\ pc[a] = "apply" /\ apply_block(state, blk[a], loc[a].reward).ok
            /\ state' = apply_block(state, blk[a], loc[a].reward).state
        BY <2>1 DEF ApplyBlock, At
      <3>2. ~ Ahead
        BY <3>1 DEF Ahead
      <3>3. IsBody(blk[a].txs)
        BY DEF Bodied
      <3>4. /\ Len(state'.applied) = Len(state.applied) + 1 /\ state'.partly = state.partly
            /\ Len(state.applied) \in Nat
        BY <3>1, <3>3, ApplyGrows
      <3>5. Expected = Len(disk) /\ Expected' = Len(disk) + 1 /\ Len(disk) \in Nat
        BY <1>1, <1>2, <3>2 DEF Expected, Shape
      <3>6. ASSUME Lossless, ~ state.partly PROVE Rebuilt'
        <4>1. Replay(disk).ok /\ state = Replay(disk).state
          BY <1>2, <3>2, <3>6 DEF Live, Rebuilt
        <4> QED BY <1>1, <1>2, <3>1, <4>1 DEF Rebuilt, Further
      <3> QED BY <1>2, <3>4, <3>5, <3>6 DEF Live, Lossless
    <2>2. CASE ~ ApplyBlock(a)
      <3>1. state' = state /\ pc[a] \in StateAhead
        BY <2>2 DEF WriteMinted, WritePrev, ConfirmTxs, At
      <3>2. Ahead
        BY <3>1 DEF Ahead
      <3>3. Expected' = Expected
        BY <1>1, <1>2, <3>2 DEF Expected
      <3>4. Rebuilt => Rebuilt'
        BY <1>1, <1>2, <3>1 DEF Rebuilt, Further
      <3> QED BY <1>2, <3>1, <3>3, <3>4 DEF Live, Lossless
    <2> QED BY <2>1, <2>2
  <1>5. Counted => Counted'
    <2> SUFFICES ASSUME Counted PROVE Counted'
      OBVIOUS
    <2>0. ReadCounters(a)
      BY DEF Counted
    <2>1. CASE ApplyBlock(a)
      <3>1. pc[a] = "apply" /\ pc'[a] = "write_minted" /\ UNCHANGED <<minted, prev>>
        BY <2>1 DEF ApplyBlock, At, Goto, Shape
      <3>2. minted = Replay(disk).minted /\ prev = Replay(disk).prev
        BY <3>1 DEF Counted
      <3> QED BY <1>1, <2>0, <3>1, <3>2 DEF Counted, ReadCounters, Tip
    <2>2. CASE WriteMinted(a)
      <3>1. /\ pc[a] = "write_minted" /\ pc'[a] = "write_prev" /\ UNCHANGED prev
            /\ minted' = loc[a].minted + loc[a].reward
        BY <2>2 DEF WriteMinted, At, Goto, Shape
      <3>2. prev = Replay(disk).prev
        BY <3>1 DEF Counted
      <3> QED BY <1>1, <2>0, <3>1, <3>2 DEF Counted, ReadCounters, Tip
    <2>3. CASE WritePrev(a)
      <3>1. /\ pc[a] = "write_prev" /\ pc'[a] = "confirm" /\ UNCHANGED minted
            /\ prev' = loc[a].reward
        BY <2>3 DEF WritePrev, At, Goto, Shape
      <3> QED BY <1>1, <2>0, <3>1 DEF Counted, ReadCounters, Tip
    <2>4. CASE ConfirmTxs(a)
      <3>1. pc[a] = "confirm" /\ pc'[a] = "append" /\ UNCHANGED <<minted, prev>>
        BY <2>4 DEF ConfirmTxs, At, Goto, Shape
      <3> QED BY <1>1, <2>0, <3>1 DEF Counted, ReadCounters, Tip
    <2> QED BY <2>1, <2>2, <2>3, <2>4
  <1>6. Live'
    BY <1>1, <1>2, <1>3, <1>4, <1>5 DEF Live
  <1> QED BY <1>1, <1>6, LiveStep

(* apply_block refuses the block: the state stays as it is or is marked, the counters stay. *)
LEMMA RefuseStep ==
    ASSUME \A a, b \in Actors : a = b, Shape, Bodied, IsState(state), Serial, NEW a \in Actors,
           ApplyFails(a)
    PROVE  Serial'
  <1> USE DEF StateAhead, MintedAhead, PrevAhead
  <1>1. /\ up = "running" /\ pc[a] = "apply" /\ Return(a) /\ UNCHANGED <<disk, tainted, up, minted, prev>>
        /\ ~ apply_block(state, blk[a], loc[a].reward).ok
        /\ state' = apply_block(state, blk[a], loc[a].reward).state
    BY DEF ApplyFails, At, chain_log
  <1>2. pc'[a] = "idle" /\ loc' = [c \in Actors |-> Record(loc'[c])]
    BY <1>1, ReturnKeeps
  <1>3. ~ Ahead /\ ~ Ahead' /\ Live
    BY <1>1, <1>2 DEF Ahead, Serial
  <1>4. IsBody(blk[a].txs)
    BY DEF Bodied
  <1>5. state'.applied = state.applied /\ (state' = state \/ state'.partly)
    BY <1>1, <1>4, ApplyGrows
  <1>6. Expected' = Expected /\ (Lossless' <=> Lossless)
    BY <1>1, <1>3, <1>5 DEF Expected, Lossless
  <1>7. Counted => Counted'
    BY <1>1, <1>2 DEF Counted, ReadCounters
  <1>8. state' = state /\ Rebuilt => Rebuilt'
    BY <1>1, <1>2, <1>3 DEF Rebuilt, Further
  <1>9. TipRead(a)'
    BY <1>2 DEF TipRead
  <1>10. Live'
    BY <1>1, <1>3, <1>5, <1>6, <1>7, <1>8, <1>9 DEF Live
  <1> QED BY <1>1, <1>2, <1>10, LiveStep

(* The append fails: from now on the live state is a block ahead of the log. *)
LEMMA LoseStep ==
    ASSUME \A a, b \in Actors : a = b, Shape, IsState(state), Serial, NEW a \in Actors, AppendFails(a)
    PROVE  Serial'
  <1> USE DEF StateAhead
  <1>1. /\ up = "running" /\ pc[a] = "append" /\ Return(a) /\ UNCHANGED <<disk, tainted, up, state>>
    BY DEF AppendFails, At
  <1>2. pc'[a] = "idle" /\ loc' = [c \in Actors |-> Record(loc'[c])]
    BY <1>1, ReturnKeeps
  <1>3. Ahead /\ ~ Ahead' /\ Live
    BY <1>1, <1>2 DEF Ahead, Serial
  <1>4. Len(state.applied) \in Nat /\ Len(disk) \in Nat
    BY DEF IsState, Shape
  <1>5. Len(state'.applied) > Expected'
    BY <1>1, <1>3, <1>4 DEF Live, Expected
  <1>6. TipRead(a)'
    BY <1>2 DEF TipRead
  <1>7. ~ Lossless' /\ Len(state'.applied) >= Expected'
    BY <1>1, <1>3, <1>4, <1>5 DEF Lossless, Expected
  <1>8. Live'
    BY <1>6, <1>7 DEF Live
  <1> QED BY <1>1, <1>2, <1>8, LiveStep

(* The block reaches the log.  If none was lost, a replay of the longer log computes the live
   counters; if none was refused half way either, it succeeds and gives the live state. *)
LEMMA LogStep ==
    ASSUME \A a, b \in Actors : a = b, Shape, TipKept, Serial, NEW a \in Actors, AppendBlock(a)
    PROVE  Serial'
  <1> USE DEF StateAhead, MintedAhead, PrevAhead
  <1> DEFINE n == Len(disk)
             b == blk[a]
             r == Replay(disk)
             q == Replay(disk')
             reward == Reward(b.ts, parent_ts(disk, b), r.minted, b.height, r.prev)
             out == apply_block(r.state, b, reward)
  <1>1. /\ up = "running" /\ pc[a] = "append" /\ UNCHANGED <<up, state, minted, prev>> /\ Return(a)
        /\ disk' = Append(disk, b)
        /\ tainted' = (tainted \/ state.partly \/ Len(state.applied) # n + 1)
    BY DEF AppendBlock, At
  <1>2. pc'[a] = "idle" /\ loc' = [c \in Actors |-> Record(loc'[c])]
    BY <1>1, ReturnKeeps
  <1>3. /\ n \in Nat /\ DOMAIN disk = 1 .. n /\ DOMAIN disk' = 1 .. n + 1 /\ Len(disk') = n + 1
        /\ \A k \in 1 .. n : disk'[k] = disk[k]
        /\ disk'[n + 1] = b /\ n >= 1
    BY <1>1, AppendLog DEF Shape
  <1>4. \A k \in 1 .. n : disk[k].height = k - 1
    BY <1>3 DEF Serial
  <1>5. b.height = n /\ n \in 1 .. n
    <2>1. b.height = disk[n].height + 1
      BY <1>1 DEF TipKept, Accepted, Extends
    <2> HIDE DEF n
    <2> QED BY <1>3, <1>4, <2>1
  <1>6. q = Then(disk, r, b)
    BY <1>3, <1>4, <1>5, ReplayAppend
  <1>7. Live /\ Ahead /\ ~ Ahead' /\ Expected = n + 1 /\ Expected' = n + 1
    BY <1>1, <1>2, <1>3 DEF Serial, Ahead, Expected
  <1>8. (Lossless' <=> Lossless) /\ (Lossless <=> Len(state.applied) = n + 1)
    BY <1>1, <1>7 DEF Lossless
  <1>9. parent_ts(disk, b) = Tip.ts
    BY <1>5 DEF parent_ts, Tip
  <1>10. ASSUME r.ok
         PROVE  q.minted = r.minted + reward /\ q.prev = reward /\ q.state = out.state /\ (out.ok => q.ok)
    <2> HIDE DEF q, reward, r, b
    <2>1. q = ReplayStep(disk, r, b)
      BY <1>6, <1>10 DEF Then
    <2>2. q = [ok |-> r.ok /\ out.ok, state |-> out.state, minted |-> r.minted + reward,
               prev |-> reward]
      BY <2>1, Zenon DEF ReplayStep, reward
    <2>3. out.ok => q.ok
      BY <1>10, <2>2, Zenon
    <2> HIDE DEF out
    <2>4. q.minted = r.minted + reward /\ q.prev = reward /\ q.state = out.state
      BY <2>2
    <2> QED BY <2>3, <2>4
  <1>11. q.ok => r.ok
    <2> HIDE DEF q, r, b
    <2> QED BY <1>6 DEF Then
  <1>12. ASSUME r.ok, Lossless
         PROVE  loc[a].reward = reward /\ minted = r.minted + reward /\ prev = reward
    <2>1. ReadCounters(a)
      BY <1>7, <1>12 DEF Live, Counted
    <2> QED BY <1>1, <1>9, <2>1 DEF ReadCounters
  <1>13. ASSUME Lossless, ~ state.partly PROVE q.ok /\ q.state = state
    <2>1. r.ok /\ Further(a)
      BY <1>7, <1>13 DEF Live, Rebuilt
    <2>2. loc[a].reward = reward
      BY <1>12, <1>13, <2>1
    <2> HIDE DEF reward, q
    <2>3. out.ok /\ state = out.state
      BY <1>1, <2>1, <2>2 DEF Further
    <2> QED BY <1>10, <2>1, <2>3
  <1>14. \A k \in DOMAIN disk' : disk'[k].height = k - 1
    <2> HIDE DEF n, b
    <2> TAKE k \in DOMAIN disk'
    <2>1. k \in 1 .. n \/ k = n + 1
      BY <1>3
    <2> QED BY <1>3, <1>4, <1>5, <2>1
  <1> HIDE DEF reward, out, r, b
  <1>15. Lossless /\ q.ok => Counted'
    <2> SUFFICES ASSUME Lossless, q.ok PROVE Counted'
      OBVIOUS
    <2>1. q.minted = minted /\ q.prev = prev
      BY <1>10, <1>11, <1>12
    <2> QED BY <1>1, <1>2, <2>1 DEF Counted, ReadCounters
  <1>16. Lossless /\ ~ state.partly => Rebuilt'
    BY <1>1, <1>2, <1>7, <1>13 DEF Rebuilt, Further
  <1>17. TipRead(a)'
    BY <1>2 DEF TipRead
  <1>18. Live'
    BY <1>1, <1>7, <1>8, <1>15, <1>16, <1>17 DEF Live
  <1>19. ~ tainted' => q.ok
    BY <1>1, <1>8, <1>13
  <1> QED BY <1>1, <1>2, <1>14, <1>18, <1>19 DEF Serial

(* What start-up leaves behind. *)
LEMMA LiveAtStart ==
    ASSUME \A a \in Actors : pc'[a] = "idle", disk' = disk, Len(disk) \in Nat, Replay(disk).ok,
           state' = Replay(disk).state, minted' = Replay(disk).minted, prev' = Replay(disk).prev,
           Len(state'.applied) = Len(disk)
    PROVE  Live'
  <1> USE DEF StateAhead, MintedAhead, PrevAhead
  <1>1. ~ Ahead' /\ Expected' = Len(disk)
    BY DEF Ahead, Expected
  <1>2. Counted'
    BY DEF Counted, ReadCounters
  <1>3. Rebuilt'
    BY <1>1 DEF Rebuilt, Further
  <1>4. \A a \in Actors : TipRead(a)'
    BY DEF TipRead
  <1> QED BY <1>1, <1>2, <1>3, <1>4 DEF Live

LEMMA SerialStep ==
    ASSUME \A a, b \in Actors : a = b, Shape, Bodied, TipKept, OnceInv, Serial, [Next]_vars
    PROVE  Serial'
  <1> USE DEF shared, chain_log
  <1>0. loc = [a \in Actors |-> Record(loc[a])]
    BY DEF Serial
  <1>1. CASE UNCHANGED vars
    BY <1>1, StillStep DEF vars
  <1>2. ASSUME NEW h \in Hashes, SubmitTx(h) \/ SubmitTransfer(h) PROVE Serial'
    BY <1>2, StillStep DEF SubmitTx, SubmitTransfer
  <1>3. ASSUME NEW n \in 1 .. MaxIds, GetTemplate(n) PROVE Serial'
    BY <1>3, StillStep DEF GetTemplate
  <1>4. ASSUME NEW b \in offered, SubmitBlock(b) PROVE Serial'
    <2>1. /\ "rpc" \in Actors /\ pc["rpc"] = "idle" /\ pc'["rpc"] = "check" /\ up = "running"
          /\ UNCHANGED <<disk, tainted, up, state, minted, prev, loc>>
      BY <1>4 DEF SubmitBlock, RpcFree, Shape
    <2> QED BY <1>0, <2>1, EarlyStep DEF Early
  <1>5. ASSUME NEW n \in 1 .. MaxIds, MinerBuild(n) PROVE Serial'
    <2>1. /\ "miner" \in Actors /\ pc["miner"] = "idle" /\ pc'["miner"] = "mining"
          /\ up = "running" /\ UNCHANGED <<disk, tainted, up, state, minted, prev, loc>>
      BY <1>5 DEF MinerBuild, Shape
    <2> QED BY <1>0, <2>1, EarlyStep DEF Early
  <1>6. CASE MinerFound
    <2>1. /\ "miner" \in Actors /\ pc["miner"] = "mining" /\ pc'["miner"] = "check"
          /\ up = "running" /\ UNCHANGED <<disk, tainted, up, state, minted, prev, loc>>
      BY <1>6 DEF MinerFound, At, Goto, Shape
    <2> QED BY <1>0, <2>1, EarlyStep DEF Early
  <1>7. CASE MinerAbandon
    <2>1. /\ "miner" \in Actors /\ pc["miner"] = "mining" /\ Return("miner")
          /\ up = "running" /\ UNCHANGED <<disk, tainted, up, state, minted, prev>>
      BY <1>7 DEF MinerAbandon, At
    <2> QED BY <2>1, ReturnKeeps, EarlyStep DEF Early
  <1>8. ASSUME NEW a \in Actors, Publish(a) \/ AppendFails(a) PROVE Serial'
    <2>0. IsState(state)
      <3>1. up = "running"
        BY <1>8 DEF Publish, AppendFails, Check, Reject, ReadTip, ReadMinted, ReadPrev, ApplyBlock,
                    ApplyFails, WriteMinted, WritePrev, ConfirmTxs, AppendBlock, At
      <3> QED BY <3>1 DEF OnceInv
    <2>1. CASE Check(a)
      <3>1. /\ pc[a] = "check" /\ pc'[a] = "read_tip" /\ up = "running"
            /\ UNCHANGED <<disk, tainted, up, state, minted, prev, loc>>
        BY <2>1 DEF Check, At, Goto, Shape
      <3> QED BY <1>0, <3>1, EarlyStep DEF Early
    <2>2. CASE Reject(a)
      <3>1. pc[a] = "check" /\ Return(a) /\ up = "running" /\ UNCHANGED <<disk, tainted, up, state, minted, prev>>
        BY <2>2 DEF Reject, At
      <3> QED BY <3>1, ReturnKeeps, EarlyStep DEF Early
    <2>3. CASE ReadTip(a) \/ ReadMinted(a) \/ ReadPrev(a)
      BY <2>3, ReadStep
    <2>4. CASE ApplyBlock(a) \/ WriteMinted(a) \/ WritePrev(a) \/ ConfirmTxs(a)
      BY <2>0, <2>4, CommitStep
    <2>5. CASE ApplyFails(a)
      BY <2>0, <2>5, RefuseStep
    <2>6. CASE AppendBlock(a)
      BY <2>6, LogStep
    <2>7. CASE AppendFails(a)
      BY <2>0, <2>7, LoseStep
    <2> QED BY <1>8, <2>1, <2>2, <2>3, <2>4, <2>5, <2>6, <2>7 DEF Publish
  <1>9. CASE Crash
    <2>1. /\ UNCHANGED <<disk, tainted>> /\ up' = "down" /\ loc' = [a \in Actors |-> Unset]
          /\ pc' = [a \in Actors |-> "idle"]
      BY <1>9 DEF Crash, Idle
    <2>2. loc' = [a \in Actors |-> Record(loc'[a])]
      <3>1. \A a \in Actors : loc'[a] = Unset
        BY <2>1
      <3>2. Unset = Record(Unset)
        BY DEF Unset, Record
      <3> QED BY <2>1, <3>1, <3>2
    <2> QED BY <2>1, <2>2 DEF Serial
  <1>10. CASE Restart
    <2>1. /\ UNCHANGED <<disk, tainted, pc, loc>> /\ up' = "running" /\ up = "down"
          /\ Replay(disk).ok /\ state' = Replay(disk).state
          /\ minted' = Replay(disk).minted /\ prev' = Replay(disk).prev
      BY <1>10 DEF Restart, Boot
    <2>2. \A a \in Actors : pc'[a] = "idle"
      BY <2>1 DEF Serial
    <2>3. Live'
      <3>1. Len(disk) \in Nat /\ \A k \in 1 .. Len(disk) : IsBody(disk[k].txs)
        BY DEF Shape, Bodied
      <3>2. Len(state'.applied) = Len(disk) /\ Len(disk) \in Nat
        BY <2>1, <3>1, ReplaySpends
      <3> QED BY <2>1, <2>2, <3>2, LiveAtStart
    <2> QED BY <2>1, <2>3 DEF Serial
  <1>11. CASE RestartFails
    BY <1>11 DEF RestartFails, Serial
  <1>12. CASE Tick
    BY <1>12, StillStep DEF Tick
  <1> QED BY <1>1, <1>2, <1>3, <1>4, <1>5, <1>6, <1>7, <1>8, <1>9, <1>10, <1>11, <1>12
          DEF Next, Mine

LEMMA InitSerial == Init => Serial
  <1> SUFFICES ASSUME Init PROVE Serial
    OBVIOUS
  <1>1. /\ disk = <<Genesis>> /\ DOMAIN disk = {1} /\ Len(disk) = 1 /\ disk[1] = Genesis
        /\ Genesis.height = 0 /\ DOMAIN Genesis.txs = {}
    BY DEF Init, Genesis
  <1>2. Replay(disk).ok
    <2> DEFINE L == ReplayLoop(disk)
    <2>1. Replay(disk) = L[1] /\ L[0] = Start /\ L[1] = Then(disk, L[0], Genesis)
      <3>1. 1 \in 1 .. 1 /\ 1 - 1 = 0 /\ 1 \in Nat
        OBVIOUS
      <3>2. Replay(disk) = L[Len(disk)]
        BY ReplayDef
      <3>3. L[0] = Start /\ \A k \in 1 .. Len(disk) : L[k] = Then(disk, L[k - 1], disk[k])
        BY <1>1, <3>1, ReplayUnfolds
      <3> HIDE DEF L
      <3> QED BY <1>1, <3>1, <3>2, <3>3
    <2>2. Passes1(Fresh, Genesis) /\ Repeats(Genesis) = {} /\ Effective(Fresh, Genesis)
      BY <1>1 DEF Passes1, Repeats, Effective
    <2>3. \A r : apply_block(Fresh, Genesis, r).ok
      BY <2>2 DEF apply_block
    <2> HIDE DEF L
    <2>4. PICK r : Replay(disk) = ReplayStep(disk, Start, Genesis)
                   /\ ReplayStep(disk, Start, Genesis).ok = (Start.ok /\ apply_block(Start.state, Genesis, r).ok)
      BY <2>1 DEF Then, ReplayStep, Start
    <2>5. Start.ok /\ Start.state = Fresh
      BY DEF Start
    <2> QED BY <2>3, <2>4, <2>5, Zenon
  <1>3. \A a \in Actors : pc[a] = "idle"
    BY DEF Init, Idle
  <1>4. loc = [a \in Actors |-> Record(loc[a])]
    BY DEF Init, Unset, Record
  <1>5. Len(state.applied) = Len(disk)
    <2>1. state = Replay(disk).state /\ Len(disk) = 1 /\ Len(disk) \in Nat
      BY <1>1 DEF Init
    <2>2. \A k \in 1 .. Len(disk) : IsBody(disk[k].txs)
      BY <1>1, <2>1, EmptyBody
    <2> QED BY <1>2, <2>1, <2>2, ReplaySpends
  <1>6. Live
    <2> USE DEF StateAhead, MintedAhead, PrevAhead
    <2>1. ~ Ahead /\ Expected = 1
      BY <1>1, <1>3 DEF Ahead, Expected
    <2>2. Counted
      BY <1>3 DEF Counted, ReadCounters, Init
    <2>3. Rebuilt
      BY <1>2, <1>3, <2>1 DEF Rebuilt, Further, Init
    <2>4. \A a \in Actors : TipRead(a)
      BY <1>3 DEF TipRead
    <2> QED BY <1>1, <1>5, <2>1, <2>2, <2>3, <2>4 DEF Live
  <1>7. \A k \in DOMAIN disk : disk[k].height = k - 1
    BY <1>1
  <1> QED BY <1>2, <1>3, <1>4, <1>5, <1>6, <1>7 DEF Serial, Init

LEMMA SerialAlways ==
    ASSUME \A a, b \in Actors : a = b
    PROVE  Spec => []Serial
  <1>1. Spec => [](Shape /\ TipKept /\ ChainLinked)
    BY TipStays
  <1>2. Spec => [](Shape /\ Bodied /\ OnceInv)
    BY OnceAlways
  <1>3. Shape /\ Bodied /\ TipKept /\ OnceInv /\ Serial /\ [Next]_vars => Serial'
    BY SerialStep
  <1> QED BY <1>1, <1>2, <1>3, InitSerial, PTL DEF Spec

(* With one publishing thread, and whatever blocks are refused half way, the emission counters
   between blocks are those a replay of the log computes, unless an append has failed. *)
THEOREM CountersMatchReplay ==
    ASSUME \A a, b \in Actors : a = b
    PROVE  Spec => []MintedMatchesLog
  <1>1. Spec => []Serial
    BY SerialAlways
  <1>2. Serial => MintedMatchesLog
    <2> SUFFICES ASSUME Serial, Settled, Replay(disk).ok
                 PROVE  minted = Replay(disk).minted /\ prev = Replay(disk).prev
      BY DEF MintedMatchesLog
    <2>1. /\ up = "running" /\ Len(state.applied) = Len(disk)
          /\ \A a \in Actors : pc[a] \notin StateAhead
      BY DEF Settled, Quiet, Committing, StateAhead
    <2>2. Lossless
      BY <2>1 DEF Lossless, Expected, Ahead
    <2>3. Counted
      BY <2>1, <2>2 DEF Serial, Live
    <2> QED BY <2>1, <2>3 DEF Counted, StateAhead, MintedAhead, PrevAhead
  <1> QED BY <1>1, <1>2, PTL

(* With one publishing thread only a failed append or a block that was refused half way sets the
   live state apart from the one a restart would rebuild. *)
THEOREM StateMatchesReplay ==
    ASSUME \A a, b \in Actors : a = b
    PROVE  Spec => []LiveMatchesReplay
  <1>1. Spec => []Serial
    BY SerialAlways
  <1>2. Serial => LiveMatchesReplay
    <2> SUFFICES ASSUME Serial, Settled, ~ state.partly
                 PROVE  Replay(disk).ok /\ state = Replay(disk).state
      BY DEF LiveMatchesReplay
    <2>1. up = "running" /\ Len(state.applied) = Len(disk) /\ ~ Ahead
      BY DEF Settled, Quiet, Committing, Ahead, StateAhead
    <2>2. Lossless
      BY <2>1 DEF Lossless, Expected
    <2> QED BY <2>1, <2>2 DEF Serial, Live, Rebuilt
  <1> QED BY <1>1, <1>2, PTL

(* With one publishing thread a start-up fails only on a log that was cut off inside a record, or
   in which a block was logged after a failed append or a block refused half way. *)
THEOREM NodeStartsAgain ==
    ASSUME \A a, b \in Actors : a = b
    PROVE  Spec => []RestartFailsOnlyIf
  <1>1. Spec => []Serial
    BY SerialAlways
  <1>2. Serial => RestartFailsOnlyIf
    BY DEF Serial, RestartFailsOnlyIf
  <1> QED BY <1>1, <1>2, PTL

-----------------------------------------------------------------------------
(* The queries, with one publishing thread. *)

(* The replay of a prefix of the log is a prefix of the replay. *)
LEMMA ReplayPrefix ==
    ASSUME NEW log, Len(log) \in Nat, \A k \in 1 .. Len(log) : log[k].height = k - 1,
           NEW pre, Len(pre) \in 0 .. Len(log), \A k \in 1 .. Len(pre) : pre[k] = log[k]
    PROVE  Replay(pre) = ReplayLoop(log)[Len(pre)]
  <1> DEFINE L == Len(log)
             M == Len(pre)
             R == ReplayLoop(log)
             Q == ReplayLoop(pre)
             N == {n \in Nat : n <= M => Q[n] = R[n]}
  <1>0. L \in Nat /\ M \in Nat /\ M <= L
    OBVIOUS
  <1>1. R[0] = Start /\ \A k \in 1 .. L : R[k] = Then(log, R[k - 1], log[k])
    BY ReplayUnfolds
  <1>2. Q[0] = Start /\ \A k \in 1 .. M : Q[k] = Then(pre, Q[k - 1], pre[k])
    BY <1>0, ReplayUnfolds
  <1>3. ASSUME NEW c, c.height \in 0 .. M, NEW r PROVE Then(pre, r, c) = Then(log, r, c)
    <2>1. parent_ts(pre, c) = parent_ts(log, c)
      BY <1>0, <1>3 DEF parent_ts
    <2> QED BY <2>1 DEF Then, ReplayStep
  <1>4. M \in N
    <2>1. 0 \in N
      BY <1>1, <1>2
    <2>2. ASSUME NEW n \in Nat, n \in N PROVE n + 1 \in N
      <3> SUFFICES ASSUME n + 1 <= M PROVE Q[n + 1] = R[n + 1]
        OBVIOUS
      <3>1. n + 1 \in 1 .. M /\ n + 1 \in 1 .. L /\ n + 1 - 1 = n /\ Q[n] = R[n]
        BY <1>0, <2>2
      <3>2. pre[n + 1] = log[n + 1] /\ log[n + 1].height \in 0 .. M
        BY <1>0, <3>1
      <3> HIDE DEF Q, R
      <3>3. Q[n + 1] = Then(pre, R[n], log[n + 1]) /\ R[n + 1] = Then(log, R[n], log[n + 1])
        BY <1>1, <1>2, <3>1, <3>2
      <3>4. Then(pre, R[n], log[n + 1]) = Then(log, R[n], log[n + 1])
        BY <1>3, <3>2
      <3> QED BY <3>3, <3>4
    <2> HIDE DEF N
    <2> QED BY <1>0, <2>1, <2>2, NatSetInduction
  <1>5. Q[M] = R[M]
    BY <1>0, <1>4
  <1> QED BY <1>5, ReplayDef

(* A replay that succeeds took a step at every block. *)
LEMMA ReplayAllOk ==
    ASSUME NEW log, Len(log) \in Nat, Replay(log).ok
    PROVE  \A k \in 0 .. Len(log) : ReplayLoop(log)[k].ok
  <1> DEFINE L == Len(log)
             R == ReplayLoop(log)
             N == {n \in Nat : n <= L => R[L - n].ok}
  <1>1. L \in Nat /\ \A k \in 1 .. L : R[k] = Then(log, R[k - 1], log[k])
    BY ReplayUnfolds
  <1>2. R[L].ok
    BY ReplayDef
  <1> HIDE DEF R, L
  <1>3. 0 \in N
    BY <1>1, <1>2
  <1>4. ASSUME NEW n \in Nat, n \in N PROVE n + 1 \in N
    <2> SUFFICES ASSUME n + 1 <= L PROVE R[L - (n + 1)].ok
      OBVIOUS
    <2> DEFINE j == L - n
    <2>1. j \in 1 .. L /\ j - 1 = L - (n + 1) /\ R[j].ok
      BY <1>1, <1>4
    <2> HIDE DEF j
    <2>2. R[j] = Then(log, R[j - 1], log[j])
      BY <1>1, <2>1
    <2>3. R[j - 1].ok
      BY <2>1, <2>2 DEF Then
    <2> QED BY <2>1, <2>3
  <1>5. Nat \subseteq N
    <2> HIDE DEF N
    <2> QED BY <1>3, <1>4, NatSetInduction
  <1>6. ASSUME NEW k \in 0 .. L PROVE R[k].ok
    <2>1. L - k \in Nat /\ L - k <= L /\ L - (L - k) = k
      BY <1>1
    <2> QED BY <1>5, <2>1
  <1> QED BY <1>6 DEF R, L

(* One block of a replay that succeeds, with what it adds to the counters and the nonces. *)
LEMMA ReplayedBlock ==
    ASSUME NEW log, Len(log) \in Nat, Replay(log).ok, \A n \in 1 .. Len(log) : IsBody(log[n].txs),
           NEW k \in 1 .. Len(log)
    PROVE  LET r == ReplayLoop(log)[k - 1]
               q == ReplayLoop(log)[k]
               b == log[k]
               reward == Reward(b.ts, parent_ts(log, b), r.minted, b.height, r.prev)
           IN /\ q.minted = r.minted + reward /\ q.prev = reward
              /\ q.state.nonce = Bump(r.state, b) /\ Executed(b) = DOMAIN b.txs
  <1> DEFINE r == ReplayLoop(log)[k - 1]
             q == ReplayLoop(log)[k]
             b == log[k]
             reward == Reward(b.ts, parent_ts(log, b), r.minted, b.height, r.prev)
             out == apply_block(r.state, b, reward)
  <1>1. q = Then(log, r, b)
    BY ReplayUnfolds
  <1>2. r.ok /\ q.ok
    <2>1. k \in 0 .. Len(log) /\ k - 1 \in 0 .. Len(log)
      OBVIOUS
    <2> QED BY <2>1, ReplayAllOk
  <1> HIDE DEF r, q, b
  <1>3. q = ReplayStep(log, r, b)
    BY <1>1, <1>2 DEF Then
  <1>4. q.minted = r.minted + reward /\ q.prev = reward /\ q.state = out.state /\ q.ok = (r.ok /\ out.ok)
    BY <1>3 DEF ReplayStep
  <1> HIDE DEF reward
  <1>5. out.ok
    BY <1>2, <1>4
  <1>6. IsState(r.state) /\ IsBody(b.txs)
    <2>1. k - 1 \in 0 .. Len(log)
      OBVIOUS
    <2> QED BY <2>1, LoopSpends DEF r, b
  <1>7. out.state.nonce = Bump(r.state, b) /\ Executed(b) = DOMAIN b.txs
    BY <1>5, <1>6, ApplyOk
  <1> QED BY <1>4, <1>7 DEF r, q, b, reward

-----------------------------------------------------------------------------
(* The rewards that emission_series adds up. *)

FirstTotal == [total |-> 0, prev |-> None]
AddReward(log, r, k) ==
    LET reward == Reward(log[k].ts, log[k - 1].ts, r.total, log[k].height, r.prev)
    IN [total |-> r.total + reward, prev |-> reward]

(* R adds up the rewards of the first n blocks. *)
AddsUp(R, log, D) == R = [k \in D |-> IF k = 1 THEN FirstTotal ELSE AddReward(log, R[k - 1], k)]

LEMMA RunningDef ==
    ASSUME NEW log
    PROVE  running(log) = CHOOSE R : AddsUp(R, log, DOMAIN log)
  BY Zenon DEF running, AddsUp, FirstTotal, AddReward

LEMMA RunningUnfolds ==
    ASSUME NEW log, NEW L \in Nat, L >= 1, DOMAIN log = 1 .. L
    PROVE  /\ running(log)[1] = FirstTotal
           /\ \A k \in 2 .. L : running(log)[k] = AddReward(log, running(log)[k - 1], k)
  <1> DEFINE N == {n \in Nat : \E R : AddsUp(R, log, 1 .. n)}
  <1>1. 0 \in N
    <2> DEFINE R == [k \in 1 .. 0 |-> FirstTotal]
    <2>1. AddsUp(R, log, 1 .. 0)
      BY DEF AddsUp
    <2> QED BY <2>1
  <1>2. ASSUME NEW n \in Nat, n \in N PROVE n + 1 \in N
    <2>1. PICK R : AddsUp(R, log, 1 .. n)
      BY <1>2
    <2> DEFINE Q == [k \in 1 .. n + 1 |-> IF k = 1 THEN FirstTotal ELSE AddReward(log, R[k - 1], k)]
    <2>2. \A k \in 1 .. n : R[k] = IF k = 1 THEN FirstTotal ELSE AddReward(log, R[k - 1], k)
      BY <2>1 DEF AddsUp
    <2>3. \A k \in 1 .. n : Q[k] = R[k]
      BY <2>2
    <2>4. \A k \in 1 .. n + 1 : k # 1 => k - 1 \in 1 .. n
      OBVIOUS
    <2>5. \A k \in 1 .. n + 1 : Q[k] = IF k = 1 THEN FirstTotal ELSE AddReward(log, Q[k - 1], k)
      BY <2>3, <2>4
    <2>6. AddsUp(Q, log, 1 .. n + 1)
      BY <2>5 DEF AddsUp
    <2> QED BY <2>6
  <1>3. L \in N
    <2> HIDE DEF N
    <2> QED BY <1>1, <1>2, NatSetInduction
  <1> DEFINE R == running(log)
  <1>4. AddsUp(R, log, 1 .. L)
    BY <1>3, RunningDef
  <1>5. R = [k \in 1 .. L |-> IF k = 1 THEN FirstTotal ELSE AddReward(log, R[k - 1], k)]
    BY <1>4 DEF AddsUp
  <1> HIDE DEF R
  <1>6. R[1] = FirstTotal /\ \A k \in 2 .. L : R[k] = AddReward(log, R[k - 1], k)
    BY <1>5
  <1> QED BY <1>6 DEF R

-----------------------------------------------------------------------------
(* Timestamps. *)

Dates == 0 .. GenesisTime + MaxTime + Skew
IsDated(b) == "ts" \in DOMAIN b /\ b.ts \in Dates

(* The log starts with genesis, and no block anywhere is dated after what the clock and the
   tolerance allow. *)
OfferedDated == \A b \in offered : IsDated(b)
BlkDated == \A a \in Actors : IsDated(blk[a])
DiskDated == disk[1] = Genesis /\ \A k \in DOMAIN disk : IsDated(disk[k])
Dated == now \in 0 .. MaxTime /\ OfferedDated /\ BlkDated /\ DiskDated

LEMMA GenesisDated == IsDated(Genesis)
  BY GenesisAssumption, BoundAssumption DEF IsDated, Dates, Genesis

LEMMA InitDated == Init => Dated
  <1> SUFFICES ASSUME Init PROVE Dated
    OBVIOUS
  <1>1. /\ disk = <<Genesis>> /\ DOMAIN disk = {1} /\ disk[1] = Genesis /\ offered = {}
        /\ blk = [a \in Actors |-> Genesis] /\ now = 0
    BY DEF Init
  <1>2. now \in 0 .. MaxTime
    BY <1>1, BoundAssumption
  <1>3. OfferedDated /\ BlkDated /\ DiskDated
    BY <1>1, GenesisDated DEF OfferedDated, BlkDated, DiskDated
  <1> QED BY <1>2, <1>3 DEF Dated

LEMMA StepDated ==
    ASSUME Shape, Dated, [Next]_vars
    PROVE  Dated'
  <1> DEFINE Clock == now \in 0 .. MaxTime
  <1>0. /\ Clock /\ OfferedDated /\ BlkDated /\ DiskDated
        /\ (Clock' /\ OfferedDated' /\ BlkDated' /\ DiskDated' => Dated')
    BY DEF Dated
  <1> USE DEF shared, chain_log
  <1>1. /\ UNCHANGED now => Clock'
        /\ UNCHANGED offered => OfferedDated'
        /\ UNCHANGED blk => BlkDated'
        /\ UNCHANGED disk => DiskDated'
    BY <1>0 DEF OfferedDated, BlkDated, DiskDated
  <1>2. ASSUME NEW a \in Actors, NEW c, blk' = [blk EXCEPT ![a] = c], IsDated(c) PROVE BlkDated'
    BY <1>0, <1>2 DEF BlkDated, Shape
  <1>3. ASSUME NEW a \in Actors, Return(a) PROVE BlkDated'
    BY <1>2, <1>3, GenesisDated DEF Return
  <1>4. now \in Dates /\ now + Skew \in Dates
    BY <1>0, GenesisAssumption, BoundAssumption DEF Dates
  <1>5. ASSUME NEW n, NEW bits PROVE IsDated(Template(n, bits))
    BY <1>4 DEF Template, IsDated
  <1>6. ASSUME NEW b, IsDated(b), NEW c \in Remote(b) PROVE IsDated(c)
    <2>1. CASE \E body \in Bodies \cup {b.txs} : c = [b EXCEPT !.txs = body]
      BY <1>6, <2>1 DEF IsDated
    <2>2. CASE \E t \in now .. MaxTime :
                   c = [b EXCEPT !.ts = t, !.bits = NextBits(Tip.bits, Tip.ts, t)]
      <3>1. PICK t \in now .. MaxTime :
                   c = [b EXCEPT !.ts = t, !.bits = NextBits(Tip.bits, Tip.ts, t)]
        BY <2>2
      <3>2. t \in Dates
        BY <1>0, GenesisAssumption, BoundAssumption DEF Dates
      <3>3. DOMAIN c = DOMAIN b /\ c.ts = t
        BY <1>6, <3>1 DEF IsDated
      <3> QED BY <1>6, <3>2, <3>3 DEF IsDated
    <2>3. CASE c = [b EXCEPT !.parent = MaxIds + 1, !.txs = << >>]
      BY <1>6, <2>3 DEF IsDated
    <2> QED BY <1>6, <2>1, <2>2, <2>3 DEF Remote
  <1> HIDE DEF Clock
  <1>7. CASE UNCHANGED vars
    BY <1>0, <1>1, <1>7 DEF vars
  <1>8. ASSUME NEW h \in Hashes, SubmitTx(h) \/ SubmitTransfer(h) PROVE Dated'
    <2>1. UNCHANGED <<now, offered, blk, disk>>
      BY <1>8 DEF SubmitTx, SubmitTransfer
    <2> QED BY <1>0, <1>1, <2>1
  <1>9. ASSUME NEW n \in 1 .. MaxIds, GetTemplate(n) PROVE Dated'
    <2>1. UNCHANGED <<now, blk, disk>>
      BY <1>9 DEF GetTemplate
    <2>2. PICK b \in Remote(Template(n, GenesisBits)) : offered' = offered \cup {b}
      BY <1>9 DEF GetTemplate
    <2>3. IsDated(b)
      BY <1>5, <1>6
    <2>4. OfferedDated'
      BY <1>0, <2>2, <2>3 DEF OfferedDated
    <2> QED BY <1>0, <1>1, <2>1, <2>4
  <1>10. ASSUME NEW b \in offered, SubmitBlock(b) PROVE Dated'
    <2>1. /\ UNCHANGED <<now, disk>> /\ offered' \in {offered, offered \ {b}} /\ "rpc" \in Actors
          /\ blk' = [blk EXCEPT !["rpc"] = b]
      BY <1>10 DEF SubmitBlock, RpcFree
    <2>2. IsDated(b)
      BY <1>0 DEF OfferedDated
    <2>3. BlkDated'
      BY <1>2, <2>1, <2>2
    <2>4. OfferedDated'
      BY <1>0, <2>1 DEF OfferedDated
    <2> QED BY <1>0, <1>1, <2>1, <2>3, <2>4
  <1>11. ASSUME NEW n \in 1 .. MaxIds, MinerBuild(n) PROVE Dated'
    <2>1. /\ UNCHANGED <<now, disk, offered>> /\ "miner" \in Actors
          /\ blk' = [blk EXCEPT !["miner"] = Template(n, NextBits(Tip.bits, Tip.ts, now))]
      BY <1>11 DEF MinerBuild
    <2>2. BlkDated'
      BY <1>2, <1>5, <2>1
    <2> QED BY <1>0, <1>1, <2>1, <2>2
  <1>12. CASE MinerFound
    BY <1>0, <1>1, <1>12 DEF MinerFound, Goto
  <1>13. CASE MinerAbandon
    BY <1>0, <1>1, <1>3, <1>13 DEF MinerAbandon
  <1>14. ASSUME NEW a \in Actors, Publish(a) \/ AppendFails(a) PROVE Dated'
    <2>1. CASE Check(a) \/ ReadTip(a) \/ ReadMinted(a) \/ ReadPrev(a) \/ ApplyBlock(a)
               \/ WriteMinted(a) \/ WritePrev(a) \/ ConfirmTxs(a)
      <3>1. UNCHANGED <<now, offered, blk, disk>>
        BY <2>1 DEF Check, ReadTip, ReadMinted, ReadPrev, ApplyBlock, WriteMinted, WritePrev,
                    ConfirmTxs, Goto
      <3> QED BY <1>0, <1>1, <3>1
    <2>2. CASE Reject(a) \/ ApplyFails(a) \/ AppendFails(a)
      <3>1. UNCHANGED <<now, offered, disk>> /\ Return(a)
        BY <2>2 DEF Reject, ApplyFails, AppendFails
      <3> QED BY <1>0, <1>1, <1>3, <3>1
    <2>3. CASE AppendBlock(a)
      <3>1. UNCHANGED <<now, offered>> /\ Return(a) /\ disk' = Append(disk, blk[a])
        BY <2>3 DEF AppendBlock
      <3>2. DiskDated'
        <4>1. /\ DOMAIN disk = 1 .. Len(disk) /\ DOMAIN disk' = 1 .. Len(disk) + 1 /\ Len(disk) \in Nat
              /\ \A k \in 1 .. Len(disk) : disk'[k] = disk[k]
              /\ disk'[Len(disk) + 1] = blk[a] /\ Len(disk) >= 1
          BY <3>1, AppendLog DEF Shape
        <4>2. \A k \in DOMAIN disk' : k \in 1 .. Len(disk) \/ k = Len(disk) + 1
          BY <4>1
        <4>3. \A k \in DOMAIN disk' : IsDated(disk'[k])
          BY <1>0, <4>1, <4>2 DEF DiskDated, BlkDated
        <4>4. 1 \in 1 .. Len(disk)
          BY <4>1
        <4> QED BY <1>0, <4>1, <4>3, <4>4 DEF DiskDated
      <3> QED BY <1>0, <1>1, <1>3, <3>1, <3>2
    <2> QED BY <1>14, <2>1, <2>2, <2>3 DEF Publish
  <1>15. CASE Crash
    <2>1. UNCHANGED <<now, disk, offered>> /\ blk' = [b \in Actors |-> Genesis]
      BY <1>15 DEF Crash
    <2>2. BlkDated'
      BY <2>1, GenesisDated DEF BlkDated
    <2> QED BY <1>0, <1>1, <2>1, <2>2
  <1>16. CASE Restart \/ RestartFails
    BY <1>0, <1>1, <1>16 DEF Restart, RestartFails
  <1>17. CASE Tick
    <2>1. Clock' /\ UNCHANGED <<disk, offered, blk>>
      BY <1>0, <1>17, BoundAssumption DEF Tick, Clock
    <2> QED BY <1>0, <1>1, <2>1
  <1> QED BY <1>7, <1>8, <1>9, <1>10, <1>11, <1>12, <1>13, <1>14, <1>15, <1>16, <1>17
          DEF Next, Mine

LEMMA DatedAlways == Spec => []Dated
  <1>1. Spec => [](Shape /\ Bodied /\ OnceInv)
    BY OnceAlways
  <1>2. Shape /\ Dated /\ [Next]_vars => Dated'
    BY StepDated
  <1> QED BY <1>1, <1>2, InitDated, PTL DEF Spec

-----------------------------------------------------------------------------
(* What a log with one block per height, that a replay accepts, says about the queries. *)

(* A log of one chain: genesis first, the height of a block is its place, no block is older than
   its parent. *)
ChainLog(log, L) ==
    /\ L \in Nat /\ L >= 1 /\ Len(log) = L /\ DOMAIN log = 1 .. L
    /\ log[1] = Genesis
    /\ \A k \in 1 .. L : log[k].height = k - 1 /\ log[k].ts \in Dates /\ IsBody(log[k].txs)
    /\ \A k \in 2 .. L : log[k].ts >= log[k - 1].ts

(* And one that the replay accepts. *)
ReadableLog(log, L) == ChainLog(log, L) /\ Replay(log).ok

(* The rewards added up for the chart are those of the replay. *)
LEMMA RunningIsReplay ==
    ASSUME NEW log, NEW L, ReadableLog(log, L)
    PROVE  \A k \in 1 .. L : running(log)[k].total = ReplayLoop(log)[k].minted
  <1> DEFINE R == ReplayLoop(log)
             C == running(log)
             Good(k) == /\ C[k].total = R[k].minted
                        /\ IF k = 1 THEN C[k].prev = None /\ R[k].minted = 0 /\ R[k].prev = 0
                           ELSE C[k].prev = R[k].prev
             N == {n \in Nat : n + 1 <= L => Good(n + 1)}
  <1>0. /\ L \in Nat /\ L >= 1 /\ Len(log) = L /\ DOMAIN log = 1 .. L /\ log[1] = Genesis
        /\ Replay(log).ok
        /\ \A k \in 1 .. L : log[k].height = k - 1 /\ log[k].ts \in Dates /\ IsBody(log[k].txs)
    BY DEF ReadableLog, ChainLog
  <1>1. R[0] = Start
    BY <1>0, ReplayUnfolds
  <1>2. \A k \in 1 .. L :
            LET reward == Reward(log[k].ts, parent_ts(log, log[k]), R[k - 1].minted, log[k].height,
                                 R[k - 1].prev)
            IN R[k].minted = R[k - 1].minted + reward /\ R[k].prev = reward
    BY <1>0, ReplayedBlock
  <1>3. C[1] = FirstTotal /\ \A k \in 2 .. L : C[k] = AddReward(log, C[k - 1], k)
    BY <1>0, RunningUnfolds
  <1> HIDE DEF R, C
  <1>4. Good(1)
    <2>1. 1 \in 1 .. L /\ 1 - 1 = 0
      BY <1>0
    <2>2. log[1].ts = GenesisTime /\ log[1].height = 0
      BY <1>0 DEF Genesis
    <2>3. parent_ts(log, log[1]) = GenesisTime
      BY <2>2 DEF parent_ts
    <2>4. R[0].minted = 0 /\ R[0].prev = None
      BY <1>1 DEF Start
    <2>5. Reward(log[1].ts, parent_ts(log, log[1]), R[0].minted, log[1].height, R[0].prev) = 0
      BY <2>2, <2>3, <2>4, RewardAssumption, Zenon
    <2>6. R[1].minted = 0 + 0 /\ R[1].prev = 0
      BY <1>2, <2>1, <2>4, <2>5
    <2>7. C[1].total = 0 /\ C[1].prev = None
      BY <1>3 DEF FirstTotal
    <2> QED BY <2>6, <2>7
  <1>5. ASSUME NEW n \in Nat, n \in N PROVE n + 1 \in N
    <2> SUFFICES ASSUME (n + 1) + 1 <= L PROVE Good((n + 1) + 1)
      OBVIOUS
    <2> DEFINE j == n + 1
               k == j + 1
               pay == Reward(log[k].ts, parent_ts(log, log[k]), R[j].minted, log[k].height, R[j].prev)
               got == Reward(log[k].ts, log[j].ts, C[j].total, log[k].height, C[j].prev)
    <2>1. j \in 1 .. L /\ k \in 1 .. L /\ k \in 2 .. L /\ k - 1 = j /\ k # 1 /\ Good(j)
      BY <1>0, <1>5
    <2>2. R[k].minted = R[j].minted + pay /\ R[k].prev = pay
      <3> HIDE DEF k, j
      <3> QED BY <1>2, <2>1
    <2>3. C[k].total = C[j].total + got /\ C[k].prev = got
      <3> HIDE DEF k, j
      <3>1. C[k] = AddReward(log, C[j], k)
        BY <1>3, <2>1
      <3> QED BY <2>1, <3>1 DEF AddReward
    <2> HIDE DEF k, j, Good
    <2>4. parent_ts(log, log[k]) = log[j].ts /\ log[k].height = j
      BY <1>0, <2>1 DEF parent_ts
    <2>5. pay = got
      <3>1. C[j].total = R[j].minted
        BY <2>1 DEF Good
      <3>2. CASE j = 1
        <4>1. C[j].total = 0 /\ R[j].minted = 0 /\ C[j].prev = None /\ R[j].prev = 0
          BY <2>1, <3>2 DEF Good
        <4>2. log[j].ts = GenesisTime /\ log[k].ts \in Dates
          BY <1>0, <2>1, <3>2 DEF Genesis
        <4>3. pay = Reward(log[k].ts, GenesisTime, 0, 1, 0)
          BY <2>4, <3>2, <4>1, <4>2, Zenon
        <4>4. got = Reward(log[k].ts, GenesisTime, 0, 1, None)
          BY <2>4, <3>2, <4>1, <4>2, Zenon
        <4>5. Reward(log[k].ts, GenesisTime, 0, 1, 0) = Reward(log[k].ts, GenesisTime, 0, 1, None)
          BY <4>2, RewardAssumption, Zenon DEF Dates
        <4> QED BY <4>3, <4>4, <4>5, Zenon
      <3>3. CASE j # 1
        <4>1. C[j].prev = R[j].prev
          BY <2>1, <3>3 DEF Good
        <4> QED BY <2>4, <3>1, <4>1, Zenon
      <3> QED BY <3>2, <3>3
    <2> HIDE DEF pay, got
    <2>6. C[j].total = R[j].minted
      BY <2>1 DEF Good
    <2>7. Good(k)
      BY <2>1, <2>2, <2>3, <2>5, <2>6 DEF Good
    <2> QED BY <2>7 DEF k, j
  <1>6. Nat \subseteq N
    <2>1. 0 \in N
      BY <1>4
    <2> HIDE DEF N
    <2> QED BY <1>5, <2>1, NatSetInduction
  <1>7. ASSUME NEW k \in 1 .. L PROVE C[k].total = R[k].minted
    <2>1. k - 1 \in Nat /\ (k - 1) + 1 = k /\ k <= L
      BY <1>0
    <2>2. Good((k - 1) + 1)
      BY <1>6, <2>1
    <2> QED BY <2>1, <2>2
  <1> QED BY <1>7 DEF R, C

(* The transactions of s in b. *)
CountOf(b, s) == Cardinality({m \in DOMAIN b.txs : Sender[b.txs[m]] = s})

LEMMA CountType ==
    ASSUME NEW b, IsBody(b.txs), NEW s
    PROVE  CountOf(b, s) \in Nat
  <1>1. IsFiniteSet(DOMAIN b.txs)
    BY BodyTypes
  <1>2. IsFiniteSet({m \in DOMAIN b.txs : Sender[b.txs[m]] = s})
    BY <1>1, FS_Subset
  <1> QED BY <1>2, FS_CardinalityType DEF CountOf

(* A replay that succeeds leaves an account with as many nonces used as it has transactions in
   the log. *)
LEMMA NonceCounts ==
    ASSUME NEW log, NEW L, ReadableLog(log, L), NEW s \in Senders
    PROVE  Replay(log).state.nonce[s] =
               SumOf([h \in 1 .. L - 1 |-> CountOf(log[h + 1], s)], 1 .. L - 1)
  <1> DEFINE R == ReplayLoop(log)
             f == [h \in 1 .. L - 1 |-> CountOf(log[h + 1], s)]
             Good(n) == /\ SumOf(f, 1 .. n) \in Int
                        /\ R[n + 1].state.nonce[s] = SumOf(f, 1 .. n)
             N == {n \in Nat : n + 1 <= L => Good(n)}
  <1>0. /\ L \in Nat /\ L >= 1 /\ Len(log) = L /\ DOMAIN log = 1 .. L /\ log[1] = Genesis
        /\ Replay(log).ok /\ \A k \in 1 .. L : IsBody(log[k].txs)
    BY DEF ReadableLog, ChainLog
  <1>1. R[0] = Start
    BY <1>0, ReplayUnfolds
  <1>2. ASSUME NEW k \in 1 .. L
        PROVE  R[k].state.nonce[s] = R[k - 1].state.nonce[s] + CountOf(log[k], s)
    <2>1. R[k].state.nonce = Bump(R[k - 1].state, log[k]) /\ Executed(log[k]) = DOMAIN log[k].txs
      BY <1>0, ReplayedBlock
    <2>2. Bump(R[k - 1].state, log[k])[s] =
              R[k - 1].state.nonce[s] + Cardinality({m \in Executed(log[k]) : Sender[log[k].txs[m]] = s})
      BY DEF Bump
    <2> QED BY <2>1, <2>2, Zenon DEF CountOf
  <1> HIDE DEF R
  <1>3. \A h \in 1 .. L - 1 : f[h] = CountOf(log[h + 1], s) /\ f[h] \in Int
    <2>1. \A h \in 1 .. L - 1 : h + 1 \in 1 .. L
      BY <1>0
    <2> QED BY <1>0, <2>1, CountType
  <1>4. \A n \in Nat : IsFiniteSet(1 .. n)
    BY FS_Interval
  <1> HIDE DEF f
  <1>5. 0 \in N
    <2>1. 1 .. 0 = {}
      OBVIOUS
    <2>2. SumOf(f, 1 .. 0) = 0
      BY <2>1, SumEmpty
    <2>3. R[0].state.nonce[s] = 0
      BY <1>1 DEF Start, Fresh
    <2>4. CountOf(log[1], s) = 0
      <3>1. {m \in DOMAIN Genesis.txs : Sender[Genesis.txs[m]] = s} = {}
        BY DEF Genesis
      <3> QED BY <1>0, <3>1, FS_EmptySet DEF CountOf
    <2>5. 1 \in 1 .. L /\ 1 - 1 = 0
      BY <1>0
    <2>6. R[1].state.nonce[s] = 0 + 0
      BY <1>2, <2>3, <2>4, <2>5
    <2> QED BY <2>2, <2>6
  <1>6. ASSUME NEW n \in Nat, n \in N PROVE n + 1 \in N
    <2> SUFFICES ASSUME (n + 1) + 1 <= L PROVE Good(n + 1)
      OBVIOUS
    <2> DEFINE j == n + 1
    <2>1. /\ j \in Nat /\ j + 1 \in 1 .. L /\ (j + 1) - 1 = j /\ j \in 1 .. L - 1
          /\ 1 .. j \subseteq 1 .. L - 1 /\ (1 .. j) \ {j} = 1 .. n /\ j \in 1 .. j
          /\ Good(n)
      BY <1>0, <1>6
    <2>2. R[j + 1].state.nonce[s] = R[j].state.nonce[s] + f[j]
      <3> HIDE DEF j
      <3> QED BY <1>2, <1>3, <2>1
    <2>3. SumOf(f, 1 .. j) = f[j] + SumOf(f, 1 .. n)
      <3> HIDE DEF j
      <3>1. SumOf(f, 1 .. j) = f[j] + SumOf(f, (1 .. j) \ {j})
        BY <1>3, <1>4, <2>1, SumRemove
      <3> QED BY <2>1, <3>1, Zenon
    <2>4. f[j] \in Int /\ SumOf(f, 1 .. n) \in Int /\ R[j].state.nonce[s] = SumOf(f, 1 .. n)
      BY <1>3, <2>1
    <2>5. SumOf(f, 1 .. j) \in Int /\ R[j + 1].state.nonce[s] = SumOf(f, 1 .. j)
      <3> HIDE DEF j
      <3> QED BY <2>2, <2>3, <2>4
    <2> QED BY <2>5
  <1>7. Nat \subseteq N
    <2> HIDE DEF N
    <2> QED BY <1>5, <1>6, NatSetInduction
  <1>8. R[L].state.nonce[s] = SumOf(f, 1 .. L - 1)
    <2>1. L - 1 \in Nat /\ (L - 1) + 1 = L /\ (L - 1) + 1 <= L
      BY <1>0
    <2>2. Good(L - 1)
      BY <1>7, <2>1
    <2> QED BY <2>1, <2>2
  <1>9. Replay(log) = R[L]
    BY <1>0, ReplayDef DEF R
  <1> QED BY <1>8, <1>9 DEF f

-----------------------------------------------------------------------------
(* Blocks and accounts as an explorer and a wallet read them. *)

LEMMA DiskIsChain ==
    ASSUME Shape, ChainLinked, Bodied, Serial, Dated
    PROVE  ChainLog(disk, Len(disk))
  <1>1. Len(disk) \in Nat /\ Len(disk) >= 1 /\ DOMAIN disk = 1 .. Len(disk)
    BY DEF Shape
  <1>2. disk[1] = Genesis /\ \A k \in 1 .. Len(disk) : disk[k].ts \in Dates
    BY <1>1 DEF Dated, DiskDated, IsDated
  <1>3. \A k \in 1 .. Len(disk) : disk[k].height = k - 1 /\ IsBody(disk[k].txs)
    BY <1>1 DEF Serial, Bodied
  <1>4. \A k \in 2 .. Len(disk) : disk[k].ts >= disk[k - 1].ts
    BY <1>1 DEF ChainLinked
  <1> QED BY <1>1, <1>2, <1>3, <1>4 DEF ChainLog

(* get_by_height finds the block of each height, and none above the tip. *)
LEMMA FoundByHeight ==
    ASSUME NEW L, ChainLog(disk, L)
    PROVE  /\ \A k \in 1 .. L : get_by_height(k - 1) = disk[k]
           /\ get_by_height(L) = None
  <1> DEFINE found(h) == {k \in DOMAIN disk : disk[k].height = h}
  <1>0. /\ L \in Nat /\ L >= 1 /\ DOMAIN disk = 1 .. L /\ \A k \in 1 .. L : disk[k].height = k - 1
    BY DEF ReadableLog, ChainLog
  <1>1. ASSUME NEW h PROVE get_by_height(h) = IF found(h) = {} THEN None ELSE disk[Min(found(h))]
    BY DEF get_by_height, load_all
  <1>2. ASSUME NEW k \in 1 .. L PROVE get_by_height(k - 1) = disk[k]
    <2>1. found(k - 1) = {k}
      BY <1>0
    <2>2. Min({k}) = k
      BY <1>0 DEF Min
    <2> HIDE DEF found
    <2> QED BY <1>1, <2>1, <2>2
  <1>3. get_by_height(L) = None
    <2>1. found(L) = {}
      BY <1>0
    <2> QED BY <1>1, <2>1
  <1> QED BY <1>2, <1>3

LEMMA ExplorerReads ==
    ASSUME NEW L, ChainLog(disk, L), Settled /\ ~ state.partly => Replay(disk).ok /\ state = Replay(disk).state
    PROVE  ExplorerMatchesAccounts
  <1>0. /\ L \in Nat /\ L >= 1 /\ Len(disk) = L /\ DOMAIN disk = 1 .. L
        /\ \A k \in 1 .. L : disk[k].height = k - 1 /\ IsBody(disk[k].txs)
    BY DEF ReadableLog, ChainLog
  <1>1. /\ \A k \in 1 .. L : get_block(k - 1) = disk[k]
        /\ get_block(L) = None
    BY FoundByHeight DEF get_block
  <1>2. info.height = L - 1 /\ info.tip_hash = disk[L].id /\ L \in 1 .. L /\ (L - 1) + 1 = L
    BY <1>0 DEF info, Tip
  <1>3. ASSUME NEW limit \in 0 .. ListCap + 1, NEW i \in DOMAIN list_blocks(limit)
        PROVE  /\ list_blocks(limit)[i].height = info.height + 1 - i
               /\ get_block(list_blocks(limit)[i].height) = list_blocks(limit)[i]
    <2> DEFINE n == Least(Least(limit, ListCap), L)
               k == L + 1 - i
    <2>1. list_blocks(limit) = [j \in 1 .. n |-> disk[L + 1 - j]]
      BY <1>0 DEF list_blocks, recent, load_all
    <2>2. n \in Nat /\ n <= L
      BY <1>0, CapAssumption DEF Least
    <2> HIDE DEF n
    <2>3. i \in 1 .. n
      BY <1>3, <2>1
    <2>4. list_blocks(limit)[i] = disk[k] /\ k \in 1 .. L /\ k - 1 = L - 1 + 1 - i
      BY <1>0, <2>1, <2>2, <2>3
    <2> HIDE DEF k
    <2>5. disk[k].height = k - 1 /\ get_block(k - 1) = disk[k]
      BY <1>0, <1>1, <2>4
    <2> QED BY <1>2, <2>4, <2>5
  <1>4. get_block(info.height).id = info.tip_hash /\ get_block(info.height + 1) = None
    BY <1>1, <1>2
  <1>5. ASSUME Settled, ~ state.partly, NEW s \in Senders
        PROVE  get_account(s).nonce =
                   SumOf([h \in 1 .. info.height |-> Cardinality(
                              {m \in DOMAIN get_block(h).txs : Sender[get_block(h).txs[m]] = s})],
                         1 .. info.height)
    <2> DEFINE f == [h \in 1 .. L - 1 |-> CountOf(disk[h + 1], s)]
               g == [h \in 1 .. L - 1 |-> CountOf(get_block(h), s)]
    <2>1. \A h \in 1 .. L - 1 : get_block(h) = disk[h + 1]
      <3>1. \A h \in 1 .. L - 1 : h + 1 \in 1 .. L /\ (h + 1) - 1 = h
        BY <1>0
      <3> QED BY <1>1, <3>1
    <2>2. f = g
      BY <2>1
    <2>3. get_account(s).nonce = SumOf(f, 1 .. L - 1)
      BY <1>5, NonceCounts DEF get_account, ReadableLog
    <2>4. get_account(s).nonce = SumOf(g, 1 .. L - 1)
      BY <2>2, <2>3, Zenon
    <2> QED BY <1>2, <2>4, Zenon DEF CountOf
  <1> QED BY <1>3, <1>4, <1>5 DEF ExplorerMatchesAccounts

(* With one publishing thread the blocks that list_blocks and get_block show are in order down from
   the tip, each found by its height; and unless a block was refused half way or not logged, the
   nonces that get_account gives are the transactions that the account has in these blocks. *)
THEOREM ExplorerAgrees ==
    ASSUME \A a, b \in Actors : a = b
    PROVE  Spec => []ExplorerMatchesAccounts
  <1>1. Spec => [](Shape /\ TipKept /\ ChainLinked)
    BY TipStays
  <1>2. Spec => [](Shape /\ Bodied /\ OnceInv)
    BY OnceAlways
  <1>3. Spec => []Serial
    BY SerialAlways
  <1>4. Spec => []Dated
    BY DatedAlways
  <1>5. Spec => []LiveMatchesReplay
    BY StateMatchesReplay
  <1>6. /\ Shape /\ ChainLinked /\ Bodied /\ Serial /\ Dated /\ LiveMatchesReplay
        => ExplorerMatchesAccounts
    <2> SUFFICES ASSUME Shape, ChainLinked, Bodied, Serial, Dated, LiveMatchesReplay
                 PROVE  ExplorerMatchesAccounts
      OBVIOUS
    <2>1. ChainLog(disk, Len(disk))
      BY DiskIsChain
    <2> QED BY <2>1, ExplorerReads DEF LiveMatchesReplay
  <1> QED BY <1>1, <1>2, <1>3, <1>4, <1>5, <1>6, PTL

-----------------------------------------------------------------------------
(* The samples of the chart. *)

(* Positions number a finite set of numbers from 0, in order. *)
LEMMA Positions ==
    ASSUME NEW S, S \subseteq Nat, IsFiniteSet(S)
    PROVE  /\ Cardinality(S) \in Nat
           /\ \A x \in S : Position(S, x) \in 0 .. Cardinality(S) - 1
           /\ \A x, y \in S : x < y => Position(S, x) < Position(S, y)
           /\ \A i \in 0 .. Cardinality(S) - 1 : \E x \in S : Position(S, x) = i
  <1> DEFINE R == {p \in S \X S : p[1] < p[2]}
  <1>1. \A x, y \in S : <<x, y>> \in R <=> x < y
    OBVIOUS
  <1>2. \A x \in S : Cardinality(Below(R, S, x)) = Position(S, x)
    <2>1. \A x \in S : Below(R, S, x) = {j \in S : j < x}
      BY <1>1 DEF Below
    <2> QED BY <2>1 DEF Position
  <1> HIDE DEF R
  <1>3. StrictOrder(R, S)
    <2>1. \A x \in S : ~ (x < x)
      OBVIOUS
    <2>2. \A x, y, z \in S : x < y /\ y < z => x < z
      OBVIOUS
    <2>3. \A x, y \in S : x = y \/ x < y \/ y < x
      OBVIOUS
    <2> QED BY <1>1, <2>1, <2>2, <2>3 DEF StrictOrder
  <1>4. /\ Cardinality(S) \in Nat
        /\ Numbering([x \in S |-> Cardinality(Below(R, S, x))], R, S)
        /\ \A i \in 0 .. Cardinality(S) - 1 : \E x \in S : Cardinality(Below(R, S, x)) = i
    BY <1>3, Ranking
  <1>5. \A x, y \in S : x < y => Position(S, x) < Position(S, y)
    <2> DEFINE rank == [x \in S |-> Cardinality(Below(R, S, x))]
    <2>1. \A x \in S : rank[x] = Position(S, x)
      BY <1>2
    <2>2. \A x, y \in S : <<x, y>> \in R => rank[x] < rank[y]
      BY <1>4 DEF Numbering
    <2> HIDE DEF rank
    <2> QED BY <1>1, <2>1, <2>2
  <1>6. ASSUME NEW x \in S PROVE Position(S, x) \in 0 .. Cardinality(S) - 1
    <2>1. {j \in S : j < x} \in SUBSET (S \ {x})
      OBVIOUS
    <2>2. IsFiniteSet(S \ {x}) /\ Cardinality(S \ {x}) = Cardinality(S) - 1
      BY FS_RemoveElement
    <2>3. IsFiniteSet({j \in S : j < x}) /\ Position(S, x) <= Cardinality(S) - 1
      BY <2>1, <2>2, FS_Subset DEF Position
    <2>4. Position(S, x) \in Nat
      BY <2>3, FS_CardinalityType DEF Position
    <2> QED BY <1>4, <2>3, <2>4
  <1> QED BY <1>2, <1>4, <1>5, <1>6

(* The element at position i - 1. *)
Nth(S, i) == CHOOSE k \in S : Position(S, k) = i - 1

(* The elements of a finite set of numbers, listed by position, are in order and end with the
   largest. *)
LEMMA ListedInOrder ==
    ASSUME NEW S, S \subseteq Nat, IsFiniteSet(S), NEW top \in S, \A x \in S : x <= top
    PROVE  /\ Cardinality(S) \in Nat /\ Cardinality(S) >= 1
           /\ \A i \in 1 .. Cardinality(S) : Nth(S, i) \in S
           /\ \A i, j \in 1 .. Cardinality(S) : i < j => Nth(S, i) < Nth(S, j)
           /\ Nth(S, Cardinality(S)) = top
           /\ Position(S, top) = Cardinality(S) - 1
  <1> DEFINE n == Cardinality(S)
  <1>1. /\ n \in Nat /\ \A x \in S : Position(S, x) \in 0 .. n - 1
        /\ \A x, y \in S : x < y => Position(S, x) < Position(S, y)
        /\ \A i \in 0 .. n - 1 : \E x \in S : Position(S, x) = i
    BY Positions
  <1> HIDE DEF n
  <1>2. n >= 1
    BY <1>1
  <1>3. ASSUME NEW i \in 1 .. n PROVE Nth(S, i) \in S /\ Position(S, Nth(S, i)) = i - 1
    <2>1. i - 1 \in 0 .. n - 1
      BY <1>1
    <2>2. \E k \in S : Position(S, k) = i - 1
      BY <1>1, <2>1
    <2> QED BY <2>2 DEF Nth
  <1>4. ASSUME NEW i \in 1 .. n, NEW j \in 1 .. n, i < j PROVE Nth(S, i) < Nth(S, j)
    <2> DEFINE x == Nth(S, i)
               y == Nth(S, j)
    <2>1. x \in S /\ y \in S /\ Position(S, x) = i - 1 /\ Position(S, y) = j - 1
      BY <1>3
    <2> HIDE DEF x, y
    <2>2. x \in Nat /\ y \in Nat /\ x # y /\ ~ (y < x)
      BY <1>1, <1>4, <2>1
    <2>3. x < y
      BY <2>2
    <2> QED BY <2>3 DEF x, y
  <1>5. Nth(S, n) = top
    <2> DEFINE x == Nth(S, n)
    <2>1. n \in 1 .. n
      BY <1>1, <1>2
    <2>2. x \in S /\ Position(S, x) = n - 1
      BY <1>3, <2>1
    <2> HIDE DEF x
    <2>3. x \in Nat /\ top \in Nat /\ x <= top /\ ~ (x < top)
      BY <1>1, <2>2
    <2>4. x = top
      BY <2>3
    <2> QED BY <2>4 DEF x
  <1>6. Position(S, top) = n - 1
    <2>1. n \in 1 .. n
      BY <1>1, <1>2
    <2> QED BY <1>3, <1>5, <2>1
  <1> QED BY <1>1, <1>2, <1>3, <1>4, <1>5, <1>6 DEF n

(* Division that rounds up. *)
Up(a, q) == (a + (q - 1)) \div q

LEMMA RoundsUp ==
    ASSUME NEW a \in Nat, NEW q \in Nat \ {0}
    PROVE  /\ Up(a, q) \in Nat /\ a <= q * Up(a, q) /\ q * Up(a, q) < a + q
           /\ a % q = 0 => q * Up(a, q) = a
  <1> DEFINE c == Up(a, q)
             x == a + (q - 1)
             r == x % q
  <1>1. x \in Nat
    OBVIOUS
  <1>2. x = q * c + r /\ r \in 0 .. q - 1 /\ c \in Nat
    <2> HIDE DEF x
    <2>1. x = q * (x \div q) + (x % q) /\ x % q \in 0 .. q - 1 /\ x \div q \in Nat
      BY <1>1, DivMod
    <2> QED BY <2>1 DEF Up, x
  <1> HIDE DEF c, r
  <1> DEFINE p == q * c
  <1>3. p \in Nat
    BY <1>2
  <1>4. x = p + r
    BY <1>2
  <1> HIDE DEF p
  <1>5. a <= p /\ p < a + q
    BY <1>2, <1>3, <1>4
  <1>6. ASSUME a % q = 0 PROVE p = a
    <2> DEFINE d == a \div q
    <2>1. a = q * d + (a % q) /\ d \in Nat
      BY DivMod
    <2> HIDE DEF d
    <2>2. a = q * d
      BY <1>6, <2>1
    <2>3. q * (d + 1) = q * d + q
      BY <2>1
    <2>4. p < q * (d + 1)
      BY <1>5, <2>2, <2>3
    <2>5. c < d + 1
      BY <1>2, <2>1, <2>4, TimesCancel DEF p
    <2>6. c <= d
      BY <1>2, <2>1, <2>5
    <2>7. p <= q * d
      BY <1>2, <2>1, <2>6, TimesMonotone DEF p
    <2> QED BY <1>3, <1>5, <2>2, <2>7
  <1>7. c \in Nat /\ a <= p /\ p < a + q /\ (a % q = 0 => p = a)
    BY <1>2, <1>5, <1>6
  <1> QED BY <1>7 DEF c, p

(* Of n numbers, every q-th and the last are at most m + 1 when q steps m times reach the last. *)
LEMMA StridedFew ==
    ASSUME NEW W, W \subseteq Nat, IsFiniteSet(W), NEW top \in W, \A x \in W : x <= top,
           NEW q \in Nat \ {0}, NEW m \in Nat, Cardinality(W) - 1 <= q * m,
           NEW P, P \subseteq W, \A x \in P : x = top \/ Position(W, x) % q = 0
    PROVE  IsFiniteSet(P) /\ Cardinality(P) <= m + 1
  <1> DEFINE n == Cardinality(W)
             g == [x \in P |-> Up(Position(W, x), q)]
             T == 0 .. m
  <1>1. /\ n \in Nat /\ \A x \in W : Position(W, x) \in 0 .. n - 1
        /\ \A x, y \in W : x < y => Position(W, x) < Position(W, y)
    BY Positions
  <1>2. q * m \in Nat /\ q * (m + 1) = q * m + q
    OBVIOUS
  <1> HIDE DEF n
  <1>3. ASSUME NEW x \in P PROVE g[x] \in T
    <2> DEFINE a == Position(W, x)
    <2>1. a \in Nat /\ a <= n - 1
      BY <1>1
    <2> HIDE DEF a
    <2>2. Up(a, q) \in Nat /\ q * Up(a, q) < a + q
      BY <2>1, RoundsUp
    <2>3. q * Up(a, q) < q * (m + 1)
      <3> DEFINE u == q * Up(a, q)
                 v == q * m
                 w == q * (m + 1)
      <3>1. u < a + q /\ w = v + q /\ v \in Nat /\ n - 1 <= v /\ u \in Nat
        BY <1>2, <2>2 DEF n
      <3> HIDE DEF u, v, w
      <3>2. u < w
        BY <1>1, <2>1, <3>1
      <3> QED BY <3>2 DEF u, w
    <2>4. Up(a, q) < m + 1
      BY <2>2, <2>3, TimesCancel
    <2>5. g[x] = Up(a, q)
      BY DEF a
    <2> QED BY <2>2, <2>4, <2>5
  <1>4. ASSUME NEW x \in P, NEW y \in P, x < y PROVE g[x] # g[y]
    <2> DEFINE a == Position(W, x)
               b == Position(W, y)
    <2>1. a \in Nat /\ b \in Nat /\ a < b
      BY <1>1, <1>4
    <2>2. x # top
      BY <1>4
    <2>3. a % q = 0
      BY <2>2
    <2> HIDE DEF a, b
    <2>4. q * Up(a, q) = a /\ b <= q * Up(b, q) /\ Up(b, q) \in Nat
      BY <2>1, <2>3, RoundsUp
    <2>5. Up(a, q) # Up(b, q)
      BY <2>1, <2>4
    <2> QED BY <2>5 DEF a, b
  <1>5. g \in Injection(P, T)
    <2>1. g \in [P -> T]
      BY <1>3
    <2>2. ASSUME NEW x \in P, NEW y \in P, g[x] = g[y] PROVE x = y
      <3>1. ~ (x < y) /\ ~ (y < x) /\ x \in Nat /\ y \in Nat
        BY <1>4, <2>2
      <3> QED BY <3>1
    <2> HIDE DEF g, T
    <2> QED BY <2>1, <2>2 DEF Injection, IsInjective
  <1>6. IsFiniteSet(T) /\ Cardinality(T) = m + 1
    <2>1. IsFiniteSet(0 .. m) /\ Cardinality(0 .. m) = IF 0 > m THEN 0 ELSE m - 0 + 1
      BY FS_Interval
    <2> QED BY <2>1
  <1> HIDE DEF g, T
  <1> QED BY <1>5, <1>6, FS_Injection

(* With that stride, steps of it reach the last block in twice the points, less two. *)
LEMMA StrideReaches ==
    ASSUME NEW n \in Nat, n >= 1, NEW p \in Nat, p >= 2
    PROVE  stride(n, p) \in Nat \ {0} /\ n - 1 <= stride(n, p) * (2 * p - 2)
  <1> DEFINE d == n \div p
             r == n % p
  <1>1. n = p * d + r /\ r \in 0 .. p - 1 /\ d \in Nat
    <2>1. p \in Nat \ {0}
      OBVIOUS
    <2> QED BY <2>1, DivMod, Zenon
  <1>2. stride(n, p) = IF d = 0 THEN 1 ELSE d
    BY DEF stride
  <1> HIDE DEF d, r
  <1>3. CASE d = 0
    <2>1. p * d = 0
      BY <1>3
    <2>2. n <= p - 1
      BY <1>1, <2>1
    <2>3. stride(n, p) = 1 /\ 1 * (2 * p - 2) = 2 * p - 2
      BY <1>2, <1>3
    <2> QED BY <2>2, <2>3
  <1>4. CASE d # 0
    <2>1. stride(n, p) = d /\ d \in Nat /\ d >= 1
      BY <1>1, <1>2, <1>4
    <2>2. (p - 2) * 1 <= (p - 2) * d /\ (p - 2) * 1 \in Nat
      <3>1. p - 2 \in Nat
        OBVIOUS
      <3> QED BY <2>1, <3>1, TimesMonotone
    <2>3. (p - 2) * 1 = p - 2
      OBVIOUS
    <2>4. d * (2 * p - 2) = p * d + (p - 2) * d
      BY <2>1
    <2> DEFINE u == p * d
               v == (p - 2) * d
    <2>5. u \in Nat /\ v \in Nat
      BY <2>1
    <2> HIDE DEF u, v
    <2>6. n = u + r /\ p - 2 <= v /\ d * (2 * p - 2) = u + v
      BY <1>1, <2>2, <2>3, <2>4 DEF u, v
    <2>7. n - 1 <= d * (2 * p - 2)
      BY <1>1, <2>5, <2>6
    <2> QED BY <2>1, <2>7
  <1> QED BY <1>3, <1>4

(* A finite set of numbers that is not empty has a largest one. *)
LEMMA MaxExists ==
    ASSUME NEW S, S \subseteq Nat, IsFiniteSet(S), S # {}
    PROVE  Max(S) \in S /\ \A y \in S : y <= Max(S)
  <1> DEFINE n == Cardinality(S)
  <1>1. /\ n \in Nat /\ \A x \in S : Position(S, x) \in 0 .. n - 1
        /\ \A x, y \in S : x < y => Position(S, x) < Position(S, y)
        /\ \A i \in 0 .. n - 1 : \E x \in S : Position(S, x) = i
    BY Positions
  <1> HIDE DEF n
  <1>2. n - 1 \in 0 .. n - 1
    <2>1. PICK x \in S : TRUE
      OBVIOUS
    <2>2. Position(S, x) \in 0 .. n - 1
      BY <1>1
    <2> QED BY <1>1, <2>2
  <1>3. PICK x \in S : Position(S, x) = n - 1
    BY <1>1, <1>2
  <1>4. \A y \in S : x >= y
    BY <1>1, <1>3
  <1>5. Max(S) \in S /\ \A y \in S : Max(S) >= y
    BY <1>4 DEF Max
  <1> QED BY <1>5

(* The window ends with the tip, and so do the samples taken from it: the test on the last
   height pushes the tip unless the stride has hit it. *)
LEMMA SamplesOfWindow ==
    ASSUME NEW L, ReadableLog(disk, L), NEW seconds \in Nat, NEW wanted \in Nat
    PROVE  LET W == in_window(seconds)
               S == samples(seconds, wanted)
               q == stride(Cardinality(W), points(wanted))
           IN /\ W \subseteq 1 .. L /\ IsFiniteSet(W) /\ L \in W
              /\ S \subseteq W /\ L \in S
              /\ \A x \in S : x = L \/ Position(W, x) % q = 0
              /\ Cardinality(W) \in Nat /\ Cardinality(W) >= 1
              /\ points(wanted) \in Nat /\ points(wanted) >= 2
  <1> DEFINE W == in_window(seconds)
             p == points(wanted)
             q == stride(Cardinality(W), p)
             strided == {k \in W : Position(W, k) % q = 0}
             S == samples(seconds, wanted)
  <1>0. /\ L \in Nat /\ L >= 1 /\ Len(disk) = L /\ DOMAIN disk = 1 .. L
        /\ \A k \in 1 .. L : disk[k].height = k - 1 /\ disk[k].ts \in Dates
    BY DEF ReadableLog, ChainLog
  <1>1. W \subseteq 1 .. L /\ L \in W
    <2>1. disk[L].ts \in Nat
      BY <1>0, GenesisAssumption, BoundAssumption DEF Dates
    <2>2. disk[L].ts + seconds >= disk[L].ts
      BY <2>1
    <2> QED BY <1>0, <2>2 DEF in_window, load_all, Tip
  <1>2. IsFiniteSet(W) /\ W \subseteq Nat
    <2>1. IsFiniteSet(1 .. L)
      BY <1>0, FS_Interval
    <2> QED BY <1>1, <2>1, FS_Subset
  <1>3. S = IF disk[Max(strided)].height = disk[Max(W)].height THEN strided ELSE strided \cup {Max(W)}
    BY DEF samples, load_all
  <1>4. p \in Nat /\ p >= 2
    BY CapAssumption DEF points, Least
  <1> HIDE DEF W, S, p
  <1>5. /\ Cardinality(W) \in Nat /\ Cardinality(W) >= 1
        /\ \A i \in 0 .. Cardinality(W) - 1 : \E x \in W : Position(W, x) = i
    <2>1. /\ Cardinality(W) \in Nat /\ \A x \in W : Position(W, x) \in 0 .. Cardinality(W) - 1
          /\ \A i \in 0 .. Cardinality(W) - 1 : \E x \in W : Position(W, x) = i
      BY <1>2, Positions
    <2> QED BY <1>1, <2>1
  <1>6. q \in Nat \ {0}
    BY <1>4, <1>5, StrideReaches
  <1> HIDE DEF q
  <1>7. strided # {}
    <2>1. PICK x \in W : Position(W, x) = 0
      BY <1>5
    <2>2. 0 % q = 0
      BY <1>6
    <2> QED BY <2>1, <2>2
  <1>8. Max(W) = L
    <2>1. Max(W) \in W /\ \A y \in W : y <= Max(W)
      BY <1>1, <1>2, MaxExists
    <2> DEFINE mx == Max(W)
    <2>2. mx \in 1 .. L /\ L <= mx
      BY <1>1, <2>1
    <2> HIDE DEF mx
    <2>3. mx = L
      BY <1>0, <2>2
    <2> QED BY <2>3 DEF mx
  <1>9. IsFiniteSet(strided) /\ strided \subseteq Nat /\ strided \subseteq W
    BY <1>2, FS_Subset
  <1>10. Max(strided) \in strided
    BY <1>7, <1>9, MaxExists
  <1>11. \A x \in strided : Position(W, x) % q = 0
    OBVIOUS
  <1> HIDE DEF strided
  <1>12. S \subseteq W /\ L \in S /\ S \subseteq strided \cup {L}
    <2>1. CASE disk[Max(strided)].height = disk[L].height
      <3> DEFINE mx == Max(strided)
      <3>1. mx \in 1 .. L /\ L \in 1 .. L
        BY <1>0, <1>1, <1>9, <1>10
      <3>2. mx - 1 = L - 1
        BY <1>0, <2>1, <3>1
      <3>3. mx = L
        BY <1>0, <3>1, <3>2
      <3> QED BY <1>3, <1>8, <1>9, <1>10, <2>1, <3>3
    <2>2. CASE disk[Max(strided)].height # disk[L].height
      BY <1>1, <1>3, <1>8, <1>9, <2>2
    <2> QED BY <2>1, <2>2
  <1>13. \A x \in S : x = L \/ Position(W, x) % q = 0
    BY <1>11, <1>12
  <1> QED BY <1>1, <1>2, <1>4, <1>5, <1>12, <1>13 DEF W, S, q, p

(* The total that the chart shows at a height is what a replay up to that block has minted. *)
LEMMA ChartedTotal ==
    ASSUME NEW L, ReadableLog(disk, L), Shape, NEW k \in 1 .. L
    PROVE  cumulative_by_height(disk, k - 1) = Replay(SubSeq(disk, 1, k)).minted
  <1>0. /\ L \in Nat /\ L >= 1 /\ Len(disk) = L /\ DOMAIN disk = 1 .. L
        /\ \A j \in 1 .. L : disk[j].height = j - 1
    BY DEF ReadableLog, ChainLog
  <1>1. {j \in DOMAIN disk : disk[j].height = k - 1} = {k}
    BY <1>0
  <1>2. Max({k}) = k
    BY <1>0 DEF Max
  <1>3. cumulative_by_height(disk, k - 1) = running(disk)[k].total
    BY <1>1, <1>2 DEF cumulative_by_height
  <1>4. running(disk)[k].total = ReplayLoop(disk)[k].minted
    BY RunningIsReplay
  <1> DEFINE pre == SubSeq(disk, 1, k)
  <1>5. Len(pre) = k /\ \A j \in 1 .. k : pre[j] = disk[j]
    <2>1. disk \in Seq(Logged) /\ 1 \in 1 .. Len(disk) + 1 /\ k \in 0 .. Len(disk)
      BY <1>0 DEF Shape
    <2> QED BY <1>0, <2>1
  <1> HIDE DEF pre
  <1>6. Replay(pre) = ReplayLoop(disk)[k]
    <2>1. Len(pre) \in 0 .. Len(disk) /\ Len(disk) \in Nat
      BY <1>0, <1>5
    <2>2. Replay(pre) = ReplayLoop(disk)[Len(pre)]
      BY <1>0, <1>5, <2>1, ReplayPrefix
    <2> QED BY <1>5, <2>2
  <1> QED BY <1>3, <1>4, <1>6 DEF pre

LEMMA ChartReads ==
    ASSUME NEW L, ReadableLog(disk, L), Shape, minted = Replay(disk).minted
    PROVE  ChartFollowsChain
  <1>0. /\ L \in Nat /\ L >= 1 /\ Len(disk) = L /\ DOMAIN disk = 1 .. L
        /\ \A k \in 1 .. L : disk[k].height = k - 1
    BY DEF ReadableLog, ChainLog
  <1>1. /\ info.height = L - 1
        /\ Tip = disk[L] /\ Tip.height = L - 1
    BY <1>0 DEF info, Tip
  <1> DEFINE minted_at == [h \in 0 .. Tip.height |-> Replay(SubSeq(disk, 1, h + 1)).minted]
  <1>2. ASSUME NEW k \in 1 .. L PROVE cumulative_by_height(disk, k - 1) = minted_at[k - 1]
    <2>1. k - 1 \in 0 .. Tip.height /\ (k - 1) + 1 = k
      BY <1>0, <1>1
    <2>2. minted_at[k - 1] = Replay(SubSeq(disk, 1, k)).minted
      BY <2>1
    <2> QED BY <2>2, ChartedTotal
  <1>3. cumulative_by_height(disk, L - 1) = minted
    <2>1. L \in 1 .. L
      BY <1>0
    <2>2. SubSeq(disk, 1, L) = disk
      BY <1>0 DEF Shape
    <2>3. cumulative_by_height(disk, L - 1) = Replay(SubSeq(disk, 1, L)).minted
      BY <2>1, ChartedTotal
    <2> QED BY <2>2, <2>3
  <1> HIDE DEF minted_at
  <1>4. ASSUME NEW seconds \in 0 .. MaxTime, NEW wanted \in 1 .. PointCap + 1
        PROVE  LET s == emission_series(seconds, wanted)
               IN /\ s[Len(s)] = [height |-> info.height, timestamp |-> Tip.ts, minted |-> minted]
                  /\ \A i \in DOMAIN s : s[i].minted = minted_at[s[i].height]
                  /\ \A i, j \in DOMAIN s : i < j => s[i].height < s[j].height
                  /\ wanted \in 2 .. PointCap => Len(s) < 2 * wanted
    <2> DEFINE W == in_window(seconds)
               S == samples(seconds, wanted)
               p == points(wanted)
               q == stride(Cardinality(W), p)
               s == emission_series(seconds, wanted)
               n == Cardinality(S)
               b(i) == disk[Nth(S, i)]
    <2>1. seconds \in Nat /\ wanted \in Nat
      BY BoundAssumption, CapAssumption
    <2>2. /\ W \subseteq 1 .. L /\ IsFiniteSet(W) /\ L \in W
          /\ S \subseteq W /\ L \in S
          /\ \A x \in S : x = L \/ Position(W, x) % q = 0
          /\ Cardinality(W) \in Nat /\ Cardinality(W) >= 1
          /\ p \in Nat /\ p >= 2
      BY <2>1, SamplesOfWindow
    <2>3. s = [i \in 1 .. n |-> [height |-> b(i).height, timestamp |-> b(i).ts,
                                 minted |-> cumulative_by_height(disk, b(i).height)]]
      BY DEF emission_series, load_all, Nth
    <2> HIDE DEF W, S, p, q, s
    <2>4. S \subseteq Nat /\ W \subseteq Nat /\ \A x \in W : x <= L
      BY <1>0, <2>2
    <2>5. IsFiniteSet(S)
      BY <2>2, FS_Subset
    <2>6. /\ n \in Nat /\ n >= 1
          /\ \A i \in 1 .. n : Nth(S, i) \in S
          /\ \A i, j \in 1 .. n : i < j => Nth(S, i) < Nth(S, j)
          /\ Nth(S, n) = L
      <3>1. \A x \in S : x <= L
        BY <2>2, <2>4
      <3> QED BY <2>2, <2>4, <2>5, <3>1, ListedInOrder
    <2> HIDE DEF n
    <2>7. Len(s) = n /\ DOMAIN s = 1 .. n
      BY <2>3, <2>6
    <2>8. ASSUME NEW i \in 1 .. n
          PROVE  /\ Nth(S, i) \in 1 .. L /\ s[i].height = Nth(S, i) - 1
                 /\ s[i].minted = minted_at[s[i].height]
      <3> DEFINE k == Nth(S, i)
      <3>1. k \in 1 .. L
        BY <2>2, <2>6
      <3>2. s[i].height = disk[k].height /\ s[i].minted = cumulative_by_height(disk, disk[k].height)
        BY <2>3
      <3> HIDE DEF k
      <3>3. disk[k].height = k - 1 /\ cumulative_by_height(disk, k - 1) = minted_at[k - 1]
        BY <1>0, <1>2, <3>1
      <3>4. s[i].height = k - 1 /\ s[i].minted = minted_at[s[i].height]
        BY <3>2, <3>3
      <3> QED BY <3>1, <3>4 DEF k
    <2>9. s[Len(s)] = [height |-> info.height, timestamp |-> Tip.ts, minted |-> minted]
      <3>1. n \in 1 .. n /\ L \in 1 .. L
        BY <1>0, <2>6
      <3>2. s[n] = [height |-> disk[L].height, timestamp |-> disk[L].ts,
                    minted |-> cumulative_by_height(disk, disk[L].height)]
        BY <2>3, <2>6, <3>1
      <3>3. disk[L].height = L - 1
        BY <1>0, <3>1
      <3>4. s[Len(s)] = [height |-> L - 1, timestamp |-> disk[L].ts, minted |-> minted]
        BY <1>3, <2>7, <3>2, <3>3
      <3> QED BY <1>1, <3>4
    <2>10. ASSUME NEW i \in DOMAIN s, NEW j \in DOMAIN s, i < j PROVE s[i].height < s[j].height
      <3>1. i \in 1 .. n /\ j \in 1 .. n
        BY <2>7
      <3>2. Nth(S, i) < Nth(S, j) /\ Nth(S, i) \in 1 .. L /\ Nth(S, j) \in 1 .. L
            /\ s[i].height = Nth(S, i) - 1 /\ s[j].height = Nth(S, j) - 1
        BY <2>6, <2>8, <2>10, <3>1
      <3> QED BY <3>2
    <2>11. ASSUME wanted \in 2 .. PointCap PROVE Len(s) < 2 * wanted
      <3>1. p = wanted
        BY <2>11, CapAssumption DEF p, points, Least
      <3>2. q \in Nat \ {0} /\ Cardinality(W) - 1 <= q * (2 * p - 2)
        BY <2>2, StrideReaches DEF q
      <3> DEFINE m == 2 * p - 2
      <3>3. m \in Nat
        BY <2>2
      <3>4. Cardinality(W) - 1 <= q * m
        BY <3>2
      <3> HIDE DEF m
      <3>5. Cardinality(S) <= m + 1
        BY <2>2, <2>4, <3>2, <3>3, <3>4, StridedFew
      <3>6. n <= m + 1
        BY <3>5 DEF n
      <3> QED BY <2>2, <2>6, <2>7, <3>1, <3>6 DEF m
    <2> QED BY <2>7, <2>8, <2>9, <2>10, <2>11 DEF s
  <1> QED BY <1>4 DEF ChartFollowsChain, minted_at

(* With one publishing thread, and unless an append has failed or the log cannot be replayed, the
   chart of emission_series is the history of the live node's counter: it ends at the tip with
   minted_so_far, every sample is what a replay of the log up to that block mints, samples are in
   order, and fewer than twice as many as were asked for. *)
THEOREM ChartAgrees ==
    ASSUME \A a, b \in Actors : a = b
    PROVE  Spec => []ChartFollowsChain
  <1>1. Spec => [](Shape /\ TipKept /\ ChainLinked)
    BY TipStays
  <1>2. Spec => [](Shape /\ Bodied /\ OnceInv)
    BY OnceAlways
  <1>3. Spec => []Serial
    BY SerialAlways
  <1>4. Spec => []Dated
    BY DatedAlways
  <1>5. Spec => []MintedMatchesLog
    BY CountersMatchReplay
  <1>6. /\ Shape /\ ChainLinked /\ Bodied /\ Serial /\ Dated /\ MintedMatchesLog
        => ChartFollowsChain
    <2> SUFFICES ASSUME Shape, ChainLinked, Bodied, Serial, Dated, MintedMatchesLog
                 PROVE  ChartFollowsChain
      OBVIOUS
    <2>1. CASE ~ (Settled /\ tail # "torn" /\ Replay(disk).ok)
      BY <2>1 DEF ChartFollowsChain
    <2>2. CASE Settled /\ tail # "torn" /\ Replay(disk).ok
      <3>1. ReadableLog(disk, Len(disk)) /\ minted = Replay(disk).minted
        BY <2>2, DiskIsChain DEF ReadableLog, MintedMatchesLog
      <3> QED BY <3>1, ChartReads
    <2> QED BY <2>1, <2>2
  <1> QED BY <1>1, <1>2, <1>3, <1>4, <1>5, <1>6, PTL
=============================================================================
