-------------------------- MODULE StoreGossipProofs -------------------------
(***************************************************************************)
(* Proofs about the parts around the node, which share no state: the chain *)
(* log (whatever kills, failed writes and power losses leave in the file,  *)
(* a reading that succeeds yields the blocks that the cache counts and     *)
(* append acknowledged), the broker (it implements Gossip) and the RocksDB *)
(* store (it answers like MemState).                                       *)
(***************************************************************************)
EXTENDS ChainStore, Broker, RocksStore, Foundations, SequenceTheorems

Pieces == Blocks \X (1 .. RecordCells)

LEMMA Sizes ==
    /\ LenCells \in Nat /\ BodyCells \in Nat /\ RecordCells \in Nat
    /\ LenCells >= 1 /\ BodyCells >= 1 /\ RecordCells = LenCells + BodyCells
  BY CellAssumption DEF RecordCells

-----------------------------------------------------------------------------
(* The read loop. *)

Whole(f, p) ==
    /\ p + RecordCells <= Len(f)
    /\ \E b \in Blocks : SubSeq(f, p + 1, p + RecordCells) = Record(b)

Ended == [ok |-> TRUE, blocks |-> << >>]
Torn  == [ok |-> FALSE, blocks |-> << >>]
Before(b, r) == [ok |-> r.ok, blocks |-> <<b>> \o r.blocks]

(* One turn of the loop at position p, when R is what it finds further on. *)
Turn(R, f, p) ==
    IF Len(f) - p < LenCells THEN Ended
    ELSE IF Whole(f, p) THEN Before(f[p + 1][1], R[p + RecordCells])
    ELSE Torn

Reading(R, f, D) == R = [p \in D |-> Turn(R, f, p)]
ReadLoop(f) == CHOOSE R : Reading(R, f, 0 .. Len(f))

LEMMA ReadDef ==
    ASSUME NEW f
    PROVE  read_all_from_disk(f) = ReadLoop(f)[0]
  BY Zenon DEF read_all_from_disk, ReadLoop, Reading, Turn, Before, Ended, Torn, Whole

(* The loop exists: over the last n positions for every n, hence over all. *)
LEMMA ReadUnfolds ==
    ASSUME NEW f, Len(f) \in Nat
    PROVE  \A p \in 0 .. Len(f) : ReadLoop(f)[p] = Turn(ReadLoop(f), f, p)
  <1> DEFINE L == Len(f)
             D(n) == {p \in 0 .. L : p + n > L}
             N == {n \in Nat : \E R : Reading(R, f, D(n))}
  <1>1. 0 \in N
    <2> DEFINE R == [p \in {} |-> Turn(<< >>, f, p)]
    <2>1. D(0) = {}
      OBVIOUS
    <2>2. Reading(R, f, {})
      BY DEF Reading
    <2> QED BY <2>1, <2>2
  <1>2. ASSUME NEW n \in Nat, n \in N PROVE n + 1 \in N
    <2>1. PICK R : Reading(R, f, D(n))
      BY <1>2
    <2> DEFINE Q == [p \in D(n + 1) |-> Turn(R, f, p)]
    <2>2. \A p \in D(n) : p \in D(n + 1) /\ R[p] = Turn(R, f, p)
      BY <2>1 DEF Reading
    <2>3. \A p \in D(n) : Q[p] = R[p]
      BY <2>2
    <2>4. \A p \in D(n + 1) : Whole(f, p) => p + RecordCells \in D(n)
      BY Sizes DEF Whole
    <2>5. ASSUME NEW p \in D(n + 1) PROVE Q[p] = Turn(Q, f, p)
      <3>1. Q[p] = Turn(R, f, p)
        OBVIOUS
      <3>2. Whole(f, p) => Q[p + RecordCells] = R[p + RecordCells]
        BY <2>3, <2>4
      <3> HIDE DEF Q
      <3> QED BY <3>1, <3>2 DEF Turn
    <2>6. Q = [p \in D(n + 1) |-> Turn(Q, f, p)]
      BY <2>5
    <2>7. Reading(Q, f, D(n + 1))
      BY <2>6 DEF Reading
    <2>8. \E X : Reading(X, f, D(n + 1))
      BY <2>7
    <2> HIDE DEF D
    <2> QED BY <2>8
  <1>3. L + 1 \in N
    <2> HIDE DEF N
    <2> QED BY <1>1, <1>2, NatSetInduction
  <1>4. D(L + 1) = 0 .. L
    OBVIOUS
  <1>5. Reading(ReadLoop(f), f, 0 .. L)
    BY <1>3, <1>4 DEF ReadLoop
  <1> QED BY <1>5 DEF Reading

-----------------------------------------------------------------------------
(* Files that begin with whole records. *)

(* f begins with the records of bs, and at[j] cells of it are the first j of them. *)
Parse(f, bs, at) ==
    /\ f \in Seq(Pieces) /\ bs \in Seq(Blocks)
    /\ at \in [0 .. Len(bs) -> Nat] /\ at[0] = 0 /\ at[Len(bs)] <= Len(f)
    /\ \A j \in 1 .. Len(bs) : at[j] = at[j - 1] + RecordCells
    /\ \A i, j \in 0 .. Len(bs) : i <= j => at[i] <= at[j]
    /\ \A j \in 1 .. Len(bs) : \A k \in 1 .. RecordCells : f[at[j - 1] + k] = <<bs[j], k>>

(* Where the whole records end, and how much follows. *)
End(bs, at) == at[Len(bs)]
Rest(f, bs, at) == Len(f) - at[Len(bs)]

(* The cells at base are not the beginning of one record. *)
Mixed(f, base) == \E k \in 1 .. RecordCells : base + k <= Len(f) /\ f[base + k][2] # k

LEMMA RecordCell ==
    ASSUME NEW b
    PROVE  /\ DOMAIN Record(b) = 1 .. RecordCells
           /\ \A k \in 1 .. RecordCells : Record(b)[k] = <<b, k>>
  BY DEF Record

LEMMA RecordIsSeq ==
    ASSUME NEW b \in Blocks
    PROVE  Record(b) \in Seq(Pieces) /\ Len(Record(b)) = RecordCells
  <1>1. \A k \in 1 .. RecordCells : <<b, k>> \in Pieces
    BY DEF Pieces
  <1>2. Record(b) \in [1 .. RecordCells -> Pieces]
    BY <1>1 DEF Record
  <1> QED BY <1>2, Sizes, SeqDef, LenProperties

LEMMA WholeRecord ==
    ASSUME NEW f \in Seq(Pieces), NEW p \in Nat, p + RecordCells <= Len(f), NEW b \in Blocks,
           \A k \in 1 .. RecordCells : f[p + k] = <<b, k>>
    PROVE  Whole(f, p) /\ f[p + 1][1] = b
  <1> DEFINE s == SubSeq(f, p + 1, p + RecordCells)
  <1>1. s \in Seq(Pieces) /\ Len(s) = RecordCells /\ \A k \in 1 .. RecordCells : s[k] = f[p + k]
    BY Sizes, SubSeqProperties
  <1>2. \A k \in 1 .. RecordCells : s[k] = Record(b)[k]
    BY <1>1, RecordCell
  <1>3. s = Record(b)
    BY <1>1, <1>2, RecordIsSeq, SeqEqual
  <1>4. f[p + 1] = <<b, 1>>
    <2>1. 1 \in 1 .. RecordCells
      BY Sizes
    <2> QED BY <2>1
  <1>5. f[p + 1][1] = b
    BY <1>4
  <1> HIDE DEF s
  <1>6. \E c \in Blocks : s = Record(c)
    BY <1>3
  <1> QED BY <1>5, <1>6 DEF Whole, s

LEMMA NotWhole ==
    ASSUME NEW f \in Seq(Pieces), NEW p \in Nat, p + RecordCells > Len(f) \/ Mixed(f, p)
    PROVE  ~ Whole(f, p)
  <1> SUFFICES ASSUME Whole(f, p) PROVE FALSE
    OBVIOUS
  <1>1. p + RecordCells <= Len(f) /\ Len(f) \in Nat
    BY LenProperties DEF Whole
  <1>2. PICK k \in 1 .. RecordCells : f[p + k][2] # k
    BY <1>1, Sizes DEF Mixed
  <1>3. PICK b \in Blocks : SubSeq(f, p + 1, p + RecordCells) = Record(b)
    BY DEF Whole
  <1>4. SubSeq(f, p + 1, p + RecordCells)[k] = f[p + k]
    BY <1>1, Sizes, SubSeqProperties
  <1>5. f[p + k] = <<b, k>>
    BY <1>3, <1>4, RecordCell
  <1> QED BY <1>2, <1>5

LEMMA BeforeRead ==
    /\ \A b, s : Before(b, [ok |-> TRUE, blocks |-> s]) = [ok |-> TRUE, blocks |-> <<b>> \o s]
    /\ \A b, r : ~ r.ok => ~ Before(b, r).ok
  <1>1. \A b, s : Before(b, [ok |-> TRUE, blocks |-> s]) = [ok |-> TRUE, blocks |-> <<b>> \o s]
    BY Zenon DEF Before
  <1>2. \A b, r : ~ r.ok => ~ Before(b, r).ok
    BY Zenon DEF Before
  <1> QED BY <1>1, <1>2

LEMMA TurnsOfParse ==
    ASSUME NEW f, NEW bs, NEW at, Parse(f, bs, at)
    PROVE  \A j \in 1 .. Len(bs) :
               ReadLoop(f)[at[j - 1]] = Before(bs[j], ReadLoop(f)[at[j]])
  <1> DEFINE R == ReadLoop(f)
  <1>1. /\ Len(f) \in Nat /\ Len(bs) \in Nat
    BY LenProperties DEF Parse
  <1>2. \A p \in 0 .. Len(f) : R[p] = Turn(R, f, p)
    BY <1>1, ReadUnfolds
  <1> HIDE DEF R
  <1> SUFFICES ASSUME NEW j \in 1 .. Len(bs) PROVE R[at[j - 1]] = Before(bs[j], R[at[j]])
    BY DEF R
  <1> DEFINE p == at[j - 1]
  <1>3. /\ j - 1 \in 0 .. Len(bs) /\ j \in 0 .. Len(bs) /\ Len(bs) \in 0 .. Len(bs) /\ j <= Len(bs)
        /\ bs[j] \in Blocks
    BY <1>1 DEF Parse
  <1>4. /\ p \in Nat /\ at[j] = p + RecordCells /\ at[j] <= at[Len(bs)] /\ at[Len(bs)] <= Len(f)
        /\ at[Len(bs)] \in Nat /\ at[j] \in Nat
    BY <1>3 DEF Parse
  <1>5. \A k \in 1 .. RecordCells : f[p + k] = <<bs[j], k>>
    BY DEF Parse
  <1>6. f \in Seq(Pieces)
    BY DEF Parse
  <1> HIDE DEF p
  <1>7. p + RecordCells <= Len(f)
    BY <1>1, <1>4, Sizes
  <1>8. Whole(f, p) /\ f[p + 1][1] = bs[j]
    BY <1>3, <1>4, <1>5, <1>6, <1>7, WholeRecord
  <1>9. p \in 0 .. Len(f) /\ ~ (Len(f) - p < LenCells)
    BY <1>1, <1>4, <1>7, Sizes
  <1>10. R[p] = Before(bs[j], R[p + RecordCells])
    BY <1>2, <1>8, <1>9 DEF Turn
  <1> QED BY <1>4, <1>10 DEF p

(* The records of bs, and then the beginning of a prefix at most: the reading yields bs. *)
LEMMA ReadsClean ==
    ASSUME NEW f, NEW bs, NEW at, Parse(f, bs, at), Rest(f, bs, at) < LenCells
    PROVE  read_all_from_disk(f).ok /\ read_all_from_disk(f).blocks = bs
  <1> DEFINE R == ReadLoop(f)
             n == Len(bs)
             From(j) == SubSeq(bs, j + 1, n)
             S == {i \in Nat : i <= n => R[at[n - i]] = [ok |-> TRUE, blocks |-> From(n - i)]}
  <1>1. Len(f) \in Nat /\ n \in Nat /\ bs \in Seq(Blocks) /\ n \in 0 .. n
    BY LenProperties DEF Parse
  <1>2. at[n] \in Nat /\ at[n] <= Len(f) /\ at[0] = 0
    BY <1>1 DEF Parse
  <1>3. \A j \in 1 .. n : R[at[j - 1]] = Before(bs[j], R[at[j]])
    BY TurnsOfParse
  <1>4. R[at[n]] = Ended
    <2>1. at[n] \in 0 .. Len(f) /\ Len(f) - at[n] < LenCells
      BY <1>1, <1>2 DEF Rest
    <2> QED BY <1>1, <2>1, ReadUnfolds DEF Turn
  <1>5. 0 \in S
    <2>1. From(n) = << >>
      BY <1>1, SubSeqEmpty
    <2>2. n - 0 = n
      BY <1>1
    <2> HIDE DEF From, R, n
    <2> QED BY <1>4, <2>1, <2>2 DEF Ended
  <1>6. ASSUME NEW i \in Nat, i \in S PROVE i + 1 \in S
    <2> SUFFICES ASSUME i + 1 <= n
                 PROVE  R[at[n - (i + 1)]] = [ok |-> TRUE, blocks |-> From(n - (i + 1))]
      <3> HIDE DEF R, n, From
      <3> QED OBVIOUS
    <2> DEFINE j == n - i
    <2>1. j \in 1 .. n /\ n - (i + 1) = j - 1 /\ i <= n
      BY <1>1
    <2>2. R[at[j]] = [ok |-> TRUE, blocks |-> From(j)]
      BY <1>6, <2>1
    <2>3. R[at[j - 1]] = Before(bs[j], R[at[j]])
      BY <1>3, <2>1
    <2>4. From(j - 1) = <<bs[j]>> \o From(j)
      <3>1. j - 1 + 1 = j /\ j \in 1 .. n
        BY <2>1
      <3> HIDE DEF j
      <3> QED BY <1>1, <3>1, SubSeqRecursiveFirst
    <2> HIDE DEF From, R, n, j
    <2> QED BY <2>1, <2>2, <2>3, <2>4, BeforeRead
  <1>7. n \in S
    <2> HIDE DEF S
    <2> QED BY <1>1, <1>5, <1>6, NatSetInduction
  <1>8. R[at[0]] = [ok |-> TRUE, blocks |-> From(0)]
    <2>1. n - n = 0 /\ n <= n
      BY <1>1
    <2> HIDE DEF From, R, n
    <2> QED BY <1>7, <2>1
  <1>9. From(0) = bs
    BY <1>1, SubSeqFull
  <1>10. read_all_from_disk(f) = R[0]
    BY ReadDef
  <1> HIDE DEF From, R, n
  <1> QED BY <1>2, <1>8, <1>9, <1>10

(* At least a prefix follows, but no whole record: the reading fails. *)
LEMMA ReadsTorn ==
    ASSUME NEW f, NEW bs, NEW at, Parse(f, bs, at), Rest(f, bs, at) >= LenCells,
           Rest(f, bs, at) < RecordCells \/ Mixed(f, End(bs, at))
    PROVE  ~ read_all_from_disk(f).ok
  <1> DEFINE R == ReadLoop(f)
             n == Len(bs)
             S == {i \in Nat : i <= n => ~ R[at[n - i]].ok}
  <1>1. Len(f) \in Nat /\ n \in Nat /\ n \in 0 .. n /\ f \in Seq(Pieces)
    BY LenProperties DEF Parse
  <1>2. at[n] \in Nat /\ at[n] <= Len(f) /\ at[0] = 0
    BY <1>1 DEF Parse
  <1>3. \A j \in 1 .. n : R[at[j - 1]] = Before(bs[j], R[at[j]])
    BY TurnsOfParse
  <1>4. R[at[n]] = Torn
    <2>1. at[n] \in 0 .. Len(f) /\ ~ (Len(f) - at[n] < LenCells)
      BY <1>1, <1>2, Sizes DEF Rest
    <2>2. ~ Whole(f, at[n])
      <3>1. CASE Rest(f, bs, at) < RecordCells
        <4>1. at[n] + RecordCells > Len(f)
          BY <1>1, <1>2, <3>1, Sizes DEF Rest
        <4> QED BY <1>1, <1>2, <4>1, NotWhole
      <3>2. CASE Mixed(f, End(bs, at))
        BY <1>1, <1>2, <3>2, NotWhole DEF End
      <3> QED BY <3>1, <3>2
    <2> QED BY <1>1, <2>1, <2>2, ReadUnfolds DEF Turn
  <1>5. 0 \in S
    <2>1. n - 0 = n
      BY <1>1
    <2> HIDE DEF R, n
    <2> QED BY <1>4, <2>1 DEF Torn
  <1>6. ASSUME NEW i \in Nat, i \in S PROVE i + 1 \in S
    <2> SUFFICES ASSUME i + 1 <= n PROVE ~ R[at[n - (i + 1)]].ok
      <3> HIDE DEF R, n
      <3> QED OBVIOUS
    <2> DEFINE j == n - i
    <2>1. j \in 1 .. n /\ n - (i + 1) = j - 1 /\ i <= n
      BY <1>1
    <2>2. ~ R[at[j]].ok
      BY <1>6, <2>1
    <2>3. R[at[j - 1]] = Before(bs[j], R[at[j]])
      BY <1>3, <2>1
    <2> HIDE DEF R, n, j
    <2>4. ~ R[at[j - 1]].ok
      BY <2>2, <2>3, BeforeRead
    <2> QED BY <2>1, <2>4
  <1>7. n \in S
    <2> HIDE DEF S
    <2> QED BY <1>1, <1>5, <1>6, NatSetInduction
  <1>8. ~ R[at[0]].ok
    <2>1. n - n = 0 /\ n <= n
      BY <1>1
    <2> HIDE DEF R, n
    <2> QED BY <1>7, <2>1
  <1> QED BY <1>2, <1>8, ReadDef

-----------------------------------------------------------------------------
(* What the operations on the file do to its records. *)

Extends(g, f) ==
    /\ g \in Seq(Pieces) /\ Len(g) >= Len(f)
    /\ \A i \in 1 .. Len(f) : g[i] = f[i]

LEMMA ParsePlaces ==
    ASSUME NEW f, NEW bs, NEW at, Parse(f, bs, at)
    PROVE  /\ Len(f) \in Nat /\ Len(bs) \in Nat
           /\ \A j \in 0 .. Len(bs) : at[j] \in Nat /\ at[j] <= at[Len(bs)]
           /\ at[Len(bs)] \in Nat /\ at[Len(bs)] <= Len(f)
           /\ End(bs, at) = at[Len(bs)] /\ Rest(f, bs, at) = Len(f) - End(bs, at)
           /\ \A j \in 1 .. Len(bs) : /\ at[j - 1] \in Nat /\ at[j] = at[j - 1] + RecordCells
                                      /\ at[j] <= at[Len(bs)]
  <1>1. Len(f) \in Nat /\ Len(bs) \in Nat
    BY LenProperties DEF Parse
  <1>2. Len(bs) \in 0 .. Len(bs) /\ \A j \in 1 .. Len(bs) : j \in 0 .. Len(bs) /\ j - 1 \in 0 .. Len(bs)
    BY <1>1
  <1>3. \A j \in 0 .. Len(bs) : at[j] \in Nat /\ at[j] <= at[Len(bs)]
    BY <1>1, <1>2 DEF Parse
  <1> QED BY <1>1, <1>2, <1>3 DEF Parse, End, Rest

LEMMA ParseExtends ==
    ASSUME NEW f, NEW g, NEW bs, NEW at, Parse(f, bs, at), Extends(g, f)
    PROVE  Parse(g, bs, at) /\ (Mixed(f, End(bs, at)) => Mixed(g, End(bs, at)))
  <1>1. Len(g) \in Nat /\ Len(f) \in Nat /\ Len(g) >= Len(f)
    BY LenProperties DEF Extends, Parse
  <1>2. ASSUME NEW j \in 1 .. Len(bs), NEW k \in 1 .. RecordCells
        PROVE  g[at[j - 1] + k] = <<bs[j], k>>
    <2>1. at[j - 1] + k \in 1 .. Len(f)
      <3>1. /\ at[j - 1] \in Nat /\ at[j] = at[j - 1] + RecordCells /\ at[j] <= at[Len(bs)]
            /\ at[Len(bs)] <= Len(f) /\ at[Len(bs)] \in Nat
        BY ParsePlaces
      <3> QED BY <1>1, <3>1, Sizes
    <2>2. g[at[j - 1] + k] = f[at[j - 1] + k]
      BY <2>1 DEF Extends
    <2> QED BY <2>2 DEF Parse
  <1>3. Parse(g, bs, at)
    <2>1. at[Len(bs)] <= Len(g)
      BY <1>1, ParsePlaces
    <2> QED BY <1>2, <2>1 DEF Parse, Extends
  <1>4. Mixed(f, End(bs, at)) => Mixed(g, End(bs, at))
    <2> SUFFICES ASSUME Mixed(f, End(bs, at)) PROVE Mixed(g, End(bs, at))
      OBVIOUS
    <2> DEFINE e == End(bs, at)
    <2>1. PICK k \in 1 .. RecordCells : e + k <= Len(f) /\ f[e + k][2] # k
      BY DEF Mixed
    <2>2. e \in Nat
      BY ParsePlaces
    <2> HIDE DEF e
    <2>3. e + k \in 1 .. Len(f) /\ e + k <= Len(g)
      BY <1>1, <2>1, <2>2, Sizes
    <2>4. g[e + k] = f[e + k]
      BY <2>3 DEF Extends
    <2> QED BY <2>1, <2>3, <2>4 DEF Mixed, e
  <1> QED BY <1>3, <1>4

(* A whole record of b right after the others. *)
LEMMA ParseGrows ==
    ASSUME NEW f, NEW bs, NEW at, Parse(f, bs, at), NEW b \in Blocks,
           Rest(f, bs, at) >= RecordCells,
           \A k \in 1 .. RecordCells : f[End(bs, at) + k] = <<b, k>>
    PROVE  \E ats : Parse(f, Append(bs, b), ats) /\ End(Append(bs, b), ats) = End(bs, at) + RecordCells
  <1> DEFINE n == Len(bs)
             cs == Append(bs, b)
             e == End(bs, at)
             ats == [j \in 0 .. n + 1 |-> IF j <= n THEN at[j] ELSE e + RecordCells]
  <1>1. /\ n \in Nat /\ Len(f) \in Nat /\ e \in Nat /\ e = at[n] /\ Len(f) - e >= RecordCells
        /\ \A j \in 0 .. n : at[j] \in Nat /\ at[j] <= e
    BY ParsePlaces
  <1>2. cs \in Seq(Blocks) /\ Len(cs) = n + 1 /\ cs[n + 1] = b /\ \A j \in 1 .. n : cs[j] = bs[j]
    BY AppendProperties DEF Parse
  <1>3. /\ at[0] = 0 /\ \A j \in 1 .. n : at[j] = at[j - 1] + RecordCells
        /\ \A i, j \in 0 .. n : i <= j => at[i] <= at[j]
        /\ \A j \in 1 .. n : \A k \in 1 .. RecordCells : f[at[j - 1] + k] = <<bs[j], k>>
    BY DEF Parse
  <1> HIDE DEF n, cs, e
  <1>4. /\ ats \in [0 .. n + 1 -> Nat] /\ ats[0] = 0 /\ ats[n + 1] = e + RecordCells
        /\ \A j \in 0 .. n : ats[j] = at[j]
    BY <1>1, <1>3, Sizes
  <1> HIDE DEF ats
  <1>5. ats[n + 1] <= Len(f)
    BY <1>1, <1>4, Sizes
  <1>6. ASSUME NEW j \in 1 .. n + 1
        PROVE  /\ ats[j] = ats[j - 1] + RecordCells
               /\ \A k \in 1 .. RecordCells : f[ats[j - 1] + k] = <<cs[j], k>>
    <2>1. CASE j \in 1 .. n
      <3>1. j - 1 \in 0 .. n /\ j \in 0 .. n
        BY <1>1, <2>1
      <3> QED BY <1>2, <1>3, <1>4, <2>1, <3>1
    <2>2. CASE j = n + 1
      <3>1. j - 1 = n /\ n \in 0 .. n
        BY <1>1, <2>2
      <3> QED BY <1>1, <1>2, <1>4, <2>2, <3>1 DEF e
    <2>3. j \in 1 .. n \/ j = n + 1
      BY <1>1
    <2> QED BY <2>1, <2>2, <2>3
  <1>7. ASSUME NEW i \in 0 .. n + 1, NEW j \in 0 .. n + 1, i <= j PROVE ats[i] <= ats[j]
    <2>1. CASE j \in 0 .. n
      <3>1. i \in 0 .. n
        BY <1>1, <1>7, <2>1
      <3> QED BY <1>3, <1>4, <1>7, <2>1, <3>1
    <2>2. CASE j = n + 1 /\ i \in 0 .. n
      BY <1>1, <1>4, <2>2, Sizes
    <2>3. CASE j = n + 1 /\ i = n + 1
      BY <1>1, <1>4, <2>3, Sizes
    <2> QED BY <1>1, <2>1, <2>2, <2>3
  <1>8. Parse(f, cs, ats)
    BY <1>2, <1>4, <1>5, <1>6, <1>7 DEF Parse
  <1>9. End(cs, ats) = e + RecordCells
    BY <1>2, <1>4 DEF End
  <1> QED BY <1>8, <1>9 DEF cs, e

(* A file cut among its whole records keeps some of them and less than one record more. *)
LEMMA ParseCut ==
    ASSUME NEW f, NEW bs, NEW at, Parse(f, bs, at), NEW n \in Nat, n < End(bs, at)
    PROVE  \E cs, ats : /\ Parse(SubSeq(f, 1, n), cs, ats)
                        /\ Rest(SubSeq(f, 1, n), cs, ats) < RecordCells
  <1> DEFINE N == Len(bs)
             Found(k) == \E q \in 0 .. N : q < k /\ at[q] <= n /\ n < at[q] + RecordCells
             S == {k \in Nat : k <= N => at[k] <= n \/ Found(k)}
             g == SubSeq(f, 1, n)
  <1>1. /\ N \in Nat /\ Len(f) \in Nat /\ at[N] \in Nat /\ n < at[N] /\ at[N] <= Len(f)
        /\ \A j \in 0 .. N : at[j] \in Nat /\ at[j] <= at[N]
    BY ParsePlaces
  <1>2. /\ at[0] = 0 /\ \A j \in 1 .. N : at[j] = at[j - 1] + RecordCells
        /\ \A i, j \in 0 .. N : i <= j => at[i] <= at[j]
        /\ \A j \in 1 .. N : \A k \in 1 .. RecordCells : f[at[j - 1] + k] = <<bs[j], k>>
        /\ f \in Seq(Pieces) /\ bs \in Seq(Blocks)
    BY DEF Parse
  <1>3. PICK q \in 0 .. N : at[q] <= n /\ n < at[q] + RecordCells
    <2>1. 0 \in S
      BY <1>2
    <2>2. ASSUME NEW k \in Nat, k \in S PROVE k + 1 \in S
      <3> SUFFICES ASSUME k + 1 <= N PROVE at[k + 1] <= n \/ Found(k + 1)
        OBVIOUS
      <3>1. k \in 0 .. N /\ k + 1 \in 1 .. N /\ k + 1 \in 0 .. N /\ k + 1 - 1 = k /\ k <= N
        BY <1>1
      <3>2. CASE Found(k)
        <4>1. \A x \in 0 .. N : x < k => x < k + 1
          OBVIOUS
        <4> QED BY <3>2, <4>1
      <3>3. CASE at[k] <= n /\ at[k + 1] <= n
        BY <3>3
      <3>4. CASE at[k] <= n /\ ~ (at[k + 1] <= n)
        <4>1. at[k + 1] = at[k] + RecordCells /\ at[k] \in Nat
          BY <1>1, <1>2, <3>1
        <4>2. n < at[k] + RecordCells /\ k < k + 1
          BY <3>4, <4>1, Sizes
        <4> QED BY <3>1, <3>4, <4>2
      <3> QED BY <2>2, <3>1, <3>2, <3>3, <3>4
    <2>3. N \in S
      <3> HIDE DEF S
      <3> QED BY <1>1, <2>1, <2>2, NatSetInduction
    <2>4. Found(N)
      BY <1>1, <2>3
    <2> QED BY <2>4
  <1> DEFINE cs == SubSeq(bs, 1, q)
             ats == [j \in 0 .. q |-> at[j]]
  <1>4. /\ g \in Seq(Pieces) /\ Len(g) = n /\ \A i \in 1 .. n : g[i] = f[i]
    BY <1>1, <1>2, SubSeqProperties
  <1>5. cs \in Seq(Blocks) /\ Len(cs) = q /\ \A j \in 1 .. q : cs[j] = bs[j]
    BY <1>1, <1>2, SubSeqProperties
  <1>6. q \in Nat /\ q <= N /\ \A j \in 0 .. q : j \in 0 .. N /\ ats[j] = at[j]
    BY <1>1
  <1> HIDE DEF N, g, cs, ats
  <1>7. ats \in [0 .. q -> Nat]
    BY <1>1, <1>6 DEF ats
  <1>8. ASSUME NEW j \in 1 .. q
        PROVE  /\ ats[j] = ats[j - 1] + RecordCells
               /\ \A k \in 1 .. RecordCells : g[ats[j - 1] + k] = <<cs[j], k>>
    <2>1. j \in 0 .. q /\ j - 1 \in 0 .. q /\ j \in 1 .. N /\ q \in 0 .. N /\ j <= q /\ j \in 0 .. N
      BY <1>1, <1>6
    <2>2. ats[j] = at[j] /\ ats[j - 1] = at[j - 1] /\ at[j] = at[j - 1] + RecordCells
      BY <1>2, <1>6, <2>1
    <2>3. at[j - 1] \in Nat /\ at[j] <= at[q] /\ at[q] \in Nat
      BY <1>1, <1>2, <1>6, <2>1
    <2>4. ASSUME NEW k \in 1 .. RecordCells PROVE g[at[j - 1] + k] = <<cs[j], k>>
      <3>1. at[j - 1] + k \in 1 .. n
        BY <1>3, <2>2, <2>3, Sizes
      <3>2. f[at[j - 1] + k] = <<bs[j], k>>
        BY <1>2, <2>1
      <3> QED BY <1>4, <1>5, <3>1, <3>2
    <2> QED BY <2>2, <2>4
  <1>9. \A i, j \in 0 .. q : i <= j => ats[i] <= ats[j]
    BY <1>2, <1>6
  <1>10. ats[q] = at[q] /\ ats[0] = 0 /\ at[q] \in Nat
    <2>1. 0 \in 0 .. q /\ q \in 0 .. q
      BY <1>6
    <2> QED BY <1>1, <1>2, <1>6, <2>1
  <1>11. Parse(g, cs, ats)
    BY <1>3, <1>4, <1>5, <1>7, <1>8, <1>9, <1>10 DEF Parse
  <1>12. Rest(g, cs, ats) < RecordCells
    BY <1>3, <1>4, <1>5, <1>10, Sizes DEF Rest
  <1> QED BY <1>11, <1>12 DEF g

-----------------------------------------------------------------------------
(* Types. *)

Writings == [block : Blocks, cells : 0 .. RecordCells]

LEMMA WritingBlock ==
    ASSUME writing \in Writings
    PROVE  writing.block \in Blocks /\ writing.cells \in 0 .. RecordCells
  BY DEF Writings

(* n more cells of the record extend the file by those cells. *)
LEMMA WrittenCells ==
    ASSUME StoreTypeOK, writing \in Writings, NEW n \in Nat, writing.cells + n <= RecordCells
    PROVE  /\ Extends(Written(n), file) /\ Len(Written(n)) = Len(file) + n
           /\ \A k \in 1 .. n : Written(n)[Len(file) + k] = <<writing.block, writing.cells + k>>
  <1> DEFINE r == Record(writing.block)
             c == writing.cells
             t == SubSeq(r, c + 1, c + n)
  <1>1. c \in 0 .. RecordCells /\ r \in Seq(Pieces) /\ Len(r) = RecordCells
    BY WritingBlock, RecordIsSeq
  <1>2. file \in Seq(Pieces) /\ Len(file) \in Nat
    BY LenProperties DEF StoreTypeOK, Pieces
  <1>3. \A k \in 1 .. RecordCells : r[k] = <<writing.block, k>>
    BY RecordCell
  <1>4. Written(n) = file \o t
    BY DEF Written
  <1>5. c + n <= RecordCells
    OBVIOUS
  <1> HIDE DEF r, c
  <1>6. t \in Seq(Pieces) /\ Len(t) = n /\ \A k \in 1 .. n : t[k] = r[c + k]
    BY <1>1, <1>5, Sizes, SubSeqProperties
  <1>7. \A k \in 1 .. n : c + k \in 1 .. RecordCells
    BY <1>1, <1>5, Sizes
  <1> HIDE DEF t
  <1>8. /\ file \o t \in Seq(Pieces) /\ Len(file \o t) = Len(file) + n
        /\ \A i \in 1 .. Len(file) : (file \o t)[i] = file[i]
        /\ \A k \in 1 .. n : (file \o t)[Len(file) + k] = t[k]
    <2> DEFINE w == file \o t
    <2>1. /\ w \in Seq(Pieces) /\ Len(w) = Len(file) + Len(t)
          /\ \A i \in 1 .. Len(file) + Len(t) :
                 w[i] = IF i <= Len(file) THEN file[i] ELSE t[i - Len(file)]
      BY <1>2, <1>6, ConcatProperties
    <2> HIDE DEF w
    <2>2. \A i \in 1 .. Len(file) : w[i] = file[i]
      BY <1>2, <1>6, <2>1
    <2>3. ASSUME NEW k \in 1 .. n PROVE w[Len(file) + k] = t[k]
      <3>1. /\ Len(file) + k \in 1 .. Len(file) + Len(t) /\ ~ (Len(file) + k <= Len(file))
            /\ Len(file) + k - Len(file) = k
        BY <1>2, <1>6
      <3> QED BY <2>1, <3>1
    <2> QED BY <1>6, <2>1, <2>2, <2>3 DEF w
  <1>9. Len(file) + n >= Len(file)
    BY <1>2
  <1> QED BY <1>3, <1>4, <1>6, <1>7, <1>8, <1>9 DEF Extends, c

(* The prefix is written before the body, and nothing is written while the node is down. *)
Portions ==
    /\ up # "running" => writing = None
    /\ writing # None => writing.cells \in {0, LenCells, RecordCells}

StoreType == StoreTypeOK /\ Portions

LEMMA PortionFits ==
    ASSUME StoreType, writing # None, writing.cells < RecordCells
    PROVE  /\ writing \in Writings
           /\ \/ writing.cells = 0 /\ PortionCells = LenCells
              \/ writing.cells = LenCells /\ PortionCells = BodyCells
           /\ PortionCells \in Nat /\ writing.cells + PortionCells \in {LenCells, RecordCells}
  <1>1. writing \in Writings
    BY DEF StoreType, StoreTypeOK, Writings
  <1>2. writing.cells \in {0, LenCells}
    BY Sizes DEF StoreType, Portions
  <1>3. \/ writing.cells = 0 /\ PortionCells = LenCells
        \/ writing.cells = LenCells /\ PortionCells = BodyCells
    BY <1>2, Sizes DEF PortionCells
  <1> QED BY <1>1, <1>3, Sizes


-----------------------------------------------------------------------------
(* The invariant. *)

(* Whatever is appended, no reading succeeds. *)
Broken(bs, at) == Rest(file, bs, at) >= LenCells /\ Mixed(file, End(bs, at))

InFlight == up = "running" /\ writing # None /\ writing.cells > 0

(* The whole records are the blocks that the cache counts, and hold every acknowledged block;
   what follows them is what append is writing, or less than a record. *)
Sound(bs, at) ==
    /\ \A p \in acked : p[1] \in 1 .. Len(bs) /\ bs[p[1]] = p[2]
    /\ up = "running" => count = Len(bs) /\ tip = Last(bs)
    /\ InFlight => /\ Rest(file, bs, at) = writing.cells
                   /\ \A k \in 1 .. writing.cells : file[End(bs, at) + k] = <<writing.block, k>>
    /\ ~ InFlight => Rest(file, bs, at) < RecordCells

Holds(bs, at) == Parse(file, bs, at) /\ (Broken(bs, at) \/ Sound(bs, at))

LogInv == StoreType /\ \E bs, at : Holds(bs, at)

LEMMA LogInit == StoreInit => LogInv
  <1> SUFFICES ASSUME StoreInit PROVE LogInv
    OBVIOUS
  <1> DEFINE at == [j \in 0 .. 0 |-> 0]
  <1>1. StoreType
    <2>1. << >> \in Seq(Blocks \X (1 .. RecordCells)) /\ Len(<< >>) = 0
      BY EmptySeq
    <2> QED BY <2>1 DEF StoreInit, StoreType, StoreTypeOK, Portions
  <1>2. Parse(<< >>, << >>, at)
    <2>1. << >> \in Seq(Pieces) /\ << >> \in Seq(Blocks) /\ Len(<< >>) = 0
      BY EmptySeq
    <2> QED BY <2>1 DEF Parse
  <1>3. Sound(<< >>, at)
    <2>1. Len(<< >>) = 0 /\ at[0] = 0
      BY EmptySeq
    <2>2. Rest(file, << >>, at) < RecordCells /\ ~ InFlight
      BY <2>1, Sizes DEF Rest, StoreInit, InFlight
    <2> QED BY <2>2 DEF Sound, StoreInit
  <1>4. Holds(<< >>, at)
    BY <1>2, <1>3 DEF Holds, StoreInit
  <1> QED BY <1>1, <1>4 DEF LogInv

LEMMA TypeStep ==
    ASSUME StoreType, [StoreNext]_store, ~ Open
    PROVE  StoreType'
  <1>1. file \in Seq(Pieces) /\ Len(file) \in Nat /\ synced \in 0 .. Len(file)
    BY LenProperties DEF StoreType, StoreTypeOK, Pieces
  <1>2. CASE OpenFails
    BY <1>2 DEF OpenFails, StoreType, StoreTypeOK, Portions
  <1>3. ASSUME NEW b \in Blocks, BeginAppend(b) PROVE StoreType'
    BY <1>3, Sizes DEF BeginAppend, StoreType, StoreTypeOK, Portions
  <1>4. ASSUME NEW n \in Nat, writing \in Writings, writing.cells + n <= RecordCells
        PROVE  /\ Written(n) \in Seq(Blocks \X (1 .. RecordCells))
               /\ synced \in 0 .. Len(Written(n))
    <2>1. Extends(Written(n), file) /\ Len(Written(n)) = Len(file) + n
      BY <1>4, WrittenCells DEF StoreType
    <2> QED BY <1>1, <2>1 DEF Extends, Pieces
  <1>5. CASE WriteAll
    <2>1. /\ writing # None /\ writing.cells < RecordCells /\ file' = Written(PortionCells)
          /\ writing' = [writing EXCEPT !.cells = @ + PortionCells]
          /\ UNCHANGED <<synced, up, count, tip, acked>> /\ up = "running"
      BY <1>5 DEF WriteAll
    <2>2. /\ writing \in Writings /\ PortionCells \in Nat
          /\ writing.cells + PortionCells \in {LenCells, RecordCells}
      BY <2>1, PortionFits
    <2>3. writing.cells + PortionCells <= RecordCells /\ writing.cells + PortionCells \in 0 .. RecordCells
      BY <2>2, Sizes
    <2>4. file' \in Seq(Blocks \X (1 .. RecordCells)) /\ synced' \in 0 .. Len(file')
      BY <1>4, <2>1, <2>2, <2>3
    <2>5. writing' \in Writings /\ writing'.cells = writing.cells + PortionCells
      BY <2>1, <2>2, <2>3 DEF Writings
    <2> QED BY <2>1, <2>2, <2>4, <2>5 DEF StoreType, StoreTypeOK, Portions, Writings
  <1>6. ASSUME NEW n \in 0 .. RecordCells, WriteFails(n) PROVE StoreType'
    <2>1. /\ writing # None /\ writing.cells < RecordCells /\ file' = Written(n) /\ writing' = None
          /\ UNCHANGED <<synced, up, count, tip, acked>> /\ n < PortionCells
      BY <1>6 DEF WriteFails
    <2>2. /\ writing \in Writings /\ PortionCells \in Nat
          /\ writing.cells + PortionCells \in {LenCells, RecordCells}
      BY <2>1, PortionFits
    <2>3. n \in Nat /\ writing.cells + n <= RecordCells
      BY <2>1, <2>2, Sizes, WritingBlock
    <2>4. file' \in Seq(Blocks \X (1 .. RecordCells)) /\ synced' \in 0 .. Len(file')
      BY <1>4, <2>1, <2>2, <2>3
    <2> QED BY <2>1, <2>4 DEF StoreType, StoreTypeOK, Portions
  <1>7. CASE FinishAppend
    <2>1. writing \in Writings /\ writing # None
      BY <1>7 DEF FinishAppend, StoreType, StoreTypeOK, Writings
    <2>2. writing.block \in Blocks
      BY <2>1, WritingBlock
    <2>3. count \in Nat /\ count + 1 \in Nat \ {0}
      BY DEF StoreType, StoreTypeOK
    <2> QED BY <1>7, <2>2, <2>3 DEF FinishAppend, StoreType, StoreTypeOK, Portions
  <1>8. CASE WriteBack
    <2>1. synced + 1 \in 0 .. Len(file)
      BY <1>1, <1>8 DEF WriteBack
    <2> QED BY <1>8, <2>1 DEF WriteBack, StoreType, StoreTypeOK, Portions
  <1>9. CASE Kill
    BY <1>9 DEF Kill, Down, StoreType, StoreTypeOK, Portions
  <1>10. ASSUME NEW n \in 0 .. Len(file), Outage(n) PROVE StoreType'
    <2>1. SubSeq(file, 1, n) \in Seq(Pieces) /\ Len(SubSeq(file, 1, n)) = n
      BY <1>1, SubSeqProperties
    <2>2. synced' \in 0 .. n
      BY <1>1, <1>10 DEF Outage
    <2> QED BY <1>10, <2>1, <2>2 DEF Outage, Down, StoreType, StoreTypeOK, Portions, Pieces
  <1>11. CASE UNCHANGED store
    BY <1>11 DEF store, StoreType, StoreTypeOK, Portions
  <1> QED BY <1>2, <1>3, <1>5, <1>6, <1>7, <1>8, <1>9, <1>10, <1>11 DEF StoreNext

(* Steps that leave the log broken: every one but a power loss. *)
LEMMA BrokenStays ==
    ASSUME NEW bs, NEW at, Parse(file, bs, at), Broken(bs, at), Extends(file', file)
    PROVE  Holds(bs, at)'
  <1>1. Parse(file', bs, at) /\ Mixed(file', End(bs, at))
    BY ParseExtends DEF Broken
  <1>2. Rest(file', bs, at) >= LenCells
    <2>1. /\ Rest(file', bs, at) = Len(file') - End(bs, at) /\ Rest(file, bs, at) = Len(file) - End(bs, at)
          /\ Len(file) \in Nat /\ Len(file') \in Nat /\ End(bs, at) \in Nat
      BY <1>1, ParsePlaces
    <2>2. Len(file') >= Len(file) /\ Rest(file, bs, at) >= LenCells
      BY DEF Extends, Broken
    <2> QED BY <2>1, <2>2, Sizes
  <1> QED BY <1>1, <1>2 DEF Holds, Broken, Parse

LEMMA ExtendsSame ==
    ASSUME StoreTypeOK, UNCHANGED file
    PROVE  Extends(file', file)
  <1>1. file \in Seq(Pieces) /\ Len(file) \in Nat
    BY LenProperties DEF StoreTypeOK, Pieces
  <1> QED BY <1>1 DEF Extends

(* n cells after a rest that belongs to another record. *)
LEMMA WriteMixes ==
    ASSUME StoreType, writing \in Writings, writing.cells = 0, NEW n \in 1 .. RecordCells,
           NEW bs, NEW at, Parse(file, bs, at), Rest(file, bs, at) \in 1 .. RecordCells - 1,
           file' = Written(n)
    PROVE  Parse(file', bs, at) /\ Mixed(file', End(bs, at)) /\ Rest(file', bs, at) = Rest(file, bs, at) + n
  <1> DEFINE m == Rest(file, bs, at)
             e == End(bs, at)
  <1>1. n \in Nat /\ writing.cells + n <= RecordCells
    BY Sizes
  <1>2. Extends(file', file) /\ Len(file') = Len(file) + n
    BY <1>1, WrittenCells DEF StoreType
  <1>3. 1 \in 1 .. n
    BY Sizes
  <1>4. file'[Len(file) + 1] = <<writing.block, writing.cells + 1>>
    BY <1>1, <1>3, WrittenCells DEF StoreType
  <1>5. Parse(file', bs, at)
    BY <1>2, ParseExtends
  <1>6. /\ e \in Nat /\ Len(file) \in Nat /\ m = Len(file) - e /\ Rest(file', bs, at) = Len(file') - e
    BY <1>5, ParsePlaces
  <1> HIDE DEF m, e
  <1>7. m \in 1 .. RecordCells - 1
    BY DEF m
  <1>8. /\ e + (m + 1) = Len(file) + 1 /\ m + 1 \in 1 .. RecordCells /\ m + 1 # 1
        /\ e + (m + 1) <= Len(file')
    BY <1>2, <1>3, <1>6, <1>7, Sizes
  <1>9. file'[e + (m + 1)][2] = 1
    BY <1>4, <1>8
  <1>10. Mixed(file', e)
    BY <1>8, <1>9 DEF Mixed
  <1>11. Rest(file', bs, at) = m + n
    BY <1>2, <1>6, <1>1
  <1> QED BY <1>5, <1>10, <1>11 DEF m, e

LEMMA HoldsOpen ==
    ASSUME StoreType, NEW bs, NEW at, Holds(bs, at), Open
    PROVE  StoreType' /\ Holds(bs, at)'
  <1>1. /\ up = "down" /\ read_all_from_disk(file).ok /\ up' = "running"
        /\ count' = Len(read_all_from_disk(file).blocks)
        /\ tip' = Last(read_all_from_disk(file).blocks)
        /\ UNCHANGED <<file, synced, writing, acked>>
    BY DEF Open
  <1>2. writing = None /\ ~ InFlight /\ ~ InFlight' /\ Parse(file, bs, at)
    BY <1>1 DEF StoreType, Portions, InFlight, Holds
  <1>3. Rest(file, bs, at) \in Int
    BY <1>2, ParsePlaces
  <1>4. ~ Broken(bs, at)
    BY <1>1, <1>2, ReadsTorn DEF Broken
  <1>5. Sound(bs, at)
    BY <1>4 DEF Holds
  <1>6. Rest(file, bs, at) < RecordCells
    BY <1>2, <1>5 DEF Sound
  <1>7. Rest(file, bs, at) < LenCells
    BY <1>1, <1>2, <1>3, <1>6, Sizes, ReadsTorn
  <1>8. count' = Len(bs) /\ tip' = Last(bs)
    BY <1>1, <1>2, <1>7, ReadsClean
  <1>9. Sound(bs, at)'
    BY <1>1, <1>2, <1>5, <1>6, <1>8 DEF Sound
  <1>10. count' \in Nat /\ tip' \in Blocks \cup {None}
    <2>1. bs \in Seq(Blocks)
      BY <1>2 DEF Parse
    <2>2. Len(bs) \in Nat /\ (bs # << >> => Len(bs) \in 1 .. Len(bs))
      BY <2>1, EmptySeq, LenProperties
    <2>3. bs # << >> => bs[Len(bs)] \in Blocks
      BY <2>1, <2>2, ElementOfSeq
    <2> QED BY <1>8, <2>2, <2>3 DEF Last
  <1> QED BY <1>1, <1>2, <1>9, <1>10 DEF Holds, StoreType, StoreTypeOK, Portions

LEMMA HoldsSame ==
    ASSUME StoreType, NEW bs, NEW at, Holds(bs, at),
           \/ OpenFails \/ WriteBack \/ UNCHANGED store \/ \E b \in Blocks : BeginAppend(b)
    PROVE  Holds(bs, at)'
  <1>1. /\ file' = file /\ acked' = acked /\ count' = count /\ tip' = tip
        /\ up' = "running" => up = "running"
        /\ \/ ~ InFlight /\ ~ InFlight'
           \/ up' = up /\ writing' = writing
    <2>1. CASE OpenFails
      BY <2>1 DEF OpenFails, InFlight
    <2>2. CASE WriteBack
      BY <2>2 DEF WriteBack
    <2>3. CASE UNCHANGED store
      BY <2>3 DEF store
    <2>4. ASSUME NEW b \in Blocks, BeginAppend(b)
          PROVE  /\ file' = file /\ acked' = acked /\ count' = count /\ tip' = tip /\ up' = up
                 /\ ~ InFlight /\ ~ InFlight'
      BY <2>4 DEF BeginAppend, InFlight
    <2> QED BY <2>1, <2>2, <2>3, <2>4
  <1>2. InFlight' = InFlight /\ (InFlight => writing' = writing)
    BY <1>1 DEF InFlight
  <1>3. Sound(bs, at) => Sound(bs, at)'
    BY <1>1, <1>2 DEF Sound
  <1>4. Broken(bs, at) => Broken(bs, at)'
    BY <1>1 DEF Broken
  <1> QED BY <1>1, <1>3, <1>4 DEF Holds

LEMMA HoldsWrite ==
    ASSUME StoreType, NEW bs, NEW at, Holds(bs, at), WriteAll
    PROVE  Holds(bs, at)'
  <1> DEFINE n == PortionCells
             e == End(bs, at)
             m == Rest(file, bs, at)
  <1>1. /\ up = "running" /\ writing # None /\ writing.cells < RecordCells /\ file' = Written(n)
        /\ writing' = [writing EXCEPT !.cells = @ + n]
        /\ UNCHANGED <<synced, up, count, tip, acked>>
    BY DEF WriteAll
  <1>2. /\ writing \in Writings /\ n \in Nat /\ writing.cells + n \in {LenCells, RecordCells}
        /\ \/ writing.cells = 0 /\ n = LenCells
           \/ writing.cells = LenCells /\ n = BodyCells
    BY <1>1, PortionFits
  <1>3. writing' \in Writings /\ writing'.cells = writing.cells + n /\ writing'.block = writing.block
    BY <1>1, <1>2, Sizes DEF Writings
  <1>4. writing' # None
    BY <1>3, NoneAssumption DEF Writings
  <1> HIDE DEF n
  <1>5. writing.cells + n <= RecordCells
    BY <1>2, Sizes
  <1>6. /\ Extends(file', file) /\ Len(file') = Len(file) + n
        /\ \A k \in 1 .. n : file'[Len(file) + k] = <<writing.block, writing.cells + k>>
    BY <1>1, <1>2, <1>5, WrittenCells DEF StoreType
  <1>7. Parse(file, bs, at) /\ Parse(file', bs, at)
    BY <1>6, ParseExtends DEF Holds
  <1>8. /\ e \in Nat /\ Len(file) \in Nat /\ m = Len(file) - e /\ Rest(file', bs, at) = Len(file') - e
        /\ e <= Len(file)
    BY <1>7, ParsePlaces
  <1>9. InFlight'
    BY <1>1, <1>2, <1>3, <1>4, Sizes DEF InFlight
  <1>10. CASE Broken(bs, at)
    BY <1>6, <1>7, <1>10, BrokenStays
  <1>11. CASE Sound(bs, at) /\ writing.cells = 0 /\ m # 0
    <2>1. n = LenCells /\ n \in 1 .. RecordCells
      BY <1>2, <1>11, Sizes
    <2>2. m < RecordCells
      BY <1>11 DEF Sound, InFlight
    <2>3. m \in 1 .. RecordCells - 1
      BY <1>8, <1>11, <2>2, Sizes
    <2>4. Mixed(file', e) /\ Rest(file', bs, at) = m + n
      BY <1>1, <1>2, <1>7, <1>11, <2>1, <2>3, WriteMixes
    <2>5. m + n >= LenCells
      BY <2>1, <2>3, Sizes
    <2> QED BY <1>7, <2>4, <2>5 DEF Holds, Broken
  <1>12. CASE Sound(bs, at) /\ m = writing.cells
    <2>1. Rest(file', bs, at) = writing'.cells
      BY <1>2, <1>3, <1>6, <1>8, <1>12
    <2>2. ASSUME NEW k \in 1 .. writing'.cells PROVE file'[e + k] = <<writing'.block, k>>
      <3>1. writing.cells \in Nat
        BY <1>2, WritingBlock, Sizes
      <3>2. CASE k <= writing.cells
        <4>1. k \in 1 .. writing.cells /\ e + k \in 1 .. Len(file)
          BY <1>8, <1>12, <3>1, <3>2
        <4>2. InFlight
          BY <1>1, <3>1, <4>1 DEF InFlight
        <4>3. file[e + k] = <<writing.block, k>>
          BY <1>12, <4>1, <4>2 DEF Sound
        <4>4. file'[e + k] = file[e + k]
          BY <1>6, <4>1 DEF Extends
        <4> QED BY <1>3, <4>3, <4>4
      <3>3. CASE k > writing.cells
        <4> DEFINE i == k - writing.cells
        <4>1. i \in 1 .. n /\ e + k = Len(file) + i /\ writing.cells + i = k
          <5> DEFINE c == writing.cells
          <5>1. k \in 1 .. c + n /\ c \in Nat /\ k > c /\ n \in Nat
            BY <1>2, <1>3, <3>1, <3>3
          <5>2. e \in Nat /\ Len(file) \in Nat /\ c = Len(file) - e
            BY <1>8, <1>12
          <5> HIDE DEF c, e, m
          <5>3. k - c \in 1 .. n /\ e + k = Len(file) + (k - c) /\ c + (k - c) = k
            BY <5>1, <5>2
          <5> QED BY <5>3 DEF c
        <4> HIDE DEF i
        <4> QED BY <1>3, <1>6, <4>1
      <3> QED BY <3>1, <3>2, <3>3
    <2>3. Sound(bs, at)'
      BY <1>1, <1>9, <1>12, <2>1, <2>2 DEF Sound
    <2> QED BY <1>7, <2>3 DEF Holds
  <1>13. CASE Sound(bs, at) /\ writing.cells = LenCells
    <2>1. InFlight
      BY <1>1, <1>13, Sizes DEF InFlight
    <2>2. m = writing.cells
      BY <1>13, <2>1 DEF Sound
    <2> QED BY <1>12, <1>13, <2>2
  <1> QED BY <1>2, <1>10, <1>11, <1>12, <1>13 DEF Holds

LEMMA HoldsFail ==
    ASSUME StoreType, NEW bs, NEW at, Holds(bs, at), NEW n \in 0 .. RecordCells, WriteFails(n)
    PROVE  Holds(bs, at)'
  <1> DEFINE e == End(bs, at)
             m == Rest(file, bs, at)
  <1>1. /\ up = "running" /\ writing # None /\ writing.cells < RecordCells /\ file' = Written(n)
        /\ writing' = None /\ n < PortionCells
        /\ UNCHANGED <<synced, up, count, tip, acked>>
    BY DEF WriteFails
  <1>2. /\ writing \in Writings
        /\ \/ writing.cells = 0 /\ n < LenCells
           \/ writing.cells = LenCells /\ n < BodyCells
    BY <1>1, PortionFits
  <1>3. n \in Nat /\ writing.cells + n < RecordCells /\ writing.cells + n <= RecordCells
    BY <1>2, Sizes
  <1>4. Extends(file', file) /\ Len(file') = Len(file) + n
    BY <1>1, <1>2, <1>3, WrittenCells DEF StoreType
  <1>5. Parse(file, bs, at) /\ Parse(file', bs, at)
    BY <1>4, ParseExtends DEF Holds
  <1>6. /\ e \in Nat /\ Len(file) \in Nat /\ m = Len(file) - e /\ Rest(file', bs, at) = Len(file') - e
        /\ e <= Len(file)
    BY <1>5, ParsePlaces
  <1>7. ~ InFlight'
    BY <1>1 DEF InFlight
  <1>8. ASSUME Sound(bs, at), Rest(file', bs, at) < RecordCells PROVE Holds(bs, at)'
    <2>1. Sound(bs, at)'
      BY <1>1, <1>7, <1>8 DEF Sound
    <2> QED BY <1>5, <2>1 DEF Holds
  <1>9. Rest(file', bs, at) = m + n
    BY <1>3, <1>4, <1>6
  <1>10. CASE Broken(bs, at)
    BY <1>4, <1>5, <1>10, BrokenStays
  <1>11. CASE Sound(bs, at) /\ writing.cells = 0 /\ m # 0 /\ n # 0
    <2>1. n \in 1 .. RecordCells
      BY <1>3, <1>11, Sizes
    <2>2. m < RecordCells
      BY <1>11 DEF Sound, InFlight
    <2>3. m \in 1 .. RecordCells - 1
      BY <1>6, <1>11, <2>2, Sizes
    <2>4. Mixed(file', e)
      BY <1>1, <1>2, <1>5, <1>11, <2>1, <2>3, WriteMixes
    <2>5. CASE m + n >= LenCells
      BY <1>5, <1>9, <2>4, <2>5 DEF Holds, Broken
    <2>6. CASE m + n < LenCells
      <3>1. m + n < RecordCells
        BY <2>3, <2>6, <1>3, Sizes
      <3> QED BY <1>8, <1>9, <1>11, <3>1
    <2>7. m + n >= LenCells \/ m + n < LenCells
      BY <1>3, <2>3, Sizes
    <2> QED BY <2>5, <2>6, <2>7
  <1>12. CASE Sound(bs, at) /\ writing.cells = 0 /\ (m = 0 \/ n = 0)
    <2>1. m < RecordCells /\ n < RecordCells
      BY <1>3, <1>12 DEF Sound, InFlight
    <2>2. m + n < RecordCells
      BY <1>3, <1>6, <1>12, <2>1, Sizes
    <2> QED BY <1>8, <1>9, <1>12, <2>2
  <1>13. CASE Sound(bs, at) /\ writing.cells = LenCells
    <2>1. InFlight
      BY <1>1, <1>13, Sizes DEF InFlight
    <2>2. m = writing.cells
      BY <1>13, <2>1 DEF Sound
    <2> QED BY <1>3, <1>8, <1>9, <1>13, <2>2
  <1> QED BY <1>2, <1>10, <1>11, <1>12, <1>13 DEF Holds

(* A whole record after the others, once append no longer holds it: one more block. *)
LEMMA HoldsGrown ==
    ASSUME NEW bs, NEW at, NEW b \in Blocks, Parse(file', bs, at),
           Rest(file', bs, at) = RecordCells, ~ InFlight',
           \A k \in 1 .. RecordCells : file'[End(bs, at) + k] = <<b, k>>,
           \A p \in acked' : \/ p[1] \in 1 .. Len(bs) /\ bs[p[1]] = p[2]
                             \/ p = <<Len(bs) + 1, b>>,
           up' = "running" => count' = Len(bs) + 1 /\ tip' = b
    PROVE  \E cs, ats : Holds(cs, ats)'
  <1> DEFINE cs == Append(bs, b)
  <1>1. /\ RecordCells \in Nat /\ Rest(file', bs, at) >= RecordCells
    BY Sizes
  <1>2. PICK ats : Parse(file', cs, ats) /\ End(cs, ats) = End(bs, at) + RecordCells
    BY <1>1, ParseGrows
  <1>3. Rest(file', cs, ats) < RecordCells
    <2>1. /\ Rest(file', cs, ats) = Len(file') - End(cs, ats) /\ Rest(file', bs, at) = Len(file') - End(bs, at)
          /\ Len(file') \in Nat /\ End(bs, at) \in Nat
      BY <1>2, ParsePlaces
    <2>2. Rest(file', bs, at) = RecordCells /\ End(cs, ats) = End(bs, at) + RecordCells
      BY <1>2
    <2> HIDE DEF cs
    <2>3. Rest(file', cs, ats) = 0
      BY ONLY <2>1, <2>2, Sizes
    <2> QED BY <2>3, Sizes
  <1>4. bs \in Seq(Blocks) /\ Len(bs) \in Nat
    BY LenProperties DEF Parse
  <1>5. /\ Len(cs) = Len(bs) + 1 /\ cs[Len(bs) + 1] = b /\ cs # << >>
        /\ \A j \in 1 .. Len(bs) : cs[j] = bs[j] /\ j \in 1 .. Len(cs)
    BY <1>4, AppendProperties
  <1>6. Last(cs) = b
    BY <1>5 DEF Last
  <1>7. Len(bs) + 1 \in 1 .. Len(cs)
    BY <1>4, <1>5
  <1> HIDE DEF cs
  <1>8. \A p \in acked' : p[1] \in 1 .. Len(cs) /\ cs[p[1]] = p[2]
    BY <1>5, <1>7
  <1>9. Sound(cs, ats)'
    BY <1>3, <1>5, <1>6, <1>8 DEF Sound
  <1> QED BY <1>2, <1>9 DEF Holds

LEMMA HoldsFinish ==
    ASSUME StoreType, NEW bs, NEW at, Holds(bs, at), FinishAppend
    PROVE  \E cs, ats : Holds(cs, ats)'
  <1>1. /\ up = "running" /\ writing # None /\ writing.cells = RecordCells
        /\ count' = count + 1 /\ tip' = writing.block /\ writing' = None
        /\ acked' = acked \cup {<<count + 1, writing.block>>}
        /\ UNCHANGED <<file, synced, up>>
    BY DEF FinishAppend
  <1>2. writing.block \in Blocks
    BY <1>1, WritingBlock DEF StoreType, StoreTypeOK, Writings
  <1>3. InFlight /\ ~ InFlight' /\ Parse(file, bs, at)
    BY <1>1, Sizes DEF InFlight, Holds
  <1>4. CASE Broken(bs, at)
    <2>1. Extends(file', file)
      BY <1>1, ExtendsSame DEF StoreType
    <2> QED BY <1>3, <1>4, <2>1, BrokenStays
  <1>5. CASE Sound(bs, at)
    <2>1. /\ Rest(file, bs, at) = RecordCells /\ count = Len(bs)
          /\ \A k \in 1 .. RecordCells : file[End(bs, at) + k] = <<writing.block, k>>
          /\ \A p \in acked : p[1] \in 1 .. Len(bs) /\ bs[p[1]] = p[2]
      BY <1>1, <1>3, <1>5 DEF Sound
    <2> QED BY <1>1, <1>2, <1>3, <2>1, HoldsGrown
  <1> QED BY <1>4, <1>5 DEF Holds

LEMMA HoldsKill ==
    ASSUME StoreType, NEW bs, NEW at, Holds(bs, at), Kill
    PROVE  \E cs, ats : Holds(cs, ats)'
  <1>1. up = "running" /\ up' = "down" /\ UNCHANGED <<file, acked>> /\ Parse(file, bs, at) /\ ~ InFlight'
    BY DEF Kill, Down, Holds, InFlight
  <1>2. CASE Broken(bs, at)
    <2>1. Extends(file', file)
      BY <1>1, ExtendsSame DEF StoreType
    <2> QED BY <1>1, <1>2, <2>1, BrokenStays
  <1>3. CASE Sound(bs, at) /\ InFlight /\ writing.cells = RecordCells
    <2>1. writing.block \in Blocks
      BY <1>3, WritingBlock DEF StoreType, StoreTypeOK, Writings, InFlight
    <2>2. /\ Rest(file, bs, at) = RecordCells
          /\ \A k \in 1 .. RecordCells : file[End(bs, at) + k] = <<writing.block, k>>
          /\ \A p \in acked : p[1] \in 1 .. Len(bs) /\ bs[p[1]] = p[2]
      BY <1>3 DEF Sound
    <2> QED BY <1>1, <2>1, <2>2, HoldsGrown
  <1>4. CASE Sound(bs, at) /\ ~ (InFlight /\ writing.cells = RecordCells)
    <2>1. Rest(file, bs, at) < RecordCells
      <3>1. CASE InFlight
        <4>1. writing.cells = LenCells
          BY <1>4, <3>1 DEF InFlight, StoreType, Portions
        <4> QED BY <1>4, <3>1, <4>1, Sizes DEF Sound
      <3>2. CASE ~ InFlight
        BY <1>4, <3>2 DEF Sound
      <3> QED BY <3>1, <3>2
    <2>2. Sound(bs, at)'
      BY <1>1, <1>4, <2>1 DEF Sound
    <2> QED BY <1>1, <2>2 DEF Holds
  <1> QED BY <1>2, <1>3, <1>4 DEF Holds

LEMMA HoldsOutage ==
    ASSUME StoreType, NEW bs, NEW at, Holds(bs, at), NEW n \in 0 .. Len(file), Outage(n)
    PROVE  \E cs, ats : Holds(cs, ats)'
  <1> DEFINE e == End(bs, at)
  <1>1. up' = "down" /\ acked' = {} /\ file' = SubSeq(file, 1, n) /\ Parse(file, bs, at) /\ ~ InFlight'
    BY DEF Outage, Down, Holds, InFlight
  <1>2. /\ file \in Seq(Pieces) /\ Len(file) \in Nat /\ e \in Nat /\ Len(bs) \in Nat
        /\ Rest(file, bs, at) = Len(file) - e
    <2>1. file \in Seq(Pieces)
      BY <1>1 DEF Parse
    <2> QED BY <1>1, <2>1, ParsePlaces
  <1>3. file' \in Seq(Pieces) /\ Len(file') = n /\ \A i \in 1 .. n : file'[i] = file[i]
    BY <1>1, <1>2, SubSeqProperties
  <1>4. ASSUME NEW cs, NEW ats, Parse(file', cs, ats), Rest(file', cs, ats) < RecordCells
        PROVE  Holds(cs, ats)'
    <2>1. Sound(cs, ats)'
      BY <1>1, <1>4 DEF Sound
    <2> QED BY <1>4, <2>1 DEF Holds
  <1>5. CASE n < e
    <2>1. \E cs, ats : Parse(file', cs, ats) /\ Rest(file', cs, ats) < RecordCells
      BY <1>1, <1>2, <1>5, ParseCut
    <2> QED BY <1>4, <2>1
  <1>6. CASE n >= e
    <2>1. Parse(file', bs, at)
      <3>1. ASSUME NEW j \in 1 .. Len(bs), NEW k \in 1 .. RecordCells
            PROVE  file'[at[j - 1] + k] = <<bs[j], k>>
        <4>1. at[j - 1] \in Nat /\ at[j] = at[j - 1] + RecordCells /\ at[j] <= at[Len(bs)] /\ e = at[Len(bs)]
          BY <1>1, ParsePlaces
        <4>2. at[j - 1] + k \in 1 .. n
          BY <1>2, <1>6, <4>1, Sizes
        <4>3. file[at[j - 1] + k] = <<bs[j], k>>
          BY <1>1 DEF Parse
        <4> QED BY <1>3, <4>2, <4>3
      <3>2. at[Len(bs)] <= Len(file')
        BY <1>3, <1>6 DEF End
      <3> QED BY <1>1, <1>3, <3>1, <3>2 DEF Parse
    <2>2. Rest(file', bs, at) = n - e
      BY <1>3 DEF Rest, End
    <2>3. CASE n - e < RecordCells
      BY <1>4, <2>1, <2>2, <2>3
    <2>4. CASE n - e >= RecordCells /\ Broken(bs, at)
      <3>1. PICK k \in 1 .. RecordCells : e + k <= Len(file) /\ file[e + k][2] # k
        BY <2>4 DEF Broken, Mixed
      <3>2. e + k \in 1 .. n
        BY <1>2, <2>4, Sizes
      <3>3. Mixed(file', e)
        BY <1>3, <3>1, <3>2 DEF Mixed
      <3>4. Rest(file', bs, at) >= LenCells
        BY <1>2, <2>2, <2>4, Sizes
      <3>5. Broken(bs, at)'
        BY <3>3, <3>4 DEF Broken
      <3> QED BY <2>1, <3>5 DEF Holds
    <2>5. CASE n - e >= RecordCells /\ Sound(bs, at)
      <3>1. Len(file) - e >= RecordCells
        BY <1>2, <2>5, Sizes
      <3>2. InFlight
        BY <1>2, <2>5, <3>1, Sizes DEF Sound
      <3>3. writing.cells \in 0 .. RecordCells /\ writing.block \in Blocks
        BY <3>2, WritingBlock DEF InFlight, StoreType, StoreTypeOK, Writings
      <3>4. Len(file) - e = writing.cells
        BY <1>2, <2>5, <3>2 DEF Sound
      <3>5. writing.cells = RecordCells /\ n = Len(file)
        BY <1>2, <2>5, <3>1, <3>3, <3>4, Sizes
      <3>6. ASSUME NEW k \in 1 .. RecordCells PROVE file'[e + k] = <<writing.block, k>>
        <4>1. file[e + k] = <<writing.block, k>>
          BY <2>5, <3>2, <3>5 DEF Sound
        <4>2. e + k \in 1 .. n
          BY <1>2, <3>4, <3>5, Sizes
        <4> QED BY <1>3, <4>1, <4>2
      <3>7. Rest(file', bs, at) = RecordCells
        BY <2>2, <3>4, <3>5
      <3> QED BY <1>1, <2>1, <3>3, <3>6, <3>7, HoldsGrown
    <2>6. n - e < RecordCells \/ n - e >= RecordCells
      BY <1>2, Sizes
    <2> QED BY <2>3, <2>4, <2>5, <2>6 DEF Holds
  <1> QED BY <1>2, <1>5, <1>6

LEMMA LogStep == LogInv /\ [StoreNext]_store => LogInv'
  <1> SUFFICES ASSUME LogInv, [StoreNext]_store PROVE LogInv'
    OBVIOUS
  <1>1. StoreType
    BY DEF LogInv
  <1>2. PICK bs, at : Holds(bs, at)
    BY DEF LogInv
  <1>3. CASE Open
    BY <1>1, <1>2, <1>3, HoldsOpen DEF LogInv
  <1>4. CASE ~ Open
    <2>1. StoreType'
      BY <1>1, <1>4, TypeStep
    <2>2. \E cs, ats : Holds(cs, ats)'
      <3>1. CASE OpenFails \/ WriteBack \/ UNCHANGED store \/ \E b \in Blocks : BeginAppend(b)
        BY <1>1, <1>2, <3>1, HoldsSame
      <3>2. CASE WriteAll
        BY <1>1, <1>2, <3>2, HoldsWrite
      <3>3. ASSUME NEW n \in 0 .. RecordCells, WriteFails(n) PROVE \E cs, ats : Holds(cs, ats)'
        BY <1>1, <1>2, <3>3, HoldsFail
      <3>4. CASE FinishAppend
        BY <1>1, <1>2, <3>4, HoldsFinish
      <3>5. CASE Kill
        BY <1>1, <1>2, <3>5, HoldsKill
      <3>6. ASSUME NEW n \in 0 .. Len(file), Outage(n) PROVE \E cs, ats : Holds(cs, ats)'
        BY <1>1, <1>2, <3>6, HoldsOutage
      <3> QED BY <1>4, <3>1, <3>2, <3>3, <3>4, <3>5, <3>6 DEF StoreNext
    <2> QED BY <2>1, <2>2 DEF LogInv
  <1> QED BY <1>3, <1>4

LEMMA LogInvariant == StoreSpec => []LogInv
  BY LogInit, LogStep, PTL DEF StoreSpec

(***************************************************************************)
(* A reading of chain.log that succeeds while nothing is being appended    *)
(* yields as many blocks as the cache counts and ends with its tip: no     *)
(* torn record is read as a block and none hides one, for every mix of     *)
(* appends, failed writes, kills, power losses and restarts, and for       *)
(* every size of prefix and body.                                          *)
(***************************************************************************)
THEOREM ReadableLogIsCached == StoreSpec => []ReadableMeansCached
  <1>1. LogInv => ReadableMeansCached
    <2> SUFFICES ASSUME LogInv, Unlocked, read_all_from_disk(file).ok
                 PROVE  /\ count = Len(read_all_from_disk(file).blocks)
                        /\ tip = Last(read_all_from_disk(file).blocks)
      BY DEF ReadableMeansCached
    <2>1. PICK bs, at : Holds(bs, at)
      BY DEF LogInv
    <2>2. Parse(file, bs, at) /\ Rest(file, bs, at) \in Int
      BY <2>1, ParsePlaces DEF Holds
    <2>3. ~ Broken(bs, at)
      BY <2>2, ReadsTorn DEF Broken
    <2>4. Sound(bs, at) /\ ~ InFlight /\ up = "running"
      BY <2>1, <2>3 DEF Holds, Unlocked, InFlight
    <2>5. count = Len(bs) /\ tip = Last(bs) /\ Rest(file, bs, at) < RecordCells
      BY <2>4 DEF Sound
    <2>6. Rest(file, bs, at) < LenCells
      BY <2>2, <2>5, Sizes, ReadsTorn
    <2> QED BY <2>2, <2>5, <2>6, ReadsClean
  <1> QED BY <1>1, LogInvariant, PTL

(***************************************************************************)
(* A block that append acknowledged as the n-th is the n-th block of every *)
(* reading that succeeds until the next power loss, whatever is in flight. *)
(***************************************************************************)
THEOREM AckedBlocksSurvive == StoreSpec => []AckedSurvives
  <1>1. LogInv => AckedSurvives
    <2> SUFFICES ASSUME LogInv, read_all_from_disk(file).ok, NEW p \in acked
                 PROVE  /\ p[1] <= Len(read_all_from_disk(file).blocks)
                        /\ read_all_from_disk(file).blocks[p[1]] = p[2]
      BY DEF AckedSurvives
    <2>1. PICK bs, at : Holds(bs, at)
      BY DEF LogInv
    <2>2. Parse(file, bs, at) /\ Rest(file, bs, at) \in Int /\ bs \in Seq(Blocks) /\ Len(bs) \in Nat
      <3>1. Parse(file, bs, at)
        BY <2>1 DEF Holds
      <3>2. bs \in Seq(Blocks)
        BY <3>1 DEF Parse
      <3> QED BY <3>1, <3>2, ParsePlaces
    <2>3. Sound(bs, at)
      BY <2>1, <2>2, ReadsTorn DEF Broken, Holds
    <2>4. p[1] \in 1 .. Len(bs) /\ bs[p[1]] = p[2]
      BY <2>3 DEF Sound
    <2>5. CASE Rest(file, bs, at) < LenCells
      BY <2>2, <2>4, <2>5, ReadsClean
    <2>6. CASE Rest(file, bs, at) >= LenCells
      <3>1. Rest(file, bs, at) >= RecordCells
        BY <2>2, <2>6, ReadsTorn, Sizes
      <3>2. InFlight
        BY <2>2, <2>3, <3>1, Sizes DEF Sound
      <3>3. writing.cells \in 0 .. RecordCells /\ writing.block \in Blocks
        BY <3>2, WritingBlock DEF InFlight, LogInv, StoreType, StoreTypeOK, Writings
      <3>4. Rest(file, bs, at) = writing.cells
        BY <2>3, <3>2 DEF Sound
      <3>5. writing.cells = RecordCells /\ Rest(file, bs, at) = RecordCells
        BY <3>1, <3>3, <3>4, Sizes
      <3>6. \A k \in 1 .. RecordCells : file[End(bs, at) + k] = <<writing.block, k>>
        BY <2>3, <3>2, <3>5 DEF Sound
      <3> DEFINE cs == Append(bs, writing.block)
      <3>7. PICK ats : Parse(file, cs, ats) /\ End(cs, ats) = End(bs, at) + RecordCells
        BY <2>2, <3>1, <3>3, <3>6, ParseGrows
      <3>8. Rest(file, cs, ats) < LenCells
        <4>1. /\ Rest(file, cs, ats) = Len(file) - End(cs, ats) /\ Rest(file, bs, at) = Len(file) - End(bs, at)
              /\ Len(file) \in Nat /\ End(bs, at) \in Nat
          BY <2>2, <3>7, ParsePlaces
        <4> QED BY <3>5, <3>7, <4>1, Sizes
      <3>9. Len(cs) = Len(bs) + 1 /\ \A j \in 1 .. Len(bs) : cs[j] = bs[j]
        BY <2>2, <3>3, AppendProperties
      <3>10. read_all_from_disk(file).blocks = cs
        BY <3>7, <3>8, ReadsClean
      <3> HIDE DEF cs
      <3> QED BY <2>2, <2>4, <3>9, <3>10
    <2>7. Rest(file, bs, at) < LenCells \/ Rest(file, bs, at) >= LenCells
      BY <2>2, Sizes
    <2> QED BY <2>5, <2>6, <2>7
  <1> QED BY <1>1, LogInvariant, PTL

-----------------------------------------------------------------------------
(* The broker: the messages that are due to a peer, by position in the log. *)

(* Position i of the log l is for p, whose subscriptions are s. *)
ForIn(l, s, p, i) == l[i].from # p /\ s[l[i].topic] # Never /\ s[l[i].topic] < i

DueTurn(R, l, s, p, c, i) ==
    IF i = c THEN << >> ELSE IF ForIn(l, s, p, i) THEN Append(R[i - 1], l[i]) ELSE R[i - 1]

Dues(R, l, s, p, c, n) == R = [i \in c .. n |-> DueTurn(R, l, s, p, c, i)]
DueLoop(l, s, p, c, n) == CHOOSE R : Dues(R, l, s, p, c, n)
DueIn(l, s, p, c) == DueLoop(l, s, p, c, Len(l))[Len(l)]

LEMMA DueDef ==
    ASSUME NEW p
    PROVE  Abstract!Due(p) = DueIn(log, since[p], p, cursor[p])
  BY Zenon DEF Abstract!Due, Abstract!For, DueIn, DueLoop, Dues, DueTurn, ForIn

LEMMA DueUnfolds ==
    ASSUME NEW l, NEW s, NEW p, NEW c \in Nat, NEW n \in Nat, c <= n
    PROVE  \A i \in c .. n : DueLoop(l, s, p, c, n)[i] = DueTurn(DueLoop(l, s, p, c, n), l, s, p, c, i)
  <1> DEFINE N == {k \in Nat : \E R : Dues(R, l, s, p, c, c + k)}
  <1>1. 0 \in N
    <2> DEFINE R == [i \in c .. c |-> << >>]
    <2>1. \A i \in c .. c : i = c
      OBVIOUS
    <2>2. R = [i \in c .. c |-> DueTurn(R, l, s, p, c, i)]
      BY <2>1 DEF DueTurn
    <2>3. Dues(R, l, s, p, c, c) /\ c + 0 = c
      BY <2>2 DEF Dues
    <2> QED BY <2>3
  <1>2. ASSUME NEW k \in Nat, k \in N PROVE k + 1 \in N
    <2>1. PICK R : Dues(R, l, s, p, c, c + k)
      BY <1>2
    <2> DEFINE D == c .. c + (k + 1)
               Q == [i \in D |-> DueTurn(R, l, s, p, c, i)]
    <2>2. \A i \in c .. c + k : i \in D /\ R[i] = DueTurn(R, l, s, p, c, i)
      BY <2>1 DEF Dues
    <2>3. \A i \in c .. c + k : Q[i] = R[i]
      BY <2>2
    <2>4. \A i \in D : i # c => i - 1 \in c .. c + k
      OBVIOUS
    <2>5. ASSUME NEW i \in D PROVE Q[i] = DueTurn(Q, l, s, p, c, i)
      <3>1. Q[i] = DueTurn(R, l, s, p, c, i)
        OBVIOUS
      <3>2. i # c => Q[i - 1] = R[i - 1]
        BY <2>3, <2>4
      <3> HIDE DEF Q, D
      <3> QED BY <3>1, <3>2 DEF DueTurn
    <2>6. Q = [i \in D |-> DueTurn(Q, l, s, p, c, i)]
      BY <2>5
    <2>7. Dues(Q, l, s, p, c, c + (k + 1))
      BY <2>6 DEF Dues
    <2> QED BY <2>7
  <1>3. n - c \in N /\ c + (n - c) = n
    <2>1. n - c \in Nat /\ c + (n - c) = n
      OBVIOUS
    <2> HIDE DEF N
    <2> QED BY <1>1, <1>2, <2>1, NatSetInduction
  <1>4. Dues(DueLoop(l, s, p, c, n), l, s, p, c, n)
    BY <1>3 DEF DueLoop
  <1> QED BY <1>4 DEF Dues

(* From c to n, two logs with their subscriptions have the same messages for p. *)
SameFor(l, s, r, t, p, c, n) ==
    \A i \in c + 1 .. n : l[i] = r[i] /\ (ForIn(l, s, p, i) <=> ForIn(r, t, p, i))

(* What is due depends on the log and the subscriptions through the messages that are for p. *)
LEMMA DueAgrees ==
    ASSUME NEW l, NEW r, NEW s, NEW t, NEW p, NEW c \in Nat, NEW n \in Nat, NEW k \in Nat,
           c <= n, n <= k, SameFor(l, s, r, t, p, c, n)
    PROVE  DueLoop(l, s, p, c, n)[n] = DueLoop(r, t, p, c, k)[n]
  <1> DEFINE F == DueLoop(l, s, p, c, n)
             G == DueLoop(r, t, p, c, k)
             N == {x \in Nat : c + x <= n => F[c + x] = G[c + x]}
  <1>1. \A i \in c .. n : F[i] = DueTurn(F, l, s, p, c, i)
    BY DueUnfolds
  <1>2. \A i \in c .. k : G[i] = DueTurn(G, r, t, p, c, i)
    <2>1. c <= k
      OBVIOUS
    <2> QED BY <2>1, DueUnfolds
  <1>3. \A i \in c .. n : G[i] = DueTurn(G, r, t, p, c, i)
    <2>1. \A i \in c .. n : i \in c .. k
      OBVIOUS
    <2> QED BY <1>2, <2>1
  <1> HIDE DEF F, G
  <1>4. 0 \in N
    <2>1. c + 0 = c /\ c \in c .. n
      OBVIOUS
    <2> QED BY <1>1, <1>3, <2>1 DEF DueTurn
  <1>5. ASSUME NEW x \in Nat, x \in N PROVE x + 1 \in N
    <2> SUFFICES ASSUME c + (x + 1) <= n PROVE F[c + (x + 1)] = G[c + (x + 1)]
      OBVIOUS
    <2> DEFINE i == c + (x + 1)
    <2>1. i \in c + 1 .. n /\ i \in c .. n /\ i # c /\ i - 1 = c + x /\ c + x <= n
      OBVIOUS
    <2>2. F[i - 1] = G[i - 1]
      BY <1>5, <2>1
    <2> HIDE DEF i
    <2>3. l[i] = r[i] /\ (ForIn(l, s, p, i) <=> ForIn(r, t, p, i))
      BY <2>1 DEF SameFor
    <2>4. F[i] = DueTurn(F, l, s, p, c, i) /\ G[i] = DueTurn(G, r, t, p, c, i)
      BY <1>1, <1>3, <2>1
    <2>5. F[i] = G[i]
      BY <2>1, <2>2, <2>3, <2>4 DEF DueTurn
    <2> QED BY <2>5 DEF i
  <1>6. n - c \in N /\ c + (n - c) = n
    <2>1. n - c \in Nat /\ c + (n - c) = n
      OBVIOUS
    <2> HIDE DEF N
    <2> QED BY <1>4, <1>5, <2>1, NatSetInduction
  <1>7. F[n] = G[n]
    BY <1>6
  <1> QED BY <1>7 DEF F, G

LEMMA DueNone ==
    ASSUME NEW l, NEW s, NEW p, Len(l) \in Nat
    PROVE  DueIn(l, s, p, Len(l)) = << >>
  <1> DEFINE n == Len(l)
  <1>1. n \in n .. n /\ n <= n
    OBVIOUS
  <1>2. DueLoop(l, s, p, n, n)[n] = DueTurn(DueLoop(l, s, p, n, n), l, s, p, n, n)
    BY <1>1, DueUnfolds
  <1> QED BY <1>2 DEF DueIn, DueTurn

LEMMA DueTurns ==
    ASSUME NEW R, NEW l, NEW s, NEW p, NEW c, NEW i, NEW x, i # c, R[i - 1] = x
    PROVE  /\ ForIn(l, s, p, i) => DueTurn(R, l, s, p, c, i) = Append(x, l[i])
           /\ ~ ForIn(l, s, p, i) => DueTurn(R, l, s, p, c, i) = x
  <1>1. ForIn(l, s, p, i) => DueTurn(R, l, s, p, c, i) = Append(x, l[i])
    BY Zenon DEF DueTurn
  <1>2. ~ ForIn(l, s, p, i) => DueTurn(R, l, s, p, c, i) = x
    BY Zenon DEF DueTurn
  <1> QED BY <1>1, <1>2

(* r is l and one more message. *)
OneMore(r, l) == Len(r) = Len(l) + 1 /\ \A i \in 1 .. Len(l) : r[i] = l[i]

LEMMA DueMore ==
    ASSUME NEW l, NEW r, NEW s, NEW p, NEW c \in Nat, Len(l) \in Nat, c <= Len(l), OneMore(r, l)
    PROVE  /\ ForIn(r, s, p, Len(l) + 1) => DueIn(r, s, p, c) = Append(DueIn(l, s, p, c), r[Len(l) + 1])
           /\ ~ ForIn(r, s, p, Len(l) + 1) => DueIn(r, s, p, c) = DueIn(l, s, p, c)
  <1> DEFINE n == Len(l)
             k == n + 1
             G == DueLoop(r, s, p, c, k)
  <1>1. n \in Nat /\ k \in Nat /\ c <= n /\ c <= k /\ n <= k /\ k \in c .. k /\ k # c /\ k - 1 = n
    OBVIOUS
  <1>2. SameFor(l, s, r, s, p, c, n)
    <2>1. \A i \in c + 1 .. n : l[i] = r[i]
      BY DEF OneMore
    <2> QED BY <2>1 DEF ForIn, SameFor
  <1>3. DueIn(r, s, p, c) = G[k] /\ DueIn(l, s, p, c) = DueLoop(l, s, p, c, n)[n]
    BY DEF DueIn, OneMore
  <1> HIDE DEF n, k
  <1>4. DueLoop(l, s, p, c, n)[n] = G[n]
    BY <1>1, <1>2, DueAgrees
  <1>5. G[k] = DueTurn(G, r, s, p, c, k)
    BY <1>1, DueUnfolds
  <1> HIDE DEF G
  <1>6. G[k - 1] = G[n]
    BY <1>1
  <1>7. /\ ForIn(r, s, p, k) => DueTurn(G, r, s, p, c, k) = Append(G[n], r[k])
        /\ ~ ForIn(r, s, p, k) => DueTurn(G, r, s, p, c, k) = G[n]
    BY <1>1, <1>6, DueTurns
  <1>8. /\ ForIn(r, s, p, k) => DueIn(r, s, p, c) = Append(DueIn(l, s, p, c), r[k])
        /\ ~ ForIn(r, s, p, k) => DueIn(r, s, p, c) = DueIn(l, s, p, c)
    BY <1>3, <1>4, <1>5, <1>7
  <1> QED BY <1>8 DEF k, n

(* Tables: an entry that is missing is empty. *)
LEMMA EntryInsert ==
    ASSUME NEW table, NEW p, NEW v, NEW q, NEW empty
    PROVE  Entry(Insert(table, p, v), q, empty) = IF q = p THEN v ELSE Entry(table, q, empty)
  BY DEF Entry, Insert

LEMMA InsertSame ==
    ASSUME NEW table, NEW p, NEW q, NEW empty
    PROVE  Entry(Insert(table, p, Entry(table, p, empty)), q, empty) = Entry(table, q, empty)
  BY EntryInsert

Mail == [version : {WIRE_VERSION}, from : Peers, topic : Topics, seq : Nat]

GossipType ==
    /\ seq \in [Peers -> Nat] /\ log \in Seq(Mail)
    /\ since \in [Peers -> [Topics -> Nat \cup {Never}]]
    /\ cursor \in [Peers -> Nat] /\ DOMAIN got = Peers
    /\ \A p \in Peers : cursor[p] <= Len(log)
    /\ \A p \in Peers, t \in Topics : since[p][t] # Never => since[p][t] <= Len(log)

(* The subscriptions of a peer are the topics that it has a position for, and its inbox is what
   is due to it. *)
Subscribed ==
    \A p \in Peers, t \in Topics : since[p][t] # Never <=> t \in Entry(subscriptions, p, {})
Delivered ==
    \A p \in Peers : Entry(inboxes, p, << >>) = DueIn(log, since[p], p, cursor[p])

BrokerInv == GossipType /\ DOMAIN subscriptions \subseteq Peers /\ Subscribed /\ Delivered

LEMMA BrokerStart == BrokerInit => BrokerInv /\ Abstract!Init
  <1> SUFFICES ASSUME BrokerInit PROVE BrokerInv /\ Abstract!Init
    OBVIOUS
  <1>1. << >> \in Seq(Mail) /\ Len(<< >>) = 0
    BY EmptySeq
  <1>2. GossipType
    BY <1>1 DEF BrokerInit, GossipType
  <1>3. DOMAIN subscriptions = {} /\ \A p : Entry(subscriptions, p, {}) = {}
    BY DEF BrokerInit, Entry
  <1>4. Subscribed
    BY <1>3 DEF BrokerInit, Subscribed
  <1>5. ASSUME NEW p \in Peers PROVE Entry(inboxes, p, << >>) = DueIn(log, since[p], p, cursor[p])
    <2>1. Entry(inboxes, p, << >>) = << >>
      BY DEF BrokerInit, Entry
    <2>2. cursor[p] = 0 /\ log = << >> /\ Len(log) = 0
      BY <1>1 DEF BrokerInit
    <2>3. DueIn(log, since[p], p, Len(log)) = << >>
      BY <2>2, DueNone
    <2> QED BY <2>1, <2>2, <2>3
  <1>6. Abstract!Init
    BY DEF BrokerInit, Abstract!Init
  <1> QED BY <1>2, <1>3, <1>4, <1>5, <1>6 DEF BrokerInv, Delivered

LEMMA BrokerJoins ==
    ASSUME BrokerInv, NEW p \in Peers, join(p)
    PROVE  BrokerInv' /\ UNCHANGED Abstract!gossip
  <1>1. \A q : /\ Entry(subscriptions', q, {}) = Entry(subscriptions, q, {})
               /\ Entry(inboxes', q, << >>) = Entry(inboxes, q, << >>)
    BY InsertSame DEF join
  <1>2. UNCHANGED <<seq, log, since, cursor, got>>
    BY DEF join
  <1>3. DOMAIN subscriptions' \subseteq Peers
    BY DEF join, Insert, BrokerInv
  <1>4. GossipType'
    BY <1>2 DEF BrokerInv, GossipType
  <1>5. Subscribed' /\ Delivered'
    BY <1>1, <1>2 DEF BrokerInv, Subscribed, Delivered
  <1> QED BY <1>2, <1>3, <1>4, <1>5 DEF BrokerInv, Abstract!gossip

LEMMA BrokerSubscribes ==
    ASSUME BrokerInv, NEW p \in Peers, NEW t, subscribe(p, t)
    PROVE  BrokerInv' /\ (Abstract!Next \/ UNCHANGED Abstract!gossip)
  <1>1. /\ t \in Topics /\ UNCHANGED <<inboxes, seq, log, cursor, got>>
        /\ subscriptions' = Insert(subscriptions, p, Entry(subscriptions, p, {}) \cup {t})
        /\ since' = IF since[p][t] = Never THEN [since EXCEPT ![p][t] = Len(log)] ELSE since
    BY DEF subscribe
  <1>2. GossipType /\ Subscribed /\ Delivered /\ log \in Seq(Mail) /\ Len(log) \in Nat
    BY LenProperties DEF BrokerInv, GossipType
  <1>3. \A q : Entry(subscriptions', q, {}) = IF q = p THEN Entry(subscriptions, p, {}) \cup {t}
                                              ELSE Entry(subscriptions, q, {})
    BY <1>1, EntryInsert
  <1>4. DOMAIN subscriptions' \subseteq Peers
    BY <1>1 DEF Insert, BrokerInv
  <1>5. CASE since[p][t] # Never
    <2>1. since' = since
      BY <1>1, <1>5
    <2>2. GossipType' /\ Delivered'
      BY <1>1, <1>2, <2>1 DEF GossipType, Delivered
    <2>3. t \in Entry(subscriptions, p, {})
      BY <1>1, <1>2, <1>5 DEF Subscribed
    <2>4. Subscribed'
      BY <1>2, <1>3, <2>1, <2>3 DEF Subscribed
    <2> QED BY <1>1, <1>4, <2>1, <2>2, <2>4 DEF BrokerInv, Abstract!gossip
  <1>6. CASE since[p][t] = Never
    <2>1. since' = [since EXCEPT ![p][t] = Len(log)]
      BY <1>1, <1>6
    <2>2. since \in [Peers -> [Topics -> Nat \cup {Never}]]
      BY <1>2 DEF GossipType
    <2>3. /\ since' \in [Peers -> [Topics -> Nat \cup {Never}]]
          /\ \A q \in Peers, u \in Topics :
                 since'[q][u] = IF q = p /\ u = t THEN Len(log) ELSE since[q][u]
          /\ \A q \in Peers : q # p => since'[q] = since[q]
      BY <1>1, <1>2, <2>1, <2>2
    <2>4. Len(log) # Never
      BY <1>2, BrokerAssumption
    <2>5. GossipType'
      BY <1>1, <1>2, <2>3 DEF GossipType
    <2>6. Subscribed'
      BY <1>2, <1>3, <2>3, <2>4 DEF Subscribed
    <2>7. ASSUME NEW q \in Peers
          PROVE  DueIn(log, since'[q], q, cursor[q]) = DueIn(log, since[q], q, cursor[q])
      <3> DEFINE n == Len(log)
                 c == cursor[q]
      <3>1. c \in Nat /\ n \in Nat /\ c <= n /\ n <= n
        BY <1>2 DEF GossipType
      <3>2. ASSUME NEW i \in c + 1 .. n
            PROVE  ForIn(log, since[q], q, i) <=> ForIn(log, since'[q], q, i)
        <4>1. i \in 1 .. n /\ ~ (n < i)
          BY <3>1
        <4>2. log[i] \in Mail
          BY <1>2, <4>1, ElementOfSeq
        <4>3. log[i].topic \in Topics
          BY <4>2 DEF Mail
        <4> DEFINE u == log[i].topic
        <4>4. since'[q][u] = IF q = p /\ u = t THEN n ELSE since[q][u]
          BY <2>3, <4>3
        <4> HIDE DEF u
        <4> QED BY <1>6, <4>1, <4>4 DEF ForIn, u
      <3>3. SameFor(log, since[q], log, since'[q], q, c, n)
        BY <3>2 DEF SameFor
      <3> HIDE DEF c, n
      <3>4. DueLoop(log, since[q], q, c, n)[n] = DueLoop(log, since'[q], q, c, n)[n]
        BY <3>1, <3>3, DueAgrees
      <3> QED BY <3>4 DEF DueIn, c, n
    <2>8. Delivered'
      BY <1>1, <1>2, <2>7 DEF Delivered
    <2>9. Abstract!Subscribe(p, t)
      BY <1>1, <1>6, <2>1 DEF Abstract!Subscribe
    <2> QED BY <1>1, <1>4, <2>5, <2>6, <2>8, <2>9 DEF BrokerInv, Abstract!Next
  <1> QED BY <1>5, <1>6

LEMMA BrokerPublishes ==
    ASSUME BrokerInv, NEW p \in Peers, NEW m \in P2pMessage(p), publish(m)
    PROVE  BrokerInv' /\ Abstract!Next
  <1> DEFINE n == Len(log)
  <1>1. /\ ~ Malformed(m) /\ log' = Append(log, m) /\ seq' = [seq EXCEPT ![m.from] = @ + 1]
        /\ UNCHANGED <<subscriptions, since, cursor, got>>
        /\ inboxes' = [q \in DOMAIN inboxes \cup recipients(m) |->
                          IF q \in recipients(m) THEN Append(Entry(inboxes, q, << >>), m)
                          ELSE inboxes[q]]
    BY DEF publish
  <1>2. /\ GossipType /\ Subscribed /\ Delivered /\ log \in Seq(Mail) /\ n \in Nat
        /\ DOMAIN subscriptions \subseteq Peers /\ seq \in [Peers -> Nat]
    BY LenProperties DEF BrokerInv, GossipType
  <1>3. m \in Mail /\ m.from = p
    BY <1>1, <1>2 DEF P2pMessage, Malformed, Mail
  <1>4. /\ log' \in Seq(Mail) /\ Len(log') = n + 1 /\ log'[n + 1] = m
        /\ \A i \in 1 .. n : log'[i] = log[i]
    BY <1>1, <1>2, <1>3, AppendProperties
  <1>5. m.topic \in Topics
    BY <1>3 DEF Mail
  <1>6. GossipType'
    <2>1. seq' \in [Peers -> Nat]
      BY <1>1, <1>2, <1>3
    <2>2. \A q \in Peers : cursor[q] \in Nat /\ cursor[q] <= n + 1
      BY <1>2 DEF GossipType
    <2>3. ASSUME NEW q \in Peers, NEW t \in Topics, since[q][t] # Never PROVE since[q][t] <= n + 1
      <3>1. since[q][t] \in Nat /\ since[q][t] <= n
        BY <1>2, <2>3 DEF GossipType
      <3> HIDE DEF n
      <3> QED BY <1>2, <3>1
    <2>4. log' \in Seq(Mail) /\ Len(log') = n + 1
      BY <1>4
    <2> HIDE DEF n
    <2> QED BY <1>1, <1>2, <2>1, <2>2, <2>3, <2>4 DEF GossipType
  <1>7. Subscribed'
    BY <1>1, <1>2 DEF Subscribed
  <1>8. ASSUME NEW q \in Peers
        PROVE  Entry(inboxes', q, << >>) = DueIn(log', since[q], q, cursor[q])
    <2>1. Entry(inboxes, q, << >>) = DueIn(log, since[q], q, cursor[q])
      BY <1>2 DEF Delivered
    <2>2. cursor[q] \in Nat /\ cursor[q] <= n
      BY <1>2 DEF GossipType
    <2> DEFINE s == since[q]
               c == cursor[q]
    <2>3. /\ ForIn(log', s, q, n + 1) => DueIn(log', s, q, c) = Append(DueIn(log, s, q, c), log'[n + 1])
          /\ ~ ForIn(log', s, q, n + 1) => DueIn(log', s, q, c) = DueIn(log, s, q, c)
      <3>1. OneMore(log', log)
        BY <1>4 DEF OneMore
      <3>2. c \in Nat /\ c <= Len(log) /\ Len(log) \in Nat
        BY <1>2, <2>2
      <3> HIDE DEF s, c
      <3> QED BY <3>1, <3>2, DueMore
    <2>4. since[q][m.topic] # Never => since[q][m.topic] < n + 1
      <3>1. since[q][m.topic] # Never => since[q][m.topic] \in Nat /\ since[q][m.topic] <= n
        BY <1>2, <1>5 DEF GossipType
      <3> HIDE DEF n
      <3> QED BY <1>2, <3>1
    <2>5. ForIn(log', since[q], q, n + 1) <=> m.from # q /\ since[q][m.topic] # Never
      BY <1>4, <2>4 DEF ForIn
    <2>6. since[q][m.topic] # Never <=> m.topic \in Entry(subscriptions, q, {})
      BY <1>2, <1>5 DEF Subscribed
    <2>7. ForIn(log', since[q], q, n + 1) <=> q \in recipients(m)
      BY <2>5, <2>6 DEF recipients, Entry
    <2>8. Entry(inboxes', q, << >>) = IF q \in recipients(m) THEN Append(Entry(inboxes, q, << >>), m)
                                      ELSE Entry(inboxes, q, << >>)
      BY <1>1, Zenon DEF Entry
    <2>9. CASE q \in recipients(m)
      BY <1>4, <2>1, <2>3, <2>7, <2>8, <2>9, Zenon
    <2>10. CASE q \notin recipients(m)
      BY <2>1, <2>3, <2>7, <2>8, <2>10, Zenon
    <2> QED BY <2>9, <2>10
  <1>9. Delivered'
    BY <1>1, <1>8 DEF Delivered
  <1>10. log' # log /\ log'[Len(log')] = m
    BY <1>2, <1>4
  <1>11. Abstract!Publish(log'[Len(log')])
    BY <1>1, <1>10 DEF Abstract!Publish
  <1> QED BY <1>1, <1>2, <1>6, <1>7, <1>9, <1>10, <1>11 DEF BrokerInv, Abstract!Next

LEMMA BrokerReceives ==
    ASSUME BrokerInv, NEW p \in Peers, recv(p)
    PROVE  BrokerInv' /\ Abstract!Next
  <1>1. /\ got' = [got EXCEPT ![p] = @ \o Entry(inboxes, p, << >>)]
        /\ inboxes' = Insert(inboxes, p, << >>) /\ cursor' = [cursor EXCEPT ![p] = Len(log)]
        /\ UNCHANGED <<subscriptions, seq, log, since>>
    BY DEF recv
  <1>2. GossipType /\ Subscribed /\ Delivered /\ log \in Seq(Mail) /\ Len(log) \in Nat
    BY LenProperties DEF BrokerInv, GossipType
  <1>3. cursor \in [Peers -> Nat] /\ cursor' \in [Peers -> Nat] /\ cursor'[p] = Len(log)
        /\ \A q \in Peers : q # p => cursor'[q] = cursor[q]
    BY <1>1, <1>2 DEF GossipType
  <1>4. GossipType'
    BY <1>1, <1>2, <1>3 DEF GossipType
  <1>5. Subscribed'
    BY <1>1, <1>2 DEF Subscribed
  <1>6. \A q : Entry(inboxes', q, << >>) = IF q = p THEN << >> ELSE Entry(inboxes, q, << >>)
    BY <1>1, EntryInsert
  <1>7. DueIn(log, since[p], p, Len(log)) = << >>
    BY <1>2, DueNone
  <1>8. Delivered'
    BY <1>1, <1>2, <1>3, <1>6, <1>7 DEF Delivered
  <1>9. Entry(inboxes, p, << >>) = Abstract!Due(p)
    BY <1>2, DueDef DEF Delivered
  <1>10. Abstract!Read(p)
    BY <1>1, <1>9 DEF Abstract!Read
  <1> QED BY <1>1, <1>4, <1>5, <1>8, <1>10 DEF BrokerInv, Abstract!Next

(***************************************************************************)
(* The broker implements Gossip: for any peers, topics and number of       *)
(* messages, what recv hands out is what a single log with one cursor per  *)
(* peer would, once and in order, though subscribe and publish create      *)
(* tables on demand and join may come late or never.                       *)
(***************************************************************************)
THEOREM BrokerImplementsGossip == BrokerSpec => DeliversLikeGossip
  <1>1. BrokerInv /\ [BrokerNext]_broker => BrokerInv' /\ [Abstract!Next]_(Abstract!gossip)
    <2> SUFFICES ASSUME BrokerInv, [BrokerNext]_broker
                 PROVE  BrokerInv' /\ (Abstract!Next \/ UNCHANGED Abstract!gossip)
      OBVIOUS
    <2>1. ASSUME UNCHANGED broker PROVE BrokerInv' /\ UNCHANGED Abstract!gossip
      <3>1. UNCHANGED <<subscriptions, inboxes, seq, log, since, cursor, got>>
        BY <2>1 DEF broker
      <3> QED BY <3>1 DEF BrokerInv, GossipType, Subscribed, Delivered, Abstract!gossip
    <2>2. ASSUME NEW p \in Peers, join(p) PROVE BrokerInv' /\ UNCHANGED Abstract!gossip
      BY <2>2, BrokerJoins
    <2>3. ASSUME NEW p \in Peers, recv(p) PROVE BrokerInv' /\ Abstract!Next
      BY <2>3, BrokerReceives
    <2>4. ASSUME NEW p \in Peers, NEW t \in Topics \cup {OtherTopic}, subscribe(p, t)
          PROVE  BrokerInv' /\ (Abstract!Next \/ UNCHANGED Abstract!gossip)
      BY <2>4, BrokerSubscribes
    <2>5. ASSUME NEW p \in Peers, NEW m \in P2pMessage(p), publish(m) PROVE BrokerInv' /\ Abstract!Next
      BY <2>5, BrokerPublishes
    <2>6. ASSUME NEW m, publish_err(m) PROVE UNCHANGED broker
      BY <2>6 DEF publish_err
    <2> QED BY <2>1, <2>2, <2>3, <2>4, <2>5, <2>6 DEF BrokerNext
  <1>2. BrokerInit => BrokerInv /\ Abstract!Init
    BY BrokerStart
  <1> QED BY <1>1, <1>2, PTL DEF BrokerSpec, DeliversLikeGossip, Abstract!Spec

-----------------------------------------------------------------------------
(* The RocksDB store: the order of the encoded keys. *)

(* a is before b: they agree on n elements, and then a ends or has the smaller element. *)
LexAt(a, b, n) ==
    /\ n <= Len(a) /\ n < Len(b) /\ \A i \in 1 .. n : a[i] = b[i]
    /\ n = Len(a) \/ a[n + 1] < b[n + 1]
Lex(a, b) == \E n \in Nat : LexAt(a, b, n)

LEMMA BytesLex ==
    ASSUME NEW a \in Seq(Nat), NEW b \in Seq(Nat)
    PROVE  Bytes(a, b) <=> Lex(a, b)
  <1>1. Len(a) \in Nat /\ Len(b) \in Nat
    BY LenProperties
  <1>2. ASSUME NEW n \in Nat, n <= Len(a), n < Len(b)
        PROVE  SubSeq(a, 1, n) = SubSeq(b, 1, n) <=> \A i \in 1 .. n : a[i] = b[i]
    <2> DEFINE u == SubSeq(a, 1, n)
               v == SubSeq(b, 1, n)
    <2>1. u \in Seq(Nat) /\ Len(u) = n /\ \A i \in 1 .. n : u[i] = a[i]
      BY <1>1, <1>2, SubSeqProperties
    <2>2. v \in Seq(Nat) /\ Len(v) = n /\ \A i \in 1 .. n : v[i] = b[i]
      BY <1>1, <1>2, SubSeqProperties
    <2> HIDE DEF u, v
    <2>3. (\A i \in 1 .. n : u[i] = v[i]) => u = v
      BY <2>1, <2>2, SeqEqual
    <2>4. u = v <=> \A i \in 1 .. n : a[i] = b[i]
      BY <2>1, <2>2, <2>3
    <2> QED BY <2>4 DEF u, v
  <1>3. ASSUME Bytes(a, b) PROVE Lex(a, b)
    <2>1. PICK n \in 0 .. Len(a) : /\ n < Len(b) /\ SubSeq(a, 1, n) = SubSeq(b, 1, n)
                                   /\ n = Len(a) \/ a[n + 1] < b[n + 1]
      BY <1>3 DEF Bytes
    <2>2. n \in Nat /\ n <= Len(a)
      BY <1>1
    <2>3. \A i \in 1 .. n : a[i] = b[i]
      BY <1>2, <2>1, <2>2
    <2> QED BY <2>1, <2>2, <2>3 DEF Lex, LexAt
  <1>4. ASSUME Lex(a, b) PROVE Bytes(a, b)
    <2>1. PICK n \in Nat : LexAt(a, b, n)
      BY <1>4 DEF Lex
    <2>2. SubSeq(a, 1, n) = SubSeq(b, 1, n) /\ n \in 0 .. Len(a)
      BY <1>1, <1>2, <2>1 DEF LexAt
    <2> QED BY <2>1, <2>2 DEF Bytes, LexAt
  <1> QED BY <1>3, <1>4

LEMMA LexIrreflexive ==
    ASSUME NEW a \in Seq(Nat)
    PROVE  ~ Lex(a, a)
  <1> SUFFICES ASSUME NEW n \in Nat, LexAt(a, a, n) PROVE FALSE
    BY DEF Lex
  <1>1. Len(a) \in Nat /\ n < Len(a)
    BY LenProperties DEF LexAt
  <1>2. n + 1 \in 1 .. Len(a)
    BY <1>1
  <1>3. a[n + 1] \in Nat
    BY <1>2, ElementOfSeq
  <1>4. a[n + 1] < a[n + 1]
    BY <1>1 DEF LexAt
  <1> QED BY <1>3, <1>4

LEMMA LexTransitive ==
    ASSUME NEW a \in Seq(Nat), NEW b \in Seq(Nat), NEW c \in Seq(Nat), Lex(a, b), Lex(b, c)
    PROVE  Lex(a, c)
  <1>1. PICK n \in Nat : LexAt(a, b, n)
    BY DEF Lex
  <1>2. PICK m \in Nat : LexAt(b, c, m)
    BY DEF Lex
  <1>3. /\ Len(a) \in Nat /\ Len(b) \in Nat /\ Len(c) \in Nat
        /\ \A i \in 1 .. Len(a) : a[i] \in Nat
        /\ \A i \in 1 .. Len(b) : b[i] \in Nat
        /\ \A i \in 1 .. Len(c) : c[i] \in Nat
    BY LenProperties, ElementOfSeq
  <1>4. CASE n < m
    <2>1. n <= Len(a) /\ n < Len(c)
      BY <1>1, <1>2, <1>3, <1>4 DEF LexAt
    <2>2. \A i \in 1 .. n : a[i] = c[i]
      BY <1>1, <1>2, <1>4 DEF LexAt
    <2>3. n + 1 \in 1 .. m /\ b[n + 1] = c[n + 1]
      BY <1>2, <1>4 DEF LexAt
    <2>4. n = Len(a) \/ a[n + 1] < c[n + 1]
      BY <1>1, <2>3 DEF LexAt
    <2> QED BY <2>1, <2>2, <2>4 DEF Lex, LexAt
  <1>5. CASE n = m
    <2>1. n <= Len(a) /\ n < Len(c) /\ n < Len(b)
      BY <1>1, <1>2, <1>5 DEF LexAt
    <2>2. \A i \in 1 .. n : a[i] = c[i]
      BY <1>1, <1>2, <1>5 DEF LexAt
    <2>3. b[n + 1] < c[n + 1]
      BY <1>2, <1>3, <1>5, <2>1 DEF LexAt
    <2>4. n = Len(a) \/ (a[n + 1] < b[n + 1] /\ n + 1 \in 1 .. Len(a))
      BY <1>1, <1>3, <2>1 DEF LexAt
    <2>5. n + 1 \in 1 .. Len(b) /\ n + 1 \in 1 .. Len(c)
      BY <1>3, <2>1
    <2>6. n = Len(a) \/ a[n + 1] < c[n + 1]
      <3>1. b[n + 1] \in Nat /\ c[n + 1] \in Nat /\ (n = Len(a) \/ a[n + 1] \in Nat)
        BY <1>3, <2>4, <2>5
      <3> QED BY <2>3, <2>4, <3>1
    <2> QED BY <2>1, <2>2, <2>6 DEF Lex, LexAt
  <1>6. CASE n > m
    <2>1. m <= Len(a) /\ m < Len(c) /\ m # Len(b)
      BY <1>1, <1>2, <1>3, <1>6 DEF LexAt
    <2>2. \A i \in 1 .. m : a[i] = c[i]
      BY <1>1, <1>2, <1>6 DEF LexAt
    <2>3. m + 1 \in 1 .. n /\ a[m + 1] = b[m + 1]
      BY <1>1, <1>6 DEF LexAt
    <2>4. a[m + 1] < c[m + 1]
      BY <1>2, <2>1, <2>3 DEF LexAt
    <2> QED BY <2>1, <2>2, <2>4 DEF Lex, LexAt
  <1> QED BY <1>4, <1>5, <1>6

LEMMA LexTotal ==
    ASSUME NEW a \in Seq(Nat), NEW b \in Seq(Nat)
    PROVE  a = b \/ Lex(a, b) \/ Lex(b, a)
  <1> SUFFICES ASSUME ~ Lex(a, b), ~ Lex(b, a) PROVE a = b
    OBVIOUS
  <1> DEFINE S == {n \in Nat : n <= Len(a) /\ n <= Len(b) => \A i \in 1 .. n : a[i] = b[i]}
  <1>1. /\ Len(a) \in Nat /\ Len(b) \in Nat
        /\ \A i \in 1 .. Len(a) : a[i] \in Nat
        /\ \A i \in 1 .. Len(b) : b[i] \in Nat
    BY LenProperties, ElementOfSeq
  <1>2. 0 \in S
    OBVIOUS
  <1>3. ASSUME NEW n \in Nat, n \in S PROVE n + 1 \in S
    <2> SUFFICES ASSUME n + 1 <= Len(a), n + 1 <= Len(b), NEW i \in 1 .. n + 1 PROVE a[i] = b[i]
      OBVIOUS
    <2>1. n <= Len(a) /\ n <= Len(b) /\ n < Len(a) /\ n < Len(b)
      BY <1>1
    <2>2. \A j \in 1 .. n : a[j] = b[j]
      BY <1>3, <2>1
    <2>3. ~ (a[n + 1] < b[n + 1])
      BY <2>1, <2>2 DEF Lex, LexAt
    <2>4. ~ (b[n + 1] < a[n + 1])
      BY <2>1, <2>2 DEF Lex, LexAt
    <2>5. n + 1 \in 1 .. Len(a) /\ n + 1 \in 1 .. Len(b)
      BY <1>1
    <2>6. a[n + 1] = b[n + 1]
      BY <1>1, <2>3, <2>4, <2>5
    <2>7. i \in 1 .. n \/ i = n + 1
      OBVIOUS
    <2> QED BY <2>2, <2>6, <2>7
  <1>4. Nat \subseteq S
    <2> HIDE DEF S
    <2> QED BY <1>2, <1>3, NatSetInduction
  <1>5. \A n \in Nat : n <= Len(a) /\ n <= Len(b) => \A i \in 1 .. n : a[i] = b[i]
    BY <1>4
  <1>6. Len(a) = Len(b)
    <2>1. CASE Len(a) < Len(b)
      <3>1. LexAt(a, b, Len(a))
        BY <1>1, <1>5, <2>1 DEF LexAt
      <3> QED BY <1>1, <3>1 DEF Lex
    <2>2. CASE Len(b) < Len(a)
      <3>1. LexAt(b, a, Len(b))
        BY <1>1, <1>5, <2>2 DEF LexAt
      <3> QED BY <1>1, <3>1 DEF Lex
    <2> QED BY <1>1, <2>1, <2>2
  <1> QED BY <1>1, <1>5, <1>6, SeqEqual

LEMMA CellParts ==
    ASSUME NEW c \in Cells
    PROVE  c = <<c[1], c[2]>> /\ c[1] \in Nat /\ c[2] \in Seq(Nat) /\ Len(c[2]) \in Nat
  <1>1. c \in Nat \X Seq(Nat)
    BY CellsAssumption
  <1>2. c = <<c[1], c[2]>> /\ c[1] \in Nat /\ c[2] \in Seq(Nat)
    BY <1>1
  <1> QED BY <1>2, LenProperties

(* An encoded key is the subtree's byte and then the key. *)
LEMMA KeyParts ==
    ASSUME NEW c \in Cells
    PROVE  /\ encode_key(c) \in Seq(Nat) /\ Len(encode_key(c)) = Len(c[2]) + 1
           /\ encode_key(c)[1] = c[1]
           /\ \A i \in 1 .. Len(c[2]) : encode_key(c)[i + 1] = c[2][i]
           /\ Tail(encode_key(c)) = c[2]
  <1> DEFINE x == <<c[1]>>
             u == c[2]
             k == encode_key(c)
  <1>1. u \in Seq(Nat) /\ Len(u) \in Nat /\ c[1] \in Nat
    BY CellParts
  <1>2. x \in Seq(Nat) /\ Len(x) = 1 /\ x[1] = c[1]
    BY <1>1
  <1> HIDE DEF x, u
  <1>3. k = x \o u
    BY DEF encode_key, x, u
  <1> HIDE DEF k
  <1>4. /\ k \in Seq(Nat) /\ Len(k) = 1 + Len(u)
        /\ \A i \in 1 .. 1 + Len(u) : k[i] = IF i <= 1 THEN x[i] ELSE u[i - 1]
    <2>1. /\ x \o u \in Seq(Nat) /\ Len(x \o u) = Len(x) + Len(u)
          /\ \A i \in 1 .. Len(x) + Len(u) :
                 (x \o u)[i] = IF i <= Len(x) THEN x[i] ELSE u[i - Len(x)]
      BY <1>1, <1>2, ConcatProperties
    <2>2. /\ k \in Seq(Nat) /\ Len(k) = Len(x) + Len(u)
          /\ \A i \in 1 .. Len(x) + Len(u) : k[i] = IF i <= Len(x) THEN x[i] ELSE u[i - Len(x)]
      BY <1>3, <2>1, Zenon
    <2> QED BY <1>2, <2>2
  <1>5. k[1] = c[1]
    BY <1>1, <1>2, <1>4
  <1>6. ASSUME NEW i \in 1 .. Len(u) PROVE k[i + 1] = u[i]
    <2>1. i + 1 \in 1 .. 1 + Len(u) /\ ~ (i + 1 <= 1) /\ i + 1 - 1 = i
      BY <1>1
    <2> QED BY <1>4, <2>1
  <1>7. k # << >>
    BY <1>1, <1>4, EmptySeq
  <1>8. Tail(k) \in Seq(Nat) /\ Len(Tail(k)) = Len(u) /\ \A i \in 1 .. Len(u) : Tail(k)[i] = k[i + 1]
    <2>1. Tail(k) \in Seq(Nat) /\ Len(Tail(k)) = Len(k) - 1
          /\ \A i \in 1 .. Len(Tail(k)) : Tail(k)[i] = k[i + 1]
      BY <1>4, <1>7, HeadTailProperties
    <2>2. Len(k) - 1 = Len(u)
      BY <1>1, <1>4
    <2> QED BY <2>1, <2>2
  <1>9. Tail(k) = u
    BY <1>1, <1>6, <1>8, SeqEqual
  <1>10. Len(k) = Len(u) + 1
    BY <1>1, <1>4
  <1> QED BY <1>4, <1>5, <1>6, <1>9, <1>10 DEF k, u

LEMMA KeyInjective ==
    ASSUME NEW c \in Cells, NEW d \in Cells, encode_key(c) = encode_key(d)
    PROVE  c = d
  <1>1. encode_key(c)[1] = c[1] /\ Tail(encode_key(c)) = c[2]
    BY KeyParts
  <1>2. encode_key(d)[1] = d[1] /\ Tail(encode_key(d)) = d[2]
    BY KeyParts
  <1>3. c[1] = d[1] /\ c[2] = d[2]
    BY <1>1, <1>2
  <1> QED BY <1>3, CellParts

(* Encoded keys are in the order of the cells: subtree first, and then by key. *)
LEMMA KeysKeepOrder ==
    ASSUME NEW c \in Cells, NEW d \in Cells
    PROVE  Bytes(encode_key(c), encode_key(d)) <=> MemBefore(c, d)
  <1> DEFINE a == encode_key(c)
             b == encode_key(d)
             u == c[2]
             v == d[2]
  <1>1. /\ u \in Seq(Nat) /\ v \in Seq(Nat) /\ Len(u) \in Nat /\ Len(v) \in Nat
        /\ c[1] \in Nat /\ d[1] \in Nat
    BY CellParts
  <1>2. /\ a \in Seq(Nat) /\ Len(a) = Len(u) + 1 /\ a[1] = c[1] /\ \A i \in 1 .. Len(u) : a[i + 1] = u[i]
    BY KeyParts
  <1>3. /\ b \in Seq(Nat) /\ Len(b) = Len(v) + 1 /\ b[1] = d[1] /\ \A i \in 1 .. Len(v) : b[i + 1] = v[i]
    BY KeyParts
  <1> HIDE DEF a, b, u, v
  <1>4. Bytes(a, b) <=> Lex(a, b)
    BY <1>2, <1>3, BytesLex
  <1>5. Bytes(u, v) <=> Lex(u, v)
    BY <1>1, BytesLex
  <1>6. ASSUME Lex(a, b) PROVE c[1] < d[1] \/ (c[1] = d[1] /\ Lex(u, v))
    <2>1. PICK n \in Nat : LexAt(a, b, n)
      BY <1>6 DEF Lex
    <2>2. CASE n = 0
      BY <1>1, <1>2, <1>3, <2>1, <2>2 DEF LexAt
    <2>3. CASE n # 0
      <3> DEFINE m == n - 1
      <3>1. m \in Nat /\ n = m + 1
        BY <2>3
      <3> HIDE DEF m
      <3>2. m <= Len(u) /\ m < Len(v) /\ 1 \in 1 .. n
        BY <1>1, <1>2, <1>3, <2>1, <3>1 DEF LexAt
      <3>3. c[1] = d[1]
        BY <1>2, <1>3, <2>1, <3>2 DEF LexAt
      <3>4. ASSUME NEW i \in 1 .. m PROVE u[i] = v[i]
        <4>1. i + 1 \in 1 .. n /\ i \in 1 .. Len(u) /\ i \in 1 .. Len(v)
          BY <1>1, <3>1, <3>2
        <4>2. a[i + 1] = b[i + 1]
          BY <2>1, <4>1 DEF LexAt
        <4> QED BY <1>2, <1>3, <4>1, <4>2
      <3>5. m = Len(u) \/ u[m + 1] < v[m + 1]
        <4>1. CASE n = Len(a)
          BY <1>1, <1>2, <3>1, <4>1
        <4>2. CASE n # Len(a)
          <5>1. m + 1 \in 1 .. Len(u) /\ m + 1 \in 1 .. Len(v)
            <6>1. m # Len(u)
              BY <1>1, <1>2, <3>1, <4>2
            <6> QED BY <1>1, <3>1, <3>2, <6>1
          <5>2. a[m + 1 + 1] < b[m + 1 + 1]
            BY <2>1, <3>1, <4>2 DEF LexAt
          <5> QED BY <1>2, <1>3, <5>1, <5>2
        <4> QED BY <4>1, <4>2
      <3>6. LexAt(u, v, m)
        BY <3>2, <3>4, <3>5 DEF LexAt
      <3> QED BY <3>1, <3>3, <3>6 DEF Lex
    <2> QED BY <2>2, <2>3
  <1>7. ASSUME c[1] < d[1] PROVE Lex(a, b)
    <2>1. LexAt(a, b, 0)
      BY <1>1, <1>2, <1>3, <1>7 DEF LexAt
    <2> QED BY <2>1 DEF Lex
  <1>8. ASSUME c[1] = d[1], Lex(u, v) PROVE Lex(a, b)
    <2>1. PICK m \in Nat : LexAt(u, v, m)
      BY <1>8 DEF Lex
    <2> DEFINE n == m + 1
    <2>2. n <= Len(a) /\ n < Len(b) /\ n \in Nat
      BY <1>1, <1>2, <1>3, <2>1 DEF LexAt
    <2>3. ASSUME NEW i \in 1 .. n PROVE a[i] = b[i]
      <3>1. CASE i = 1
        BY <1>2, <1>3, <1>8, <3>1
      <3>2. CASE i # 1
        <4> DEFINE j == i - 1
        <4>1. j \in 1 .. m /\ i = j + 1
          BY <3>2
        <4> HIDE DEF j
        <4>2. j \in 1 .. Len(u) /\ j \in 1 .. Len(v) /\ u[j] = v[j]
          BY <1>1, <2>1, <4>1 DEF LexAt
        <4> QED BY <1>2, <1>3, <4>1, <4>2
      <3> QED BY <3>1, <3>2
    <2>4. n = Len(a) \/ a[n + 1] < b[n + 1]
      <3>1. CASE m = Len(u)
        BY <1>2, <3>1
      <3>2. CASE m # Len(u)
        <4>1. n \in 1 .. Len(u) /\ n \in 1 .. Len(v) /\ u[n] < v[n]
          BY <1>1, <2>1, <3>2 DEF LexAt
        <4> HIDE DEF n
        <4> QED BY <1>2, <1>3, <4>1
      <3> QED BY <3>1, <3>2
    <2> HIDE DEF n
    <2>5. LexAt(a, b, n)
      BY <2>2, <2>3, <2>4 DEF LexAt
    <2> QED BY <2>2, <2>5 DEF Lex
  <1>9. MemBefore(c, d) <=> c[1] < d[1] \/ (c[1] = d[1] /\ Bytes(u, v))
    BY DEF MemBefore, u, v
  <1>10. Bytes(a, b) <=> MemBefore(c, d)
    BY <1>4, <1>5, <1>6, <1>7, <1>8, <1>9
  <1> QED BY <1>10 DEF a, b

LEMMA MemOrderIsStrict ==
    ASSUME NEW D, D \subseteq Cells
    PROVE  StrictOrder(MemOrder(D), D)
  <1>1. \A c, d \in D : <<c, d>> \in MemOrder(D) <=> MemBefore(c, d)
    BY DEF MemOrder
  <1>2. \A c \in D : c = <<c[1], c[2]>> /\ c[1] \in Nat /\ c[2] \in Seq(Nat)
    BY CellParts
  <1>3. \A c, d \in D : MemBefore(c, d) <=> c[1] < d[1] \/ (c[1] = d[1] /\ Lex(c[2], d[2]))
    BY <1>2, BytesLex DEF MemBefore
  <1>4. \A c \in D : ~ MemBefore(c, c)
    BY <1>2, <1>3, LexIrreflexive
  <1>5. ASSUME NEW c \in D, NEW d \in D, NEW e \in D, MemBefore(c, d), MemBefore(d, e)
        PROVE  MemBefore(c, e)
    <2>1. c[1] = d[1] /\ d[1] = e[1] /\ Lex(c[2], d[2]) /\ Lex(d[2], e[2]) => Lex(c[2], e[2])
      BY <1>2, LexTransitive
    <2> QED BY <1>2, <1>3, <1>5, <2>1
  <1>6. ASSUME NEW c \in D, NEW d \in D PROVE c = d \/ MemBefore(c, d) \/ MemBefore(d, c)
    <2>1. c[2] = d[2] \/ Lex(c[2], d[2]) \/ Lex(d[2], c[2])
      BY <1>2, LexTotal
    <2>2. CASE c[1] # d[1]
      BY <1>2, <1>3, <2>2
    <2>3. CASE c[1] = d[1] /\ c[2] = d[2]
      BY <1>2, <2>3
    <2>4. CASE c[1] = d[1] /\ c[2] # d[2]
      BY <1>3, <2>1, <2>4
    <2> QED BY <2>2, <2>3, <2>4
  <1> QED BY <1>1, <1>4, <1>5, <1>6 DEF StrictOrder

-----------------------------------------------------------------------------
(* The entries of a store that holds MemState's cells and no others. *)

KeysOf(D) == {encode_key(c) : c \in D}

LEMMA KeysCounted ==
    ASSUME NEW D, D \subseteq Cells, IsFiniteSet(D)
    PROVE  IsFiniteSet(KeysOf(D)) /\ Cardinality(KeysOf(D)) = Cardinality(D)
  <1> DEFINE f == [c \in D |-> encode_key(c)]
  <1>1. f \in [D -> KeysOf(D)] /\ \A c \in D : f[c] = encode_key(c)
    BY DEF KeysOf
  <1>2. \A c, d \in D : f[c] = f[d] => c = d
    BY <1>1, KeyInjective
  <1>3. \A k \in KeysOf(D) : \E c \in D : f[c] = k
    BY <1>1 DEF KeysOf
  <1> HIDE DEF f
  <1>4. f \in Bijection(D, KeysOf(D))
    BY <1>1, <1>2, <1>3 DEF Bijection, Injection, Surjection, IsInjective
  <1>5. ExistsBijection(D, KeysOf(D))
    BY <1>4 DEF ExistsBijection
  <1> QED BY <1>5, FS_Bijection

(* As many keys come before a cell's key as cells before the cell. *)
LEMMA KeyRank ==
    ASSUME NEW D, D \subseteq Cells, IsFiniteSet(D), NEW c \in D
    PROVE  Cardinality(Below(KeyOrder(KeysOf(D)), KeysOf(D), encode_key(c)))
               = Cardinality(Below(MemOrder(D), D, c))
  <1> DEFINE B == Below(MemOrder(D), D, c)
             E == KeysOf(D)
  <1>1. \A d \in D : d \in B <=> MemBefore(d, c)
    BY DEF Below, MemOrder
  <1>2. B \subseteq D
    BY DEF Below
  <1>3. \A k \in E : <<k, encode_key(c)>> \in KeyOrder(E) <=> Bytes(k, encode_key(c))
    BY DEF KeyOrder, KeysOf
  <1>4. \A d \in D : Bytes(encode_key(d), encode_key(c)) <=> MemBefore(d, c)
    BY KeysKeepOrder
  <1>5. \A k : k \in E <=> \E d \in D : k = encode_key(d)
    BY DEF KeysOf
  <1>6. \A k : k \in KeysOf(B) <=> \E d \in B : k = encode_key(d)
    BY DEF KeysOf
  <1> HIDE DEF B, E
  <1>7. \A k : k \in Below(KeyOrder(E), E, encode_key(c)) <=> k \in E /\ Bytes(k, encode_key(c))
    BY <1>3 DEF Below
  <1>8. Below(KeyOrder(E), E, encode_key(c)) = KeysOf(B)
    BY <1>1, <1>2, <1>4, <1>5, <1>6, <1>7
  <1>9. IsFiniteSet(B) /\ B \subseteq Cells
    BY <1>2, FS_Subset
  <1> QED BY <1>8, <1>9, KeysCounted DEF B, E

(* The i-th key is the key of the i-th cell. *)
LEMMA SortedKeys ==
    ASSUME NEW D, D \subseteq Cells, IsFiniteSet(D), NEW i \in 1 .. Cardinality(D)
    PROVE  /\ Sorted(D, MemOrder(D))[i] \in D
           /\ Sorted(KeysOf(D), KeyOrder(KeysOf(D)))[i] = encode_key(Sorted(D, MemOrder(D))[i])
  <1> DEFINE R == MemOrder(D)
             E == KeysOf(D)
             rank(c) == Cardinality(Below(R, D, c))
             keyrank(k) == Cardinality(Below(KeyOrder(E), E, k))
             c == Sorted(D, R)[i]
             k == Sorted(E, KeyOrder(E))[i]
  <1>1. /\ Cardinality(D) \in Nat /\ Numbering([h \in D |-> rank(h)], R, D)
        /\ \A j \in 0 .. Cardinality(D) - 1 : \E h \in D : rank(h) = j
    BY MemOrderIsStrict, Ranking
  <1>2. StrictOrder(R, D)
    BY MemOrderIsStrict
  <1>3. c = CHOOSE x \in D : rank(x) = i - 1
    BY DEF Sorted, Below
  <1>4. k = CHOOSE x \in E : keyrank(x) = i - 1
    <2>1. i \in 1 .. Cardinality(E)
      BY KeysCounted
    <2> QED BY <2>1 DEF Sorted, Below
  <1>5. i - 1 \in 0 .. Cardinality(D) - 1
    BY <1>1
  <1>6. \A d \in D : encode_key(d) \in E /\ keyrank(encode_key(d)) = rank(d)
    <2>1. \A d \in D : encode_key(d) \in E
      BY DEF KeysOf
    <2>2. \A d \in D : keyrank(encode_key(d)) = rank(d)
      BY KeyRank
    <2> QED BY <2>1, <2>2
  <1>7. \A x \in E : \E d \in D : x = encode_key(d)
    BY DEF KeysOf
  <1>8. ASSUME NEW g \in D, NEW h \in D, rank(g) = rank(h) PROVE g = h
    <2>1. rank(g) \in Nat /\ rank(h) \in Nat
      BY <1>1 DEF Numbering
    <2>2. <<g, h>> \in R => rank(g) < rank(h)
      BY <1>1 DEF Numbering
    <2>3. <<h, g>> \in R => rank(h) < rank(g)
      BY <1>1 DEF Numbering
    <2>4. g = h \/ <<g, h>> \in R \/ <<h, g>> \in R
      BY <1>2 DEF StrictOrder
    <2> HIDE DEF rank
    <2> QED BY <1>8, <2>1, <2>2, <2>3, <2>4
  <1> HIDE DEF rank, keyrank, E, R
  <1>9. c \in D /\ rank(c) = i - 1
    BY <1>1, <1>3, <1>5
  <1>10. k \in E /\ keyrank(k) = i - 1
    <2>1. \E x \in E : keyrank(x) = i - 1
      BY <1>6, <1>9
    <2> QED BY <1>4, <2>1
  <1> HIDE DEF c, k
  <1>11. PICK d \in D : k = encode_key(d)
    BY <1>7, <1>10
  <1>12. d = c
    BY <1>6, <1>8, <1>9, <1>10, <1>11
  <1> QED BY <1>9, <1>11, <1>12 DEF c, k, E, R

(* The store holds the cells of MemState with their values. *)
Holding == \A c \in DOMAIN mem : encode_key(c) \in DOMAIN db /\ db[encode_key(c)] = mem[c]

LEMMA SameEntries ==
    ASSUME DOMAIN mem \subseteq Cells, IsFiniteSet(DOMAIN mem), Holding, Foreign = {}
    PROVE  /\ DOMAIN db = KeysOf(DOMAIN mem)
           /\ Entries(DOMAIN db) = MemRoot
  <1> DEFINE D == DOMAIN mem
  <1>1. DOMAIN db = KeysOf(D)
    BY DEF Foreign, Holding, KeysOf
  <1>2. Cardinality(DOMAIN db) = Cardinality(D)
    BY <1>1, KeysCounted
  <1>3. ASSUME NEW i \in 1 .. Cardinality(D)
        PROVE  KeyEntry(Sorted(DOMAIN db, KeyOrder(DOMAIN db))[i]) = MemEntry(Sorted(D, MemOrder(D))[i])
    <2> DEFINE c == Sorted(D, MemOrder(D))[i]
               k == Sorted(DOMAIN db, KeyOrder(DOMAIN db))[i]
    <2>1. c \in D /\ k = encode_key(c)
      BY <1>1, SortedKeys
    <2> HIDE DEF c, k
    <2>2. c \in Cells /\ db[k] = mem[c]
      BY <2>1 DEF Holding
    <2>3. k[1] = c[1] /\ Len(k) = Len(c[2]) + 1 /\ Tail(k) = c[2] /\ Len(c[2]) \in Nat
      BY <2>1, <2>2, KeyParts, CellParts
    <2>4. Len(k) - 1 = Len(c[2])
      BY <2>3
    <2>5. KeyEntry(k) = MemEntry(c)
      BY <2>2, <2>3, <2>4 DEF KeyEntry, MemEntry
    <2> QED BY <2>5 DEF c, k
  <1> QED BY <1>1, <1>2, <1>3 DEF Entries, MemRoot

(* The invariant: a store that took over holds the cells, and a root in the cache that skipped
   nothing is the root of what is stored. *)
RocksInv ==
    /\ DOMAIN mem \subseteq Cells /\ IsFiniteSet(DOMAIN mem)
    /\ migrated => Holding
    /\ cached_root # NoRoot /\ ~ misread => cached_root = Entries(DOMAIN db)

LEMMA RocksStarts == RocksInit => RocksInv
  <1> SUFFICES ASSUME RocksInit PROVE RocksInv
    OBVIOUS
  <1>1. DOMAIN mem = {}
    BY DEF RocksInit
  <1>2. IsFiniteSet({})
    BY FS_EmptySet
  <1> QED BY <1>1, <1>2 DEF RocksInit, RocksInv

LEMMA RocksStep == RocksInv /\ [RocksNext]_rocks => RocksInv'
  <1> SUFFICES ASSUME RocksInv, [RocksNext]_rocks PROVE RocksInv'
    OBVIOUS
  <1>1. ASSUME NEW c \in Cells, NEW v \in Values, put(c, v) PROVE RocksInv'
    <2>1. /\ mem' = Put(mem, c, v) /\ migrated' = migrated
          /\ migrated => db' = Put(db, encode_key(c), v) /\ cached_root' = NoRoot
          /\ ~ migrated => UNCHANGED <<db, cached_root, misread>>
      BY <1>1 DEF put
    <2>2. /\ DOMAIN mem' = DOMAIN mem \cup {c} /\ mem'[c] = v
          /\ \A d \in DOMAIN mem : d # c => mem'[d] = mem[d]
      BY <2>1 DEF Put
    <2>3. DOMAIN mem' \subseteq Cells /\ IsFiniteSet(DOMAIN mem')
      BY <2>2, FS_AddElement DEF RocksInv
    <2>4. CASE migrated
      <3>1. /\ DOMAIN db' = DOMAIN db \cup {encode_key(c)} /\ db'[encode_key(c)] = v
            /\ \A k \in DOMAIN db : k # encode_key(c) => db'[k] = db[k]
        BY <2>1, <2>4 DEF Put
      <3>2. ASSUME NEW d \in DOMAIN mem'
            PROVE  encode_key(d) \in DOMAIN db' /\ db'[encode_key(d)] = mem'[d]
        <4>1. CASE d = c
          BY <2>2, <3>1, <4>1
        <4>2. CASE d # c
          <5>1. d \in DOMAIN mem /\ d \in Cells
            BY <2>2, <4>2 DEF RocksInv
          <5>2. encode_key(d) # encode_key(c)
            BY <4>2, <5>1, KeyInjective
          <5>3. encode_key(d) \in DOMAIN db /\ db[encode_key(d)] = mem[d]
            BY <2>4, <5>1 DEF RocksInv, Holding
          <5> QED BY <2>2, <3>1, <4>2, <5>1, <5>2, <5>3
        <4> QED BY <4>1, <4>2
      <3>3. Holding'
        BY <3>2 DEF Holding
      <3> QED BY <2>1, <2>3, <2>4, <3>3 DEF RocksInv
    <2>5. CASE ~ migrated
      <3>1. Entries(DOMAIN db)' = Entries(DOMAIN db)
        BY <2>1, <2>5 DEF Entries, KeyEntry
      <3> QED BY <2>1, <2>3, <2>5, <3>1 DEF RocksInv
    <2> QED BY <2>4, <2>5
  <1>2. ASSUME UNCHANGED <<mem, db, migrated>>,
               \/ cached_root' = NoRoot
               \/ misread' = TRUE
               \/ misread' = misread /\ cached_root' \in {cached_root, Entries(DOMAIN db)}
        PROVE  RocksInv'
    <2>1. Entries(DOMAIN db)' = Entries(DOMAIN db) /\ (Holding <=> Holding')
      BY <1>2 DEF Entries, KeyEntry, Holding
    <2> QED BY <1>2, <2>1 DEF RocksInv
  <1>3. CASE import_from
    <2>1. /\ UNCHANGED mem /\ cached_root' = NoRoot
          /\ db' = [k \in DOMAIN db \cup {encode_key(c) : c \in DOMAIN mem} |->
                       IF \E c \in DOMAIN mem : encode_key(c) = k
                       THEN mem[CHOOSE c \in DOMAIN mem : encode_key(c) = k] ELSE db[k]]
      BY <1>3 DEF import_from
    <2>2. ASSUME NEW c \in DOMAIN mem
          PROVE  encode_key(c) \in DOMAIN db' /\ db'[encode_key(c)] = mem[c]
      <3> DEFINE k == encode_key(c)
                 d == CHOOSE x \in DOMAIN mem : encode_key(x) = k
      <3>1. d \in DOMAIN mem /\ encode_key(d) = k
        OBVIOUS
      <3>2. d = c
        BY <3>1, KeyInjective DEF RocksInv
      <3>3. k \in DOMAIN db' /\ db'[k] = mem[d]
        BY <2>1
      <3> QED BY <3>2, <3>3
    <2>3. Holding'
      BY <2>1, <2>2 DEF Holding
    <2> QED BY <2>1, <2>3 DEF RocksInv
  <1>4. CASE put_panics
    BY <1>2, <1>4 DEF put_panics
  <1>5. CASE call_root
    BY <1>2, <1>5 DEF call_root, root
  <1>6. CASE call_root_misreads
    BY <1>2, <1>6 DEF call_root_misreads
  <1>7. CASE open
    BY <1>2, <1>7 DEF open
  <1>8. CASE UNCHANGED rocks
    BY <1>2, <1>8 DEF rocks
  <1> QED BY <1>1, <1>3, <1>4, <1>5, <1>6, <1>7, <1>8 DEF RocksNext

(***************************************************************************)
(* A RocksDB store that took over from MemState answers every get like it  *)
(* and has its state_root byte for byte, for any keys and values and any   *)
(* sequence of puts, roots, restarts, panics and misreads, under the two   *)
(* conditions of AnswersLikeMemState.  The walk over the encoded keys      *)
(* meets the cells in BTreeMap's order because the subtree is one byte.    *)
(***************************************************************************)
THEOREM StoreAnswersLikeMemState == RocksSpec => []AnswersLikeMemState
  <1>1. RocksInv => AnswersLikeMemState
    <2> SUFFICES ASSUME RocksInv, migrated, Foreign = {}
                 PROVE  /\ \A c \in Cells : get(c) = MemGet(c)
                        /\ ~ misread => root = MemRoot
      BY DEF AnswersLikeMemState
    <2>1. DOMAIN mem \subseteq Cells /\ IsFiniteSet(DOMAIN mem) /\ Holding
      BY DEF RocksInv
    <2>2. DOMAIN db = KeysOf(DOMAIN mem) /\ Entries(DOMAIN db) = MemRoot
      BY <2>1, SameEntries
    <2>3. ASSUME NEW c \in Cells PROVE get(c) = MemGet(c)
      <3>1. CASE c \in DOMAIN mem
        BY <2>1, <3>1 DEF Holding, get, MemGet
      <3>2. CASE c \notin DOMAIN mem
        <4>1. encode_key(c) \notin DOMAIN db
          BY <2>1, <2>2, <3>2, KeyInjective DEF KeysOf
        <4> QED BY <3>2, <4>1 DEF get, MemGet
      <3> QED BY <3>1, <3>2
    <2>4. ~ misread => root = MemRoot
      BY <2>2 DEF RocksInv, root
    <2> QED BY <2>3, <2>4
  <1> QED BY <1>1, RocksStarts, RocksStep, PTL DEF RocksSpec
=============================================================================
