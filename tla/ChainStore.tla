----------------------------- MODULE ChainStore -----------------------------
(***************************************************************************)
(* The chain log (crates/node/src/chainstore.rs): one file of records, a   *)
(* length prefix and then a CBOR body, and the cached tip and count.  The  *)
(* file is a sequence of cells, a cell being one piece of one record, so   *)
(* that a write can stop inside a prefix or inside a body.  append writes  *)
(* prefix and body with two calls and never syncs the file.                *)
(***************************************************************************)
EXTENDS Naturals, Sequences

CONSTANTS
    Blocks,        \* blocks that may be appended
    LenCells,      \* pieces of a length prefix (4 bytes)
    BodyCells,     \* pieces of a body
    None,          \* Option::None
    IoErrors,      \* TRUE if a write may fail (disk full)
    PowerLoss,     \* TRUE if the machine may lose what it has not written back
    MaxRecords     \* bound: records in the file

ASSUME CellAssumption == LenCells \in Nat \ {0} /\ BodyCells \in Nat \ {0}
ASSUME FaultAssumption == IoErrors \in BOOLEAN /\ PowerLoss \in BOOLEAN

VARIABLES
    file,          \* contents of chain.log
    synced,        \* cells that are on the device and not only in the page cache
    up,            \* "running", "down", or "failed" when open() returns an error
    count, tip,    \* CacheState
    writing,       \* block and number of cells written, while append holds the lock
    acked          \* history: position and block of every append that returned Ok since the
                   \* last power loss

store == <<file, synced, up, count, tip, writing, acked>>

-----------------------------------------------------------------------------
RecordCells == LenCells + BodyCells

ASSUME NoneAssumption == None \notin [block : Blocks, cells : 0 .. RecordCells]

Record(b) == [k \in 1 .. RecordCells |-> <<b, k>>]

\* Mutant: reading stops quietly at the first record that is not whole.
read_all_stops_quietly(f) ==
    LET R[p \in 0 .. Len(f)] ==
            IF /\ p + RecordCells <= Len(f)
               /\ \E b \in Blocks : SubSeq(f, p + 1, p + RecordCells) = Record(b)
            THEN <<f[p + 1][1]>> \o R[p + RecordCells]
            ELSE << >>
    IN [ok |-> TRUE, blocks |-> R[0]]

\* read_all_from_disk from cell p + 1 on.  Fewer cells than a prefix read as end of file; a
\* short body, or cells that are not one block's record, fail in read_exact or in CBOR.
read_all_from_disk(f) ==
    LET R[p \in 0 .. Len(f)] ==
            IF Len(f) - p < LenCells THEN [ok |-> TRUE, blocks |-> << >>]
            ELSE IF /\ p + RecordCells <= Len(f)
                    /\ \E b \in Blocks : SubSeq(f, p + 1, p + RecordCells) = Record(b)
                 THEN [ok |-> R[p + RecordCells].ok,
                       blocks |-> <<f[p + 1][1]>> \o R[p + RecordCells].blocks]
                 ELSE [ok |-> FALSE, blocks |-> << >>]
    IN R[0]

Last(s) == IF s = << >> THEN None ELSE s[Len(s)]

StoreInit ==
    /\ file = << >> /\ synced = 0 /\ up = "down"
    /\ count = 0 /\ tip = None /\ writing = None /\ acked = {}

\* open and prime
Open ==
    /\ up = "down" /\ read_all_from_disk(file).ok
    /\ up' = "running"
    /\ count' = Len(read_all_from_disk(file).blocks)
    /\ tip' = Last(read_all_from_disk(file).blocks)
    /\ UNCHANGED <<file, synced, writing, acked>>

OpenFails ==
    /\ up = "down" /\ ~ read_all_from_disk(file).ok
    /\ up' = "failed"
    /\ UNCHANGED <<file, synced, count, tip, writing, acked>>

\* append: take the lock and encode the block.
BeginAppend(b) ==
    /\ up = "running" /\ writing = None /\ Len(file) < MaxRecords * RecordCells
    /\ writing' = [block |-> b, cells |-> 0]
    /\ UNCHANGED <<file, synced, up, count, tip, acked>>

\* What the write_all in progress is to write: the prefix, then the body.
PortionCells == IF writing.cells = 0 THEN LenCells ELSE BodyCells

\* Mutant: append opens the file with truncate.
Written_truncates(n) ==
    (IF writing.cells = 0 THEN << >> ELSE file)
        \o SubSeq(Record(writing.block), writing.cells + 1, writing.cells + n)

\* The file, opened in append mode, after n more cells of the record.
Written(n) == file \o SubSeq(Record(writing.block), writing.cells + 1, writing.cells + n)

WriteAll ==
    /\ up = "running" /\ writing # None /\ writing.cells < RecordCells
    /\ file' = Written(PortionCells)
    /\ writing' = [writing EXCEPT !.cells = @ + PortionCells]
    /\ UNCHANGED <<synced, up, count, tip, acked>>

\* write_all fails after n cells: append returns the error with the cache as it was.
WriteFails(n) ==
    /\ IoErrors /\ up = "running" /\ writing # None /\ writing.cells < RecordCells
    /\ n < PortionCells
    /\ file' = Written(n) /\ writing' = None
    /\ UNCHANGED <<synced, up, count, tip, acked>>

\* flush (a no-op on a File), the cache update, the release of the lock.
FinishAppend ==
    /\ up = "running" /\ writing # None /\ writing.cells = RecordCells
    /\ count' = count + 1 /\ tip' = writing.block /\ writing' = None
    /\ acked' = acked \cup {<<count + 1, writing.block>>}
    /\ UNCHANGED <<file, synced, up>>

\* The kernel writes dirty pages back when it likes.
WriteBack ==
    /\ PowerLoss /\ synced < Len(file)
    /\ synced' = synced + 1
    /\ UNCHANGED <<file, up, count, tip, writing, acked>>

Down == up' = "down" /\ count' = 0 /\ tip' = None /\ writing' = None

\* The process dies; the page cache keeps what it wrote.
Kill == up = "running" /\ Down /\ UNCHANGED <<file, synced, acked>>

\* The machine dies; what was not written back may be cut off anywhere.
Outage(n) ==
    /\ PowerLoss /\ up = "running" /\ Down
    /\ n >= synced /\ file' = SubSeq(file, 1, n)
    /\ acked' = {}
    /\ UNCHANGED synced

StoreNext ==
    \/ Open \/ OpenFails
    \/ \E b \in Blocks : BeginAppend(b)
    \/ WriteAll \/ (\E n \in 0 .. RecordCells : WriteFails(n)) \/ FinishAppend
    \/ WriteBack \/ Kill \/ \E n \in 0 .. Len(file) : Outage(n)

StoreSpec == StoreInit /\ [][StoreNext]_store

-----------------------------------------------------------------------------
\* Cells in the file, a cache that counts blocks, a block in the middle of its append.
StoreTypeOK ==
    /\ file \in Seq(Blocks \X (1 .. RecordCells))
    /\ synced \in 0 .. Len(file)
    /\ up \in {"running", "down", "failed"}
    /\ count \in Nat /\ tip \in Blocks \cup {None}
    /\ writing \in [block : Blocks, cells : 0 .. RecordCells] \cup {None}
    /\ acked \subseteq (Nat \ {0}) \X Blocks

Unlocked == up = "running" /\ writing = None

\* Whatever has failed, a log that can be read whole agrees with the cache: a torn record
\* is never read as a block, and never hides one that append has acknowledged.
ReadableMeansCached ==
    Unlocked /\ read_all_from_disk(file).ok =>
        /\ count = Len(read_all_from_disk(file).blocks)
        /\ tip = Last(read_all_from_disk(file).blocks)

\* A block acknowledged as the n-th since the last power loss is the n-th of every reading
\* that succeeds, whatever kills and failed writes lie between and whatever they left.
AckedSurvives ==
    read_all_from_disk(file).ok =>
        \A p \in acked : /\ p[1] <= Len(read_all_from_disk(file).blocks)
                         /\ read_all_from_disk(file).blocks[p[1]] = p[2]
=============================================================================
