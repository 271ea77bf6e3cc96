----------------------------- MODULE RocksStore -----------------------------
(***************************************************************************)
(* RocksState (crates/state/src/rocks_store.rs) next to the MemState       *)
(* (store.rs) it is to replace: an operator fills the store from a running *)
(* chain's MemState, from then on both take the chain's writes, and the    *)
(* state_root must not change.  A hash is the sequence of entries that it  *)
(* is taken over, so two roots are equal if and only if the bytes are.     *)
(* Writers hold &mut self, so a call is one step.                          *)
(***************************************************************************)
EXTENDS Naturals, Sequences, FiniteSets

CONSTANTS
    Cells,      \* (subtree as u8, key bytes) pairs in use
    Values,     \* stored values
    Leftovers,  \* what an opened directory may already hold, by encoded key
    NoRoot,     \* None of cached_root, and of get
    MaxFaults   \* bound: failed writes, misreads and restarts

ASSUME CellsAssumption == Cells \subseteq Nat \X Seq(Nat)
ASSUME FaultsAssumption == MaxFaults \in Nat

VARIABLES
    mem,          \* MemState.data
    db,           \* RocksState.db
    cached_root,  \* RocksState.cached_root
    migrated,     \* import_from has returned
    alive,        \* FALSE between a panic in put and the next open
    misread,      \* the root in the cache skipped an entry that could not be read
    faults

rocks == <<mem, db, cached_root, migrated, alive, misread, faults>>

Bytes(a, b) ==   \* lexicographic order, as BTreeMap's on Vec<u8> and RocksDB's default
    \E n \in 0 .. Len(a) : /\ n < Len(b) /\ SubSeq(a, 1, n) = SubSeq(b, 1, n)
                           /\ n = Len(a) \/ a[n + 1] < b[n + 1]

encode_key(c) == <<c[1]>> \o c[2]
Put(table, k, v) == [j \in DOMAIN table \cup {k} |-> IF j = k THEN v ELSE table[j]]

\* The elements of S, the i-th being the one with i - 1 elements of S before it.
Sorted(S, before) ==
    [i \in 1 .. Cardinality(S) |->
        CHOOSE x \in S : Cardinality({y \in S : <<y, x>> \in before}) = i - 1]

(* MemState. *)
MemBefore(c, d) == c[1] < d[1] \/ (c[1] = d[1] /\ Bytes(c[2], d[2]))
MemOrder(cells) == {d \in cells \X cells : MemBefore(d[1], d[2])}
MemEntry(c) == <<c[1], Len(c[2]), c[2], mem[c]>>
MemRoot ==
    [i \in 1 .. Cardinality(DOMAIN mem) |-> MemEntry(Sorted(DOMAIN mem, MemOrder(DOMAIN mem))[i])]
MemGet(c) == IF c \in DOMAIN mem THEN mem[c] ELSE NoRoot

(* RocksState. *)
KeyOrder(keys) == {d \in keys \X keys : Bytes(d[1], d[2])}
KeyEntry(k) == <<k[1], Len(k) - 1, Tail(k), db[k]>>

\* The bytes that root() hashes when the iterator yields these keys.
Entries(keys) == [i \in 1 .. Cardinality(keys) |-> KeyEntry(Sorted(keys, KeyOrder(keys))[i])]

\* A read that RocksDB fails also gives None (rocks_store.rs:160); that is not modelled.
get(c) == IF encode_key(c) \in DOMAIN db THEN db[encode_key(c)] ELSE NoRoot
root == IF cached_root # NoRoot THEN cached_root ELSE Entries(DOMAIN db)

RocksInit ==
    /\ mem = [c \in {} |-> 0] /\ db \in Leftovers /\ cached_root = NoRoot
    /\ migrated = FALSE /\ alive = TRUE /\ misread = FALSE /\ faults = 0

\* put of StateStore: on MemState alone, then on both.
put(c, v) ==
    /\ alive
    /\ mem' = Put(mem, c, v)
    /\ IF migrated
       THEN db' = Put(db, encode_key(c), v) /\ cached_root' = NoRoot /\ misread' = FALSE
       ELSE UNCHANGED <<db, cached_root, misread>>
    /\ UNCHANGED <<migrated, alive, faults>>

\* A write that RocksDB refuses: put panics before it resets the cache.
put_panics ==
    /\ alive /\ migrated /\ faults < MaxFaults
    /\ alive' = FALSE /\ faults' = faults + 1
    /\ UNCHANGED <<mem, db, cached_root, migrated, misread>>

\* Mutant: the root cached before the import stays.
import_from_keeps_cache ==
    /\ alive /\ ~ migrated
    /\ db' = [k \in DOMAIN db \cup {encode_key(c) : c \in DOMAIN mem} |->
                 IF \E c \in DOMAIN mem : encode_key(c) = k
                 THEN mem[CHOOSE c \in DOMAIN mem : encode_key(c) = k] ELSE db[k]]
    /\ migrated' = TRUE
    /\ UNCHANGED <<mem, cached_root, alive, misread, faults>>

\* One atomic batch over what the directory held before.
import_from ==
    /\ alive /\ ~ migrated
    /\ db' = [k \in DOMAIN db \cup {encode_key(c) : c \in DOMAIN mem} |->
                 IF \E c \in DOMAIN mem : encode_key(c) = k
                 THEN mem[CHOOSE c \in DOMAIN mem : encode_key(c) = k] ELSE db[k]]
    /\ migrated' = TRUE /\ cached_root' = NoRoot /\ misread' = FALSE
    /\ UNCHANGED <<mem, alive, faults>>

call_root ==
    /\ alive /\ cached_root' = root
    /\ UNCHANGED <<mem, db, migrated, alive, misread, faults>>

\* The iterator fails on an entry: it is skipped, and the root without it goes into the cache.
call_root_misreads ==
    /\ alive /\ cached_root = NoRoot /\ faults < MaxFaults
    /\ \E k \in DOMAIN db : cached_root' = Entries(DOMAIN db \ {k})
    /\ misread' = TRUE /\ faults' = faults + 1
    /\ UNCHANGED <<mem, db, migrated, alive>>

\* The process ends, or has panicked, and opens the directory again.
open ==
    /\ faults < MaxFaults \/ ~ alive
    /\ faults' = IF alive THEN faults + 1 ELSE faults
    /\ alive' = TRUE /\ cached_root' = NoRoot /\ misread' = FALSE
    /\ UNCHANGED <<mem, db, migrated>>

RocksNext ==
    \/ \E c \in Cells, v \in Values : put(c, v)
    \/ put_panics \/ import_from \/ call_root \/ call_root_misreads \/ open

RocksSpec == RocksInit /\ [][RocksNext]_rocks

-----------------------------------------------------------------------------
Foreign == {k \in DOMAIN db : \A c \in DOMAIN mem : encode_key(c) # k}

\* A store that took over from MemState answers like it: every get, and every root, cached or
\* computed, byte for byte (rocks_store.rs:4-8).  Two conditions are the code's, not the doc's: the
\* directory held no key that the chain never wrote, because import_from does not clear it, and no
\* entry was skipped when the cached root was computed.
AnswersLikeMemState ==
    migrated /\ Foreign = {} =>
        /\ \A c \in Cells : get(c) = MemGet(c)
        /\ ~ misread => root = MemRoot
=============================================================================
