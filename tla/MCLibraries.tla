---------------------------- MODULE MCLibraries -----------------------------
(***************************************************************************)
(* Four pieces that share no state: the pool and the chain log, each on    *)
(* its own and with more detail than the node's model of it, and the       *)
(* broker and the RocksDB store, which the node does not link yet.  A      *)
(* behaviour exercises one of them.                                        *)
(*   mempool: five transactions, two pairs of them with the same fee, in a *)
(*     pool of three, and a clock that may be set back;                    *)
(*   chainstore: two different blocks, a prefix of two cells and a body of *)
(*     one, so that a write can stop before, inside and after a prefix;    *)
(*   p2p: two peers and two topics;                                        *)
(*   state: keys of which one is empty and one starts like another, in two *)
(*     subtrees, and a directory that is new or holds an entry.            *)
(***************************************************************************)
EXTENDS Broker, RocksStore, Mempool, ChainStore, TLC
CONSTANTS p1, p2, b1, b2
VARIABLE crate

MCCells == {<<0, << >>>>, <<0, <<1>>>>, <<1, <<0>>>>}
MCLeftovers == {[k \in {} |-> 1], [k \in {<<0, 1>>} |-> 1]}
MCTopics == {"tx", "block-header"}
MCPeers == {p1, p2}
MCBlocks == {b1, b2}
Symmetry == {f @@ g : f \in Permutations(MCBlocks), g \in Permutations(MCPeers)}
MCFee == [h \in Hashes |-> CASE h = 1 -> 5 [] h = 2 -> 7 [] h = 3 -> 5 [] OTHER -> 9]

Init ==
    /\ crate \in {"p2p", "state", "mempool", "chainstore"}
    /\ BrokerInit /\ RocksInit /\ PoolInit /\ StoreInit
    /\ crate # "state" => db = [k \in {} |-> 1]
Next ==
    /\ \/ crate = "p2p" /\ BrokerNext /\ UNCHANGED <<rocks, pool, store>>
       \/ crate = "state" /\ RocksNext /\ UNCHANGED <<broker, pool, store>>
       \/ crate = "mempool" /\ PoolNext /\ UNCHANGED <<broker, rocks, store>>
       \/ crate = "chainstore" /\ StoreNext /\ UNCHANGED <<broker, rocks, pool>>
    /\ UNCHANGED crate
Spec == Init /\ [][Next]_<<crate, broker, rocks, pool, store>>
=============================================================================
