------------------------------ MODULE Finality ------------------------------
(***************************************************************************)
(* The finality gadget (crates/finality/src/lib.rs): verification of votes, *)
(* of certificates and of aggregated certificates against a committee, and *)
(* the fork-choice rule.  The crate has no state of its own, so the state  *)
(* here is its surroundings: validators that sign, one node that verifies  *)
(* whatever certificates reach it and keeps a chain that may reorganise,   *)
(* and a committee that rotates from epoch to epoch.                       *)
(***************************************************************************)
EXTENDS Naturals, Sequences, FiniteSets

CONSTANTS
    Epochs,        \* committee epochs, numbered from 1
    Committees,    \* the Committee of every epoch
    Validators,    \* validator ids, in a committee or not
    Honest,        \* validators that sign one block per round, on its boundary
    Rounds, Heights, Hashes,
    Certs,         \* certificates that may reach the node, genuine or not
    AggCerts,      \* the same, aggregated
    MaxHeight      \* bound: length of the node's chain

Bls == 5           \* the sig_algo that aggregates

ASSUME EpochsAssumption == Epochs \subseteq Nat \ {0} /\ MaxHeight \in Nat
ASSUME ValidatorsAssumption == IsFiniteSet(Validators) /\ Honest \subseteq Validators
ASSUME RangeAssumption == Rounds \subseteq Nat /\ Heights \subseteq Nat

Votes == [committee_epoch : Epochs, round : Rounds, block_height : Heights, block_hash : Hashes,
          validator_id : Validators]

ASSUME CommitteesAssumption ==
    /\ Committees \in [Epochs -> [epoch : Epochs, epoch_blocks : Nat, quorum : Nat,
                                  members : Seq([validator_id : Validators, sig_algo : Nat])]]
    /\ \A e \in Epochs : Committees[e].epoch = e
ASSUME CertsAssumption ==
    Certs \subseteq [committee_epoch : Epochs, round : Rounds, block_height : Heights,
                     block_hash : Hashes, votes : Seq([vote : Votes, sig_algo : Nat])]

\* aggregates: the validators whose signatures over the certificate's payload are in agg_sig.
ASSUME AggCertsAssumption ==
    AggCerts \subseteq [committee_epoch : Epochs, round : Rounds, block_height : Heights,
                        block_hash : Hashes, signer_bitmap : SUBSET Nat, agg_sig_algo : Nat,
                        aggregates : SUBSET Validators]

Members(cm) == {cm.members[k].validator_id : k \in DOMAIN cm.members}

\* The deployment's side of the contract: any two quorums of a committee share an honest
\* validator.  N-of-N with one honest validator is the committee of v1.0.
ASSUME QuorumAssumption ==
    \A e \in Epochs : \A P, Q \in SUBSET Members(Committees[e]) :
        Cardinality(P) >= Committees[e].quorum /\ Cardinality(Q) >= Committees[e].quorum =>
            P \cap Q \cap Honest # {}

VARIABLES
    signed,            \* votes that honest validators have signed
    epoch,             \* epoch of the committee in force at the node
    accepted,          \* history: certificates that verify_cert let pass
    agg_accepted,      \* history: certificates that verify_aggregated_cert let pass
    chain,             \* hashes of the node's chain, by height
    finalized_height   \* highest height the node has finalized

vars == <<signed, epoch, accepted, agg_accepted, chain, finalized_height>>

-----------------------------------------------------------------------------
(* Committee and verification. *)

\* round_for_height: 0 stands for None, which no boundary yields.
round_for_height(cm, h) ==
    IF cm.epoch_blocks # 0 /\ h > 0 /\ h % cm.epoch_blocks = 0 THEN h \div cm.epoch_blocks ELSE 0

\* crypto::verify over signing_hash: an honest validator has signed it, others sign anything.
Genuine(v) == v.validator_id \in Honest => v \in signed

\* The find over the committee: the first member with the id.
MemberOf(cm, id) ==
    cm.members[CHOOSE k \in DOMAIN cm.members :
                   /\ cm.members[k].validator_id = id
                   /\ \A j \in 1 .. k - 1 : cm.members[j].validator_id # id]

verify_vote(cm, sv) ==
    /\ sv.vote.committee_epoch = cm.epoch
    /\ sv.vote.validator_id \in Members(cm)
    /\ MemberOf(cm, sv.vote.validator_id).sig_algo = sv.sig_algo
    /\ Genuine(sv.vote)

\* Mutant: a validator may vote twice in a certificate.
verify_cert_counts_repeats(cm, c) ==
    /\ c.committee_epoch = cm.epoch
    /\ Len(c.votes) >= cm.quorum
    /\ \A k \in DOMAIN c.votes :
          /\ c.votes[k].vote.round = c.round
          /\ c.votes[k].vote.block_hash = c.block_hash
          /\ c.votes[k].vote.block_height = c.block_height
          /\ verify_vote(cm, c.votes[k])

\* Mutant: the votes' block hash is not compared with the certificate's.
verify_cert_any_hash(cm, c) ==
    /\ c.committee_epoch = cm.epoch
    /\ Len(c.votes) >= cm.quorum
    /\ \A k \in DOMAIN c.votes :
          /\ c.votes[k].vote.round = c.round
          /\ c.votes[k].vote.block_height = c.block_height
          /\ \A j \in 1 .. k - 1 : c.votes[j].vote.validator_id # c.votes[k].vote.validator_id
          /\ verify_vote(cm, c.votes[k])

verify_cert(cm, c) ==
    /\ c.committee_epoch = cm.epoch
    /\ Len(c.votes) >= cm.quorum
    /\ \A k \in DOMAIN c.votes :
          /\ c.votes[k].vote.round = c.round
          /\ c.votes[k].vote.block_hash = c.block_hash
          /\ c.votes[k].vote.block_height = c.block_height
          /\ \A j \in 1 .. k - 1 : c.votes[j].vote.validator_id # c.votes[k].vote.validator_id
          /\ verify_vote(cm, c.votes[k])

\* What a validator signs to be counted in certificate c.  signing_payload has its own
\* domain tag and no id; a validator signs it together with its vote.
VoteFor(c, id) ==
    [committee_epoch |-> c.committee_epoch, round |-> c.round, block_height |-> c.block_height,
     block_hash |-> c.block_hash, validator_id |-> id]

\* is_signer: slot k of the committee has bit k - 1.
is_signer(c, k) == k - 1 \in c.signer_bitmap
MarkedSlots(cm, c) == {k \in DOMAIN cm.members : is_signer(c, k)}
Marked(cm, c) == {cm.members[k].validator_id : k \in MarkedSlots(cm, c)}

\* signer_count: all bits, the ones behind the last member included.
signer_count(c) == Cardinality(c.signer_bitmap)

\* Mutant: the certificate need not reach the quorum.
verify_aggregated_cert_any_count(cm, c) ==
    /\ c.committee_epoch = cm.epoch
    /\ c.agg_sig_algo = Bls
    /\ \A k \in MarkedSlots(cm, c) : cm.members[k].sig_algo = Bls
    /\ Marked(cm, c) # {}
    /\ c.aggregates = Marked(cm, c)
    /\ \A id \in c.aggregates : Genuine(VoteFor(c, id))

\* The pairing check passes when the aggregate is of exactly the marked keys' signatures.
verify_aggregated_cert(cm, c) ==
    /\ c.committee_epoch = cm.epoch
    /\ signer_count(c) >= cm.quorum
    /\ c.agg_sig_algo = Bls
    /\ \A k \in MarkedSlots(cm, c) : cm.members[k].sig_algo = Bls
    /\ Marked(cm, c) # {}
    /\ c.aggregates = Marked(cm, c)
    /\ \A id \in c.aggregates : Genuine(VoteFor(c, id))

\* Mutant: a reorganisation may start one below the finalized height.
reorg_allowed_off_by_one(finalized, candidate) == candidate + 1 >= finalized

reorg_allowed(finalized, candidate) == candidate >= finalized

-----------------------------------------------------------------------------
Init ==
    /\ signed = {} /\ epoch \in Epochs /\ accepted = {} /\ agg_accepted = {}
    /\ chain = << >> /\ finalized_height = 0

\* An honest validator of some epoch's committee signs the block it has at a boundary.
Sign(id, e, h, hash) ==
    LET r == round_for_height(Committees[e], h)
        v == [committee_epoch |-> e, round |-> r, block_height |-> h, block_hash |-> hash,
              validator_id |-> id]
    IN /\ r \in Rounds /\ id \in Members(Committees[e])
       /\ \A w \in signed : ~ (/\ w.validator_id = id
                               /\ w.committee_epoch = e /\ w.round = r)
       /\ signed' = signed \cup {v}
       /\ UNCHANGED <<epoch, accepted, agg_accepted, chain, finalized_height>>

OnChain(c) == c.block_height \in DOMAIN chain /\ chain[c.block_height] = c.block_hash

\* A certificate arrives; if its block is on the node's chain, the node finalizes it.
Receive(c) ==
    /\ verify_cert(Committees[epoch], c)
    /\ accepted' = accepted \cup {c}
    /\ finalized_height' = IF OnChain(c) /\ c.block_height > finalized_height
                           THEN c.block_height ELSE finalized_height
    /\ UNCHANGED <<signed, epoch, agg_accepted, chain>>

ReceiveAggregated(c) ==
    /\ verify_aggregated_cert(Committees[epoch], c)
    /\ agg_accepted' = agg_accepted \cup {c}
    /\ UNCHANGED <<signed, epoch, accepted, chain, finalized_height>>

\* The node moves to a branch that leaves its chain after height k, or extends it.
Reorg(k, hash) ==
    /\ k < MaxHeight /\ reorg_allowed(finalized_height, k)
    /\ chain' = Append(SubSeq(chain, 1, k), hash)
    /\ UNCHANGED <<signed, epoch, accepted, agg_accepted, finalized_height>>

\* Governance puts the committee of another epoch in force.
Rotate(e) ==
    /\ e > epoch /\ epoch' = e
    /\ UNCHANGED <<signed, accepted, agg_accepted, chain, finalized_height>>

Next ==
    \/ \E id \in Honest, e \in Epochs, h \in Heights, hash \in Hashes : Sign(id, e, h, hash)
    \/ (\E c \in Certs : Receive(c)) \/ (\E c \in AggCerts : ReceiveAggregated(c))
    \/ \E k \in 0 .. Len(chain), hash \in Hashes : Reorg(k, hash)
    \/ \E e \in Epochs : Rotate(e)

Spec == Init /\ [][Next]_vars

-----------------------------------------------------------------------------
\* Votes and certificates of the ranges given, a height that the chain has.
TypeOK ==
    /\ signed \subseteq Votes /\ epoch \in Epochs
    /\ accepted \subseteq Certs /\ agg_accepted \subseteq AggCerts
    /\ chain \in Seq(Hashes) /\ Len(chain) <= MaxHeight
    /\ finalized_height \in 0 .. Len(chain)

\* Committee members that really signed what certificate c certifies.
Signers(c) == {id \in Members(Committees[c.committee_epoch]) : Genuine(VoteFor(c, id))}

\* A certificate that passed carries a quorum of distinct members of its own epoch's
\* committee, each of which signed exactly its round, height and hash.
CertMeansQuorum ==
    \A c \in accepted : Cardinality(Signers(c)) >= Committees[c.committee_epoch].quorum

\* Two certificates of the same epoch and round never certify different blocks.
NoConflictingCerts ==
    \A c, d \in accepted : c.committee_epoch = d.committee_epoch /\ c.round = d.round =>
        c.block_hash = d.block_hash /\ c.block_height = d.block_height

\* verify_cert never looks at round_for_height, yet what it lets pass is on a boundary,
\* because a quorum contains a validator that signs only there.
CertAtBoundary ==
    \A c \in accepted : c.round = round_for_height(Committees[c.committee_epoch], c.block_height)

\* A finalized block is never replaced and the finalized height never falls.
FinalizedStays ==
    [][/\ finalized_height' >= finalized_height
       /\ finalized_height > 0 => /\ finalized_height \in DOMAIN chain'
                                  /\ chain'[finalized_height] = chain[finalized_height]]_vars

ListsNobodyTwice(cm) ==
    \A j, k \in DOMAIN cm.members :
        cm.members[j].validator_id = cm.members[k].validator_id => j = k

\* An aggregated certificate that marks only members was signed by a quorum of them, if the
\* committee lists nobody twice.  (signer_count also counts bits that no member has, and a bit
\* counts for each place in the list; nothing checks the bits or the list.)
AggCertMeansQuorum ==
    \A c \in agg_accepted :
        LET cm == Committees[c.committee_epoch]
        IN ListsNobodyTwice(cm) /\ c.signer_bitmap \subseteq 0 .. Len(cm.members) - 1 =>
               Cardinality(Signers(c)) >= cm.quorum
=============================================================================
