--------------------------- MODULE FinalityProofs ---------------------------
(***************************************************************************)
(* Proofs about Finality, for every committee whose quorums meet in an     *)
(* honest validator, every set of certificates and every interleaving of   *)
(* signing, delivery, reorganisation and rotation.  The inductive          *)
(* invariant adds to CertMeansQuorum what honest validators have signed:   *)
(* one vote per epoch and round, on the round's boundary.                  *)
(***************************************************************************)
EXTENDS Finality, FiniteSetTheorems, FunctionTheorems, TLAPS

(* Honest validators sign one block per epoch and round. *)
SignOnce ==
    \A v, w \in signed :
        v.validator_id = w.validator_id /\ v.committee_epoch = w.committee_epoch
            /\ v.round = w.round => v = w

(* Honest validators sign on round boundaries only. *)
SignAtBoundary ==
    \A v \in signed : v.round = round_for_height(Committees[v.committee_epoch], v.block_height)

IInv == TypeOK /\ SignOnce /\ SignAtBoundary /\ CertMeansQuorum

-----------------------------------------------------------------------------
(* An element of a sequence over T is in T. *)
LEMMA InSeq ==
    ASSUME NEW T, NEW s \in Seq(T)
    PROVE  DOMAIN s = 1 .. Len(s) /\ \A k \in DOMAIN s : s[k] \in T
  OBVIOUS

(* What the fields of a certificate are. *)
LEMMA CertType ==
    ASSUME NEW c \in Certs
    PROVE  /\ c.committee_epoch \in Epochs /\ c.round \in Rounds /\ c.block_height \in Heights
           /\ c.block_hash \in Hashes /\ Len(c.votes) \in Nat
           /\ DOMAIN c.votes = 1 .. Len(c.votes)
           /\ \A k \in DOMAIN c.votes : c.votes[k].vote \in Votes
  <1>1. c \in [committee_epoch : Epochs, round : Rounds, block_height : Heights,
               block_hash : Hashes, votes : Seq([vote : Votes, sig_algo : Nat])]
    BY CertsAssumption
  <1>2. c.votes \in Seq([vote : Votes, sig_algo : Nat])
    BY <1>1
  <1>3. \A k \in DOMAIN c.votes : c.votes[k] \in [vote : Votes, sig_algo : Nat]
    BY <1>2, InSeq
  <1> QED BY <1>1, <1>2, <1>3

(* A committee is that of its epoch, and its members are validators. *)
LEMMA CommitteeType ==
    ASSUME NEW e \in Epochs
    PROVE  /\ Committees[e].epoch = e /\ Committees[e].quorum \in Nat
           /\ Committees[e].epoch_blocks \in Nat
           /\ Members(Committees[e]) \subseteq Validators
           /\ IsFiniteSet(Members(Committees[e]))
  <1>1. Committees[e] \in [epoch : Epochs, epoch_blocks : Nat, quorum : Nat,
                           members : Seq([validator_id : Validators, sig_algo : Nat])]
    BY CommitteesAssumption
  <1>2. Committees[e].members \in Seq([validator_id : Validators, sig_algo : Nat])
    BY <1>1
  <1>3. \A k \in DOMAIN Committees[e].members :
            Committees[e].members[k] \in [validator_id : Validators, sig_algo : Nat]
    BY <1>2, InSeq
  <1>4. Members(Committees[e]) \subseteq Validators
    BY <1>3 DEF Members
  <1>5. IsFiniteSet(Members(Committees[e]))
    BY <1>4, ValidatorsAssumption, FS_Subset
  <1> QED BY <1>1, <1>4, <1>5, CommitteesAssumption

(* The validators that signed a certificate are finitely many. *)
LEMMA SignersFinite ==
    ASSUME NEW c \in Certs
    PROVE  /\ Signers(c) \subseteq Members(Committees[c.committee_epoch])
           /\ IsFiniteSet(Signers(c)) /\ Cardinality(Signers(c)) \in Nat
  <1>1. Signers(c) \subseteq Members(Committees[c.committee_epoch])
    BY DEF Signers
  <1>2. IsFiniteSet(Signers(c))
    BY <1>1, CertType, CommitteeType, FS_Subset
  <1> QED BY <1>1, <1>2, FS_CardinalityType

(* verify_cert lets a certificate pass only if a quorum of its committee signed it: its
   votes come from distinct members, and each is a vote for what it certifies. *)
LEMMA VerifiedHasQuorum ==
    ASSUME NEW c \in Certs, NEW e \in Epochs, verify_cert(Committees[e], c)
    PROVE  /\ c.committee_epoch = e
           /\ Cardinality(Signers(c)) >= Committees[e].quorum
  <1> DEFINE n == Len(c.votes)
             f == [k \in 1 .. n |-> c.votes[k].vote.validator_id]
  <1>1. c.committee_epoch = e
    BY CommitteeType DEF verify_cert
  <1>2. n \in Nat /\ DOMAIN c.votes = 1 .. n /\ \A k \in 1 .. n : c.votes[k].vote \in Votes
    BY CertType
  <1>3. \A k \in 1 .. n : f[k] \in Signers(c)
    <2> TAKE k \in 1 .. n
    <2> DEFINE v == c.votes[k].vote
    <2>1. /\ v.round = c.round /\ v.block_hash = c.block_hash /\ v.block_height = c.block_height
          /\ v.committee_epoch = Committees[e].epoch
          /\ v.validator_id \in Members(Committees[e]) /\ Genuine(v)
      BY <1>2 DEF verify_cert, verify_vote
    <2>2. v.committee_epoch = c.committee_epoch
      BY <2>1, <1>1, CommitteeType
    <2>3. v = [committee_epoch |-> v.committee_epoch, round |-> v.round,
               block_height |-> v.block_height, block_hash |-> v.block_hash,
               validator_id |-> v.validator_id]
      BY <1>2 DEF Votes
    <2>4. v = VoteFor(c, v.validator_id)
      BY <2>1, <2>2, <2>3 DEF VoteFor
    <2> QED BY <2>1, <2>4, <1>1 DEF Signers
  <1>4. \A j, k \in 1 .. n : f[j] = f[k] => j = k
    <2>1. \A k \in 1 .. n : \A j \in 1 .. k - 1 : f[j] # f[k]
      BY <1>2 DEF verify_cert
    <2> HIDE DEF f, n
    <2>2. ASSUME NEW j \in 1 .. n, NEW k \in 1 .. n, j < k PROVE f[j] # f[k]
      <3>1. j \in 1 .. k - 1
        BY <1>2, <2>2
      <3> QED BY <2>1, <3>1
    <2>3. \A j, k \in 1 .. n : j = k \/ j < k \/ k < j
      BY <1>2
    <2> QED BY <2>2, <2>3
  <1>5. f \in Injection(1 .. n, Signers(c))
    BY <1>3, <1>4 DEF Injection, IsInjective
  <1>6. Cardinality(1 .. n) <= Cardinality(Signers(c))
    BY <1>5, SignersFinite, FS_Injection
  <1>7. Cardinality(1 .. n) = n
    <2>1. 1 \in Int /\ n \in Int /\ (1 > n => n = 0) /\ (n - 1) + 1 = n
      BY <1>2
    <2>2. Cardinality(1 .. n) = IF 1 > n THEN 0 ELSE n - 1 + 1
      BY <2>1, FS_Interval
    <2> QED BY <2>1, <2>2
  <1>8. n >= Committees[e].quorum
    BY DEF verify_cert
  <1> QED BY <1>1, <1>2, <1>6, <1>7, <1>8, SignersFinite, CommitteeType

-----------------------------------------------------------------------------
(* The parts of the invariant, step by step. *)

(* The inductive invariant holds at the start. *)
LEMMA InitIInv == Init => IInv
  <1> SUFFICES ASSUME Init PROVE IInv
    OBVIOUS
  <1>1. TypeOK
    BY EpochsAssumption DEF Init, TypeOK
  <1> QED BY <1>1 DEF Init, IInv, SignOnce, SignAtBoundary, CertMeansQuorum

(* Signing adds a vote of the right form, and takes none back. *)
LEMMA SignIInv ==
    ASSUME IInv, NEW id \in Honest, NEW e \in Epochs, NEW h \in Heights, NEW hash \in Hashes,
           Sign(id, e, h, hash)
    PROVE  IInv'
  <1> DEFINE r == round_for_height(Committees[e], h)
             v == [committee_epoch |-> e, round |-> r, block_height |-> h, block_hash |-> hash,
                   validator_id |-> id]
  <1>1. /\ r \in Rounds /\ signed' = signed \cup {v}
        /\ \A w \in signed : ~ (w.validator_id = id /\ w.committee_epoch = e /\ w.round = r)
        /\ UNCHANGED <<epoch, accepted, agg_accepted, chain, finalized_height>>
    BY DEF Sign
  <1>2. v \in Votes
    BY <1>1, ValidatorsAssumption DEF Votes
  <1>3. TypeOK'
    BY <1>1, <1>2 DEF IInv, TypeOK
  <1>4. /\ v.validator_id = id /\ v.committee_epoch = e /\ v.round = r /\ v.block_height = h
    OBVIOUS
  <1> HIDE DEF v, r
  <1>5. SignOnce'
    BY <1>1, <1>4 DEF IInv, SignOnce
  <1>6. SignAtBoundary'
    <2>1. v.round = round_for_height(Committees[v.committee_epoch], v.block_height)
      BY <1>4 DEF r
    <2> QED BY <2>1, <1>1 DEF IInv, SignAtBoundary
  <1>7. CertMeansQuorum'
    <2> SUFFICES ASSUME NEW c \in accepted
                 PROVE  Cardinality(Signers(c))' >= Committees[c.committee_epoch].quorum
      BY <1>1 DEF CertMeansQuorum
    <2>1. c \in Certs /\ c.committee_epoch \in Epochs
      BY CertType DEF IInv, TypeOK
    <2>2. Signers(c) \subseteq Signers(c)' /\ Signers(c)' \subseteq Members(Committees[c.committee_epoch])
      BY <1>1 DEF Signers, Genuine
    <2>3. IsFiniteSet(Signers(c)')
      BY <2>1, <2>2, CommitteeType, FS_Subset
    <2>4. Cardinality(Signers(c)) <= Cardinality(Signers(c)') /\ Cardinality(Signers(c)') \in Nat
      BY <2>2, <2>3, FS_Subset, FS_CardinalityType
    <2>5. Cardinality(Signers(c)) >= Committees[c.committee_epoch].quorum
      BY DEF IInv, CertMeansQuorum
    <2> QED BY <2>1, <2>4, <2>5, SignersFinite, CommitteeType
  <1> QED BY <1>3, <1>5, <1>6, <1>7 DEF IInv

(* With the same votes signed, a certificate keeps its signers. *)
LEMMA SameSigners ==
    ASSUME UNCHANGED signed
    PROVE  /\ SignOnce => SignOnce'
           /\ SignAtBoundary => SignAtBoundary'
           /\ \A c : Signers(c)' = Signers(c)
  <1>1. \A c : Signers(c)' = Signers(c)
    BY DEF Signers, Genuine
  <1> QED BY <1>1 DEF SignOnce, SignAtBoundary

(* A certificate that arrives is accepted only with a quorum. *)
LEMMA ReceiveIInv ==
    ASSUME IInv, NEW c \in Certs, Receive(c)
    PROVE  IInv'
  <1>1. /\ verify_cert(Committees[epoch], c) /\ accepted' = accepted \cup {c}
        /\ UNCHANGED <<signed, epoch, agg_accepted, chain>>
    BY DEF Receive
  <1>2. finalized_height' \in 0 .. Len(chain)
    <2>1. chain \in Seq(Hashes) /\ finalized_height \in 0 .. Len(chain)
      BY DEF IInv, TypeOK
    <2>2. OnChain(c) => c.block_height \in 1 .. Len(chain)
      BY <2>1 DEF OnChain
    <2> QED BY <2>1, <2>2 DEF Receive
  <1>3. TypeOK'
    BY <1>1, <1>2 DEF IInv, TypeOK
  <1>4. CertMeansQuorum'
    <2>1. /\ c.committee_epoch = epoch
          /\ Cardinality(Signers(c)) >= Committees[epoch].quorum
      BY <1>1, VerifiedHasQuorum DEF IInv, TypeOK
    <2>2. \A d : Signers(d)' = Signers(d)
      BY <1>1, SameSigners
    <2> QED BY <2>1, <2>2, <1>1 DEF IInv, CertMeansQuorum
  <1> QED BY <1>1, <1>3, <1>4, SameSigners DEF IInv

(* The other steps change neither votes nor plain certificates. *)
LEMMA OtherIInv ==
    ASSUME IInv, UNCHANGED <<signed, accepted>>, TypeOK'
    PROVE  IInv'
  <1>1. CertMeansQuorum'
    BY SameSigners DEF IInv, CertMeansQuorum
  <1> QED BY <1>1, SameSigners DEF IInv

(* A reorganisation leaves a chain that still has the finalized height. *)
LEMMA ReorgChain ==
    ASSUME TypeOK, NEW k \in 0 .. Len(chain), NEW hash \in Hashes, Reorg(k, hash)
    PROVE  /\ chain' \in Seq(Hashes) /\ Len(chain') = k + 1 /\ k + 1 <= MaxHeight
           /\ finalized_height <= k
           /\ \A j \in 1 .. k : chain'[j] = chain[j]
  <1>1. /\ chain \in Seq(Hashes) /\ Len(chain) \in Nat /\ finalized_height \in Nat /\ k \in Nat
        /\ MaxHeight \in Nat
    BY EpochsAssumption DEF TypeOK
  <1>2. /\ k < MaxHeight /\ k >= finalized_height /\ chain' = Append(SubSeq(chain, 1, k), hash)
    BY DEF Reorg, reorg_allowed
  <1>3. /\ SubSeq(chain, 1, k) \in Seq(Hashes) /\ Len(SubSeq(chain, 1, k)) = k
        /\ \A j \in 1 .. k : SubSeq(chain, 1, k)[j] = chain[j]
    BY <1>1
  <1>4. /\ chain' \in Seq(Hashes) /\ Len(chain') = k + 1
        /\ \A j \in 1 .. k : chain'[j] = SubSeq(chain, 1, k)[j]
    BY <1>1, <1>2, <1>3
  <1> QED BY <1>1, <1>2, <1>3, <1>4

(* Every step preserves the inductive invariant. *)
LEMMA NextIInv == IInv /\ [Next]_vars => IInv'
  <1> SUFFICES ASSUME IInv, [Next]_vars PROVE IInv'
    OBVIOUS
  <1>1. CASE \E id \in Honest, e \in Epochs, h \in Heights, hash \in Hashes : Sign(id, e, h, hash)
    BY <1>1, SignIInv
  <1>2. CASE \E c \in Certs : Receive(c)
    BY <1>2, ReceiveIInv
  <1>3. CASE \E c \in AggCerts : ReceiveAggregated(c)
    <2>1. PICK c \in AggCerts : ReceiveAggregated(c)
      BY <1>3
    <2>2. TypeOK'
      BY <2>1 DEF ReceiveAggregated, IInv, TypeOK
    <2> QED BY <2>1, <2>2, OtherIInv DEF ReceiveAggregated
  <1>4. CASE \E k \in 0 .. Len(chain), hash \in Hashes : Reorg(k, hash)
    <2>1. PICK k \in 0 .. Len(chain), hash \in Hashes : Reorg(k, hash)
      BY <1>4
    <2>2. /\ chain' \in Seq(Hashes) /\ Len(chain') = k + 1 /\ k + 1 <= MaxHeight
          /\ finalized_height <= k
      BY <2>1, ReorgChain DEF IInv
    <2>3. finalized_height' \in 0 .. Len(chain')
      BY <2>1, <2>2 DEF Reorg, IInv, TypeOK
    <2>4. TypeOK'
      BY <2>1, <2>2, <2>3 DEF Reorg, IInv, TypeOK
    <2> QED BY <2>1, <2>4, OtherIInv DEF Reorg
  <1>5. CASE \E e \in Epochs : Rotate(e)
    <2>1. TypeOK'
      BY <1>5 DEF Rotate, IInv, TypeOK
    <2> QED BY <1>5, <2>1, OtherIInv DEF Rotate
  <1>6. CASE UNCHANGED vars
    <2>1. TypeOK'
      BY <1>6 DEF vars, IInv, TypeOK
    <2> QED BY <1>6, <2>1, OtherIInv DEF vars
  <1> QED BY <1>1, <1>2, <1>3, <1>4, <1>5, <1>6 DEF Next

(* The inductive invariant holds throughout. *)
LEMMA Inductive == Spec => []IInv
  BY InitIInv, NextIInv, PTL DEF Spec

-----------------------------------------------------------------------------
(* Votes, certificates and the chain keep their types, and the finalized height is always
   one that the chain has (verify_cert and reorg_allowed). *)
THEOREM TypeCorrect == Spec => []TypeOK
  <1>1. IInv => TypeOK
    BY DEF IInv
  <1> QED BY <1>1, Inductive, PTL

(* verify_cert: a certificate that passes was signed by a quorum of distinct members of the
   committee of its own epoch. *)
THEOREM CertsHaveQuorum == Spec => []CertMeansQuorum
  <1>1. IInv => CertMeansQuorum
    BY DEF IInv
  <1> QED BY <1>1, Inductive, PTL

(* Any two certificates that passed were signed by a common honest validator, if they are of
   one epoch. *)
LEMMA CommonSigner ==
    ASSUME IInv, NEW c \in accepted, NEW d \in accepted, c.committee_epoch = d.committee_epoch
    PROVE  \E id \in Honest : VoteFor(c, id) \in signed /\ VoteFor(d, id) \in signed
  <1>1. c \in Certs /\ d \in Certs /\ c.committee_epoch \in Epochs
    BY CertType DEF IInv, TypeOK
  <1>2. /\ Cardinality(Signers(c)) >= Committees[c.committee_epoch].quorum
        /\ Cardinality(Signers(d)) >= Committees[c.committee_epoch].quorum
    BY DEF IInv, CertMeansQuorum
  <1>3. /\ Signers(c) \in SUBSET Members(Committees[c.committee_epoch])
        /\ Signers(d) \in SUBSET Members(Committees[c.committee_epoch])
    BY <1>1, SignersFinite
  <1>4. PICK id \in Honest : id \in Signers(c) /\ id \in Signers(d)
    BY <1>1, <1>2, <1>3, QuorumAssumption
  <1> QED BY <1>4 DEF Signers, Genuine, VoteFor

(* The contract of the finality gadget: two certificates that pass verify_cert for one epoch
   and round certify the same block, whatever the dishonest members sign. *)
THEOREM CertsAgree == Spec => []NoConflictingCerts
  <1>1. IInv => NoConflictingCerts
    <2> SUFFICES ASSUME IInv, NEW c \in accepted, NEW d \in accepted,
                        c.committee_epoch = d.committee_epoch, c.round = d.round
                 PROVE  c.block_hash = d.block_hash /\ c.block_height = d.block_height
      BY DEF NoConflictingCerts
    <2>1. PICK id \in Honest : VoteFor(c, id) \in signed /\ VoteFor(d, id) \in signed
      BY CommonSigner
    <2>2. VoteFor(c, id) = VoteFor(d, id)
      <3>1. /\ VoteFor(c, id).validator_id = VoteFor(d, id).validator_id
            /\ VoteFor(c, id).committee_epoch = VoteFor(d, id).committee_epoch
            /\ VoteFor(c, id).round = VoteFor(d, id).round
        BY DEF VoteFor
      <3> QED BY <2>1, <3>1 DEF IInv, SignOnce
    <2>3. /\ VoteFor(c, id).block_hash = c.block_hash /\ VoteFor(d, id).block_hash = d.block_hash
          /\ VoteFor(c, id).block_height = c.block_height
          /\ VoteFor(d, id).block_height = d.block_height
      BY DEF VoteFor
    <2> QED BY <2>2, <2>3
  <1> QED BY <1>1, Inductive, PTL

(* verify_cert accepts certificates of round boundaries only, though it never calls
   round_for_height. *)
THEOREM CertsAtBoundary == Spec => []CertAtBoundary
  <1>1. IInv => CertAtBoundary
    <2> SUFFICES ASSUME IInv, NEW c \in accepted
                 PROVE  c.round = round_for_height(Committees[c.committee_epoch], c.block_height)
      BY DEF CertAtBoundary
    <2>1. PICK id \in Honest : VoteFor(c, id) \in signed
      BY CommonSigner
    <2>2. /\ VoteFor(c, id).round = c.round /\ VoteFor(c, id).block_height = c.block_height
          /\ VoteFor(c, id).committee_epoch = c.committee_epoch
      BY DEF VoteFor
    <2> QED BY <2>1, <2>2 DEF IInv, SignAtBoundary
  <1> QED BY <1>1, Inductive, PTL

(* reorg_allowed: no reorganisation that it permits replaces a finalized block. *)
THEOREM FinalizedForGood == Spec => FinalizedStays
  <1> DEFINE Stays == /\ finalized_height' >= finalized_height
                      /\ finalized_height > 0 => /\ finalized_height \in DOMAIN chain'
                                                 /\ chain'[finalized_height] = chain[finalized_height]
  <1>1. IInv /\ [Next]_vars => [Stays]_vars
    <2> SUFFICES ASSUME IInv, Next PROVE Stays
      OBVIOUS
    <2>0. /\ chain \in Seq(Hashes) /\ DOMAIN chain = 1 .. Len(chain) /\ Len(chain) \in Nat
          /\ finalized_height \in 0 .. Len(chain) /\ finalized_height \in Nat
      BY DEF IInv, TypeOK
    <2>1. CASE \E k \in 0 .. Len(chain), hash \in Hashes : Reorg(k, hash)
      <3>1. PICK k \in 0 .. Len(chain), hash \in Hashes : Reorg(k, hash)
        BY <2>1
      <3>2. /\ chain' \in Seq(Hashes) /\ Len(chain') = k + 1 /\ finalized_height <= k
            /\ \A j \in 1 .. k : chain'[j] = chain[j]
        BY <3>1, ReorgChain DEF IInv
      <3>3. finalized_height' = finalized_height
        BY <3>1 DEF Reorg
      <3>4. finalized_height > 0 => finalized_height \in 1 .. k /\ finalized_height \in 1 .. (k + 1)
        BY <2>0, <3>2
      <3>5. DOMAIN chain' = 1 .. (k + 1)
        BY <3>2
      <3> QED BY <2>0, <3>2, <3>3, <3>4, <3>5
    <2>2. CASE \E c \in Certs : Receive(c)
      <3>1. PICK c \in Certs : Receive(c)
        BY <2>2
      <3>2. c.block_height \in Nat
        BY CertType, RangeAssumption
      <3> QED BY <2>0, <3>1, <3>2 DEF Receive
    <2>3. CASE UNCHANGED <<chain, finalized_height>>
      BY <2>0, <2>3
    <2> QED BY <2>1, <2>2, <2>3 DEF Next, Sign, ReceiveAggregated, Rotate
  <1> QED BY <1>1, Inductive, PTL DEF Spec, FinalizedStays

-----------------------------------------------------------------------------
(* Aggregated certificates. *)

(* The signers of an aggregated certificate are finitely many, too. *)
LEMMA AggSignersFinite ==
    ASSUME NEW c \in AggCerts
    PROVE  /\ c.committee_epoch \in Epochs /\ c.signer_bitmap \in SUBSET Nat
           /\ IsFiniteSet(Signers(c)) /\ Cardinality(Signers(c)) \in Nat
  <1>1. c.committee_epoch \in Epochs /\ c.signer_bitmap \in SUBSET Nat
    BY AggCertsAssumption
  <1>2. Signers(c) \subseteq Members(Committees[c.committee_epoch])
    BY DEF Signers
  <1>3. IsFiniteSet(Signers(c))
    BY <1>1, <1>2, CommitteeType, FS_Subset
  <1> QED BY <1>1, <1>3, FS_CardinalityType

(* verify_aggregated_cert: every bit stands for a place in the committee, so with bits of
   members only, and members listed once, there are as many signers as there are bits. *)
LEMMA AggregateHasQuorum ==
    ASSUME NEW c \in AggCerts, NEW e \in Epochs, verify_aggregated_cert(Committees[e], c),
           ListsNobodyTwice(Committees[e]),
           c.signer_bitmap \subseteq 0 .. Len(Committees[e].members) - 1
    PROVE  Cardinality(Signers(c)) >= Committees[e].quorum
  <1> DEFINE ms == Committees[e].members
             B == c.signer_bitmap
             f == [b \in B |-> ms[b + 1].validator_id]
  <1>1. c.committee_epoch = e /\ Cardinality(B) >= Committees[e].quorum
    BY CommitteeType DEF verify_aggregated_cert, signer_count
  <1>2. ms \in Seq([validator_id : Validators, sig_algo : Nat])
    BY CommitteesAssumption
  <1>3. DOMAIN ms = 1 .. Len(ms) /\ Len(ms) \in Nat
    BY <1>2
  <1>4. \A b \in B : b \in Nat /\ b + 1 \in DOMAIN ms /\ b + 1 - 1 = b
    BY <1>3, AggSignersFinite
  <1>5. \A b \in B : f[b] \in Signers(c)
    <2> TAKE b \in B
    <2>1. b + 1 \in MarkedSlots(Committees[e], c)
      BY <1>4 DEF MarkedSlots, is_signer
    <2>2. f[b] \in Marked(Committees[e], c) /\ f[b] \in Members(Committees[e])
      BY <1>4, <2>1 DEF Marked, Members
    <2>3. Genuine(VoteFor(c, f[b]))
      BY <2>2 DEF verify_aggregated_cert
    <2> QED BY <1>1, <2>2, <2>3 DEF Signers
  <1>6. \A a, b \in B : f[a] = f[b] => a = b
    <2> TAKE a, b \in B
    <2>1. f[a] = f[b] => a + 1 = b + 1
      BY <1>4 DEF ListsNobodyTwice
    <2> QED BY <1>4, <2>1
  <1>7. f \in Injection(B, Signers(c))
    BY <1>5, <1>6 DEF Injection, IsInjective
  <1> HIDE DEF B, f
  <1>8. IsFiniteSet(B) /\ Cardinality(B) <= Cardinality(Signers(c))
    BY <1>7, AggSignersFinite, FS_Injection
  <1>9. Cardinality(B) \in Nat
    BY <1>8, FS_CardinalityType
  <1> QED BY <1>1, <1>8, <1>9, AggSignersFinite, CommitteeType

(* A certificate that passes verify_aggregated_cert, marks only members and is of a committee that
   lists nobody twice was signed by a quorum, however many votes are signed after it. *)
THEOREM AggregatesHaveQuorum == Spec => []AggCertMeansQuorum
  <1>1. Init => AggCertMeansQuorum
    BY DEF Init, AggCertMeansQuorum
  <1>2. IInv /\ AggCertMeansQuorum /\ [Next]_vars => AggCertMeansQuorum'
    <2> SUFFICES ASSUME IInv, AggCertMeansQuorum, [Next]_vars, NEW c \in agg_accepted',
                        ListsNobodyTwice(Committees[c.committee_epoch]),
                        c.signer_bitmap \subseteq
                            0 .. Len(Committees[c.committee_epoch].members) - 1
                 PROVE  Cardinality(Signers(c))' >= Committees[c.committee_epoch].quorum
      BY DEF AggCertMeansQuorum
    <2>1. signed \subseteq signed' /\ agg_accepted \subseteq AggCerts
      BY DEF Next, vars, Sign, Receive, ReceiveAggregated, Reorg, Rotate, IInv, TypeOK
    <2>2. CASE c \in agg_accepted
      <3>1. c \in AggCerts /\ Cardinality(Signers(c)) >= Committees[c.committee_epoch].quorum
        BY <2>1, <2>2 DEF AggCertMeansQuorum
      <3>2. Signers(c) \subseteq Signers(c)' /\ Signers(c)' \subseteq Members(Committees[c.committee_epoch])
        BY <2>1 DEF Signers, Genuine
      <3>3. IsFiniteSet(Signers(c)')
        BY <3>1, <3>2, AggSignersFinite, CommitteeType, FS_Subset
      <3>4. Cardinality(Signers(c)) <= Cardinality(Signers(c)') /\ Cardinality(Signers(c)') \in Nat
        BY <3>2, <3>3, FS_Subset, FS_CardinalityType
      <3> QED BY <3>1, <3>4, AggSignersFinite, CommitteeType
    <2>3. CASE c \notin agg_accepted
      <3>1. c \in AggCerts /\ verify_aggregated_cert(Committees[epoch], c) /\ UNCHANGED signed
        BY <2>3 DEF Next, vars, Sign, Receive, ReceiveAggregated, Reorg, Rotate
      <3>2. epoch \in Epochs /\ c.committee_epoch = epoch
        BY <3>1, CommitteeType DEF IInv, TypeOK, verify_aggregated_cert
      <3> QED BY <3>1, <3>2, AggregateHasQuorum, SameSigners
    <2> QED BY <2>2, <2>3
  <1> QED BY <1>1, <1>2, Inductive, PTL DEF Spec
=============================================================================
