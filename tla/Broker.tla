------------------------------- MODULE Broker -------------------------------
(***************************************************************************)
(* The in-process broker of crates/p2p/src/lib.rs, through which peers     *)
(* exchange P2pMessages.  Every call holds the broker's mutex from its     *)
(* first use of the tables to its end, so a call is one step.              *)
(* An inbox or a subscription list that does not exist yet is created      *)
(* empty by whichever call needs it first, so a missing entry is an empty  *)
(* one and join adds nothing that the other calls can see.  The content of *)
(* a payload is left out: a message is known by who sent it and its seq.   *)
(***************************************************************************)
EXTENDS Naturals, Sequences, FiniteSets

CONSTANTS
    Peers,         \* PeerIds
    Topics,        \* topics::ALL
    OtherTopic,    \* a topic that is not one of them
    Never,         \* `since` of a topic that the peer has not subscribed to
    MaxSent        \* bound: messages published

ASSUME BrokerAssumption == OtherTopic \notin Topics /\ MaxSent \in Nat /\ Never \notin Nat

WIRE_VERSION == 1

VARIABLES
    subscriptions,  \* BrokerInner.subscriptions: peer -> topics
    inboxes,        \* BrokerInner.inboxes: peer -> messages that wait for recv
    seq,            \* by peer, the counter it numbers its messages with
    log, since, cursor, got   \* history: see module Gossip

broker == <<subscriptions, inboxes, seq, log, since, cursor, got>>

\* The envelope, numbered by the peer's own counter, with any version and topic filled in.
P2pMessage(p) ==
    {[version |-> v, from |-> p, topic |-> t, seq |-> seq[p]] :
        v \in {WIRE_VERSION, WIRE_VERSION + 1}, t \in Topics \cup {OtherTopic}}

BrokerInit ==
    /\ subscriptions = [p \in {} |-> {}]
    /\ inboxes = [p \in {} |-> << >>]
    /\ seq = [p \in Peers |-> 0]
    /\ log = << >>
    /\ since = [p \in Peers |-> [t \in Topics |-> Never]]
    /\ cursor = [p \in Peers |-> 0]
    /\ got = [p \in Peers |-> << >>]

\* entry(p).or_default() of a table whose entries are empty by default
Entry(table, p, empty) == IF p \in DOMAIN table THEN table[p] ELSE empty
Insert(table, p, v) == [q \in DOMAIN table \cup {p} |-> IF q = p THEN v ELSE table[q]]

join(p) ==
    /\ subscriptions' = Insert(subscriptions, p, Entry(subscriptions, p, {}))
    /\ inboxes' = Insert(inboxes, p, Entry(inboxes, p, << >>))
    /\ UNCHANGED <<seq, log, since, cursor, got>>

subscribe(p, t) ==
    /\ t \in Topics
    /\ subscriptions' = Insert(subscriptions, p, Entry(subscriptions, p, {}) \cup {t})
    /\ since' = IF since[p][t] = Never THEN [since EXCEPT ![p][t] = Len(log)] ELSE since
    /\ UNCHANGED <<inboxes, seq, log, cursor, got>>

\* Mutant: only a peer that has joined gets an inbox.
recipients_joined(m) ==
    {p \in DOMAIN subscriptions \cap DOMAIN inboxes : p # m.from /\ m.topic \in subscriptions[p]}

recipients(m) == {p \in DOMAIN subscriptions : p # m.from /\ m.topic \in subscriptions[p]}

\* WireVersionMismatch, UnknownTopic
Malformed(m) == m.version # WIRE_VERSION \/ m.topic \notin Topics

publish(m) ==
    /\ ~ Malformed(m) /\ Len(log) < MaxSent
    /\ seq' = [seq EXCEPT ![m.from] = @ + 1]
    /\ inboxes' = [p \in DOMAIN inboxes \cup recipients(m) |->
                      IF p \in recipients(m) THEN Append(Entry(inboxes, p, << >>), m)
                      ELSE inboxes[p]]
    /\ log' = Append(log, m)
    /\ UNCHANGED <<subscriptions, since, cursor, got>>

publish_err(m) == Malformed(m) /\ UNCHANGED broker

recv(p) ==
    /\ got' = [got EXCEPT ![p] = @ \o Entry(inboxes, p, << >>)]
    /\ inboxes' = Insert(inboxes, p, << >>)
    /\ cursor' = [cursor EXCEPT ![p] = Len(log)]
    /\ UNCHANGED <<subscriptions, seq, log, since>>

BrokerNext ==
    \/ \E p \in Peers : join(p) \/ recv(p)
    \/ \E p \in Peers, t \in Topics \cup {OtherTopic} : subscribe(p, t)
    \/ \E p \in Peers : \E m \in P2pMessage(p) : publish(m) \/ publish_err(m)

BrokerSpec == BrokerInit /\ [][BrokerNext]_broker

-----------------------------------------------------------------------------
Abstract == INSTANCE Gossip

\* The inboxes deliver what a log with one cursor per peer would: every message of another peer
\* on a subscribed topic, published after the subscription, once and in order, whether or not
\* the peer joined, and however subscriptions, publications and reads interleave.
DeliversLikeGossip == Abstract!Spec
=============================================================================
