------------------------------- MODULE Gossip -------------------------------
(***************************************************************************)
(* What the gossip layer promises its users (crates/p2p/src/lib.rs: "the   *)
(* contract here matches what the libp2p layer will implement"): one log   *)
(* of published messages, and every peer reads, once and in the log's      *)
(* order, the messages of others on a topic that were published after it   *)
(* subscribed to that topic.                                               *)
(***************************************************************************)
EXTENDS Naturals, Sequences

CONSTANTS Peers, Topics, Never

VARIABLES
    log,       \* messages in the order of their publication
    since,     \* by peer and topic, the length of the log at the subscription, or Never
    cursor,    \* by peer, the length of the log at its last read
    got        \* by peer, the messages it has read

gossip == <<log, since, cursor, got>>

Init ==
    /\ log = << >>
    /\ since = [p \in Peers |-> [t \in Topics |-> Never]]
    /\ cursor = [p \in Peers |-> 0]
    /\ got = [p \in Peers |-> << >>]

Subscribe(p, t) ==
    /\ since[p][t] = Never
    /\ since' = [since EXCEPT ![p][t] = Len(log)]
    /\ UNCHANGED <<log, cursor, got>>

Publish(m) == log' = Append(log, m) /\ UNCHANGED <<since, cursor, got>>

\* Position i of the log is for p.
For(p, i) ==
    /\ log[i].from # p
    /\ since[p][log[i].topic] # Never
    /\ since[p][log[i].topic] < i

\* What p has not read yet of the messages for it, in the order of the log.
Due(p) ==
    LET D[i \in cursor[p] .. Len(log)] ==
            IF i = cursor[p] THEN << >>
            ELSE IF For(p, i) THEN Append(D[i - 1], log[i]) ELSE D[i - 1]
    IN D[Len(log)]

Read(p) ==
    /\ got' = [got EXCEPT ![p] = @ \o Due(p)]
    /\ cursor' = [cursor EXCEPT ![p] = Len(log)]
    /\ UNCHANGED <<log, since>>

Next ==
    \/ \E p \in Peers, t \in Topics : Subscribe(p, t)
    \/ log' # log /\ Publish(log'[Len(log')])
    \/ \E p \in Peers : Read(p)

Spec == Init /\ [][Next]_gossip
=============================================================================
