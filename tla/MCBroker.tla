------------------------------ MODULE MCBroker ------------------------------
(* Broker on concrete topics, with one ACL for all.                        *)
EXTENDS Broker, TLC

CONSTANTS s1, s2, d1, d2, u1, u2

T    == <<"t">>
Deep == <<"a", "b", "c", "d">>

MCAcl == [p \in Pushers |-> [read |-> {<<"+">>, <<"a", "#">>},
                             write |-> {AnyMask}, replicator |-> TRUE]]

\* sessions only subscribe, listeners publish
ListenerAcl == [p \in Pushers |->
    [read |-> {<<"+">>}, write |-> IF p \in Listeners THEN {AnyMask} ELSE {},
     replicator |-> FALSE]]

\* sessions subscribe and publish, without replication
PlainAcl == [p \in Pushers |-> [read |-> {<<"+">>}, write |-> {AnyMask},
                               replicator |-> FALSE]]

MCDigest == [s \in Sessions |-> IF s = s1 THEN 1 ELSE 2]

\* "/t" and "t" are the same topic; the others are refused
MCPubTopics == {<<"", "t">>, T, Deep, <<"+">>, EmptyTopic}

\* the second and third requests are refused after their first topic
MCSubRequests == {<<T>>, <<<<"t">>, Deep>>, <<T, <<"x", "y">>, <<"z">>>>}

\* one spelling, one request: for runs about streams and not about topics
OnePubTopic   == {T}
OneSubRequest == {<<T>>}

Symmetry == Permutations(Streams) \union Permutations(Listeners)
=============================================================================
