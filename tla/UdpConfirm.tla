----------------------------- MODULE UdpConfirm -----------------------------
(***************************************************************************)
(* UdpClient::publish and publish_confirmed against the UDP listener of    *)
(* the server (client.rs, server.rs).  Packets and acknowledgments carry   *)
(* no sequence number; the network loses, reorders and duplicates them.    *)
(* All calls share the socket of one UdpClient.                            *)
(***************************************************************************)
EXTENDS FiniteSets, Naturals

CONSTANTS
    Calls,          \* publish calls, each with a message of its own
    Overlap,        \* callers may start a call while another one waits
    Cancel,         \* callers may give up a call (tokio::time::timeout)
    Duplicate,      \* the network may deliver a datagram more than once
    None

ASSUME NetworkAssumption == {Overlap, Cancel, Duplicate} \subseteq BOOLEAN

VARIABLES
    call,           \* progress of each call
    result,         \* what publish_confirmed returned: an ack code, or None
    packets,        \* packets under way: [call, ack]
    acks,           \* acknowledgments under way: [call, code]; the call is
                    \* history, only the code is in the packet
    published,      \* messages pushed to subscribers
    verdict,        \* history: the ack code of each message
    inTurn,         \* history: no call overlapped another or was given up
    exact           \* history: no acknowledgment, and no packet that asks for
                    \* one, was delivered twice

vars == <<call, result, packets, acks, published, verdict, inTurn, exact>>

Codes == {"RESPONSE_OK", "RESPONSE_ERR", "RESPONSE_ERR_ACCESS"}

ASSUME NoneAssumption == None \notin Codes

Packet == [call : Calls, ack : BOOLEAN]
Ack    == [call : Calls, code : Codes]

(* The delivery of datagram m: a duplicate may stay under way, to be        *)
(* delivered again, or lost, later.                                        *)
Delivered(net, m) == {net \ {m}} \union (IF Duplicate THEN {net} ELSE {})

-----------------------------------------------------------------------------
(* publish_impl: send; without ack the call is over, with ack it waits     *)
(* without a timeout of its own.                                           *)
Send(c, ack) ==
    /\ call[c] = "new"
    /\ Overlap \/ \A b \in Calls : call[b] # "wait"
    /\ packets' = packets \union {[call |-> c, ack |-> ack]}
    /\ call' = [call EXCEPT ![c] = IF ack THEN "wait" ELSE "done"]
    /\ inTurn' = (inTurn /\ \A b \in Calls : call[b] # "wait")
    /\ UNCHANGED <<result, acks, published, verdict, exact>>

\* fault: the acknowledgment stays in the socket (peek_from)
PeekAck(c, a) ==
    /\ call[c] = "wait"
    /\ a \in acks
    /\ call' = [call EXCEPT ![c] = "done"]
    /\ result' = [result EXCEPT ![c] = a.code]
    /\ UNCHANGED <<packets, acks, published, verdict, inTurn, exact>>

\* the next acknowledgment on the socket ends the call, whatever it is for
RecvAck(c, a) ==
    /\ call[c] = "wait"
    /\ a \in acks
    /\ acks' \in Delivered(acks, a)
    /\ exact' = (exact /\ a \notin acks')
    /\ call' = [call EXCEPT ![c] = "done"]
    /\ result' = [result EXCEPT ![c] = a.code]
    /\ UNCHANGED <<packets, published, verdict, inTurn>>

\* fault: the caller's timeout is reported as a code of its own
GiveUpWithCode(c) ==
    /\ Cancel
    /\ call[c] = "wait"
    /\ call' = [call EXCEPT ![c] = "done"]
    /\ result' = [result EXCEPT ![c] = "timeout"]
    /\ inTurn' = FALSE
    /\ UNCHANGED <<packets, acks, published, verdict, exact>>

\* the caller drops the future
GiveUp(c) ==
    /\ Cancel
    /\ call[c] = "wait"
    /\ call' = [call EXCEPT ![c] = "done"]
    /\ inTurn' = FALSE
    /\ UNCHANGED <<result, packets, acks, published, verdict, exact>>

-----------------------------------------------------------------------------
\* fault: plain publications are acknowledged too
ServeAcksAll(p, v) ==
    /\ p \in packets
    /\ packets' \in Delivered(packets, p)
    /\ exact' = (exact /\ (p.ack => p \notin packets'))
    /\ published' = IF v = "RESPONSE_OK" THEN published \union {p.call}
                    ELSE published
    /\ verdict' = [verdict EXCEPT ![p.call] = v]
    /\ acks' = acks \union {[call |-> p.call, code |-> v]}
    /\ UNCHANGED <<call, result, inTurn>>

\* fault: an error that asks for an acknowledgment gets the code of success
ServeErrorAsOk(p, v) ==
    /\ p \in packets
    /\ packets' \in Delivered(packets, p)
    /\ exact' = (exact /\ (p.ack => p \notin packets'))
    /\ published' = IF v = "RESPONSE_OK" THEN published \union {p.call}
                    ELSE published
    /\ verdict' = [verdict EXCEPT ![p.call] = v]
    /\ acks' = IF p.ack THEN acks \union {[call |-> p.call, code |-> "RESPONSE_OK"]}
               ELSE acks
    /\ UNCHANGED <<call, result, inTurn>>

(* handle_udp_listener, one packet at a time: process_udp_packet publishes *)
(* or fails; an acknowledgment is sent when the operation asked for it.    *)
Serve(p, v) ==
    /\ p \in packets
    /\ packets' \in Delivered(packets, p)
    /\ exact' = (exact /\ (p.ack => p \notin packets'))
    /\ published' = IF v = "RESPONSE_OK" THEN published \union {p.call}
                    ELSE published
    /\ verdict' = [verdict EXCEPT ![p.call] = v]
    /\ acks' = IF p.ack THEN acks \union {[call |-> p.call, code |-> v]}
               ELSE acks
    /\ UNCHANGED <<call, result, inTurn>>

(* An error found before the operation code (short packet, header, version *)
(* or key) is not acknowledged: the packet is as good as lost.             *)
Lose ==
    /\ \/ \E p \in packets : packets' = packets \ {p} /\ UNCHANGED acks
       \/ \E a \in acks : acks' = acks \ {a} /\ UNCHANGED packets
    /\ UNCHANGED <<call, result, published, verdict, inTurn, exact>>

-----------------------------------------------------------------------------
Init ==
    /\ call = [c \in Calls |-> "new"]
    /\ result = [c \in Calls |-> None]
    /\ packets = {} /\ acks = {} /\ published = {}
    /\ verdict = [c \in Calls |-> None]
    /\ inTurn = TRUE /\ exact = TRUE

Next ==
    \/ \E c \in Calls : \/ \E ack \in BOOLEAN : Send(c, ack)
                        \/ \E a \in acks : RecvAck(c, a)
                        \/ GiveUp(c)
    \/ \E p \in packets, v \in Codes : Serve(p, v)
    \/ Lose

Spec == Init /\ [][Next]_vars

-----------------------------------------------------------------------------
(* Types of all variables.                                                 *)
TypeOK ==
    /\ call \in [Calls -> {"new", "wait", "done"}]
    /\ result \in [Calls -> Codes \union {None}]
    /\ packets \subseteq Packet
    /\ acks \subseteq Ack
    /\ published \subseteq Calls
    /\ verdict \in [Calls -> Codes \union {None}]
    /\ {inTurn, exact} \subseteq BOOLEAN

(* Used one call at a time and to the end, publish_confirmed returns the   *)
(* server's answer to its own message, however packets and acknowledgments *)
(* are lost or delayed and whatever plain publications, duplicated ones    *)
(* too, go before; unless the network repeated what is acknowledged.       *)
ResultIsOwn ==
    inTurn /\ exact =>
        \A c \in Calls : result[c] # None => result[c] = verdict[c]

(* Even when calls overlap or are given up, so that they take each other's *)
(* acknowledgments, no more calls return Ok than messages were published;  *)
(* each repetition by the network may be taken for one message more.       *)
NoExtraConfirmations ==
    exact => Cardinality({c \in Calls : result[c] = "RESPONSE_OK"})
                <= Cardinality(published)

(* "publish a topic with acknowledgment" (client.rs:885): a call that      *)
(* returned Ok has been published, if calls are made in turn and awaited.  *)
(* Both premises are needed: without numbers in the packets a late         *)
(* acknowledgment of a call that was given up confirms the next one, whose *)
(* packet was lost, and a repeated one does so even for calls in turn.     *)
ConfirmedIsPublished ==
    inTurn /\ exact =>
        \A c \in Calls : result[c] = "RESPONSE_OK" => c \in published
=============================================================================
