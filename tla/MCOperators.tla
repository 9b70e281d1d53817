----------------------------- MODULE MCOperators -----------------------------
(***************************************************************************)
(* The pure operations of TopicOps and Wire against reference definitions, *)
(* for every input of bounded length over a small alphabet.  There are     *)
(* three families of inputs: a topic and a mask that grow chunk by chunk;  *)
(* texts and a payload that grow byte by byte; two readings of the clock.  *)
(* Every reached combination is checked.                                   *)
(***************************************************************************)
EXTENDS TopicOps, Wire

CONSTANTS
    Chunks, MaxTopicLen, MaxMaskLen,
    MaxText,        \* bound: bytes of a text or payload
    MaxTime         \* bound: clock readings

ASSUME BoundAssumption == {MaxTopicLen, MaxMaskLen, MaxText, MaxTime} \subseteq Nat

Families == {"topics", "bytes", "clock"}

VARIABLES
    family,
    topic, mask,        \* sequences of chunks
    text, other, data,  \* sequences of bytes; a text has no zero byte
    now, sent           \* clock readings

vars == <<family, topic, mask, text, other, data, now, sent>>

Init ==
    /\ family \in Families
    /\ \E c, k \in Chunks : topic = <<c>> /\ mask = <<k>>
    /\ family # "topics" => topic = EmptyTopic /\ mask = EmptyTopic
    /\ text = <<>> /\ other = <<>> /\ data = <<>>
    /\ now = 0 /\ sent = 0

Grow(s, set, bound) == {Append(s, x) : x \in {y \in set : Len(s) < bound}}

GrowTopic == topic' \in Grow(topic, Chunks, MaxTopicLen) /\ UNCHANGED mask
GrowMask  == mask' \in Grow(mask, Chunks, MaxMaskLen) /\ UNCHANGED topic

GrowText  == text' \in Grow(text, {1, 2}, MaxText) /\ UNCHANGED <<other, data>>
GrowOther == other' \in Grow(other, {1}, MaxText) /\ UNCHANGED <<text, data>>
GrowData  == data' \in Grow(data, {0, 1}, MaxText) /\ UNCHANGED <<text, other>>

Next ==
    /\ \/ /\ family = "topics"
          /\ GrowTopic \/ GrowMask
          /\ UNCHANGED <<text, other, data, now, sent>>
       \/ /\ family = "bytes"
          /\ GrowText \/ GrowOther \/ GrowData
          /\ UNCHANGED <<topic, mask, now, sent>>
       \/ /\ family = "clock"
          /\ now' \in 0..MaxTime /\ sent' \in 0..MaxTime
          /\ UNCHANGED <<topic, mask, text, other, data>>
    /\ UNCHANGED family

Spec == Init /\ [][Next]_vars

-----------------------------------------------------------------------------
(* prepare_topic yields the one canonical spelling of a topic: the same    *)
(* named chunks in the same order, a trailing '/' kept exactly when there  *)
(* was one, no other empty chunk; and preparing it again changes nothing,  *)
(* which replication relies on ("do not prepare topic as it comes from     *)
(* another node").                                                         *)
PreparedIsCanonical ==
    LET r == prepare_topic(topic) IN
    /\ Named(r) = Named(topic)
    /\ (r[Len(r)] = "") = (topic[Len(topic)] = "")
    /\ \A i \in 1..(Len(r) - 1) : r[i] # ""
    /\ prepare_topic(r) = r

(* What a mask means, without the loop: with a "#" at k the first k - 1    *)
(* chunks agree and at least one more is there; without one all chunks     *)
(* agree and none is left over.                                            *)
Agree(m, p, n) == \A i \in 1..n : m[i] = "+" \/ m[i] = p[i]
MeansMatch(m, p) ==
    \/ \E k \in 1..Len(m) :
         /\ m[k] = "#" /\ \A i \in 1..(k - 1) : m[i] # "#"
         /\ Len(p) >= k /\ Agree(m, p, k - 1)
    \/ /\ \A i \in 1..Len(m) : m[i] # "#"
       /\ Len(p) = Len(m) /\ Agree(m, p, Len(m))

(* The chunk-by-chunk loop of PathMask::matches_split, on the parsed mask, *)
(* decides exactly the meaning of the mask as written in the ACL file.     *)
MaskMatchesMeaning ==
    MaskParses(mask) =>
        (matches_split(from_str(mask), topic) = MeansMatch(mask, topic))

(* Writing a parsed mask out and parsing it again gives a mask of the same *)
(* meaning, so a serialized PathMaskList allows what it allowed before.    *)
(* The two masks need not be equal: "#/x" parses to the chunks ["#"] and   *)
(* its text "#" to None, which differ for Eq and Hash and match the same.  *)
MaskRoundTripKeepsMeaning ==
    MaskParses(mask) =>
        LET parsed  == from_str(mask)
            written == to_string(parsed)
        IN  /\ MaskParses(written)
            /\ matches_split(from_str(written), topic)
                  = matches_split(parsed, topic)

-----------------------------------------------------------------------------
\* what may follow a command or a message on its stream
Tails == {<<>>, <<OP_NOP>>, <<OP_BYE>>, message_frame([prio |-> 0, topic |-> <<1>>,
                                                       data |-> <<0>>])}

\* the commands a client can issue with the texts at hand, and what the
\* server must take each for
Commands ==
    LET Given(t) == IF t = <<>> THEN <<>> ELSE <<t>>
        Topics(op, ts, bulk) ==
          <<[op |-> op, topics |-> ts, bulk |-> bulk],
            [op |-> op, topics |-> FlattenSeq([k \in 1..Len(ts) |-> Given(ts[k])])]>>
        publish == [op |-> OP_PUBLISH, prio |-> 0, topic |-> text, data |-> data]
        offer   == [op |-> OP_PUBLISH_REPL, topic |-> text]
    IN  {<<[op |-> op], [op |-> op]>> : op \in {OP_NOP, OP_BYE}}
        \union (UNION {{Topics(op, <<text>>, FALSE), Topics(op, <<text>>, TRUE),
                        Topics(op, <<text, other>>, TRUE)} :
                         op \in {OP_SUBSCRIBE, OP_UNSUBSCRIBE}})
        \union {<<offer, offer>>}
        \union (IF text = <<>> THEN {} ELSE {<<publish, publish>>})

\* the server's limits admit the command
Fits(c) ==
    CASE c.op \in {OP_SUBSCRIBE, OP_UNSUBSCRIBE} ->
           (IF c.bulk THEN Len(FlattenSeq(c.topics)) + Len(c.topics)
            ELSE Len(c.topics[1])) <= MAX_TOPIC_LENGTH
      [] c.op = OP_PUBLISH -> Len(c.topic) + Len(c.data) < MAX_PUB_SIZE
      [] c.op = OP_PUBLISH_REPL -> Len(c.topic) <= MAX_TOPIC_LENGTH
      [] OTHER -> TRUE

(* The server reads from the control stream the commands the client wrote, *)
(* whatever follows them: topic lists with and without empty topics,       *)
(* payloads with zero bytes, empty payloads; and the two ends stay in step *)
(* for the next command.  A command beyond the limits is refused as a      *)
(* whole (as_bytes, run_control_stream; process_control).                  *)
CommandsReadBack ==
    \A tail \in Tails :
        /\ \A c \in Commands :
             read_command(as_bytes(c[1]) \o tail)
               = IF Fits(c[1]) THEN <<c[2], tail>> ELSE Fail
        /\ LET m == [prio |-> 1, time |-> 7, data |-> data] IN
           read_repl_body(repl_body(m) \o tail)
             = IF Len(data) <= MAX_PUB_SIZE THEN <<m, tail>> ELSE Fail

(* The client reads from the data stream the messages the server pushed,   *)
(* and stays in step with it.  A topic there is never empty.               *)
MessagesReadBack ==
    LET m == [prio |-> 0, topic |-> text, data |-> data] IN
    \A tail \in Tails :
        /\ text # <<>> =>
             read_message(message_frame(m) \o tail) = <<<<m>>, tail>>
        /\ read_message(<<OP_NOP>> \o tail) = <<<<>>, tail>>

\* packets with the texts at hand, one of them with an operation that is not
\* for UDP
Packets ==
    {[op |-> op, encrypt |-> enc, login |-> other, secret |-> text, topic |-> t,
      data |-> data] : op \in {OP_PUBLISH, OP_PUBLISH_NO_ACK, OP_SUBSCRIBE},
                       enc \in BOOLEAN, t \in {<<1>>, <<2, 2>>}}

\* what the listener makes of a packet, and by how much that is too long
Taken(p)  == read_packet(received(packet(p)), p.secret)
Excess(p) == size(packet(p)) - UDP_FRAME_SIZE

\* what it should, if the payload is d
Told(p, d) ==
    [who   |-> IF p.encrypt THEN <<p.login>> ELSE <<p.login, p.secret>>,
     block |-> [op |-> p.op, prio |-> DEFAULT_PRIORITY, topic |-> p.topic,
                data |-> d]]

(* The UDP listener reads from a packet what UdpClient put there, with a   *)
(* password (or none) and with a key: the first zero bytes belong to the   *)
(* layout, the later ones to the payload.  Of what does not fit its buffer *)
(* (recv_from cuts it silently, "max udp frame size" or not, as            *)
(* test-configs/config.yml:23 has it) an encrypted packet is refused; a    *)
(* plain one is taken with the payload cut short, and refused when more than the *)
(* payload is missing, with an acknowledgment if the operation and a byte  *)
(* of the topic are left to tell that one was asked for.                   *)
PacketsReadBack ==
    \A p \in Packets :
        LET excess == Excess(p)
            short  == excess - Len(p.data)
        IN  Taken(p) =
              IF p.op \notin {OP_PUBLISH, OP_PUBLISH_NO_ACK} THEN Refused(FALSE)
              ELSE IF excess <= 0 THEN Told(p, p.data)
              ELSE IF p.encrypt THEN Refused(FALSE)
              ELSE IF short <= 0 THEN Told(p, SubSeq(p.data, 1, -short))
              ELSE Refused(p.op = OP_PUBLISH /\ short <= Len(p.topic))

(* The latency the server counts and warns about is the time that passed   *)
(* since the message came in, in microseconds, exactly when the clock was  *)
(* not set back (or the other node's clock not ahead) and the time fits 32 *)
(* bits; otherwise it is some other number.                                *)
LatencyIsTrue ==
    (latency_mks(now, sent) = (now - sent) \div Thousand)
        = (sent <= now /\ now - sent < Thousand * W32)
=============================================================================
