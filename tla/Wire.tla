-------------------------------- MODULE Wire --------------------------------
(***************************************************************************)
(* How commands, messages and UDP packets are written and read: client.rs  *)
(* (ControlCommand::as_bytes, run_control_stream, run_data_stream,         *)
(* publish_impl), server.rs (process_control, push_to_subscribers,         *)
(* process_udp_packet, process_udp_block), comm.rs (read_frame) and lib.rs *)
(* (Message::from_buf); and the latency the server reports.                *)
(*                                                                         *)
(* Texts, payloads and streams are sequences of numbers: bytes, but a      *)
(* length or a time stamp is one element.  A reader of a stream yields     *)
(* <<what it read, the rest>>, or Fail.                                    *)
(***************************************************************************)
EXTENDS Integers, Sequences, SequencesExt

CONSTANTS
    Thousand, W32, W64,     \* 1000, 2^32 and 2^64, or smaller
    MAX_TOPIC_LENGTH,       \* limits of the configuration, in bytes
    MAX_PUB_SIZE,
    UDP_FRAME_SIZE,         \* udp_frame_size: bytes of the listener's buffer
    SealSize                \* nonce and digest of an encrypted packet: 28
                            \* bytes, or fewer

ASSUME WidthAssumption ==
    {Thousand, W32, W64} \subseteq Nat \ {0} /\ Thousand * W32 <= W64

ASSUME LimitAssumption ==
    {MAX_TOPIC_LENGTH, MAX_PUB_SIZE, UDP_FRAME_SIZE, SealSize} \subseteq Nat

Fail == <<>>

OP_NOP              == 0
OP_PUBLISH          == 1
OP_SUBSCRIBE        == 2
OP_UNSUBSCRIBE      == 3
OP_PUBLISH_REPL     == 17
OP_PUBLISH_NO_ACK   == 33
OP_BYE              == 255
RESPONSE_OK         == 1
DEFAULT_PRIORITY    == 127

CONTROL_HEADER      == <<238, 170>>
PROTOCOL_VERSION    == <<1, 0>>     \* 1, little-endian
AUTH_LOGIN_PASS     == 0
AUTH_KEY_AES128_GCM == 2
AUTH_KEY_AES256_GCM == 3

From(s, i) == SubSeq(s, i, Len(s))

-----------------------------------------------------------------------------
(* Splitting at zero bytes                                                 *)

Zeros(s) == {i \in 1..Len(s) : s[i] = 0}

\* position of the first zero byte of s that has one
FirstZero(s) == CHOOSE i \in Zeros(s) : \A j \in Zeros(s) : i <= j

\* the two parts of splitn(2, 0), and of position and split_off
Before(s) == IF Zeros(s) = {} THEN s ELSE SubSeq(s, 1, FirstZero(s) - 1)
After(s)  == From(s, FirstZero(s) + 1)

\* the zero byte that ends the piece beginning at i, or the end of s
EndOf(s, i) ==
    CHOOSE e \in i..(Len(s) + 1) :
        /\ e = Len(s) + 1 \/ s[e] = 0
        /\ \A j \in i..(e - 1) : s[j] # 0

\* split(0) without the empty pieces
parse_topics(s) ==
    LET topics[i \in 1..(Len(s) + 2)] ==
          IF i > Len(s) THEN <<>>
          ELSE (IF EndOf(s, i) = i THEN <<>> ELSE <<SubSeq(s, i, EndOf(s, i) - 1)>>)
                 \o topics[EndOf(s, i) + 1]
    IN  topics[1]

\* every text followed by a zero byte
Joined(texts) == FlattenSeq([k \in 1..Len(texts) |-> Append(texts[k], 0)])

-----------------------------------------------------------------------------
(* The control stream                                                      *)

WithLength(s) == <<Len(s)>> \o s

\* fault: the zero bytes of a list are not counted
TopicsUncounted(c) ==
    IF c.bulk
    THEN <<Len(Joined(c.topics)) - Len(c.topics)>> \o Joined(c.topics)
    ELSE WithLength(c.topics[1])

\* Subscribe and Unsubscribe, with one topic or a list
TopicsBytes(c) ==
    WithLength(IF c.bulk THEN Joined(c.topics) ELSE c.topics[1])

\* ControlCommand::as_bytes; the message of a Publish follows it
as_bytes(c) ==
    CASE c.op \in {OP_NOP, OP_BYE} -> <<c.op>>
      [] c.op \in {OP_SUBSCRIBE, OP_UNSUBSCRIBE} -> <<c.op>> \o TopicsBytes(c)
      [] c.op = OP_PUBLISH ->
           <<c.op, c.prio, Len(c.topic) + 1 + Len(c.data)>> \o c.topic
             \o <<0>> \o c.data
      [] c.op = OP_PUBLISH_REPL -> <<c.op>> \o WithLength(c.topic)

\* run_control_stream, when the other node waits for the message
repl_body(c) == <<c.prio, c.time>> \o WithLength(c.data)

\* Fail: the frame is longer than the limit, or incomplete
read_frame(s, max) ==
    IF s = <<>> \/ s[1] > max \/ Len(s) < 1 + s[1] THEN Fail
    ELSE <<SubSeq(s, 2, 1 + s[1]), From(s, 2 + s[1])>>

\* process_control, as far as it reads
read_command(s) ==
    LET op == Head(s)
        f  == IF op = OP_PUBLISH THEN read_frame(From(s, 3), MAX_PUB_SIZE)
              ELSE read_frame(From(s, 2), MAX_TOPIC_LENGTH)
    IN  CASE op \in {OP_NOP, OP_BYE} -> <<[op |-> op], Tail(s)>>
          [] op \in {OP_SUBSCRIBE, OP_UNSUBSCRIBE} /\ f # Fail ->
               <<[op |-> op, topics |-> parse_topics(f[1])], f[2]>>
          [] op = OP_PUBLISH /\ f # Fail ->
               IF Zeros(f[1]) = {} \/ Before(f[1]) = <<>> THEN Fail
               ELSE <<[op |-> op, prio |-> s[2], topic |-> Before(f[1]),
                       data |-> After(f[1])], f[2]>>
          [] op = OP_PUBLISH_REPL /\ f # Fail ->
               <<[op |-> op, topic |-> f[1]], f[2]>>
          [] OTHER -> Fail

\* the rest of OP_PUBLISH_REPL, after OK_WAITING
read_repl_body(s) ==
    LET f == read_frame(From(s, 3), MAX_PUB_SIZE) IN
    IF f = Fail THEN Fail
    ELSE <<[prio |-> s[1], time |-> s[2], data |-> f[1]], f[2]>>

-----------------------------------------------------------------------------
(* The data stream                                                         *)

\* push_to_subscribers: the frame, and the message after it
message_frame(m) ==
    <<RESPONSE_OK, m.prio, Len(m.topic) + Len(m.data) + 1>> \o m.topic
      \o <<0>> \o m.data

\* fault: the payload begins after the last zero byte
from_buf_last(s, prio) ==
    LET z == CHOOSE i \in Zeros(s) : \A j \in Zeros(s) : i >= j IN
    [prio |-> prio, topic |-> SubSeq(s, 1, z - 1), data |-> From(s, z + 1)]

\* Message::from_buf of a buffer that has a zero byte
from_buf(s, prio) == [prio |-> prio, topic |-> Before(s), data |-> After(s)]

\* run_data_stream: one round of its loop.  An invalid message is dropped,
\* an invalid frame ends it; frames have no limit
read_message(s) ==
    LET f == read_frame(From(s, 3), Len(s)) IN
    CASE Head(s) = OP_NOP -> <<<<>>, Tail(s)>>
      [] Head(s) = RESPONSE_OK /\ f # Fail ->
           <<IF Zeros(f[1]) = {} THEN <<>> ELSE <<from_buf(f[1], s[2])>>, f[2]>>
      [] OTHER -> Fail

-----------------------------------------------------------------------------
(* UDP packets: clear bytes, and what is sealed with a key, if anything,   *)
(* which is SealSize bytes longer than the block inside.                   *)

preamble(auth) == CONTROL_HEADER \o PROTOCOL_VERSION \o <<auth>>

\* publish_impl: op is OP_PUBLISH or OP_PUBLISH_NO_ACK
packet(p) ==
    LET block == <<p.op, DEFAULT_PRIORITY>> \o p.topic \o <<0>> \o p.data IN
    IF p.encrypt
    THEN [clear |-> preamble(AUTH_KEY_AES256_GCM) \o (p.login \o <<0>>),
          sealed |-> <<[key |-> p.secret, block |-> block]>>]
    ELSE [clear |-> preamble(AUTH_LOGIN_PASS)
                      \o (p.login \o <<0>> \o (p.secret \o <<0>> \o block)),
          sealed |-> <<>>]

size(f) == Len(f.clear) + (IF f.sealed = <<>> THEN 0
                           ELSE SealSize + Len(f.sealed[1].block))

\* handle_udp_listener: recv_from cuts what does not fit its buffer, and does
\* not say so; a seal is worth nothing then
received(f) ==
    IF size(f) <= UDP_FRAME_SIZE THEN f
    ELSE [clear |-> IF Len(f.clear) <= UDP_FRAME_SIZE THEN f.clear
                    ELSE SubSeq(f.clear, 1, UDP_FRAME_SIZE),
          sealed |-> <<>>]

\* an error, and whether it is acknowledged
Refused(ack) == [ack |-> ack]

\* Keys::auth_and_decr with the key of the login: a whole seal opens with the
\* key it was made with
auth_and_decr(sealed, key) ==
    IF sealed # <<>> /\ sealed[1].key = key THEN sealed[1].block ELSE Fail

\* fault: the block is split again for every zero byte
read_block_pieces(s) ==
    LET head == Before(s) IN
    IF Len(head) < 3 \/ head[1] \notin {OP_PUBLISH, OP_PUBLISH_NO_ACK}
    THEN Refused(FALSE)
    ELSE IF Zeros(s) = {} THEN Refused(head[1] = OP_PUBLISH)
    ELSE [op |-> head[1], prio |-> head[2], topic |-> From(head, 3),
          data |-> Before(After(s))]

\* process_udp_block, as far as it reads
read_block(s) ==
    LET head == Before(s) IN
    IF Len(head) < 3 \/ head[1] \notin {OP_PUBLISH, OP_PUBLISH_NO_ACK}
    THEN Refused(FALSE)
    ELSE IF Zeros(s) = {} THEN Refused(head[1] = OP_PUBLISH)
    ELSE [op |-> head[1], prio |-> head[2], topic |-> From(head, 3),
          data |-> After(s)]

\* the length, header and version, and EncryptionType::from_byte
ValidPreamble(s) ==
    /\ Len(s) >= 5
    /\ <<s[1], s[2]>> = CONTROL_HEADER /\ <<s[3], s[4]>> = PROTOCOL_VERSION
    /\ s[5] \in {AUTH_LOGIN_PASS, AUTH_KEY_AES128_GCM, AUTH_KEY_AES256_GCM}

\* process_udp_packet: the login, the password if one was sent, the block;
\* or the error, of the packet or of its block
read_packet(f, key) ==
    LET rest   == From(f.clear, 6)
        secret == After(rest)
        opened == auth_and_decr(f.sealed, key)
        Read(who, block) ==
          IF block \in {Refused(TRUE), Refused(FALSE)} THEN block
          ELSE [who |-> who, block |-> block]
    IN  IF ~ValidPreamble(f.clear) \/ Zeros(rest) = {} THEN Refused(FALSE)
        ELSE IF f.clear[5] = AUTH_LOGIN_PASS
        THEN IF Zeros(secret) = {} THEN Refused(FALSE)
             ELSE Read(<<Before(rest), Before(secret)>>, read_block(After(secret)))
        ELSE IF opened = Fail THEN Refused(FALSE)
        ELSE Read(<<Before(rest)>>, read_block(opened))

-----------------------------------------------------------------------------
\* fault: cut to 32 bits before the division
latency_cut_first(now, timestamp) ==
    (((now - timestamp) % W64) % W32) \div Thousand

\* handle_data_stream: nanoseconds are subtracted without overflow checks;
\* microseconds are cut to 32 bits
latency_mks(now, timestamp) == (((now - timestamp) % W64) \div Thousand) % W32
=============================================================================
