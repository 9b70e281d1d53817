-------------------------- MODULE UdpConfirmProofs --------------------------
(***************************************************************************)
(* What an acknowledgment is worth, for any calls and any network: used in *)
(* turn, a call returns the answer to its own message; however calls       *)
(* overlap or are given up, there are no more confirmations than published *)
(* messages; both as long as nothing acknowledged was delivered twice.     *)
(***************************************************************************)
EXTENDS UdpConfirm, FiniteSetTheorems, TLAPS

-----------------------------------------------------------------------------
(* The inductive invariant.                                                *)

\* a call has a result only when it is over, and a packet only once it began
Untouched ==
    \A c \in Calls :
        /\ call[c] # "done" => result[c] = None
        /\ call[c] = "new" => /\ verdict[c] = None /\ c \notin published
                              /\ \A p \in packets : p.call # c
                              /\ \A a \in acks : a.call # c

\* a message is under way at most once, and its answer afterwards; of plain
\* publications, which may be delivered again, there is no answer
Once ==
    exact =>
        /\ \A p, q \in packets : p.call = q.call => p = q
        /\ \A a, b \in acks : a.call = b.call => a = b
        /\ \A p \in packets : /\ \A a \in acks : a.call # p.call
                              /\ call[p.call] = "wait" => p.ack
                              /\ ~p.ack => result[p.call] = None
                              /\ p.ack => /\ verdict[p.call] = None
                                          /\ p.call \notin published

\* Ok is said of what was published
Truthful == \A c \in Calls : verdict[c] = "RESPONSE_OK" => c \in published

\* in turn there is one question at a time, and what is under way is about it
Turn ==
    inTurn /\ exact =>
        /\ \A b, c \in Calls : call[b] = "wait" /\ call[c] = "wait" => b = c
        /\ \A p \in packets : p.ack => call[p.call] = "wait"
        /\ \A a \in acks : call[a.call] = "wait" /\ verdict[a.call] = a.code

\* calls that returned Ok, and Oks under way
Confirmed == {c \in Calls : result[c] = "RESPONSE_OK"}
OkAcks    == {a \in acks : a.code = "RESPONSE_OK"}

\* every Ok, returned or under way, stands for a published message
Covered ==
    exact =>
        /\ IsFiniteSet(published) /\ IsFiniteSet(Confirmed) /\ IsFiniteSet(OkAcks)
        /\ Cardinality(Confirmed) + Cardinality(OkAcks) <= Cardinality(published)

Order == Untouched /\ Once /\ Truthful /\ Turn /\ ResultIsOwn

IInv == TypeOK /\ Order /\ Covered

-----------------------------------------------------------------------------
(* Every action keeps the types.                                           *)
LEMMA TypesKept ==
    ASSUME TypeOK, [Next]_vars
    PROVE  TypeOK'
<1> USE DEF TypeOK
<1>1. ASSUME NEW c \in Calls, NEW ack \in BOOLEAN, Send(c, ack) PROVE TypeOK'
  BY <1>1 DEF Send, Packet
<1>2. ASSUME NEW c \in Calls, NEW a \in acks, RecvAck(c, a) PROVE TypeOK'
  BY <1>2 DEF RecvAck, Delivered, Ack
<1>3. ASSUME NEW c \in Calls, GiveUp(c) PROVE TypeOK'
  BY <1>3 DEF GiveUp
<1>4. ASSUME NEW p \in packets, NEW v \in Codes, Serve(p, v) PROVE TypeOK'
  BY <1>4 DEF Serve, Delivered, Packet, Ack
<1>5. CASE Lose BY <1>5 DEF Lose
<1>6. CASE UNCHANGED vars BY <1>6 DEF vars
<1> QED BY <1>1, <1>2, <1>3, <1>4, <1>5, <1>6 DEF Next

(* Every action keeps what is known of packets, answers and results.       *)
LEMMA OrderKept ==
    ASSUME TypeOK, Order, [Next]_vars
    PROVE  Order'
<1> USE DEF TypeOK, Order
<1>1. ASSUME NEW c \in Calls, NEW ack \in BOOLEAN, Send(c, ack) PROVE Order'
  <2>1. Untouched' BY <1>1 DEF Send, Untouched
  <2>2. Once' BY <1>1 DEF Send, Once, Untouched
  <2>3. Truthful' BY <1>1 DEF Send, Truthful
  <2>4. Turn'
    <3> SUFFICES ASSUME inTurn', exact' PROVE Turn' BY DEF Turn
    <3>1. inTurn /\ exact /\ \A b \in Calls : call[b] # "wait" BY <1>1 DEF Send
    <3>2. acks = {} /\ \A p \in packets : ~p.ack
      BY <3>1 DEF Turn, Packet, Ack
    <3>3. \A p \in packets' : p.ack => p.call = c /\ call'[c] = "wait"
      BY <1>1, <3>2 DEF Send
    <3>4. \A b \in Calls : call'[b] = "wait" => b = c
      BY <1>1, <3>1 DEF Send
    <3> QED BY <1>1, <3>2, <3>3, <3>4 DEF Turn, Send
  <2>5. ResultIsOwn' BY <1>1 DEF Send, ResultIsOwn
  <2> QED BY <2>1, <2>2, <2>3, <2>4, <2>5
<1>2. ASSUME NEW c \in Calls, NEW a \in acks, RecvAck(c, a) PROVE Order'
  <2>0. acks' \subseteq acks /\ (exact' => exact /\ acks' = acks \ {a})
    BY <1>2 DEF RecvAck, Delivered
  <2>1. Untouched' BY <1>2, <2>0 DEF RecvAck, Untouched
  <2>2. Once' BY <1>2, <2>0 DEF RecvAck, Once, Packet
  <2>3. Truthful' BY <1>2 DEF RecvAck, Truthful
  <2>4. inTurn /\ exact => a.call = c /\ a.code = verdict[c]
    BY <1>2 DEF RecvAck, Turn, Ack
  <2>5. Turn' BY <1>2, <2>0, <2>4 DEF RecvAck, Turn, Once, Packet, Ack
  <2>6. ResultIsOwn' BY <1>2, <2>0, <2>4 DEF RecvAck, ResultIsOwn
  <2> QED BY <2>1, <2>2, <2>3, <2>5, <2>6
<1>3. ASSUME NEW c \in Calls, GiveUp(c) PROVE Order'
  BY <1>3 DEF GiveUp, Untouched, Once, Truthful, Turn, ResultIsOwn
<1>4. ASSUME NEW p \in packets, NEW v \in Codes, Serve(p, v) PROVE Order'
  <2>0. /\ p.call \in Calls /\ p.ack \in BOOLEAN
        /\ exact => result[p.call] = None \/ p.ack
        /\ exact /\ p.ack => verdict[p.call] = None
    BY DEF Packet, Once
  <2>p. /\ packets' \subseteq packets
        /\ exact' => exact /\ (p.ack => packets' = packets \ {p})
    BY <1>4 DEF Serve, Delivered
  <2>1. Untouched' BY <1>4, <2>0, <2>p DEF Serve, Untouched
  <2>2. Once'
    <3> SUFFICES ASSUME exact' PROVE Once' BY DEF Once
    <3>1. exact BY <2>p
    <3>2. CASE p.ack BY <1>4, <2>0, <2>p, <3>1, <3>2 DEF Serve, Once, Packet
    <3>3. CASE ~p.ack
      <4>1. acks' = acks /\ call' = call /\ result' = result
        BY <1>4, <3>3 DEF Serve
      <4>2. ASSUME NEW q \in packets', q.ack
            PROVE  verdict'[q.call] = None /\ q.call \notin published'
        <5>1. q \in packets /\ q.call # p.call
          BY <2>p, <3>1, <3>3, <4>2 DEF Once
        <5>2. q.call \in Calls BY <5>1 DEF Packet
        <5> QED BY <1>4, <2>0, <3>1, <4>2, <5>1, <5>2 DEF Serve, Once
      <4> QED BY <2>p, <3>1, <4>1, <4>2 DEF Once
    <3> QED BY <2>0, <3>2, <3>3
  <2>3. Truthful' BY <1>4, <2>0 DEF Serve, Truthful
  <2>4. Turn' BY <1>4, <2>0, <2>p DEF Serve, Turn, Once, Packet, Ack
  <2>5. ResultIsOwn'
    <3> SUFFICES ASSUME inTurn', exact', NEW b \in Calls, result'[b] # None
                 PROVE  result'[b] = verdict'[b]
      BY DEF ResultIsOwn
    <3>1. inTurn /\ exact /\ result'[b] = result[b] BY <1>4, <2>p DEF Serve
    <3>2. result[b] = verdict[b] BY <3>1 DEF ResultIsOwn
    <3>3. b # p.call BY <2>0, <3>1, <3>2
    <3> QED BY <1>4, <3>1, <3>2, <3>3 DEF Serve
  <2> QED BY <2>1, <2>2, <2>3, <2>4, <2>5
<1>5. CASE Lose
  BY <1>5 DEF Lose, Untouched, Once, Truthful, Turn, ResultIsOwn
<1>6. CASE UNCHANGED vars
  BY <1>6 DEF vars, Untouched, Once, Truthful, Turn, ResultIsOwn
<1> QED BY <1>1, <1>2, <1>3, <1>4, <1>5, <1>6 DEF Next

(* Acknowledgments that are not added to leave the count as it is.         *)
LEMMA NoneAdded ==
    ASSUME Covered, exact' => exact, Confirmed' = Confirmed,
           acks' \subseteq acks, published' = published
    PROVE  Covered'
<1> SUFFICES ASSUME exact' PROVE Covered' BY DEF Covered
<1>1. OkAcks' \subseteq OkAcks BY DEF OkAcks
<1>2. IsFiniteSet(OkAcks') /\ Cardinality(OkAcks') <= Cardinality(OkAcks)
  BY <1>1, FS_Subset DEF Covered
<1>3. Cardinality(OkAcks') \in Nat /\ Cardinality(OkAcks) \in Nat
      /\ Cardinality(Confirmed) \in Nat /\ Cardinality(published) \in Nat
  BY <1>2, FS_CardinalityType DEF Covered
<1> QED BY <1>2, <1>3 DEF Covered

(* Every action keeps the count: an acknowledgment becomes a result, and   *)
(* a new one comes with a message that was not published before.           *)
LEMMA CountKept ==
    ASSUME TypeOK, Order, Covered, [Next]_vars
    PROVE  Covered'
<1> USE DEF TypeOK, Order
<1>0. exact => /\ Cardinality(OkAcks) \in Nat /\ Cardinality(Confirmed) \in Nat
               /\ Cardinality(published) \in Nat
  BY FS_CardinalityType DEF Covered
<1>1. ASSUME NEW c \in Calls, NEW ack \in BOOLEAN, Send(c, ack) PROVE Covered'
  BY <1>1, NoneAdded DEF Send, Confirmed
<1>2. ASSUME NEW c \in Calls, NEW a \in acks, RecvAck(c, a) PROVE Covered'
  <2> SUFFICES ASSUME exact' PROVE Covered' BY DEF Covered
  <2>0. exact /\ acks' = acks \ {a} BY <1>2 DEF RecvAck, Delivered
  <2>1. result[c] = None /\ c \notin Confirmed
    BY <1>2, NoneAssumption DEF RecvAck, Untouched, Confirmed, Codes
  <2>2. CASE a.code = "RESPONSE_OK"
    <3>1. Confirmed' = Confirmed \union {c} /\ OkAcks' = OkAcks \ {a} /\ a \in OkAcks
      BY <1>2, <2>0, <2>2 DEF RecvAck, Confirmed, OkAcks
    <3>2. IsFiniteSet(Confirmed') /\ Cardinality(Confirmed') = Cardinality(Confirmed) + 1
      BY <2>0, <2>1, <3>1, FS_AddElement DEF Covered
    <3>3. IsFiniteSet(OkAcks') /\ Cardinality(OkAcks') = Cardinality(OkAcks) - 1
      BY <2>0, <3>1, FS_RemoveElement DEF Covered
    <3> QED BY <1>0, <1>2, <2>0, <3>2, <3>3 DEF Covered, RecvAck
  <2>3. CASE a.code # "RESPONSE_OK"
    <3>1. Confirmed' = Confirmed
      BY <1>2, <2>1, <2>3 DEF RecvAck, Confirmed
    <3> QED BY <1>2, <2>0, <3>1, NoneAdded DEF RecvAck
  <2> QED BY <2>2, <2>3
<1>3. ASSUME NEW c \in Calls, GiveUp(c) PROVE Covered'
  BY <1>3, NoneAdded DEF GiveUp, Confirmed
<1>4. ASSUME NEW p \in packets, NEW v \in Codes, Serve(p, v) PROVE Covered'
  <2> SUFFICES ASSUME exact' PROVE Covered' BY DEF Covered
  <2>0. Confirmed' = Confirmed /\ exact BY <1>4 DEF Serve, Confirmed
  <2>a. /\ IsFiniteSet(published) /\ IsFiniteSet(Confirmed) /\ IsFiniteSet(OkAcks)
        /\ Cardinality(Confirmed) + Cardinality(OkAcks) <= Cardinality(published)
    BY <2>0 DEF Covered
  <2>1. CASE v = "RESPONSE_OK" /\ p.ack
    <3> DEFINE new == [call |-> p.call, code |-> v]
    <3>1. published' = published \union {p.call} /\ p.call \notin published
      BY <1>4, <2>0, <2>1 DEF Serve, Once
    <3>2. IsFiniteSet(published') /\ Cardinality(published') = Cardinality(published) + 1
      BY <2>a, <3>1, FS_AddElement
    <3>3. OkAcks' = OkAcks \union {new}
      BY <1>4, <2>1 DEF Serve, OkAcks
    <3> HIDE DEF new
    <3>4. IsFiniteSet(OkAcks') /\ Cardinality(OkAcks') <= Cardinality(OkAcks) + 1
      <4>1. /\ IsFiniteSet(OkAcks \union {new})
            /\ \/ Cardinality(OkAcks \union {new}) = Cardinality(OkAcks)
               \/ Cardinality(OkAcks \union {new}) = Cardinality(OkAcks) + 1
        BY <2>a, FS_AddElement
      <4> QED BY <1>0, <2>0, <3>3, <4>1
    <3>5. Cardinality(OkAcks') \in Nat BY <3>4, FS_CardinalityType
    <3> QED BY <1>0, <2>0, <2>a, <3>2, <3>4, <3>5 DEF Covered
  <2>2. CASE v = "RESPONSE_OK" /\ ~p.ack
    <3>1. OkAcks' = OkAcks /\ published' = published \union {p.call}
      BY <1>4, <2>2 DEF Serve, OkAcks
    <3>2. /\ IsFiniteSet(published')
          /\ \/ Cardinality(published') = Cardinality(published)
             \/ Cardinality(published') = Cardinality(published) + 1
      BY <2>a, <3>1, FS_AddElement
    <3> QED BY <1>0, <2>0, <2>a, <3>1, <3>2 DEF Covered
  <2>3. CASE v # "RESPONSE_OK"
    <3>1. OkAcks' = OkAcks /\ published' = published
      BY <1>4, <2>3 DEF Serve, OkAcks
    <3> QED BY <2>0, <2>a, <3>1 DEF Covered
  <2>4. p.ack \in BOOLEAN BY DEF Packet
  <2> QED BY <2>1, <2>2, <2>3, <2>4
<1>5. CASE Lose
  BY <1>5, NoneAdded DEF Lose, Confirmed
<1>6. CASE UNCHANGED vars
  BY <1>6, NoneAdded DEF vars, Confirmed
<1> QED BY <1>1, <1>2, <1>3, <1>4, <1>5, <1>6 DEF Next

-----------------------------------------------------------------------------
(* The inductive invariant holds throughout.                               *)
THEOREM Invariance == Spec => []IInv
<1>1. Init => IInv
  <2> SUFFICES ASSUME Init PROVE IInv OBVIOUS
  <2>1. TypeOK BY DEF Init, TypeOK
  <2>2. Order
    BY NoneAssumption
    DEF Init, Order, Untouched, Once, Truthful, Turn, ResultIsOwn, Codes
  <2>3. Confirmed = {} /\ OkAcks = {} /\ published = {}
    BY NoneAssumption DEF Init, Confirmed, OkAcks, Codes
  <2>4. Covered BY <2>3, FS_EmptySet DEF Covered
  <2> QED BY <2>1, <2>2, <2>4 DEF IInv
<1>2. IInv /\ [Next]_vars => IInv'
  BY TypesKept, OrderKept, CountKept DEF IInv
<1> QED BY <1>1, <1>2, PTL DEF Spec

(* Every variable keeps its type.                                          *)
THEOREM TypeCorrectness == Spec => []TypeOK
<1>1. IInv => TypeOK BY DEF IInv
<1> QED BY <1>1, Invariance, PTL

(* Used one call at a time and to the end, publish_confirmed returns the   *)
(* server's answer to its own message (client.rs 885-920, server.rs        *)
(* handle_udp_listener), whatever is lost, delayed or sent before.         *)
THEOREM OwnResult == Spec => []ResultIsOwn
<1>1. IInv => ResultIsOwn BY DEF IInv, Order
<1> QED BY <1>1, Invariance, PTL

(* No more calls return Ok than messages were published, however the calls *)
(* overlap, are given up and take each other's acknowledgments, as long as *)
(* nothing acknowledged was delivered twice.                               *)
THEOREM ConfirmationsCovered == Spec => []NoExtraConfirmations
<1>1. IInv => NoExtraConfirmations
  <2> SUFFICES ASSUME IInv, exact PROVE NoExtraConfirmations
    BY DEF NoExtraConfirmations
  <2>1. /\ Cardinality(OkAcks) \in Nat /\ Cardinality(Confirmed) \in Nat
        /\ Cardinality(published) \in Nat
    BY FS_CardinalityType DEF IInv, Covered
  <2>2. Cardinality(Confirmed) <= Cardinality(published)
    BY <2>1 DEF IInv, Covered
  <2> QED BY <2>2 DEF NoExtraConfirmations, Confirmed
<1> QED BY <1>1, Invariance, PTL

(* A caller that keeps to the discipline, on a network that repeats none   *)
(* of its questions and answers, can trust an Ok: the message was          *)
(* published.                                                              *)
THEOREM ConfirmedInTurn == Spec => []ConfirmedIsPublished
<1>1. IInv => ConfirmedIsPublished
  BY NoneAssumption
  DEF IInv, Order, Truthful, ResultIsOwn, ConfirmedIsPublished, Codes
<1> QED BY <1>1, Invariance, PTL
=============================================================================
