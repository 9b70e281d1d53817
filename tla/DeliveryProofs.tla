--------------------------- MODULE DeliveryProofs ---------------------------
(***************************************************************************)
(* Broker implements Delivery, and what an OK reply to a publisher means,  *)
(* for any number of sessions, streams, listeners and messages and every   *)
(* queue size.                                                             *)
(***************************************************************************)
EXTENDS BrokerProofs, SequenceTheorems, WellFoundedInduction

-----------------------------------------------------------------------------
(* The inductive invariant.                                                *)

\* before the data task is spawned it does not run, and a stream that was
\* not registered has no owner
Early ==
    \A d \in Streams :
        /\ launch[d] \in {"new", "reply", "pinger"} => data[d] # "run"
        /\ launch[d] = "new" => owner[d] = None

\* nothing was ever queued for a stream without an owner
Blank ==
    \A d \in Streams : owner[d] = None =>
        queue[d] = <<>> /\ hand[d] = None /\ wire[d] = <<>>

\* the channel of a client is one of its own streams
Channels == \A s \in Sessions : dc[s] # None => owner[dc[s]] = s

\* the phases of p's loop, and those with a channel in hand
Looping == {"next", "check", "send", "take", "abort"}
Aiming  == {"check", "send", "take", "abort"}

\* a publisher at work has a message of its own, and the channel in its hand
\* is of the subscriber the loop is at
Aimed ==
    \A p \in Pushers :
        /\ pc[p] \in Looping =>
             msg[p] \in Message /\ msg[p].src = p /\ msg[p].n <= npub
        /\ pc[p] \in Aiming =>
             chan[p] \in Streams /\ Current(p, owner[chan[p]])

\* messages carry numbers that were given out
Numbered ==
    \A d \in Streams : \A m \in Message : Has(Line(d), m) => m.n <= npub

\* a subscriber the loop has not passed has only older messages of p
Unpassed ==
    \A p \in Pushers : pc[p] \in Looping =>
        \A d \in Streams : owner[d] \in todo[p] =>
            \A m \in Message : Has(Line(d), m) /\ m.src = p => m.n < msg[p].n

\* OneStreamPerMessage, message by message
Apart ==
    \A d, e \in Streams : d # e /\ owner[d] = owner[e] =>
        \A m \in Message : ~(Has(Line(d), m) /\ Has(Line(e), m))

InOrder == Channels /\ Aimed /\ Numbered /\ Unpassed /\ PublisherOrder /\ Apart

\* the owner of a stream has logged in, and will not do so again
LoggedIn == \A d \in Streams : owner[d] # None => sess[owner[d]] # "new"

\* the streams p saw at lookup were attached; before the first iteration
\* none of their clients is passed
Known ==
    \A p \in Pushers :
        /\ \A d \in seen[p] : owner[d] # None
        /\ pc[p] = "wait" => \A d \in seen[p] : owner[d] \in todo[p]

\* d is not the channel of a registered client any more, and will not be
Gone(d) == owner[d] \notin db \/ dc[owner[d]] # d

\* while p is at a subscriber, every channel it saw there but the one in its
\* hand is gone, and that one is too once it was unregistered
Missed ==
    \A p \in Pushers : pc[p] \in Aiming =>
        \A d \in seen[p] : owner[d] = owner[chan[p]] =>
            /\ d # chan[p] => Gone(d)
            /\ d = chan[p] /\ pc[p] = "abort" => Gone(d)

NotLost == LoggedIn /\ Known /\ Missed /\ PassedMeansQueued

DInv == IInv /\ Early /\ Blank /\ InOrder /\ NotLost

-----------------------------------------------------------------------------
(* What Published computes.  The library's induction theorems cannot be    *)
(* instantiated, so induction is by the least counterexample.              *)

(* A nonempty set of numbers has a least one: induction without an         *)
(* operator parameter.                                                     *)
LEMMA Least ==
    ASSUME NEW T \in SUBSET Nat, T # {}
    PROVE  \E x \in T : \A y \in T : x <= y
<1>1. IsWellFoundedOn(OpToRel(<, Nat), Nat) BY NatLessThanWellFounded
<1>2. PICK x \in T : \A y \in T : ~(<<y, x>> \in OpToRel(<, Nat))
  BY <1>1, WFMin
<1>3. \A y \in T : ~(y < x) BY <1>2 DEF OpToRel
<1> QED BY <1>3

(* Appending to a concatenation appends to its second part.                *)
LEMMA AppendToTail ==
    ASSUME NEW s \in Seq(Message), NEW t \in Seq(Message), NEW x \in Message
    PROVE  Append(s \o t, x) = s \o Append(t, x)
<1>1. /\ Append(t, x) = t \o <<x>> /\ <<x>> \in Seq(Message)
      /\ Append(s \o t, x) = (s \o t) \o <<x>>
  OBVIOUS
<1> QED BY <1>1, ConcatAssociative

\* entry i of the function that Published evaluates
Entry(q, g, i) ==
    IF i = 0 THEN <<>>
    ELSE IF q[i] = Nop THEN g[i - 1] ELSE Append(g[i - 1], q[i])

IsKept(q, g) == g = [i \in 0..Len(q) |-> Entry(q, g, i)]

Kept(q) == CHOOSE g : IsKept(q, g)

(* Published is the last entry of its recursive function.                  *)
LEMMA PublishedIsKept ==
    ASSUME NEW q
    PROVE  Published(q) = Kept(q)[Len(q)]
  BY DEF Published, Kept, IsKept, Entry

(* The function exists: every prefix of the queue has one.                 *)
LEMMA KeptExists ==
    ASSUME NEW S, NEW q \in Seq(S)
    PROVE  IsKept(q, Kept(q))
<1> DEFINE Up(n) == \E g : g = [i \in 0..n |-> Entry(q, g, i)]
           T == {n \in 0..Len(q) : ~Up(n)}
<1>1. ASSUME T # {} PROVE FALSE
  <2>1. T \in SUBSET Nat OBVIOUS
  <2>2. PICK n \in T : \A k \in T : n <= k BY <1>1, <2>1, Least
  <2>3. CASE n = 0
    <3> DEFINE g == [i \in 0..0 |-> <<>>]
    <3>1. g = [i \in 0..0 |-> Entry(q, g, i)] BY DEF Entry
    <3> QED BY <2>2, <2>3, <3>1
  <2>4. CASE n # 0
    <3>1. n - 1 \in 0..Len(q) /\ n - 1 \notin T BY <2>2, <2>4
    <3>2. PICK f : f = [i \in 0..(n - 1) |-> Entry(q, f, i)] BY <3>1
    <3> DEFINE g == [i \in 0..n |-> IF i = n THEN Entry(q, f, n) ELSE f[i]]
    <3>3. \A i \in 0..n : g[i] = Entry(q, g, i)
      <4> SUFFICES ASSUME NEW i \in 0..n PROVE g[i] = Entry(q, g, i) OBVIOUS
      <4>1. i # 0 => i - 1 \in 0..(n - 1) /\ g[i - 1] = f[i - 1] BY <2>4
      <4>2. Entry(q, g, i) = Entry(q, f, i) BY <4>1 DEF Entry
      <4>3. CASE i = n BY <4>2, <4>3
      <4>4. CASE i # n
        <5>1. i \in 0..(n - 1) BY <4>4
        <5>2. f[i] = Entry(q, f, i) BY <3>2, <5>1
        <5> QED BY <4>2, <4>4, <5>2
      <4> QED BY <4>3, <4>4
    <3>4. g = [i \in 0..n |-> Entry(q, g, i)] BY <3>3
    <3> QED BY <2>2, <3>4
  <2> QED BY <2>3, <2>4
<1>2. Up(Len(q)) BY <1>1
<1> QED BY <1>2 DEF Kept, IsKept

(* One entry of that function from the one before.                         *)
LEMMA KeptSteps ==
    ASSUME NEW S, NEW q \in Seq(S)
    PROVE  /\ Kept(q)[0] = <<>>
           /\ \A i \in 1..Len(q) :
                Kept(q)[i] = IF q[i] = Nop THEN Kept(q)[i - 1]
                             ELSE Append(Kept(q)[i - 1], q[i])
<1>1. Len(q) \in Nat OBVIOUS
<1>2. \A i \in 0..Len(q) : Kept(q)[i] = Entry(q, Kept(q), i)
  BY KeptExists DEF IsKept
<1> QED BY <1>1, <1>2 DEF Entry

(* What is left of a queue without the Nops is a sequence of messages.     *)
LEMMA PublishedTypes ==
    ASSUME NEW q \in Seq(Message \union {Nop})
    PROVE  /\ \A i \in 0..Len(q) : Kept(q)[i] \in Seq(Message)
           /\ Published(q) \in Seq(Message)
<1> DEFINE T == {i \in 0..Len(q) : Kept(q)[i] \notin Seq(Message)}
<1>1. Len(q) \in Nat /\ \A i \in 1..Len(q) : q[i] \in Message \union {Nop} OBVIOUS
<1>e. Kept(q)[0] = <<>> /\ <<>> \in Seq(Message) BY KeptSteps
<1>2. ASSUME T # {} PROVE FALSE
  <2>1. T \in SUBSET Nat BY <1>1
  <2>2. PICK n \in T : \A k \in T : n <= k BY <1>2, <2>1, Least
  <2>3. n # 0 BY <1>e, <2>2
  <2>4. n \in 1..Len(q) /\ n - 1 \in 0..Len(q) /\ n - 1 \notin T BY <2>2, <2>3
  <2>5. Kept(q)[n - 1] \in Seq(Message) BY <2>4
  <2>6. Kept(q)[n] = IF q[n] = Nop THEN Kept(q)[n - 1] ELSE Append(Kept(q)[n - 1], q[n])
    BY <2>4, KeptSteps
  <2>7. q[n] # Nop => q[n] \in Message BY <1>1, <2>4
  <2>8. Kept(q)[n] \in Seq(Message) BY <2>5, <2>6, <2>7
  <2> QED BY <2>2, <2>8
<1>3. \A i \in 0..Len(q) : Kept(q)[i] \in Seq(Message) BY <1>2
<1>4. Len(q) \in 0..Len(q) BY <1>1
<1> QED BY <1>3, <1>4, PublishedIsKept

(* Nothing was published on an empty queue.                                *)
LEMMA PublishedEmpty == Published(<<>>) = <<>>
<1>1. <<>> \in Seq(Message) /\ Len(<<>>) = 0 OBVIOUS
<1>2. Kept(<<>>)[0] = <<>> BY <1>1, KeptSteps
<1> QED BY <1>1, <1>2, PublishedIsKept

(* A message is queued behind the others; a beacon is not seen.            *)
LEMMA PublishedAppend ==
    ASSUME NEW q \in Seq(Message \union {Nop}), NEW m \in Message \union {Nop}
    PROVE  Published(Append(q, m)) =
             IF m = Nop THEN Published(q) ELSE Append(Published(q), m)
<1> DEFINE r == Append(q, m)
           T == {i \in 0..Len(q) : Kept(r)[i] # Kept(q)[i]}
<1>1. /\ r \in Seq(Message \union {Nop}) /\ Len(q) \in Nat /\ Len(r) = Len(q) + 1
      /\ r[Len(r)] = m /\ \A i \in 1..Len(q) : r[i] = q[i]
  OBVIOUS
<1> HIDE DEF r
<1>2. ASSUME T # {} PROVE FALSE
  <2>1. T \in SUBSET Nat BY <1>1
  <2>2. PICK n \in T : \A k \in T : n <= k BY <1>2, <2>1, Least
  <2>3. n # 0 BY <1>1, <2>2, KeptSteps
  <2>4. /\ n \in 1..Len(q) /\ n \in 1..Len(r)
        /\ n - 1 \in 0..Len(q) /\ n - 1 \notin T
    BY <1>1, <2>2, <2>3
  <2>5. Kept(r)[n - 1] = Kept(q)[n - 1] BY <2>4
  <2>6. r[n] = q[n] BY <1>1, <2>4
  <2>7. Kept(r)[n] = Kept(q)[n] BY <1>1, <2>4, <2>5, <2>6, KeptSteps
  <2> QED BY <2>2, <2>7
<1>3. Kept(r)[Len(q)] = Kept(q)[Len(q)]
  <2>1. Len(q) \in 0..Len(q) BY <1>1
  <2> QED BY <1>2, <2>1
<1>4. Len(r) \in 1..Len(r) /\ Len(r) - 1 = Len(q) BY <1>1
<1>5. Published(r) = IF m = Nop THEN Kept(r)[Len(q)] ELSE Append(Kept(r)[Len(q)], m)
  BY <1>1, <1>4, KeptSteps, PublishedIsKept
<1>6. Published(q) = Kept(q)[Len(q)] BY PublishedIsKept
<1> QED BY <1>3, <1>5, <1>6 DEF r

(* The oldest entry comes out first.                                       *)
LEMMA PublishedHead ==
    ASSUME NEW q \in Seq(Message \union {Nop}), q # <<>>
    PROVE  Published(q) = InHand(Head(q)) \o Published(Tail(q))
<1> DEFINE h == InHand(Head(q))
           t == Tail(q)
           T == {i \in 0..Len(t) : Kept(q)[i + 1] # h \o Kept(t)[i]}
<1>1. /\ t \in Seq(Message \union {Nop}) /\ Len(t) \in Nat /\ Len(q) = Len(t) + 1
      /\ Head(q) = q[1] /\ Head(q) \in Message \union {Nop}
      /\ \A i \in 1..Len(t) : t[i] = q[i + 1]
  OBVIOUS
<1>2. h \in Seq(Message) /\ h = IF q[1] = Nop THEN <<>> ELSE <<q[1]>>
  BY <1>1, NoneAssumption DEF InHand
<1> HIDE DEF t, h
<1>3. ASSUME T # {} PROVE FALSE
  <2>1. T \in SUBSET Nat BY <1>1
  <2>2. PICK n \in T : \A k \in T : n <= k BY <1>3, <2>1, Least
  <2>3. CASE n = 0
    <3>1. 1 \in 1..Len(q) /\ 1 - 1 = 0 BY <1>1
    <3>2. Kept(q)[1] = IF q[1] = Nop THEN <<>> ELSE Append(<<>>, q[1])
      BY <3>1, KeptSteps
    <3>3. Kept(t)[0] = <<>> BY <1>1, KeptSteps
    <3>4. h \o <<>> = h BY <1>2
    <3>5. Append(<<>>, q[1]) = <<q[1]>> OBVIOUS
    <3>6. Kept(q)[0 + 1] = h \o Kept(t)[0] BY <1>2, <3>2, <3>3, <3>4, <3>5
    <3> QED BY <2>2, <2>3, <3>6
  <2>4. CASE n # 0
    <3>1. /\ n \in 1..Len(t) /\ n + 1 \in 1..Len(q) /\ (n + 1) - 1 = n
          /\ n - 1 \in 0..Len(t) /\ n - 1 \notin T /\ (n - 1) + 1 = n
      BY <1>1, <2>2, <2>4, SMTT(30)
    <3>2. Kept(q)[n] = h \o Kept(t)[n - 1] BY <3>1
    <3>3. t[n] = q[n + 1] BY <1>1, <3>1
    <3>4. Kept(q)[n + 1] = IF t[n] = Nop THEN Kept(q)[n] ELSE Append(Kept(q)[n], t[n])
      BY <3>1, <3>3, KeptSteps
    <3>5. Kept(t)[n] = IF t[n] = Nop THEN Kept(t)[n - 1] ELSE Append(Kept(t)[n - 1], t[n])
      BY <1>1, <3>1, KeptSteps
    <3>6. Kept(t)[n - 1] \in Seq(Message) BY <1>1, <3>1, PublishedTypes
    <3>7. t[n] # Nop => t[n] \in Message BY <1>1, <3>1
    <3>8. \A x \in Message :
            Append(h \o Kept(t)[n - 1], x) = h \o Append(Kept(t)[n - 1], x)
      <4>1. h \in Seq(Message) BY <1>2
      <4> QED BY <3>6, <4>1, AppendToTail, Zenon
    <3>9. Kept(q)[n + 1] = h \o Kept(t)[n] BY <3>2, <3>4, <3>5, <3>7, <3>8
    <3> QED BY <2>2, <3>9
  <2> QED BY <2>3, <2>4
<1>4. Kept(q)[Len(t) + 1] = h \o Kept(t)[Len(t)]
  <2>1. Len(t) \in 0..Len(t) BY <1>1
  <2> QED BY <1>3, <2>1
<1> QED BY <1>1, <1>4, PublishedIsKept DEF h, t

-----------------------------------------------------------------------------
(* A stream's line, from the message written first to the one queued last. *)

Pipe(w, h, q) == w \o InHand(h) \o Published(q)

Ordered(l) ==
    \A i, j \in 1..Len(l) : i < j /\ l[i].src = l[j].src => l[i].n < l[j].n

(* The line of a stream, before and after a step, is the pipe of its       *)
(* wire, hand and queue.                                                   *)
LEMMA LineIsPipe ==
    ASSUME NEW d
    PROVE  /\ Line(d) = Pipe(wire[d], hand[d], queue[d])
           /\ Line(d)' = Pipe(wire'[d], hand'[d], queue'[d])
  BY DEF Line, Pipe

(* A pipe is a sequence of messages.                                       *)
LEMMA PipeTypes ==
    ASSUME NEW w \in Seq(Message), NEW h \in Message \union {Nop, None},
           NEW q \in Seq(Message \union {Nop})
    PROVE  /\ InHand(h) \in Seq(Message)
           /\ Published(q) \in Seq(Message)
           /\ Pipe(w, h, q) \in Seq(Message)
<1>1. InHand(h) \in Seq(Message) BY DEF InHand
<1>2. Published(q) \in Seq(Message) BY PublishedTypes
<1>3. w \o InHand(h) \in Seq(Message) BY <1>1
<1> QED BY <1>1, <1>2, <1>3 DEF Pipe

(* What is queued comes last in the pipe.                                  *)
LEMMA PipeSend ==
    ASSUME NEW w \in Seq(Message), NEW h \in Message \union {Nop, None},
           NEW q \in Seq(Message \union {Nop}), NEW m \in Message \union {Nop}
    PROVE  Pipe(w, h, Append(q, m)) =
             IF m = Nop THEN Pipe(w, h, q) ELSE Append(Pipe(w, h, q), m)
<1> DEFINE k == Published(q)
           v == w \o InHand(h)
<1>1. v \in Seq(Message) /\ k \in Seq(Message)
  <2>1. InHand(h) \in Seq(Message) /\ k \in Seq(Message) BY PipeTypes
  <2> QED BY <2>1
<1>2. Published(Append(q, m)) = IF m = Nop THEN k ELSE Append(k, m)
  BY PublishedAppend
<1>3. Pipe(w, h, q) = v \o k /\ Pipe(w, h, Append(q, m)) = v \o Published(Append(q, m))
  BY DEF Pipe
<1> HIDE DEF k, v
<1>4. m # Nop => Append(v \o k, m) = v \o Append(k, m)
  <2>1. \A x \in Message : Append(v \o k, x) = v \o Append(k, x)
    BY <1>1, AppendToTail, Zenon
  <2> QED BY <2>1
<1> QED BY <1>2, <1>3, <1>4

(* Taking the head of the queue into the hand leaves the pipe as it was.   *)
LEMMA PipeRecv ==
    ASSUME NEW w \in Seq(Message), NEW q \in Seq(Message \union {Nop}), q # <<>>
    PROVE  Pipe(w, Head(q), Tail(q)) = Pipe(w, None, q)
<1> DEFINE h == InHand(Head(q))
           k == Published(Tail(q))
<1>1. Head(q) \in Message \union {Nop, None} /\ Tail(q) \in Seq(Message \union {Nop})
  OBVIOUS
<1>2. h \in Seq(Message) /\ k \in Seq(Message) BY <1>1, PipeTypes
<1>3. Published(q) = h \o k BY PublishedHead
<1>4. Pipe(w, Head(q), Tail(q)) = (w \o h) \o k BY DEF Pipe
<1>5. Pipe(w, None, q) = (w \o <<>>) \o Published(q) BY DEF Pipe, InHand
<1> HIDE DEF h, k
<1>6. w \o <<>> = w BY ConcatEmptySeq
<1>7. (w \o h) \o k = w \o (h \o k) BY <1>2, ConcatAssociative, SMTT(30)
<1> QED BY <1>3, <1>4, <1>5, <1>6, <1>7

(* Writing what is in the hand leaves the pipe as it was.                  *)
LEMMA PipeWrite ==
    ASSUME NEW w \in Seq(Message), NEW h \in Message \union {Nop},
           NEW q \in Seq(Message \union {Nop})
    PROVE  Pipe(IF h = Nop THEN w ELSE Append(w, h), None, q) = Pipe(w, h, q)
<1> DEFINE v == IF h = Nop THEN w ELSE Append(w, h)
<1>1. InHand(h) = IF h = Nop THEN <<>> ELSE <<h>> BY NoneAssumption DEF InHand
<1>2. h # Nop => Append(w, h) = w \o <<h>> OBVIOUS
<1>3. w \o <<>> = w BY ConcatEmptySeq
<1>4. v \in Seq(Message) OBVIOUS
<1>5. w \o InHand(h) = v BY <1>1, <1>2, <1>3
<1> HIDE DEF v
<1>6. v \o InHand(None) = v BY <1>4, ConcatEmptySeq DEF InHand
<1>7. Pipe(v, None, q) = Pipe(w, h, q) BY <1>5, <1>6 DEF Pipe
<1> QED BY <1>7 DEF v

(* A message that is in hand when the stream ends is lost; the others keep *)
(* their order.                                                            *)
LEMMA PipeDrop ==
    ASSUME NEW w \in Seq(Message), NEW h \in Message \union {Nop, None},
           NEW q \in Seq(Message \union {Nop})
    PROVE  /\ Ordered(Pipe(w, h, q)) => Ordered(Pipe(w, None, q))
           /\ \A m : Has(Pipe(w, None, q), m) => Has(Pipe(w, h, q), m)
<1> DEFINE g == InHand(h)
           k == Published(q)
           l == (w \o g) \o k
           r == w \o k
           At(i) == IF i <= Len(w) THEN i ELSE i + Len(g)
<1>1. g \in Seq(Message) /\ k \in Seq(Message) BY PipeTypes
<1>2. w \o InHand(None) = w BY ConcatEmptySeq DEF InHand
<1>3. Pipe(w, h, q) = l /\ Pipe(w, None, q) = r BY <1>2 DEF Pipe
<1> HIDE DEF g, k
<1>4. /\ w \o g \in Seq(Message) /\ Len(w \o g) = Len(w) + Len(g)
      /\ \A i \in 1..(Len(w) + Len(g)) :
           (w \o g)[i] = IF i <= Len(w) THEN w[i] ELSE g[i - Len(w)]
  BY <1>1, ConcatProperties
<1>5. /\ Len(l) = Len(w) + Len(g) + Len(k)
      /\ \A i \in 1..(Len(w) + Len(g) + Len(k)) :
           l[i] = IF i <= Len(w) + Len(g) THEN (w \o g)[i] ELSE k[i - (Len(w) + Len(g))]
  BY <1>1, <1>4, ConcatProperties
<1>6. /\ Len(r) = Len(w) + Len(k)
      /\ \A i \in 1..(Len(w) + Len(k)) :
           r[i] = IF i <= Len(w) THEN w[i] ELSE k[i - Len(w)]
  BY <1>1, ConcatProperties
<1>7. Len(w) \in Nat /\ Len(g) \in Nat /\ Len(k) \in Nat BY <1>1
<1> HIDE DEF l, r
<1>8. \A i \in 1..Len(r) : At(i) \in 1..Len(l) /\ r[i] = l[At(i)]
  <2> SUFFICES ASSUME NEW i \in 1..Len(r) PROVE At(i) \in 1..Len(l) /\ r[i] = l[At(i)]
    OBVIOUS
  <2>1. CASE i <= Len(w)
    BY <1>4, <1>5, <1>6, <1>7, <2>1
  <2>2. CASE i > Len(w)
    <3>1. /\ At(i) = i + Len(g) /\ At(i) \in 1..Len(l)
          /\ At(i) - (Len(w) + Len(g)) = i - Len(w)
          /\ ~(At(i) <= Len(w) + Len(g)) /\ ~(i <= Len(w))
      BY <1>5, <1>6, <1>7, <2>2
    <3> QED BY <1>5, <1>6, <3>1
  <2> QED BY <1>6, <1>7, <2>1, <2>2
<1>9. \A i, j \in 1..Len(r) : i < j => At(i) < At(j) BY <1>6, <1>7
<1> HIDE DEF At
<1>10. Ordered(l) => Ordered(r) BY <1>8, <1>9 DEF Ordered
<1>11. \A m : Has(r, m) => Has(l, m) BY <1>8 DEF Has
<1> QED BY <1>3, <1>10, <1>11

(* What is written is the beginning of the line.                           *)
LEMMA PipeBegins ==
    ASSUME NEW w \in Seq(Message), NEW h \in Message \union {Nop, None},
           NEW q \in Seq(Message \union {Nop})
    PROVE  /\ Len(w) \in 0..Len(Pipe(w, h, q))
           /\ SubSeq(Pipe(w, h, q), 1, Len(w)) = w
           /\ \A m : Has(w, m) => Has(Pipe(w, h, q), m)
<1> DEFINE g == InHand(h)
           k == Published(q)
           t == g \o k
           l == w \o t
<1>1. g \in Seq(Message) /\ k \in Seq(Message) BY PipeTypes
<1>2. Pipe(w, h, q) = (w \o g) \o k BY DEF Pipe
<1> HIDE DEF g, k
<1>3. Pipe(w, h, q) = l /\ t \in Seq(Message) BY <1>1, <1>2, ConcatAssociative
<1> HIDE DEF t
<1>4. /\ l \in Seq(Message) /\ Len(l) = Len(w) + Len(t)
      /\ \A i \in 1..(Len(w) + Len(t)) : l[i] = IF i <= Len(w) THEN w[i] ELSE t[i - Len(w)]
      /\ Len(w) \in Nat /\ Len(t) \in Nat
  BY <1>3, ConcatProperties
<1> HIDE DEF l
<1>5. Len(w) \in 0..Len(l) BY <1>4
<1>6. \A i \in 1..Len(w) : i \in 1..Len(l) /\ l[i] = w[i] BY <1>4
<1>7. SubSeq(l, 1, Len(w)) = w
  <2> DEFINE s == SubSeq(l, 1, Len(w))
  <2>1. \A i \in 1..Len(w) : l[i] \in Message BY <1>4, <1>6
  <2>2. s \in Seq(Message) /\ Len(s) = Len(w) /\ \A i \in 1..Len(w) : s[i] = l[i]
    BY <1>4, <1>5, <2>1, SubSeqProperties
  <2> HIDE DEF s
  <2>3. s = w BY <1>6, <2>2, SeqEqual
  <2> QED BY <2>3 DEF s
<1>8. \A m : Has(w, m) => Has(l, m) BY <1>6 DEF Has
<1> QED BY <1>3, <1>5, <1>7, <1>8

-----------------------------------------------------------------------------
(* What a step does to the streams, as far as Delivery can tell: nothing,  *)
(* or it attaches one, appends a message to one, or closes one.            *)

(* The parts of a line have their types.                                   *)
LEMMA LineTypes ==
    ASSUME TypeOK, NEW d \in Streams
    PROVE  /\ wire[d] \in Seq(Message) /\ hand[d] \in Message \union {Nop, None}
           /\ queue[d] \in Seq(Message \union {Nop}) /\ Line(d) \in Seq(Message)
<1>1. /\ wire[d] \in Seq(Message) /\ hand[d] \in Message \union {Nop, None}
      /\ queue[d] \in Seq(Message \union {Nop})
  BY DEF TypeOK
<1> QED BY <1>1, PipeTypes, LineIsPipe

\* stream d stays as it is
Same(d) ==
    /\ RxOpen(d)' <=> RxOpen(d)
    /\ Line(d)' = Line(d)
    /\ ~RxOpen(d) => wire'[d] = wire[d]

Calm == owner' = owner /\ \A d \in Streams : Same(d)

Attached(d) ==
    /\ owner[d] = None /\ ~RxOpen(d) /\ RxOpen(d)'
    /\ UNCHANGED <<wire, hand, queue>>
    /\ \E s \in Sessions : owner' = [owner EXCEPT ![d] = s]
    /\ \A e \in Streams \ {d} : Same(e)

Sent(p, d) ==
    /\ owner' = owner /\ wire' = wire
    /\ d = chan[p] /\ RxOpen(d) /\ RxOpen(d)'
    /\ Line(d)' = Append(Line(d), msg[p])
    /\ \A e \in Streams \ {d} : Same(e)

Closed(d) ==
    /\ owner' = owner /\ wire' = wire
    /\ RxOpen(d) /\ ~RxOpen(d)'
    /\ Ordered(Line(d)) => Ordered(Line(d)')
    /\ \A m : Has(Line(d)', m) => Has(Line(d), m)
    /\ \A e \in Streams \ {d} : Same(e)

\* what a stream looks like depends on these only
LEMMA SameIfUntouched ==
    ASSUME NEW d,
           launch'[d] = launch[d], data'[d] = data[d], wire'[d] = wire[d],
           hand'[d] = hand[d], queue'[d] = queue[d]
    PROVE  Same(d)
<1>1. Line(d)' = Line(d) BY LineIsPipe
<1> QED BY <1>1 DEF Same, RxOpen

(* Handlers, UDP publications and all of push_to_subscribers but the send  *)
(* leave the streams alone.                                                *)
LEMMA OthersCalm ==
    ASSUME \/ UNCHANGED vars
           \/ \E s \in Sessions : SessionStep(s)
           \/ \E u \in Listeners : UdpPublish(u)
           \/ \E p \in Pushers : PushStep(p) /\ ~PushSend(p)
    PROVE  Calm /\ UNCHANGED stream
<1>1. UNCHANGED stream
  BY DEF vars, SessionStep, PushStep, Login, TokenSent, TokenLost, Subscribe,
         Unsubscribe, Publish, ReplOffer, ReplData, ReplLost, Close,
         UnregisterClient, AbortOnExit, UdpPublish, PushPick, PushCheck,
         PushTake, PushAbort, PushDone
<1>2. UNCHANGED <<owner, launch, data, wire, hand, queue>> BY <1>1 DEF stream
<1>3. \A d \in Streams : Same(d) BY <1>2, SameIfUntouched
<1> QED BY <1>1, <1>2, <1>3 DEF Calm

(* A send changes one line at most, and only at its end.                   *)
LEMMA SendEffect ==
    ASSUME TypeOK, Aimed, NEW p \in Pushers, PushSend(p)
    PROVE  \/ Calm
           \/ \E d \in Streams : Sent(p, d)
<1>c. PICK d \in Streams : d = chan[p] BY DEF PushSend, Aimed, Aiming
<1>1. d \in Streams /\ msg[p] \in Message BY DEF PushSend, Aimed, Looping
<1>2. UNCHANGED <<owner, launch, data, wire, hand>> BY DEF PushSend
<1>3. CASE UNCHANGED queue
  BY <1>2, <1>3, SameIfUntouched DEF Calm
<1>4. CASE RxOpen(d) /\ queue' = [queue EXCEPT ![d] = Append(@, msg[p])]
  <2>1. /\ queue'[d] = Append(queue[d], msg[p])
        /\ \A e \in Streams \ {d} : queue'[e] = queue[e]
    BY <1>1, <1>4 DEF TypeOK
  <2>2. msg[p] # Nop
    <3>1. msg[p].n \in 1..MaxPub BY <1>1 DEF Message
    <3> QED BY <3>1, BoundAssumption DEF Nop
  <2>3. Pipe(wire[d], hand[d], Append(queue[d], msg[p]))
          = Append(Pipe(wire[d], hand[d], queue[d]), msg[p])
    <3>1. /\ wire[d] \in Seq(Message) /\ hand[d] \in Message \union {Nop, None}
          /\ queue[d] \in Seq(Message \union {Nop}) /\ msg[p] \in Message \union {Nop}
      BY <1>1, LineTypes
    <3> QED BY <2>2, <3>1, PipeSend
  <2>4. Line(d)' = Append(Line(d), msg[p])
    BY <1>2, <2>1, <2>3, LineIsPipe
  <2>5. RxOpen(d)' BY <1>2, <1>4 DEF RxOpen
  <2>6. \A e \in Streams \ {d} : Same(e) BY <1>2, <2>1, SameIfUntouched
  <2> QED BY <1>c, <1>2, <1>4, <2>4, <2>5, <2>6 DEF Sent
<1> QED BY <1>c, <1>3, <1>4 DEF PushSend

(* A step of a stream's task changes no line, but for attaching and        *)
(* closing its own.                                                        *)
LEMMA StreamEffect ==
    ASSUME TypeOK, Owned, Early, NEW d \in Streams, StreamStep(d)
    PROVE  Calm \/ Attached(d) \/ Closed(d)
<1>t. /\ wire[d] \in Seq(Message) /\ hand[d] \in Message \union {Nop, None}
      /\ queue[d] \in Seq(Message \union {Nop})
  BY LineTypes
<1>l. /\ Line(d) = Pipe(wire[d], hand[d], queue[d])
      /\ Line(d)' = Pipe(wire'[d], hand'[d], queue'[d])
  BY LineIsPipe
<1>r. /\ RxOpen(d) <=> launch[d] \in {"reply", "pinger"} \/ data[d] = "run"
      /\ RxOpen(d)' <=> launch'[d] \in {"reply", "pinger"} \/ data'[d] = "run"
  BY DEF RxOpen
<1>y. /\ launch[d] \in {"new", "reply", "pinger"} => data[d] # "run"
      /\ launch[d] = "new" => owner[d] = None
  BY DEF Early
\* a step of d leaves the others alone
<1>o. \A e \in Streams \ {d} : Same(e)
  <2> SUFFICES ASSUME NEW e \in Streams \ {d} PROVE Same(e) OBVIOUS
  <2>1. launch'[e] = launch[e] /\ data'[e] = data[e]
    BY DEF StreamStep, Attach, AttachRefused, LaunchReplied, LaunchFailed,
           LaunchPinger, LaunchData, PingSend, PingEnd, DataRecv, DataWrite,
           DataFail, DataUnregister, DataEnd, TypeOK
  <2>2. wire'[e] = wire[e] /\ hand'[e] = hand[e] /\ queue'[e] = queue[e]
    BY DEF StreamStep, Attach, AttachRefused, LaunchReplied, LaunchFailed,
           LaunchPinger, LaunchData, PingSend, PingEnd, DataRecv, DataWrite,
           DataFail, DataUnregister, DataEnd, TypeOK
  <2> QED BY <2>1, <2>2, SameIfUntouched
<1>1. ASSUME NEW s \in Sessions, Attach(d, s) PROVE Attached(d)
  BY <1>1, <1>o, <1>r, <1>y DEF Attach, Attached, TypeOK
<1>2. CASE \/ \E s \in Sessions : AttachRefused(d, s)
           \/ LaunchReplied(d) \/ LaunchPinger(d) \/ LaunchData(d)
           \/ PingEnd(d) \/ DataUnregister(d)
  <2>1. UNCHANGED <<owner, wire, hand, queue>>
    BY <1>2 DEF AttachRefused, LaunchReplied, LaunchPinger, LaunchData,
                PingEnd, DataUnregister
  <2>2. RxOpen(d)' <=> RxOpen(d)
    BY <1>2, <1>r DEF AttachRefused, LaunchReplied, LaunchPinger, LaunchData,
                      PingEnd, DataUnregister, TypeOK
  <2> QED BY <1>o, <1>l, <2>1, <2>2 DEF Same, Calm
<1>3. CASE PingSend(d)
  <2>1. /\ UNCHANGED <<owner, launch, data, wire, hand>>
        /\ queue'[d] = Append(queue[d], Nop)
    BY <1>3 DEF PingSend, TypeOK
  <2>2. Pipe(wire[d], hand[d], Append(queue[d], Nop)) = Pipe(wire[d], hand[d], queue[d])
    BY <1>t, PipeSend
  <2>3. Same(d) BY <1>l, <1>r, <2>1, <2>2 DEF Same
  <2> QED BY <1>o, <2>1, <2>3 DEF Calm
<1>4. CASE DataRecv(d)
  <2>1. /\ UNCHANGED <<owner, launch, data, wire>> /\ queue[d] # <<>>
        /\ hand[d] = None /\ hand'[d] = Head(queue[d]) /\ queue'[d] = Tail(queue[d])
    BY <1>4 DEF DataRecv, TypeOK
  <2>2. Pipe(wire[d], Head(queue[d]), Tail(queue[d])) = Pipe(wire[d], None, queue[d])
    BY <1>t, <2>1, PipeRecv
  <2>3. Same(d) BY <1>l, <1>r, <2>1, <2>2 DEF Same
  <2> QED BY <1>o, <2>1, <2>3 DEF Calm
<1>5. CASE DataWrite(d)
  <2>1. /\ UNCHANGED <<owner, launch, data, queue>> /\ data[d] = "run"
        /\ hand[d] # None /\ hand'[d] = None
        /\ wire'[d] = IF hand[d] = Nop THEN wire[d] ELSE Append(wire[d], hand[d])
    BY <1>5 DEF DataWrite, TypeOK
  <2>2. Pipe(IF hand[d] = Nop THEN wire[d] ELSE Append(wire[d], hand[d]), None, queue[d])
          = Pipe(wire[d], hand[d], queue[d])
    BY <1>t, <2>1, PipeWrite
  <2>3. Same(d) BY <1>l, <1>r, <2>1, <2>2 DEF Same
  <2> QED BY <1>o, <2>1, <2>3 DEF Calm
<1>6. CASE LaunchFailed(d)
  <2>1. /\ UNCHANGED <<owner, data, wire, hand, queue>>
        /\ launch[d] = "reply" /\ launch'[d] = "done"
    BY <1>6 DEF LaunchFailed, TypeOK
  <2>2. RxOpen(d) /\ ~RxOpen(d)' /\ Line(d)' = Line(d)
    BY <1>l, <1>r, <1>y, <2>1
  <2> QED BY <1>o, <2>1, <2>2 DEF Closed
<1>7. CASE DataFail(d) \/ DataEnd(d)
  <2>1. /\ UNCHANGED <<owner, launch, wire, queue>>
        /\ data[d] = "run" /\ data'[d] # "run" /\ hand'[d] = None
    BY <1>7 DEF DataFail, DataEnd, TypeOK
  <2>2. RxOpen(d) /\ ~RxOpen(d)'
    BY <1>r, <1>y, <2>1
  <2>3. Line(d)' = Pipe(wire[d], None, queue[d]) BY <1>l, <2>1
  <2>4. /\ Ordered(Line(d)) => Ordered(Line(d)')
        /\ \A m : Has(Line(d)', m) => Has(Line(d), m)
    BY <1>t, <1>l, <2>3, PipeDrop, ZenonT(60)
  <2> QED BY <1>o, <2>1, <2>2, <2>4 DEF Closed
<1> QED BY <1>1, <1>2, <1>3, <1>4, <1>5, <1>6, <1>7 DEF StreamStep

(* The four kinds of steps.                                                *)
LEMMA StreamEffects ==
    ASSUME TypeOK, Owned, Early, Aimed, [Next]_vars
    PROVE  \/ Calm
           \/ \E d \in Streams : StreamStep(d) /\ (Attached(d) \/ Closed(d))
           \/ \E p \in Pushers : PushSend(p) /\ \E d \in Streams : Sent(p, d)
  BY OthersCalm, SendEffect, StreamEffect DEF Next

-----------------------------------------------------------------------------
(* Streams and their owners.                                               *)

(* A stream keeps its owner, stays closed once closed, and loses no        *)
(* message while it is open.                                               *)
LEMMA OwnerStays ==
    ASSUME TypeOK, Owned, Early, Aimed, [Next]_vars, NEW d \in Streams, owner[d] # None
    PROVE  /\ owner'[d] = owner[d]
           /\ ~RxOpen(d) => ~RxOpen(d)'
           /\ \A m : Has(Line(d), m) /\ RxOpen(d)' => Has(Line(d), m)'
<1>h. ASSUME Line(d)' = Line(d) PROVE \A m : Has(Line(d), m) => Has(Line(d), m)'
  BY <1>h DEF Has
<1>1. CASE owner' = owner /\ Same(d) BY <1>1, <1>h DEF Same
<1>2. CASE Calm BY <1>1, <1>2 DEF Calm
<1>3. ASSUME NEW e \in Streams, Attached(e) \/ Closed(e)
      PROVE  /\ owner'[d] = owner[d]
             /\ ~RxOpen(d) => ~RxOpen(d)'
             /\ \A m : Has(Line(d), m) /\ RxOpen(d)' => Has(Line(d), m)'
  <2>1. CASE e = d BY <1>3, <2>1 DEF Attached, Closed
  <2>2. CASE e # d
    <3>1. Same(d) BY <1>3, <2>2 DEF Attached, Closed
    <3>2. owner'[d] = owner[d] BY <1>3, <2>2 DEF Attached, Closed, TypeOK
    <3> QED BY <1>h, <3>1, <3>2 DEF Same
  <2> QED BY <2>1, <2>2
<1>4. ASSUME NEW p \in Pushers, NEW e \in Streams, PushSend(p), Sent(p, e)
      PROVE  /\ owner'[d] = owner[d]
             /\ ~RxOpen(d) => ~RxOpen(d)'
             /\ \A m : Has(Line(d), m) /\ RxOpen(d)' => Has(Line(d), m)'
  <2>1. CASE e = d
    <3>1. Line(d) \in Seq(Message) BY LineTypes
    <3>2. msg[p] \in Message BY <1>4 DEF PushSend, Aimed, Looping
    <3>3. /\ Line(d)' = Append(Line(d), msg[p]) /\ owner' = owner /\ RxOpen(d)
      BY <1>4, <2>1 DEF Sent
    <3> DEFINE l == Line(d)
               k == Append(l, msg[p])
    <3>4. Len(l) \in Nat /\ Len(k) = Len(l) + 1 /\ \A i \in 1..Len(l) : k[i] = l[i]
      BY <3>1, <3>2
    <3>5. \A i \in 1..Len(l) : i \in 1..Len(k) BY <3>4
    <3> HIDE DEF k, l
    <3>6. \A m : Has(l, m) => Has(k, m) BY <3>4, <3>5 DEF Has
    <3>7. \A m : Has(Line(d), m) => Has(Line(d)', m) BY <3>3, <3>6 DEF k, l
    <3>8. \A m : Has(Line(d)', m) => Has(Line(d), m)' BY DEF Has
    <3> QED BY <3>3, <3>7, <3>8
  <2>2. CASE e # d BY <1>1, <1>4, <2>2 DEF Sent
  <2> QED BY <2>1, <2>2
<1> QED BY <1>2, <1>3, <1>4, StreamEffects

(* A step keeps Early.                                                     *)
LEMMA EarlyKept ==
    ASSUME TypeOK, Early, [Next]_vars
    PROVE  Early'
<1>1. CASE UNCHANGED <<launch, data, owner>> BY <1>1 DEF Early
<1>2. ASSUME NEW d \in Streams, StreamStep(d) PROVE Early'
  <2>1. \A e \in Streams \ {d} :
          launch'[e] = launch[e] /\ data'[e] = data[e] /\ owner'[e] = owner[e]
    BY <1>2 DEF StreamStep, Attach, AttachRefused, LaunchReplied, LaunchFailed,
           LaunchPinger, LaunchData, PingSend, PingEnd, DataRecv, DataWrite,
           DataFail, DataUnregister, DataEnd, TypeOK
  <2>2. /\ launch'[d] \in {"new", "reply", "pinger"} => data'[d] # "run"
        /\ launch'[d] = "new" => owner'[d] = None
    BY <1>2 DEF StreamStep, Attach, AttachRefused, LaunchReplied, LaunchFailed,
           LaunchPinger, LaunchData, PingSend, PingEnd, DataRecv, DataWrite,
           DataFail, DataUnregister, DataEnd, TypeOK, Early
  <2> QED BY <2>1, <2>2 DEF Early
<1>3. ASSUME NEW p \in Pushers, PushSend(p) PROVE Early' BY <1>1, <1>3 DEF PushSend
<1> QED BY <1>1, <1>2, <1>3, OthersCalm DEF Next, stream

(* A step keeps Blank.                                                     *)
LEMMA BlankKept ==
    ASSUME TypeOK, Owned, Early, Aimed, Blank, [Next]_vars
    PROVE  Blank'
<1>1. CASE UNCHANGED <<owner, queue, hand, wire>> BY <1>1 DEF Blank
<1>2. ASSUME NEW d \in Streams, StreamStep(d) PROVE Blank'
  <2>1. \A e \in Streams \ {d} : /\ owner'[e] = owner[e] /\ queue'[e] = queue[e]
                                 /\ hand'[e] = hand[e] /\ wire'[e] = wire[e]
    BY <1>2 DEF StreamStep, Attach, AttachRefused, LaunchReplied, LaunchFailed,
           LaunchPinger, LaunchData, PingSend, PingEnd, DataRecv, DataWrite,
           DataFail, DataUnregister, DataEnd, TypeOK
  <2>2. owner[d] = None => ~RxOpen(d) /\ data[d] # "run"
    <3>1. None \notin Sessions BY NoneAssumption DEF Pushers
    <3> QED BY <3>1 DEF Owned, RxOpen
  <2>3. owner'[d] = None =>
          /\ owner[d] = None /\ queue'[d] = queue[d]
          /\ hand'[d] = hand[d] /\ wire'[d] = wire[d]
    <3>1. None \notin Sessions BY NoneAssumption DEF Pushers
    <3>2. CASE \E s \in Sessions : Attach(d, s) BY <3>1, <3>2 DEF Attach, TypeOK
    <3>3. CASE ~\E s \in Sessions : Attach(d, s)
      BY <1>2, <2>2, <3>3 DEF StreamStep, AttachRefused, LaunchReplied, LaunchFailed,
           LaunchPinger, LaunchData, PingSend, PingEnd, DataRecv, DataWrite,
           DataFail, DataUnregister, DataEnd
    <3> QED BY <3>2, <3>3
  <2> QED BY <2>1, <2>3 DEF Blank
<1>3. ASSUME NEW p \in Pushers, PushSend(p) PROVE Blank'
  <2>1. UNCHANGED <<owner, hand, wire>> BY <1>3 DEF PushSend
  <2>2. chan[p] \in Streams /\ owner[chan[p]] # None
    <3>1. None \notin Sessions BY NoneAssumption DEF Pushers
    <3> QED BY <1>3, <3>1 DEF PushSend, Aimed, Aiming, Current, TypeOK
  <2>3. \A e \in Streams : e # chan[p] => queue'[e] = queue[e]
    BY <1>3, <2>2 DEF PushSend, TypeOK
  <2> QED BY <2>1, <2>2, <2>3 DEF Blank
<1> QED BY <1>1, <1>2, <1>3, OthersCalm DEF Next, stream

(* Only an attach puts a stream into data_channel, and a new one.          *)
LEMMA ChannelSteps ==
    ASSUME TypeOK, [Next]_vars
    PROVE  \/ \E d \in Streams, s \in Sessions : Attach(d, s)
           \/ owner' = owner /\ \A s \in Sessions : dc'[s] \in {dc[s], None}
<1>r. ASSUME NEW tk, NEW ab, Release(tk, ab, dc)
      PROVE  \A s \in Sessions : dc'[s] \in {dc[s], None}
  BY <1>r DEF Release
<1>1. ASSUME NEW s \in Sessions, SessionStep(s)
      PROVE  owner' = owner /\ \A r \in Sessions : dc'[r] \in {dc[r], None}
  <2>1. owner' = owner BY <1>1, OthersCalm DEF stream
  <2>2. CASE TokenLost(s) \/ ReplLost(s) \/ AbortOnExit(s)
    <3>1. \E tk, ab : Release(tk, ab, dc) BY <2>2 DEF TokenLost, ReplLost, AbortOnExit
    <3> QED BY <1>r, <2>1, <3>1
  <2>3. CASE UNCHANGED dc BY <2>1, <2>3
  <2> QED
    BY <1>1, <2>2, <2>3
    DEF SessionStep, Login, TokenSent, Subscribe, Unsubscribe, Publish, ReplOffer,
        ReplData, Close, UnregisterClient, client
<1>2. ASSUME NEW p \in Pushers, PushStep(p) \/ UdpPublish(p)
      PROVE  owner' = owner /\ \A r \in Sessions : dc'[r] \in {dc[r], None}
  <2>1. owner' = owner
    BY <1>2 DEF PushStep, UdpPublish, PushPick, PushCheck, PushSend, PushTake,
                PushAbort, PushDone, stream
  <2>2. CASE PushDone(p)
    <3>1. \E tk, ab : Release(tk, ab, dc) BY <2>2 DEF PushDone
    <3> QED BY <1>r, <2>1, <3>1
  <2>3. CASE PushTake(p)
    BY <2>1, <2>3 DEF PushTake, unregister_data_channel, TypeOK
  <2>4. CASE UNCHANGED dc BY <2>1, <2>4
  <2> QED
    BY <1>2, <2>2, <2>3, <2>4
    DEF PushStep, UdpPublish, PushPick, PushCheck, PushSend, PushAbort, client
<1>3. ASSUME NEW d \in Streams, StreamStep(d), ~\E s \in Sessions : Attach(d, s)
      PROVE  owner' = owner /\ \A r \in Sessions : dc'[r] \in {dc[r], None}
  <2>1. owner' = owner
    BY <1>3 DEF StreamStep, AttachRefused, LaunchReplied, LaunchFailed,
           LaunchPinger, LaunchData, PingSend, PingEnd, DataRecv, DataWrite,
           DataFail, DataUnregister, DataEnd
  <2>2. CASE LaunchFailed(d) \/ LaunchData(d)
    <3>1. \E tk, ab : Release(tk, ab, dc) BY <2>2 DEF LaunchFailed, LaunchData
    <3> QED BY <1>r, <2>1, <3>1
  <2>3. CASE DataUnregister(d)
    BY <2>1, <2>3 DEF DataUnregister, unregister_data_channel, TypeOK
  <2>4. CASE UNCHANGED dc BY <2>1, <2>4
  <2> QED
    BY <1>3, <2>2, <2>3, <2>4
    DEF StreamStep, AttachRefused, LaunchReplied, LaunchPinger, PingSend, PingEnd,
        DataRecv, DataWrite, DataFail, DataEnd, client
<1>4. CASE UNCHANGED vars BY <1>4 DEF vars, client, stream
<1> QED BY <1>1, <1>2, <1>3, <1>4 DEF Next, Pushers

(* A step keeps Channels.                                                  *)
LEMMA ChannelsKept ==
    ASSUME TypeOK, Early, Channels, [Next]_vars
    PROVE  Channels'
<1>n. None \notin Sessions BY NoneAssumption DEF Pushers
<1>1. CASE owner' = owner /\ \A s \in Sessions : dc'[s] \in {dc[s], None}
  BY <1>1 DEF Channels
<1>2. ASSUME NEW d \in Streams, NEW s \in Sessions, Attach(d, s) PROVE Channels'
  <2>1. owner[d] = None /\ owner' = [owner EXCEPT ![d] = s] /\ dc' = [dc EXCEPT ![s] = d]
    BY <1>2 DEF Attach, Early
  <2>2. \A r \in Sessions : dc[r] # d BY <1>n, <2>1, NoneAssumption DEF Channels
  <2> QED BY <2>1, <2>2 DEF Channels, TypeOK
<1> QED BY <1>1, <1>2, ChannelSteps

-----------------------------------------------------------------------------
(* Publishers.                                                             *)

(* A pusher is at one subscriber at a time.                                *)
LEMMA CurrentIsOne ==
    ASSUME NEW p, NEW r \in Sessions, NEW s \in Sessions, Current(p, r), Current(p, s)
    PROVE  r = s
<1>1. Digest[r] <= Digest[s] /\ Digest[s] <= Digest[r] BY DEF Current
<1>2. Digest[r] \in Nat /\ Digest[s] \in Nat BY DigestAssumption
<1>3. Digest[r] = Digest[s] BY <1>1, <1>2
<1> QED BY <1>3, DigestAssumption

\* p does nothing
Unmoved(p) ==
    /\ pc'[p] = pc[p] /\ todo'[p] = todo[p] /\ chan'[p] = chan[p]
    /\ msg'[p] = msg[p] /\ seen'[p] = seen[p]

\* p gets a message to push
Begins(p) ==
    /\ pc'[p] = "next" /\ msg'[p] = [src |-> p, n |-> npub + 1] /\ npub' = npub + 1
    /\ UNCHANGED <<client, stream>>

\* p looks up subscribers
LooksUp(p) ==
    /\ \E found \in SUBSET Sessions :
         todo'[p] = found /\ seen'[p] = {dc[s] : s \in found} \ {None}
    /\ UNCHANGED <<client, stream>>

(* What a step may do to a pusher: nothing, go on in its loop, or begin a  *)
(* message; message numbers only grow.                                     *)
LEMMA PusherSteps ==
    ASSUME TypeOK, [Next]_vars, NEW p \in Pushers
    PROVE  /\ npub \in Nat /\ npub' \in Nat /\ npub <= npub'
           /\ \/ Unmoved(p)
              \/ Begins(p) /\ LooksUp(p)
              \/ pc'[p] = "wait" /\ LooksUp(p)
              \/ /\ pc[p] = "wait" /\ Begins(p)
                 /\ todo'[p] = todo[p] /\ seen'[p] = seen[p]
              \/ pc'[p] = "idle" /\ seen'[p] = {}
              \/ PushStep(p)
<1>n. npub \in Nat BY DEF TypeOK
<1>l. ASSUME NEW q \in Pushers, NEW topic, NEW phase, Lookup(q, topic, phase)
      PROVE  /\ get_subscribers(topic) \in SUBSET Sessions
             /\ todo'[q] = get_subscribers(topic) /\ pc'[q] = phase
             /\ seen'[q] = {dc[s] : s \in get_subscribers(topic)} \ {None}
             /\ q # p => pc'[p] = pc[p] /\ todo'[p] = todo[p] /\ seen'[p] = seen[p]
  BY <1>l DEF Lookup, get_subscribers, TypeOK
<1>m. ASSUME NEW q \in Pushers, NewMessage(q)
      PROVE  /\ npub' = npub + 1 /\ msg'[q] = [src |-> q, n |-> npub + 1]
             /\ q # p => msg'[p] = msg[p]
  BY <1>m DEF NewMessage, TypeOK
<1>1. ASSUME NEW q \in Pushers, Publish(q) \/ UdpPublish(q)
      PROVE  /\ npub' \in Nat /\ npub <= npub'
             /\ Unmoved(p) \/ (Begins(p) /\ LooksUp(p))
  <2>1. /\ \E topic : Lookup(q, topic, "next")
        /\ NewMessage(q) /\ UNCHANGED <<client, stream, chan>>
    BY <1>1 DEF Publish, UdpPublish
  <2>2. PICK topic : Lookup(q, topic, "next") BY <2>1
  <2>i. npub' = npub + 1 BY <1>m, <2>1
  <2>j. npub' \in Nat /\ npub <= npub' BY <1>n, <2>i
  <2>3. CASE q = p
    <3>1. LooksUp(p) BY <1>l, <2>1, <2>2, <2>3 DEF LooksUp
    <3>2. Begins(p) BY <1>l, <1>m, <2>1, <2>2, <2>3 DEF Begins
    <3> QED BY <2>j, <3>1, <3>2
  <2>4. CASE q # p
    BY <1>l, <1>m, <2>1, <2>2, <2>j, <2>4 DEF Unmoved
  <2> QED BY <2>3, <2>4
<1>2. ASSUME NEW s \in Sessions, ReplOffer(s)
      PROVE  npub' = npub /\ (Unmoved(p) \/ (pc'[p] = "wait" /\ LooksUp(p)))
  <2>1. s \in Pushers BY DEF Pushers
  <2>2. PICK topic : Lookup(s, topic, "wait") BY <1>2 DEF ReplOffer
  <2>3. UNCHANGED <<client, stream, chan, msg, npub>> BY <1>2 DEF ReplOffer
  <2>4. CASE s = p BY <1>l, <2>1, <2>2, <2>3, <2>4 DEF LooksUp
  <2>5. CASE s # p BY <1>l, <2>1, <2>2, <2>3, <2>5 DEF Unmoved
  <2> QED BY <2>4, <2>5
<1>3. ASSUME NEW s \in Sessions, ReplData(s)
      PROVE  /\ npub' \in Nat /\ npub <= npub'
             /\ \/ Unmoved(p)
                \/ /\ pc[p] = "wait" /\ Begins(p)
                   /\ todo'[p] = todo[p] /\ seen'[p] = seen[p]
  <2>1. s \in Pushers BY DEF Pushers
  <2>2. /\ pc[s] = "wait" /\ pc' = [pc EXCEPT ![s] = "next"] /\ NewMessage(s)
        /\ UNCHANGED <<client, stream, todo, chan, seen>>
    BY <1>3 DEF ReplData
  <2>3. npub' \in Nat /\ npub <= npub'
    <3>1. npub' = npub + 1 BY <1>m, <2>1, <2>2
    <3> QED BY <1>n, <3>1
  <2>4. CASE s = p
    <3>1. pc'[p] = "next" BY <2>2, <2>4 DEF TypeOK
    <3> QED BY <1>m, <2>1, <2>2, <2>3, <2>4, <3>1 DEF Begins
  <2>5. CASE s # p BY <1>m, <2>1, <2>2, <2>3, <2>5 DEF Unmoved, TypeOK
  <2> QED BY <2>4, <2>5
<1>4. ASSUME NEW s \in Sessions, ReplLost(s)
      PROVE  npub' = npub /\ (Unmoved(p) \/ (pc'[p] = "idle" /\ seen'[p] = {}))
  BY <1>4 DEF ReplLost, Unmoved, TypeOK
<1>5. ASSUME NEW q \in Pushers, PushStep(q)
      PROVE  npub' = npub /\ (Unmoved(p) \/ PushStep(p))
  <2>1. npub' = npub
    BY <1>5 DEF PushStep, PushPick, PushCheck, PushSend, PushTake, PushAbort, PushDone
  <2>2. CASE q # p
    BY <1>5, <2>1, <2>2
    DEF PushStep, PushPick, PushCheck, PushSend, PushTake, PushAbort, PushDone,
        NextSubscriber, Unmoved, TypeOK
  <2> QED BY <1>5, <2>1, <2>2
<1>6. CASE UNCHANGED pusher BY <1>n, <1>6 DEF pusher, Unmoved
<1>7. ASSUME NEW s \in Sessions, SessionStep(s),
             ~(Publish(s) \/ ReplOffer(s) \/ ReplData(s) \/ ReplLost(s))
      PROVE  UNCHANGED pusher
  BY <1>7 DEF SessionStep, Login, TokenSent, TokenLost, Subscribe, Unsubscribe,
              Close, UnregisterClient, AbortOnExit
<1>8. ASSUME NEW d \in Streams, StreamStep(d) PROVE UNCHANGED pusher
  BY <1>8 DEF StreamStep, Attach, AttachRefused, LaunchReplied, LaunchFailed,
         LaunchPinger, LaunchData, PingSend, PingEnd, DataRecv, DataWrite,
         DataFail, DataUnregister, DataEnd
<1>9. CASE UNCHANGED vars BY <1>6, <1>9 DEF vars
<1>10. ASSUME NEW s \in Sessions, SessionStep(s)
       PROVE  \/ UNCHANGED pusher
              \/ Publish(s) \/ ReplOffer(s) \/ ReplData(s) \/ ReplLost(s)
  BY <1>7, <1>10
<1>11. Sessions \subseteq Pushers /\ Listeners \subseteq Pushers BY DEF Pushers
<1> QED
  BY <1>n, <1>1, <1>2, <1>3, <1>4, <1>5, <1>6, <1>8, <1>9, <1>10, <1>11 DEF Next

(* A step keeps Aimed.                                                     *)
LEMMA AimedKept ==
    ASSUME TypeOK, TypeOK', Owned, Early, Channels, Aimed, [Next]_vars
    PROVE  Aimed'
<1> SUFFICES ASSUME NEW p \in Pushers
             PROVE  /\ pc'[p] \in Looping =>
                         msg'[p] \in Message /\ msg'[p].src = p /\ msg'[p].n <= npub'
                    /\ pc'[p] \in Aiming =>
                         /\ chan'[p] \in Streams
                         /\ \E d \in Streams : d = chan'[p] /\ Current(p, owner[d])'
  BY DEF Aimed
<1>n. None \notin Sessions BY NoneAssumption DEF Pushers
<1>1. CASE Unmoved(p)
  <2>1. pc[p] \in Aiming => owner'[chan[p]] = owner[chan[p]]
    BY <1>n, OwnerStays DEF Aimed, Current, TypeOK
  <2>2. pc[p] \in Looping => msg[p].n \in Nat BY DEF Aimed, Message
  <2> QED
    BY <1>1, <2>1, <2>2, PusherSteps DEF Unmoved, Aimed, Current
<1>2. CASE Begins(p)
  <2>1. msg'[p] \in Message
    BY <1>2 DEF Begins, Message, TypeOK
  <2> QED BY <1>2, <2>1 DEF Begins, Aiming
<1>3. CASE pc'[p] \in {"wait", "idle"}
  BY <1>3 DEF Looping, Aiming
<1>4. CASE PushStep(p)
  <2>1. (msg'[p] = msg[p] /\ npub' = npub) \/ pc'[p] = "idle"
    BY <1>4 DEF PushStep, PushPick, PushCheck, PushSend, PushTake, PushAbort,
                PushDone, TypeOK
  <2>2. pc[p] \in Looping
    BY <1>4 DEF PushStep, PushPick, PushCheck, PushSend, PushTake, PushAbort,
                PushDone, Looping
  <2>3. CASE PushPick(p)
    <3>1. CASE pc'[p] \in Aiming
      <4>1. PICK s \in Sessions :
              /\ Current(p, s) /\ dc[s] # None /\ chan' = [chan EXCEPT ![p] = dc[s]]
              /\ UNCHANGED <<todo, owner>>
        BY <2>3, <3>1 DEF PushPick, NextSubscriber, Aiming, stream, TypeOK
      <4>2. chan'[p] = dc[s] /\ dc[s] \in Streams /\ owner[dc[s]] = s
        BY <4>1 DEF TypeOK, Channels
      <4>3. \A d \in Streams : d = dc[s] => Current(p, owner[d])'
        BY <4>1, <4>2 DEF Current
      <4>4. msg'[p] = msg[p] /\ npub' = npub BY <2>1, <3>1 DEF Aiming
      <4> QED BY <2>2, <4>2, <4>3, <4>4 DEF Aimed
    <3>2. CASE pc'[p] \notin Aiming
      BY <2>1, <2>2, <3>2 DEF Aimed, Looping
    <3> QED BY <3>1, <3>2
  <2>4. CASE PushCheck(p) \/ PushTake(p)
    <3>1. UNCHANGED <<todo, owner, chan>> /\ pc[p] \in Aiming
      BY <2>4 DEF PushCheck, PushTake, stream, Aiming
    <3>2. chan[p] \in Streams /\ Current(p, owner[chan[p]]) BY <3>1 DEF Aimed
    <3>3. \A d \in Streams : d = chan[p] => Current(p, owner[d])'
      BY <3>1, <3>2 DEF Current
    <3> QED BY <2>1, <2>2, <3>1, <3>2, <3>3 DEF Aimed, Looping
  <2>5. CASE PushSend(p) \/ PushAbort(p) \/ PushDone(p)
    <3>1. pc'[p] \in {"next", "idle"}
      BY <2>5 DEF PushSend, PushAbort, PushDone, NextSubscriber, TypeOK
    <3> QED BY <2>1, <2>2, <3>1 DEF Aimed, Looping, Aiming
  <2> QED BY <1>4, <2>3, <2>4, <2>5 DEF PushStep
<1> QED BY <1>1, <1>2, <1>3, <1>4, PusherSteps

-----------------------------------------------------------------------------
(* The order of messages.                                                  *)

(* An ordered line stays ordered when a later message of the same source   *)
(* is appended.                                                            *)
LEMMA AppendOrdered ==
    ASSUME NEW l \in Seq(Message), NEW x \in Message
    PROVE  /\ \A m : Has(Append(l, x), m) => Has(l, m) \/ m = x
           /\ Has(Append(l, x), x)
           /\ Ordered(l) /\ (\A m \in Message : Has(l, m) /\ m.src = x.src => m.n < x.n)
                => Ordered(Append(l, x))
<1> DEFINE k == Append(l, x)
<1>1. /\ Len(l) \in Nat /\ Len(k) = Len(l) + 1 /\ k[Len(l) + 1] = x
      /\ \A i \in 1..Len(l) : k[i] = l[i] /\ l[i] \in Message
  OBVIOUS
<1> HIDE DEF k
<1>2. \A i \in 1..Len(k) : i \in 1..Len(l) \/ i = Len(l) + 1 BY <1>1
<1>3. \A m : Has(k, m) => Has(l, m) \/ m = x BY <1>1, <1>2 DEF Has
<1>4. Has(k, x) BY <1>1 DEF Has
<1>5. ASSUME Ordered(l), \A m \in Message : Has(l, m) /\ m.src = x.src => m.n < x.n
      PROVE  Ordered(k)
  <2> SUFFICES ASSUME NEW i \in 1..Len(k), NEW j \in 1..Len(k), i < j, k[i].src = k[j].src
               PROVE  k[i].n < k[j].n
    BY DEF Ordered
  <2>1. i \in 1..Len(l) /\ k[i] = l[i] /\ l[i] \in Message BY <1>1
  <2>2. CASE j \in 1..Len(l) BY <1>1, <1>5, <2>1, <2>2 DEF Ordered
  <2>3. CASE j = Len(l) + 1
    <3>1. Has(l, l[i]) BY <2>1 DEF Has
    <3> QED BY <1>1, <1>5, <2>1, <2>3, <3>1
  <2> QED BY <1>2, <2>2, <2>3
<1> QED BY <1>3, <1>4, <1>5 DEF k

(* Nothing gets on a line but by a send.                                   *)
LEMMA LineGains ==
    ASSUME TypeOK, Owned, Early, Aimed, [Next]_vars, NEW d \in Streams, NEW m,
           Has(Line(d), m)'
    PROVE  \/ Has(Line(d), m)
           \/ \E p \in Pushers : PushSend(p) /\ Sent(p, d) /\ m = msg[p]
<1>0. Has(Line(d)', m) BY DEF Has
<1>1. ASSUME Same(d) PROVE Has(Line(d), m) BY <1>0, <1>1 DEF Same
<1>2. CASE Calm BY <1>1, <1>2 DEF Calm
<1>3. ASSUME NEW e \in Streams, Attached(e) \/ Closed(e) PROVE Has(Line(d), m)
  <2>1. CASE e # d BY <1>1, <1>3, <2>1 DEF Attached, Closed
  <2>2. CASE e = d /\ Closed(d) BY <1>0, <2>2 DEF Closed
  <2>3. CASE e = d /\ Attached(d)
    <3>1. Line(d)' = Line(d) BY <2>3, LineIsPipe DEF Attached
    <3> QED BY <1>0, <3>1
  <2> QED BY <1>3, <2>1, <2>2, <2>3
<1>4. ASSUME NEW p \in Pushers, NEW e \in Streams, PushSend(p), Sent(p, e)
      PROVE  Has(Line(d), m) \/ (Sent(p, d) /\ m = msg[p])
  <2>1. CASE e # d BY <1>1, <1>4, <2>1 DEF Sent
  <2>2. CASE e = d
    <3>1. Line(d) \in Seq(Message) BY LineTypes
    <3>2. msg[p] \in Message BY <1>4 DEF PushSend, Aimed, Looping
    <3>3. Has(Append(Line(d), msg[p]), m) BY <1>0, <1>4, <2>2 DEF Sent
    <3>4. Has(Line(d), m) \/ m = msg[p] BY <3>1, <3>2, <3>3, AppendOrdered
    <3> QED BY <1>4, <2>2, <3>4
  <2> QED BY <2>1, <2>2
<1> QED BY <1>2, <1>3, <1>4, StreamEffects

\* a stream without an owner has no messages
LEMMA BlankLine ==
    ASSUME Blank, NEW d \in Streams, owner[d] = None
    PROVE  Line(d) = <<>> /\ \A m : ~Has(Line(d), m)
<1>1. queue[d] = <<>> /\ hand[d] = None /\ wire[d] = <<>> BY DEF Blank
<1>2. Published(<<>>) = <<>> /\ InHand(None) = <<>> BY PublishedEmpty DEF InHand
<1>3. Line(d) = (<<>> \o <<>>) \o <<>> BY <1>1, <1>2 DEF Line
<1>4. Line(d) = <<>> BY <1>3
<1> QED BY <1>4 DEF Has

(* A step keeps Numbered.                                                  *)
LEMMA NumberedKept ==
    ASSUME TypeOK, Owned, Early, Aimed, Numbered, [Next]_vars
    PROVE  Numbered'
<1> SUFFICES ASSUME NEW d \in Streams, NEW m \in Message, Has(Line(d), m)'
             PROVE  m.n <= npub'
  BY DEF Numbered
<1>1. Message = [src : Pushers, n : 1..MaxPub] BY DEF Message
<1>2. m.n \in Nat BY <1>1, BoundAssumption
<1>3. m.n <= npub
  <2>1. CASE Has(Line(d), m) BY <2>1 DEF Numbered
  <2>2. ASSUME NEW p \in Pushers, PushSend(p), m = msg[p] PROVE m.n <= npub
    BY <2>2 DEF PushSend, Aimed, Looping
  <2> QED BY <2>1, <2>2, LineGains
<1>4. \E p : p \in Pushers BY <1>1
<1>5. npub \in Nat /\ npub' \in Nat /\ npub <= npub' BY <1>4, PusherSteps
<1> QED BY <1>2, <1>3, <1>5

\* the subscriber that a send of p is for
LEMMA SendPasses ==
    ASSUME TypeOK, Aimed, NEW p \in Pushers, PushSend(p) \/ PushAbort(p)
    PROVE  /\ chan[p] \in Streams /\ owner[chan[p]] \in todo[p]
           /\ todo'[p] = todo[p] \ {owner[chan[p]]}
           /\ pc'[p] = "next"
<1>1. chan[p] \in Streams /\ Current(p, owner[chan[p]])
  BY DEF PushSend, PushAbort, Aimed, Aiming
<1>2. PICK s \in Sessions : Current(p, s) /\ NextSubscriber(p, s)
  BY DEF PushSend, PushAbort
<1>3. owner[chan[p]] \in todo[p] /\ owner[chan[p]] \in Sessions
  BY <1>1 DEF Current, TypeOK
<1>4. s = owner[chan[p]] BY <1>1, <1>2, <1>3, CurrentIsOne
<1>5. todo'[p] = todo[p] \ {s} /\ pc'[p] = "next"
  BY <1>2 DEF NextSubscriber, TypeOK
<1> QED BY <1>1, <1>3, <1>4, <1>5

(* A step keeps Unpassed: the message at hand is not yet in a line its     *)
(* pusher has still to visit.                                              *)
LEMMA UnpassedKept ==
    ASSUME TypeOK, Owned, Early, Blank, Aimed, Numbered, Unpassed, [Next]_vars
    PROVE  Unpassed'
<1> SUFFICES ASSUME NEW p \in Pushers, pc'[p] \in Looping, NEW d \in Streams,
                    owner'[d] \in todo'[p], NEW m \in Message,
                    Has(Line(d), m)', m.src = p
             PROVE  m.n < msg'[p].n
  BY DEF Unpassed
<1>1. CASE Begins(p)
  <2>1. /\ UNCHANGED <<wire, hand, queue>> /\ msg'[p] = [src |-> p, n |-> npub + 1]
    BY <1>1 DEF Begins, stream
  <2>2. Line(d)' = Line(d) BY <2>1, LineIsPipe
  <2>3. Has(Line(d), m) BY <2>2 DEF Has
  <2>4. m.n <= npub BY <2>3 DEF Numbered
  <2>5. m.n \in 1..MaxPub /\ npub \in Nat BY DEF Message, TypeOK
  <2> QED BY <2>1, <2>4, <2>5, BoundAssumption
<1>2. CASE Unmoved(p) \/ PushStep(p)
  <2>1. pc[p] \in Looping /\ msg'[p] = msg[p]
    <3>1. CASE Unmoved(p) BY <3>1 DEF Unmoved
    <3>2. CASE PushStep(p)
      BY <3>2 DEF PushStep, PushPick, PushCheck, PushSend, PushTake, PushAbort,
                  PushDone, Looping, TypeOK
    <3> QED BY <1>2, <3>1, <3>2
  <2>2. todo'[p] \subseteq todo[p]
    <3>1. CASE Unmoved(p) BY <3>1 DEF Unmoved
    <3>2. CASE PushStep(p)
      BY <3>2 DEF PushStep, PushPick, PushCheck, PushSend, PushTake, PushAbort,
                  PushDone, NextSubscriber, TypeOK
    <3> QED BY <1>2, <3>1, <3>2
  <2>3. CASE Has(Line(d), m)
    <3>1. owner[d] # None BY <2>3, BlankLine
    <3>2. owner[d] \in todo[p] BY <2>2, <3>1, OwnerStays
    <3> QED BY <2>1, <2>3, <3>2 DEF Unpassed
  <2>4. ASSUME NEW q \in Pushers, PushSend(q), Sent(q, d), m = msg[q] PROVE FALSE
    <3>1. m.src = q BY <2>4 DEF PushSend, Aimed, Looping
    <3>2. q = p BY <3>1
    <3>3. d = chan[p] /\ owner' = owner BY <2>4, <3>2 DEF Sent
    <3>4. owner[d] \notin todo'[p] BY <2>4, <3>2, <3>3, SendPasses
    <3> QED BY <3>3, <3>4
  <2> QED BY <2>3, <2>4, LineGains
<1>3. CASE pc'[p] \in {"wait", "idle"} BY <1>3 DEF Looping
<1> QED BY <1>1, <1>2, <1>3, PusherSteps

(* A step keeps the order of every publisher's messages in every line.     *)
LEMMA PublisherOrderKept ==
    ASSUME TypeOK, Owned, Early, Blank, Aimed, Unpassed, PublisherOrder, [Next]_vars
    PROVE  PublisherOrder'
<1>1. \A d \in Streams : Ordered(Line(d)) BY DEF PublisherOrder, Ordered
<1>2. ASSUME \A d \in Streams : Ordered(Line(d)') PROVE PublisherOrder'
  BY <1>2 DEF PublisherOrder, Ordered
<1>3. CASE \A d \in Streams : Same(d) BY <1>1, <1>2, <1>3 DEF Same
<1>4. ASSUME NEW e \in Streams, \A d \in Streams \ {e} : Same(d), Ordered(Line(e)')
      PROVE  PublisherOrder'
  <2>1. \A d \in Streams \ {e} : Ordered(Line(d)') BY <1>1, <1>4 DEF Same
  <2> QED BY <1>2, <1>4, <2>1
<1>5. ASSUME NEW e \in Streams, Attached(e) PROVE PublisherOrder'
  <2>1. Line(e)' = Line(e) BY <1>5, LineIsPipe DEF Attached
  <2> QED BY <1>1, <1>4, <1>5, <2>1 DEF Attached
<1>6. ASSUME NEW e \in Streams, Closed(e) PROVE PublisherOrder'
  BY <1>1, <1>4, <1>6 DEF Closed
<1>7. ASSUME NEW p \in Pushers, PushSend(p), NEW e \in Streams, Sent(p, e)
      PROVE  PublisherOrder'
  <2>1. msg[p] \in Message /\ msg[p].src = p /\ pc[p] \in Looping
    BY <1>7 DEF PushSend, Aimed, Looping
  <2>2. e = chan[p] /\ Line(e)' = Append(Line(e), msg[p]) BY <1>7 DEF Sent
  <2>3. owner[e] \in todo[p] BY <1>7, <2>2, SendPasses
  <2>4. \A m \in Message : Has(Line(e), m) /\ m.src = msg[p].src => m.n < msg[p].n
    BY <2>1, <2>3 DEF Unpassed
  <2>5. Line(e) \in Seq(Message) BY LineTypes
  <2>6. Ordered(Append(Line(e), msg[p])) BY <1>1, <2>1, <2>4, <2>5, AppendOrdered
  <2>7. Ordered(Line(e)') BY <2>2, <2>6
  <2> QED BY <1>4, <1>7, <2>7 DEF Sent
<1> QED BY <1>3, <1>5, <1>6, <1>7, StreamEffects DEF Calm

(* A step keeps the messages of the streams of one session apart.          *)
LEMMA ApartKept ==
    ASSUME TypeOK, Owned, Early, Blank, Aimed, Unpassed, Apart, [Next]_vars
    PROVE  Apart'
<1> SUFFICES ASSUME NEW d \in Streams, NEW e \in Streams, d # e, owner'[d] = owner'[e],
                    NEW m \in Message, Has(Line(d), m)', Has(Line(e), m)'
             PROVE  FALSE
  BY DEF Apart
<1>1. ASSUME NEW c \in Streams, Has(Line(c), m) PROVE owner[c] # None /\ owner'[c] = owner[c]
  BY <1>1, BlankLine, OwnerStays
<1>2. ~(Has(Line(d), m) /\ Has(Line(e), m)) BY <1>1 DEF Apart
\* a message is sent to one stream of a client only
<1>3. ASSUME NEW a \in Streams, NEW b \in Streams, a # b, owner'[a] = owner'[b],
             NEW p \in Pushers, PushSend(p), Sent(p, a), m = msg[p], Has(Line(b), m)
      PROVE  FALSE
  <2>1. owner[a] = owner[b] /\ a = chan[p] BY <1>3 DEF Sent
  <2>2. owner[b] \in todo[p] BY <1>3, <2>1, SendPasses
  <2>3. pc[p] \in Looping /\ m.src = p BY <1>3 DEF PushSend, Aimed, Looping
  <2>4. m.n < m.n BY <1>3, <2>2, <2>3 DEF Unpassed
  <2>5. m.n \in 1..MaxPub BY DEF Message
  <2> QED BY <2>4, <2>5, BoundAssumption
<1>4. CASE Has(Line(d), m) /\ ~Has(Line(e), m)
  <2>1. PICK p \in Pushers : PushSend(p) /\ Sent(p, e) /\ m = msg[p]
    BY <1>4, LineGains
  <2> QED BY <1>3, <1>4, <2>1
<1>5. CASE ~Has(Line(d), m) /\ Has(Line(e), m)
  <2>1. PICK p \in Pushers : PushSend(p) /\ Sent(p, d) /\ m = msg[p]
    BY <1>5, LineGains
  <2> QED BY <1>3, <1>5, <2>1
<1>6. CASE ~Has(Line(d), m) /\ ~Has(Line(e), m)
  <2>1. PICK p \in Pushers : PushSend(p) /\ Sent(p, d) /\ m = msg[p]
    BY <1>6, LineGains
  <2>2. Same(e) BY <2>1 DEF Sent
  <2>3. Line(e)' = Line(e) BY <2>2 DEF Same
  <2> QED BY <1>6, <2>3 DEF Has
<1> QED BY <1>2, <1>4, <1>5, <1>6

-----------------------------------------------------------------------------
(* No message is lost silently.                                            *)

(* A step keeps LoggedIn.                                                  *)
LEMMA LoggedInKept ==
    ASSUME TypeOK, Owned, Early, Aimed, LoggedIn, [Next]_vars
    PROVE  LoggedIn'
<1>1. \A s \in Sessions : sess[s] # "new" => sess'[s] # "new"
  <2>1. CASE UNCHANGED sess BY <2>1
  <2>2. ASSUME NEW r \in Sessions, SessionStep(r)
        PROVE  \A s \in Sessions : sess[s] # "new" => sess'[s] # "new"
    BY <2>2 DEF SessionStep, Login, TokenSent, TokenLost, Subscribe, Unsubscribe,
                Publish, ReplOffer, ReplData, ReplLost, Close, UnregisterClient,
                AbortOnExit, client, TypeOK
  <2>3. ASSUME NEW p \in Pushers, PushStep(p) \/ UdpPublish(p) PROVE UNCHANGED sess
    BY <2>3 DEF PushStep, UdpPublish, PushPick, PushCheck, PushSend, PushTake,
                PushAbort, PushDone, client
  <2>4. ASSUME NEW d \in Streams, StreamStep(d) PROVE UNCHANGED sess
    BY <2>4 DEF StreamStep, Attach, AttachRefused, LaunchReplied, LaunchFailed,
           LaunchPinger, LaunchData, PingSend, PingEnd, DataRecv, DataWrite,
           DataFail, DataUnregister, DataEnd, client
  <2>5. CASE UNCHANGED vars BY <2>5 DEF vars, client
  <2> QED BY <2>1, <2>2, <2>3, <2>4, <2>5 DEF Next, Pushers
<1>2. CASE owner' = owner BY <1>1, <1>2 DEF LoggedIn, TypeOK
<1>3. ASSUME NEW d \in Streams, NEW s \in Sessions, Attach(d, s) PROVE LoggedIn'
  <2>1. sess[s] # "new" /\ owner' = [owner EXCEPT ![d] = s] /\ sess' = sess
    BY <1>3 DEF Attach, TokenKnown
  <2> QED BY <2>1 DEF LoggedIn, TypeOK
<1> QED BY <1>2, <1>3, ChannelSteps

(* A stream that its session gave up, or whose session left the database,  *)
(* never comes back.                                                       *)
LEMMA GoneStays ==
    ASSUME TypeOK, Owned, Early, Aimed, LoggedIn, [Next]_vars,
           NEW d \in Streams, owner[d] # None, Gone(d)
    PROVE  Gone(d)'
<1>1. owner'[d] = owner[d] /\ owner[d] \in Sessions BY OwnerStays DEF TypeOK
<1>2. CASE owner[d] \notin db
  <2>1. sess[owner[d]] # "new" BY DEF LoggedIn
  <2>2. owner[d] \notin db'
    <3>1. CASE db' \subseteq db BY <1>2, <3>1
    <3>2. ASSUME NEW s \in Sessions, SessionStep(s) PROVE owner[d] \notin db'
      BY <1>2, <2>1, <3>2 DEF SessionStep, Login, TokenSent, TokenLost, Subscribe,
           Unsubscribe, Publish, ReplOffer, ReplData, ReplLost, Close,
           UnregisterClient, AbortOnExit, client
    <3>3. ASSUME NEW p \in Pushers, PushStep(p) \/ UdpPublish(p) PROVE db' \subseteq db
      BY <3>3 DEF PushStep, UdpPublish, PushPick, PushCheck, PushSend, PushTake,
                  PushAbort, PushDone, client
    <3>4. ASSUME NEW e \in Streams, StreamStep(e) PROVE db' \subseteq db
      BY <3>4 DEF StreamStep, Attach, AttachRefused, LaunchReplied, LaunchFailed,
           LaunchPinger, LaunchData, PingSend, PingEnd, DataRecv, DataWrite,
           DataFail, DataUnregister, DataEnd, client
    <3>5. CASE UNCHANGED vars BY <3>1, <3>5 DEF vars, client
    <3> QED BY <3>1, <3>2, <3>3, <3>4, <3>5 DEF Next, Pushers
  <2> QED BY <1>1, <2>2 DEF Gone
<1>3. CASE dc[owner[d]] # d
  <2>1. CASE \A s \in Sessions : dc'[s] \in {dc[s], None}
    BY <1>1, <1>3, <2>1, NoneAssumption DEF Gone
  <2>2. ASSUME NEW e \in Streams, NEW s \in Sessions, Attach(e, s) PROVE Gone(d)'
    <3>1. e # d /\ dc' = [dc EXCEPT ![s] = e] BY <2>2 DEF Attach, Early
    <3> QED BY <1>1, <1>3, <3>1 DEF Gone, TypeOK
  <2> QED BY <2>1, <2>2, ChannelSteps
<1> QED BY <1>2, <1>3 DEF Gone

(* A step keeps Known.                                                     *)
LEMMA KnownKept ==
    ASSUME TypeOK, TypeOK', Owned, Early, Aimed, Channels, Known, [Next]_vars
    PROVE  Known'
<1> SUFFICES ASSUME NEW p \in Pushers, NEW d \in seen'[p]
             PROVE  /\ owner'[d] # None
                    /\ pc'[p] = "wait" => owner'[d] \in todo'[p]
  BY DEF Known
<1>n. None \notin Sessions BY NoneAssumption DEF Pushers
<1>1. CASE LooksUp(p)
  <2>1. PICK found \in SUBSET Sessions :
          todo'[p] = found /\ seen'[p] = {dc[s] : s \in found} \ {None}
    BY <1>1 DEF LooksUp
  <2>2. PICK s \in found : d = dc[s] /\ dc[s] # None BY <2>1
  <2>3. owner'[d] = s BY <1>1, <2>2 DEF LooksUp, Channels, stream
  <2> QED BY <1>n, <2>1, <2>3
<1>2. CASE seen'[p] = seen[p] /\ (pc'[p] = "wait" => pc[p] = "wait" /\ todo'[p] = todo[p])
  <2>1. d \in Streams /\ owner[d] # None BY <1>2 DEF Known, TypeOK
  <2>2. owner'[d] = owner[d] BY <2>1, OwnerStays
  <2> QED BY <1>2, <2>1, <2>2 DEF Known
<1>3. CASE PushStep(p)
  <2>1. seen'[p] \in {seen[p], {}} /\ pc'[p] # "wait"
    BY <1>3, ZenonT(60) DEF PushStep, PushPick, PushCheck, PushSend, PushTake, PushAbort,
                PushDone, NextSubscriber, TypeOK
  <2> QED BY <1>2, <2>1
<1>4. CASE Unmoved(p) BY <1>2, <1>4 DEF Unmoved
<1>5. CASE Begins(p) /\ seen'[p] = seen[p] BY <1>2, <1>5 DEF Begins
<1> QED BY <1>1, <1>3, <1>4, <1>5, PusherSteps

(* A step keeps Missed: whoever a pusher passed without sending is gone.   *)
LEMMA MissedKept ==
    ASSUME TypeOK, TypeOK', Owned, Early, Aimed, Channels, LoggedIn, Known, Missed,
           [Next]_vars
    PROVE  Missed'
<1> SUFFICES ASSUME NEW p \in Pushers, pc'[p] \in Aiming, NEW d \in seen'[p],
                    NEW c \in Streams, c = chan'[p], owner'[d] = owner'[c],
                    d # c \/ pc'[p] = "abort"
             PROVE  Gone(d)'
  <2>1. ASSUME NEW p \in Pushers, pc'[p] \in Aiming PROVE chan'[p] \in Streams
    BY <2>1, AimedKept DEF Aimed
  <2> QED BY <2>1 DEF Missed
<1>n. None \notin Sessions BY NoneAssumption DEF Pushers
\* the channels that p has already missed stay so
<1>1. ASSUME pc[p] \in Aiming, d \in seen[p], c = chan[p], d # c \/ pc[p] = "abort"
      PROVE  Gone(d)'
  <2>1. d \in Streams /\ owner[d] # None BY <1>1 DEF Known, TypeOK
  <2>2. owner[c] # None BY <1>1, <1>n DEF Aimed, Current, TypeOK
  <2>3. owner'[d] = owner[d] /\ owner'[c] = owner[c] BY <2>1, <2>2, OwnerStays
  <2>4. Gone(d) BY <1>1, <2>3 DEF Missed
  <2> QED BY <2>1, <2>4, GoneStays
<1>2. CASE Unmoved(p) BY <1>1, <1>2 DEF Unmoved
<1>3. CASE Begins(p) \/ pc'[p] \in {"wait", "idle"} BY <1>3 DEF Begins, Aiming
<1>4. CASE PushPick(p)
  <2>1. PICK s \in Sessions :
          /\ dc[s] # None /\ chan' = [chan EXCEPT ![p] = dc[s]] /\ pc'[p] = "check"
          /\ UNCHANGED <<owner, dc>>
    BY <1>4 DEF PushPick, NextSubscriber, Aiming, client, stream, TypeOK
  <2>2. c = dc[s] BY <2>1 DEF TypeOK
  <2>3. owner[d] = s /\ dc[s] # d BY <2>1, <2>2 DEF Channels
  <2> QED BY <2>1, <2>3 DEF Gone
<1>5. CASE PushCheck(p)
  <2>1. /\ pc[p] = "check" /\ pc'[p] # "abort" /\ UNCHANGED <<chan, seen>>
    BY <1>5 DEF PushCheck, TypeOK
  <2> QED BY <1>1, <2>1 DEF Aiming
<1>6. CASE PushTake(p)
  <2>1. pc[p] = "take" /\ UNCHANGED <<chan, seen, owner, db>>
    BY <1>6 DEF PushTake, stream
  <2>2. CASE d # c BY <1>1, <2>1, <2>2 DEF Aiming
  <2>3. CASE d = c
    <3>1. owner[c] \in Sessions /\ Current(p, owner[c])
      BY <2>1 DEF Aimed, Aiming, Current, TypeOK
    <3>2. PICK s \in Sessions : Current(p, s) /\ unregister_data_channel(s)
      BY <1>6 DEF PushTake
    <3>3. s = owner[c] BY <3>1, <3>2, CurrentIsOne
    <3>4. s \in db => dc'[s] = None BY <3>2 DEF unregister_data_channel, TypeOK
    <3> QED BY <2>1, <2>3, <3>3, <3>4, NoneAssumption DEF Gone
  <2> QED BY <2>2, <2>3
<1>7. CASE PushSend(p) \/ PushAbort(p) \/ PushDone(p)
  BY <1>7, SendPasses DEF PushDone, Aiming, TypeOK
<1> QED BY <1>2, <1>3, <1>4, <1>5, <1>6, <1>7, PusherSteps DEF PushStep

(* A step keeps PassedMeansQueued.                                         *)
LEMMA PassedKept ==
    ASSUME TypeOK, TypeOK', Owned, Early, Aimed, Channels, LoggedIn, Known, Missed,
           PassedMeansQueued, [Next]_vars
    PROVE  PassedMeansQueued'
<1> SUFFICES ASSUME NEW p \in Pushers, pc'[p] \in Looping, NEW d \in seen'[p],
                    owner'[d] \notin todo'[p], ~Gone(d)', RxOpen(d)'
             PROVE  Has(Line(d), msg[p])'
  BY DEF PassedMeansQueued, Looping, Gone
<1>t. d \in Streams BY DEF TypeOK
\* what p has passed stays queued
<1>1. ASSUME pc[p] \in Looping, d \in seen[p], owner[d] \notin todo[p],
             msg'[p] = msg[p]
      PROVE  Has(Line(d), msg[p])'
  <2>1. owner[d] # None BY <1>1 DEF Known
  <2>2. ~Gone(d) BY <1>t, <2>1, GoneStays
  <2>3. RxOpen(d) BY <1>t, <2>1, OwnerStays
  <2>4. Has(Line(d), msg[p]) BY <1>1, <2>2, <2>3 DEF PassedMeansQueued, Looping, Gone
  <2>5. \A m : m = msg[p] => Has(Line(d), m)' BY <1>t, <2>1, <2>4, OwnerStays
  <2> QED BY <1>1, <2>5 DEF Has
<1>2. ASSUME d \in seen[p] PROVE owner[d] # None /\ owner'[d] = owner[d]
  BY <1>t, <1>2, OwnerStays DEF Known
<1>3. CASE Unmoved(p) BY <1>1, <1>2, <1>3 DEF Unmoved
<1>4. CASE LooksUp(p)
  <2>1. PICK found \in SUBSET Sessions :
          todo'[p] = found /\ seen'[p] = {dc[s] : s \in found} \ {None}
    BY <1>4 DEF LooksUp
  <2>2. PICK s \in found : d = dc[s] /\ dc[s] # None BY <2>1
  <2>3. owner'[d] = s BY <1>4, <2>2 DEF LooksUp, Channels, stream
  <2> QED BY <2>1, <2>3
<1>5. CASE pc[p] = "wait" /\ todo'[p] = todo[p] /\ seen'[p] = seen[p]
  BY <1>2, <1>5 DEF Known
<1>6. CASE pc'[p] = "idle" BY <1>6 DEF Looping
<1>7. CASE PushPick(p)
  <2>1. /\ pc[p] \in Looping /\ seen' = seen /\ msg' = msg /\ UNCHANGED <<dc, owner>>
    BY <1>7 DEF PushPick, Looping, client, stream
  <2>2. CASE owner[d] \notin todo[p] BY <1>1, <2>1, <2>2
  <2>3. CASE owner[d] \in todo[p]
    <3>1. PICK s \in Sessions : dc[s] = None /\ todo'[p] = todo[p] \ {s}
      BY <1>7, <2>1, <2>3 DEF PushPick, NextSubscriber, TypeOK
    <3>2. owner[d] = s BY <2>1, <2>3, <3>1
    <3> QED BY <1>t, <2>1, <3>1, <3>2, NoneAssumption DEF Gone
  <2> QED BY <2>2, <2>3
<1>8. CASE PushCheck(p) \/ PushTake(p)
  <2>1. /\ pc[p] \in Looping /\ seen' = seen /\ msg' = msg /\ UNCHANGED <<todo, owner>>
    BY <1>8 DEF PushCheck, PushTake, Looping, stream
  <2> QED BY <1>1, <2>1
<1>9. CASE PushSend(p) \/ PushAbort(p)
  <2>1. /\ pc[p] \in Aiming /\ pc[p] \in Looping /\ seen' = seen /\ msg' = msg
        /\ UNCHANGED owner /\ (PushAbort(p) => pc[p] = "abort")
    BY <1>9 DEF PushSend, PushAbort, Looping, Aiming, stream
  <2>2. chan[p] \in Streams /\ todo'[p] = todo[p] \ {owner[chan[p]]}
    BY <1>9, SendPasses
  <2>3. CASE owner[d] \notin todo[p] BY <1>1, <2>1, <2>3
  <2>4. CASE owner[d] = owner[chan[p]]
    <3>1. owner[d] # None /\ d \in seen[p] BY <1>2, <2>1
    <3>2. ~Gone(d) BY <1>t, <3>1, GoneStays
    <3>3. d = chan[p] /\ PushSend(p) BY <1>9, <2>1, <2>4, <3>1, <3>2 DEF Missed
    <3>4. RxOpen(d) BY <1>t, <3>1, OwnerStays
    <3>5. msg[p] \in Message BY <2>1 DEF Aimed
    <3>6. queue'[d] = Append(queue[d], msg[p]) /\ UNCHANGED <<hand, wire>>
      BY <1>t, <3>3, <3>4 DEF PushSend, TypeOK
    <3>7. msg[p] # Nop
      <4>1. msg[p].n \in 1..MaxPub BY <3>5 DEF Message
      <4> QED BY <4>1, BoundAssumption DEF Nop
    <3>8. /\ wire[d] \in Seq(Message) /\ hand[d] \in Message \union {Nop, None}
          /\ queue[d] \in Seq(Message \union {Nop}) /\ Line(d) \in Seq(Message)
      BY <1>t, LineTypes
    <3>9. Line(d)' = Append(Line(d), msg[p])
      <4>1. msg[p] \in Message \union {Nop} BY <3>5
      <4>2. Pipe(wire[d], hand[d], Append(queue[d], msg[p]))
              = Append(Pipe(wire[d], hand[d], queue[d]), msg[p])
        BY <3>7, <3>8, <4>1, PipeSend
      <4> QED BY <3>6, <4>2, LineIsPipe
    <3>10. Has(Line(d)', msg[p]) BY <3>5, <3>8, <3>9, AppendOrdered
    <3> QED BY <2>1, <3>10 DEF Has
  <2> QED BY <2>1, <2>2, <2>3, <2>4
<1>10. CASE PushDone(p) BY <1>6, <1>10 DEF PushDone, TypeOK
<1> QED BY <1>3, <1>4, <1>5, <1>6, <1>7, <1>8, <1>9, <1>10, PusherSteps DEF PushStep

-----------------------------------------------------------------------------
(* The invariant holds in every reachable state.                           *)
THEOREM DeliveryInvariance == Spec => []DInv
<1> DEFINE Rest == Early /\ Blank /\ InOrder /\ NotLost
<1>n. None \notin Sessions /\ None \notin Streams BY NoneAssumption DEF Pushers
<1>1. ASSUME Init PROVE Rest
  <2>1. Early /\ Blank /\ Channels /\ Aimed /\ LoggedIn /\ Known /\ Missed
    BY <1>1 DEF Init, Early, Blank, Channels, Aimed, Looping, Aiming, LoggedIn,
                Known, Missed
  <2>2. \A d \in Streams : Line(d) = <<>> /\ \A m : ~Has(Line(d), m)
    BY <1>1, <2>1, BlankLine DEF Init
  <2>3. Numbered /\ Unpassed /\ Apart BY <2>2 DEF Numbered, Unpassed, Apart
  <2>4. PublisherOrder BY <2>2 DEF PublisherOrder
  <2>5. PassedMeansQueued BY <1>1 DEF Init, PassedMeansQueued
  <2> QED BY <2>1, <2>3, <2>4, <2>5 DEF InOrder, NotLost
<1>2. ASSUME IInv, IInv', Rest, [Next]_vars PROVE Rest'
  <2> USE <1>2 DEF IInv, InOrder, NotLost
  <2>1. Early' BY EarlyKept
  <2>2. Blank' BY BlankKept
  <2>3. Channels' BY ChannelsKept
  <2>4. Aimed' BY AimedKept
  <2>5. Numbered' BY NumberedKept
  <2>6. Unpassed' BY UnpassedKept
  <2>7. PublisherOrder' BY PublisherOrderKept
  <2>8. Apart' BY ApartKept
  <2>9. LoggedIn' BY LoggedInKept
  <2>10. Known' BY KnownKept
  <2>11. Missed' BY MissedKept
  <2>12. PassedMeansQueued' BY PassedKept
  <2> QED BY <2>1, <2>2, <2>3, <2>4, <2>5, <2>6, <2>7, <2>8, <2>9, <2>10, <2>11, <2>12
<1>3. IInv /\ Rest => DInv BY DEF DInv
<1> QED BY <1>1, <1>2, <1>3, Invariance, PTL DEF Spec

(* A publisher's messages are on a stream in the order of publication, and *)
(* none of them twice (push_to_subscribers, handle_data_stream).           *)
THEOREM MessagesInOrder == Spec => []PublisherOrder
<1>1. DInv => PublisherOrder BY DEF DInv, InOrder
<1> QED BY <1>1, DeliveryInvariance, PTL

(* A client that replaces its data stream has no message on both           *)
(* (register_data_channel, push_to_subscribers).                           *)
THEOREM NoMessageTwice == Spec => []OneStreamPerMessage
<1>1. ASSUME DInv PROVE OneStreamPerMessage
  <2>1. TypeOK /\ Apart BY <1>1 DEF DInv, IInv, InOrder
  <2> SUFFICES ASSUME NEW d \in Streams, NEW e \in Streams, d # e, owner[d] = owner[e],
                      NEW i \in 1..Len(Line(d)), Has(Line(e), Line(d)[i])
               PROVE  FALSE
    BY DEF OneStreamPerMessage
  <2>2. Line(d) \in Seq(Message) BY <2>1, LineTypes
  <2>3. Line(d)[i] \in Message BY <2>2
  <2>4. Has(Line(d), Line(d)[i]) BY DEF Has
  <2> QED BY <2>1, <2>3, <2>4 DEF Apart
<1> QED BY <1>1, DeliveryInvariance, PTL

(* When a publisher's loop has passed a subscriber, the message is on the  *)
(* subscriber's stream, unless the stream was closed or taken from it in   *)
(* the meantime (push_to_subscribers).                                     *)
THEOREM OkMeansQueued == Spec => []PassedMeansQueued
<1>1. DInv => PassedMeansQueued BY DEF DInv, NotLost
<1> QED BY <1>1, DeliveryInvariance, PTL

-----------------------------------------------------------------------------
(* Every step of the server is a step of Delivery, or none.                *)
LEMMA StepIsDelivery ==
    ASSUME DInv, DInv', [Next]_vars
    PROVE  [Abstract!Next]_(Abstract!vars)
<1>i. /\ TypeOK /\ Owned /\ Early /\ Blank /\ Channels /\ Aimed /\ Unpassed
      /\ PublisherOrder
  BY DEF DInv, IInv, InOrder
<1>l. /\ AbstractLine = [d \in Streams |-> IF RxOpen(d) THEN Line(d) ELSE wire[d]]
      /\ AbstractLine' = [d \in Streams |-> IF RxOpen(d)' THEN Line(d)' ELSE wire'[d]]
  BY DEF AbstractLine
<1>t. \A d \in Streams : wire[d] \in Seq(Message) /\ Line(d) \in Seq(Message)
  BY <1>i, LineTypes
\* a stream that stays the same has the same abstract line
<1>s. ASSUME NEW e \in Streams, Same(e)
      PROVE  AbstractLine'[e] = AbstractLine[e]
  BY <1>l, <1>s DEF Same
<1>1. CASE Calm
  <2>1. AbstractLine' = AbstractLine
    <3>1. \A e \in Streams : AbstractLine'[e] = AbstractLine[e] BY <1>1, <1>s DEF Calm
    <3> QED BY <1>l, <3>1
  <2>2. {d \in Streams : RxOpen(d)}' = {d \in Streams : RxOpen(d)}
    BY <1>1 DEF Calm, Same
  <2>3. owner' = owner BY <1>1 DEF Calm
  <2> QED BY <2>1, <2>2, <2>3 DEF Abstract!vars
<1>2. ASSUME NEW d \in Streams, Attached(d) PROVE Abstract!Next
  <2>1. Line(d) = <<>> /\ wire[d] = <<>> /\ Line(d)' = Line(d)
    BY <1>i, <1>2, BlankLine, LineIsPipe DEF Attached, Blank
  <2>2. AbstractLine' = AbstractLine
    <3>1. AbstractLine'[d] = AbstractLine[d] BY <1>2, <1>l, <2>1 DEF Attached
    <3>2. \A e \in Streams : AbstractLine'[e] = AbstractLine[e]
      BY <1>2, <1>s, <3>1 DEF Attached
    <3> QED BY <1>l, <3>2
  <2>3. {e \in Streams : RxOpen(e)}' = {e \in Streams : RxOpen(e)} \union {d}
    BY <1>2 DEF Attached, Same
  <2>4. PICK s \in Sessions : owner[d] = None /\ owner' = [owner EXCEPT ![d] = s]
    BY <1>2 DEF Attached
  <2>5. Abstract!Attach(d, s) BY <2>2, <2>3, <2>4 DEF Abstract!Attach
  <2> QED BY <2>5 DEF Abstract!Next
<1>3. ASSUME NEW d \in Streams, Closed(d) PROVE Abstract!Next
  <2> DEFINE k == Len(wire[d])
  <2>1. k \in 0..Len(Line(d)) /\ SubSeq(Line(d), 1, k) = wire[d]
    <3>1. /\ wire[d] \in Seq(Message) /\ hand[d] \in Message \union {Nop, None}
          /\ queue[d] \in Seq(Message \union {Nop})
      BY <1>i, LineTypes
    <3>2. Line(d) = Pipe(wire[d], hand[d], queue[d]) BY LineIsPipe
    <3>3. /\ k \in 0..Len(Pipe(wire[d], hand[d], queue[d]))
          /\ SubSeq(Pipe(wire[d], hand[d], queue[d]), 1, k) = wire[d]
      BY <3>1, PipeBegins, Zenon
    <3> QED BY <3>2, <3>3
  <2>2. AbstractLine[d] = Line(d) /\ AbstractLine'[d] = wire[d]
    BY <1>3, <1>l DEF Closed
  <2> HIDE DEF k
  <2>3. AbstractLine' = [AbstractLine EXCEPT ![d] = SubSeq(@, 1, k)]
    <3>1. \A e \in Streams \ {d} : AbstractLine'[e] = AbstractLine[e]
      BY <1>3, <1>s DEF Closed
    <3> QED BY <1>l, <2>1, <2>2, <3>1
  <2>4. {e \in Streams : RxOpen(e)}' = {e \in Streams : RxOpen(e)} \ {d}
    BY <1>3 DEF Closed, Same
  <2>5. d \in {e \in Streams : RxOpen(e)} /\ owner' = owner BY <1>3 DEF Closed
  <2>6. k \in 0..Len(AbstractLine[d]) BY <2>1, <2>2
  <2>7. Abstract!Close(d) BY <2>3, <2>4, <2>5, <2>6 DEF Abstract!Close
  <2> QED BY <2>7 DEF Abstract!Next
<1>4. ASSUME NEW p \in Pushers, PushSend(p), NEW d \in Streams, Sent(p, d)
      PROVE  Abstract!Next
  <2>1. msg[p] \in Message /\ msg[p].src = p /\ msg[p].n \in Nat /\ pc[p] \in Looping
    BY <1>4, <1>i DEF PushSend, Aimed, Looping, Message
  <2>2. owner[d] \in todo[p] BY <1>4, <1>i, SendPasses DEF Sent
  <2>3. \A e \in Streams : owner[e] = owner[d] =>
          \A m \in Message : Has(Line(e), m) /\ m.src = p => m.n < msg[p].n
    BY <1>i, <2>1, <2>2 DEF Unpassed
  <2>4. AbstractLine[d] = Line(d) /\ AbstractLine'[d] = Append(Line(d), msg[p])
    BY <1>4, <1>l DEF Sent
  <2>5. AbstractLine' = [AbstractLine EXCEPT ![d] = Append(@, msg[p])]
    <3>1. \A e \in Streams \ {d} : AbstractLine'[e] = AbstractLine[e]
      BY <1>4, <1>s DEF Sent
    <3> QED BY <1>l, <2>4, <3>1
  <2>6. Len(AbstractLine'[d]) > Len(AbstractLine[d])
    <3>1. Line(d) \in Seq(Message) BY <1>t
    <3> QED BY <2>1, <2>4, <3>1
  <2>7. {e \in Streams : RxOpen(e)}' = {e \in Streams : RxOpen(e)} /\ owner' = owner
    BY <1>4 DEF Sent, Same
  <2>8. d \in {e \in Streams : RxOpen(e)} BY <1>4 DEF Sent
  \* what is on the abstract line is on the stream
  <2>9. \A e \in Streams : \A m : Has(AbstractLine[e], m) => Has(Line(e), m)
    <3> SUFFICES ASSUME NEW e \in Streams, NEW m, Has(AbstractLine[e], m)
                 PROVE  Has(Line(e), m)
      OBVIOUS
    <3>1. /\ wire[e] \in Seq(Message) /\ hand[e] \in Message \union {Nop, None}
          /\ queue[e] \in Seq(Message \union {Nop})
      BY <1>i, LineTypes
    <3>2. Has(wire[e], m) => Has(Line(e), m) BY <3>1, PipeBegins, LineIsPipe
    <3> QED BY <1>l, <3>2
  <2>10. ASSUME NEW e \in Streams, owner[e] = owner[d]
         PROVE  ~Abstract!On(e, msg[p])
    <3>1. ~Has(AbstractLine[e], msg[p]) BY <2>1, <2>3, <2>9, <2>10
    <3> QED BY <3>1 DEF Abstract!On, Has
  <2>11. \A i \in 1..Len(AbstractLine[d]) :
           AbstractLine[d][i].src = msg[p].src => AbstractLine[d][i].n < msg[p].n
    <3> SUFFICES ASSUME NEW i \in 1..Len(Line(d)), Line(d)[i].src = p
                 PROVE  Line(d)[i].n < msg[p].n
      BY <2>1, <2>4
    <3>1. Has(Line(d), Line(d)[i]) BY DEF Has
    <3>2. Line(d) \in Seq(Message) BY <1>t
    <3>3. Line(d)[i] \in Message BY <3>2
    <3> QED BY <2>3, <3>1, <3>3
  <2>12. Abstract!Accept(d)
    BY <2>1, <2>5, <2>6, <2>7, <2>8, <2>10, <2>11 DEF Abstract!Accept
  <2> QED BY <2>12 DEF Abstract!Next
<1> QED BY <1>i, <1>1, <1>2, <1>3, <1>4, StreamEffects

(* The server implements Delivery: on every stream messages are accepted   *)
(* in the order of their publication and at most once for each client, and *)
(* a stream that ends loses the rest of its line and nothing in between    *)
(* (server.rs, pubsub.rs).                                                 *)
THEOREM ImplementsDelivery == Spec => DeliversInOrder
<1>1. ASSUME Init PROVE Abstract!Init
  <2>1. {d \in Streams : RxOpen(d)} = {} BY <1>1 DEF Init, RxOpen
  <2>2. AbstractLine = [d \in Streams |-> <<>>]
    BY <1>1, <2>1 DEF AbstractLine, Init
  <2> QED BY <1>1, <2>1, <2>2 DEF Init, Abstract!Init
<1>2. DInv /\ DInv' /\ [Next]_vars => [Abstract!Next]_(Abstract!vars)
  BY StepIsDelivery
<1> QED
  BY <1>1, <1>2, DeliveryInvariance, PTL DEF Spec, DeliversInOrder, Abstract!Spec
=============================================================================
