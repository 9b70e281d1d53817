---------------------------- MODULE ClientProofs ----------------------------
(***************************************************************************)
(* An answer belongs to its question, for any number of calls and any size *)
(* of the control channel.                                                 *)
(***************************************************************************)
EXTENDS Client, TLAPS

-----------------------------------------------------------------------------
(* The inductive invariant.                                                *)

In(seq, x) == \E i \in 1..Len(seq) : seq[i] = x

Only(seq, x) == Len(seq) = 1 /\ seq[1] = x

\* nothing is under way
Still == Len(up) = 0 /\ Len(down) = 0

\* the reply to the current command is there, and it is the server's verdict
Replied ==
    /\ Len(up) = 0 /\ Len(down) = 1
    /\ cur \in Calls => down[1] = verdict[cur]
    /\ IF down[1] = "waiting"
       THEN cur \in Calls /\ kind[cur] = "repl" /\ srv = "payload"
       ELSE srv # "payload"

(* The control task and the server take turns: at most one command or one  *)
(* reply is under way, and it is about the current command.                *)
Turns ==
    /\ ctl = "recv" => cur = None /\ Still /\ srv # "payload"
    /\ ctl = "reply" =>
         \/ Only(up, cur) /\ Len(down) = 0 /\ srv = "open"
         \/ Replied
         \/ Still /\ srv = "gone"
    /\ ctl = "payload" =>
         /\ cur \in Calls
         /\ \/ /\ Only(up, "payload") /\ Len(down) = 0 /\ srv = "payload"
               /\ verdict[cur] = "waiting"
            \/ /\ Len(up) = 0 /\ Only(down, "ok") /\ srv = "open"
               /\ verdict[cur] = "ok"
            \/ Still /\ srv = "gone"
    /\ ctl = "end" => cur = None

\* a call that has not queued its command is known to nobody
Unsent ==
    \A c \in Calls : call[c] \in {"new", "send"} =>
        slot[c] = None /\ result[c] = None /\ c # cur
            /\ ~In(queue, c) /\ ~In(up, c)

\* queued commands are there once, and nothing has happened to them yet
Queued ==
    /\ \A i \in 1..Len(queue) : queue[i] \in Calls =>
         slot[queue[i]] = None /\ queue[i] # cur /\ ~In(up, queue[i])
    /\ \A i, j \in 1..Len(queue) : queue[i] \in Calls /\ queue[i] = queue[j] => i = j

\* the current command has no answer yet
Open == cur \in Calls => slot[cur] = None

\* an answer that was passed on is the server's, which has said its last word
Told ==
    \A c \in Calls :
        /\ slot[c] \in Answers => slot[c] = verdict[c] /\ ~In(up, c)
        /\ result[c] \in Answers => slot[c] = result[c]

Dialogue == Turns /\ Unsent /\ Queued /\ Open /\ Told

IInv == TypeOK /\ Dialogue

-----------------------------------------------------------------------------
(* Queues.                                                                 *)

(* What a queue holds after one more entry.                                *)
LEMMA InAppend ==
    ASSUME NEW S, NEW seq \in Seq(S), NEW x \in S, NEW y
    PROVE  /\ In(Append(seq, x), y) <=> In(seq, y) \/ y = x
           /\ Len(seq) = 0 => Only(Append(seq, x), x)
<1> DEFINE new == Append(seq, x)
<1>1. /\ Len(new) = Len(seq) + 1 /\ new[Len(seq) + 1] = x
      /\ \A i \in 1..Len(seq) : new[i] = seq[i]
      /\ Len(seq) \in Nat
  OBVIOUS
<1> HIDE DEF new
<1>2. In(new, y) <=> In(seq, y) \/ y = x
  BY <1>1 DEF In
<1>3. Len(seq) = 0 => Only(new, x) BY <1>1 DEF Only
<1> QED BY <1>2, <1>3 DEF new

(* What a queue holds after its first entry was taken.                     *)
LEMMA InTail ==
    ASSUME NEW S, NEW seq \in Seq(S), seq # <<>>
    PROVE  /\ Head(seq) = seq[1] /\ In(seq, Head(seq)) /\ Head(seq) \in S
           /\ Tail(seq) \in Seq(S) /\ Len(Tail(seq)) = Len(seq) - 1
           /\ \A i \in 1..Len(Tail(seq)) : Tail(seq)[i] = seq[i + 1]
           /\ \A y : In(Tail(seq), y) => In(seq, y)
<1>1. /\ Head(seq) = seq[1] /\ Head(seq) \in S
      /\ Tail(seq) \in Seq(S) /\ Len(Tail(seq)) = Len(seq) - 1
      /\ \A i \in 1..Len(Tail(seq)) : Tail(seq)[i] = seq[i + 1]
      /\ Len(seq) \in Nat \ {0}
  OBVIOUS
<1>2. In(seq, Head(seq)) BY <1>1 DEF In
<1>3. ASSUME NEW y, In(Tail(seq), y) PROVE In(seq, y)
  <2>1. PICK i \in 1..Len(Tail(seq)) : Tail(seq)[i] = y BY <1>3 DEF In
  <2>2. i + 1 \in 1..Len(seq) /\ seq[i + 1] = y BY <1>1, <2>1
  <2> QED BY <2>2 DEF In
<1> QED BY <1>1, <1>2, <1>3

-----------------------------------------------------------------------------
(* Every action keeps the types.                                           *)
LEMMA TypesKept ==
    ASSUME TypeOK, [Next]_vars
    PROVE  TypeOK'
<1> USE DEF TypeOK, Kinds, Errors, Answers, caller, task, server
<1>q. QueueSize \in Nat /\ QueueSize > 0 BY QueueAssumption
<1>d. \A c : DropSender(slot, c) \in [Calls -> Answers \union {None, "dropped"}]
  BY DEF DropSender
<1>1. ASSUME NEW c \in Calls, Start(c) PROVE TypeOK' BY <1>1 DEF Start
<1>2. ASSUME NEW c \in Calls, Enqueue(c) PROVE TypeOK'
  <2>1. queue' \in Seq(Calls \union {None, "bye"}) /\ Len(queue') = Len(queue) + 1
    BY <1>2 DEF Enqueue
  <2>2. Len(queue') <= QueueSize BY <1>2, <1>q, <2>1 DEF Enqueue
  <2> QED BY <1>2, <2>1, <2>2 DEF Enqueue
<1>3. ASSUME NEW c \in Calls, SendFails(c) PROVE TypeOK'
  BY <1>3 DEF SendFails, Return
<1>4. ASSUME NEW c \in Calls, Answered(c) PROVE TypeOK'
  <2>1. /\ call' \in [Calls -> {"new", "send", "wait", "done"}]
        /\ result' \in [Calls -> Answers \union {None, "lost", "timeout"}]
    BY <1>4 DEF Answered, Return
  <2>2. CASE kind[c] = "bye" /\ slot[c] = "ok"
    <3>1. /\ ctl' = "end" /\ ping' = "end" /\ data' = "end" /\ cur' = None
          /\ slot' = DropSender(slot, cur) /\ connected' = FALSE
          /\ UNCHANGED <<queue, fresh, kind, dropped, up, down, srv, verdict>>
      BY <1>4, <2>2 DEF Answered, shutdown
    <3> QED BY <1>d, <2>1, <3>1
  <2>3. CASE ~(kind[c] = "bye" /\ slot[c] = "ok")
    BY <1>4, <2>1, <2>3 DEF Answered
  <2> QED BY <2>2, <2>3
<1>5. ASSUME NEW c \in Calls, WaitTimeout(c) PROVE TypeOK'
  BY <1>5 DEF WaitTimeout, Return
<1>6. CASE DropClient BY <1>6, <1>d DEF DropClient, shutdown
<1>7. CASE Lapse BY <1>7 DEF Lapse
<1>8. CASE CtlSkip
  <2>1. /\ queue' \in Seq(Calls \union {None, "bye"}) /\ Len(queue') = Len(queue) - 1
        /\ Len(queue) \in Nat
    BY <1>8 DEF CtlSkip
  <2>2. Len(queue') <= QueueSize BY <1>q, <2>1
  <2> QED BY <1>8, <2>1, <2>2 DEF CtlSkip
<1>9. CASE CtlWrite
  <2>1. /\ queue' \in Seq(Calls \union {None, "bye"}) /\ Len(queue') = Len(queue) - 1
        /\ Len(queue) \in Nat /\ Head(queue) \in Calls \union {None, "bye"}
    BY <1>9 DEF CtlWrite
  <2>2. Len(queue') <= QueueSize BY <1>q, <2>1
  <2>3. up' \in Seq(Calls \union {None, "bye", "payload"})
    BY <1>9, <2>1 DEF CtlWrite
  <2> QED BY <1>9, <2>1, <2>2, <2>3 DEF CtlWrite
<1>10. CASE CtlReply
  <2>1. /\ Head(down) \in Answers \union {"waiting"}
        /\ down' \in Seq(Answers \union {"waiting"})
    BY <1>10 DEF CtlReply
  <2>2. up' \in Seq(Calls \union {None, "bye", "payload"})
    <3>1. up' \in {up, Append(up, "payload")} BY <1>10 DEF CtlReply
    <3>2. Append(up, "payload") \in Seq(Calls \union {None, "bye", "payload"})
      OBVIOUS
    <3> QED BY <3>1, <3>2
  <2>3. slot' \in [Calls -> Answers \union {None, "dropped"}]
    BY <1>10, <2>1, ZenonT(60) DEF CtlReply, Tell
  <2>4. /\ ctl' \in {"recv", "payload", "end"}
        /\ cur' \in {cur, None} /\ connected' \in {connected, FALSE}
    BY <1>10 DEF CtlReply, CtlEnd
  <2> QED BY <1>10, <2>1, <2>2, <2>3, <2>4 DEF CtlReply
<1>11. CASE CtlFails BY <1>11, <1>d DEF CtlFails, CtlEnd
<1>12. CASE PingSend
  <2>1. queue' \in Seq(Calls \union {None, "bye"}) /\ Len(queue') = Len(queue) + 1
    BY <1>12 DEF PingSend
  <2>2. Len(queue') <= QueueSize BY <1>12, <1>q, <2>1 DEF PingSend
  <2> QED BY <1>12, <2>1, <2>2 DEF PingSend
<1>13. CASE PingEnd BY <1>13 DEF PingEnd
<1>14. CASE DataFails BY <1>14 DEF DataFails
<1>15. CASE DataBye
  <2>1. CASE UNCHANGED queue BY <1>15, <2>1 DEF DataBye
  <2>2. CASE Len(queue) < QueueSize /\ queue' = Append(queue, "bye")
    <3>1. queue' \in Seq(Calls \union {None, "bye"}) /\ Len(queue') = Len(queue) + 1
      BY <2>2
    <3>2. Len(queue') <= QueueSize BY <2>2, <1>q, <3>1
    <3> QED BY <1>15, <3>1, <3>2 DEF DataBye
  <2> QED BY <1>15, <2>1, <2>2 DEF DataBye
<1>16. CASE Serve
  <2>1. /\ Head(up) \in Calls \union {None, "bye", "payload"}
        /\ up' \in Seq(Calls \union {None, "bye", "payload"})
    BY <1>16 DEF Serve
  <2>2. /\ down' \in Seq(Answers \union {"waiting"})
        /\ verdict' \in [Calls -> Answers \union {None, "waiting"}]
        /\ srv' \in {"open", "payload", "gone"}
    <3>1. \A x \in Answers \union {"waiting"} :
            Append(down, x) \in Seq(Answers \union {"waiting"})
      OBVIOUS
    <3>2. CASE /\ down' = Append(down, "waiting") /\ srv' = "payload"
               /\ verdict' = [verdict EXCEPT ![Head(up)] = "waiting"]
      BY <3>1, <3>2
    <3>3. CASE \E code \in Answers :
                 /\ Final(Head(up), code) /\ down' = Append(down, code)
                 /\ srv' \in {"open", "gone"}
      BY <3>1, <3>3 DEF Final
    <3> QED BY <1>16, <3>2, <3>3 DEF Serve
  <2> QED BY <1>16, <2>1, <2>2 DEF Serve
<1>17. CASE ServePayload
  <2>1. up' \in Seq(Calls \union {None, "bye", "payload"})
    BY <1>17 DEF ServePayload
  <2>2. down' \in Seq(Answers \union {"waiting"})
    BY <1>17 DEF ServePayload
  <2>3. verdict' \in [Calls -> Answers \union {None, "waiting"}]
    BY <1>17 DEF ServePayload
  <2> QED BY <1>17, <2>1, <2>2, <2>3 DEF ServePayload
<1>18. CASE Vanish BY <1>18 DEF Vanish
<1>19. CASE UNCHANGED vars BY <1>19 DEF vars
<1> QED
  BY <1>1, <1>2, <1>3, <1>4, <1>5, <1>6, <1>7, <1>8, <1>9, <1>10, <1>11,
     <1>12, <1>13, <1>14, <1>15, <1>16, <1>17, <1>18, <1>19 DEF Next

-----------------------------------------------------------------------------
(* The callers' steps keep the dialogue in order.                          *)
LEMMA CallerKeeps ==
    ASSUME TypeOK, Dialogue, NEW c \in Calls,
           \/ Start(c) \/ Enqueue(c) \/ SendFails(c) \/ Answered(c) \/ WaitTimeout(c)
    PROVE  Dialogue'
<1> USE NameAssumption DEF Dialogue
<1>1. CASE Start(c)
  <2>1. UNCHANGED <<result, slot, queue, ctl, cur, up, down, srv, verdict>>
    BY <1>1 DEF Start, task, server
  <2>2. /\ call[c] = "new" /\ call' = [call EXCEPT ![c] = "send"]
        /\ \A b \in Calls : b # c => kind'[b] = kind[b]
    BY <1>1 DEF Start, TypeOK
  <2>3. c # cur BY <2>2 DEF Unsent
  <2>4. Turns' BY <2>1, <2>2, <2>3 DEF Turns, Replied, Still, Only
  <2>5. Unsent' BY <2>1, <2>2 DEF Unsent, In, TypeOK
  <2>6. Queued' /\ Open' /\ Told' BY <2>1 DEF Queued, Open, Told, In
  <2> QED BY <2>4, <2>5, <2>6
<1>2. CASE Enqueue(c)
  <2>1. /\ queue' = Append(queue, c) /\ call' = [call EXCEPT ![c] = "wait"]
        /\ call[c] = "send"
        /\ UNCHANGED <<kind, result, slot, ctl, cur, up, down, srv, verdict>>
    BY <1>2 DEF Enqueue, server
  <2>2. slot[c] = None /\ c # cur /\ ~In(queue, c) /\ ~In(up, c)
    BY <2>1 DEF Unsent
  <2>3. \A y : In(queue', y) <=> In(queue, y) \/ y = c
    BY <2>1, InAppend DEF TypeOK
  <2>4. /\ Len(queue') = Len(queue) + 1 /\ queue'[Len(queue) + 1] = c
        /\ \A i \in 1..Len(queue) : queue'[i] = queue[i]
        /\ Len(queue) \in Nat
    BY <2>1 DEF TypeOK
  <2>5. Turns' BY <2>1 DEF Turns, Replied, Still, Only
  <2>6. Unsent'
    <3>1. \A x : In(up, x)' <=> In(up, x) BY <2>1 DEF In
    <3> QED BY <2>1, <2>3, <3>1 DEF Unsent, TypeOK
  <2>7. Queued'
    <3>1. \A i \in 1..Len(queue) : queue[i] # c BY <2>2 DEF In
    <3>2. \A i \in 1..Len(queue') : i \in 1..Len(queue) \/ i = Len(queue) + 1
      BY <2>4
    <3>3. \A x : In(up, x)' <=> In(up, x) BY <2>1 DEF In
    <3> QED BY <2>1, <2>2, <2>4, <3>1, <3>2, <3>3 DEF Queued
  <2>8. Open' /\ Told' BY <2>1 DEF Open, Told, In
  <2> QED BY <2>5, <2>6, <2>7, <2>8
<1>3. CASE SendFails(c) \/ WaitTimeout(c)
  <2>1. PICK r \in {"lost", "timeout"} : Return(c, r)
    BY <1>3 DEF SendFails, WaitTimeout
  <2>2. UNCHANGED <<kind, slot, queue, ctl, cur, up, down, srv, verdict>>
    BY <1>3 DEF SendFails, WaitTimeout, task, server
  <2>3. Turns' /\ Queued' /\ Open'
    BY <2>2 DEF Turns, Replied, Still, Only, Queued, Open, In
  <2>4. Unsent' BY <2>1, <2>2 DEF Return, Unsent, In, TypeOK
  <2>5. Told' BY <2>1, <2>2 DEF Return, Told, In, TypeOK, Answers, Errors
  <2> QED BY <2>3, <2>4, <2>5
<1>4. CASE Answered(c)
  <2>1. /\ slot[c] # None /\ UNCHANGED <<kind, queue, up, down, srv, verdict>>
        /\ Return(c, IF slot[c] = "dropped" THEN "lost" ELSE slot[c])
    BY <1>4 DEF Answered, shutdown, server
  <2>2. c # cur BY <2>1 DEF Open
  <2>3. \/ ctl' = "end" /\ cur' = None /\ slot' = DropSender(slot, cur)
        \/ UNCHANGED <<ctl, cur, slot>>
    BY <1>4 DEF Answered, shutdown
  <2>4. /\ \A b \in Calls : slot'[b] # slot[b] =>
             b = cur /\ slot'[b] = "dropped" /\ slot[b] = None
        /\ slot'[c] = slot[c]
    BY <2>2, <2>3 DEF DropSender, TypeOK
  <2>5. Turns'
    BY <2>1, <2>3 DEF Turns, Replied, Still, Only
  <2>6. Unsent'
    BY <2>1, <2>3, <2>4 DEF Return, Unsent, In, TypeOK
  <2>7. Queued'
    BY <2>1, <2>3, <2>4 DEF Queued, In
  <2>8. Open' BY <2>3 DEF Open
  <2>9. Told'
    <3> SUFFICES ASSUME NEW b \in Calls
                 PROVE  /\ slot'[b] \in Answers => slot'[b] = verdict'[b] /\ ~In(up, b)'
                        /\ result'[b] \in Answers => slot'[b] = result'[b]
      BY DEF Told
    <3>1. In(up, b)' <=> In(up, b) BY <2>1 DEF In
    <3>2. CASE b = c
      <4>1. result'[b] = IF slot[b] = "dropped" THEN "lost" ELSE slot[b]
        BY <2>1, <3>2 DEF Return, TypeOK
      <4> QED BY <2>1, <2>4, <3>1, <3>2, <4>1 DEF Told, Answers, Errors
    <3>3. CASE b # c
      <4>1. result'[b] = result[b] BY <2>1, <3>3 DEF Return, TypeOK
      <4>2. CASE slot'[b] = slot[b] BY <2>1, <3>1, <4>1, <4>2 DEF Told
      <4>3. CASE slot'[b] # slot[b]
        <5>1. slot'[b] = "dropped" /\ slot[b] = None BY <2>4, <4>3
        <5>2. result[b] \notin Answers BY <5>1 DEF Told
        <5> QED BY <4>1, <5>1, <5>2 DEF Answers, Errors
      <4> QED BY <4>2, <4>3
    <3> QED BY <3>2, <3>3
  <2> QED BY <2>5, <2>6, <2>7, <2>8, <2>9
<1> QED BY <1>1, <1>2, <1>3, <1>4

(* The control task's steps do: it waits for the reply to a command before *)
(* it takes the next one.                                                  *)
LEMMA ControlKeeps ==
    ASSUME TypeOK, Dialogue, CtlSkip \/ CtlWrite \/ CtlReply \/ CtlFails \/ DropClient
    PROVE  Dialogue'
<1> USE NameAssumption DEF Dialogue
<1>1. CASE CtlSkip
  <2>1. /\ queue # <<>> /\ queue' = Tail(queue)
        /\ UNCHANGED <<call, kind, result, slot, ctl, cur, up, down, srv, verdict>>
    BY <1>1 DEF CtlSkip, caller, server
  <2>2. /\ Len(queue') = Len(queue) - 1 /\ Len(queue) \in Nat
        /\ \A i \in 1..Len(queue') : queue'[i] = queue[i + 1]
        /\ \A y : In(queue', y) => In(queue, y)
    BY <2>1, InTail DEF TypeOK
  <2>3. Turns' /\ Open' /\ Told'
    BY <2>1 DEF Turns, Replied, Still, Only, Open, Told, In
  <2>4. \A x : In(up, x)' <=> In(up, x) BY <2>1 DEF In
  <2>5. Unsent' BY <2>1, <2>2, <2>4 DEF Unsent
  <2>6. Queued'
    <3>1. \A i \in 1..Len(queue') : i + 1 \in 1..Len(queue) BY <2>2
    <3>2. \A i, j \in 1..Len(queue') : i + 1 = j + 1 => i = j BY <2>2
    <3> QED BY <2>1, <2>2, <2>4, <3>1, <3>2 DEF Queued
  <2> QED BY <2>3, <2>5, <2>6
<1>2. CASE CtlWrite
  <2> DEFINE c == Head(queue)
  <2>1. /\ queue # <<>> /\ queue' = Tail(queue) /\ ctl = "recv" /\ ctl' = "reply"
        /\ cur' = c /\ up' = IF srv = "gone" THEN up ELSE Append(up, c)
        /\ UNCHANGED <<call, kind, result, slot, down, srv, verdict>>
    BY <1>2 DEF CtlWrite, caller
  <2>2. /\ Len(queue') = Len(queue) - 1 /\ Len(queue) \in Nat
        /\ \A i \in 1..Len(queue') : queue'[i] = queue[i + 1]
        /\ \A y : In(queue', y) => In(queue, y)
        /\ c = queue[1] /\ In(queue, c) /\ c \in Calls \union {None, "bye"}
        /\ 1 \in 1..Len(queue)
    BY <2>1, InTail DEF TypeOK, In
  <2> HIDE DEF c
  <2>3. cur = None /\ Still /\ srv \in {"open", "gone"}
    BY <2>1 DEF Turns, TypeOK
  <2>4. c \in Calls => slot[c] = None /\ c # cur /\ ~In(up, c)
    BY <2>2 DEF Queued
  <2>5. Len(up) = 0 /\ ~\E x : In(up, x) BY <2>3 DEF Still, In
  <2>6. CASE srv = "gone"
    <3>1. up' = up BY <2>1, <2>6
    <3>2. Turns' BY <2>1, <2>3, <2>6, <3>1 DEF Turns, Still
    <3>3. \A x : ~In(up, x)' BY <2>5, <3>1 DEF In
    <3>4. Unsent' BY <2>1, <2>2, <3>3 DEF Unsent
    <3>5. Queued'
      <4>1. \A i \in 1..Len(queue') : i + 1 \in 1..Len(queue) /\ i + 1 # 1 BY <2>2
      <4>2. \A i, j \in 1..Len(queue') : i + 1 = j + 1 => i = j BY <2>2
      <4> QED BY <2>1, <2>2, <3>3, <4>1, <4>2 DEF Queued
    <3>6. Open' BY <2>1, <2>4 DEF Open
    <3>7. Told' BY <2>1, <3>3 DEF Told
    <3> QED BY <3>2, <3>4, <3>5, <3>6, <3>7
  <2>7. CASE srv # "gone"
    <3>1. /\ \A y : In(up, y)' <=> y = c
          /\ Only(up', c)
      <4>1. up' = Append(up, c) BY <2>1, <2>7
      <4>2. c \in Calls \union {None, "bye", "payload"} BY <2>2
      <4>3. up \in Seq(Calls \union {None, "bye", "payload"}) BY DEF TypeOK
      <4>4. /\ \A y : In(Append(up, c), y) <=> In(up, y) \/ y = c
            /\ Only(Append(up, c), c)
        BY <2>5, <4>2, <4>3, InAppend, ZenonT(60)
      <4>5. \A y : In(up', y) <=> y = c BY <2>5, <4>1, <4>4
      <4> QED BY <4>1, <4>4, <4>5 DEF Only, In
    <3>2. Turns'
      BY <2>1, <2>3, <2>7, <3>1 DEF Turns, Still, Only
    <3>3. Unsent' BY <2>1, <2>2, <3>1 DEF Unsent
    <3>4. Queued'
      <4>1. \A i \in 1..Len(queue') : i + 1 \in 1..Len(queue) /\ i + 1 # 1 BY <2>2
      <4>2. \A i, j \in 1..Len(queue') : i + 1 = j + 1 => i = j BY <2>2
      <4> QED BY <2>1, <2>2, <3>1, <4>1, <4>2 DEF Queued
    <3>5. Open' BY <2>1, <2>4 DEF Open
    <3>6. Told' BY <2>1, <2>4, <3>1 DEF Told, Answers, Errors
    <3> QED BY <3>2, <3>3, <3>4, <3>5, <3>6
  <2> QED BY <2>6, <2>7
<1>3. CASE CtlReply
  <2>1. /\ ctl \in {"reply", "payload"} /\ down # <<>> /\ down' = Tail(down)
        /\ UNCHANGED <<call, kind, result, queue, srv, verdict>>
    BY <1>3 DEF CtlReply
  <2>2. Len(down) # 0 /\ Head(down) = down[1] /\ Len(down') = Len(down) - 1
    BY <2>1 DEF TypeOK
  <2>3. \/ ctl = "reply" /\ Replied
        \/ /\ ctl = "payload" /\ cur \in Calls /\ Len(up) = 0 /\ Only(down, "ok")
           /\ srv = "open" /\ verdict[cur] = "ok"
    BY <2>1, <2>2 DEF Turns, Still
  <2>4. /\ Len(up) = 0 /\ Len(down) = 1 /\ Len(down') = 0
        /\ cur \in Calls => down[1] = verdict[cur]
        /\ down[1] # "waiting" => srv # "payload"
    BY <2>2, <2>3 DEF Replied, Only
  <2>5. \A x : ~In(up, x) BY <2>4 DEF In
  <2>6. CASE down[1] = "waiting"
    <3>1. ctl = "reply" /\ cur \in Calls /\ kind[cur] = "repl" /\ srv = "payload"
      BY <2>3, <2>6 DEF Replied, Only
    <3>2. up' = Append(up, "payload") /\ ctl' = "payload" /\ UNCHANGED <<slot, cur>>
      BY <1>3, <2>2, <2>6, <3>1 DEF CtlReply
    <3>3. Only(up, "payload")' /\ \A y : In(up, y)' <=> y = "payload"
      <4>1. up \in Seq(Calls \union {None, "bye", "payload"}) BY DEF TypeOK
      <4>2. "payload" \in Calls \union {None, "bye", "payload"} OBVIOUS
      <4>3. /\ \A y : In(Append(up, "payload"), y) <=> In(up, y) \/ y = "payload"
            /\ Len(up) = 0 => Only(Append(up, "payload"), "payload")
        BY <4>1, <4>2, InAppend
      <4>4. \A y : In(up', y) <=> y = "payload" BY <2>5, <3>2, <4>3
      <4> QED BY <2>4, <3>2, <4>3, <4>4 DEF Only, In
    <3>4. Turns'
      BY <2>1, <2>4, <2>6, <3>1, <3>2, <3>3 DEF Turns, Only
    <3>5. \A c \in Calls : ~In(up, c)' BY <3>3
    <3>6. Unsent' BY <2>1, <3>2, <3>5 DEF Unsent, In
    <3>7. Queued' BY <2>1, <3>2, <3>5 DEF Queued
    <3>8. Open' BY <3>2 DEF Open
    <3>9. Told' BY <2>1, <3>2, <3>5 DEF Told
    <3> QED BY <3>4, <3>6, <3>7, <3>8, <3>9
  <2>7. CASE down[1] # "waiting"
    <3>1. PICK answer \in Answers :
            /\ answer = down[1] /\ Tell(answer)
            /\ ctl' \in {"recv", "end"} /\ cur' = None /\ up' = up
      <4>1. down[1] \in Answers
        <5>1. down \in Seq(Answers \union {"waiting"}) BY DEF TypeOK
        <5>2. 1 \in 1..Len(down) BY <2>4
        <5>3. down[1] \in Answers \union {"waiting"} BY <5>1, <5>2
        <5> QED BY <2>7, <5>3
      <4> QED BY <1>3, <2>2, <2>7, <4>1 DEF CtlReply, CtlEnd, Answers, Errors
    <3>2. \A x : ~In(up, x)' BY <2>5, <3>1 DEF In
    <3>3. Turns'
      BY <2>1, <2>4, <2>7, <3>1 DEF Turns, Still
    <3>4. \A b \in Calls : slot'[b] # slot[b] => b = cur /\ slot'[b] = answer
      BY <3>1 DEF Tell, TypeOK
    <3>5. Unsent' BY <2>1, <3>1, <3>2, <3>4 DEF Unsent, In
    <3>6. Queued' BY <2>1, <3>1, <3>2, <3>4 DEF Queued
    <3>7. Open' BY <3>1 DEF Open
    <3>8. Told'
      <4> SUFFICES ASSUME NEW b \in Calls
                   PROVE  /\ slot'[b] \in Answers => slot'[b] = verdict'[b]
                          /\ result'[b] \in Answers => slot'[b] = result'[b]
        BY <3>2 DEF Told
      <4>1. CASE slot'[b] = slot[b] BY <2>1, <4>1 DEF Told
      <4>2. CASE slot'[b] # slot[b]
        <5>1. b = cur /\ slot'[b] = answer /\ slot[b] = None BY <3>4, <4>2 DEF Open
        <5>2. answer = verdict[b] BY <2>4, <3>1, <5>1
        <5>3. result[b] \notin Answers BY <5>1 DEF Told
        <5> QED BY <2>1, <5>1, <5>2, <5>3
      <4> QED BY <4>1, <4>2
    <3> QED BY <3>3, <3>5, <3>6, <3>7, <3>8
  <2> QED BY <2>6, <2>7
<1>4. CASE CtlFails \/ DropClient
  <2>1. /\ ctl' = "end" /\ cur' = None /\ slot' = DropSender(slot, cur)
        /\ UNCHANGED <<call, kind, result, queue, up, down, srv, verdict>>
    BY <1>4 DEF CtlFails, CtlEnd, DropClient, shutdown, server
  <2>2. \A b \in Calls : slot'[b] # slot[b] =>
          b = cur /\ slot'[b] = "dropped" /\ slot[b] = None
    BY <2>1 DEF DropSender, TypeOK
  <2>3. Turns' BY <2>1 DEF Turns
  <2>4. Unsent' BY <2>1, <2>2 DEF Unsent, In
  <2>5. Queued' BY <2>1, <2>2 DEF Queued, In
  <2>6. Open' BY <2>1 DEF Open
  <2>7. Told' BY <2>1, <2>2 DEF Told, In, Answers, Errors
  <2> QED BY <2>3, <2>4, <2>5, <2>6, <2>7
<1> QED BY <1>1, <1>2, <1>3, <1>4

-----------------------------------------------------------------------------
(* The other tasks' steps do: they only queue commands of their own.       *)
LEMMA OthersKeep ==
    ASSUME TypeOK, Dialogue,
           \/ Lapse \/ PingSend \/ PingEnd \/ DataFails \/ DataBye \/ UNCHANGED vars
    PROVE  Dialogue'
<1> USE NameAssumption DEF Dialogue
<1>1. UNCHANGED <<call, kind, result, slot, ctl, cur, up, down, srv, verdict>>
  BY DEF Lapse, PingSend, PingEnd, DataFails, DataBye, vars, caller, task, server
<1>2. Turns' /\ Open' /\ Told'
  BY <1>1 DEF Turns, Replied, Still, Only, Open, Told, In
<1>3. \A x : In(up, x)' <=> In(up, x) BY <1>1 DEF In
<1>4. CASE queue' = queue
  BY <1>1, <1>2, <1>4 DEF Unsent, Queued, In
<1>5. ASSUME NEW x \in {None, "bye"}, queue' = Append(queue, x)
      PROVE  Dialogue'
  <2>1. x \in Calls \union {None, "bye"} /\ x \notin Calls OBVIOUS
  <2>2. queue \in Seq(Calls \union {None, "bye"}) BY DEF TypeOK
  <2>3. \A y : In(queue', y) <=> In(queue, y) \/ y = x
    BY <1>5, <2>1, <2>2, InAppend
  <2>4. /\ Len(queue') = Len(queue) + 1 /\ queue'[Len(queue) + 1] = x
        /\ \A i \in 1..Len(queue) : queue'[i] = queue[i]
        /\ Len(queue) \in Nat
    BY <1>5, <2>1, <2>2
  <2>5. Unsent' BY <1>1, <1>3, <2>1, <2>3 DEF Unsent
  <2>6. Queued'
    <3>1. \A i \in 1..Len(queue') : i \in 1..Len(queue) \/ i = Len(queue) + 1
      BY <2>4
    <3> QED BY <1>1, <1>3, <2>1, <2>4, <3>1 DEF Queued
  <2> QED BY <1>2, <2>5, <2>6
<1>6. queue' = queue \/ \E x \in {None, "bye"} : queue' = Append(queue, x)
  BY DEF Lapse, PingSend, PingEnd, DataFails, DataBye, vars, task
<1> QED BY <1>4, <1>5, <1>6

(* The server's steps do: its reply is about the command it took, and it   *)
(* is the only one that the control task can be waiting for.               *)
LEMMA ServerKeeps ==
    ASSUME TypeOK, Dialogue, Serve \/ ServePayload \/ Vanish
    PROVE  Dialogue'
<1> USE NameAssumption DEF Dialogue
<1>1. UNCHANGED <<call, kind, result, slot, queue, ctl, cur>>
  BY DEF Serve, ServePayload, Vanish, caller, task
<1>2. \A x : In(up, x)' => In(up, x)
  <2>1. CASE up # <<>> /\ up' = Tail(up)
    <3>1. up \in Seq(Calls \union {None, "bye", "payload"}) BY DEF TypeOK
    <3>2. \A x : In(Tail(up), x) => In(up, x) BY <2>1, <3>1, InTail
    <3> QED BY <2>1, <3>2 DEF In
  <2>2. CASE up' = <<>> BY <2>2 DEF In
  <2> QED BY <2>1, <2>2 DEF Serve, ServePayload, Vanish
<1>3. Unsent' /\ Queued' /\ Open'
  <2>1. Unsent'
    <3>1. \A x : In(queue, x)' <=> In(queue, x) BY <1>1 DEF In
    <3> QED BY <1>1, <1>2, <3>1 DEF Unsent
  <2>2. Queued' BY <1>1, <1>2 DEF Queued
  <2>3. Open' BY <1>1 DEF Open
  <2> QED BY <2>1, <2>2, <2>3
<1>4. ASSUME \A b \in Calls :
               verdict'[b] = verdict[b] \/ In(up, b) \/ verdict[b] = "waiting"
      PROVE  Told'
  <2>1. \A b \in Calls : slot[b] \in Answers => verdict[b] # "waiting"
    BY DEF Told, Answers, Errors
  <2> QED BY <1>1, <1>2, <1>4, <2>1 DEF Told
<1>5. CASE Serve
  <2> DEFINE c == Head(up)
  <2>1. /\ srv = "open" /\ up # <<>> /\ up' = Tail(up)
        /\ \/ /\ c \in Calls /\ kind[c] = "repl"
              /\ down' = Append(down, "waiting") /\ srv' = "payload"
              /\ verdict' = [verdict EXCEPT ![c] = "waiting"]
           \/ \E code \in Answers :
                /\ Final(c, code) /\ down' = Append(down, code)
                /\ srv' \in {"open", "gone"}
    BY <1>5 DEF Serve, Answers
  <2>2. /\ Len(up) # 0 /\ c = up[1] /\ In(up, c) /\ Len(up') = Len(up) - 1
    <3>1. up \in Seq(Calls \union {None, "bye", "payload"}) BY DEF TypeOK
    <3>2. c = up[1] /\ In(up, c) /\ Len(up') = Len(up) - 1 BY <2>1, <3>1, InTail
    <3>3. Len(up) # 0 BY <2>1, <3>1
    <3> QED BY <3>2, <3>3
  <2> HIDE DEF c
  <2>3. \A b \in Calls : b # c => verdict'[b] = verdict[b]
    BY <2>1 DEF Final, TypeOK
  <2>4. Told' BY <1>4, <2>2, <2>3
  <2>5. Turns'
    <3>1. ctl # "recv" BY <2>2 DEF Turns, Still
    <3>2. ctl # "payload" BY <2>1, <2>2 DEF Turns, Still
    <3>3. CASE ctl = "end" BY <1>1, <3>3 DEF Turns
    <3>4. CASE ctl = "reply"
      <4>1. c = cur /\ Len(up) = 1 /\ Len(down) = 0
        BY <2>1, <2>2, <3>4 DEF Turns, Still, Replied, Only
      <4>2. PICK code \in Answers \union {"waiting"} :
              /\ down' = Append(down, code)
              /\ c \in Calls => verdict'[c] = code
              /\ IF code = "waiting"
                 THEN c \in Calls /\ kind[c] = "repl" /\ srv' = "payload"
                 ELSE srv' # "payload"
        <5>1. "waiting" \notin Answers BY DEF Answers, Errors
        <5> QED BY <2>1, <5>1 DEF Final, TypeOK
      <4>3. Len(down') = 1 /\ down'[1] = code
        <5>1. down \in Seq(Answers \union {"waiting"}) BY DEF TypeOK
        <5> QED BY <4>1, <4>2, <5>1
      <4>4. Replied'
        BY <1>1, <2>2, <4>1, <4>2, <4>3 DEF Replied
      <4> QED BY <1>1, <3>4, <4>4 DEF Turns
    <3> QED BY <3>1, <3>2, <3>3, <3>4 DEF TypeOK
  <2> QED BY <1>3, <2>4, <2>5
<1>6. CASE ServePayload
  <2>1. /\ srv = "payload" /\ up # <<>> /\ up' = Tail(up)
        /\ down' = Append(down, "ok") /\ srv' = "open"
        /\ \A b \in Calls :
             verdict'[b] = IF verdict[b] = "waiting" THEN "ok" ELSE verdict[b]
    BY <1>6 DEF ServePayload
  <2>2. Len(up) # 0 /\ Len(up') = Len(up) - 1
    <3>1. up \in Seq(Calls \union {None, "bye", "payload"}) BY DEF TypeOK
    <3> QED BY <2>1, <3>1
  <2>3. Told' BY <1>4, <2>1
  <2>4. Turns'
    <3>1. ctl \notin {"recv", "reply"}
      BY <2>1, <2>2 DEF Turns, Still, Replied
    <3>2. CASE ctl = "end" BY <1>1, <3>2 DEF Turns
    <3>3. CASE ctl = "payload"
      <4>1. cur \in Calls /\ Len(up) = 1 /\ Len(down) = 0 /\ verdict[cur] = "waiting"
        BY <2>1, <2>2, <3>3 DEF Turns, Still, Only
      <4>2. Len(down') = 1 /\ down'[1] = "ok"
        <5>1. down \in Seq(Answers \union {"waiting"}) BY DEF TypeOK
        <5>2. "ok" \in Answers \union {"waiting"} BY DEF Answers
        <5> QED BY <2>1, <4>1, <5>1, <5>2
      <4> QED BY <1>1, <2>1, <2>2, <3>3, <4>1, <4>2 DEF Turns, Only
    <3> QED BY <3>1, <3>2, <3>3 DEF TypeOK
  <2> QED BY <1>3, <2>3, <2>4
<1>7. CASE Vanish
  <2>1. up' = <<>> /\ down' = <<>> /\ srv' = "gone" /\ verdict' = verdict
    BY <1>7 DEF Vanish
  <2>2. Told' BY <1>4, <2>1
  <2>3. Still' BY <2>1 DEF Still
  <2>4. Turns' BY <1>1, <2>1, <2>3 DEF Turns
  <2> QED BY <1>3, <2>2, <2>4
<1> QED BY <1>5, <1>6, <1>7

-----------------------------------------------------------------------------
(* The invariant holds in every reachable state: the control task and the  *)
(* server take turns on one connection, so that a reply, whenever it is    *)
(* read, is about the command at hand.                                     *)
THEOREM Invariance == Spec => []IInv
<1>1. Init => IInv
  <2> SUFFICES ASSUME Init PROVE IInv OBVIOUS
  <2> USE NameAssumption, QueueAssumption DEF Init
  <2>1. TypeOK
    <3>1. Len(queue) <= QueueSize OBVIOUS
    <3>2. fresh \in BOOLEAN /\ connected \in BOOLEAN /\ dropped \in BOOLEAN OBVIOUS
    <3> QED BY <3>1, <3>2 DEF TypeOK
  <2>2. Len(queue) = 0 /\ Len(up) = 0 /\ Len(down) = 0 OBVIOUS
  <2>3. Turns BY <2>2 DEF Turns, Still
  <2>4. Unsent /\ Queued BY <2>2 DEF Unsent, Queued, In
  <2>5. None \notin Calls /\ None \notin Answers OBVIOUS
  <2>6. Open BY <2>5 DEF Open
  <2>7. Told BY <2>5 DEF Told
  <2> QED BY <2>1, <2>3, <2>4, <2>6, <2>7 DEF IInv, Dialogue
<1>2. IInv /\ [Next]_vars => IInv'
  <2> SUFFICES ASSUME TypeOK, Dialogue, [Next]_vars PROVE TypeOK' /\ Dialogue'
    BY DEF IInv
  <2>1. TypeOK' BY TypesKept
  <2>2. Dialogue'
    BY CallerKeeps, ControlKeeps, OthersKeep, ServerKeeps DEF Next
  <2> QED BY <2>1, <2>2
<1> QED BY <1>1, <1>2, PTL DEF Spec

(* Every variable keeps its type.                                          *)
THEOREM TypeCorrectness == Spec => []TypeOK
<1>1. IInv => TypeOK BY DEF IInv
<1> QED BY <1>1, Invariance, PTL

(* A call of the client library that returns a code of the server returns  *)
(* the one that the server gave to its command, for any number of          *)
(* concurrent calls and whatever timeouts, NOPs and losses of the          *)
(* connection come in between.                                             *)
THEOREM AnswersMatch == Spec => []AnswerIsOwn
<1>1. IInv => AnswerIsOwn BY DEF IInv, Dialogue, Told, AnswerIsOwn
<1> QED BY <1>1, Invariance, PTL
=============================================================================
