---------------------------- MODULE BrokerProofs ----------------------------
(***************************************************************************)
(* Broker keeps its types, and no task outlives its client, for every      *)
(* number of sessions, streams and listeners and every queue size.         *)
(***************************************************************************)
EXTENDS Broker, TLAPS

-----------------------------------------------------------------------------
(* The inductive invariant behind NoTaskLeak.                              *)

\* an owner is recorded as soon as a stream is registered
Owned ==
    \A d \in Streams :
        launch[d] \in {"reply", "pinger", "data"} \/ ping[d] = "run"
            \/ data[d] = "run" => owner[d] \in Sessions

\* a stream that was not registered has no tasks
Fresh ==
    \A d \in Streams : launch[d] = "new" => ping[d] # "run" /\ data[d] # "run"

\* a pusher between two publications holds no client object
Quiet == \A p \in Pushers : pc[p] = "idle" => snap[p] = {}

\* task t is spawned and launch_data_stream is about to register it
Unregistered(t) ==
    launch[t[1]] = IF t[2] = "ping" THEN "pinger" ELSE "data"

\* a running task that was not aborted can be found in its client object
Tracked ==
    \A t \in Task : Running(t) /\ t \notin aborted =>
        t \in tasks[owner[t[1]]] \/ Unregistered(t)

\* Drop has emptied the task list of an object nobody holds
Emptied == \A s \in Sessions : ~Held(s) => tasks[s] = {}

IInv == TypeOK /\ Owned /\ Fresh /\ Quiet /\ Tracked /\ Emptied

-----------------------------------------------------------------------------
(* The typing invariant.                                                   *)

(* The end of an object's life keeps tasks, aborts and channels typed.     *)
LEMMA ReleaseTypes ==
    ASSUME NEW tk \in [Sessions -> SUBSET Task], NEW ab \in SUBSET Task,
           NEW ch \in [Sessions -> Streams \union {None}], Release(tk, ab, ch)
    PROVE  /\ tasks' \in [Sessions -> SUBSET Task]
           /\ aborted' \subseteq Task
           /\ dc' \in [Sessions -> Streams \union {None}]
  BY DEF Release

(* A lookup finds sessions, and the streams attached to them.              *)
LEMMA LookupTypes ==
    ASSUME TypeOK, NEW p \in Pushers, NEW topic,
           NEW phase \in PushPhases, Lookup(p, topic, phase)
    PROVE  /\ snap' \in [Pushers -> SUBSET Sessions]
           /\ todo' \in [Pushers -> SUBSET Sessions]
           /\ seen' \in [Pushers -> SUBSET Streams]
           /\ pc' \in [Pushers -> PushPhases]
<1>1. get_subscribers(topic) \subseteq Sessions
  BY DEF get_subscribers, TypeOK
<1>2. {dc[s] : s \in get_subscribers(topic)} \ {None} \subseteq Streams
  BY <1>1 DEF TypeOK
<1> QED
  BY <1>1, <1>2 DEF Lookup, TypeOK

(* A new message is a Message.                                             *)
LEMMA MessageTypes ==
    ASSUME TypeOK, NEW p \in Pushers, NewMessage(p)
    PROVE  /\ npub' \in 0..MaxPub
           /\ msg' \in [Pushers -> Message \union {Nop}]
<1>1. npub' \in 1..MaxPub /\ npub + 1 \in 1..MaxPub
  BY BoundAssumption DEF NewMessage, TypeOK
<1>2. [src |-> p, n |-> npub + 1] \in Message
  BY <1>1 DEF Message
<1> QED
  BY <1>1, <1>2 DEF NewMessage, TypeOK

(* The steps of a control connection's handler keep TypeOK.                *)
LEMMA SessionTypes ==
    ASSUME TypeOK, NEW s \in Sessions, SessionStep(s)
    PROVE  TypeOK'
<1>p. s \in Pushers BY DEF Pushers
<1>1. CASE Login(s)
  BY <1>1 DEF Login, TypeOK, SessPhases, stream, pusher
<1>2. CASE TokenSent(s)
  BY <1>2 DEF TokenSent, TypeOK, SessPhases, stream, pusher
<1>3. CASE TokenLost(s)
  BY <1>3, ReleaseTypes DEF TokenLost, TypeOK, SessPhases, stream, pusher
<1>4. CASE Subscribe(s)
  BY <1>4 DEF Subscribe, TypeOK, stream, pusher
<1>5. CASE Unsubscribe(s)
  BY <1>5 DEF Unsubscribe, TypeOK, stream, pusher
<1>6. CASE Publish(s)
  <2>1. PICK topic : Lookup(s, topic, "next") BY <1>6 DEF Publish
  <2> QED
    BY <1>6, <1>p, <2>1, LookupTypes, MessageTypes
    DEF Publish, TypeOK, PushPhases, client, stream
<1>7. CASE ReplOffer(s)
  <2>1. PICK topic : Lookup(s, topic, "wait") BY <1>7 DEF ReplOffer
  <2> QED
    BY <1>7, <1>p, <2>1, LookupTypes
    DEF ReplOffer, TypeOK, PushPhases, client, stream
<1>8. CASE ReplData(s)
  BY <1>8, <1>p, MessageTypes DEF ReplData, TypeOK, PushPhases, client, stream
<1>9. CASE ReplLost(s)
  BY <1>9, <1>p, ReleaseTypes DEF ReplLost, TypeOK, PushPhases, SessPhases, stream
<1>10. CASE Close(s)
  BY <1>10 DEF Close, TypeOK, SessPhases, stream, pusher
<1>11. CASE UnregisterClient(s)
  BY <1>11 DEF UnregisterClient, TypeOK, SessPhases, stream, pusher
<1>12. CASE AbortOnExit(s)
  <2>1. /\ [tasks EXCEPT ![s] = {}] \in [Sessions -> SUBSET Task]
        /\ aborted \union tasks[s] \in SUBSET Task
    BY DEF TypeOK
  <2> QED
    BY <1>12, <2>1, ReleaseTypes DEF AbortOnExit, TypeOK, SessPhases, stream, pusher
<1> QED
  BY <1>1, <1>2, <1>3, <1>4, <1>5, <1>6, <1>7, <1>8, <1>9, <1>10, <1>11, <1>12
  DEF SessionStep

(* The steps of push_to_subscribers, and a UDP publication, keep TypeOK.   *)
LEMMA PushTypes ==
    ASSUME TypeOK, NEW p \in Pushers, PushStep(p) \/ UdpPublish(p)
    PROVE  TypeOK'
<1>1. CASE PushPick(p)
  <2>1. PICK s \in Sessions :
          \/ NextSubscriber(p, s)
          \/ /\ dc[s] # None
             /\ chan' = [chan EXCEPT ![p] = dc[s]]
             /\ pc' = [pc EXCEPT ![p] = "check"]
             /\ UNCHANGED todo
    BY <1>1 DEF PushPick
  <2>2. /\ chan' \in [Pushers -> Streams \union {None}]
        /\ pc' \in [Pushers -> PushPhases]
        /\ todo' \in [Pushers -> SUBSET Sessions]
    <3>1. CASE NextSubscriber(p, s)
      BY <3>1 DEF NextSubscriber, TypeOK, PushPhases
    <3>2. CASE ~NextSubscriber(p, s)
      <4>1. dc[s] \in Streams \union {None} BY DEF TypeOK
      <4> QED BY <2>1, <3>2, <4>1 DEF TypeOK, PushPhases
    <3> QED BY <3>1, <3>2
  <2> QED
    BY <1>1, <2>2 DEF PushPick, TypeOK, client, stream
<1>2. CASE PushCheck(p)
  BY <1>2 DEF PushCheck, TypeOK, PushPhases, client, stream
<1>3. CASE PushSend(p)
  <2>1. queue' \in [Streams -> Seq(Message \union {Nop})]
    <3>1. msg[p] \in Message \union {Nop} BY DEF TypeOK
    <3>2. CASE UNCHANGED queue BY <3>2 DEF TypeOK
    <3>3. CASE queue' = [queue EXCEPT ![chan[p]] = Append(@, msg[p])]
      <4>1. \A q \in Seq(Message \union {Nop}) :
              Append(q, msg[p]) \in Seq(Message \union {Nop})
        BY <3>1
      <4> QED BY <3>3, <4>1 DEF TypeOK
    <3> QED BY <1>3, <3>2, <3>3 DEF PushSend
  <2> QED
    BY <1>3, <2>1
    DEF PushSend, Current, NextSubscriber, TypeOK, PushPhases, client
<1>4. CASE PushTake(p)
  BY <1>4 DEF PushTake, unregister_data_channel, TypeOK, PushPhases, stream
<1>5. CASE PushAbort(p)
  BY <1>5
  DEF PushAbort, abort_tasks, NextSubscriber, TypeOK, PushPhases, stream
<1>6. CASE PushDone(p)
  BY <1>6, ReleaseTypes DEF PushDone, TypeOK, PushPhases, stream
<1>7. CASE UdpPublish(p)
  <2>1. PICK topic : Lookup(p, topic, "next") BY <1>7 DEF UdpPublish
  <2> QED
    BY <1>7, <2>1, LookupTypes, MessageTypes
    DEF UdpPublish, TypeOK, PushPhases, client, stream
<1> QED
  BY <1>1, <1>2, <1>3, <1>4, <1>5, <1>6, <1>7 DEF PushStep

(* The steps of a data stream keep TypeOK.                                 *)
LEMMA StreamTypes ==
    ASSUME TypeOK, Owned, NEW d \in Streams, StreamStep(d)
    PROVE  TypeOK'
<1>1. ASSUME NEW s \in Sessions, Attach(d, s) PROVE TypeOK'
  BY <1>1 DEF Attach, TypeOK, LaunchPhases, pusher
<1>2. ASSUME NEW s \in Sessions, AttachRefused(d, s) PROVE TypeOK'
  BY <1>2 DEF AttachRefused, TypeOK, LaunchPhases, client, pusher
<1>3. CASE LaunchReplied(d)
  BY <1>3 DEF LaunchReplied, TypeOK, LaunchPhases, TaskPhases, client, pusher
<1>4. CASE LaunchFailed(d)
  BY <1>4, ReleaseTypes DEF LaunchFailed, TypeOK, LaunchPhases, pusher
<1>5. CASE LaunchPinger(d)
  BY <1>5 DEF LaunchPinger, TypeOK, Owned, Task, LaunchPhases, TaskPhases, pusher
<1>6. CASE LaunchData(d)
  <2>1. [tasks EXCEPT ![owner[d]] = @ \union {<<d, "data">>}]
           \in [Sessions -> SUBSET Task]
    <3>1. owner[d] \in Sessions BY <1>6 DEF Owned, LaunchData
    <3>2. <<d, "data">> \in Task BY DEF Task
    <3> QED BY <3>1, <3>2 DEF TypeOK
  <2> QED
    BY <1>6, <2>1, ReleaseTypes DEF LaunchData, TypeOK, LaunchPhases, pusher
<1>7. CASE PingSend(d)
  <2>1. queue' \in [Streams -> Seq(Message \union {Nop})]
    BY <1>7 DEF PingSend, TypeOK
  <2> QED
    BY <1>7, <2>1, BoundAssumption DEF PingSend, TypeOK, client, pusher
<1>8. CASE PingEnd(d)
  BY <1>8 DEF PingEnd, TypeOK, TaskPhases, client, pusher
<1>9. CASE DataRecv(d)
  <2>1. queue[d] \in Seq(Message \union {Nop}) /\ queue[d] # <<>>
    BY <1>9 DEF DataRecv, TypeOK
  <2>2. Head(queue[d]) \in Message \union {Nop}
        /\ Tail(queue[d]) \in Seq(Message \union {Nop})
    BY <2>1
  <2> QED
    BY <1>9, <2>2 DEF DataRecv, TypeOK, client, pusher
<1>10. CASE DataWrite(d)
  <2>1. hand[d] # Nop => hand[d] \in Message
    BY <1>10 DEF DataWrite, TypeOK
  <2>2. wire' \in [Streams -> Seq(Message)]
    BY <1>10, <2>1 DEF DataWrite, TypeOK
  <2> QED
    BY <1>10, <2>2 DEF DataWrite, TypeOK, client, pusher
<1>11. CASE DataFail(d)
  BY <1>11 DEF DataFail, TypeOK, TaskPhases, client, pusher
<1>12. CASE DataUnregister(d)
  BY <1>12
  DEF DataUnregister, unregister_data_channel, TypeOK, TaskPhases, pusher
<1>13. CASE DataEnd(d)
  BY <1>13 DEF DataEnd, TypeOK, TaskPhases, client, pusher
<1> QED
  BY <1>1, <1>2, <1>3, <1>4, <1>5, <1>6, <1>7, <1>8, <1>9, <1>10, <1>11,
     <1>12, <1>13 DEF StreamStep

-----------------------------------------------------------------------------
(* NoTaskLeak.                                                             *)

(* Steps that leave the streams alone keep the invariants about them.      *)
LEMMA StreamsAlone ==
    ASSUME Owned, Fresh, UNCHANGED stream
    PROVE  Owned' /\ Fresh'
  BY DEF Owned, Fresh, stream

(* A step that lets go of client objects keeps Emptied, and Tracked when   *)
(* the body of the action left only tracked tasks.                         *)
LEMMA ReleaseTracks ==
    ASSUME NEW tk \in [Sessions -> SUBSET Task], NEW ab \in SUBSET Task, NEW ch,
           Release(tk, ab, ch), Owned',
           \A t \in Task : Running(t)' /\ t \notin ab =>
                t \in tk[owner'[t[1]]] \/ Unregistered(t)'
    PROVE  Tracked' /\ Emptied'
<1>1. Emptied' BY DEF Emptied, Release
<1>2. ASSUME NEW t \in Task, Running(t)', t \notin aborted', ~Unregistered(t)'
      PROVE  t \in tasks'[owner'[t[1]]]
  <2>1. t \notin ab /\ t \in tk[owner'[t[1]]] BY <1>2 DEF Release
  <2>2. t[1] \in Streams BY <1>2 DEF Task
  <2>3. owner'[t[1]] \in Sessions BY <1>2, <2>2 DEF Owned, Running
  <2> QED BY <1>2, <2>1, <2>3 DEF Release
<1> QED BY <1>1, <1>2 DEF Tracked

(* A step that adds no task, shrinks no list without aborting, and lets go *)
(* of no object keeps Tracked and Emptied.                                 *)
LEMMA HoldingTracks ==
    ASSUME TypeOK, Tracked, Emptied,
           UNCHANGED <<tasks, aborted, owner, launch, ping, data>>,
           \A s \in Sessions : Held(s) => Held(s)'
    PROVE  Tracked' /\ Emptied'
<1>1. Tracked' BY DEF Tracked, Running, Unregistered
<1>2. Emptied' BY DEF Emptied
<1> QED BY <1>1, <1>2

(* The steps of a control connection's handler keep the invariant.         *)
LEMMA SessionInv ==
    ASSUME IInv, NEW s \in Sessions, SessionStep(s)
    PROVE  IInv'
<1> USE DEF IInv
<1>t. TypeOK' BY SessionTypes
<1>p. s \in Pushers BY DEF Pushers
<1>a. UNCHANGED stream
  BY DEF SessionStep, Login, TokenSent, TokenLost, Subscribe, Unsubscribe,
         Publish, ReplOffer, ReplData, ReplLost, Close, UnregisterClient,
         AbortOnExit
<1>o. Owned' /\ Fresh' BY <1>a, StreamsAlone
<1>h. UNCHANGED <<owner, launch, ping, data>> BY <1>a DEF stream
<1>q. Quiet'
  BY <1>p, ZenonT(60) DEF SessionStep, Login, TokenSent, TokenLost, Subscribe,
     Unsubscribe, Publish, ReplOffer, ReplData, ReplLost, Close,
     UnregisterClient, AbortOnExit, Quiet, Lookup, TypeOK, pusher
<1>1. ASSUME UNCHANGED <<tasks, aborted>>,
             \/ Login(s) \/ TokenSent(s) \/ Subscribe(s) \/ Unsubscribe(s)
             \/ Close(s) \/ UnregisterClient(s) \/ ReplData(s)
      PROVE  Tracked' /\ Emptied'
  <2>1. UNCHANGED snap
    BY <1>1 DEF Login, TokenSent, Subscribe, Unsubscribe, Close,
                UnregisterClient, ReplData, pusher
  <2>2. \A r \in Sessions : r \in db \/ HandlerHolds(r)
                              => r \in db' \/ HandlerHolds(r)'
    BY <1>1 DEF Login, TokenSent, Subscribe, Unsubscribe, Close,
                UnregisterClient, ReplData, HandlerHolds, TypeOK, client
  <2>3. \A r \in Sessions : Held(r) => Held(r)'
    BY <1>h, <2>1, <2>2 DEF Held, LauncherHolds
  <2> QED BY <1>1, <1>h, <2>3, HoldingTracks
<1>2. ASSUME Publish(s) \/ ReplOffer(s) PROVE Tracked' /\ Emptied'
  <2>1. UNCHANGED client /\ snap[s] = {} /\ \A p \in Pushers \ {s} : snap'[p] = snap[p]
    BY <1>2, <1>p DEF Publish, ReplOffer, Waiting, Quiet, Lookup, TypeOK
  <2>2. \A r \in Sessions : Held(r) => Held(r)'
    BY <1>h, <2>1 DEF Held, LauncherHolds, HandlerHolds, client
  <2> QED BY <1>h, <2>1, <2>2, HoldingTracks DEF client
<1>3. ASSUME TokenLost(s) \/ ReplLost(s) PROVE Tracked' /\ Emptied'
  <2>1. Release(tasks, aborted, dc) BY <1>3 DEF TokenLost, ReplLost
  <2>2. \A t \in Task : Running(t)' /\ t \notin aborted =>
            t \in tasks[owner'[t[1]]] \/ Unregistered(t)'
    BY <1>h DEF Tracked, Running, Unregistered
  <2>3. tasks \in [Sessions -> SUBSET Task] /\ aborted \in SUBSET Task
    BY DEF TypeOK
  <2> QED BY <1>o, <2>1, <2>2, <2>3, ReleaseTracks
<1>4. ASSUME AbortOnExit(s) PROVE Tracked' /\ Emptied'
  <2> DEFINE tk == [tasks EXCEPT ![s] = {}]
             ab == aborted \union tasks[s]
  <2>1. Release(tk, ab, dc) BY <1>4 DEF AbortOnExit
  <2>2. tk \in [Sessions -> SUBSET Task] /\ ab \in SUBSET Task
    BY DEF TypeOK
  <2>3. ASSUME NEW t \in Task, Running(t)', t \notin ab, ~Unregistered(t)'
        PROVE  t \in tk[owner'[t[1]]]
    <3>1. t[1] \in Streams BY DEF Task
    <3>2. t \in tasks[owner[t[1]]] /\ owner[t[1]] \in Sessions
      BY <1>h, <2>3, <3>1 DEF Tracked, Running, Unregistered, Owned
    <3> QED BY <1>h, <2>3, <3>2 DEF TypeOK
  <2> HIDE DEF tk, ab
  <2> QED BY <1>o, <2>1, <2>2, <2>3, ReleaseTracks
<1>5. Tracked' /\ Emptied'
  <2>1. Login(s) \/ TokenSent(s) \/ Subscribe(s) \/ Unsubscribe(s) \/ Close(s)
          \/ UnregisterClient(s) \/ ReplData(s) => UNCHANGED <<tasks, aborted>>
    BY DEF Login, TokenSent, Subscribe, Unsubscribe, Close, UnregisterClient,
           ReplData, client
  <2> QED BY <1>1, <1>2, <1>3, <1>4, <2>1 DEF SessionStep
<1> QED BY <1>t, <1>o, <1>q, <1>5

(* The steps of push_to_subscribers and a UDP publication keep it.         *)
LEMMA PushInv ==
    ASSUME IInv, NEW p \in Pushers, PushStep(p) \/ UdpPublish(p)
    PROVE  IInv'
<1> USE DEF IInv
<1>t. TypeOK' BY PushTypes
<1>h. UNCHANGED <<owner, launch, ping, data, sess, db>>
  BY DEF PushStep, PushPick, PushCheck, PushSend, PushTake, PushAbort,
         PushDone, UdpPublish, stream, client
<1>o. Owned' /\ Fresh' BY <1>h DEF Owned, Fresh
<1>1. CASE PushPick(p) \/ PushCheck(p) \/ PushSend(p) \/ PushTake(p)
  <2>1. UNCHANGED <<tasks, aborted, snap>>
    BY <1>1 DEF PushPick, PushCheck, PushSend, PushTake, client
  <2>2. \A s \in Sessions : Held(s) => Held(s)'
    BY <1>h, <2>1 DEF Held, HandlerHolds, LauncherHolds
  <2>3. Tracked' /\ Emptied' BY <1>h, <2>1, <2>2, HoldingTracks
  <2>4. Quiet'
    BY <1>1 DEF PushPick, PushCheck, PushSend, PushTake, NextSubscriber,
                Quiet, TypeOK
  <2> QED BY <1>t, <1>o, <2>3, <2>4
<1>2. CASE PushAbort(p)
  <2>1. PICK s \in Sessions : abort_tasks(s) /\ NextSubscriber(p, s)
    BY <1>2 DEF PushAbort
  <2>2. \A r \in Sessions : Held(r) => Held(r)'
    BY <1>2, <1>h DEF PushAbort, Held, HandlerHolds, LauncherHolds
  <2>3. Emptied'
    BY <2>1, <2>2 DEF abort_tasks, Emptied, TypeOK
  <2>4. ASSUME NEW t \in Task, Running(t)', t \notin aborted', ~Unregistered(t)'
        PROVE  t \in tasks'[owner'[t[1]]]
    <3>1. t[1] \in Streams BY DEF Task
    <3>2. t \notin aborted /\ t \notin tasks[s] BY <2>1, <2>4 DEF abort_tasks
    <3>3. t \in tasks[owner[t[1]]] /\ owner[t[1]] \in Sessions
      BY <1>h, <2>4, <3>1, <3>2 DEF Tracked, Running, Unregistered, Owned
    <3> QED BY <1>h, <2>1, <3>2, <3>3 DEF abort_tasks, TypeOK
  <2>5. Tracked' BY <2>4 DEF Tracked
  <2>6. Quiet' BY <1>2 DEF PushAbort, NextSubscriber, Quiet, TypeOK
  <2> QED BY <1>t, <1>o, <2>3, <2>5, <2>6
<1>3. CASE PushDone(p)
  <2>1. Release(tasks, aborted, dc) BY <1>3 DEF PushDone
  <2>2. \A t \in Task : Running(t)' /\ t \notin aborted =>
            t \in tasks[owner'[t[1]]] \/ Unregistered(t)'
    BY <1>h DEF Tracked, Running, Unregistered
  <2>3. tasks \in [Sessions -> SUBSET Task] /\ aborted \in SUBSET Task
    BY DEF TypeOK
  <2>4. Tracked' /\ Emptied' BY <1>o, <2>1, <2>2, <2>3, ReleaseTracks
  <2>5. Quiet' BY <1>3 DEF PushDone, Quiet, TypeOK
  <2> QED BY <1>t, <1>o, <2>4, <2>5
<1>4. CASE UdpPublish(p)
  <2>1. /\ UNCHANGED client
        /\ snap[p] = {} /\ \A q \in Pushers \ {p} : snap'[q] = snap[q]
    BY <1>4 DEF UdpPublish, Quiet, Lookup, TypeOK
  <2>2. \A r \in Sessions : Held(r) => Held(r)'
    BY <1>h, <2>1 DEF Held, LauncherHolds, HandlerHolds, client
  <2>3. Tracked' /\ Emptied' BY <1>h, <2>1, <2>2, HoldingTracks DEF client
  <2>4. Quiet' BY <1>4 DEF UdpPublish, Lookup, Quiet, TypeOK
  <2> QED BY <1>t, <1>o, <2>3, <2>4
<1> QED BY <1>1, <1>2, <1>3, <1>4 DEF PushStep

(* The steps of a data stream keep it.                                     *)
LEMMA StreamInv ==
    ASSUME IInv, NEW d \in Streams, StreamStep(d)
    PROVE  IInv'
<1> USE DEF IInv
<1>t. TypeOK' BY StreamTypes
<1>q. UNCHANGED pusher
  BY DEF StreamStep, Attach, AttachRefused, LaunchReplied, LaunchFailed,
         LaunchPinger, LaunchData, PingSend, PingEnd, DataRecv, DataWrite,
         DataFail, DataUnregister, DataEnd
<1>c. UNCHANGED <<sess, db>>
  BY DEF StreamStep, Attach, AttachRefused, LaunchReplied, LaunchFailed,
         LaunchPinger, LaunchData, PingSend, PingEnd, DataRecv, DataWrite,
         DataFail, DataUnregister, DataEnd, client
<1>Q. Quiet' BY <1>q DEF Quiet, pusher
<1>k. ASSUME NEW t \in Task PROVE t[1] \in Streams BY DEF Task
<1>1. ASSUME NEW s \in Sessions, Attach(d, s) PROVE IInv'
  <2>1. /\ launch[d] = "new" /\ ping[d] # "run" /\ data[d] # "run"
        /\ UNCHANGED <<tasks, aborted, ping, data>>
        /\ \A e \in Streams \ {d} : owner'[e] = owner[e] /\ launch'[e] = launch[e]
    BY <1>1 DEF Attach, Fresh, TypeOK
  <2>2. Owned' /\ Fresh' BY <1>1 DEF Attach, Owned, Fresh, TypeOK
  <2>3. \A r \in Sessions : Held(r) => Held(r)'
    BY <1>c, <1>q, <2>1 DEF Held, HandlerHolds, LauncherHolds, pusher
  <2>4. Emptied' BY <2>1, <2>3 DEF Emptied
  <2>5. Tracked'
    BY <1>k, <2>1 DEF Tracked, Running, Unregistered
  <2> QED BY <1>t, <1>Q, <2>2, <2>4, <2>5
<1>2. CASE \/ LaunchReplied(d)
           \/ \E s \in Sessions : AttachRefused(d, s)
  <2>1. /\ UNCHANGED <<client, owner, data>>
        /\ \A e \in Streams \ {d} : launch'[e] = launch[e] /\ ping'[e] = ping[e]
    BY <1>2 DEF LaunchReplied, AttachRefused, TypeOK
  <2>2. \/ launch[d] = "reply" /\ launch'[d] = "pinger" /\ ping'[d] = "run"
        \/ launch[d] = "new" /\ launch'[d] = "done" /\ ping'[d] = ping[d]
    BY <1>2 DEF LaunchReplied, AttachRefused, TypeOK
  <2>3. Owned' /\ Fresh' BY <2>1, <2>2 DEF Owned, Fresh
  <2>4. \A r \in Sessions : Held(r) => Held(r)'
    BY <1>q, <2>1, <2>2 DEF Held, HandlerHolds, LauncherHolds, pusher, client
  <2>5. Emptied' BY <2>1, <2>4 DEF Emptied, client
  <2>6. ASSUME NEW t \in Task, Running(t)', t \notin aborted', ~Unregistered(t)'
        PROVE  t \in tasks'[owner'[t[1]]]
    <3>1. Running(t) /\ ~Unregistered(t)
      BY <1>k, <2>1, <2>2, <2>6 DEF Running, Unregistered, Fresh
    <3> QED BY <2>1, <2>6, <3>1 DEF Tracked, client
  <2>7. Tracked' BY <2>6 DEF Tracked
  <2> QED BY <1>t, <1>Q, <2>3, <2>5, <2>7
<1>3. CASE LaunchFailed(d)
  <2>1. Owned' /\ Fresh' BY <1>3 DEF LaunchFailed, Owned, Fresh, TypeOK
  <2>2. ASSUME NEW t \in Task, Running(t)', t \notin aborted, ~Unregistered(t)'
        PROVE  t \in tasks[owner'[t[1]]]
    BY <1>k, <1>3, <2>2
    DEF LaunchFailed, Tracked, Running, Unregistered, TypeOK
  <2>3. tasks \in [Sessions -> SUBSET Task] /\ aborted \in SUBSET Task
    BY DEF TypeOK
  <2>4. Tracked' /\ Emptied'
    BY <1>3, <2>1, <2>2, <2>3, ReleaseTracks DEF LaunchFailed
  <2> QED BY <1>t, <1>Q, <2>1, <2>4
<1>4. CASE LaunchPinger(d)
  <2>1. owner[d] \in Sessions BY <1>4 DEF LaunchPinger, Owned
  <2>2. Owned' /\ Fresh' BY <1>4, <2>1 DEF LaunchPinger, Owned, Fresh, TypeOK
  <2>3. \A r \in Sessions : Held(r) => Held(r)'
    BY <1>4, <1>c, <1>q
    DEF LaunchPinger, Held, HandlerHolds, LauncherHolds, pusher, TypeOK
  <2>4. Held(owner[d])'
    BY <1>4 DEF LaunchPinger, Held, LauncherHolds, TypeOK
  <2>5. Emptied' BY <1>4, <2>3, <2>4 DEF LaunchPinger, Emptied, TypeOK
  <2>6. ASSUME NEW t \in Task, Running(t)', t \notin aborted', ~Unregistered(t)'
        PROVE  t \in tasks'[owner'[t[1]]]
    <3>1. \A e \in Streams : tasks[owner[e]] \subseteq tasks'[owner[e]]
                              \/ owner[e] \notin Sessions
      BY <1>4 DEF LaunchPinger, TypeOK
    <3>2. owner[t[1]] \in Sessions
      BY <1>k, <1>4, <2>6, <2>2 DEF LaunchPinger, Owned, Running
    <3>3. CASE t = <<d, "ping">>
      BY <1>4, <2>1, <3>3 DEF LaunchPinger, TypeOK
    <3>4. CASE t # <<d, "ping">>
      <4>1. Running(t) /\ ~Unregistered(t)
        BY <1>k, <1>4, <2>6, <3>4
        DEF LaunchPinger, Running, Unregistered, TypeOK, Task
      <4> QED
        BY <1>k, <1>4, <2>6, <3>1, <3>2, <4>1 DEF LaunchPinger, Tracked
    <3> QED BY <3>3, <3>4
  <2>7. Tracked' BY <2>6 DEF Tracked
  <2> QED BY <1>t, <1>Q, <2>2, <2>5, <2>7
<1>5. CASE LaunchData(d)
  <2> DEFINE tk == [tasks EXCEPT ![owner[d]] = @ \union {<<d, "data">>}]
  <2>1. owner[d] \in Sessions BY <1>5 DEF LaunchData, Owned
  <2>2. Owned' /\ Fresh' BY <1>5 DEF LaunchData, Owned, Fresh, TypeOK
  <2>3. tk \in [Sessions -> SUBSET Task] /\ aborted \in SUBSET Task
    BY <2>1 DEF TypeOK, Task
  <2>4. ASSUME NEW t \in Task, Running(t)', t \notin aborted, ~Unregistered(t)'
        PROVE  t \in tk[owner'[t[1]]]
    <3>1. Running(t) /\ UNCHANGED owner
      BY <1>5, <2>4 DEF LaunchData, Running
    <3>2. owner[t[1]] \in Sessions
      BY <1>k, <2>4, <3>1 DEF Owned, Running
    <3>3. CASE t = <<d, "data">>
      BY <2>1, <3>1, <3>3 DEF TypeOK
    <3>4. CASE t # <<d, "data">>
      <4>1. ~Unregistered(t)
        BY <1>k, <1>5, <2>4, <3>4 DEF LaunchData, Unregistered, TypeOK, Task
      <4>2. t \in tasks[owner[t[1]]]
        BY <2>4, <3>1, <4>1 DEF Tracked
      <4> QED BY <2>1, <3>1, <3>2, <4>2 DEF TypeOK
    <3> QED BY <3>3, <3>4
  <2>5. Release(tk, aborted, dc) BY <1>5 DEF LaunchData
  <2> HIDE DEF tk
  <2>6. Tracked' /\ Emptied' BY <2>2, <2>3, <2>4, <2>5, ReleaseTracks
  <2> QED BY <1>t, <1>Q, <2>2, <2>6
<1>6. CASE PingSend(d) \/ DataRecv(d) \/ DataWrite(d)
  <2>1. UNCHANGED <<tasks, aborted, owner, launch, ping, data>>
    BY <1>6 DEF PingSend, DataRecv, DataWrite, client
  <2>2. \A r \in Sessions : Held(r) => Held(r)'
    BY <1>c, <1>q, <2>1 DEF Held, HandlerHolds, LauncherHolds, pusher
  <2>3. Tracked' /\ Emptied' BY <2>1, <2>2, HoldingTracks
  <2>4. Owned' /\ Fresh' BY <2>1 DEF Owned, Fresh
  <2> QED BY <1>t, <1>Q, <2>3, <2>4
<1>7. CASE PingEnd(d) \/ DataFail(d) \/ DataUnregister(d) \/ DataEnd(d)
  <2>1. UNCHANGED <<tasks, aborted, owner, launch>>
    BY <1>7 DEF PingEnd, DataFail, DataUnregister, DataEnd, client
  <2>2. \A e \in Streams : /\ ping'[e] = "run" => ping[e] = "run"
                           /\ data'[e] = "run" => data[e] = "run"
    BY <1>7 DEF PingEnd, DataFail, DataUnregister, DataEnd, TypeOK
  <2>3. \A r \in Sessions : Held(r) => Held(r)'
    BY <1>c, <1>q, <2>1 DEF Held, HandlerHolds, LauncherHolds, pusher
  <2>4. Owned' /\ Fresh' BY <2>1, <2>2 DEF Owned, Fresh
  <2>5. Emptied' BY <2>1, <2>3 DEF Emptied
  <2>6. Tracked'
    BY <1>k, <2>1, <2>2 DEF Tracked, Running, Unregistered
  <2> QED BY <1>t, <1>Q, <2>4, <2>5, <2>6
<1> QED
  BY <1>1, <1>2, <1>3, <1>4, <1>5, <1>6, <1>7 DEF StreamStep

-----------------------------------------------------------------------------
(* The inductive invariant holds throughout.                               *)
THEOREM Invariance == Spec => []IInv
<1>1. Init => IInv
  BY BoundAssumption
  DEF Init, IInv, TypeOK, Owned, Fresh, Quiet, Tracked, Emptied, Running,
      SessPhases, LaunchPhases, TaskPhases, PushPhases, Task
<1>2. IInv /\ [Next]_vars => IInv'
  <2> SUFFICES ASSUME IInv, [Next]_vars PROVE IInv' OBVIOUS
  <2>1. ASSUME NEW s \in Sessions, SessionStep(s) PROVE IInv'
    BY <2>1, SessionInv
  <2>2. ASSUME NEW u \in Listeners, UdpPublish(u) PROVE IInv'
    <3>1. u \in Pushers BY DEF Pushers
    <3> QED BY <2>2, <3>1, PushInv
  <2>3. ASSUME NEW p \in Pushers, PushStep(p) PROVE IInv'
    BY <2>3, PushInv
  <2>4. ASSUME NEW d \in Streams, StreamStep(d) PROVE IInv'
    BY <2>4, StreamInv
  <2>5. CASE UNCHANGED vars
    BY <2>5 DEF vars, client, stream, pusher, IInv, TypeOK, Owned, Fresh,
       Quiet, Tracked, Emptied, Running, Unregistered, Held, HandlerHolds,
       LauncherHolds
  <2> QED BY <2>1, <2>2, <2>3, <2>4, <2>5 DEF Next
<1> QED BY <1>1, <1>2, PTL DEF Spec

(* Every variable of the server model keeps its type.                      *)
THEOREM TypeCorrectness == Spec => []TypeOK
<1>1. IInv => TypeOK BY DEF IInv
<1> QED BY <1>1, Invariance, PTL

(* No pinger or data task outlives its client object unaborted: whatever   *)
(* the moment at which the session ends, publishers drop the channel or    *)
(* launch_data_stream gets on (server.rs 630-695, pubsub.rs 84-103).       *)
THEOREM TasksAreReaped == Spec => []NoTaskLeak
<1>1. IInv => NoTaskLeak
  <2> SUFFICES ASSUME IInv, NEW t \in Task, Running(t), t \notin aborted
               PROVE  Held(owner[t[1]])
    BY DEF NoTaskLeak
  <2>1. t[1] \in Streams BY DEF Task
  <2>2. owner[t[1]] \in Sessions BY <2>1 DEF IInv, Owned, Running
  <2>3. CASE t \in tasks[owner[t[1]]] BY <2>2, <2>3 DEF IInv, Emptied
  <2>4. CASE Unregistered(t)
    BY <2>1, <2>4 DEF Unregistered, Held, LauncherHolds
  <2> QED BY <2>3, <2>4 DEF IInv, Tracked
<1> QED BY <1>1, Invariance, PTL
=============================================================================
