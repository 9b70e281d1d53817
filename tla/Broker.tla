------------------------------- MODULE Broker -------------------------------
(***************************************************************************)
(* The psrtd server: client sessions, data streams, and the push of every  *)
(* published message to its subscribers (server.rs, pubsub.rs).            *)
(*                                                                         *)
(* A session is one control connection with its ServerClientData object;   *)
(* a stream is one data connection with its bounded channel and its two    *)
(* tasks, the pinger and the data task.  A pusher is whatever executes     *)
(* push_to_subscribers: the handler of a session or the UDP listener.      *)
(* Handlers, tasks and listeners run on a multi-threaded runtime: a step   *)
(* here ends where another of them can observe a shared lock or channel,   *)
(* or where the code awaits.                                               *)
(***************************************************************************)
EXTENDS TopicOps

CONSTANTS
    Sessions,       \* control connections, each used for one login
    Streams,        \* data connections, each used for one attempt
    Listeners,      \* UDP listeners: serial publishers without a session
    Acl,            \* the ACL each session or listener publishes under
    Digest,         \* token digest: the order of BTreeSet<ServerClient>
    PubTopics,      \* topics publishers send
    SubRequests,    \* topic lists of OP_SUBSCRIBE and OP_UNSUBSCRIBE
    QueueSize,      \* DATA_QUEUE_SIZE
    MaxPub,         \* bound: messages published in a behaviour
    MaxBeat,        \* bound: beacons queued in a behaviour
    None            \* absent session, stream or publisher

Pushers == Sessions \union Listeners

ASSUME QueueAssumption == QueueSize \in Nat \ {0}   \* bounded(0) panics
ASSUME BoundAssumption == MaxPub \in Nat /\ MaxBeat \in Nat
ASSUME DigestAssumption ==
    /\ Digest \in [Sessions -> Nat]
    /\ \A r, s \in Sessions : Digest[r] = Digest[s] => r = s

VARIABLES
    \* --- the client database and the client objects
    sess,       \* progress of each control connection's handler
    db,         \* sessions in clients_by_token and in the submap
    subs,       \* subscriptions of each session in the submap
    dc,         \* data_channel of each client object: a stream, or None
    tasks,      \* tasks registered in each client object
    aborted,    \* tasks whose JoinHandle was aborted
    \* --- data streams
    owner,      \* session whose token the stream presented
    launch,     \* progress of launch_data_stream
    ping, data, \* progress of the pinger and of the data task
    queue,      \* the stream's channel
    hand,       \* message received by the data task and not yet written
    wire,       \* messages written to the stream
    nbeat,      \* beacons queued so far
    \* --- publishers
    pc,         \* where each pusher is in push_to_subscribers
    snap,       \* the subscribers it looked up (it holds these objects)
    todo,       \* the ones its loop has not passed yet
    chan,       \* its clone of the current subscriber's Sender
    msg,        \* the message it pushes
    npub,       \* messages published so far
    seen        \* history: channels of the subscribers at lookup time

client == <<sess, db, subs, dc, tasks, aborted>>
stream == <<owner, launch, ping, data, queue, hand, wire, nbeat>>
pusher == <<pc, snap, todo, chan, msg, npub, seen>>
vars   == <<client, stream, pusher>>

-----------------------------------------------------------------------------
Message == [src : Pushers, n : 1..MaxPub]
Nop     == [src |-> None, n |-> 0]          \* the pinger's empty message
Task    == Streams \X {"ping", "data"}

ASSUME NoneAssumption ==
    None \notin Pushers \union Streams \union Message \union {Nop}

SessPhases   == {"new", "token", "open", "closing", "abort", "done", "lost"}
LaunchPhases == {"new", "reply", "pinger", "data", "done"}
TaskPhases   == {"none", "run", "failing", "end"}
PushPhases   == {"idle", "wait", "next", "check", "send", "take", "abort"}

\* the handler task owns a reference to the client object
HandlerHolds(s) == sess[s] \in {"token", "open", "closing", "abort"}

\* launch_data_stream owns one from register_data_channel to its return
LauncherHolds(s) ==
    \E d \in Streams : owner[d] = s /\ launch[d] \in {"reply", "pinger", "data"}

\* the Arc<ServerClientData> of s is alive
Held(s) ==
    \/ s \in db
    \/ HandlerHolds(s)
    \/ LauncherHolds(s)
    \/ \E p \in Pushers : s \in snap[p]

\* the Receiver of d's channel is alive: sends are accepted
RxOpen(d) == launch[d] \in {"reply", "pinger"} \/ data[d] = "run"

\* some Sender of d's channel is alive
TxOpen(d) ==
    \/ \E s \in Sessions : dc[s] = d
    \/ launch[d] = "reply"
    \/ ping[d] = "run"
    \/ \E p \in Pushers : chan[p] = d

(* The tail of an action that lets go of client objects: the last owner    *)
(* runs Drop for ServerClientData, which aborts the registered tasks, and  *)
(* drops the Sender in data_channel.  tk, ab and ch are the tasks, aborts  *)
(* and channels the body of the action leaves.                             *)
Release(tk, ab, ch) ==
    LET freed == {s \in Sessions : ~Held(s)'} IN
    /\ tasks' = [s \in Sessions |-> IF s \in freed THEN {} ELSE tk[s]]
    /\ aborted' = ab \union UNION {tk[s] : s \in freed}
    /\ dc' = [s \in Sessions |-> IF s \in freed THEN None ELSE ch[s]]

abort_tasks(s) ==
    /\ aborted' = aborted \union tasks[s]
    /\ tasks' = [tasks EXCEPT ![s] = {}]

\* by token: whatever channel the client has at that moment
unregister_data_channel(s) ==
    dc' = IF s \in db THEN [dc EXCEPT ![s] = None] ELSE dc

get_subscribers(topic) ==
    {s \in db : \E t \in subs[s] : Covers(t, topic)}

-----------------------------------------------------------------------------
(* Control connections: handle_tcp_stream, handle_unix_stream.             *)

Login(s) ==
    /\ sess[s] = "new"
    /\ sess' = [sess EXCEPT ![s] = "token"]
    /\ db' = db \union {s}
    /\ UNCHANGED <<subs, dc, tasks, aborted, stream, pusher>>

TokenSent(s) ==
    /\ sess[s] = "token"
    /\ sess' = [sess EXCEPT ![s] = "open"]
    /\ UNCHANGED <<db, subs, dc, tasks, aborted, stream, pusher>>

\* the `?` after writing the token returns past unregister_client
TokenLost(s) ==
    /\ sess[s] = "token"
    /\ sess' = [sess EXCEPT ![s] = "lost"]
    /\ UNCHANGED <<db, subs, stream, pusher>>
    /\ Release(tasks, aborted, dc)

\* process_control is back in its loop, waiting for a command
Waiting(s) == sess[s] = "open" /\ pc[s] = "idle"

\* parse_topics skips empty ones
parse_topics(req) == SelectSeq(req, LAMBDA t : t # EmptyTopic)

\* the loop over the topics of a request stops at the first it refuses
Accepted(ts, refused) ==
    {prepare_topic(ts[i]) : i \in {i \in 1..Len(ts) : \A j \in refused : i < j}}

Subscribe(s) ==
    /\ Waiting(s)
    /\ \E req \in SubRequests :
         LET ts == parse_topics(req)
             refused == {i \in 1..Len(ts) :
                           ~allow_read(Acl[s], ts[i]) \/ TooDeep(ts[i])}
         IN  subs' = [subs EXCEPT ![s] = @ \union Accepted(ts, refused)]
    /\ UNCHANGED <<sess, db, dc, tasks, aborted, stream, pusher>>

Unsubscribe(s) ==
    /\ Waiting(s)
    /\ \E req \in SubRequests :
         LET ts == parse_topics(req)
             refused == {i \in 1..Len(ts) : TooDeep(ts[i])}
         IN  subs' = [subs EXCEPT ![s] = @ \ Accepted(ts, refused)]
    /\ UNCHANGED <<sess, db, dc, tasks, aborted, stream, pusher>>

\* OP_BYE, end of stream, timeout, invalid operation or data block, and a
\* reply that cannot be written all leave process_control
Close(s) ==
    /\ Waiting(s)
    /\ sess' = [sess EXCEPT ![s] = "closing"]
    /\ UNCHANGED <<db, subs, dc, tasks, aborted, stream, pusher>>

\* fault: the client stays in clients_by_token
UnregisterSubscriptions(s) ==
    /\ sess[s] = "closing"
    /\ sess' = [sess EXCEPT ![s] = "abort"]
    /\ subs' = [subs EXCEPT ![s] = {}]
    /\ UNCHANGED <<db, dc, tasks, aborted, stream, pusher>>

UnregisterClient(s) ==
    /\ sess[s] = "closing"
    /\ sess' = [sess EXCEPT ![s] = "abort"]
    /\ db' = db \ {s}
    /\ subs' = [subs EXCEPT ![s] = {}]
    /\ UNCHANGED <<dc, tasks, aborted, stream, pusher>>

AbortOnExit(s) ==
    /\ sess[s] = "abort"
    /\ sess' = [sess EXCEPT ![s] = "done"]
    /\ UNCHANGED <<db, subs, stream, pusher>>
    /\ Release([tasks EXCEPT ![s] = {}], aborted \union tasks[s], dc)

-----------------------------------------------------------------------------
(* Publishing.  Replies other than OK (topic too deep, access denied, not  *)
(* required) change nothing and are left out.                              *)

Publishable(acl, raw) ==
    /\ raw # EmptyTopic
    /\ ~TooDeep(raw)
    /\ ~HasInvalidSymbols(prepare_topic(raw))
    /\ allow_write(acl, prepare_topic(raw))

Lookup(p, topic, phase) ==
    /\ snap' = [snap EXCEPT ![p] = get_subscribers(topic)]
    /\ todo' = [todo EXCEPT ![p] = get_subscribers(topic)]
    /\ seen' = [seen EXCEPT ![p] = {dc[s] : s \in get_subscribers(topic)} \ {None}]
    /\ pc' = [pc EXCEPT ![p] = phase]

NewMessage(p) ==
    /\ npub < MaxPub
    /\ npub' = npub + 1
    /\ msg' = [msg EXCEPT ![p] = [src |-> p, n |-> npub + 1]]

Publish(s) ==
    /\ Waiting(s)
    /\ \E raw \in PubTopics : /\ Publishable(Acl[s], raw)
                              /\ Lookup(s, prepare_topic(raw), "next")
    /\ NewMessage(s)
    /\ UNCHANGED <<client, stream, chan>>

\* process_udp_block; the listener takes the next packet when it is done
UdpPublish(u) ==
    /\ pc[u] = "idle"
    /\ \E raw \in PubTopics : /\ Publishable(Acl[u], raw)
                              /\ Lookup(u, prepare_topic(raw), "next")
    /\ NewMessage(u)
    /\ UNCHANGED <<client, stream, chan>>

\* OP_PUBLISH_REPL: subscribers are looked up, then the handler asks the
\* other node for the message and waits for it
ReplOffer(s) ==
    /\ Waiting(s)
    /\ Acl[s].replicator
    /\ \E topic \in PubTopics : /\ get_subscribers(topic) # {}
                                /\ Lookup(s, topic, "wait")
    /\ UNCHANGED <<client, stream, chan, msg, npub>>

ReplData(s) ==
    /\ pc[s] = "wait"
    /\ pc' = [pc EXCEPT ![s] = "next"]
    /\ NewMessage(s)
    /\ UNCHANGED <<client, stream, snap, todo, chan, seen>>

ReplLost(s) ==
    /\ pc[s] = "wait"
    /\ sess' = [sess EXCEPT ![s] = "closing"]
    /\ pc' = [pc EXCEPT ![s] = "idle"]
    /\ snap' = [snap EXCEPT ![s] = {}]
    /\ todo' = [todo EXCEPT ![s] = {}]
    /\ seen' = [seen EXCEPT ![s] = {}]
    /\ UNCHANGED <<db, subs, stream, chan, msg, npub>>
    /\ Release(tasks, aborted, dc)

-----------------------------------------------------------------------------
(* push_to_subscribers                                                     *)

\* s is the subscriber the loop of p is at
Current(p, s) == s \in todo[p] /\ \A r \in todo[p] : Digest[s] <= Digest[r]

\* fault: the loop does not advance
SameSubscriber(p, s) ==
    /\ pc' = [pc EXCEPT ![p] = "next"]
    /\ chan' = [chan EXCEPT ![p] = None]
    /\ UNCHANGED todo

\* the iteration for s ends; the Sender clone is dropped
NextSubscriber(p, s) ==
    /\ pc' = [pc EXCEPT ![p] = "next"]
    /\ todo' = [todo EXCEPT ![p] = @ \ {s}]
    /\ chan' = [chan EXCEPT ![p] = None]

\* fault: a subscriber without a data channel ends the loop
PushPickReturns(p) ==
    /\ pc[p] = "next"
    /\ \E s \in Sessions :
         /\ Current(p, s)
         /\ \/ /\ dc[s] = None
               /\ todo' = [todo EXCEPT ![p] = {}]
               /\ UNCHANGED <<chan, pc>>
            \/ /\ dc[s] # None
               /\ chan' = [chan EXCEPT ![p] = dc[s]]
               /\ pc' = [pc EXCEPT ![p] = "check"]
               /\ UNCHANGED todo
    /\ UNCHANGED <<client, stream, snap, msg, npub, seen>>

PushPick(p) ==
    /\ pc[p] = "next"
    /\ \E s \in Sessions :
         /\ Current(p, s)
         /\ \/ dc[s] = None /\ NextSubscriber(p, s)
            \/ /\ dc[s] # None
               /\ chan' = [chan EXCEPT ![p] = dc[s]]
               /\ pc' = [pc EXCEPT ![p] = "check"]
               /\ UNCHANGED todo
    /\ UNCHANGED <<client, stream, snap, msg, npub, seen>>

Full(d) == Len(queue[d]) >= QueueSize

PushCheck(p) ==
    /\ pc[p] = "check"
    /\ pc' = [pc EXCEPT ![p] = IF Full(chan[p]) THEN "take" ELSE "send"]
    /\ UNCHANGED <<client, stream, snap, todo, chan, msg, npub, seen>>

\* fault: try_send, a full channel swallows the message
PushTrySend(p) ==
    /\ pc[p] = "send"
    /\ IF RxOpen(chan[p]) /\ ~Full(chan[p])
       THEN queue' = [queue EXCEPT ![chan[p]] = Append(@, msg[p])]
       ELSE UNCHANGED queue
    /\ \E s \in Sessions : Current(p, s) /\ NextSubscriber(p, s)
    /\ UNCHANGED <<client, owner, launch, ping, data, hand, wire, nbeat,
                   snap, msg, npub, seen>>

\* fault: the message is sent again when the channel was replaced meanwhile
PushSendAgain(p) ==
    /\ pc[p] = "send"
    /\ RxOpen(chan[p]) => ~Full(chan[p])
    /\ queue' = IF RxOpen(chan[p])
                THEN [queue EXCEPT ![chan[p]] = Append(@, msg[p])] ELSE queue
    /\ \E s \in Sessions :
         /\ Current(p, s)
         /\ IF dc[s] = chan[p] THEN NextSubscriber(p, s) ELSE SameSubscriber(p, s)
    /\ UNCHANGED <<client, owner, launch, ping, data, hand, wire, nbeat,
                   snap, msg, npub, seen>>

\* fault: a closed channel is not noticed
PushSendWaits(p) ==
    /\ pc[p] = "send"
    /\ RxOpen(chan[p]) /\ ~Full(chan[p])
    /\ queue' = [queue EXCEPT ![chan[p]] = Append(@, msg[p])]
    /\ \E s \in Sessions : Current(p, s) /\ NextSubscriber(p, s)
    /\ UNCHANGED <<client, owner, launch, ping, data, hand, wire, nbeat,
                   snap, msg, npub, seen>>

\* waits while the channel is open and full
PushSend(p) ==
    /\ pc[p] = "send"
    /\ \/ /\ RxOpen(chan[p]) /\ ~Full(chan[p])
          /\ queue' = [queue EXCEPT ![chan[p]] = Append(@, msg[p])]
       \/ ~RxOpen(chan[p]) /\ UNCHANGED queue       \* error, logged
    /\ \E s \in Sessions : Current(p, s) /\ NextSubscriber(p, s)
    /\ UNCHANGED <<client, owner, launch, ping, data, hand, wire, nbeat,
                   snap, msg, npub, seen>>

PushTake(p) ==
    /\ pc[p] = "take"
    /\ \E s \in Sessions : Current(p, s) /\ unregister_data_channel(s)
    /\ pc' = [pc EXCEPT ![p] = "abort"]
    /\ UNCHANGED <<sess, db, subs, tasks, aborted, stream,
                   snap, todo, chan, msg, npub, seen>>

PushAbort(p) ==
    /\ pc[p] = "abort"
    /\ \E s \in Sessions :
         Current(p, s) /\ abort_tasks(s) /\ NextSubscriber(p, s)
    /\ UNCHANGED <<sess, db, subs, dc, stream, snap, msg, npub, seen>>

\* the caller replies OK and drops the set of subscribers
PushDone(p) ==
    /\ pc[p] = "next" /\ todo[p] = {}
    /\ pc' = [pc EXCEPT ![p] = "idle"]
    /\ snap' = [snap EXCEPT ![p] = {}]
    /\ seen' = [seen EXCEPT ![p] = {}]
    /\ msg' = [msg EXCEPT ![p] = Nop]
    /\ UNCHANGED <<sess, db, subs, stream, todo, chan, npub>>
    /\ Release(tasks, aborted, dc)

-----------------------------------------------------------------------------
(* launch_data_stream                                                      *)

\* the peer knows the token once it was written to the control connection
TokenKnown(s) == sess[s] \in {"open", "closing", "abort", "done"}

Attach(d, s) ==
    /\ launch[d] = "new"
    /\ TokenKnown(s)
    /\ s \in db /\ dc[s] = None
    /\ dc' = [dc EXCEPT ![s] = d]
    /\ owner' = [owner EXCEPT ![d] = s]
    /\ launch' = [launch EXCEPT ![d] = "reply"]
    /\ UNCHANGED <<sess, db, subs, tasks, aborted,
                   ping, data, queue, hand, wire, nbeat, pusher>>

AttachRefused(d, s) ==
    /\ launch[d] = "new"
    /\ TokenKnown(s)
    /\ s \notin db \/ dc[s] # None
    /\ launch' = [launch EXCEPT ![d] = "done"]
    /\ UNCHANGED <<client, owner, ping, data, queue, hand, wire, nbeat, pusher>>

\* respond_ok is written and the pinger spawned
LaunchReplied(d) ==
    /\ launch[d] = "reply"
    /\ launch' = [launch EXCEPT ![d] = "pinger"]
    /\ ping' = [ping EXCEPT ![d] = "run"]
    /\ UNCHANGED <<client, owner, data, queue, hand, wire, nbeat, pusher>>

\* respond_ok fails: the channel stays registered, its Receiver is dropped
LaunchFailed(d) ==
    /\ launch[d] = "reply"
    /\ launch' = [launch EXCEPT ![d] = "done"]
    /\ UNCHANGED <<sess, db, subs, owner, ping, data, queue, hand, wire, nbeat, pusher>>
    /\ Release(tasks, aborted, dc)

\* the pinger is registered, then the data task spawned
LaunchPinger(d) ==
    /\ launch[d] = "pinger"
    /\ launch' = [launch EXCEPT ![d] = "data"]
    /\ tasks' = [tasks EXCEPT ![owner[d]] = @ \union {<<d, "ping">>}]
    /\ data' = [data EXCEPT ![d] = "run"]
    /\ UNCHANGED <<sess, db, subs, dc, aborted,
                   owner, ping, queue, hand, wire, nbeat, pusher>>

\* fault: the data task is not registered
LaunchDataUntracked(d) ==
    /\ launch[d] = "data"
    /\ launch' = [launch EXCEPT ![d] = "done"]
    /\ UNCHANGED <<sess, db, subs, owner, ping, data, queue, hand, wire, nbeat, pusher>>
    /\ Release(tasks, aborted, dc)

\* the data task is registered and the client object let go
LaunchData(d) ==
    /\ launch[d] = "data"
    /\ launch' = [launch EXCEPT ![d] = "done"]
    /\ UNCHANGED <<sess, db, subs, owner, ping, data, queue, hand, wire, nbeat, pusher>>
    /\ Release([tasks EXCEPT ![owner[d]] = @ \union {<<d, "data">>}], aborted, dc)

-----------------------------------------------------------------------------
(* The pinger and the data task.  An aborted task stops at its next await  *)
(* that is pending; until then it may go on.                               *)

PingSend(d) ==
    /\ ping[d] = "run"
    /\ RxOpen(d) /\ ~Full(d)
    /\ nbeat < MaxBeat
    /\ nbeat' = nbeat + 1
    /\ queue' = [queue EXCEPT ![d] = Append(@, Nop)]
    /\ UNCHANGED <<client, owner, launch, ping, data, hand, wire, pusher>>

PingEnd(d) ==
    /\ ping[d] = "run"
    /\ ~RxOpen(d) \/ <<d, "ping">> \in aborted
    /\ ping' = [ping EXCEPT ![d] = "end"]
    /\ UNCHANGED <<client, owner, launch, data, queue, hand, wire, nbeat, pusher>>

DataRecv(d) ==
    /\ data[d] = "run" /\ hand[d] = None /\ queue[d] # <<>>
    /\ hand' = [hand EXCEPT ![d] = Head(queue[d])]
    /\ queue' = [queue EXCEPT ![d] = Tail(@)]
    /\ UNCHANGED <<client, owner, launch, ping, data, wire, nbeat, pusher>>

\* fault: beacons are delivered like messages
DataWriteAll(d) ==
    /\ data[d] = "run" /\ hand[d] # None
    /\ wire' = [wire EXCEPT ![d] = Append(@, hand[d])]
    /\ hand' = [hand EXCEPT ![d] = None]
    /\ UNCHANGED <<client, owner, launch, ping, data, queue, nbeat, pusher>>

\* a frame is written; a NOP is, or is skipped when the stream was not idle
DataWrite(d) ==
    /\ data[d] = "run" /\ hand[d] # None
    /\ wire' = [wire EXCEPT ![d] = IF hand[d] = Nop THEN @ ELSE Append(@, hand[d])]
    /\ hand' = [hand EXCEPT ![d] = None]
    /\ UNCHANGED <<client, owner, launch, ping, data, queue, nbeat, pusher>>

\* fault: a failed write is logged, and the task goes on with the next frame
DataFailGoesOn(d) ==
    /\ data[d] = "run" /\ hand[d] # None
    /\ hand' = [hand EXCEPT ![d] = None]
    /\ UNCHANGED <<client, owner, launch, ping, data, queue, wire, nbeat, pusher>>

\* the write fails: end of file ends the task quietly, any other error or a
\* timeout lets it unregister the channel; rx is dropped in both cases
DataFail(d) ==
    /\ data[d] = "run" /\ hand[d] # None
    /\ \E phase \in {"end", "failing"} : data' = [data EXCEPT ![d] = phase]
    /\ hand' = [hand EXCEPT ![d] = None]
    /\ UNCHANGED <<client, owner, launch, ping, queue, wire, nbeat, pusher>>

DataUnregister(d) ==
    /\ data[d] = "failing"
    /\ data' = [data EXCEPT ![d] = "end"]
    /\ unregister_data_channel(owner[d])
    /\ UNCHANGED <<sess, db, subs, tasks, aborted,
                   owner, launch, ping, queue, hand, wire, nbeat, pusher>>

\* every Sender is gone and the channel empty, or the task was aborted
DataEnd(d) ==
    /\ data[d] = "run"
    /\ \/ hand[d] = None /\ queue[d] = <<>> /\ ~TxOpen(d)
       \/ <<d, "data">> \in aborted
    /\ data' = [data EXCEPT ![d] = "end"]
    /\ hand' = [hand EXCEPT ![d] = None]
    /\ UNCHANGED <<client, owner, launch, ping, queue, wire, nbeat, pusher>>

-----------------------------------------------------------------------------
Init ==
    /\ sess = [s \in Sessions |-> "new"]
    /\ db = {}
    /\ subs = [s \in Sessions |-> {}]
    /\ dc = [s \in Sessions |-> None]
    /\ tasks = [s \in Sessions |-> {}]
    /\ aborted = {}
    /\ owner = [d \in Streams |-> None]
    /\ launch = [d \in Streams |-> "new"]
    /\ ping = [d \in Streams |-> "none"]
    /\ data = [d \in Streams |-> "none"]
    /\ queue = [d \in Streams |-> <<>>]
    /\ hand = [d \in Streams |-> None]
    /\ wire = [d \in Streams |-> <<>>]
    /\ nbeat = 0
    /\ pc = [p \in Pushers |-> "idle"]
    /\ snap = [p \in Pushers |-> {}]
    /\ todo = [p \in Pushers |-> {}]
    /\ chan = [p \in Pushers |-> None]
    /\ msg = [p \in Pushers |-> Nop]
    /\ npub = 0
    /\ seen = [p \in Pushers |-> {}]

SessionStep(s) ==
    \/ Login(s) \/ TokenSent(s) \/ TokenLost(s)
    \/ Subscribe(s) \/ Unsubscribe(s)
    \/ Publish(s) \/ ReplOffer(s) \/ ReplData(s) \/ ReplLost(s)
    \/ Close(s) \/ UnregisterClient(s) \/ AbortOnExit(s)

PushStep(p) ==
    \/ PushPick(p) \/ PushCheck(p) \/ PushSend(p)
    \/ PushTake(p) \/ PushAbort(p) \/ PushDone(p)

StreamStep(d) ==
    \/ \E s \in Sessions : Attach(d, s) \/ AttachRefused(d, s)
    \/ LaunchReplied(d) \/ LaunchFailed(d) \/ LaunchPinger(d) \/ LaunchData(d)
    \/ PingSend(d) \/ PingEnd(d)
    \/ DataRecv(d) \/ DataWrite(d) \/ DataFail(d) \/ DataUnregister(d) \/ DataEnd(d)

Next ==
    \/ \E s \in Sessions : SessionStep(s)
    \/ \E u \in Listeners : UdpPublish(u)
    \/ \E p \in Pushers : PushStep(p)
    \/ \E d \in Streams : StreamStep(d)

Spec == Init /\ [][Next]_vars

-----------------------------------------------------------------------------
(* Fairness.  Handlers, tasks and listeners are polled by the runtime until *)
(* they wait; every network read and write they wait for is bounded by the *)
(* stream's timeout, so it succeeds or fails in the end.  A sender blocked *)
(* on a full channel is woken in turn when slots are freed, hence the      *)
(* strong fairness of PushSend.  Peers owe nothing: they need not log in,  *)
(* publish, attach or close.                                               *)
SessionFairness(s) ==
    /\ WF_vars(TokenSent(s) \/ TokenLost(s))
    /\ WF_vars(ReplData(s) \/ ReplLost(s))
    /\ WF_vars(UnregisterClient(s)) /\ WF_vars(AbortOnExit(s))

PushFairness(p) ==
    /\ WF_vars(PushPick(p) \/ PushCheck(p) \/ PushTake(p) \/ PushAbort(p)
               \/ PushDone(p))
    /\ SF_vars(PushSend(p))

StreamFairness(d) ==
    /\ WF_vars(LaunchReplied(d) \/ LaunchFailed(d))
    /\ WF_vars(LaunchPinger(d) \/ LaunchData(d))
    /\ WF_vars(DataRecv(d) \/ DataWrite(d) \/ DataFail(d) \/ DataUnregister(d))
    /\ WF_vars(DataEnd(d)) /\ WF_vars(PingEnd(d))

FairSpec ==
    /\ Spec
    /\ \A s \in Sessions : SessionFairness(s)
    /\ \A p \in Pushers : PushFairness(p)
    /\ \A d \in Streams : StreamFairness(d)

-----------------------------------------------------------------------------
(* Types of all variables.                                                 *)
TypeOK ==
    /\ sess \in [Sessions -> SessPhases]
    /\ db \subseteq Sessions
    /\ DOMAIN subs = Sessions
    /\ dc \in [Sessions -> Streams \union {None}]
    /\ tasks \in [Sessions -> SUBSET Task]
    /\ aborted \subseteq Task
    /\ owner \in [Streams -> Sessions \union {None}]
    /\ launch \in [Streams -> LaunchPhases]
    /\ ping \in [Streams -> TaskPhases]
    /\ data \in [Streams -> TaskPhases]
    /\ queue \in [Streams -> Seq(Message \union {Nop})]
    /\ hand \in [Streams -> Message \union {Nop, None}]
    /\ wire \in [Streams -> Seq(Message)]
    /\ pc \in [Pushers -> PushPhases]
    /\ snap \in [Pushers -> SUBSET Sessions]
    /\ todo \in [Pushers -> SUBSET Sessions]
    /\ chan \in [Pushers -> Streams \union {None}]
    /\ msg \in [Pushers -> Message \union {Nop}]
    /\ npub \in 0..MaxPub /\ nbeat \in 0..MaxBeat
    /\ seen \in [Pushers -> SUBSET Streams]

Running(t) == IF t[2] = "ping" THEN ping[t[1]] = "run" ELSE data[t[1]] = "run"

(* No task outlives its client: a pinger or data task that still runs and  *)
(* was not aborted belongs to a client object somebody holds, so that the  *)
(* exit of its handler or Drop for ServerClientData will abort it.  The    *)
(* window is launch_data_stream: the session may end between               *)
(* register_data_channel and register_task.                                *)
NoTaskLeak ==
    \A t \in Task : Running(t) /\ t \notin aborted => Held(owner[t[1]])

\* the messages of a queue, without the beacons
Published(q) ==
    LET Kept[i \in 0..Len(q)] ==
          IF i = 0 THEN <<>>
          ELSE IF q[i] = Nop THEN Kept[i - 1] ELSE Append(Kept[i - 1], q[i])
    IN  Kept[Len(q)]

InHand(m) == IF m \in {None, Nop} THEN <<>> ELSE <<m>>

\* published messages on their way through stream d, oldest first
Line(d) == wire[d] \o InHand(hand[d]) \o Published(queue[d])

Has(seq, m) == \E i \in 1..Len(seq) : seq[i] = m

(* What an OK reply to a publisher means: a subscriber whose data channel  *)
(* was attached at lookup, still is when the publisher's loop has passed   *)
(* it, and still has its receiver, has the message queued or written.      *)
(* Neither a full queue nor a racing publisher, detach or re-attach loses  *)
(* it silently (server.rs push_to_subscribers).                            *)
PassedMeansQueued ==
    \A p \in Pushers : pc[p] \in {"next", "check", "send", "take", "abort"} =>
        \A d \in seen[p] :
            LET s == owner[d] IN
            s \notin todo[p] /\ s \in db /\ dc[s] = d /\ RxOpen(d)
                => Has(Line(d), msg[p])

(* A publisher's messages reach a stream in the order they were published, *)
(* none of them twice.                                                     *)
PublisherOrder ==
    \A d \in Streams :
        LET l == Line(d) IN
        \A i, j \in 1..Len(l) : i < j /\ l[i].src = l[j].src => l[i].n < l[j].n

(* A client that replaces its data stream does not get a message on both:  *)
(* no message is on two streams of the same session.                       *)
OneStreamPerMessage ==
    \A d, e \in Streams : d # e /\ owner[d] = owner[e] =>
        LET l == Line(d)
            k == Line(e)
        IN  \A i \in 1..Len(l) : ~Has(k, l[i])

(* The abstract view of the data streams: a stream is open while its       *)
(* Receiver lives; what is in the queue or in hand of a closed one is      *)
(* never written.                                                          *)
AbstractLine == [d \in Streams |-> IF RxOpen(d) THEN Line(d) ELSE wire[d]]

Abstract == INSTANCE Delivery WITH
    Clients  <- Sessions,
    Messages <- Message,
    open     <- {d \in Streams : RxOpen(d)},
    line     <- AbstractLine

(* The server delivers what Delivery promises: publishers that race on a   *)
(* bounded queue, beacons between the messages, streams that are dropped,  *)
(* fail or are replaced half-way neither reorder nor double a message, nor *)
(* lose one from the middle of a stream (push_to_subscribers,              *)
(* handle_data_stream).                                                    *)
DeliversInOrder == Abstract!Spec

(* A publisher is never stuck behind a slow or dead subscriber: whoever    *)
(* enters push_to_subscribers (or waits for replicated data) returns.      *)
PublishersReturn == \A p \in Pushers : pc[p] # "idle" ~> pc[p] = "idle"

(* Once the handler of a session has returned, all tasks of all its data   *)
(* streams end, however far launch_data_stream had come.                   *)
EndedSessionsReaped ==
    \A d \in Streams : \A s \in Sessions :
        owner[d] = s /\ sess[s] = "done"
            ~> launch[d] = "done" /\ ping[d] # "run" /\ data[d] # "run"

-----------------------------------------------------------------------------
(* What the source says of itself and the code does not do: each of these  *)
(* has a run that shows how it fails.                                      *)

(* The statistics page shows the number of clients in the database as      *)
(* "connected" (stats.html): a client in the database has a handler.  A    *)
(* token that cannot be written (server.rs:553, 619) leaves one behind.    *)
RegisteredIsConnected == \A s \in db : HandlerHolds(s)

(* push_to_subscribers logs "queue is full, dropping data channel": the    *)
(* channel it unregisters is the one it found full.  It unregisters by     *)
(* token (server.rs:215), so it may be one attached in the meantime.       *)
DropsTheFullChannel ==
    [][\A p \in Pushers : pc[p] = "take" /\ pc'[p] = "abort" =>
          \A s \in Sessions : dc'[s] # dc[s] => dc[s] = chan[p]]_vars

\* the data task of d runs, and d is not the channel of its live client
Detached(d) ==
    data[d] = "run" /\ owner[d] \in db /\ dc[owner[d]] # d

(* The same message says the stream is given up: a data task whose channel *)
(* was dropped ends.  A drop that falls between register_data_channel and  *)
(* register_task aborts nothing, and the stream then lives on with beacons *)
(* and without messages.                                                   *)
DroppedStreamsEnd == \A d \in Streams : Detached(d) ~> ~Detached(d)
=============================================================================
