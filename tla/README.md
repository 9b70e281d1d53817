# A TLA+ model of psrt

psrt is a pub/sub server and client library: clients log in over a control
connection (TCP, TLS or a unix socket), attach a data connection with the token
they were given, subscribe to topic masks and publish; the server pushes every
message to the data streams of the clients subscribed to its topic. Messages can
also be published by UDP, and by another node of a cluster.

This directory holds TLA+ modules for the parts of it that have state or
interleavings worth checking, TLC configurations, and TLAPS proofs.

    tlc -workers 2 -config MCBroker_deliver.cfg MCBroker
    tlapm BrokerProofs.tla

Source references are relative to the repository: `server.rs` is `src/server.rs`.

## 1. Inventory

| part | state | operations | interacts with |
|---|---|---|---|
| client database (`pubsub.rs`) | token -> client, subscriptions; per client: data channel, task handles | register/unregister client and data channel, subscribe, unsubscribe, look up, register/abort tasks, `Drop` | everything in the server, under one `RwLock` and two mutexes per client |
| control session (`process_control`, `handle_*_stream`) | login, ACL, where it is in an operation | NOP, SUBSCRIBE, UNSUBSCRIBE, PUBLISH, PUBLISH_REPL, BYE; exit | database, push |
| data stream (`launch_data_stream`, `handle_data_stream`) | bounded channel, pinger task, data task | attach, beacon, write, fail, unregister | database, push |
| push (`push_to_subscribers`) | snapshot of subscribers, position, clone of a sender | check full, send, drop a full channel | run by every session and by the UDP listener |
| UDP listener and `UdpClient` | one socket on each side | publish, publish_confirmed, acknowledge | push |
| topics and masks (`prepare_topic`, `acl.rs`) | none | normalise, parse, print, match | sessions, UDP |
| client control connection (`client.rs`) | command queue, one oneshot per call, control task, pinger, data task, `connected` | subscribe ... bye, `Drop` | the server |
| client data task | data stream, message channel | read, deliver, give up | control queue |
| beacons | last command, interval, timeouts | sleep, queue a NOP, skip it, time out | both connections |
| greeting and login (`init_*_stream`, `Client::connect`) | stream type, TLS choice | exchange headers, authenticate | authentication databases |
| authentication databases (`acl::Db`, `keys.rs`, `passwords.rs`) | three tables loaded from files, each under a lock | load, reload on SIGHUP, look up | login, UDP, statistics page |
| frames and packets (`as_bytes`, `read_frame`, `from_buf`, `publish_impl`) | none | write, read | both ends of every connection |
| statistics (`server.rs`, `stats.html`) | counters | count, render | all |
| configuration, start, signals | listeners, unix sockets, pid file, signal handlers | start, reload, terminate, crash, restart | databases, file system |
| `cli.rs`, `eva_svc.rs` | | user interface; service wrapper | client library; server |

What is hard here. Everything runs on a multi-threaded runtime, so handlers,
pingers, data tasks and publishers interleave at every lock and await.
`push_to_subscribers` works on a snapshot of subscribers that log out and replace
their streams meanwhile, and its full check, send, unregister and abort are
separate steps. A stream is launched in steps that race with the end of its
session. Every bounded queue makes somebody wait. Tasks are only stopped by abort,
so someone must hold their handles. Client calls time out while their command is
under way. UDP acknowledgments can be lost, late, repeated, or for another call, and
packets longer than the listener's buffer are cut without a word. Liveness of
idle connections depends on the arithmetic of two timeouts, one of which also
covers the frame that ends the idle time. Three tables are reloaded one after the
other while requests look them up, and signals may come at any step of the start.
The two ends of a stream stay in step only if both count every byte alike.

The list `hazards` in `PROJECT.json` puts each of these at its line with the
properties that cover it.

## 2. Modules

| module | models | checked by | proofs |
|---|---|---|---|
| `TopicOps` | `prepare_topic`, `PathMask`, ACL decisions | `MCOperators` | `OperatorProofs` |
| `Wire` | commands, messages and packets as bytes; latency | `MCOperators` | `OperatorProofs` |
| `Delivery` | what the data streams promise (abstract) | as a property of `Broker` | `DeliveryProofs` |
| `Broker` (extends `TopicOps`, instantiates `Delivery`) | database, sessions, data streams, push | `MCBroker` | `BrokerProofs`, `DeliveryProofs` |
| `UdpConfirm` | `UdpClient` against the UDP listener | `MCUdpConfirm` | `UdpConfirmProofs` |
| `Handshake` | `Client::connect` against the greeting, login and attachment handlers | itself | `HandshakeProofs` |
| `Beacon` | beacons, frames and read timeouts, either direction | `MCBeacon` | `BeaconProofs` |
| `Client` | the client's control connection and its tasks | itself | `ClientProofs` |
| `AuthDb` | ACL, passwords and keys: load, reload, look up | through `Daemon` | `DaemonProofs` |
| `Daemon` (extends `AuthDb`) | start, signals, termination, crash and restart of the process | itself | `DaemonProofs` |

Operators whose comment begins with "fault:" are broken variants of the
definition that follows them. Nothing in a specification uses them; they serve to
check that the properties notice the bug.

### TopicOps

A string is the sequence of its '/'-separated chunks, which is what `split('/')`
gives, so slashes, empty strings and wildcards keep their edge cases while names
stay opaque. A chunk is either a wildcard or contains none. The loops (that of
`matches_split`, the filter `Named`) are recursive functions over the position.
`Covers` stands for the `submap` crate, with the two wildcards it is configured with.

### Wire

Texts, payloads and streams are sequences of numbers: bytes, except that a length,
a time stamp or a nonce is one element. What is kept is what can put two ends out of
step: which lengths are summed, where buffers are split at a zero byte, how many
parts a split yields, the limits `max_topic_length` and `max_pub_size`, and how much
of the stream a reader takes. A reader yields what it read and the rest of the
stream, or `Fail`. `parse_topics` is a recursive function over the positions where a
piece begins. `latency_mks` keeps its two widths as constants.

A UDP packet is its clear bytes and, with a key, a seal around the block. `packet` is
what `publish_impl` sends, `received` what `recv_from` leaves of it in a buffer of
`udp_frame_size` bytes: a longer datagram is cut and nobody is told. `read_packet` and
`read_block` make every check of `process_udp_packet` and `process_udp_block` up to
the authentication, in their order: length, header, version and encryption type, the
zero bytes, the length of the block, its operation. Their errors say whether the
packet is acknowledged. UTF-8 and the cipher are left out: a seal that is whole opens
with the key it was made with, one that was cut does not. It is `SealSize` bytes (nonce
and digest) longer than the block inside.

### Delivery

For each data stream its client, whether it is open, and its line: the messages
accepted for it. A line grows at its end only, in the order of each publisher and
without doubles among the streams of a client; closing a stream cuts off what was
not written. `Broker` implements it under this mapping: a stream is open while its
`Receiver` lives, and its line is what was written, followed by what is in hand and
in the queue while it is open.

### Broker

State. `sess` is the handler of each control connection, `db` and `subs` the two
maps of `ServerClientDB`, `dc` and `tasks` the two mutexes of each client object,
`aborted` the aborted tasks. For each data connection: how far `launch_data_stream`
is, the pinger, the data task, the channel (`queue`), the message in the data
task's hands and what it has written. For each publisher (a session or a UDP
listener): its place in `push_to_subscribers`, its snapshot, the rest of its loop
in token-digest order, its clone of the sender.

Reference counts are not variables. `Held(s)` says who owns an
`Arc<ServerClientData>`: the database, the handler, the launcher of a stream, a
snapshot. Every action that lets go of one ends with `Release`, which runs
`Drop for ServerClientData` when no owner is left. `RxOpen` and `TxOpen` say in
the same way when a channel is closed.

Steps. One action is what happens between two points where another task can see a
shared lock or channel. Some consequences:

- `is_full` (`PushCheck`), `send` (`PushSend`), `unregister_data_channel`
  (`PushTake`) and `abort_tasks` (`PushAbort`) are separate.
- `launch_data_stream` is four steps. Spawning a task and the code up to the next
  `register_task` touch nothing shared and are one step with what precedes them.
- `async_channel` keeps queued messages when the receiver is dropped; they are
  never read, and `is_full` still counts them.
- An aborted task stops at its next pending await. Until then it may go on, so
  abort only enables `PingEnd` and `DataEnd`.
- A login is one step: what fails before `register_client` changes no shared state.
- Replies other than OK that change nothing are left out. All ways to leave
  `process_control` between operations are `Close`.

### UdpConfirm

Sets of packets and acknowledgments under way, which are lost, reordered and
duplicated at will: a datagram that is delivered may stay under way (`Delivered`). The
call an acknowledgment answers is recorded in it as history; `RecvAck` does not look at
it, as the packet has no such field. A packet refused before its operation code is
known is not acknowledged and is as good as lost.

A repeated acknowledgment is more than a late one: it can confirm a call whose packet
was lost, though all calls were made in turn and none was given up. The history variable
`exact` says that nothing of the kind happened: neither an acknowledgment nor a packet
that asks for one was delivered twice. `ResultIsOwn`, `NoExtraConfirmations` and
`ConfirmedIsPublished` have it as a premise. Plain publications do not count: they may be
repeated at will, as they are not answered.

### Handshake

One call of `Client::connect` against the two handlers the server runs for it. Both
ends take turns, so one message per direction and connection is under way at most.
`Setups` ranges over all configurations of the client (transport, credentials, data
stream or not, trust in the certificate) and policies of the server (TLS, plain
connections, anonymous logins, an ACL for the login, protocol version, a data queue
with or without slots): passwords, ACL and versions are reduced to their outcome.
With a `data_queue` of 0 the attachment handler panics, and the client sees the end
of the connection. A failed `connect` drops both
streams. `trouble` records whether a timeout or the network interfered, so that a
refusal without it must have a cause. The session afterwards is `Broker`'s: here
its end is one step.

### Beacon

One writer and one reader with a clock. The same module serves the server's NOPs
on the data stream and the client's on the control stream. The interval follows from
the client's timeout in both cases; the timeout of the reader is the client's own on the
data stream and the server's on the control stream, so a setup (`cfg`) is a pair of
timeouts. Nothing is assumed of how they relate. The reader waits, is within a frame, or
is busy with what it read: the client's data task with `tx.send` to a slow application,
the server with a command. `idle` runs from `op_start`, that is before the first byte, to
the last byte of a frame, and not while the reader is busy; the writer then fills the
buffers (`unread`, up to `Room`) and stalls. A stalled write that times out is `Fail`.

Two intervals may pass without a byte by design, since a NOP soon after another frame is
skipped. For a timeout of whole seconds on the data stream, the default of 5 s included,
that is the whole timeout. A working peer can therefore be given up for any delay (the
run `beacon_default`), and the property that holds is `GivenUpForDelay`: only for a delay
that uses up what the timeout leaves beyond two intervals. The delay is that of the beat
which is due or, within a frame, that when it began (`debt`, history) and the time its
bytes have taken.

### Client

Callers (`exec_command!`), the control task, the pinger, the data task, and a
server reduced to taking commands in order and answering each. `Vanish` is the loss
of the server or the network with everything under way. `fresh` is
"less than a beacon interval since `op_start`"; it ends by itself (`Lapse`).

### AuthDb and Daemon

A pass loads ACL, passwords and keys in this order, at start and on SIGHUP. For each
it takes the write lock, reads the file (`Load`) and replaces the table or, if the
file was bad, keeps it (`Apply`). Keys are filtered by the ACL table at that moment,
so `Apply` of the keys waits for the ACL lock while it holds its own. A request takes
the lock of the passwords or of the keys and then that of the ACL; another step may
fall between. A file is the set of logins it admits. `sure` marks a request during
which nothing was edited and before which a pass loaded all three files as they are:
only such requests are owed the answer of the files.

`Daemon` adds the process: it binds (removing an old socket), loads, installs its
signal handlers, remembers and writes the pid file, and serves. The handlers are
installed by spawned tasks, at any time after the load; a signal before that has its
default action. `terminate()` locks the name of the pid file for good, removes it,
then the sockets, and exits. Started by the EVA launcher, the process has neither
handlers nor pid file, and its stop removes nothing: that is `Crash`. Socket, pid
file and the three files outlive the process, everything else is forgotten.
`StartFails`, `LaunchFails` and `LoadFails` are failures of the system or of the
configuration; they, the signals and crashes share the bound `MaxFaults`.

## 3. Runs

Runs that must pass:

| run | bounds | shows |
|---|---|---|
| `operators` | topics up to 4 chunks, masks up to 3, alphabet of empty chunk, one name, `+`, `#`; texts and payloads up to 3 bytes, size limits 5 and 6, a UDP buffer of 12 bytes, seals of 1; clocks up to 40 with widths 8 and 64 | normalisation is canonical and idempotent; the mask loop decides the written meaning; masks survive being printed; commands and messages are read back and leave the stream in step; UDP packets that fit are read back, and what becomes of the others; when the latency is true |
| `broker_deliver` | 1 client that publishes, 2 streams, 1 UDP publisher, queue of 1, 2 messages, 1 beacon | an answered publisher has queued its message on every stream that stayed; order; no doubling; `Broker` implements `Delivery` |
| `broker_sessions` | 2 clients that publish and replicate, 1 stream, queue of 1, fair | types; no leaked task; the same delivery guarantee with sessions that come and go while they push to each other; publishers return; tasks of ended sessions end |
| `udp` | 4 calls that may overlap and be given up; loss, reordering, duplication | own answers for calls in turn, and Ok only for what was published; for any use no more Ok than publications; all until something acknowledged is delivered twice |
| `handshake` | all setups, fair | both ends agree on the outcome; refusals have a cause; `connect` returns and its handlers end |
| `beacon` | seconds of 4 ticks, 2 of them in the byte; client timeouts 3, 4, 6, 8, 10 and 12 with the same for the reader, and 8 with a reader of 6 and of 11; delay 2, transfer 2, buffers of 2 frames | working peers are given up for a delay only, dead ones noticed |
| `client` | 2 calls, queue of 1, fair | answers belong to their commands; calls return; a lost server is noticed |
| `daemon` | 1 login, 1 request at a time, 1 edit of a file, 3 faults, fair | answers follow the files; an orderly end is clean; requests return; the server comes back |

Why the bounds are enough. The races in the server are between two publishers, or
a publisher and the launch or end of one stream, over one full channel: a queue of
one slot makes "full" happen at once, two messages from two publishers make the
check and the send come apart, and a second stream lets a client re-attach in the
middle (`broker_deliver` uses one topic, the other broker runs the full set). Two
sessions give a snapshot of more than one subscriber and one that leaves while
another pushes. The requests include lists refused half-way, topics
that are too deep, topics with wildcards and two spellings of one topic. For the
client, two calls suffice for one to be answered in place of the other, and a
queue of one slot makes them wait for each other, the pinger and the data task.
Three faults and an edit let a reload fail half-way, be repeated, and a crash or a
termination fall into it; a second login would only repeat the first, as no table
relates two. A broken file that is repaired takes two edits; the same properties hold
with two edits and two faults (713,281 states, a longer run). Limits of 5 and 6 bytes
have frames below, at and above them. With a buffer of 12 bytes packets of the same
texts fit, lose a part of their payload, all of it, and the topic too, and seals of one
byte make encrypted ones of both kinds. The timeouts of `beacon` are below a second, of
whole seconds, in between and cut by the byte. `udp` goes no further once something
acknowledged was delivered twice (`CONSTRAINT Judged`): the properties are not owed from
then on.
The theorems of section 4 hold for every bound, and they cover every safety property
of these runs.

Deadlock is not checked where the environment may simply stop (peers owe nothing
and the bounds on messages and beacons run out).

Runs that must find a violation. Each shows where the code departs from what the
repository says; `findings` in `PROJECT.json` has the quotations.

| run | what happens |
|---|---|
| `ghost` | the token cannot be written after `register_client`: `?` returns past `unregister_client`, and the client is counted as connected for ever |
| `orphan` | a full queue is dropped before the stream's tasks are registered: nothing is aborted, and the stream goes on with beacons and without messages |
| `reattach` | two publishers find a channel full; the client re-attaches between their drops, and the second takes the new channel |
| `beacon_default` | a data stream with a timeout of whole seconds: after a skipped NOP the client gives up on a working server because the next frame takes a tick to arrive |

Further observations. `publish_confirmed` is trustworthy only under the premises of
`ConfirmedIsPublished`. It has no timeout of its own, `examples/udp_client.rs` puts one
around it, and a late acknowledgment of a call that was given up then confirms the next
call, whose packet may be lost; the second copy of an acknowledgment does so for calls in
turn. TLC shows each in a few steps with two calls when the premise is left out. A plain
UDP packet beyond `udp_frame_size` ("max udp frame size", `test-configs/config.yml:23`) is
not refused: it is cut, and what is left of its payload is published and acknowledged
(`PacketsReadBack` says exactly when). End of file on
a data stream, or a failed reply to its attachment, leaves the closed channel
registered until a publisher finds it full, and until then the client cannot attach
again. A data task that fails between the two steps of a drop (`unregister_data_channel`,
`abort_tasks`) unregisters by token too, and takes a channel attached meanwhile. `connect`
may return Ok although the server's timeout has ended the session while the data
connection was made. The two TLS
handshakes (`server.rs:507`, `client.rs:382`) are under no timeout and wait for ever
for a peer that went silent; `ConnectReturns` and `HandlersEnd` state the exception.
The mask `#/x` and its printed form `#` match the same topics but are not equal.
A SIGHUP during a reload is lost, for the handler makes a new receiver after it, and
one before the handler is installed ends the process. A termination between the two
steps that set and write the pid file may leave the file. Sessions keep the ACL they
logged in with after a reload, and what a login gets while a reload is half-way depends
on the table it meets (`AnswersFollowFiles` is owed to requests outside that window).
The read ACL is asked for the topic as sent, the
subscription is made for its prepared form. A UDP packet cannot carry the priority
0: the block is split at its first zero byte. The latency wraps when the clock is set
back or the sending node's clock is ahead; `LatencyIsTrue` gives its exact range. The
benchmark stage "unsubscribe" of `cli.rs` calls `subscribe`.

### Fairness

`Broker`: handlers and tasks are polled until they wait, and every network read or
write they wait for is under a timeout, so each of these steps, or its failure,
happens (weak fairness). `PushSend` has strong fairness: a sender blocked on a
full channel is queued as a listener and woken in turn as slots are freed. Nothing
is assumed of peers: they need not log in, publish, attach or close; nor of the
pinger's sends.

`Client`: the caller's two waits and the control task's reads and writes have
timeouts; the pinger's sleep ends and a beacon interval passes. The server and the
network owe nothing. `Handshake`: every wait but that for the TLS handshake has a
timeout, and a session whose client is gone ends at the server's timeout. `Beacon`:
time passes and the reader's timer fires; that a busy reader goes on is up to the
application, so `DeadPeersExpire` has it as a premise. `Daemon`: tasks are polled,
file reads end, and the service manager starts the process again (`psrtd.service`:
`Restart=always`). That a handler is ever installed is not assumed, nor that signals,
crashes or edits come or stay away: `ComesBack` uses only that they are finitely many.

## 4. Proofs

**`BrokerProofs`** proves `TypeCorrectness` (`Spec => []TypeOK`) and
`TasksAreReaped` (`Spec => []NoTaskLeak`) for any sets of sessions, streams and
listeners and any queue size, from the assumptions named in `Broker`: the queue
has a slot, `None` is none of the others, digests are distinct.

`NoTaskLeak` (a running task that was not aborted belongs to a client object
somebody holds) is not inductive. `IInv` adds:

- `Owned`: a stream that is being launched or has running tasks has an owner;
- `Fresh`: a stream that was not registered has no running tasks;
- `Quiet`: a publisher between two publications holds no client object;
- `Tracked`: a running task that was not aborted is in its owner's list, or
  `launch_data_stream` has spawned it and is about to register it;
- `Emptied`: a client object nobody holds has an empty list.

`Tracked` and `Emptied` give the property: a task in a list has an owner that is
held, and one not yet registered has its launcher for a holder. The step proof has
one case per action. The delicate ones are those that call `Release`: objects that
lose their last owner move their tasks to `aborted` in the same step. `IInv` was also checked with TLC on the `broker_sessions`
instance.

**`BeaconProofs`** proves `TwoBeaconsPerTimeout` (two beacon intervals fit the
client's timeout for every timeout, with rounding and the cut at 255) and
`BeaconsInTime` (`Spec => []GivenUpForDelay`), for any pairs of timeouts and any bounds on
the delays; it assumes only that these are naturals, a second and `Room` not zero. The
invariant has three parts beside the types. `Ahead` bounds the time since the writer's last
frame by the interval plus the pinger's sleep; it is needed because a skipped NOP leaves
the connection idle for a second interval. `InTime` bounds the reader's idle time by the
writer's, and within a frame by two intervals, the delay when it began and the time it
has taken. The third is the claim itself, for a reader that has given up. `MarginSuffices`
is the condition an administrator can meet: where the reader's timeout covers two
intervals, the delays and the transfer of one frame, only dead peers are given up. A
data stream with a timeout of whole seconds never meets it with a delay.

**`DaemonProofs`** proves `TypeCorrectness`, `FilesDecide`
(`Spec => []AnswersFollowFiles`) and `OrderlyEnd` (`Spec => []TerminatedIsClean`) for
any logins and requests and any number of edits and faults; it only assumes that the
bounds are naturals. An answer is given several steps after the
pass that loaded its table, so `AnswersFollowFiles` needs an account of all of them:

- `ReadIsCurrent`: what a calm pass, or any pass over exact tables, has read is what
  the file says, or it could not be read;
- `CalmPass`: a calm pass has brought the tables before its file up to date;
- `ExactTables`: after a calm pass the tables are what the files say, keys without an
  ACL left out;
- `Judged`: a request that the files decide is beyond a lock only if the file admits
  it (or refuses it), and the tables are still exact.

The intersection in `ExactTables` is why a refused key is right: a key without an ACL
would be refused by `get_acl` all the same. `EndInv` follows the two files through the
steps of `terminate`; it needs that a process that serves remembers its pid file.
There is one lemma for what each operation does to the databases, and the step proof
has one case per action. `IInv` was also checked with TLC on the `daemon` instance.

**`DeliveryProofs`** builds on `BrokerProofs` and proves what publishers and
subscribers rely on, again for all sessions, streams, listeners, messages and queue
sizes: `MessagesInOrder` (`PublisherOrder`), `NoMessageTwice`
(`OneStreamPerMessage`), `OkMeansQueued` (`PassedMeansQueued`) and
`ImplementsDelivery` (`Spec => DeliversInOrder`, the refinement of `Delivery`). The
invariant `DInv` adds to `IInv`:

- `Early`, `Blank`, `Channels`: nothing is queued for a stream before it has an owner,
  and the channel of a client is one of its own streams;
- `Aimed`, `Numbered`, `Unpassed`: a publisher in its loop has a message of its own,
  numbers are given out once, and a subscriber the loop has not passed has only older
  messages of this publisher. `PublisherOrder` needs this: a message is appended
  at the end of a line and must be newer than all before it. It also keeps a message
  from a second stream of the same client (`Apart`), since a loop passes a client once;
- `LoggedIn`, `Known`, `Missed`: a client logs in once, so a channel that was
  unregistered is never registered again (`Gone`); while a publisher is at a
  subscriber, every channel it saw there except the one in its hand is gone, and that
  one too once it was taken. Without `Missed` a publisher could pass a client whose
  channel at lookup is not the one it found full.

The refinement then needs one lemma for each group of steps: a step either leaves the
abstract lines and the set of open streams as they are, or appends one message to one
open line, or opens or closes one stream. The contents of a queue without its beacons
(`Published`) is a recursive function; what it yields after `Append` and `Tail` is
shown by least counterexample.

**`UdpConfirmProofs`** proves `TypeCorrectness`, `OwnResult` (`ResultIsOwn`),
`ConfirmationsCovered` (`NoExtraConfirmations`) and `ConfirmedInTurn`: for a caller
that makes its calls in turn, while nothing acknowledged is delivered twice, an Ok means
that the message was published (`ConfirmedIsPublished`). In turn, everything under way is about the one call that waits
(`Turn`), and a message is under way once (`Once`). For arbitrary use only a count is
left: `Covered` says that the calls that returned Ok and the Oks under way together
are no more than the published messages; an acknowledgment is consumed by the
call it confirms, so the sum never grows without a publication. A repeated plain packet
adds nothing, for it is not acknowledged. That `None` is not a code and the three switches
are Booleans is all that is assumed.

**`ClientProofs`** proves `TypeCorrectness` and `AnswersMatch` (`AnswerIsOwn`) for any
number of calls and any queue size. Replies carry no number, so the claim rests on
`Turns`: control task and server alternate, and what is under way is about the current
command, including the second round of a `PublishRepl`. `Unsent`, `Queued` and `Open`
say that a command is in one place at a time and has no answer before it is written;
`Told` says that an answer passed on is what the server said last.

**`HandshakeProofs`** proves `TypeCorrectness`, `BothEndsAgree` (`ConnectedIsServed`)
and `NoOneTurnedAway` (`RefusedForCause`) for any set of setups. `Course` ties the
place of `connect` to its connection, `Checked` says what a handler has verified when
it is where it is, `Told` that a token and everything after it imply these checks,
`Attached` that an OK on the data connection means an open channel, and `Cause` that a
handler that ended while the client still waits had a reason.

**`BeaconProofs`** also proves `TypeCorrectness`, and **`OperatorProofs`** every property
of the run `operators`: for topics, masks, texts and payloads of any length and for
all limits and widths. `PreparedOnce`, `MasksDecide` and `MasksSurvivePrinting` are about
topics and masks over any alphabet of chunks; `CommandsArrive`, `MessagesArrive` and
`PacketsArrive` about the two ends of each connection; `LatencyRange` about the two
widths. The lemmas behind them (`ParsedMeansMatch`, `FrameRead`, `MessageReadBack`,
`ParsedTwo`, `PlainReceived`, `SealedReceived` and others) speak of arbitrary bytes, of
any text without a zero byte and of any rest of the stream; the theorems apply them to
the inputs of `MCOperators`. Those for UDP packets follow the cut through the layers:
`SplitCut` says where the first n bytes of a text, a zero byte and the rest are split,
and `BlockRead`, `PlainRead` what a block and a packet are taken for when n bytes of them
are left, for every n; the buffer is then one such n. They assume that bounds and limits are naturals
(`BoundAssumption`, `LimitAssumption`) and that the narrow width in microseconds fits
the wide one (`WidthAssumption`).

The library's induction theorems take an operator as a parameter, which the provers
cannot instantiate. Induction over data is therefore by least counterexample: the set
of numbers where a claim fails, if it is not empty, has a least element
(`Least`, from the well-foundedness of `<`), and the step to it from its
predecessor contradicts that. This also shows that a recursive function exists:
`f[i \in S] == e` stands for a `CHOOSE`, and without a witness nothing is known of it.

The inductive invariants of `UdpConfirm`, `Beacon`, `Client` and `Handshake` were also checked
with TLC on the instances of section 3.

Only model-checked: liveness, since the provers have no rules for fairness and
`ENABLED`. These are `PublishersReturn`, `EndedSessionsReaped`, `DeadPeersExpire`,
`CallsReturn`, `LossIsNoticed`, `ConnectReturns`, `HandlersEnd`, `RequestsReturn` and
`ComesBack`.

## 5. Not modelled

- UTF-8, TLS, ciphers, bcrypt and YAML: libraries, reduced to their outcome.
- The counters other than the latency (sums under a lock), the HTTP pages and charts,
  logging: presentation.
- `cli.rs`: terminal I/O and a benchmark on top of the client library.
- The RPC methods of `eva_svc.rs`: they return statistics through an external SDK.
- Token encoding and error conversions (`token.rs`, `lib.rs`): data handling without
  control.
- The sending side of replication, which is not in the repository. It uses the
  client's `PublishRepl`, which `Client` and `Wire` have.
- Which topics of a refused list stay subscribed is modelled (`Accepted`), but no text
  states a contract for it, so there is no property.

## 6. Plan

Done: all modules above, their runs, and the proofs of section 4: every safety property
of a passing run is a theorem, and so is the refinement of `Delivery`. What is left:

1. Action properties that the invariants above already imply, such as that a channel
   which was unregistered is never registered again (`Gone` in `DeliveryProofs`).
2. Shorter proofs where lemmas overlap (`OperatorProofs`, `DeliveryProofs`).
3. A contract for the topics of a refused list (`Accepted`), should the repository
   state one.
