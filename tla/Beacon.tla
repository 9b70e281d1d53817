------------------------------- MODULE Beacon -------------------------------
(***************************************************************************)
(* Beacons that keep a connection alive, and the deadline of its reader.   *)
(* On the data stream the server writes and the client reads (server.rs    *)
(* launch_data_stream and handle_data_stream, client.rs run_data_stream);  *)
(* on the control stream the client writes and the server reads (client.rs *)
(* connect and run_control_stream, server.rs process_control).  The        *)
(* mechanism is the same.  A pinger sleeps for the beacon interval and     *)
(* queues a NOP; the writer drops a NOP that comes less than the interval  *)
(* after its last frame.  The reader takes op_start before it waits for    *)
(* the first byte, and one timeout covers both the wait and the rest of    *)
(* the frame.  While it is busy with what it read (a full channel to a     *)
(* slow application; a command being executed) no timeout runs.            *)
(* Time is counted in ticks.                                               *)
(***************************************************************************)
EXTENDS Integers

CONSTANTS
    Second,         \* ticks per second (1000 in the code)
    MaxSecs,        \* the longest timeout one byte can tell (255 in the code)
    Setups,         \* pairs of timeouts in ticks: of the client, and of the
                    \* reader; on the data stream the client reads, so they
                    \* are equal, on the control stream the server does
    Late,           \* bound: the pinger's sleep, its send, the writer and
                    \* the network are at most this late together
    Transfer,       \* bound: the bytes of one frame arrive within this time
    Room            \* bound: frames written while the reader is busy; the
                    \* last one does not fit the socket's buffers

ASSUME ClockAssumption ==
    /\ Second \in Nat \ {0} /\ Room \in Nat \ {0}
    /\ {MaxSecs, Late, Transfer} \subseteq Nat
    /\ Setups \subseteq [client : Nat, read : Nat]

VARIABLES
    cfg,        \* the timeouts, chosen once
    phase,      \* the reader waits, is within a frame, or is busy
    idle,       \* ticks since the reader's op_start
    took,       \* ticks since the first byte of the frame
    unread,     \* frames written and not read: the reader is busy
    quiet,      \* ticks since the writer's last_command (or op_start)
    nap,        \* ticks since the pinger went to sleep
    up,         \* the writer's end works
    alive,      \* the reader has not given up
    debt        \* history: how late a beat was when the frame began

vars == <<cfg, phase, idle, took, unread, quiet, nap, up, alive, debt>>

(* Whole seconds, at most 255 for they are sent as one byte, in            *)
(* milliseconds, halved.  It is zero for a timeout of less than a second:  *)
(* the pinger does not sleep then.                                         *)
beacon_interval(timeout) ==
    LET secs == timeout \div Second IN
    ((IF secs > MaxSecs THEN MaxSecs ELSE secs) * Second) \div 2

B == beacon_interval(cfg.client)

\* how late the pinger's next beat is
Overdue == IF nap > B THEN nap - B ELSE 0

Open == up /\ alive

\* the writer waits for room in the socket's buffers
Stalled == phase = "busy" /\ unread = Room

-----------------------------------------------------------------------------
\* the first byte of a message or a command arrives
FrameBegin ==
    /\ Open /\ phase = "wait"
    /\ phase' = "frame" /\ took' = 0 /\ debt' = Overdue
    /\ UNCHANGED <<cfg, idle, unread, quiet, nap, up, alive>>

\* the last one does; the reader is done with the frame or kept by it
FrameEnd ==
    /\ Open /\ phase = "frame"
    /\ \E p \in {"wait", "busy"} : phase' = p
    /\ idle' = 0 /\ took' = 0 /\ quiet' = 0
    /\ UNCHANGED <<cfg, unread, nap, up, alive, debt>>

\* a frame is written to a reader that is busy
WriteBehind ==
    /\ Open /\ phase = "busy" /\ unread < Room
    /\ unread' = unread + 1
    /\ quiet' = 0
    /\ UNCHANGED <<cfg, phase, idle, took, nap, up, alive, debt>>

\* the reader goes on: it is kept by the next message, or reads all there is
\* and waits again; a stalled write ends
Resume ==
    /\ alive /\ phase = "busy"
    /\ \/ unread > 0 /\ unread' = unread - 1 /\ UNCHANGED phase
       \/ unread' = 0 /\ phase' = "wait"
    /\ idle' = 0
    /\ quiet' = IF Stalled THEN 0 ELSE quiet
    /\ UNCHANGED <<cfg, took, nap, up, alive, debt>>

\* fault: a NOP is skipped for twice the interval
BeatTwice ==
    /\ Open /\ nap >= B
    /\ nap' = 0
    /\ LET written == phase = "wait" /\ quiet >= 2 * B IN
       /\ idle' = IF written THEN 0 ELSE idle
       /\ quiet' = IF written THEN 0 ELSE quiet
    /\ UNCHANGED <<cfg, phase, took, unread, up, alive, debt>>

\* the pinger wakes up, queues a NOP and sleeps again.  The NOP is skipped
\* if the last frame is recent, or still being written; a busy reader finds
\* it among the unread frames
Beat ==
    /\ Open /\ nap >= B
    /\ nap' = 0
    /\ LET due == quiet >= B /\ phase # "frame" /\ ~Stalled IN
       /\ idle' = IF due /\ phase = "wait" THEN 0 ELSE idle
       /\ unread' = IF due /\ phase = "busy" THEN unread + 1 ELSE unread
       /\ quiet' = IF due THEN 0 ELSE quiet
    /\ UNCHANGED <<cfg, phase, took, up, alive, debt>>

\* the writer's process or the network is gone, or a write timed out
Fail ==
    /\ Open
    /\ up' = FALSE
    /\ UNCHANGED <<cfg, phase, idle, took, unread, quiet, nap, alive, debt>>

Ages(x, while) == IF while THEN x + 1 ELSE x

\* fault: the pinger oversleeps
TickOversleeps ==
    /\ alive /\ idle < cfg.read
    /\ up /\ phase = "frame" => took < Transfer
    /\ idle' = Ages(idle, phase # "busy")
    /\ took' = Ages(took, up /\ phase = "frame")
    /\ quiet' = Ages(quiet, up /\ phase # "frame" /\ ~Stalled)
    /\ nap' = Ages(nap, up)
    /\ UNCHANGED <<cfg, phase, unread, up, alive, debt>>

\* time passes: not beyond a beat that is due, the end of a frame, or the
\* timeout
Tick ==
    /\ alive /\ idle < cfg.read
    /\ up => nap < B + Late
    /\ up /\ phase = "frame" => took < Transfer
    /\ idle' = Ages(idle, phase # "busy")
    /\ took' = Ages(took, up /\ phase = "frame")
    /\ quiet' = Ages(quiet, up /\ phase # "frame" /\ ~Stalled)
    /\ nap' = Ages(nap, up)
    /\ UNCHANGED <<cfg, phase, unread, up, alive, debt>>

\* fault: the rest of a frame is read without a timeout
ExpireBetweenFrames ==
    /\ alive /\ phase = "wait" /\ idle >= cfg.read
    /\ alive' = FALSE
    /\ UNCHANGED <<cfg, phase, idle, took, unread, quiet, nap, up, debt>>

\* the reader's timeout: reduce_timeout(timeout, op_start) is zero
Expire ==
    /\ alive /\ phase # "busy" /\ idle >= cfg.read
    /\ alive' = FALSE
    /\ UNCHANGED <<cfg, phase, idle, took, unread, quiet, nap, up, debt>>

Init ==
    /\ cfg \in Setups
    /\ phase = "wait" /\ debt = 0
    /\ idle = 0 /\ took = 0 /\ unread = 0 /\ quiet = 0 /\ nap = 0
    /\ up = TRUE /\ alive = TRUE

Next ==
    \/ FrameBegin \/ FrameEnd \/ WriteBehind \/ Resume
    \/ Beat \/ Fail \/ Tick \/ Expire

Spec == Init /\ [][Next]_vars

(* Time passes, and the reader's timer fires.                              *)
FairSpec == Spec /\ WF_vars(Tick) /\ WF_vars(Expire)

-----------------------------------------------------------------------------
(* Types of all variables.                                                 *)
TypeOK ==
    /\ phase \in {"wait", "frame", "busy"}
    /\ cfg \in Setups
    /\ idle \in 0..cfg.read /\ nap \in 0..(B + Late) /\ debt \in 0..Late
    /\ took \in 0..Transfer /\ unread \in 0..Room /\ quiet \in Nat
    /\ up \in BOOLEAN /\ alive \in BOOLEAN

\* how much later than the plan the reader is being served
Delay == IF phase = "frame" THEN debt + took ELSE Overdue

(* A reader gives up on a working writer only for a delay that uses up     *)
(* what its timeout leaves beyond two intervals: beacons are never further *)
(* apart by design, although the writer skips the NOPs that come soon      *)
(* after other frames, a busy reader lets them pile up, and the wait for   *)
(* a frame counts against the reading of it.                               *)
GivenUpForDelay ==
    ~alive /\ up => /\ 2 * B + Delay >= cfg.read
                    /\ B > 0 => 2 * B + Delay > cfg.read

(* The server is made for "dealing with slow channels and large payloads"  *)
(* (README.md:9): a reader gives up only when the other end is gone.  On   *)
(* the data stream two intervals take up the whole timeout, if it is a     *)
(* number of seconds, so that a reader may give up for any delay.          *)
OnlyDeadPeersExpire == alive \/ ~up

(* A writer that is gone without closing the connection, in the middle of  *)
(* a frame or between two, is noticed, if the reader is not kept busy for  *)
(* ever.                                                                   *)
DeadPeersExpire == []<>(phase # "busy") => (~up ~> ~alive)
=============================================================================
