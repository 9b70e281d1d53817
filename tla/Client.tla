------------------------------- MODULE Client -------------------------------
(***************************************************************************)
(* The client library's control connection (client.rs): callers queue      *)
(* commands for one control task, which writes them and reads the replies  *)
(* one by one; a pinger queues NOPs; the data task can end the connection. *)
(* The server end is reduced to the order in which it takes commands and   *)
(* the code it answers with.                                               *)
(***************************************************************************)
EXTENDS Integers, Sequences

CONSTANTS
    Calls,          \* invocations of subscribe, publish, publish_repl, bye...
    QueueSize,      \* config.queue_size of the control channel
    None

ASSUME QueueAssumption == QueueSize \in Nat \ {0}

Kinds == {"plain", "repl", "bye"}       \* plain: one command, one reply
Errors == {"denied", "failed"}          \* RESPONSE_ERR_ACCESS, any other
Answers == {"ok"} \union Errors         \* what the server may say in the end

ASSUME NameAssumption ==
    /\ None \notin Calls \union Answers \union {"waiting", "bye", "payload"}
    /\ Calls \cap {"bye", "payload"} = {}

VARIABLES
    \* --- callers: exec_command!
    call,           \* progress: new, send, wait, done
    kind,           \* the command of the call
    result,         \* what the call returned
    slot,           \* the oneshot channel: None, an answer, or "dropped"
    \* --- the Client object and its tasks
    queue,          \* control_channel: calls, or None for the pinger's NOP
                    \* and "bye" for the data task's
    ctl,            \* control task: recv, reply, payload, end
    cur,            \* the command the control task is at
    fresh,          \* less than a beacon interval since it wrote one
    ping, data,     \* the pinger and the data task: run, bye, end
    connected,      \* the flag behind is_connected
    dropped,        \* the Client object is gone, and is_connected with it
    \* --- the connection and the server
    up, down,       \* bytes under way: commands, reply codes
    srv,            \* the server's handler: open, payload, gone
    verdict         \* history: the server's final answer to each call

caller == <<call, kind, result, slot>>
task   == <<queue, ctl, cur, fresh, ping, data, connected, dropped>>
server == <<up, down, srv, verdict>>
vars   == <<caller, task, server>>

RxOpen == ctl # "end"

\* the control task returns: its Receiver and the current oneshot sender go
\* away, queued commands stay in the closed channel
DropSender(s, c) ==
    IF c \in Calls /\ s[c] = None THEN [s EXCEPT ![c] = "dropped"] ELSE s

-----------------------------------------------------------------------------
(* exec_command!                                                           *)
Start(c) ==
    /\ call[c] = "new" /\ ~dropped
    /\ call' = [call EXCEPT ![c] = "send"]
    /\ \E k \in Kinds : kind' = [kind EXCEPT ![c] = k]
    /\ UNCHANGED <<result, slot, task, server>>

\* fault: the channel is unbounded
EnqueueUnbounded(c) ==
    /\ call[c] = "send"
    /\ RxOpen
    /\ queue' = Append(queue, c)
    /\ call' = [call EXCEPT ![c] = "wait"]
    /\ UNCHANGED <<kind, result, slot, ctl, cur, fresh, ping, data,
                   connected, dropped, server>>

Enqueue(c) ==
    /\ call[c] = "send"
    /\ RxOpen /\ Len(queue) < QueueSize
    /\ queue' = Append(queue, c)
    /\ call' = [call EXCEPT ![c] = "wait"]
    /\ UNCHANGED <<kind, result, slot, ctl, cur, fresh, ping, data,
                   connected, dropped, server>>

Return(c, r) ==
    /\ call' = [call EXCEPT ![c] = "done"]
    /\ result' = [result EXCEPT ![c] = r]

\* the channel is closed, or stays full for the timeout
SendFails(c) ==
    /\ call[c] = "send"
    /\ \/ ~RxOpen /\ Return(c, "lost")
       \/ Len(queue) >= QueueSize /\ Return(c, "timeout")
    /\ UNCHANGED <<kind, slot, task, server>>

\* shutdown(): all three tasks are aborted.  What an aborted task may still
\* write before it has to wait goes to a server that has left (after bye) or
\* is answered to nobody (after Drop).
shutdown ==
    /\ ctl' = "end" /\ ping' = "end" /\ data' = "end"
    /\ cur' = None
    /\ slot' = DropSender(slot, cur)
    /\ UNCHANGED <<queue, fresh>>

Answered(c) ==
    /\ call[c] = "wait" /\ slot[c] # None
    /\ Return(c, IF slot[c] = "dropped" THEN "lost" ELSE slot[c])
    /\ IF kind[c] = "bye" /\ slot[c] = "ok"
       THEN shutdown /\ connected' = FALSE
       ELSE UNCHANGED <<slot, queue, ctl, cur, fresh, ping, data, connected>>
    /\ UNCHANGED <<kind, dropped, server>>

\* fault: no timeout for the answer
WaitForever(c) == FALSE /\ UNCHANGED vars

\* the answer does not come in time; the command may still be queued, under
\* way or executed
WaitTimeout(c) ==
    /\ call[c] = "wait" /\ slot[c] = None
    /\ Return(c, "timeout")
    /\ UNCHANGED <<kind, slot, task, server>>

\* Drop for Client: no call borrows it any more
DropClient ==
    /\ ~dropped
    /\ \A c \in Calls : call[c] \in {"new", "done"}
    /\ shutdown
    /\ dropped' = TRUE
    /\ UNCHANGED <<call, kind, result, connected, server>>

-----------------------------------------------------------------------------
(* run_control_stream                                                      *)

\* the beacon interval since the last command is over
Lapse ==
    /\ fresh /\ ctl # "end"
    /\ fresh' = FALSE
    /\ UNCHANGED <<caller, queue, ctl, cur, ping, data, connected, dropped, server>>

SkipsHead == Head(queue) = None /\ fresh

CtlSkip ==
    /\ ctl = "recv" /\ queue # <<>> /\ SkipsHead
    /\ queue' = Tail(queue)
    /\ UNCHANGED <<caller, ctl, cur, fresh, ping, data, connected, dropped, server>>

CtlWrite ==
    /\ ctl = "recv" /\ queue # <<>> /\ ~SkipsHead
    /\ queue' = Tail(queue)
    /\ cur' = Head(queue)
    /\ ctl' = "reply"
    /\ fresh' = TRUE
    /\ up' = IF srv = "gone" THEN up ELSE Append(up, Head(queue))
    /\ UNCHANGED <<caller, ping, data, connected, dropped, down, srv, verdict>>

CtlEnd ==
    /\ ctl' = "end" /\ cur' = None
    /\ connected' = FALSE

\* an answer for the current command, if a caller wants one
Tell(answer) ==
    slot' = IF cur \in Calls /\ slot[cur] = None
            THEN [slot EXCEPT ![cur] = answer] ELSE slot

(* RESPONSE_OK_WAITING asks for the message of a publish_repl; Ok (or not  *)
(* required) and an access error let the task go on; any other code is an  *)
(* I/O error and ends it.                                                  *)
CtlReply ==
    /\ ctl \in {"reply", "payload"} /\ down # <<>>
    /\ down' = Tail(down)
    /\ LET code  == Head(down)
           wanted == code = "waiting" /\ ctl = "reply"
                       /\ cur \in Calls /\ kind[cur] = "repl"
       IN \/ /\ wanted
             /\ up' = Append(up, "payload")
             /\ ctl' = "payload"
             /\ UNCHANGED <<slot, cur, connected>>
          \/ /\ code \in {"ok", "denied"}
             /\ Tell(code)
             /\ ctl' = "recv" /\ cur' = None
             /\ UNCHANGED <<up, connected>>
          \/ /\ code \notin {"ok", "denied"} /\ ~wanted
             /\ Tell("failed")
             /\ CtlEnd
             /\ UNCHANGED up
    /\ UNCHANGED <<call, kind, result, queue, fresh, ping, data, dropped, srv, verdict>>

\* fault: a command whose reply does not come in time is given up, and the
\* task goes on with the next one
CtlGoesOn ==
    /\ ctl \in {"reply", "payload"}
    /\ IF cur \in Calls THEN ctl' = "recv" /\ cur' = None /\ UNCHANGED connected
       ELSE CtlEnd
    /\ slot' = DropSender(slot, cur)
    /\ UNCHANGED <<call, kind, result, queue, fresh, ping, data, dropped, server>>

\* fault: no timeout for the reply to a NOP
CtlFailsForCalls ==
    /\ ctl \in {"reply", "payload"} /\ cur \in Calls
    /\ CtlEnd
    /\ slot' = DropSender(slot, cur)
    /\ UNCHANGED <<call, kind, result, queue, fresh, ping, data, dropped, server>>

\* a write or read error, or the stream's timeout
CtlFails ==
    /\ ctl \in {"reply", "payload"}
    /\ CtlEnd
    /\ slot' = DropSender(slot, cur)
    /\ UNCHANGED <<call, kind, result, queue, fresh, ping, data, dropped, server>>

-----------------------------------------------------------------------------
(* The pinger and the data task                                            *)
PingSend ==
    /\ ping = "run"
    /\ RxOpen /\ Len(queue) < QueueSize
    /\ queue' = Append(queue, None)
    /\ UNCHANGED <<caller, ctl, cur, fresh, ping, data, connected,
                   dropped, server>>

PingEnd ==
    /\ ping = "run" /\ ~RxOpen
    /\ ping' = "end"
    /\ connected' = FALSE
    /\ UNCHANGED <<caller, queue, ctl, cur, fresh, data, dropped, server>>

\* a read error or timeout, a closed data channel, or an invalid frame,
\* after which Bye is queued first
DataFails ==
    /\ data = "run"
    /\ \/ data' = "end" /\ connected' = FALSE
       \/ data' = "bye" /\ UNCHANGED connected
    /\ UNCHANGED <<caller, queue, ctl, cur, fresh, ping, dropped, server>>

DataBye ==
    /\ data = "bye"
    /\ \/ RxOpen /\ Len(queue) < QueueSize /\ queue' = Append(queue, "bye")
       \/ ~RxOpen /\ UNCHANGED queue
    /\ data' = "end"
    /\ connected' = FALSE
    /\ UNCHANGED <<caller, ctl, cur, fresh, ping, dropped, server>>

-----------------------------------------------------------------------------
(* The server's handler: commands in order, one reply each.                *)

\* the reply to c is final: remember it
Final(c, code) ==
    verdict' = IF c \in Calls THEN [verdict EXCEPT ![c] = code] ELSE verdict

Serve ==
    /\ srv = "open" /\ up # <<>>
    /\ up' = Tail(up)
    /\ LET c == Head(up) IN
       \/ /\ c \in Calls /\ kind[c] = "repl"
          /\ down' = Append(down, "waiting")
          /\ srv' = "payload"
          /\ verdict' = [verdict EXCEPT ![c] = "waiting"]
       \/ \E code \in IF c = None THEN {"ok"} ELSE Answers :
            /\ c \in Calls /\ kind[c] = "bye" => code = "ok"
            /\ c = "bye" => code = "ok"
            /\ Final(c, code)
            /\ down' = Append(down, code)
            /\ srv' = IF c = "bye" \/ (c \in Calls /\ kind[c] = "bye")
                      THEN "gone" ELSE "open"
    /\ UNCHANGED <<caller, task>>

ServePayload ==
    /\ srv = "payload" /\ up # <<>>
    /\ up' = Tail(up)
    /\ down' = Append(down, "ok")
    /\ srv' = "open"
    /\ verdict' = [c \in Calls |-> IF verdict[c] = "waiting" THEN "ok" ELSE verdict[c]]
    /\ UNCHANGED <<caller, task>>

\* the server or the network is gone, with what was under way
Vanish ==
    /\ srv # "gone"
    /\ srv' = "gone"
    /\ up' = <<>> /\ down' = <<>>
    /\ UNCHANGED <<caller, task, verdict>>

-----------------------------------------------------------------------------
Init ==
    /\ call = [c \in Calls |-> "new"]
    /\ kind = [c \in Calls |-> None]
    /\ result = [c \in Calls |-> None]
    /\ slot = [c \in Calls |-> None]
    /\ queue = <<>> /\ ctl = "recv" /\ cur = None /\ fresh = TRUE
    /\ ping = "run" /\ connected = TRUE /\ dropped = FALSE
    /\ data \in {"run", "end"}          \* "end": need_data_stream is off
    /\ up = <<>> /\ down = <<>> /\ srv = "open"
    /\ verdict = [c \in Calls |-> None]

Next ==
    \/ \E c \in Calls : \/ Start(c) \/ Enqueue(c) \/ SendFails(c)
                        \/ Answered(c) \/ WaitTimeout(c)
    \/ DropClient
    \/ Lapse \/ CtlSkip \/ CtlWrite \/ CtlReply \/ CtlFails
    \/ PingSend \/ PingEnd \/ DataFails \/ DataBye
    \/ Serve \/ ServePayload \/ Vanish

Spec == Init /\ [][Next]_vars

(* Fairness: callers and tasks are polled until they wait, and every wait  *)
(* of a caller or of the control task has a timeout.  The server and the   *)
(* network owe nothing.                                                    *)
FairSpec ==
    /\ Spec
    /\ \A c \in Calls : WF_vars(Enqueue(c) \/ SendFails(c) \/ Answered(c)
                                \/ WaitTimeout(c))
    /\ WF_vars(Lapse) /\ WF_vars(CtlSkip \/ CtlWrite) /\ WF_vars(CtlReply \/ CtlFails)
    /\ WF_vars(PingSend) /\ WF_vars(PingEnd) /\ WF_vars(DataBye)

-----------------------------------------------------------------------------
(* Types of all variables.                                                 *)
TypeOK ==
    /\ call \in [Calls -> {"new", "send", "wait", "done"}]
    /\ kind \in [Calls -> Kinds \union {None}]
    /\ slot \in [Calls -> Answers \union {None, "dropped"}]
    /\ result \in [Calls -> Answers \union {None, "lost", "timeout"}]
    /\ queue \in Seq(Calls \union {None, "bye"}) /\ Len(queue) <= QueueSize
    /\ ctl \in {"recv", "reply", "payload", "end"}
    /\ cur \in Calls \union {None, "bye"}
    /\ {fresh, connected, dropped} \subseteq BOOLEAN
    /\ ping \in {"run", "end"} /\ data \in {"run", "bye", "end"}
    /\ up \in Seq(Calls \union {None, "bye", "payload"})
    /\ down \in Seq(Answers \union {"waiting"})
    /\ srv \in {"open", "payload", "gone"}
    /\ verdict \in [Calls -> Answers \union {None, "waiting"}]

(* An answer belongs to its question: when a call returns what the server  *)
(* said, the server said it to this command and not to a neighbour in the  *)
(* queue, an earlier one that timed out, or a NOP.                         *)
AnswerIsOwn ==
    \A c \in Calls :
        result[c] \in Answers => result[c] = verdict[c]

(* Every call returns, also when the control task has ended with the       *)
(* command still in its queue.                                             *)
CallsReturn == \A c \in Calls : call[c] \in {"send", "wait"} ~> call[c] = "done"

(* A server that is gone is noticed even by a client that calls nothing:   *)
(* is_connected turns false while there is a Client to ask.                *)
LossIsNoticed == srv = "gone" ~> ~connected \/ dropped
=============================================================================
