----------------------------- MODULE Handshake ------------------------------
(***************************************************************************)
(* One Client::connect (client.rs) against the server's handlers of the    *)
(* two connections it opens (server.rs init_*_stream, handle_*_stream,     *)
(* launch_data_stream): greeting, TLS, login, token, attachment of the     *)
(* data stream.  Both ends take turns on each connection, so at most one   *)
(* message is under way in each direction.  What happens to the session    *)
(* and to the data stream afterwards is the subject of Broker.             *)
(***************************************************************************)
EXTENDS Naturals

Legs  == {"ctl", "data"}
Modes == {"unix", "plain", "tls"}
Creds == {"good", "bad", "none"}        \* none: empty login and password

CONSTANT Setups     \* the client's configurations and the server's policies

Setup == [mode : Modes, data : BOOLEAN, cred : Creds,   \* client
          trusted : BOOLEAN,        \* the client trusts the certificate
          hasTls : BOOLEAN, allowPlain : BOOLEAN, allowAnon : BOOLEAN,
          hasAcl : BOOLEAN, sameVersion : BOOLEAN,
          room : BOOLEAN]           \* data_queue is not 0

ASSUME SetupAssumption == Setups \subseteq Setup

VARIABLES
    cfg,            \* the setup of this behaviour
    at, leg,        \* where connect is, and on which connection
    srv,            \* the handler of each connection
    toS, toC,       \* the message under way to the server, to the client
    registered,     \* the client is in the server's database
    channel,        \* its data channel: none, open, closed
    net,            \* the network works
    trouble         \* history: a timeout or the network interfered

vars == <<cfg, at, leg, srv, toS, toC, registered, channel, net, trouble>>

Returned == at \in {"ok", "failed"}

\* the caller of a failed connect is left with nothing: both streams close
Fails == at' = "failed"

Interferes == trouble' = (trouble \/ at # "failed")

-----------------------------------------------------------------------------
(* Client::connect                                                         *)

\* the connection is accepted, its handler spawned, the greeting written
Open(k) ==
    /\ at = "connect" /\ leg = k /\ net
    /\ srv' = [srv EXCEPT ![k] = "greeting"]
    /\ toS' = [toS EXCEPT ![k] = "greeting"]
    /\ at' = IF cfg.mode = "tls" THEN "tls" ELSE "header"
    /\ UNCHANGED <<cfg, leg, toC, registered, channel, net, trouble>>

OpenControl == Open("ctl")
OpenData    == Open("data")

\* header and version are read; the next message is written
Header(k, next, msg) ==
    /\ at = "header" /\ leg = k /\ net
    /\ toC[k] = "header"
    /\ toC' = [toC EXCEPT ![k] = "-"]
    /\ \/ /\ cfg.sameVersion
          /\ toS' = [toS EXCEPT ![k] = msg]
          /\ at' = next
       \/ ~cfg.sameVersion /\ Fails /\ UNCHANGED toS
    /\ UNCHANGED <<cfg, leg, srv, registered, channel, net, trouble>>

ControlHeader == Header("ctl", "token", "login")
DataHeader    == Header("data", "attach", "token")

ReadToken ==
    /\ at = "token" /\ net
    /\ toC["ctl"] = "token"
    /\ toC' = [toC EXCEPT !["ctl"] = "-"]
    /\ IF cfg.data THEN at' = "connect" /\ leg' = "data"
                   ELSE at' = "ok" /\ UNCHANGED leg
    /\ UNCHANGED <<cfg, srv, toS, registered, channel, net, trouble>>

ReadResponse ==
    /\ at = "attach" /\ net
    /\ toC["data"] \in {"ok", "err"}
    /\ toC' = [toC EXCEPT !["data"] = "-"]
    /\ IF toC["data"] = "ok" THEN at' = "ok" ELSE Fails
    /\ UNCHANGED <<cfg, leg, srv, toS, registered, channel, net, trouble>>

\* fault: the result of reading the token is ignored
EndOfFileButToken ==
    /\ at \in {"tls", "header", "token", "attach"} /\ net
    /\ toC[leg] = "-" /\ srv[leg] = "done"
    /\ at' = IF at = "token" THEN "ok" ELSE "failed"
    /\ UNCHANGED <<cfg, leg, srv, toS, toC, registered, channel, net, trouble>>

\* the server closed the connection
EndOfFile ==
    /\ at \in {"tls", "header", "token", "attach"} /\ net
    /\ toC[leg] = "-" /\ srv[leg] = "done"
    /\ Fails
    /\ UNCHANGED <<cfg, leg, srv, toS, toC, registered, channel, net, trouble>>

\* fault: the token is awaited without a timeout
TimeoutButToken ==
    /\ at \in {"connect", "header", "attach"}
    /\ Fails
    /\ Interferes
    /\ UNCHANGED <<cfg, leg, srv, toS, toC, registered, channel, net>>

\* refused connection, missing socket, failed write, or the timeout that all
\* steps share; the TLS handshake alone is not under it
Timeout ==
    /\ at \in {"connect", "header", "token", "attach"}
    /\ Fails
    /\ Interferes
    /\ UNCHANGED <<cfg, leg, srv, toS, toC, registered, channel, net>>

-----------------------------------------------------------------------------
(* The server's handlers                                                   *)

\* the handler of k has read msg
Takes(k, msg) ==
    /\ net /\ toS[k] = msg
    /\ toS' = [toS EXCEPT ![k] = "-"]

Reply(k) ==
    /\ toC' = [toC EXCEPT ![k] = "header"]
    /\ srv' = [srv EXCEPT ![k] = IF k = "ctl" THEN "login" ELSE "token"]

Refuse(k) == srv' = [srv EXCEPT ![k] = "done"] /\ UNCHANGED toC

init_unix_stream(k) ==
    /\ srv[k] = "greeting" /\ cfg.mode = "unix"
    /\ Takes(k, "greeting")
    /\ Reply(k)
    /\ UNCHANGED <<cfg, at, leg, registered, channel, net, trouble>>

\* fault: with TLS configured a plain connection is refused in any case
init_tcp_strict(k) ==
    /\ srv[k] = "greeting" /\ cfg.mode # "unix"
    /\ Takes(k, "greeting")
    /\ \/ cfg.mode = "plain" /\ cfg.allowPlain /\ ~cfg.hasTls /\ Reply(k)
       \/ cfg.mode = "plain" /\ (~cfg.allowPlain \/ cfg.hasTls) /\ Refuse(k)
       \/ /\ cfg.mode = "tls" /\ cfg.hasTls
          /\ srv' = [srv EXCEPT ![k] = "tls"] /\ UNCHANGED toC
       \/ cfg.mode = "tls" /\ ~cfg.hasTls /\ Refuse(k)
    /\ UNCHANGED <<cfg, at, leg, registered, channel, net, trouble>>

init_tcp_stream(k) ==
    /\ srv[k] = "greeting" /\ cfg.mode # "unix"
    /\ Takes(k, "greeting")
    /\ \/ cfg.mode = "plain" /\ cfg.allowPlain /\ Reply(k)
       \/ cfg.mode = "plain" /\ ~cfg.allowPlain /\ Refuse(k)
       \/ /\ cfg.mode = "tls" /\ cfg.hasTls
          /\ srv' = [srv EXCEPT ![k] = "tls"] /\ UNCHANGED toC
       \/ cfg.mode = "tls" /\ ~cfg.hasTls /\ Refuse(k)
    /\ UNCHANGED <<cfg, at, leg, registered, channel, net, trouble>>

\* the TLS handshake of both ends; afterwards the server writes its reply
TlsHandshake(k) ==
    /\ at = "tls" /\ leg = k /\ srv[k] = "tls" /\ net
    /\ \/ cfg.trusted /\ at' = "header" /\ Reply(k)
       \/ ~cfg.trusted /\ Fails /\ UNCHANGED <<srv, toC>>
    /\ UNCHANGED <<cfg, leg, toS, registered, channel, net, trouble>>

\* on a unix socket everybody is let in, with all rights
Authorised ==
    \/ cfg.mode = "unix"
    \/ /\ IF cfg.cred = "none" THEN cfg.allowAnon ELSE cfg.cred = "good"
       /\ cfg.hasAcl

Login ==
    /\ srv["ctl"] = "login"
    /\ Takes("ctl", "login")
    /\ registered' = Authorised
    /\ srv' = [srv EXCEPT !["ctl"] = IF Authorised THEN "registered" ELSE "done"]
    /\ UNCHANGED <<cfg, at, leg, toC, channel, net, trouble>>

WriteToken ==
    /\ srv["ctl"] = "registered"
    /\ toC' = [toC EXCEPT !["ctl"] = "token"]
    /\ srv' = [srv EXCEPT !["ctl"] = "serve"]
    /\ UNCHANGED <<cfg, at, leg, toS, registered, channel, net, trouble>>

\* the handler returns past unregister_client
TokenLost ==
    /\ srv["ctl"] = "registered"
    /\ srv' = [srv EXCEPT !["ctl"] = "done"]
    /\ Interferes
    /\ UNCHANGED <<cfg, at, leg, toS, toC, registered, channel, net>>

\* process_control returns: bye, end of file or the server's timeout, which
\* may expire while connect is still busy with the data connection
SessionEnds ==
    /\ srv["ctl"] = "serve"
    /\ srv' = [srv EXCEPT !["ctl"] = "done"]
    /\ registered' = FALSE /\ channel' = "none"
    /\ Interferes
    /\ UNCHANGED <<cfg, at, leg, toS, toC, net>>

\* fault: a client that has a channel is told to come back later
AttachOrBusy ==
    /\ srv["data"] = "token" /\ cfg.room
    /\ Takes("data", "token")
    /\ srv' = [srv EXCEPT !["data"] = "done"]
    /\ IF registered /\ channel = "none"
       THEN channel' = "open" /\ toC' = [toC EXCEPT !["data"] = "ok"]
       ELSE UNCHANGED channel /\ toC' = [toC EXCEPT !["data"] = "busy"]
    /\ UNCHANGED <<cfg, at, leg, registered, net, trouble>>

\* launch_data_stream: token and timeout byte are read, the channel is
\* registered and the reply written
Attach ==
    /\ srv["data"] = "token" /\ cfg.room
    /\ Takes("data", "token")
    /\ srv' = [srv EXCEPT !["data"] = "done"]
    /\ IF registered /\ channel = "none"
       THEN channel' = "open" /\ toC' = [toC EXCEPT !["data"] = "ok"]
       ELSE UNCHANGED channel /\ toC' = [toC EXCEPT !["data"] = "err"]
    /\ UNCHANGED <<cfg, at, leg, registered, net, trouble>>

\* async_channel::bounded(0) panics: the task of the handler ends, and with
\* it the connection
AttachPanics ==
    /\ srv["data"] = "token" /\ ~cfg.room
    /\ Takes("data", "token")
    /\ srv' = [srv EXCEPT !["data"] = "done"]
    /\ UNCHANGED <<cfg, at, leg, toC, registered, channel, net, trouble>>

\* the channel is registered and the OK cannot be written
AttachLost ==
    /\ srv["data"] = "token" /\ cfg.room
    /\ Takes("data", "token")
    /\ registered /\ channel = "none"
    /\ channel' = "closed"
    /\ srv' = [srv EXCEPT !["data"] = "done"]
    /\ Interferes
    /\ UNCHANGED <<cfg, at, leg, toC, registered, net>>

\* fault: the login is awaited without a timeout
HandlerTimeoutButLogin(k) ==
    /\ srv[k] \in {"greeting", "token"}
    /\ srv' = [srv EXCEPT ![k] = "done"]
    /\ Interferes
    /\ UNCHANGED <<cfg, at, leg, toS, toC, registered, channel, net>>

\* end of file, read or write error, or the stream's timeout
HandlerTimeout(k) ==
    /\ srv[k] \in {"greeting", "login", "token"}
    /\ srv' = [srv EXCEPT ![k] = "done"]
    /\ Interferes
    /\ UNCHANGED <<cfg, at, leg, toS, toC, registered, channel, net>>

\* accept() has no timeout: it ends when the client closes the connection
TlsEndOfFile(k) ==
    /\ srv[k] = "tls" /\ at = "failed" /\ net
    /\ srv' = [srv EXCEPT ![k] = "done"]
    /\ UNCHANGED <<cfg, at, leg, toS, toC, registered, channel, net, trouble>>

\* nothing comes through any more, not even the end of a connection
NetworkFails ==
    /\ net
    /\ net' = FALSE
    /\ Interferes
    /\ UNCHANGED <<cfg, at, leg, srv, toS, toC, registered, channel>>

-----------------------------------------------------------------------------
Init ==
    /\ cfg \in Setups
    /\ at = "connect" /\ leg = "ctl"
    /\ srv = [k \in Legs |-> "none"]
    /\ toS = [k \in Legs |-> "-"] /\ toC = [k \in Legs |-> "-"]
    /\ registered = FALSE /\ channel = "none"
    /\ net = TRUE /\ trouble = FALSE

ClientStep ==
    \/ OpenControl \/ ControlHeader \/ ReadToken
    \/ OpenData \/ DataHeader \/ ReadResponse
    \/ EndOfFile \/ Timeout

HandlerStep(k) ==
    init_unix_stream(k) \/ init_tcp_stream(k) \/ TlsHandshake(k)
        \/ HandlerTimeout(k) \/ TlsEndOfFile(k)

Next ==
    \/ ClientStep
    \/ \E k \in Legs : HandlerStep(k)
    \/ Login \/ WriteToken \/ TokenLost \/ SessionEnds
    \/ Attach \/ AttachPanics \/ AttachLost
    \/ NetworkFails

Spec == Init /\ [][Next]_vars

(* Both ends are polled until they wait, and every wait but that for the   *)
(* TLS handshake has a timeout.  A session whose client is gone ends, at   *)
(* the latest when the server's timeout expires.                           *)
FairSpec ==
    /\ Spec
    /\ WF_vars(ClientStep)
    /\ \A k \in Legs : WF_vars(HandlerStep(k))
    /\ WF_vars(Login) /\ WF_vars(WriteToken \/ TokenLost)
    /\ WF_vars(Attach \/ AttachPanics \/ AttachLost)
    /\ WF_vars(SessionEnds /\ (at = "failed" \/ ~net))

-----------------------------------------------------------------------------
(* Types of all variables.                                                 *)
TypeOK ==
    /\ cfg \in Setups
    /\ at \in {"connect", "tls", "header", "token", "attach", "ok", "failed"}
    /\ leg \in Legs
    /\ srv \in [Legs -> {"none", "greeting", "tls", "login", "token",
                         "registered", "serve", "done"}]
    /\ toS \in [Legs -> {"-", "greeting", "login", "token"}]
    /\ toC \in [Legs -> {"-", "header", "token", "ok", "err"}]
    /\ channel \in {"none", "open", "closed"}
    /\ {registered, net, trouble} \subseteq BOOLEAN

\* what the configurations of both ends add up to
Admits ==
    /\ cfg.sameVersion
    /\ cfg.data => cfg.room
    /\ cfg.mode = "plain" => cfg.allowPlain
    /\ cfg.mode = "tls" => cfg.hasTls /\ cfg.trusted
    /\ cfg.mode # "unix" =>
         /\ cfg.hasAcl
         /\ cfg.cred = "good" \/ (cfg.cred = "none" /\ cfg.allowAnon)

(* connect returns Ok only to a client the server admits, and as long as   *)
(* its session is served the server has the client registered with the     *)
(* data channel it asked for: both ends agree on what was set up.          *)
ConnectedIsServed ==
    at = "ok" =>
        /\ Admits
        /\ srv["ctl"] \in {"serve", "done"}
        /\ srv["ctl"] = "serve" =>
             registered /\ channel = (IF cfg.data THEN "open" ELSE "none")

(* A client is refused only for a cause: without a timeout or a network    *)
(* failure connect returns Err only when the two configurations do not     *)
(* admit the client.  In particular the token can be used as soon as it    *)
(* is received, and the data connection goes through what the control      *)
(* connection went through.                                                *)
RefusedForCause == at = "failed" /\ ~trouble => ~Admits

(* connect returns.  The exception is a TLS handshake with a peer that     *)
(* went silent: connector.connect (client.rs:382, 477) is under no timeout.*)
ConnectReturns ==
    ~Returned ~> Returned \/ (at = "tls" /\ ~net)

(* A client that gave up leaves no handler behind, with the same exception *)
(* for TlsAcceptor::accept (server.rs:507).                                *)
HandlersEnd ==
    at = "failed" ~> \A k \in Legs : \/ srv[k] \in {"none", "done"}
                                     \/ srv[k] = "tls" /\ ~net
=============================================================================
