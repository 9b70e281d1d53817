-------------------------- MODULE HandshakeProofs ---------------------------
(***************************************************************************)
(* Proofs about Handshake, for every set of configurations: the types,     *)
(* that a connect that returned Ok left both ends with the same set-up,    *)
(* and that without interference only a client that is not admitted is     *)
(* turned away.                                                            *)
(***************************************************************************)
EXTENDS Handshake, TLAPS

-----------------------------------------------------------------------------
(* The inductive invariant                                                 *)

\* the transport of the client is one the server accepts
Entry ==
    /\ cfg.mode = "plain" => cfg.allowPlain
    /\ cfg.mode = "tls" => cfg.hasTls /\ cfg.trusted

\* the control connection came through: the data connection follows it
PastControl == leg = "data" \/ at = "ok"

\* where connect stands on which connection
Course ==
    /\ at = "connect" => srv[leg] = "none"
    /\ at = "tls" => cfg.mode = "tls"
    /\ at = "token" => leg = "ctl"
    /\ at = "attach" => leg = "data"
    /\ at = "ok" => leg = (IF cfg.data THEN "data" ELSE "ctl")
    /\ leg = "data" => cfg.data
    /\ leg = "ctl" => srv["data"] = "none"

\* what a handler has found out by the time it is where it is
Checked ==
    /\ \A k \in Legs : srv[k] = "tls" => cfg.mode = "tls" /\ cfg.hasTls
    /\ \A k \in Legs : srv[k] \in {"login", "token", "registered", "serve"} => Entry
    /\ srv["ctl"] \in {"registered", "serve"} => Authorised /\ registered

\* what the client has been told is true
Told ==
    /\ toC["ctl"] = "token" =>
         Entry /\ Authorised /\ srv["ctl"] \in {"serve", "done"}
    /\ PastControl => Entry /\ Authorised /\ srv["ctl"] \in {"serve", "done"}
    /\ PastControl \/ at = "token" => cfg.sameVersion

\* the channel is made by the handler of the data connection, at its end
Attached ==
    /\ channel # "none" => srv["data"] = "done"
    /\ toC["data"] \in {"ok", "err"} => srv["data"] = "done"
    /\ toC["data"] = "ok" \/ (at = "ok" /\ cfg.data) =>
         /\ cfg.room /\ srv["data"] = "done"
         /\ srv["ctl"] = "serve" => channel = "open"

\* a handler that is done without having served has had a reason
Cause ==
    at # "failed" /\ ~trouble =>
        /\ srv["ctl"] = "done" => ~Admits
        /\ srv["data"] = "done" /\ toC["data"] # "ok" /\ at # "ok" => ~Admits

IInv ==
    /\ TypeOK
    /\ Course /\ Checked /\ Told /\ Attached /\ Cause
    /\ RefusedForCause

-----------------------------------------------------------------------------
(* The invariant holds at the start.                                       *)
LEMMA Start == Init => IInv
  BY SetupAssumption
     DEF Init, IInv, TypeOK, Legs, Course, Checked, Told, PastControl,
         Attached, Cause, RefusedForCause

(* Every step keeps the types.                                             *)
LEMMA TypeStep == TypeOK /\ [Next]_vars => TypeOK'
  <1> SUFFICES ASSUME TypeOK, [Next]_vars PROVE TypeOK'
    OBVIOUS
  <1> USE DEF TypeOK, Legs
  <1>1. CASE OpenControl
    BY <1>1 DEF OpenControl, Open
  <1>2. CASE OpenData
    BY <1>2 DEF OpenData, Open
  <1>3. CASE ControlHeader
    BY <1>3 DEF ControlHeader, Header, Fails
  <1>4. CASE DataHeader
    BY <1>4 DEF DataHeader, Header, Fails
  <1>5. CASE ReadToken
    BY <1>5 DEF ReadToken
  <1>6. CASE ReadResponse
    BY <1>6 DEF ReadResponse, Fails
  <1>7. CASE EndOfFile
    BY <1>7 DEF EndOfFile, Fails
  <1>8. CASE Timeout
    BY <1>8 DEF Timeout, Fails, Interferes
  <1>9. CASE \E k \in Legs : init_unix_stream(k)
    BY <1>9 DEF init_unix_stream, Takes, Reply
  <1>10. CASE \E k \in Legs : init_tcp_stream(k)
    BY <1>10 DEF init_tcp_stream, Takes, Reply, Refuse
  <1>11. CASE \E k \in Legs : TlsHandshake(k)
    BY <1>11 DEF TlsHandshake, Reply, Fails
  <1>12. CASE \E k \in Legs : HandlerTimeout(k)
    BY <1>12 DEF HandlerTimeout, Interferes
  <1>13. CASE \E k \in Legs : TlsEndOfFile(k)
    BY <1>13 DEF TlsEndOfFile
  <1>14. CASE Login
    <2>1. registered' \in BOOLEAN
      BY <1>14, Zenon DEF Login, Authorised
    <2> QED
      BY <1>14, <2>1 DEF Login, Takes
  <1>15. CASE WriteToken
    BY <1>15 DEF WriteToken
  <1>16. CASE TokenLost
    BY <1>16 DEF TokenLost, Interferes
  <1>17. CASE SessionEnds
    BY <1>17 DEF SessionEnds, Interferes
  <1>18. CASE Attach
    BY <1>18 DEF Attach, Takes
  <1>19. CASE AttachPanics
    BY <1>19 DEF AttachPanics, Takes
  <1>20. CASE AttachLost
    BY <1>20 DEF AttachLost, Takes, Interferes
  <1>21. CASE NetworkFails
    BY <1>21 DEF NetworkFails, Interferes
  <1>22. CASE UNCHANGED vars
    BY <1>22 DEF vars
  <1> QED
    BY <1>1, <1>2, <1>3, <1>4, <1>5, <1>6, <1>7, <1>8, <1>9, <1>10,
       <1>11, <1>12, <1>13, <1>14, <1>15, <1>16, <1>17, <1>18, <1>19,
       <1>20, <1>21, <1>22 DEF Next, ClientStep, HandlerStep

\* a configuration never changes, and with it what depends on it alone
LEMMA Fixed ==
  ASSUME [Next]_vars
  PROVE  /\ cfg' = cfg
         /\ Entry' <=> Entry
         /\ Authorised' <=> Authorised
         /\ Admits' <=> Admits
  <1>1. cfg' = cfg
    BY DEF Next, ClientStep, HandlerStep, vars, OpenControl, OpenData, Open,
           ControlHeader, DataHeader, Header, ReadToken, ReadResponse,
           EndOfFile, Timeout, init_unix_stream, init_tcp_stream,
           TlsHandshake, HandlerTimeout, TlsEndOfFile, Login, WriteToken,
           TokenLost, SessionEnds, Attach, AttachPanics, AttachLost,
           NetworkFails
  <1> QED
    BY <1>1 DEF Entry, Authorised, Admits

(* Every step keeps the invariant.                                         *)
LEMMA Step == IInv /\ [Next]_vars => IInv'
  <1> SUFFICES ASSUME IInv, [Next]_vars PROVE IInv'
    OBVIOUS
  <1>t. TypeOK /\ TypeOK'
    BY TypeStep DEF IInv
  <1>f. /\ cfg' = cfg /\ (Entry' <=> Entry)
        /\ (Authorised' <=> Authorised) /\ (Admits' <=> Admits)
    BY Fixed
  <1>i. Course /\ Checked /\ Told /\ Attached /\ Cause /\ RefusedForCause
    BY DEF IInv
  <1> USE <1>t, <1>f, <1>i DEF TypeOK, Legs
  <1>1. CASE OpenControl
    <2>1. Course' /\ Checked'
      BY <1>1 DEF OpenControl, Open, Course, Checked
    <2>2. Told' /\ Attached'
      BY <1>1 DEF OpenControl, Open, Told, PastControl, Attached, Course
    <2>3. Cause' /\ RefusedForCause'
      BY <1>1 DEF OpenControl, Open, Cause, RefusedForCause
    <2> QED
      BY <2>1, <2>2, <2>3 DEF IInv
  <1>2. CASE OpenData
    <2>1. Course' /\ Checked'
      BY <1>2 DEF OpenData, Open, Course, Checked
    <2>2. Told' /\ Attached'
      BY <1>2 DEF OpenData, Open, Told, PastControl, Attached, Course
    <2>3. Cause' /\ RefusedForCause'
      BY <1>2 DEF OpenData, Open, Cause, RefusedForCause
    <2> QED
      BY <2>1, <2>2, <2>3 DEF IInv
  <1>3. CASE ControlHeader
    <2>1. Course' /\ Checked'
      BY <1>3 DEF ControlHeader, Header, Course, Checked, Fails
    <2>2. Told' /\ Attached'
      BY <1>3 DEF ControlHeader, Header, Told, PastControl, Attached, Fails
    <2>3. Cause' /\ RefusedForCause'
      BY <1>3 DEF ControlHeader, Header, Cause, RefusedForCause, Admits
    <2> QED
      BY <2>1, <2>2, <2>3 DEF IInv
  <1>4. CASE DataHeader
    <2>1. Course' /\ Checked'
      BY <1>4 DEF DataHeader, Header, Course, Checked, Fails
    <2>2. Told' /\ Attached'
      BY <1>4 DEF DataHeader, Header, Told, PastControl, Attached
    <2>3. Cause' /\ RefusedForCause'
      BY <1>4 DEF DataHeader, Header, Cause, RefusedForCause, Admits
    <2> QED
      BY <2>1, <2>2, <2>3 DEF IInv
  <1>5. CASE ReadToken
    <2>1. Course' /\ Checked'
      BY <1>5 DEF ReadToken, Course, Checked
    <2>2. Told' /\ Attached'
      BY <1>5 DEF ReadToken, Told, PastControl, Attached
    <2>3. Cause' /\ RefusedForCause'
      BY <1>5 DEF ReadToken, Cause, RefusedForCause
    <2> QED
      BY <2>1, <2>2, <2>3 DEF IInv
  <1>6. CASE ReadResponse
    <2>1. Course' /\ Checked'
      BY <1>6 DEF ReadResponse, Course, Checked, Fails
    <2>2. Told' /\ Attached'
      BY <1>6 DEF ReadResponse, Told, PastControl, Attached, Course, Fails
    <2>3. Cause' /\ RefusedForCause'
      BY <1>6 DEF ReadResponse, Cause, RefusedForCause, Attached
    <2> QED
      BY <2>1, <2>2, <2>3 DEF IInv
  <1>7. CASE EndOfFile
    <2>1. Course' /\ Checked'
      BY <1>7 DEF EndOfFile, Course, Checked, Fails
    <2>2. Told' /\ Attached'
      BY <1>7 DEF EndOfFile, Told, PastControl, Attached, Fails
    <2>3. Cause' /\ RefusedForCause'
      BY <1>7 DEF EndOfFile, Cause, RefusedForCause
    <2> QED
      BY <2>1, <2>2, <2>3 DEF IInv
  <1>8. CASE Timeout
    <2>1. Course' /\ Checked'
      BY <1>8 DEF Timeout, Course, Checked, Fails
    <2>2. Told' /\ Attached'
      BY <1>8 DEF Timeout, Told, PastControl, Attached, Fails
    <2>3. Cause' /\ RefusedForCause'
      BY <1>8 DEF Timeout, Cause, RefusedForCause, Interferes
    <2> QED
      BY <2>1, <2>2, <2>3 DEF IInv
  <1>9. CASE \E k \in Legs : init_unix_stream(k)
    <2>1. Course' /\ Checked'
      BY <1>9 DEF init_unix_stream, Course, Checked, Entry, Reply
    <2>2. Told' /\ Attached'
      BY <1>9 DEF init_unix_stream, Told, PastControl, Attached, Reply
    <2>3. Cause' /\ RefusedForCause'
      BY <1>9 DEF init_unix_stream, Cause, RefusedForCause, Reply
    <2> QED
      BY <2>1, <2>2, <2>3 DEF IInv
  <1>10. CASE \E k \in Legs : init_tcp_stream(k)
    <2>1. Course' /\ Checked'
      BY <1>10 DEF init_tcp_stream, Course, Checked, Entry, Reply, Refuse
    <2>2. Told' /\ Attached'
      BY <1>10
         DEF init_tcp_stream, Told, PastControl, Attached, Reply,
             Refuse
    <2>3. Cause' /\ RefusedForCause'
      BY <1>10 DEF init_tcp_stream, Cause, RefusedForCause, Admits, Reply
    <2> QED
      BY <2>1, <2>2, <2>3 DEF IInv
  <1>11. CASE \E k \in Legs : TlsHandshake(k)
    <2>1. Course' /\ Checked'
      BY <1>11 DEF TlsHandshake, Course, Checked, Entry, Fails, Reply
    <2>2. Told' /\ Attached'
      BY <1>11 DEF TlsHandshake, Told, PastControl, Attached, Fails, Reply
    <2>3. Cause' /\ RefusedForCause'
      BY <1>11
         DEF TlsHandshake, Cause, RefusedForCause, Course, Admits,
             Reply
    <2> QED
      BY <2>1, <2>2, <2>3 DEF IInv
  <1>12. CASE \E k \in Legs : HandlerTimeout(k)
    <2>1. Course' /\ Checked'
      BY <1>12 DEF HandlerTimeout, Course, Checked
    <2>2. Told' /\ Attached'
      BY <1>12 DEF HandlerTimeout, Told, PastControl, Attached
    <2>3. Cause' /\ RefusedForCause'
      BY <1>12 DEF HandlerTimeout, Cause, RefusedForCause, Interferes
    <2> QED
      BY <2>1, <2>2, <2>3 DEF IInv
  <1>13. CASE \E k \in Legs : TlsEndOfFile(k)
    <2>1. Course' /\ Checked'
      BY <1>13 DEF TlsEndOfFile, Course, Checked
    <2>2. Told' /\ Attached'
      BY <1>13 DEF TlsEndOfFile, Told, PastControl, Attached
    <2>3. Cause' /\ RefusedForCause'
      BY <1>13 DEF TlsEndOfFile, Cause, RefusedForCause
    <2> QED
      BY <2>1, <2>2, <2>3 DEF IInv
  <1>14. CASE Login
    <2>1. Course' /\ Checked'
      BY <1>14 DEF Login, Course, Checked
    <2>2. Told' /\ Attached'
      BY <1>14 DEF Login, Told, PastControl, Attached
    <2>3. Cause' /\ RefusedForCause'
      BY <1>14 DEF Login, Cause, RefusedForCause, Admits, Authorised
    <2> QED
      BY <2>1, <2>2, <2>3 DEF IInv
  <1>15. CASE WriteToken
    <2>1. Course' /\ Checked'
      BY <1>15 DEF WriteToken, Course, Checked
    <2>2. Told' /\ Attached'
      BY <1>15 DEF WriteToken, Told, PastControl, Attached, Checked, Course
    <2>3. Cause' /\ RefusedForCause'
      BY <1>15 DEF WriteToken, Cause, RefusedForCause
    <2> QED
      BY <2>1, <2>2, <2>3 DEF IInv
  <1>16. CASE TokenLost
    <2>1. Course' /\ Checked'
      BY <1>16 DEF TokenLost, Course, Checked
    <2>2. Told' /\ Attached'
      BY <1>16 DEF TokenLost, Told, PastControl, Attached
    <2>3. Cause' /\ RefusedForCause'
      BY <1>16 DEF TokenLost, Cause, RefusedForCause, Interferes
    <2> QED
      BY <2>1, <2>2, <2>3 DEF IInv
  <1>17. CASE SessionEnds
    <2>1. Course' /\ Checked'
      BY <1>17 DEF SessionEnds, Course, Checked
    <2>2. Told' /\ Attached'
      BY <1>17 DEF SessionEnds, Told, PastControl, Attached
    <2>3. Cause' /\ RefusedForCause'
      BY <1>17 DEF SessionEnds, Cause, RefusedForCause, Interferes
    <2> QED
      BY <2>1, <2>2, <2>3 DEF IInv
  <1>18. CASE Attach
    <2>1. Course' /\ Checked'
      BY <1>18 DEF Attach, Course, Checked
    <2>2. Told' /\ Attached'
      BY <1>18 DEF Attach, Told, PastControl, Attached
    <2>3. Cause' /\ RefusedForCause'
      BY <1>18
         DEF Attach, Cause, RefusedForCause, Attached, Told,
             PastControl, Checked, Course
    <2> QED
      BY <2>1, <2>2, <2>3 DEF IInv
  <1>19. CASE AttachPanics
    <2>1. Course' /\ Checked'
      BY <1>19 DEF AttachPanics, Course, Checked
    <2>2. Told' /\ Attached'
      BY <1>19 DEF AttachPanics, Told, PastControl, Attached
    <2>3. Cause' /\ RefusedForCause'
      BY <1>19 DEF AttachPanics, Cause, RefusedForCause, Course, Admits
    <2> QED
      BY <2>1, <2>2, <2>3 DEF IInv
  <1>20. CASE AttachLost
    <2>1. Course' /\ Checked'
      BY <1>20 DEF AttachLost, Course, Checked
    <2>2. Told' /\ Attached'
      BY <1>20 DEF AttachLost, Told, PastControl, Attached
    <2>3. Cause' /\ RefusedForCause'
      BY <1>20 DEF AttachLost, Cause, RefusedForCause, Interferes
    <2> QED
      BY <2>1, <2>2, <2>3 DEF IInv
  <1>21. CASE NetworkFails
    <2>1. Course' /\ Checked'
      BY <1>21 DEF NetworkFails, Course, Checked
    <2>2. Told' /\ Attached'
      BY <1>21 DEF NetworkFails, Told, PastControl, Attached
    <2>3. Cause' /\ RefusedForCause'
      BY <1>21 DEF NetworkFails, Cause, RefusedForCause, Interferes
    <2> QED
      BY <2>1, <2>2, <2>3 DEF IInv
  <1>22. CASE UNCHANGED vars
    <2>1. Course' /\ Checked'
      BY <1>22 DEF vars, Course, Checked
    <2>2. Told' /\ Attached'
      BY <1>22 DEF vars, Told, PastControl, Attached
    <2>3. Cause' /\ RefusedForCause'
      BY <1>22 DEF vars, Cause, RefusedForCause
    <2> QED
      BY <2>1, <2>2, <2>3 DEF IInv
  <1> QED
    BY <1>1, <1>2, <1>3, <1>4, <1>5, <1>6, <1>7, <1>8, <1>9, <1>10,
       <1>11, <1>12, <1>13, <1>14, <1>15, <1>16, <1>17, <1>18, <1>19,
       <1>20, <1>21, <1>22 DEF Next, ClientStep, HandlerStep

(* The invariant holds in every reachable state.                           *)
THEOREM Invariance == Spec => []IInv
  BY Start, Step, PTL DEF Spec

(* Types of all variables.                                                 *)
THEOREM TypeCorrectness == Spec => []TypeOK
  <1>1. IInv => TypeOK
    BY DEF IInv
  <1> QED
    BY <1>1, Invariance, PTL

(* When Client::connect returns Ok the server's configuration admits the   *)
(* client, and as long as the session is served the server has the client  *)
(* registered, with a data channel exactly when the client asked for one.  *)
THEOREM BothEndsAgree == Spec => []ConnectedIsServed
  <1>1. IInv => ConnectedIsServed
    <2> SUFFICES ASSUME IInv, at = "ok" PROVE ConnectedIsServed
      BY DEF ConnectedIsServed
    <2>1. Admits
      BY DEF IInv, Course, Told, PastControl, Attached, Entry, Authorised, Admits
    <2>2. srv["ctl"] \in {"serve", "done"}
      BY DEF IInv, Told, PastControl
    <2>3. ASSUME srv["ctl"] = "serve"
          PROVE  registered /\ channel = (IF cfg.data THEN "open" ELSE "none")
      BY <2>3 DEF IInv, Course, Checked, Attached
    <2> QED
      BY <2>1, <2>2, <2>3 DEF ConnectedIsServed
  <1> QED
    BY <1>1, Invariance, PTL

(* connect returns Err only if a timeout or the network interfered or the  *)
(* configurations of the two ends do not admit the client.                 *)
THEOREM NoOneTurnedAway == Spec => []RefusedForCause
  <1>1. IInv => RefusedForCause
    BY DEF IInv
  <1> QED
    BY <1>1, Invariance, PTL
=============================================================================
