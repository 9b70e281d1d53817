---------------------------- MODULE DaemonProofs ----------------------------
(***************************************************************************)
(* The answers of the authentication databases follow the files, and an    *)
(* orderly end leaves nothing behind, for any logins, requests, edits and  *)
(* faults.                                                                 *)
(***************************************************************************)
EXTENDS Daemon, TLAPS

(* Only the loading process is at a file, and it has read nothing yet when *)
(* it begins.  Before the load there are no signal handlers.               *)
Begun ==
    /\ pass = "none" => got = None
    /\ proc \in {"down", "bind"} => pass = "none" /\ handlers = {}

(* What the pass has read is still what the file says, or could not be     *)
(* read.                                                                   *)
ReadIsCurrent ==
    (calm \/ exact) /\ got # None => got \in {disk[pass], Bad}

(* A calm pass has brought the tables before its file up to date.          *)
CalmPass ==
    calm => /\ pass \in {"pw", "key"} => table["acl"] = disk["acl"]
            /\ pass = "key" => table["pw"] = disk["pw"]

(* After a calm pass, and until the files change, the tables are what the  *)
(* files say; a key needs an ACL.                                          *)
ExactTables ==
    exact => /\ table["acl"] = disk["acl"]
             /\ table["pw"] = disk["pw"]
             /\ table["key"] = disk["key"] \cap disk["acl"]

(* A request the files are owed to has passed the tests behind it.         *)
Judged(q) ==
    /\ q.at = "auth" => q.kind # "open"
    /\ q.sure =>
         /\ exact
         /\ q.at = "acl" /\ q.kind = "password" => q.login \in disk["pw"]
         /\ q.at = "acl" /\ q.kind = "key" => q.login \in disk["key"]
         /\ q.at = "granted" => Entitled(q.kind, q.login)
         /\ q.at = "denied" => ~Entitled(q.kind, q.login)

AuthInv ==
    /\ ReadIsCurrent /\ CalmPass /\ ExactTables
    /\ \A r \in Requests : Judged(req[r])

(* A process that serves has its pid file on record; the steps of an       *)
(* orderly termination take the two files away, and nothing brings them    *)
(* back.                                                                   *)
EndInv ==
    /\ standalone /\ proc \in {"write", "serve"} => PID_FILE
    /\ term # "no" => standalone
    /\ orderly => proc = "serve"
    /\ orderly /\ term \in {"cleanup", "exit"} => ~pidfile
    /\ orderly /\ term = "exit" => ~sock

IInv == TypeOK /\ Begun /\ AuthInv /\ EndInv

-----------------------------------------------------------------------------
(* What the databases do keeps their part of the invariant.                *)

\* nothing happens to the databases
LEMMA AuthSame ==
    ASSUME IInv, UNCHANGED authvars
    PROVE  AuthTypeOK' /\ AuthInv'
BY DEF IInv, TypeOK, AuthTypeOK, AuthInv, ReadIsCurrent, CalmPass, ExactTables,
       Judged, Entitled, authvars

\* the process ends, and its tables with it
LEMMA AuthForgot ==
    ASSUME IInv, AuthForgets
    PROVE  AuthTypeOK' /\ AuthInv' /\ pass' = "none" /\ got' = None
BY DEF IInv, TypeOK, AuthTypeOK, AuthInv, ReadIsCurrent, CalmPass, ExactTables,
       Judged, Entitled, AuthForgets, Idle, Files, Kinds

\* a file is read
LEMMA LoadKeeps ==
    ASSUME IInv, Load
    PROVE  AuthTypeOK' /\ AuthInv' /\ pass' = pass
<1>1. AuthTypeOK'
  BY DEF IInv, TypeOK, AuthTypeOK, Load
<1>2. ReadIsCurrent' /\ CalmPass' /\ ExactTables'
  BY DEF IInv, AuthInv, ReadIsCurrent, CalmPass, ExactTables, Load
<1>3. \A r \in Requests : Judged(req[r])'
  BY DEF IInv, AuthInv, Judged, Entitled, Load
<1> QED BY <1>1, <1>2, <1>3 DEF AuthInv, Load

\* a table is replaced or kept
LEMMA ApplyKeeps ==
    ASSUME IInv, Apply, pass # "none"
    PROVE  AuthTypeOK' /\ AuthInv' /\ got' = None
<1> USE DEF Files
<1>1. pass \in Files /\ table \in [Files -> SUBSET Logins]
  BY DEF IInv, TypeOK, AuthTypeOK
<1>2. got # Bad => Parsed(pass, got) \in SUBSET Logins
  BY <1>1 DEF IInv, TypeOK, AuthTypeOK, Parsed, Apply
<1>3. AuthTypeOK'
  BY <1>1, <1>2 DEF IInv, TypeOK, AuthTypeOK, Apply, Following
<1>4. ReadIsCurrent'
  BY DEF Apply, ReadIsCurrent
<1>5. CalmPass'
  <2>1. SUFFICES ASSUME calm' PROVE CalmPass' BY DEF CalmPass
  <2>2. calm /\ got = disk[pass] /\ got # Bad
    BY <2>1 DEF IInv, AuthInv, ReadIsCurrent, Apply
  <2>3. /\ table' = [table EXCEPT ![pass] = Parsed(pass, got)]
        /\ pass' = Following[pass] /\ disk' = disk
    BY <2>2 DEF Apply
  <2>4. CASE pass = "acl"
    BY <1>1, <2>2, <2>3, <2>4 DEF CalmPass, Parsed, Following
  <2>5. CASE pass = "pw"
    <3>1. table["acl"] = disk["acl"] BY <2>2, <2>5 DEF IInv, AuthInv, CalmPass
    <3> QED BY <1>1, <2>2, <2>3, <2>5, <3>1 DEF CalmPass, Parsed, Following
  <2>6. CASE pass = "key"
    BY <2>3, <2>6 DEF CalmPass, Following
  <2> QED BY <1>1, <2>4, <2>5, <2>6
<1>6. ExactTables'
  <2>1. CASE exact
    BY <1>1, <2>1 DEF IInv, AuthInv, ReadIsCurrent, ExactTables, Apply, Parsed
  <2>2. CASE ~exact
    <3>1. SUFFICES ASSUME exact' PROVE ExactTables' BY DEF ExactTables
    <3>2. pass = "key" /\ calm /\ got # Bad
      BY <2>2, <3>1 DEF Apply
    <3>3. got = disk["key"] /\ table["acl"] = disk["acl"] /\ table["pw"] = disk["pw"]
      BY <3>2 DEF IInv, AuthInv, ReadIsCurrent, CalmPass, Apply
    <3> QED BY <1>1, <3>2, <3>3 DEF ExactTables, Apply, Parsed
  <2> QED BY <2>1, <2>2
<1>7. \A r \in Requests : Judged(req[r])'
  BY DEF IInv, AuthInv, Judged, Entitled, Apply
<1> QED BY <1>3, <1>4, <1>5, <1>6, <1>7 DEF AuthInv, Apply

\* a pass begins
LEMMA PassKeeps ==
    ASSUME IInv, PassBegins, pass = "none",
           UNCHANGED <<disk, edits, table, got, exact, req>>
    PROVE  AuthTypeOK' /\ AuthInv' /\ pass' # "none"
<1>1. AuthTypeOK'
  BY DEF IInv, TypeOK, AuthTypeOK, PassBegins, Files
<1>2. ReadIsCurrent' /\ CalmPass' /\ ExactTables'
  BY DEF IInv, Begun, AuthInv, ReadIsCurrent, CalmPass, ExactTables, PassBegins
<1>3. \A r \in Requests : Judged(req[r])'
  BY DEF IInv, AuthInv, Judged, Entitled
<1> QED BY <1>1, <1>2, <1>3 DEF AuthInv, PassBegins

\* a read fails
LEMMA FailKeeps ==
    ASSUME IInv, got' = Bad, UNCHANGED <<disk, edits, table, pass, calm, exact, req>>
    PROVE  AuthTypeOK' /\ AuthInv'
BY DEF IInv, TypeOK, AuthTypeOK, AuthInv, ReadIsCurrent, CalmPass, ExactTables,
       Judged, Entitled

\* a file is replaced: no request is owed anything any more
LEMMA EditKeeps ==
    ASSUME IInv, NEW f \in Files, Edit(f)
    PROVE  AuthTypeOK' /\ AuthInv' /\ pass' = pass /\ got' = got
<1>1. AuthTypeOK'
  <2>1. edits' \in 0..MaxEdits
    BY FaultAssumption DEF IInv, TypeOK, AuthTypeOK, Edit
  <2>2. req' \in [Requests ->
         [at : {"idle", "auth", "acl", "granted", "denied"},
          kind : Kinds, login : Logins \union {None}, sure : BOOLEAN]]
    <3> DEFINE Q == [at : {"idle", "auth", "acl", "granted", "denied"},
                     kind : Kinds, login : Logins \union {None}, sure : BOOLEAN]
    <3>1. req \in [Requests -> Q]
      BY DEF IInv, TypeOK, AuthTypeOK
    <3>2. ASSUME NEW q \in Q PROVE [q EXCEPT !.sure = FALSE] \in Q
      OBVIOUS
    <3>3. req' = [r \in Requests |-> [req[r] EXCEPT !.sure = FALSE]]
      BY DEF Edit
    <3> HIDE DEF Q
    <3>4. req' \in [Requests -> Q] BY <3>1, <3>2, <3>3
    <3> QED BY <3>4 DEF Q
  <2>3. disk' \in [Files -> (SUBSET Logins) \union {Bad}]
    BY DEF IInv, TypeOK, AuthTypeOK, Edit
  <2> QED BY <2>1, <2>2, <2>3 DEF IInv, TypeOK, AuthTypeOK, Edit
<1>2. ReadIsCurrent' /\ CalmPass' /\ ExactTables'
  BY DEF ReadIsCurrent, CalmPass, ExactTables, Edit
<1>3. \A r \in Requests : Judged(req[r])'
  BY DEF IInv, TypeOK, AuthTypeOK, AuthInv, Judged, Edit
<1> QED BY <1>1, <1>2, <1>3 DEF AuthInv, Edit

-----------------------------------------------------------------------------
(* Requests.  Only one of them moves, and the databases stay as they are.  *)

RequestType ==
    [at : {"idle", "auth", "acl", "granted", "denied"},
     kind : Kinds, login : Logins \union {None}, sure : BOOLEAN]

\* a request that moves to a state it deserves
LEMMA MoveKeeps ==
    ASSUME IInv, NEW r \in Requests, NEW q \in RequestType,
           req' = [req EXCEPT ![r] = q], Judged(q),
           UNCHANGED <<disk, edits, table, pass, got, calm, exact>>
    PROVE  AuthTypeOK' /\ AuthInv'
<1>1. req \in [Requests -> RequestType]
  BY DEF IInv, TypeOK, AuthTypeOK, RequestType
<1>2. req' \in [Requests -> RequestType]
  BY <1>1
<1>3. AuthTypeOK'
  BY <1>2 DEF IInv, TypeOK, AuthTypeOK, RequestType
<1>4. ReadIsCurrent' /\ CalmPass' /\ ExactTables'
  BY DEF IInv, AuthInv, ReadIsCurrent, CalmPass, ExactTables
<1>5. ASSUME NEW x \in Requests PROVE Judged(req[x])'
  <2>1. Judged(req'[x])
    BY <1>1 DEF IInv, AuthInv
  <2> QED BY <2>1 DEF Judged, Entitled
<1> QED BY <1>3, <1>4, <1>5 DEF AuthInv

(* A request that begins keeps the invariant of the databases, and         *)
(* touches no pass over the files.                                         *)
LEMMA BeginKeeps ==
    ASSUME IInv, NEW r \in Requests, NEW kind \in Kinds, NEW login \in Logins,
           Begin(r, kind, login)
    PROVE  AuthTypeOK' /\ AuthInv' /\ pass' = pass /\ got' = got
<1> DEFINE q == [at |-> IF kind = "open" THEN "acl" ELSE "auth",
                 kind |-> kind, login |-> login, sure |-> exact]
<1>1. q \in RequestType
  BY DEF RequestType, IInv, TypeOK, AuthTypeOK
<1>2. Judged(q)
  BY DEF Judged, Kinds
<1>3. req' = [req EXCEPT ![r] = q]
      /\ UNCHANGED <<disk, edits, table, pass, got, calm, exact>>
  BY DEF Begin
<1> QED BY <1>1, <1>2, <1>3, MoveKeeps

\* a request moves from one lock to the next, or is answered
LEMMA ServeKeeps ==
    ASSUME IInv, NEW r \in Requests, Authenticate(r) \/ get_acl(r) \/ Answer(r)
    PROVE  AuthTypeOK' /\ AuthInv' /\ pass' = pass /\ got' = got
<1>1. req[r] \in RequestType /\ Judged(req[r]) /\ ExactTables
  BY DEF IInv, TypeOK, AuthTypeOK, RequestType, AuthInv
<1>2. ASSUME NEW where \in {"acl", "granted", "denied"}, Goes(r, where),
             Judged([req[r] EXCEPT !.at = where])
      PROVE  AuthTypeOK' /\ AuthInv' /\ pass' = pass /\ got' = got
  <2> DEFINE q == [req[r] EXCEPT !.at = where]
  <2>1. q \in RequestType BY <1>1 DEF RequestType
  <2>2. req' = [req EXCEPT ![r] = q]
        /\ UNCHANGED <<disk, edits, table, pass, got, calm, exact>>
    BY <1>2 DEF Goes
  <2> QED BY <1>2, <2>1, <2>2, MoveKeeps
<1>3. CASE Authenticate(r)
  <2> DEFINE f     == IF req[r].kind = "key" THEN "key" ELSE "pw"
             where == IF req[r].login \in table[f] THEN "acl" ELSE "denied"
             q     == [req[r] EXCEPT !.at = where]
  <2>1. req[r].at = "auth" /\ Goes(r, where)
    BY <1>3 DEF Authenticate
  <2>2. Judged(q)
    BY <1>1, <2>1 DEF Judged, Entitled, ExactTables, RequestType, Kinds
  <2> QED BY <1>2, <2>1, <2>2
<1>4. CASE get_acl(r)
  <2> DEFINE where == IF req[r].login \in table["acl"] THEN "granted" ELSE "denied"
             q     == [req[r] EXCEPT !.at = where]
  <2>1. req[r].at = "acl" /\ Goes(r, where)
    BY <1>4 DEF get_acl
  <2>2. Judged(q)
    BY <1>1, <2>1 DEF Judged, Entitled, ExactTables, RequestType, Kinds
  <2> QED BY <1>2, <2>1, <2>2
<1>5. CASE Answer(r)
  <2>1. Idle \in RequestType /\ Judged(Idle)
    BY DEF Idle, RequestType, Kinds, Judged
  <2> QED BY <1>5, <2>1, MoveKeeps DEF Answer
<1> QED BY <1>3, <1>4, <1>5

-----------------------------------------------------------------------------
(* The process.                                                            *)

\* what is left of the invariant besides the databases
ProcInv ==
    /\ proc \in {"down", "bind", "load", "launch", "write", "serve"}
    /\ handlers \subseteq {"hup", "term"}
    /\ term \in {"no", "lock", "cleanup", "exit"}
    /\ {standalone, sock, pidfile, PID_FILE, orderly} \subseteq BOOLEAN
    /\ faults \in 0..MaxFaults
    /\ Begun /\ EndInv

\* a fault is counted
LEMMA Counted ==
    ASSUME IInv, Fault
    PROVE  faults' \in 0..MaxFaults
BY FaultAssumption DEF IInv, TypeOK, Fault

\* the process ends
LEMMA Dying ==
    ASSUME IInv, NEW sk \in BOOLEAN, NEW pf \in BOOLEAN, Dies(sk, pf),
           faults' \in 0..MaxFaults
    PROVE  IInv'
<1>1. AuthTypeOK' /\ AuthInv' /\ pass' = "none" /\ got' = None
  BY AuthForgot DEF Dies
<1>2. ProcInv'
  BY <1>1 DEF IInv, TypeOK, ProcInv, Begun, EndInv, Dies
<1> QED BY <1>1, <1>2 DEF IInv, TypeOK, ProcInv

\* the process has not been started
LEMMA Initially ==
    Init => IInv
<1> SUFFICES ASSUME Init PROVE IInv OBVIOUS
<1>1. edits \in 0..MaxEdits /\ faults \in 0..MaxFaults
  BY FaultAssumption DEF Init, AuthInit
<1>2. disk \in [Files -> (SUBSET Logins) \union {Bad}]
  BY DEF Init, AuthInit
<1>3. req \in [Requests ->
         [at : {"idle", "auth", "acl", "granted", "denied"},
          kind : Kinds, login : Logins \union {None}, sure : BOOLEAN]]
  BY DEF Init, AuthInit, Idle, Kinds
<1>4. AuthTypeOK
  BY <1>1, <1>2, <1>3 DEF Init, AuthInit, AuthTypeOK
<1>5. AuthInv
  BY DEF Init, AuthInit, AuthInv, ReadIsCurrent, CalmPass, ExactTables, Judged, Idle
<1>6. {standalone, sock, pidfile, PID_FILE, orderly} \subseteq BOOLEAN
  BY DEF Init
<1>7. Begun /\ EndInv
  BY DEF Init, AuthInit, Begun, EndInv
<1>8. ProcInv
  BY <1>1, <1>6, <1>7 DEF Init, ProcInv
<1> QED BY <1>4, <1>5, <1>8 DEF IInv, TypeOK, ProcInv

(* Every step of the process keeps the invariant.                          *)
LEMMA Step ==
    IInv /\ [Next]_vars => IInv'
<1> SUFFICES ASSUME IInv, [Next]_vars PROVE IInv'
  OBVIOUS
<1>0. /\ ProcInv /\ AuthTypeOK /\ AuthInv
      /\ {sock, pidfile} \subseteq BOOLEAN /\ faults \in 0..MaxFaults
  BY DEF IInv, TypeOK, ProcInv
<1>1. CASE Start
  <2>1. AuthTypeOK' /\ AuthInv'
    BY <1>1, AuthSame DEF Start
  <2>2. ProcInv'
    BY <1>0, <1>1 DEF ProcInv, Begun, EndInv, Start, authvars
  <2> QED BY <2>1, <2>2 DEF IInv, TypeOK, ProcInv
<1>2. CASE Bind
  <2>1. pass = "none" BY <1>0, <1>2 DEF ProcInv, Begun, Bind
  <2>2. AuthTypeOK' /\ AuthInv' /\ pass' # "none"
    BY <1>2, <2>1, PassKeeps DEF Bind
  <2>3. ProcInv'
    BY <1>0, <1>2, <2>2 DEF ProcInv, Begun, EndInv, Bind
  <2> QED BY <2>2, <2>3 DEF IInv, TypeOK, ProcInv
<1>3. CASE StartFails
  <2>1. PICK sk \in BOOLEAN : Dies(sk, pidfile) BY <1>3 DEF StartFails
  <2>2. faults' \in 0..MaxFaults BY <1>3, Counted DEF StartFails
  <2> QED BY <1>0, <2>1, <2>2, Dying
<1>4. CASE StartLoads
  <2>1. CASE pass # "none" /\ (Load \/ Apply) /\ UNCHANGED procvars
    <3>1. AuthTypeOK' /\ AuthInv' /\ (pass' = pass \/ got' = None)
      BY <2>1, LoadKeeps, ApplyKeeps
    <3>2. ProcInv'
      BY <1>0, <1>4, <2>1, <3>1 DEF ProcInv, Begun, EndInv, procvars, StartLoads
    <3> QED BY <3>1, <3>2 DEF IInv, TypeOK, ProcInv
  <2>2. CASE Dies(sock, pidfile) /\ UNCHANGED faults
    BY <1>0, <2>2, Dying
  <2>3. CASE /\ proc' = "launch"
             /\ UNCHANGED <<authvars, standalone, handlers, term, sock, pidfile,
                            PID_FILE, orderly, faults>>
    <3>1. AuthTypeOK' /\ AuthInv' BY <2>3, AuthSame
    <3>2. ProcInv'
      BY <1>0, <1>4, <2>3 DEF ProcInv, Begun, EndInv, authvars, StartLoads
    <3> QED BY <3>1, <3>2 DEF IInv, TypeOK, ProcInv
  <2> QED BY <1>4, <2>1, <2>2, <2>3 DEF StartLoads
<1>5. ASSUME NEW kind \in {"hup", "term"}, Install(kind) PROVE IInv'
  <2>1. AuthTypeOK' /\ AuthInv' BY <1>5, AuthSame DEF Install
  <2>2. ProcInv'
    BY <1>0, <1>5 DEF ProcInv, Begun, EndInv, Install, authvars
  <2> QED BY <2>1, <2>2 DEF IInv, TypeOK, ProcInv
<1>6. CASE SetPidFile
  <2>1. AuthTypeOK' /\ AuthInv'
    BY <1>6, AuthSame DEF SetPidFile
  <2>2. ProcInv'
    BY <1>0, <1>6 DEF ProcInv, Begun, EndInv, SetPidFile, authvars
  <2> QED BY <2>1, <2>2 DEF IInv, TypeOK, ProcInv
<1>7. CASE Listen
  <2>1. AuthTypeOK' /\ AuthInv'
    BY <1>7, AuthSame DEF Listen
  <2>2. ProcInv'
    BY <1>0, <1>7 DEF ProcInv, Begun, EndInv, Listen, authvars
  <2> QED BY <2>1, <2>2 DEF IInv, TypeOK, ProcInv
<1>8. CASE LaunchFails
  <2>1. PICK sk \in {sock, FALSE}, pf \in {pidfile, pidfile \/ proc = "write"} :
          Dies(sk, pf)
    BY <1>8 DEF LaunchFails
  <2>2. sk \in BOOLEAN /\ pf \in BOOLEAN BY <1>0
  <2>3. faults' \in 0..MaxFaults BY <1>8, Counted DEF LaunchFails
  <2> QED BY <2>1, <2>2, <2>3, Dying
<1>9. CASE Hangup
  <2>1. faults' \in 0..MaxFaults BY <1>9, Counted DEF Hangup
  <2>2. CASE Dies(sock, pidfile)
    BY <1>0, <2>1, <2>2, Dying
  <2>3. CASE /\ "hup" \in handlers /\ pass = "none" /\ PassBegins
             /\ UNCHANGED <<disk, edits, table, got, exact, req, standalone, proc,
                            handlers, term, sock, pidfile, PID_FILE, orderly>>
    <3>1. AuthTypeOK' /\ AuthInv' /\ pass' # "none" BY <2>3, PassKeeps
    <3>2. ProcInv'
      BY <1>0, <2>1, <2>3, <3>1 DEF ProcInv, Begun, EndInv
    <3> QED BY <3>1, <3>2 DEF IInv, TypeOK, ProcInv
  <2>4. CASE UNCHANGED <<authvars, standalone, proc, handlers, term, sock,
                         pidfile, PID_FILE, orderly>>
    <3>1. AuthTypeOK' /\ AuthInv' BY <2>4, AuthSame
    <3>2. ProcInv'
      BY <1>0, <2>1, <2>4 DEF ProcInv, Begun, EndInv, authvars
    <3> QED BY <3>1, <3>2 DEF IInv, TypeOK, ProcInv
  <2> QED BY <1>9, <2>2, <2>3, <2>4 DEF Hangup
<1>10. CASE Reload
  <2>1. AuthTypeOK' /\ AuthInv' /\ (pass' = pass \/ got' = None)
    BY <1>10, LoadKeeps, ApplyKeeps DEF Reload
  <2>2. ProcInv'
    BY <1>0, <1>10, <2>1 DEF ProcInv, Begun, EndInv, procvars, Reload
  <2> QED BY <2>1, <2>2 DEF IInv, TypeOK, ProcInv
<1>11. CASE LoadFails
  <2>1. faults' \in 0..MaxFaults BY <1>11, Counted DEF LoadFails
  <2>2. AuthTypeOK' /\ AuthInv' BY <1>11, FailKeeps DEF LoadFails
  <2>3. ProcInv'
    BY <1>0, <1>11, <2>1 DEF ProcInv, Begun, EndInv, LoadFails
  <2> QED BY <2>2, <2>3 DEF IInv, TypeOK, ProcInv
<1>12. CASE Terminate
  <2>1. faults' \in 0..MaxFaults BY <1>12, Counted DEF Terminate
  <2>2. CASE Dies(sock, pidfile)
    BY <1>0, <2>1, <2>2, Dying
  <2>3. CASE /\ term' = "lock" /\ orderly' = (proc = "serve")
             /\ UNCHANGED <<authvars, standalone, proc, handlers, sock, pidfile,
                            PID_FILE>>
    <3>1. AuthTypeOK' /\ AuthInv' BY <2>3, AuthSame
    <3>2. ProcInv'
      BY <1>0, <1>12, <2>1, <2>3 DEF ProcInv, Begun, EndInv, authvars, Terminate
    <3> QED BY <3>1, <3>2 DEF IInv, TypeOK, ProcInv
  <2> QED BY <1>12, <2>2, <2>3 DEF Terminate
<1>13. CASE TermPid
  <2>1. AuthTypeOK' /\ AuthInv'
    BY <1>13, AuthSame DEF TermPid
  <2>2. ProcInv'
    BY <1>0, <1>13 DEF ProcInv, Begun, EndInv, TermPid, authvars
  <2> QED BY <2>1, <2>2 DEF IInv, TypeOK, ProcInv
<1>14. CASE cleanup
  <2>1. AuthTypeOK' /\ AuthInv'
    BY <1>14, AuthSame DEF cleanup
  <2>2. ProcInv'
    BY <1>0, <1>14 DEF ProcInv, Begun, EndInv, cleanup, authvars
  <2> QED BY <2>1, <2>2 DEF IInv, TypeOK, ProcInv
<1>15. CASE Exit
  BY <1>0, <1>15, Dying DEF Exit
<1>16. CASE Crash
  <2>1. faults' \in 0..MaxFaults BY <1>16, Counted DEF Crash
  <2> QED BY <1>0, <1>16, <2>1, Dying DEF Crash
<1>17. ASSUME NEW r \in Requests, Request(r) PROVE IInv'
  <2>1. AuthTypeOK' /\ AuthInv' /\ pass' = pass /\ got' = got
    BY <1>17, BeginKeeps DEF Request
  <2>2. ProcInv'
    BY <1>0, <1>17, <2>1 DEF ProcInv, Begun, EndInv, procvars, Request
  <2> QED BY <2>1, <2>2 DEF IInv, TypeOK, ProcInv
<1>18. ASSUME NEW r \in Requests, Serve(r) PROVE IInv'
  <2>1. AuthTypeOK' /\ AuthInv' /\ pass' = pass /\ got' = got
    BY <1>18, ServeKeeps DEF Serve
  <2>2. ProcInv'
    BY <1>0, <1>18, <2>1 DEF ProcInv, Begun, EndInv, procvars, Serve
  <2> QED BY <2>1, <2>2 DEF IInv, TypeOK, ProcInv
<1>19. CASE Administer
  <2>1. AuthTypeOK' /\ AuthInv' /\ pass' = pass /\ got' = got
    BY <1>19, EditKeeps DEF Administer
  <2>2. ProcInv'
    BY <1>0, <1>19, <2>1 DEF ProcInv, Begun, EndInv, procvars, Administer
  <2> QED BY <2>1, <2>2 DEF IInv, TypeOK, ProcInv
<1>20. CASE UNCHANGED vars
  <2>1. AuthTypeOK' /\ AuthInv' BY <1>20, AuthSame DEF vars
  <2>2. ProcInv'
    BY <1>0, <1>20 DEF ProcInv, Begun, EndInv, vars, authvars, procvars
  <2> QED BY <2>1, <2>2 DEF IInv, TypeOK, ProcInv
<1> QED
  BY <1>1, <1>2, <1>3, <1>4, <1>5, <1>6, <1>7, <1>8, <1>9, <1>10,
     <1>11, <1>12, <1>13, <1>14, <1>15, <1>16, <1>17, <1>18, <1>19, <1>20
  DEF Next

(* The inductive invariant holds in every behaviour.                       *)
THEOREM Invariance ==
    Spec => []IInv
<1>1. Init => IInv BY Initially
<1>2. IInv /\ [Next]_vars => IInv' BY Step
<1> QED BY <1>1, <1>2, PTL DEF Spec

(* Every variable keeps its type.                                          *)
THEOREM TypeCorrectness ==
    Spec => []TypeOK
<1>1. IInv => TypeOK BY DEF IInv
<1> QED BY <1>1, Invariance, PTL

(* Requests that began after a clean pass and saw no edit are answered by  *)
(* what the three files say (authenticate, auth_and_decr, get_acl against  *)
(* the reload of the tables).                                              *)
THEOREM FilesDecide ==
    Spec => []AnswersFollowFiles
<1>1. IInv => AnswersFollowFiles
  BY DEF IInv, AuthInv, Judged, AnswersFollowFiles
<1> QED BY <1>1, Invariance, PTL

(* A working server that is told to terminate removes its socket and its   *)
(* pid file (terminate, cleanup).                                          *)
THEOREM OrderlyEnd ==
    Spec => []TerminatedIsClean
<1>1. IInv => TerminatedIsClean
  BY DEF IInv, EndInv, TerminatedIsClean
<1> QED BY <1>1, Invariance, PTL
=============================================================================
