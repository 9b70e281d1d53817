------------------------------- MODULE Daemon -------------------------------
(***************************************************************************)
(* The life of the psrtd process around its authentication databases:      *)
(* start (server.rs main, Listeners::create, launch, launch_server), the   *)
(* signals, termination, crashes and the restart by the service manager    *)
(* (psrtd.service: Restart=always), and the same server as a service of    *)
(* EVA ICS (eva_svc.rs).  What outlives the process is on the disk: the    *)
(* unix socket, the pid file and the files of AuthDb.                      *)
(***************************************************************************)
EXTENDS AuthDb

CONSTANT
    MaxFaults       \* bound: signals, crashes and failures of the system

ASSUME FaultAssumption == MaxFaults \in Nat /\ MaxEdits \in Nat

VARIABLES
    standalone, \* started by main, not by the EVA launcher
    proc,       \* how far the start of the process is
    handlers,   \* signals whose handler is installed
    term,       \* how far terminate() is
    sock,       \* the unix socket is in the file system
    pidfile,    \* the pid file is
    PID_FILE,   \* the process remembers the name of its pid file
    orderly,    \* history: the termination signal came to a working server
    faults      \* signals, crashes and failures so far

procvars == <<standalone, proc, handlers, term, sock, pidfile, PID_FILE,
              orderly, faults>>
vars == <<authvars, procvars>>

Fault == faults < MaxFaults /\ faults' = faults + 1

\* the process ends; sk and pf is what it leaves behind
Dies(sk, pf) ==
    /\ proc' = "down" /\ handlers' = {} /\ term' = "no"
    /\ PID_FILE' = FALSE /\ orderly' = FALSE
    /\ sock' = sk /\ pidfile' = pf
    /\ AuthForgets
    /\ UNCHANGED standalone

-----------------------------------------------------------------------------
(* Start                                                                   *)

Start ==
    /\ proc = "down"
    /\ proc' = "bind"
    /\ UNCHANGED <<authvars, standalone, handlers, term, sock, pidfile,
                   PID_FILE, orderly, faults>>

\* fault: the socket of an earlier process is in the way
BindOver ==
    /\ proc = "bind"
    /\ ~sock
    /\ proc' = "load" /\ sock' = TRUE
    /\ PassBegins
    /\ UNCHANGED <<disk, edits, table, got, exact, req, standalone, handlers,
                   term, pidfile, PID_FILE, orderly, faults>>

\* Listeners::create: an old socket is removed first.  Loading begins
Bind ==
    /\ proc = "bind"
    /\ proc' = "load" /\ sock' = TRUE
    /\ PassBegins
    /\ UNCHANGED <<disk, edits, table, got, exact, req, standalone, handlers,
                   term, pidfile, PID_FILE, orderly, faults>>

\* the configuration, a certificate or an address is not available, or the
\* mode of the socket cannot be set: the start panics
StartFails ==
    /\ proc = "bind"
    /\ Fault
    /\ \E sk \in BOOLEAN : Dies(sk, pidfile)

\* load_acl panics without an ACL; load_auth goes on without its files
StartLoads ==
    /\ proc = "load"
    /\ \/ /\ pass # "none"
          /\ Load \/ Apply
          /\ ~(pass = "acl" /\ got = Bad)
          /\ UNCHANGED procvars
       \/ /\ pass = "acl" /\ got = Bad
          /\ Dies(sock, pidfile)
          /\ UNCHANGED faults
       \/ /\ pass = "none"
          /\ proc' = "launch"
          /\ UNCHANGED <<authvars, standalone, handlers, term, sock, pidfile,
                         PID_FILE, orderly, faults>>

\* the spawned tasks call signal(kind) when they first run
Install(kind) ==
    /\ standalone /\ proc \in {"launch", "write", "serve"}
    /\ kind \notin handlers
    /\ handlers' = handlers \union {kind}
    /\ UNCHANGED <<authvars, standalone, proc, term, sock, pidfile, PID_FILE,
                   orderly, faults>>

\* the mutex is not available any more once terminate() has it
SetPidFile ==
    /\ standalone /\ proc = "launch" /\ term \in {"no", "lock"}
    /\ proc' = "write" /\ PID_FILE' = TRUE
    /\ UNCHANGED <<authvars, standalone, handlers, term, sock, pidfile,
                   orderly, faults>>

\* the listeners are spawned when the pid file is written, if one is
Listen ==
    /\ proc = IF standalone THEN "write" ELSE "launch"
    /\ proc' = "serve"
    /\ pidfile' = (pidfile \/ standalone)
    /\ UNCHANGED <<authvars, standalone, handlers, term, sock, PID_FILE,
                   orderly, faults>>

\* launch_server returns an error, then cleanup() and exit(1), or it panics
LaunchFails ==
    /\ proc \in {"launch", "write"}
    /\ Fault
    /\ \E sk \in {sock, FALSE}, pf \in {pidfile, pidfile \/ proc = "write"} :
         Dies(sk, pf)

-----------------------------------------------------------------------------
(* Signals and the end                                                     *)

\* default action of a signal without a handler: the process is killed.
\* SIGHUP starts a pass.  During a pass nobody listens, and it is lost
Hangup ==
    /\ standalone /\ proc # "down"
    /\ Fault
    /\ \/ "hup" \notin handlers /\ Dies(sock, pidfile)
       \/ /\ "hup" \in handlers /\ pass = "none"
          /\ PassBegins
          /\ UNCHANGED <<disk, edits, table, got, exact, req, standalone, proc,
                         handlers, term, sock, pidfile, PID_FILE, orderly>>
       \/ /\ "hup" \in handlers /\ pass # "none"
          /\ UNCHANGED <<authvars, standalone, proc, handlers, term, sock,
                         pidfile, PID_FILE, orderly>>

\* fault: the guard of the ACL lives until the pass is over, and the keys
\* wait for it for ever
ReloadHoldsAcl ==
    /\ proc # "load" /\ pass # "none"
    /\ Load \/ (pass # "key" /\ Apply)
    /\ UNCHANGED procvars

\* a step of the pass that SIGHUP began
Reload ==
    /\ proc # "load" /\ pass # "none"
    /\ Load \/ Apply
    /\ UNCHANGED procvars

\* a file that is there cannot be read for once
LoadFails ==
    /\ pass # "none" /\ got = None
    /\ Fault
    /\ got' = Bad
    /\ UNCHANGED <<disk, edits, table, pass, calm, exact, req, standalone, proc,
                   handlers, term, sock, pidfile, PID_FILE, orderly>>

\* SIGTERM or SIGINT, each with a task of its own.  A second one waits for the mutex of PID_FILE
Terminate ==
    /\ standalone /\ proc # "down"
    /\ Fault
    /\ \/ "term" \notin handlers /\ Dies(sock, pidfile)
       \/ /\ "term" \in handlers /\ term = "no"
          /\ term' = "lock" /\ orderly' = (proc = "serve")
          /\ UNCHANGED <<authvars, standalone, proc, handlers, sock, pidfile,
                         PID_FILE>>

\* terminate() locks PID_FILE and removes the pid file
TermPid ==
    /\ term = "lock"
    /\ term' = "cleanup"
    /\ pidfile' = (pidfile /\ ~PID_FILE)
    /\ UNCHANGED <<authvars, standalone, proc, handlers, sock, PID_FILE,
                   orderly, faults>>

\* fault: cleanup() is left out
NoCleanup ==
    /\ term = "cleanup"
    /\ term' = "exit"
    /\ UNCHANGED <<authvars, standalone, proc, handlers, sock, pidfile,
                   PID_FILE, orderly, faults>>

cleanup ==
    /\ term = "cleanup"
    /\ term' = "exit"
    /\ sock' = FALSE
    /\ UNCHANGED <<authvars, standalone, proc, handlers, pidfile, PID_FILE,
                   orderly, faults>>

Exit ==
    /\ term = "exit"
    /\ Dies(sock, pidfile)
    /\ UNCHANGED faults

\* the process crashes, or the EVA launcher stops it: nothing is removed
Crash ==
    /\ proc # "down"
    /\ Fault
    /\ Dies(sock, pidfile)

-----------------------------------------------------------------------------
\* the statistics page is up before the other listeners
Request(r) ==
    /\ \E kind \in Kinds, login \in Logins :
         /\ proc \in {"launch", "write", "serve"}
         /\ kind = "key" => proc = "serve"
         /\ Begin(r, kind, login)
    /\ UNCHANGED procvars

Serve(r) ==
    /\ Authenticate(r) \/ get_acl(r) \/ Answer(r)
    /\ UNCHANGED procvars

Administer == \E f \in Files : Edit(f) /\ UNCHANGED procvars

Init ==
    /\ AuthInit
    /\ standalone \in BOOLEAN
    /\ proc = "down" /\ handlers = {} /\ term = "no"
    /\ sock = FALSE /\ pidfile = FALSE /\ PID_FILE = FALSE
    /\ orderly = FALSE /\ faults = 0

Next ==
    \/ Start \/ Bind \/ StartFails \/ StartLoads
    \/ \E kind \in {"hup", "term"} : Install(kind)
    \/ SetPidFile \/ Listen \/ LaunchFails
    \/ Hangup \/ Reload \/ LoadFails
    \/ Terminate \/ TermPid \/ cleanup \/ Exit \/ Crash
    \/ \E r \in Requests : Request(r) \/ Serve(r)
    \/ Administer

Spec == Init /\ [][Next]_vars

(* Tasks are polled, reads of files end, a spawned task runs some time and *)
(* the service manager restarts the process.                               *)
FairSpec ==
    /\ Spec
    /\ WF_vars(Start) /\ WF_vars(Bind) /\ WF_vars(StartLoads)
    /\ WF_vars(SetPidFile) /\ WF_vars(Listen)
    /\ WF_vars(Reload)
    /\ WF_vars(TermPid) /\ WF_vars(cleanup) /\ WF_vars(Exit)
    /\ \A r \in Requests : WF_vars(Serve(r))

-----------------------------------------------------------------------------
(* Types of all variables.                                                 *)
TypeOK ==
    /\ AuthTypeOK
    /\ proc \in {"down", "bind", "load", "launch", "write", "serve"}
    /\ handlers \subseteq {"hup", "term"}
    /\ term \in {"no", "lock", "cleanup", "exit"}
    /\ {standalone, sock, pidfile, PID_FILE, orderly} \subseteq BOOLEAN
    /\ faults \in 0..MaxFaults

(* A working server that is told to terminate leaves neither its socket    *)
(* nor its pid file, reloads and requests going on or not.  (A signal that *)
(* falls between the two steps that set and write the pid file may leave   *)
(* it.)                                                                    *)
TerminatedIsClean == term = "exit" /\ orderly => ~sock /\ ~pidfile

(* Whatever a crash, a signal or a failed start left behind, the server    *)
(* comes back, unless its ACL file stays bad, for good once failures stop. *)
ComesBack ==
    <>[](disk["acl"] # Bad) => <>[](proc = "serve" /\ sock)
=============================================================================
