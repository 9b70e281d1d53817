------------------------------- MODULE AuthDb -------------------------------
(***************************************************************************)
(* The authentication databases: ACL, passwords and keys, each a table     *)
(* loaded from a file and guarded by its own RwLock (acl.rs Db, keys.rs,   *)
(* passwords.rs, ACL_DB, PASSWORD_DB and KEY_DB of server.rs), the pass    *)
(* that loads one after the other, at start and on SIGHUP, and the         *)
(* requests that look them up meanwhile: logins, UDP packets with a        *)
(* password or a key, and the statistics page.                             *)
(*                                                                         *)
(* A file is the set of logins it admits: it has an ACL for the login, the *)
(* password the client sends, or the key it uses.                          *)
(***************************************************************************)
EXTENDS Naturals

CONSTANTS
    Logins,         \* login names and key identifiers
    Requests,       \* requests under way at a time
    MaxEdits,       \* bound: changes of the files
    Bad,            \* contents of a file that cannot be read or parsed
    None            \* nothing

ASSUME LoginAssumption == {Bad, None} \cap Logins = {}

Files == {"acl", "pw", "key"}
Kinds == {"password", "key", "open"}

VARIABLES
    disk,       \* contents of the files
    edits,      \* changes of the files so far
    table,      \* the three tables
    pass,       \* the file the pass is at, or "none"
    got,        \* what it has read from that file, None before it did
    calm,       \* history: since the pass began nothing failed or changed
    exact,      \* history: since the files changed a calm pass has ended
    req         \* requests: where they are, who and how, and whether the
                \* tables were exact ever since they began

authvars == <<disk, edits, table, pass, got, calm, exact, req>>

Idle == [at |-> "idle", kind |-> "open", login |-> None, sure |-> FALSE]

-----------------------------------------------------------------------------
\* the pass holds the write lock while it reads the file
Locked(f) == pass = f /\ got # None

\* the administrator replaces a file
Edit(f) ==
    /\ edits < MaxEdits
    /\ edits' = edits + 1
    /\ \E c \in (SUBSET Logins) \union {Bad} : disk' = [disk EXCEPT ![f] = c]
    /\ calm' = FALSE /\ exact' = FALSE
    /\ req' = [r \in Requests |-> [req[r] EXCEPT !.sure = FALSE]]
    /\ UNCHANGED <<table, pass, got>>

PassBegins == pass' = "acl" /\ calm' = TRUE

Load ==
    /\ pass # "none" /\ got = None
    /\ got' = disk[pass]
    /\ UNCHANGED <<disk, edits, table, pass, calm, exact, req>>

Following == [acl |-> "pw", pw |-> "key", key |-> "none"]

\* fault: acls.clear() is missing
ParsedOver(f, content) ==
    table[f] \union (IF f = "key" THEN content \cap table["acl"] ELSE content)

\* fault: a line that is not an entry is taken for one
ParsedAnyLine(f, content) ==
    IF f = "key" THEN content \cap table["acl"] ELSE content \union {None}

\* lines that are no entries are left out, and keys without an ACL
Parsed(f, content) == IF f = "key" THEN content \cap table["acl"] ELSE content

\* the table is replaced, or kept when the file was bad; the keys wait for
\* the ACL while they hold their own lock
Apply ==
    /\ got # None
    /\ pass = "key" => ~Locked("acl")
    /\ table' = IF got = Bad THEN table
                ELSE [table EXCEPT ![pass] = Parsed(pass, got)]
    /\ calm' = (calm /\ got # Bad)
    /\ exact' = (exact \/ (pass = "key" /\ calm'))
    /\ pass' = Following[pass]
    /\ got' = None
    /\ UNCHANGED <<disk, edits, req>>

-----------------------------------------------------------------------------
(* authenticate and auth_and_decr, then get_acl: one lock after the other. *)

\* open: an anonymous login, or the page without credentials (login "_")
Begin(r, kind, login) ==
    /\ req[r].at = "idle"
    /\ req' = [req EXCEPT ![r] =
                 [at |-> IF kind = "open" THEN "acl" ELSE "auth",
                  kind |-> kind, login |-> login, sure |-> exact]]
    /\ UNCHANGED <<disk, edits, table, pass, got, calm, exact>>

Goes(r, where) ==
    /\ req' = [req EXCEPT ![r].at = where]
    /\ UNCHANGED <<disk, edits, table, pass, got, calm, exact>>

Authenticate(r) ==
    LET f == IF req[r].kind = "key" THEN "key" ELSE "pw" IN
    /\ req[r].at = "auth" /\ ~Locked(f)
    /\ Goes(r, IF req[r].login \in table[f] THEN "acl" ELSE "denied")

get_acl(r) ==
    /\ req[r].at = "acl" /\ ~Locked("acl")
    /\ Goes(r, IF req[r].login \in table["acl"] THEN "granted" ELSE "denied")

Answer(r) ==
    /\ req[r].at \in {"granted", "denied"}
    /\ req' = [req EXCEPT ![r] = Idle]
    /\ UNCHANGED <<disk, edits, table, pass, got, calm, exact>>

-----------------------------------------------------------------------------
AuthInit ==
    /\ disk \in [Files -> SUBSET Logins] /\ edits = 0
    /\ table = [f \in Files |-> {}]
    /\ pass = "none" /\ got = None
    /\ calm = FALSE /\ exact = FALSE
    /\ req = [r \in Requests |-> Idle]

\* the process is gone, and its memory
AuthForgets ==
    /\ table' = [f \in Files |-> {}]
    /\ pass' = "none" /\ got' = None
    /\ calm' = FALSE /\ exact' = FALSE
    /\ req' = [r \in Requests |-> Idle]
    /\ UNCHANGED <<disk, edits>>

AuthTypeOK ==
    /\ disk \in [Files -> (SUBSET Logins) \union {Bad}] /\ edits \in 0..MaxEdits
    /\ table \in [Files -> SUBSET Logins]
    /\ pass \in Files \union {"none"}
    /\ got \in (SUBSET Logins) \union {Bad, None}
    /\ {calm, exact} \subseteq BOOLEAN
    /\ req \in [Requests ->
         [at : {"idle", "auth", "acl", "granted", "denied"},
          kind : Kinds, login : Logins \union {None}, sure : BOOLEAN]]

\* what the files say
Entitled(kind, login) ==
    /\ login \in disk["acl"]
    /\ kind = "password" => login \in disk["pw"]
    /\ kind = "key" => login \in disk["key"]

(* Once the files were loaded, requests are answered by what they say: who *)
(* was removed is refused, who was added is let in, with a password or     *)
(* with a key, also while the files are loaded again or fail to load.      *)
AnswersFollowFiles ==
    \A r \in Requests :
        req[r].sure /\ req[r].at \in {"granted", "denied"} =>
            (req[r].at = "granted" <=> Entitled(req[r].kind, req[r].login))

(* No request waits for ever for a table that is being reloaded.           *)
RequestsReturn == \A r \in Requests : req[r].at # "idle" ~> req[r].at = "idle"
=============================================================================
