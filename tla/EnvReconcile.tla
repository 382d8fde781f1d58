---------------------------- MODULE EnvReconcile ----------------------------
(***************************************************************************)
(* The two tools that rewrite the production environment file:             *)
(* reconcile_public_login_smtp_env.py copies the approved mail settings    *)
(* from a source file (dry run, approval of the plan's hash, apply under a *)
(* file lock, backup, atomic replace), ensure_web_push_vapid_env.py adds a *)
(* missing push identity and takes no lock.  Every read and every replace  *)
(* is a step of its own; each tool may be killed between two.              *)
(***************************************************************************)
EXTENDS Naturals, FiniteSets

CONSTANTS Reconcilers,    \* invocations of the reconciler
          PushTools,      \* invocations of the VAPID tool; each generates a key of its own
          MailSettings,   \* settings the source file may hold: records of the approved keys
          MaxSourceEdits  \* bound: edits of the source file

ASSUME EnvAssumption ==
    /\ MailSettings \subseteq [login : STRING, magic : STRING, auth : STRING, port : Nat,
                               secrets : SUBSET {"user", "pass"}, base : STRING]
    /\ Reconcilers \cap PushTools = {} /\ "nobody" \notin Reconcilers \cup PushTools
    /\ MaxSourceEdits \in Nat

VARIABLES source,      \* the source file: settings and inode
          env,         \* the environment file: mail settings, push key, inode
          nextInode,   \* the inode of the next file created
          envLock,     \* the reconciler that holds the lock, or Nobody
          envBackups,  \* contents kept by reconcilers
          pushBackup,  \* the one backup of the VAPID tool, or NoText
          temps,       \* reconcilers whose temporary file exists
          approved,    \* plans that a dry run printed
          worker,      \* per tool: where it stands and what it has read
          sourceEdits, \* edits so far
          raced        \* ghost: the VAPID tool overlapped another writer

envVars == <<source, env, nextInode, envLock, envBackups, pushBackup, temps, approved,
             worker, sourceEdits, raced>>

Workers == Reconcilers \cup PushTools
Nobody == "nobody"
\* The mail settings of a file that has none of the keys.
NoMail == [login |-> "", magic |-> "", auth |-> "", port |-> 0, secrets |-> {}, base |-> ""]
NoText == [mail |-> NoMail, push |-> "absent"]
Torn == [mail |-> NoMail, push |-> "torn"]
NotRunning == [at |-> "idle"]
Unset == "unset"
Partial == "partial"

Text(file) == [mail |-> file.mail, push |-> file.push]
SameFile(a, b) == a.inode = b.inode

EnvInit ==
    /\ source \in [mail : MailSettings, inode : {1}]
    /\ env \in [mail : {NoMail}, push : {Unset, Partial}, inode : {2}] /\ nextInode = 3
    /\ envLock = Nobody /\ envBackups = {} /\ pushBackup = NoText /\ temps = {} /\ approved = {}
    /\ worker = [w \in Workers |-> NotRunning] /\ sourceEdits = 0 /\ raced = FALSE

Step(w, state) == worker' = [worker EXCEPT ![w] = state]
Goto_(w, at) == worker' = [worker EXCEPT ![w].at = at]

\* Replacing a file creates an inode.
Replace(text) ==
    /\ env' = [mail |-> text.mail, push |-> text.push, inode |-> nextInode]
    /\ nextInode' = nextInode + 1

\* An operator edits the source file in place or replaces it.
EditSource(m, inPlace) ==
    /\ sourceEdits < MaxSourceEdits /\ sourceEdits' = sourceEdits + 1
    /\ source' = [mail |-> m, inode |-> IF inPlace THEN source.inode ELSE nextInode]
    /\ source'.mail # source.mail
    /\ nextInode' = IF inPlace THEN nextInode ELSE nextInode + 1
    /\ UNCHANGED <<env, envLock, envBackups, pushBackup, temps, approved, worker, raced>>

(***************************************************************************)
(* The reconciler                                                          *)
(***************************************************************************)

TlsPorts == {465, 587, 2525}
CanonicalBase == "https://commonthing.net"

\* validate_source: what is refused, and the canonical form of what is not.
ValidSourceAnyPort(m) ==
    /\ m.login \in {"1", "true"} /\ m.magic \in {"", "0", "false"}
    /\ m.auth = "on" /\ m.secrets = {"user", "pass"}
ValidSource(m) ==
    /\ m.login \in {"1", "true"} /\ m.magic \in {"", "0", "false"}
    /\ m.auth = "on" /\ m.port \in TlsPorts /\ m.secrets = {"user", "pass"}
Selected(m) == [m EXCEPT !.login = "1", !.magic = "0", !.base = CanonicalBase]

\* build_reconciled_content: every other line is kept, the approved keys are set.
ReconciledContent(dest, m) == [mail |-> Selected(m), push |-> dest.push]

\* plan_sha256 hashes identities and texts of both files and the planned content.
Plan(src, dest) == [source |-> src, destination |-> dest, planned |-> ReconciledContent(dest, src.mail)]

ReconcileStart(r) ==
    /\ worker[r].at = "idle"
    /\ Step(r, [at |-> "destination", source |-> source])
    /\ UNCHANGED <<source, env, nextInode, envLock, envBackups, pushBackup, temps, approved, sourceEdits, raced>>

\* The destination is read and the plan made.  A source that is refused ends the
\* run; so does a file that needs no change; a dry run prints the plan; an apply
\* run goes on when the plan is the one it was given.
ReconcilePlan(r, apply) ==
    /\ worker[r].at = "destination"
    /\ LET p == Plan(worker[r].source, env)
           valid == ValidSource(worker[r].source.mail)
           change == p.planned # Text(env)
       IN /\ approved' = IF valid /\ ~apply THEN approved \cup {p} ELSE approved
          /\ Step(r, IF valid /\ apply /\ change /\ p \in approved
                     THEN [at |-> "lock", plan |-> p] ELSE NotRunning)
    /\ UNCHANGED <<source, env, nextInode, envLock, envBackups, pushBackup, temps, sourceEdits, raced>>

\* flock without waiting, retried until it is got or 15 seconds are over.
LockFree == envLock = Nobody
AcquireLock(r) ==
    /\ worker[r].at = "lock"
    /\ \/ LockFree /\ envLock' = r /\ Goto_(r, "source")
       \/ ~LockFree /\ Step(r, NotRunning) /\ UNCHANGED envLock
    /\ UNCHANGED <<source, env, nextInode, envBackups, pushBackup, temps, approved, sourceEdits, raced>>

Unlock(r) == envLock' = IF envLock = r THEN Nobody ELSE envLock

\* Under the lock both files are read again, one after the other ...
RereadSource(r) ==
    /\ worker[r].at = "source"
    /\ IF worker[r].plan.source = source
       THEN Goto_(r, "reread") /\ UNCHANGED envLock
       ELSE Step(r, NotRunning) /\ Unlock(r)
    /\ UNCHANGED <<source, env, nextInode, envBackups, pushBackup, temps, approved, sourceEdits, raced>>

UnchangedText(plan, dest) == plan.planned.push = dest.push
\* ... and identity and text must be those of the plan.
Unchanged(plan, dest) == SameFile(plan.destination, dest) /\ Text(plan.destination) = Text(dest)
RereadDestination(r) ==
    /\ worker[r].at = "reread"
    /\ IF Unchanged(worker[r].plan, env)
       THEN Goto_(r, "backup") /\ UNCHANGED envLock
       ELSE Step(r, NotRunning) /\ Unlock(r)
    /\ UNCHANGED <<source, env, nextInode, envBackups, pushBackup, temps, approved, sourceEdits, raced>>

\* The backup holds the destination as it was read, is synced and read back;
\* one that does not read back is removed and ends the run.
WriteBackup(r) ==
    /\ worker[r].at = "backup"
    /\ \/ /\ envBackups' = envBackups \cup {Text(worker[r].plan.destination)}
          /\ Goto_(r, "temp") /\ UNCHANGED envLock
       \/ Step(r, NotRunning) /\ Unlock(r) /\ UNCHANGED envBackups
    /\ UNCHANGED <<source, env, nextInode, pushBackup, temps, approved, sourceEdits, raced>>

\* Orphans of killed reconcilers are removed, then the own temporary is
\* created; a failed write removes it.
OwnTempOnly(r) == {r}
WriteTemp(r) ==
    /\ worker[r].at = "temp"
    /\ \/ temps' = OwnTempOnly(r) /\ Goto_(r, "replace") /\ UNCHANGED envLock
       \/ temps' = {} /\ Step(r, NotRunning) /\ Unlock(r)
    /\ UNCHANGED <<source, env, nextInode, envBackups, pushBackup, approved, sourceEdits, raced>>

InPush(w) == worker[w].at \in {"pushBackup", "pushFill", "pushReplace"}
InReconcile(w) == worker[w].at \in {"backup", "temp", "replace"}

ReplaceDestination(r) ==
    /\ worker[r].at = "replace" /\ r \in temps   \* without it the replace raises
    /\ Replace(worker[r].plan.planned)
    /\ temps' = temps \ {r} /\ Goto_(r, "verify")
    /\ raced' = (raced \/ \E w \in PushTools : InPush(w))
    /\ UNCHANGED <<source, envLock, envBackups, pushBackup, approved, sourceEdits>>

\* The destination is read back; the lock falls with the descriptor either way.
VerifyDestination(r) ==
    /\ worker[r].at = "verify"
    /\ Step(r, NotRunning) /\ Unlock(r)
    /\ UNCHANGED <<source, env, nextInode, envBackups, pushBackup, temps, approved, sourceEdits, raced>>

(***************************************************************************)
(* check_public_login_smtp_readiness.py, in its production mode            *)
(***************************************************************************)

ParseBool(v) == v \in {"1", "true", "yes", "on"}
AuthReady(m) ==
    LET policy == IF m.auth = "" THEN "auto" ELSE m.auth IN
    policy \in {"auto", "on"} /\ m.secrets = {"user", "pass"}
LoginReady(m) == ParseBool(m.login) /\ ~ParseBool(m.magic)
MailReady(m) == m.base = CanonicalBase /\ m.port \in TlsPorts
ReadinessPasses(m) == LoginReady(m) /\ MailReady(m) /\ AuthReady(m)

(***************************************************************************)
(* The VAPID tool                                                          *)
(***************************************************************************)

\* Either all of the push keys are there and valid, or none is.
IdentityMissing(push) == push = Unset

\* A complete identity is preserved and a partial one refused, without a change;
\* a missing one is created.
PushRead(w) ==
    /\ worker[w].at = "idle" /\ IdentityMissing(env.push)
    /\ Step(w, [at |-> "pushBackup", read |-> env])
    /\ raced' = (raced \/ \E v \in PushTools \ {w} : InPush(v))
    /\ UNCHANGED <<source, env, nextInode, envLock, envBackups, pushBackup, temps, approved, sourceEdits>>

\* The backup is created exclusively, then written; one that exists stays as it
\* is, even when a killed tool left it empty.
PushBackup(w) ==
    /\ worker[w].at = "pushBackup" /\ pushBackup = NoText
    /\ pushBackup' = Torn /\ Goto_(w, "pushFill")
    /\ UNCHANGED <<source, env, nextInode, envLock, envBackups, temps, approved, sourceEdits, raced>>
PushBackupFilled(w) ==
    /\ \/ worker[w].at = "pushFill" /\ pushBackup' = Text(worker[w].read)
       \/ worker[w].at = "pushBackup" /\ pushBackup # NoText /\ UNCHANGED pushBackup
    /\ Goto_(w, "pushReplace")
    /\ UNCHANGED <<source, env, nextInode, envLock, envBackups, temps, approved, sourceEdits, raced>>

PushReplace(w) ==
    /\ worker[w].at = "pushReplace"
    /\ Replace([mail |-> worker[w].read.mail, push |-> w])
    /\ Step(w, NotRunning)
    /\ raced' = (raced \/ \E r \in Reconcilers : InReconcile(r))
    /\ UNCHANGED <<source, envLock, envBackups, pushBackup, temps, approved, sourceEdits>>

\* A tool is killed: its lock falls, its temporary file stays.
WorkerDies(w) ==
    /\ worker[w].at # "idle"
    /\ Step(w, NotRunning) /\ Unlock(w)
    /\ UNCHANGED <<source, env, nextInode, envBackups, pushBackup, temps, approved, sourceEdits, raced>>

Reconcile(r) ==
    \/ ReconcileStart(r) \/ \E apply \in BOOLEAN : ReconcilePlan(r, apply)
    \/ AcquireLock(r) \/ RereadSource(r) \/ RereadDestination(r)
    \/ WriteBackup(r) \/ WriteTemp(r) \/ ReplaceDestination(r) \/ VerifyDestination(r)
EnsurePush(w) == PushRead(w) \/ PushBackup(w) \/ PushBackupFilled(w) \/ PushReplace(w)

EnvNext ==
    \/ \E m \in MailSettings, inPlace \in BOOLEAN : EditSource(m, inPlace)
    \/ \E r \in Reconcilers : Reconcile(r)
    \/ \E w \in PushTools : EnsurePush(w)
    \/ \E w \in Workers : WorkerDies(w)

EnvSpec == EnvInit /\ [][EnvNext]_envVars

(***************************************************************************)
(* Properties                                                              *)
(***************************************************************************)

\* As long as the VAPID tool, which takes no lock, did not overlap another
\* writer: a change of the environment file is either the plan that a dry run
\* printed, applied to exactly the file that plan was made for, with that file
\* kept in a backup and its push identity intact; or it adds a missing push
\* identity and leaves the mail settings alone.  No reconciler overwrites
\* another one's work, however they interleave or die (reconcile,
\* ensure_web_push_env).
UpdatesAreKept ==
    [][env' # env /\ ~raced' =>
         \/ \E p \in approved :
              /\ p.destination = env /\ p.planned = Text(env')
              /\ Text(env) \in envBackups /\ env'.push = env.push
         \/ env.push = Unset /\ env'.push \in PushTools /\ env'.mail = env.mail]_envVars

\* Whatever source was approved, the settings that a reconciler leaves in the
\* environment file pass the readiness check of public login: the two tools
\* read the same values the same way (validate_source, run_checks).
ReconciledIsReady ==
    /\ env.mail # NoMail => ReadinessPasses(env.mail)
    /\ \A r \in Reconcilers : worker[r].at = "replace" => r \in temps /\ envLock = r

=============================================================================
