----------------------------- MODULE AgentProofs ------------------------------
(***************************************************************************)
(* Theorems about the dry runs of agent tasks and about the review of what  *)
(* an agent hands back, for every number of runs, targets, edits, tasks and *)
(* handoffs.                                                                *)
(*                                                                          *)
(* A dry run reads the repository in pieces.  What makes the pieces one     *)
(* state is Snapshot: when the first fingerprint ends, the repository is at *)
(* a state that lies between that fingerprint and whatever is read later,   *)
(* so a later fingerprint that is equal to the first leaves it no room.     *)
(* Confirmed says so of every run that got past such a comparison, and      *)
(* DiskInv follows its bundle through staging, rename and power losses.     *)
(***************************************************************************)
EXTENDS AgentRun, HandoffReview, TLAPS

Reading == {"fp_head", "fp_index", "fp_worktree", "fp_untracked", "fp_end"}
Publishing == {"build", "stage", "write", "guard", "rename", "sync", "identity"}
Steps == Over \cup Reading \cup Publishing \cup {"captured", "registry", "revision", "verify", "return", "except"}
Returns == {"none", "captured", "blocked", "build", "return", "done", "rename", "error"}

Codes == {"none", "GIT_STATE_UNAVAILABLE", "REPO_MUTATED_DURING_DRY_RUN", "HANDOFF_VALIDATION_FAILED",
          "SOURCE_REVISION_CHANGED_DURING_DRY_RUN", "RUN_EVIDENCE_INVALID", "OUTPUT_WRITE_FAILED",
          "OUTPUT_DIR_EXISTS", "OUTPUT_DURABILITY_UNCONFIRMED", "OUTPUT_LOCATION_CHANGED"}

State == [Parts -> Nat]

Locals == [pc : Steps, target : Targets \cup {NoRun}, before : State, fp : State,
           ret : Returns, got : State, code : Codes]

RunTypes ==
    /\ repo \in State
    /\ history \in [Runs -> SUBSET State]
    /\ run \in [Runs -> Locals]

\* The parts the fingerprint under way has read.
HasRead(step) ==
    IF step = "fp_index" THEN {"head"}
    ELSE IF step = "fp_worktree" THEN {"head", "index"}
    ELSE IF step = "fp_untracked" THEN Parts \ {"untracked"}
    ELSE IF step = "fp_end" THEN Parts ELSE {}

\* The parts whose contents the run has used.
HasUsed(step) ==
    IF step = "captured" THEN {}
    ELSE IF step = "registry" THEN {"task"}
    ELSE IF step = "revision" THEN {"task", "registry"}
    ELSE {"task", "registry", "head"}

\* The first fingerprint is kept and not yet compared with another.
Unconfirmed(r) ==
    \/ run[r].pc \in {"captured", "registry", "revision", "verify"}
    \/ run[r].pc \in Reading /\ run[r].ret \in {"build", "return"}

\* s is a state of the run between its first fingerprint and what it read later.
Between(r, s) ==
    \A x \in Parts :
        /\ run[r].before[x] <= s[x] /\ s[x] <= repo[x]
        /\ x \in HasUsed(run[r].pc) => s[x] <= run[r].got[x]
        /\ x \in HasRead(run[r].pc) => s[x] <= run[r].fp[x]
        /\ x \in HasRead(run[r].pc) /\ x \in HasUsed(run[r].pc) => run[r].got[x] <= run[r].fp[x]

\* Nothing a run holds is newer than the repository.
NotNewer(r) ==
    \A x \in Parts :
        run[r].before[x] <= repo[x] /\ run[r].fp[x] <= repo[x] /\ run[r].got[x] <= repo[x]

Snapshot(r) == Unconfirmed(r) => \E s \in history[r] : Between(r, s)

\* The first fingerprint is the repository at one moment, and the contents
\* used are those of that moment.
OneState(r) ==
    /\ run[r].before \in history[r]
    /\ \A x \in {"task", "registry", "head"} : run[r].got[x] = run[r].before[x]

Compared(r) ==
    \/ run[r].pc \in Publishing \cup {"return", "done"}
    \/ run[r].pc \in Reading /\ run[r].ret \in {"done", "rename"}

Knows(r) ==
    /\ run[r].pc \in Reading => run[r].ret # "none"
    /\ run[r].pc \notin Over => repo \in history[r]
    /\ NotNewer(r)
    /\ Snapshot(r)
    /\ Compared(r) => OneState(r)

DiskTypes ==
    /\ bundle \in [Runs -> [exists : BOOLEAN, files : 0..Files, listed : BOOLEAN]]
    /\ target \in [Targets -> Runs \cup {NoRun}]
    /\ onDisk \in [Targets -> Runs \cup {NoRun}]

Complete(r) == bundle[r].exists /\ bundle[r].files = Files /\ bundle[r].listed

\* A run that is past the rename.
Settled(me) ==
    \/ me.pc \in {"sync", "identity", "done", "except", "error", "killed"}
    \/ me.pc \in Reading /\ me.ret = "error"

\* What stands at a target is a complete bundle of a run that named it.
Published(t) ==
    LET r == target[t] IN
    /\ onDisk[t] \in {NoRun, r}
    /\ r # NoRun =>
         /\ Complete(r) /\ OneState(r) /\ run[r].target = t
         /\ Settled(run[r])

\* How far a run's bundle is.
Staged(r) ==
    LET at(steps, rets) == run[r].pc \in steps \/ (run[r].pc \in Reading /\ run[r].ret \in rets)
    IN  /\ at(Publishing, {"build", "rename"}) => run[r].target # NoRun
        /\ at({"return"}, {"return", "done"}) => run[r].target = NoRun
        /\ run[r].pc = "write" => bundle[r].exists
        /\ at({"guard", "rename"}, {"rename"}) => Complete(r)
        /\ run[r].pc \in {"sync", "identity", "done"} /\ run[r].target # NoRun =>
              target[run[r].target] = r
        /\ run[r].pc \in {"identity", "done"} /\ run[r].target # NoRun =>
              onDisk[run[r].target] = r

AgentInv ==
    /\ RunTypes /\ DiskTypes
    /\ \A r \in Runs : Knows(r) /\ Staged(r)
    /\ \A t \in Targets : Published(t)

-----------------------------------------------------------------------------
(* Steps of one run *)

\* A step of r that leaves the disk alone has only its own locals to answer for.
LEMMA LocalStep ==
  ASSUME AgentInv, NEW r \in Runs, NEW me \in Locals, Set(r, me),
         UNCHANGED <<repo, history, diskVars>>,
         Knows(r)', Staged(r)',
         \A t \in Targets : target[t] = r =>
             /\ me.before = run[r].before /\ me.got = run[r].got /\ me.target = run[r].target
             /\ Settled(me)
  PROVE  AgentInv'
<1>1. run' \in [Runs -> Locals] /\ run'[r] = me /\ \A q \in Runs \ {r} : run'[q] = run[q]
  BY DEF Set, AgentInv, RunTypes
<1>2. RunTypes' /\ DiskTypes'
  BY <1>1 DEF AgentInv, RunTypes, DiskTypes, diskVars
<1>3. ASSUME NEW q \in Runs \ {r} PROVE Knows(q)' /\ Staged(q)'
  <2>1. run'[q] = run[q] /\ Knows(q) /\ Staged(q)
    BY <1>1 DEF AgentInv
  <2>2. Knows(q)'
    BY <2>1 DEF Knows, NotNewer, Snapshot, Unconfirmed, Between, Compared, OneState
  <2>3. Staged(q)'
    BY <2>1 DEF Staged, Complete, diskVars
  <2> QED
    BY <2>2, <2>3
<1>4. ASSUME NEW t \in Targets PROVE Published(t)'
  <2>1. target'[t] = target[t] /\ onDisk'[t] = onDisk[t] /\ bundle' = bundle /\ history' = history
    BY DEF diskVars
  <2>2. Published(t) /\ target[t] \in Runs \cup {NoRun}
    BY DEF AgentInv, DiskTypes
  <2>3. CASE target[t] = NoRun
    BY <2>1, <2>2, <2>3 DEF Published
  <2>4. CASE target[t] = r
    BY <2>1, <2>2, <2>4, <1>1 DEF Published, Complete, OneState
  <2>5. CASE target[t] \in Runs \ {r}
    BY <2>1, <2>2, <2>5, <1>1 DEF Published, Complete, OneState
  <2> QED
    BY <2>2, <2>3, <2>4, <2>5
<1> QED
  BY <1>2, <1>3, <1>4 DEF AgentInv

\* Before the rename there is nothing at a target.
LEMMA NotYetPublished ==
  ASSUME AgentInv, NEW r \in Runs, ~Settled(run[r])
  PROVE  \A t \in Targets : target[t] # r
  BY AgentAssumption DEF AgentInv, Published

\* The steps of a fingerprint before its end.
LEMMA FingerprintPart ==
  ASSUME AgentInv, NEW r \in Runs, NEW me \in Locals, Set(r, me),
         UNCHANGED <<repo, history, diskVars>>,
         run[r].pc \in Reading, me.pc \in Reading,
         me.ret = run[r].ret, me.before = run[r].before, me.got = run[r].got,
         me.target = run[r].target,
         \A x \in Parts : me.fp[x] = run[r].fp[x] \/ me.fp[x] = repo[x],
         \A x \in HasRead(me.pc) :
             me.fp[x] = repo[x] \/ (x \in HasRead(run[r].pc) /\ me.fp[x] = run[r].fp[x])
  PROVE  AgentInv'
<1>1. run'[r] = me /\ run[r] \in Locals /\ repo \in State /\ Knows(r) /\ Staged(r)
  BY DEF Set, AgentInv, RunTypes
<1>2. me.pc \notin Over /\ run[r].pc \notin Over /\ HasUsed(me.pc) = HasUsed(run[r].pc)
  BY DEF Reading, Over, HasUsed
<1>3. \A x \in Parts : repo[x] \in Nat /\ run[r].fp[x] \in Nat /\ run[r].got[x] \in Nat /\ run[r].before[x] \in Nat
  BY <1>1 DEF Locals, State
<1>4. NotNewer(r)'
  BY <1>1, <1>3 DEF NotNewer, Knows
<1>5. Snapshot(r)'
  <2> SUFFICES ASSUME Unconfirmed(r)' PROVE (\E s \in history[r] : Between(r, s))'
    BY DEF Snapshot
  <2>1. Unconfirmed(r)
    BY <1>1 DEF Unconfirmed, Reading
  <2>2. PICK s \in history[r] : Between(r, s)
    BY <2>1, <1>1 DEF Knows, Snapshot
  <2>3. s \in State
    BY DEF AgentInv, RunTypes
  <2>4. ASSUME NEW x \in Parts
        PROVE  /\ me.before[x] <= s[x] /\ s[x] <= repo[x]
               /\ x \in HasUsed(me.pc) => s[x] <= me.got[x]
               /\ x \in HasRead(me.pc) => s[x] <= me.fp[x]
               /\ x \in HasRead(me.pc) /\ x \in HasUsed(me.pc) => me.got[x] <= me.fp[x]
    <3>1. run[r].got[x] <= repo[x] /\ s[x] \in Nat
      BY <1>1, <2>3 DEF Knows, NotNewer, State
    <3> QED
      BY <3>1, <2>2, <1>2, <1>3 DEF Between
  <2>5. Between(r, s)'
    BY <2>4, <1>1 DEF Between
  <2> QED
    BY <2>5
<1>6. Compared(r)' => OneState(r)'
  BY <1>1, <1>2 DEF Knows, Compared, OneState, Reading, Publishing
<1>7. Knows(r)'
  BY <1>1, <1>2, <1>4, <1>5, <1>6 DEF Knows
<1>8. Staged(r)'
  BY <1>1 DEF Staged, Complete, diskVars, Reading, Publishing
<1>9. Settled(run[r]) => Settled(me)
  BY DEF Settled, Reading
<1> QED
  BY <1>7, <1>8, <1>9, LocalStep, NotYetPublished

LEMMA FingerprintSteps ==
  ASSUME AgentInv, NEW r \in Runs,
         FingerprintHead(r) \/ FingerprintIndex(r) \/ FingerprintWorktree(r) \/ FingerprintUntracked(r)
  PROVE  AgentInv'
<1> DEFINE old == run[r]
<1>1. old \in Locals /\ repo \in State /\ old.fp \in State
  BY DEF AgentInv, RunTypes, Locals
<1>2. \A x \in Parts : repo[x] \in Nat
  BY <1>1 DEF State
<1>3. CASE FingerprintHead(r)
  <2> DEFINE f == [old.fp EXCEPT !["head"] = repo["head"]]
             me == [old EXCEPT !.fp = f, !.pc = "fp_index"]
  <2>1. old.pc = "fp_head" /\ Set(r, me) /\ UNCHANGED <<repo, history, diskVars>>
    BY <1>3 DEF FingerprintHead, Set, At
  <2>2. f \in State /\ f["head"] = repo["head"] /\ \A x \in Parts : x # "head" => f[x] = old.fp[x]
    BY <1>1, <1>2 DEF State, Parts
  <2> HIDE DEF f
  <2>3. /\ me \in Locals /\ me.fp = f /\ me.pc = "fp_index" /\ me.ret = old.ret
        /\ me.before = old.before /\ me.got = old.got /\ me.target = old.target
    BY <1>1, <2>2 DEF Locals, Steps, Reading
  <2> HIDE DEF me
  <2> QED
    BY <2>1, <2>2, <2>3, FingerprintPart DEF HasRead, Reading
<1>4. CASE FingerprintIndex(r)
  <2> DEFINE f == [old.fp EXCEPT !["index"] = repo["index"]]
             me == [old EXCEPT !.fp = f, !.pc = "fp_worktree"]
  <2>1. old.pc = "fp_index" /\ Set(r, me) /\ UNCHANGED <<repo, history, diskVars>>
    BY <1>4 DEF FingerprintIndex, Set, At
  <2>2. f \in State /\ f["index"] = repo["index"] /\ \A x \in Parts : x # "index" => f[x] = old.fp[x]
    BY <1>1, <1>2 DEF State, Parts
  <2> HIDE DEF f
  <2>3. /\ me \in Locals /\ me.fp = f /\ me.pc = "fp_worktree" /\ me.ret = old.ret
        /\ me.before = old.before /\ me.got = old.got /\ me.target = old.target
    BY <1>1, <2>2 DEF Locals, Steps, Reading
  <2> HIDE DEF me
  <2>4. HasRead("fp_index") = {"head"} /\ HasRead("fp_worktree") = {"head", "index"}
    BY DEF HasRead
  <2> QED
    BY <2>1, <2>2, <2>3, <2>4, FingerprintPart DEF Reading, Parts
<1>5. CASE FingerprintWorktree(r)
  <2> DEFINE f == [old.fp EXCEPT !["task"] = repo["task"], !["registry"] = repo["registry"]]
             me == [old EXCEPT !.fp = f, !.pc = "fp_untracked"]
  <2>1. old.pc = "fp_worktree" /\ Set(r, me) /\ UNCHANGED <<repo, history, diskVars>>
    <3>1. /\ old.pc = "fp_worktree" /\ UNCHANGED <<repo, history, diskVars>>
          /\ run' = [run EXCEPT ![r] = [old EXCEPT !.fp["task"] = repo["task"],
                                                   !.fp["registry"] = repo["registry"],
                                                   !.pc = "fp_untracked"]]
      BY <1>5 DEF FingerprintWorktree, Set, At
    <3>2. [old EXCEPT !.fp["task"] = repo["task"], !.fp["registry"] = repo["registry"],
                      !.pc = "fp_untracked"] = me
      BY <1>1 DEF Locals
    <3> QED
      BY <3>1, <3>2 DEF Set
  <2>2. /\ f \in State /\ f["task"] = repo["task"] /\ f["registry"] = repo["registry"]
        /\ \A x \in Parts : x \notin {"task", "registry"} => f[x] = old.fp[x]
    BY <1>1, <1>2 DEF State, Parts
  <2> HIDE DEF f
  <2>3. /\ me \in Locals /\ me.fp = f /\ me.pc = "fp_untracked" /\ me.ret = old.ret
        /\ me.before = old.before /\ me.got = old.got /\ me.target = old.target
    BY <1>1, <2>2 DEF Locals, Steps, Reading
  <2> HIDE DEF me
  <2>4. HasRead("fp_worktree") = {"head", "index"} /\ HasRead("fp_untracked") = {"head", "index", "task", "registry"}
    BY DEF HasRead, Parts
  <2> QED
    BY <2>1, <2>2, <2>3, <2>4, FingerprintPart DEF Reading, Parts
<1>6. CASE FingerprintUntracked(r)
  <2> DEFINE f == [old.fp EXCEPT !["untracked"] = repo["untracked"]]
             me == [old EXCEPT !.fp = f, !.pc = "fp_end"]
  <2>1. old.pc = "fp_untracked" /\ Set(r, me) /\ UNCHANGED <<repo, history, diskVars>>
    BY <1>6 DEF FingerprintUntracked, Set, At
  <2>2. f \in State /\ f["untracked"] = repo["untracked"] /\ \A x \in Parts : x # "untracked" => f[x] = old.fp[x]
    BY <1>1, <1>2 DEF State, Parts
  <2> HIDE DEF f
  <2>3. /\ me \in Locals /\ me.fp = f /\ me.pc = "fp_end" /\ me.ret = old.ret
        /\ me.before = old.before /\ me.got = old.got /\ me.target = old.target
    BY <1>1, <2>2 DEF Locals, Steps, Reading
  <2> HIDE DEF me
  <2>4. HasRead("fp_untracked") = Parts \ {"untracked"} /\ HasRead("fp_end") = Parts
    BY DEF HasRead
  <2> QED
    BY <2>1, <2>2, <2>3, <2>4, FingerprintPart DEF Reading
<1> QED
  BY <1>3, <1>4, <1>5, <1>6

\* A run gives up: it goes to its except block, to its last comparison or to an end.
LEMMA GivesUp ==
  ASSUME AgentInv, NEW r \in Runs, NEW me \in Locals, Set(r, me),
         UNCHANGED <<repo, history, diskVars>>, run[r].pc \notin Over,
         \/ me.pc \in {"except", "error", "blocked", "killed"}
         \/ me.pc = "fp_head" /\ me.ret \in {"error", "blocked"},
         me.before = run[r].before, me.target = run[r].target,
         \A x \in Parts : me.fp[x] <= repo[x] /\ me.got[x] <= repo[x],
         Settled(run[r]) => Settled(me) /\ me.got = run[r].got
  PROVE  AgentInv'
<1>1. run'[r] = me /\ run[r] \in Locals /\ Knows(r) /\ Staged(r)
  BY DEF Set, AgentInv, RunTypes
<1>2. NotNewer(r)'
  BY <1>1 DEF Knows, NotNewer
<1>3. ~Unconfirmed(r)' /\ ~Compared(r)'
  BY <1>1 DEF Unconfirmed, Compared, Reading, Publishing
<1>4. Knows(r)'
  BY <1>1, <1>2, <1>3 DEF Knows, Snapshot, Reading
<1>5. Staged(r)'
  BY <1>1 DEF Staged, Publishing, Reading
<1> QED
  BY <1>4, <1>5, LocalStep, NotYetPublished

\* The facts about a run's locals that every step needs.
LEMMA LocalTypes ==
  ASSUME AgentInv, NEW r \in Runs
  PROVE  /\ run[r] \in Locals /\ repo \in State
         /\ run[r].before \in State /\ run[r].fp \in State /\ run[r].got \in State
         /\ run[r].code \in Codes /\ run[r].ret \in Returns /\ run[r].pc \in Steps
         /\ run[r].target \in Targets \cup {NoRun}
         /\ \A x \in Parts : /\ run[r].before[x] <= repo[x] /\ run[r].fp[x] <= repo[x]
                             /\ run[r].got[x] <= repo[x]
                             /\ run[r].before[x] \in Nat /\ run[r].fp[x] \in Nat
                             /\ run[r].got[x] \in Nat /\ repo[x] \in Nat
         /\ Knows(r) /\ Staged(r)
<1>1. run[r] \in Locals /\ repo \in State /\ Knows(r) /\ Staged(r)
  BY DEF AgentInv, RunTypes
<1>2. run[r].before \in State /\ run[r].fp \in State /\ run[r].got \in State
  BY <1>1 DEF Locals
<1>3. /\ run[r].code \in Codes /\ run[r].ret \in Returns /\ run[r].pc \in Steps
      /\ run[r].target \in Targets \cup {NoRun}
  BY <1>1 DEF Locals
<1> QED
  BY <1>1, <1>2, <1>3 DEF Knows, NotNewer, State

LEMMA RaiseStep ==
  ASSUME AgentInv, NEW r \in Runs, NEW code \in Codes, Raise(r, code), run[r].pc \notin Over,
         UNCHANGED <<repo, history, diskVars>>
  PROVE  AgentInv'
<1> DEFINE me == [run[r] EXCEPT !.pc = "except", !.code = code]
<1>1. Set(r, me)
  BY DEF Raise
<1>2. /\ me \in Locals /\ me.pc = "except" /\ me.before = run[r].before /\ me.fp = run[r].fp
      /\ me.got = run[r].got /\ me.target = run[r].target
  BY LocalTypes DEF Locals, Steps
<1> HIDE DEF me
<1>3. Settled(me)
  BY <1>2 DEF Settled
<1> QED
  BY <1>1, <1>2, <1>3, GivesUp, LocalTypes

\* The end of a fingerprint: this is where a state is confirmed.
LEMMA ConfirmedState ==
  ASSUME AgentInv, NEW r \in Runs, run[r].pc = "fp_end", run[r].ret \in {"build", "return"},
         run[r].fp = run[r].before
  PROVE  OneState(r)
<1>1. Unconfirmed(r)
  BY DEF Unconfirmed, Reading
<1>2. PICK s \in history[r] : Between(r, s)
  BY <1>1, LocalTypes DEF Knows, Snapshot
<1>3. s \in State /\ HasRead(run[r].pc) = Parts /\ HasUsed(run[r].pc) = {"task", "registry", "head"}
  BY DEF AgentInv, RunTypes, HasRead, HasUsed
<1>4. \A x \in Parts : s[x] = run[r].before[x]
  BY <1>2, <1>3, LocalTypes DEF Between, State
<1>5. s = run[r].before
  BY <1>3, <1>4, LocalTypes DEF State
<1>6. \A x \in {"task", "registry", "head"} : run[r].got[x] = run[r].before[x]
  BY <1>2, <1>3, <1>4, LocalTypes DEF Between, Parts
<1> QED
  BY <1>5, <1>6 DEF OneState

LEMMA FingerprintEndStep ==
  ASSUME AgentInv, NEW r \in Runs, FingerprintEnd(r)
  PROVE  AgentInv'
<1> DEFINE old == run[r]
           next == [old EXCEPT !.fp = None, !.ret = "none", !.pc = old.ret]
<1>1. old.pc = "fp_end" /\ UNCHANGED <<repo, history, diskVars>> /\ old.ret # "none"
  BY LocalTypes DEF FingerprintEnd, At, Knows, Reading
<1>2. None \in State /\ (\A x \in Parts : None[x] = 0)
  BY DEF None, State
<1>3. old.pc \notin Over /\ old.pc \in Reading
  BY <1>1 DEF Over, Reading
<1>4. ASSUME NEW p \in {"except", "error"}, NEW c \in Codes, Set(r, [next EXCEPT !.pc = p, !.code = c])
      PROVE  AgentInv'
  <2> DEFINE me == [next EXCEPT !.pc = p, !.code = c]
  <2>1. /\ me \in Locals /\ me.pc = p /\ me.before = old.before /\ me.fp = None
        /\ me.got = old.got /\ me.target = old.target
    BY <1>2, LocalTypes DEF Locals, Steps, Returns, Over
  <2> HIDE DEF me, next
  <2>2. Settled(me)
    BY <2>1 DEF Settled
  <2>3. Set(r, me)
    BY <1>4 DEF me
  <2> QED
    BY <1>1, <1>2, <1>3, <2>1, <2>2, <2>3, GivesUp, LocalTypes
<1>5. ASSUME old.ret = "captured", Set(r, [next EXCEPT !.before = old.fp]) PROVE AgentInv'
  <2> DEFINE me == [next EXCEPT !.before = old.fp]
  <2>1. /\ me \in Locals /\ me.pc = "captured" /\ me.before = old.fp /\ me.fp = None
        /\ me.got = old.got /\ me.target = old.target /\ run'[r] = me
    BY <1>2, <1>5, LocalTypes DEF Locals, Steps, Returns, Set, AgentInv, RunTypes
  <2> HIDE DEF me, next
  <2>2. repo \in history[r]
    BY <1>3, LocalTypes DEF Knows
  <2>3. NotNewer(r)'
    BY <1>1, <1>2, <2>1, LocalTypes DEF NotNewer
  <2>4. HasUsed(me.pc) = {} /\ HasRead(me.pc) = {}
    BY <2>1 DEF HasUsed, HasRead
  <2>5. Between(r, repo)'
    BY <1>1, <2>1, <2>4, LocalTypes DEF Between
  <2>6. Knows(r)'
    BY <1>1, <2>1, <2>2, <2>3, <2>5 DEF Knows, Snapshot, Compared, Reading, Publishing
  <2>7. Staged(r)'
    BY <2>1 DEF Staged, Reading, Publishing
  <2>8. ~Settled(old)
    BY <1>1, <1>5 DEF Settled
  <2>9. Set(r, me)
    BY <1>5 DEF me
  <2> QED
    BY <1>1, <2>1, <2>6, <2>7, <2>8, <2>9, LocalStep, NotYetPublished
<1>6. ASSUME old.ret # "captured", old.fp = old.before, Set(r, next) PROVE AgentInv'
  <2>1. /\ next \in Locals /\ next.pc = old.ret /\ next.before = old.before /\ next.fp = None
        /\ next.got = old.got /\ next.target = old.target /\ run'[r] = next
    BY <1>1, <1>2, <1>6, LocalTypes DEF Locals, Steps, Returns, Set, AgentInv, RunTypes, Over, Publishing
  <2> HIDE DEF next
  <2>2. NotNewer(r)'
    BY <1>1, <1>2, <2>1, LocalTypes DEF NotNewer
  <2>3. old.ret \in {"blocked", "build", "return", "done", "rename", "error"}
    BY <1>1, <1>6, LocalTypes DEF Returns
  <2>4. ~Unconfirmed(r)' /\ next.pc \notin Reading /\ repo \in history[r]
    BY <1>3, <2>1, <2>3, LocalTypes DEF Unconfirmed, Reading, Knows
  <2>5. Compared(r)' => OneState(r)
    <3>1. CASE old.ret \in {"build", "return"}
      BY <1>1, <1>6, <3>1, ConfirmedState
    <3>2. CASE old.ret \in {"done", "rename"}
      BY <1>1, <1>3, <3>2, LocalTypes DEF Knows, Compared
    <3>3. CASE old.ret \in {"blocked", "error"}
      BY <2>1, <3>3 DEF Compared, Publishing, Reading
    <3> QED
      BY <2>3, <3>1, <3>2, <3>3
  <2>6. Knows(r)'
    BY <1>1, <2>1, <2>2, <2>4, <2>5 DEF Knows, Snapshot, OneState
  <2>7. Staged(r)'
    BY <1>1, <1>3, <2>1, <2>3, LocalTypes DEF Staged, Publishing, Complete, diskVars, Reading
  <2>8. Settled(old) => Settled(next)
    BY <1>1, <2>1 DEF Settled
  <2> QED
    BY <1>1, <1>6, <2>1, <2>6, <2>7, <2>8, LocalStep, NotYetPublished
<1>7. \/ Set(r, [next EXCEPT !.pc = "error", !.code = "GIT_STATE_UNAVAILABLE"])
      \/ Set(r, [next EXCEPT !.pc = "except", !.code = "GIT_STATE_UNAVAILABLE"])
      \/ old.ret = "captured" /\ Set(r, [next EXCEPT !.before = old.fp])
      \/ old.ret # "captured" /\ old.fp = old.before /\ Set(r, next)
      \/ Set(r, [next EXCEPT !.pc = "error", !.code = "REPO_MUTATED_DURING_DRY_RUN"])
      \/ Set(r, [next EXCEPT !.pc = "except", !.code = "REPO_MUTATED_DURING_DRY_RUN"])
  <2> DEFINE Failed(p, c) == Set(r, [next EXCEPT !.pc = p, !.code = c])
  <2>1. \/ Failed("error", "GIT_STATE_UNAVAILABLE")
        \/ Failed("except", "GIT_STATE_UNAVAILABLE")
        \/ old.ret = "captured" /\ Set(r, [next EXCEPT !.before = old.fp])
        \/ old.ret # "captured" /\ old.fp = old.before /\ Set(r, next)
        \/ Failed(IF old.ret = "error" THEN "error" ELSE "except", "REPO_MUTATED_DURING_DRY_RUN")
    BY Zenon DEF FingerprintEnd
  <2> HIDE DEF next
  <2>2. CASE old.ret = "error"
    BY <2>1, <2>2
  <2>3. CASE old.ret # "error"
    BY <2>1, <2>3
  <2> QED
    BY <2>2, <2>3
<1> HIDE DEF next
<1>8. "GIT_STATE_UNAVAILABLE" \in Codes /\ "REPO_MUTATED_DURING_DRY_RUN" \in Codes
  BY DEF Codes
<1> QED
  BY <1>4, <1>5, <1>6, <1>7, <1>8

-----------------------------------------------------------------------------
(* What a run uses of the repository *)

\* The run uses one more part and goes on.
LEMMA UsesPart ==
  ASSUME AgentInv, NEW r \in Runs, NEW me \in Locals, NEW x \in Parts, Set(r, me),
         UNCHANGED <<repo, history, diskVars>>,
         run[r].pc \in {"captured", "registry", "revision"},
         me.pc \in {"registry", "revision", "verify"},
         HasUsed(me.pc) = HasUsed(run[r].pc) \cup {x},
         me.got = [run[r].got EXCEPT ![x] = repo[x]],
         me.before = run[r].before, me.fp = run[r].fp, me.target = run[r].target
  PROVE  AgentInv'
<1>1. run'[r] = me /\ run[r].got \in State
  BY LocalTypes DEF Set, AgentInv, RunTypes
<1>2. me.got[x] = repo[x] /\ \A y \in Parts : y # x => me.got[y] = run[r].got[y]
  BY <1>1 DEF State
<1>3. run[r].pc \notin Over /\ ~Settled(run[r]) /\ HasRead(me.pc) = {}
  BY DEF Over, Settled, Reading, HasRead
<1>4. PICK s \in history[r] : Between(r, s)
  BY LocalTypes DEF Knows, Snapshot, Unconfirmed
<1>5. Between(r, s)'
  <2>1. ASSUME NEW y \in Parts
        PROVE  me.before[y] <= s[y] /\ s[y] <= repo[y] /\ (y \in HasUsed(me.pc) => s[y] <= me.got[y])
    <3>1. CASE y = x
      BY <3>1, <1>2, <1>4 DEF Between
    <3>2. CASE y # x
      BY <3>2, <1>2, <1>4 DEF Between
    <3> QED
      BY <3>1, <3>2
  <2> QED
    BY <1>1, <1>3, <2>1 DEF Between
<1>6. NotNewer(r)'
  <2>1. ASSUME NEW y \in Parts PROVE me.got[y] <= repo[y]
    <3>1. repo[y] \in Nat /\ run[r].got[y] <= repo[y]
      BY LocalTypes
    <3> QED
      BY <3>1, <1>2
  <2>2. \A y \in Parts : run[r].before[y] <= repo[y] /\ run[r].fp[y] <= repo[y]
    BY LocalTypes
  <2> QED
    BY <1>1, <2>1, <2>2 DEF NotNewer
<1>7. Knows(r)'
  BY <1>1, <1>3, <1>5, <1>6, LocalTypes DEF Knows, Snapshot, Compared, Reading, Publishing
<1>8. Staged(r)'
  BY <1>1 DEF Staged, Reading, Publishing
<1> QED
  BY <1>3, <1>7, <1>8, LocalStep, NotYetPublished

\* The locals of a run that has used part x.
Using(r, x, p, ret, code) ==
    [[run[r] EXCEPT !.got[x] = repo[x]] EXCEPT !.pc = p, !.ret = ret, !.code = code]

HasUsedPart(me, r, x, p, ret) ==
    /\ me \in Locals /\ me.pc = p /\ me.ret = ret
    /\ me.got = [run[r].got EXCEPT ![x] = repo[x]]
    /\ \A y \in Parts : me.got[y] <= repo[y]
    /\ me.before = run[r].before /\ me.fp = run[r].fp /\ me.target = run[r].target

LEMMA UsedLocals ==
  ASSUME AgentInv, NEW r \in Runs, NEW x \in Parts, NEW p \in Steps, NEW ret \in Returns, NEW code \in Codes
  PROVE  HasUsedPart(Using(r, x, p, ret, code), r, x, p, ret)
<1> DEFINE g == [run[r].got EXCEPT ![x] = repo[x]]
           me == Using(r, x, p, ret, code)
<1>1. g \in State /\ \A y \in Parts : g[y] <= repo[y]
  BY LocalTypes DEF State
<1>2. me = [run[r] EXCEPT !.got = g, !.pc = p, !.ret = ret, !.code = code]
  BY LocalTypes DEF Locals, Using
<1> HIDE DEF g, me
<1>3. /\ me \in Locals /\ me.pc = p /\ me.ret = ret /\ me.got = g
      /\ me.before = run[r].before /\ me.fp = run[r].fp /\ me.target = run[r].target
  BY <1>1, <1>2, LocalTypes DEF Locals
<1> QED
  BY <1>1, <1>3 DEF g, me, HasUsedPart

LEMMA UseFails ==
  ASSUME AgentInv, NEW r \in Runs, NEW x \in Parts, NEW p \in {"fp_head", "except"},
         NEW ret \in Returns, NEW code \in Codes, p = "fp_head" => ret = "blocked",
         Set(r, Using(r, x, p, ret, code)), UNCHANGED <<repo, history, diskVars>>,
         run[r].pc \notin Over, ~Settled(run[r])
  PROVE  AgentInv'
<1> DEFINE me == Using(r, x, p, ret, code)
<1>1. p \in Steps
  BY DEF Steps, Reading
<1>2. HasUsedPart(me, r, x, p, ret)
  BY <1>1, UsedLocals
<1>3. Set(r, me)
  OBVIOUS
<1> HIDE DEF me
<1>4. /\ me \in Locals /\ me.pc = p /\ me.ret = ret /\ \A y \in Parts : me.got[y] <= repo[y]
      /\ me.before = run[r].before /\ me.fp = run[r].fp /\ me.target = run[r].target
  BY <1>2 DEF HasUsedPart
<1> QED
  BY <1>3, <1>4, GivesUp, LocalTypes

LEMMA UseSteps ==
  ASSUME AgentInv, NEW r \in Runs, NEW x \in Parts, NEW from, NEW to, run[r].pc = from,
         <<from, x, to>> \in {<<"captured", "task", "registry">>, <<"registry", "registry", "revision">>,
                              <<"revision", "head", "verify">>},
         UNCHANGED <<repo, history, diskVars>>,
         \/ \E findings : Set(r, BlockedBy(findings, [run[r] EXCEPT !.got[x] = repo[x]], to))
         \/ Set(r, [[run[r] EXCEPT !.got[x] = repo[x]] EXCEPT !.pc = "except", !.code = "HANDOFF_VALIDATION_FAILED"])
         \/ Set(r, [[run[r] EXCEPT !.got[x] = repo[x]] EXCEPT !.pc = to])
  PROVE  AgentInv'
<1> DEFINE u == [run[r] EXCEPT !.got[x] = repo[x]]
<1>1. u.ret = run[r].ret /\ u.code = run[r].code
  BY LocalTypes DEF Locals
<1>2. \/ Set(r, [u EXCEPT !.pc = "fp_head", !.ret = "blocked"])
      \/ Set(r, [u EXCEPT !.pc = "except", !.code = "HANDOFF_VALIDATION_FAILED"])
      \/ Set(r, [u EXCEPT !.pc = to])
  <2>1. ASSUME NEW findings, Set(r, BlockedBy(findings, u, to))
        PROVE  Set(r, [u EXCEPT !.pc = "fp_head", !.ret = "blocked"]) \/ Set(r, [u EXCEPT !.pc = to])
    <3>1. CASE findings # {}
      BY <2>1, <3>1 DEF BlockedBy
    <3>2. CASE findings = {}
      BY <2>1, <3>2 DEF BlockedBy
    <3> QED
      BY <3>1, <3>2
  <2> QED
    BY <2>1
<1>3. /\ [u EXCEPT !.pc = "fp_head", !.ret = "blocked"] = Using(r, x, "fp_head", "blocked", run[r].code)
      /\ [u EXCEPT !.pc = "except", !.code = "HANDOFF_VALIDATION_FAILED"]
            = Using(r, x, "except", run[r].ret, "HANDOFF_VALIDATION_FAILED")
      /\ [u EXCEPT !.pc = to] = Using(r, x, to, run[r].ret, run[r].code)
  BY <1>1, LocalTypes DEF Locals, Using
<1>4. /\ from \in {"captured", "registry", "revision"} /\ to \in {"registry", "revision", "verify"}
      /\ HasUsed(to) = HasUsed(from) \cup {x}
  BY DEF HasUsed
<1>5. run[r].pc \notin Over /\ ~Settled(run[r])
  BY <1>4 DEF Over, Settled, Reading
<1>6. ASSUME NEW p \in {"fp_head", "except"}, NEW ret \in Returns, NEW code \in Codes,
             p = "fp_head" => ret = "blocked", Set(r, Using(r, x, p, ret, code))
      PROVE  AgentInv'
  BY <1>5, <1>6, UseFails
<1>7. ASSUME Set(r, Using(r, x, to, run[r].ret, run[r].code)) PROVE AgentInv'
  <2> DEFINE me == Using(r, x, to, run[r].ret, run[r].code)
  <2>1. to \in Steps
    BY <1>4 DEF Steps
  <2>2. /\ me \in Locals /\ me.pc = to /\ me.got = [run[r].got EXCEPT ![x] = repo[x]]
        /\ me.before = run[r].before /\ me.fp = run[r].fp /\ me.target = run[r].target
    <3>1. run[r].ret \in Returns /\ run[r].code \in Codes
      BY LocalTypes
    <3>2. HasUsedPart(me, r, x, to, run[r].ret)
      BY <2>1, <3>1, UsedLocals
    <3> HIDE DEF me
    <3> QED
      BY <3>2 DEF HasUsedPart
  <2>3. Set(r, me)
    BY <1>7
  <2> HIDE DEF me
  <2> QED
    BY <1>4, <2>2, <2>3, UsesPart
<1>8. "blocked" \in Returns /\ "HANDOFF_VALIDATION_FAILED" \in Codes
  BY DEF Returns, Codes
<1> HIDE DEF u
<1> QED
  BY <1>2, <1>3, <1>6, <1>7, <1>8, LocalTypes

LEMMA LoadSteps ==
  ASSUME AgentInv, NEW r \in Runs, LoadTask(r) \/ LoadRegistry(r) \/ ResolveRevision(r)
  PROVE  AgentInv'
<1>0. {"task", "registry", "head"} \subseteq Parts
  BY DEF Parts
<1>1. CASE LoadTask(r)
  BY <1>0, <1>1, UseSteps DEF LoadTask, At
<1>2. CASE LoadRegistry(r)
  BY <1>0, <1>2, UseSteps DEF LoadRegistry, At
<1>3. CASE ResolveRevision(r)
  BY <1>0, <1>3, UseSteps DEF ResolveRevision, At
<1> QED
  BY <1>1, <1>2, <1>3

-----------------------------------------------------------------------------
(* Comparisons and publication *)

\* The locals of a run that moves on.
Moving(r, p, ret) == [run[r] EXCEPT !.pc = p, !.ret = ret]
HasMoved(me, r, p, ret) ==
    /\ me \in Locals /\ me.pc = p /\ me.ret = ret /\ me.before = run[r].before
    /\ me.fp = run[r].fp /\ me.got = run[r].got /\ me.target = run[r].target

LEMMA MovedLocals ==
  ASSUME AgentInv, NEW r \in Runs, NEW p \in Steps, NEW ret \in Returns
  PROVE  HasMoved(Moving(r, p, ret), r, p, ret)
  BY LocalTypes DEF HasMoved, Moving, Locals

LEMMA MovedOn ==
  ASSUME AgentInv, NEW r \in Runs, NEW p \in Steps
  PROVE  [run[r] EXCEPT !.pc = p] = Moving(r, p, run[r].ret)
  BY LocalTypes DEF Moving, Locals

LEMMA RecheckStep ==
  ASSUME AgentInv, NEW r \in Runs, NEW from, NEW ret, SameRevision(r, from, ret),
         \/ from = "verify" /\ ret = IF run[r].target = NoRun THEN "return" ELSE "build"
         \/ from = "return" /\ ret = "done"
         \/ from = "guard" /\ ret = "rename"
  PROVE  AgentInv'
<1>1. run[r].pc = from /\ UNCHANGED <<repo, history, diskVars>> /\ run[r].pc \notin Over
  BY DEF SameRevision, At, Over
<1>2. CASE Raise(r, "SOURCE_REVISION_CHANGED_DURING_DRY_RUN")
  BY <1>1, <1>2, RaiseStep DEF Codes
<1>3. CASE AssertUnchanged(r, ret)
  <2> DEFINE me == Moving(r, "fp_head", ret)
  <2>1. ret \in Returns /\ "fp_head" \in Steps /\ ret \in {"return", "build", "done", "rename"}
    BY DEF Returns, Steps, Reading
  <2>2. HasMoved(me, r, "fp_head", ret) /\ Set(r, me)
    BY <1>3, <2>1, MovedLocals DEF AssertUnchanged, Moving
  <2> HIDE DEF me
  <2>3. /\ me \in Locals /\ me.pc = "fp_head" /\ me.ret = ret /\ me.before = run[r].before
        /\ me.fp = run[r].fp /\ me.got = run[r].got /\ me.target = run[r].target /\ run'[r] = me
    BY <2>2 DEF HasMoved, Set, AgentInv, RunTypes
  <2>4. NotNewer(r)'
    BY <1>1, <2>3, LocalTypes DEF NotNewer, Knows
  <2>5. Snapshot(r)'
    <3>1. CASE from = "verify"
      <4>1. PICK s \in history[r] : Between(r, s)
        BY <1>1, <3>1, LocalTypes DEF Knows, Snapshot, Unconfirmed
      <4>2. HasUsed("fp_head") = HasUsed("verify") /\ HasRead("fp_head") = {}
        BY DEF HasUsed, HasRead
      <4>3. Between(r, s)'
        BY <1>1, <2>3, <3>1, <4>1, <4>2 DEF Between
      <4> QED
        BY <1>1, <4>3 DEF Snapshot
    <3>2. CASE from # "verify"
      BY <2>3, <3>2 DEF Snapshot, Unconfirmed
    <3> QED
      BY <3>1, <3>2
  <2>6. Compared(r)' => OneState(r)
    BY <1>1, <2>3, LocalTypes DEF Compared, Knows, Publishing, Reading
  <2>7. Knows(r)'
    BY <1>1, <2>1, <2>3, <2>4, <2>5, <2>6, LocalTypes DEF Knows, OneState
  <2>8. Staged(r)'
    BY <1>1, <2>3, LocalTypes DEF Staged, Publishing, Reading, Complete, diskVars
  <2>9. ~Settled(run[r])
    BY <1>1 DEF Settled, Reading
  <2> QED
    BY <1>1, <2>2, <2>3, <2>7, <2>8, <2>9, LocalStep, NotYetPublished
<1> QED
  BY <1>2, <1>3 DEF SameRevision

LEMMA BuildStep ==
  ASSUME AgentInv, NEW r \in Runs, BuildEvidence(r)
  PROVE  AgentInv'
<1>1. run[r].pc = "build" /\ UNCHANGED <<repo, history, diskVars>> /\ run[r].pc \notin Over
  BY DEF BuildEvidence, At, Over
<1>2. CASE Raise(r, "RUN_EVIDENCE_INVALID")
  BY <1>1, <1>2, RaiseStep DEF Codes
<1>3. CASE Set(r, [run[r] EXCEPT !.pc = "stage"])
  <2> DEFINE me == Moving(r, "stage", run[r].ret)
  <2>1. "stage" \in Steps
    BY DEF Steps, Publishing
  <2>2. HasMoved(me, r, "stage", run[r].ret) /\ Set(r, me)
    BY <1>3, <2>1, MovedLocals, MovedOn, LocalTypes
  <2> HIDE DEF me
  <2>3. /\ me \in Locals /\ me.pc = "stage" /\ me.before = run[r].before
        /\ me.fp = run[r].fp /\ me.got = run[r].got /\ me.target = run[r].target /\ run'[r] = me
    BY <2>2 DEF HasMoved, Set, AgentInv, RunTypes
  <2>4. NotNewer(r)' /\ ~Unconfirmed(r)'
    BY <1>1, <2>3, LocalTypes DEF NotNewer, Knows, Unconfirmed, Reading
  <2>5. Knows(r)'
    BY <1>1, <2>3, <2>4, LocalTypes DEF Knows, OneState, Snapshot, Compared, Publishing, Reading
  <2>6. Staged(r)'
    BY <1>1, <2>3, LocalTypes DEF Staged, Publishing, Reading
  <2>7. ~Settled(run[r])
    BY <1>1 DEF Settled, Reading
  <2> QED
    BY <1>1, <2>2, <2>3, <2>5, <2>6, <2>7, LocalStep, NotYetPublished
<1> QED
  BY <1>2, <1>3 DEF BuildEvidence

LEMMA ConfirmStep ==
  ASSUME AgentInv, NEW r \in Runs, ConfirmPublished(r)
  PROVE  AgentInv'
<1>1. run[r].pc = "identity" /\ UNCHANGED <<repo, history, diskVars>> /\ run[r].pc \notin Over
  BY DEF ConfirmPublished, At, Over
<1>2. CASE Raise(r, "OUTPUT_LOCATION_CHANGED")
  BY <1>1, <1>2, RaiseStep DEF Codes
<1>3. CASE Set(r, [run[r] EXCEPT !.pc = "done"])
  <2> DEFINE me == Moving(r, "done", run[r].ret)
  <2>1. "done" \in Steps
    BY DEF Steps, Over
  <2>2. HasMoved(me, r, "done", run[r].ret) /\ Set(r, me)
    BY <1>3, <2>1, MovedLocals, MovedOn, LocalTypes
  <2> HIDE DEF me
  <2>3. /\ me \in Locals /\ me.pc = "done" /\ me.before = run[r].before
        /\ me.fp = run[r].fp /\ me.got = run[r].got /\ me.target = run[r].target /\ run'[r] = me
    BY <2>2 DEF HasMoved, Set, AgentInv, RunTypes
  <2>4. NotNewer(r)' /\ ~Unconfirmed(r)'
    BY <1>1, <2>3, LocalTypes DEF NotNewer, Knows, Unconfirmed, Reading
  <2>5. Knows(r)'
    BY <1>1, <2>3, <2>4, LocalTypes DEF Knows, OneState, Snapshot, Compared, Publishing, Reading, Over
  <2>6. Staged(r)'
    BY <1>1, <2>3, LocalTypes DEF Staged, Publishing, Reading, diskVars
  <2>7. Settled(me)
    BY <2>3 DEF Settled
  <2> QED
    BY <1>1, <2>2, <2>3, <2>5, <2>6, <2>7, LocalStep
<1> QED
  BY <1>2, <1>3 DEF ConfirmPublished

\* A step of a run that is not published may change its bundle too.
LEMMA BundleStep ==
  ASSUME AgentInv, NEW r \in Runs, NEW me \in Locals, Set(r, me),
         NEW b \in [exists : BOOLEAN, files : 0..Files, listed : BOOLEAN],
         bundle' = [bundle EXCEPT ![r] = b],
         UNCHANGED <<repo, history, target, onDisk>>,
         \A t \in Targets : target[t] # r,
         Knows(r)', Staged(r)'
  PROVE  AgentInv'
<1>1. run' \in [Runs -> Locals] /\ run'[r] = me /\ \A q \in Runs \ {r} : run'[q] = run[q]
  BY DEF Set, AgentInv, RunTypes
<1>2. \A q \in Runs \ {r} : bundle'[q] = bundle[q]
  BY DEF AgentInv, DiskTypes
<1>3. RunTypes' /\ DiskTypes'
  BY <1>1 DEF AgentInv, RunTypes, DiskTypes
<1>4. ASSUME NEW q \in Runs \ {r} PROVE Knows(q)' /\ Staged(q)'
  <2>1. run'[q] = run[q] /\ Knows(q) /\ Staged(q) /\ bundle'[q] = bundle[q]
    BY <1>1, <1>2 DEF AgentInv
  <2>2. Knows(q)'
    BY <2>1 DEF Knows, NotNewer, Snapshot, Unconfirmed, Between, Compared, OneState
  <2>3. Staged(q)'
    BY <2>1 DEF Staged, Complete
  <2> QED
    BY <2>2, <2>3
<1>5. ASSUME NEW t \in Targets PROVE Published(t)'
  <2>1. Published(t) /\ target[t] \in Runs \cup {NoRun} /\ target[t] # r
    BY DEF AgentInv, DiskTypes
  <2>2. CASE target[t] = NoRun
    BY <2>1, <2>2 DEF Published
  <2>3. CASE target[t] \in Runs \ {r}
    BY <2>1, <2>3, <1>1, <1>2 DEF Published, Complete, OneState
  <2> QED
    BY <2>1, <2>2, <2>3
<1> QED
  BY <1>3, <1>4, <1>5 DEF AgentInv

LEMMA NoBundleType == NoBundle \in [exists : BOOLEAN, files : 0..Files, listed : BOOLEAN]
<1>1. 0 \in 0..Files
  BY DEF Files
<1> QED
  BY <1>1 DEF NoBundle

LEMMA StageStep ==
  ASSUME AgentInv, NEW r \in Runs, StageBundle(r)
  PROVE  AgentInv'
<1>1. run[r].pc = "stage" /\ UNCHANGED <<repo, history, target, onDisk>> /\ run[r].pc \notin Over
  BY DEF StageBundle, At, Over
<1>2. CASE Raise(r, "OUTPUT_WRITE_FAILED") /\ UNCHANGED bundle
  BY <1>1, <1>2, RaiseStep DEF Codes, diskVars
<1>3. CASE /\ bundle' = [bundle EXCEPT ![r] = [NoBundle EXCEPT !.exists = TRUE]]
           /\ Set(r, [run[r] EXCEPT !.pc = "write"])
  <2> DEFINE me == Moving(r, "write", run[r].ret)
             b == [NoBundle EXCEPT !.exists = TRUE]
  <2>1. "write" \in Steps /\ b \in [exists : BOOLEAN, files : 0..Files, listed : BOOLEAN] /\ b.exists
    <3>1. "write" \in Steps
      BY DEF Steps, Publishing
    <3>2. b \in [exists : BOOLEAN, files : 0..Files, listed : BOOLEAN] /\ b.exists
      BY NoBundleType
    <3> QED
      BY <3>1, <3>2
  <2>2. HasMoved(me, r, "write", run[r].ret) /\ Set(r, me)
    BY <1>3, <2>1, MovedLocals, MovedOn, LocalTypes
  <2> HIDE DEF me, b
  <2>3. /\ me \in Locals /\ me.pc = "write" /\ me.before = run[r].before
        /\ me.fp = run[r].fp /\ me.got = run[r].got /\ me.target = run[r].target /\ run'[r] = me
    BY <2>2 DEF HasMoved, Set, AgentInv, RunTypes
  <2>4. NotNewer(r)' /\ ~Unconfirmed(r)'
    BY <1>1, <2>3, LocalTypes DEF NotNewer, Knows, Unconfirmed, Reading
  <2>5. Knows(r)'
    BY <1>1, <2>3, <2>4, LocalTypes DEF Knows, OneState, Snapshot, Compared, Publishing, Reading
  <2>8. bundle' = [bundle EXCEPT ![r] = b]
    BY <1>3 DEF b
  <2>9. bundle'[r] = b
    BY <2>8 DEF AgentInv, DiskTypes
  <2>6. Staged(r)'
    BY <1>1, <2>1, <2>3, <2>9, LocalTypes DEF Staged, Publishing, Reading
  <2>7. ~Settled(run[r])
    BY <1>1 DEF Settled, Reading
  <2> QED
    BY <1>1, <2>1, <2>2, <2>3, <2>5, <2>6, <2>7, <2>8, BundleStep, NotYetPublished
<1> QED
  BY <1>2, <1>3 DEF StageBundle

LEMMA WriteStep ==
  ASSUME AgentInv, NEW r \in Runs, WriteFile(r)
  PROVE  AgentInv'
<1>1. /\ run[r].pc = "write" /\ UNCHANGED <<repo, history, target, onDisk>> /\ run[r].pc \notin Over
      /\ bundle[r].files < Files /\ bundle[r] \in [exists : BOOLEAN, files : 0..Files, listed : BOOLEAN]
  BY DEF WriteFile, At, Over, AgentInv, DiskTypes
<1>2. CASE Raise(r, "OUTPUT_WRITE_FAILED") /\ UNCHANGED bundle
  BY <1>1, <1>2, RaiseStep DEF Codes, diskVars
<1>3. CASE bundle' = [bundle EXCEPT ![r].files = @ + 1] /\ UNCHANGED run
  <2> DEFINE b == [bundle[r] EXCEPT !.files = @ + 1]
  <2>1. b \in [exists : BOOLEAN, files : 0..Files, listed : BOOLEAN] /\ b.exists = bundle[r].exists
    BY <1>1 DEF Files
  <2>2. bundle' = [bundle EXCEPT ![r] = b]
    BY <1>3
  <2> HIDE DEF b
  <2>3. Set(r, run[r]) /\ run[r] \in Locals /\ run' = run
    BY <1>3 DEF Set, AgentInv, RunTypes
  <2>4. Knows(r)'
    BY <1>1, <2>3, LocalTypes DEF Knows, NotNewer, Snapshot, Unconfirmed, Between, Compared, OneState
  <2>7. bundle'[r] = b
    BY <2>2 DEF AgentInv, DiskTypes
  <2>5. Staged(r)'
    BY <1>1, <2>1, <2>3, <2>7, LocalTypes DEF Staged, Reading
  <2>6. ~Settled(run[r])
    BY <1>1 DEF Settled, Reading
  <2> QED
    BY <1>1, <2>1, <2>2, <2>3, <2>4, <2>5, <2>6, BundleStep, NotYetPublished
<1> QED
  BY <1>2, <1>3 DEF WriteFile

LEMMA SyncStagingStep ==
  ASSUME AgentInv, NEW r \in Runs, SyncStaging(r)
  PROVE  AgentInv'
<1>1. /\ run[r].pc = "write" /\ UNCHANGED <<repo, history, target, onDisk>> /\ run[r].pc \notin Over
      /\ bundle[r].files = Files /\ bundle[r] \in [exists : BOOLEAN, files : 0..Files, listed : BOOLEAN]
  BY DEF SyncStaging, At, Over, AgentInv, DiskTypes
<1>2. CASE Raise(r, "OUTPUT_WRITE_FAILED") /\ UNCHANGED bundle
  BY <1>1, <1>2, RaiseStep DEF Codes, diskVars
<1>3. CASE /\ bundle' = [bundle EXCEPT ![r].listed = TRUE]
           /\ Set(r, [run[r] EXCEPT !.pc = "guard"])
  <2> DEFINE me == Moving(r, "guard", run[r].ret)
             b == [bundle[r] EXCEPT !.listed = TRUE]
  <2>1. /\ "guard" \in Steps /\ b \in [exists : BOOLEAN, files : 0..Files, listed : BOOLEAN]
        /\ b.files = Files /\ b.listed /\ b.exists = bundle[r].exists
    BY <1>1 DEF Steps, Publishing
  <2>2. HasMoved(me, r, "guard", run[r].ret) /\ Set(r, me)
    BY <1>3, <2>1, MovedLocals, MovedOn, LocalTypes
  <2>8. bundle' = [bundle EXCEPT ![r] = b]
    BY <1>3
  <2> HIDE DEF me, b
  <2>3. /\ me \in Locals /\ me.pc = "guard" /\ me.before = run[r].before
        /\ me.fp = run[r].fp /\ me.got = run[r].got /\ me.target = run[r].target /\ run'[r] = me
    BY <2>2 DEF HasMoved, Set, AgentInv, RunTypes
  <2>4. NotNewer(r)' /\ ~Unconfirmed(r)'
    BY <1>1, <2>3, LocalTypes DEF NotNewer, Knows, Unconfirmed, Reading
  <2>5. Knows(r)'
    BY <1>1, <2>3, <2>4, LocalTypes DEF Knows, OneState, Snapshot, Compared, Publishing, Reading
  <2>6. Staged(r)'
    <3>1. Complete(r)'
      BY <1>1, <2>1, <2>8, LocalTypes DEF Complete, Staged, AgentInv, DiskTypes
    <3> QED
      BY <1>1, <2>3, <3>1, LocalTypes DEF Staged, Publishing, Reading
  <2>7. ~Settled(run[r])
    BY <1>1 DEF Settled, Reading
  <2> QED
    BY <1>1, <2>1, <2>2, <2>3, <2>5, <2>6, <2>7, <2>8, BundleStep, NotYetPublished
<1> QED
  BY <1>2, <1>3 DEF SyncStaging

-----------------------------------------------------------------------------
(* From the rename on *)

LEMMA RenameStep ==
  ASSUME AgentInv, NEW r \in Runs, RenameBundle(r)
  PROVE  AgentInv'
<1>1. run[r].pc = "rename" /\ UNCHANGED <<repo, history, bundle, onDisk>> /\ run[r].pc \notin Over
  BY DEF RenameBundle, At, Over
<1>2. CASE Raise(r, "OUTPUT_DIR_EXISTS") /\ UNCHANGED target
  BY <1>1, <1>2, RaiseStep DEF Codes, diskVars
<1>3. CASE /\ target[run[r].target] = NoRun
           /\ target' = [target EXCEPT ![run[r].target] = r]
           /\ Set(r, [run[r] EXCEPT !.pc = "sync"])
  <2> DEFINE me == Moving(r, "sync", run[r].ret)
             to == run[r].target
  <2>1. "sync" \in Steps
    BY DEF Steps, Publishing
  <2>2. HasMoved(me, r, "sync", run[r].ret) /\ Set(r, me)
    BY <1>3, <2>1, MovedLocals, MovedOn, LocalTypes
  <2>3. to \in Targets /\ Complete(r) /\ OneState(r)
    BY <1>1, LocalTypes DEF Staged, Knows, Compared, Publishing
  <2> HIDE DEF me
  <2>4. /\ me \in Locals /\ me.pc = "sync" /\ me.before = run[r].before
        /\ me.fp = run[r].fp /\ me.got = run[r].got /\ me.target = run[r].target /\ run'[r] = me
    BY <2>2 DEF HasMoved, Set, AgentInv, RunTypes
  <2>5. run' \in [Runs -> Locals] /\ \A q \in Runs \ {r} : run'[q] = run[q]
    BY <2>2, <2>4 DEF Set, AgentInv, RunTypes
  <2>6. /\ target' \in [Targets -> Runs \cup {NoRun}] /\ target'[to] = r
        /\ \A t \in Targets : t # to => target'[t] = target[t]
    BY <1>3, <2>3 DEF AgentInv, DiskTypes
  <2>7. RunTypes' /\ DiskTypes'
    BY <1>1, <2>5, <2>6 DEF AgentInv, RunTypes, DiskTypes
  <2>8. NotNewer(r)' /\ ~Unconfirmed(r)'
    BY <1>1, <2>4, LocalTypes DEF NotNewer, Knows, Unconfirmed, Reading
  <2>9. Knows(r)'
    BY <1>1, <2>4, <2>8, LocalTypes DEF Knows, OneState, Snapshot, Compared, Publishing, Reading
  <2>10. Staged(r)'
    BY <1>1, <2>3, <2>4, <2>6, LocalTypes DEF Staged, Publishing, Reading
  <2>11. ASSUME NEW q \in Runs \ {r} PROVE Knows(q)' /\ Staged(q)'
    <3>1. run'[q] = run[q] /\ Knows(q) /\ Staged(q) /\ run[q].target \in Targets \cup {NoRun}
      BY <2>5, LocalTypes DEF AgentInv
    <3>2. Knows(q)'
      BY <1>1, <3>1 DEF Knows, NotNewer, Snapshot, Unconfirmed, Between, Compared, OneState
    <3>3. target[run[q].target] = q /\ run[q].target \in Targets => target'[run[q].target] = q
      BY <1>3, <2>6, AgentAssumption
    <3>4. Staged(q)'
      BY <1>1, <3>1, <3>3 DEF Staged, Complete
    <3> QED
      BY <3>2, <3>4
  <2>12. ASSUME NEW t \in Targets PROVE Published(t)'
    <3>1. Published(t) /\ target[t] \in Runs \cup {NoRun} /\ \A u \in Targets : target[u] # r
      <4>1. ~Settled(run[r])
        BY <1>1 DEF Settled, Reading
      <4> QED
        BY <4>1, NotYetPublished DEF AgentInv, DiskTypes
    <3>2. CASE t = to
      <4>1. onDisk'[t] = NoRun /\ target'[t] = r
        BY <1>1, <1>3, <2>6, <3>1, <3>2 DEF Published
      <4>2. Complete(r)' /\ OneState(r)' /\ run'[r].target = t /\ Settled(run'[r])
        BY <1>1, <2>3, <2>4, <3>2 DEF Complete, OneState, Settled
      <4> QED
        BY <4>1, <4>2 DEF Published
    <3>3. CASE t # to /\ target[t] = NoRun
      BY <1>1, <2>6, <3>1, <3>3 DEF Published
    <3>4. CASE t # to /\ target[t] \in Runs \ {r}
      BY <1>1, <2>5, <2>6, <3>1, <3>4 DEF Published, Complete, OneState
    <3> QED
      BY <3>1, <3>2, <3>3, <3>4
  <2> QED
    BY <2>7, <2>9, <2>10, <2>11, <2>12 DEF AgentInv
<1> QED
  BY <1>2, <1>3 DEF RenameBundle

LEMMA SyncParentStep ==
  ASSUME AgentInv, NEW r \in Runs, SyncParent(r)
  PROVE  AgentInv'
<1>1. run[r].pc = "sync" /\ UNCHANGED <<repo, history, bundle, target>> /\ run[r].pc \notin Over
  BY DEF SyncParent, At, Over
<1>2. CASE Raise(r, "OUTPUT_DURABILITY_UNCONFIRMED") /\ UNCHANGED onDisk
  BY <1>1, <1>2, RaiseStep DEF Codes, diskVars
<1>3. CASE /\ onDisk' = [onDisk EXCEPT ![run[r].target] = target[run[r].target]]
           /\ Set(r, [run[r] EXCEPT !.pc = "identity"])
  <2> DEFINE me == Moving(r, "identity", run[r].ret)
             to == run[r].target
  <2>1. "identity" \in Steps
    BY DEF Steps, Publishing
  <2>2. HasMoved(me, r, "identity", run[r].ret) /\ Set(r, me)
    BY <1>3, <2>1, MovedLocals, MovedOn, LocalTypes
  <2>3. to \in Targets /\ target[to] = r
    BY <1>1, LocalTypes DEF Staged, Publishing
  <2> HIDE DEF me
  <2>4. /\ me \in Locals /\ me.pc = "identity" /\ me.before = run[r].before
        /\ me.fp = run[r].fp /\ me.got = run[r].got /\ me.target = run[r].target /\ run'[r] = me
    BY <2>2 DEF HasMoved, Set, AgentInv, RunTypes
  <2>5. run' \in [Runs -> Locals] /\ \A q \in Runs \ {r} : run'[q] = run[q]
    BY <2>2, <2>4 DEF Set, AgentInv, RunTypes
  <2>6. /\ onDisk' \in [Targets -> Runs \cup {NoRun}] /\ onDisk'[to] = r
        /\ \A t \in Targets : t # to => onDisk'[t] = onDisk[t]
    BY <1>3, <2>3 DEF AgentInv, DiskTypes
  <2>7. RunTypes' /\ DiskTypes'
    BY <1>1, <2>5, <2>6 DEF AgentInv, RunTypes, DiskTypes
  <2>8. NotNewer(r)' /\ ~Unconfirmed(r)'
    BY <1>1, <2>4, LocalTypes DEF NotNewer, Knows, Unconfirmed, Reading
  <2>9. Knows(r)'
    BY <1>1, <2>4, <2>8, LocalTypes DEF Knows, OneState, Snapshot, Compared, Publishing, Reading
  <2>10. Staged(r)'
    BY <1>1, <2>3, <2>4, <2>6, LocalTypes DEF Staged, Publishing, Reading
  <2>11. ASSUME NEW q \in Runs \ {r} PROVE Knows(q)' /\ Staged(q)'
    <3>1. run'[q] = run[q] /\ Knows(q) /\ Staged(q) /\ run[q].target \in Targets \cup {NoRun}
      BY <2>5, LocalTypes DEF AgentInv
    <3>2. Knows(q)'
      BY <1>1, <3>1 DEF Knows, NotNewer, Snapshot, Unconfirmed, Between, Compared, OneState
    <3>3. run[q].target \in Targets /\ target[run[q].target] = q /\ onDisk[run[q].target] = q
             => onDisk'[run[q].target] = q
      BY <2>3, <2>6
    <3>4. Staged(q)'
      BY <1>1, <3>1, <3>3 DEF Staged, Complete
    <3> QED
      BY <3>2, <3>4
  <2>12. ASSUME NEW t \in Targets PROVE Published(t)'
    <3>1. Published(t) /\ target[t] \in Runs \cup {NoRun}
      BY DEF AgentInv, DiskTypes
    <3>2. onDisk'[t] \in {NoRun, target[t]}
      BY <2>3, <2>6, <3>1 DEF Published
    <3>3. CASE target[t] = NoRun
      BY <1>1, <3>2, <3>3 DEF Published
    <3>4. CASE target[t] = r
      <4>1. Complete(r)' /\ OneState(r)' /\ run'[r].target = t /\ Settled(run'[r])
        BY <1>1, <2>4, <3>1, <3>4, AgentAssumption DEF Published, Complete, OneState, Settled
      <4> QED
        BY <1>1, <3>2, <3>4, <4>1 DEF Published
    <3>5. CASE target[t] \in Runs \ {r}
      BY <1>1, <2>5, <3>1, <3>2, <3>5 DEF Published, Complete, OneState
    <3> QED
      BY <3>1, <3>3, <3>4, <3>5
  <2> QED
    BY <2>7, <2>9, <2>10, <2>11, <2>12 DEF AgentInv
<1> QED
  BY <1>2, <1>3 DEF SyncParent

\* The except block; the bundle is cleaned up only while it is not published.
LEMMA HandleErrorStep ==
  ASSUME AgentInv, NEW r \in Runs, HandleError(r)
  PROVE  AgentInv'
<1>1. run[r].pc = "except" /\ UNCHANGED <<repo, history, target, onDisk>> /\ run[r].pc \notin Over
  BY DEF HandleError, At, Over
<1>2. PICK p \in {"error", "fp_head"} : \E ret \in Returns :
         Set(r, Moving(r, p, ret)) /\ (p = "fp_head" => ret = "error")
  <2>1. CASE Set(r, [run[r] EXCEPT !.pc = "error"])
    BY <2>1, MovedOn, LocalTypes DEF Steps, Over
  <2>2. CASE AssertUnchanged(r, "error")
    BY <2>2 DEF AssertUnchanged, Moving, Returns
  <2> QED
    BY <2>1, <2>2 DEF HandleError
<1>3. PICK ret \in Returns : Set(r, Moving(r, p, ret)) /\ (p = "fp_head" => ret = "error")
  BY <1>2
<1> DEFINE me == Moving(r, p, ret)
<1>4. HasMoved(me, r, p, ret) /\ Set(r, me)
  BY <1>3, MovedLocals DEF Steps, Over, Reading
<1> HIDE DEF me
<1>5. /\ me \in Locals /\ me.pc = p /\ me.ret = ret /\ me.before = run[r].before
      /\ me.fp = run[r].fp /\ me.got = run[r].got /\ me.target = run[r].target /\ run'[r] = me
  BY <1>4 DEF HasMoved, Set, AgentInv, RunTypes
<1>6. Settled(me)
  BY <1>3, <1>5 DEF Settled, Reading
<1>7. CASE UNCHANGED bundle
  BY <1>1, <1>3, <1>4, <1>5, <1>6, <1>7, GivesUp, LocalTypes DEF diskVars
<1>8. CASE NotPublished(r) /\ CleanupStaging(r)
  <2>1. PICK b \in {NoBundle, bundle[r]} : bundle' = [bundle EXCEPT ![r] = b]
    BY <1>8 DEF CleanupStaging
  <2>2. b \in [exists : BOOLEAN, files : 0..Files, listed : BOOLEAN]
    BY NoBundleType DEF AgentInv, DiskTypes
  <2>3. NotNewer(r)'
    BY <1>1, <1>5, LocalTypes DEF NotNewer
  <2>4. ~Unconfirmed(r)' /\ ~Compared(r)'
    BY <1>3, <1>5 DEF Unconfirmed, Compared, Reading, Publishing
  <2>5. Knows(r)'
    BY <1>1, <1>3, <1>5, <2>3, <2>4, LocalTypes DEF Knows, Snapshot, Reading
  <2>6. Staged(r)'
    BY <1>3, <1>5 DEF Staged, Publishing, Reading
  <2> QED
    BY <1>1, <1>4, <1>5, <1>8, <2>1, <2>2, <2>5, <2>6, BundleStep DEF NotPublished
<1> QED
  BY <1>7, <1>8 DEF HandleError

-----------------------------------------------------------------------------
(* Starts, edits, kills and power losses *)

LEMMA NoneIsState == None \in State /\ \A x \in Parts : None[x] = 0
  BY DEF None, State

LEMMA FreshLocals ==
  /\ Fresh \in Locals /\ Fresh.before = None /\ Fresh.fp = None /\ Fresh.got = None
<1>1. "idle" \in Steps /\ "none" \in Returns /\ "none" \in Codes
  BY DEF Steps, Over, Returns, Codes
<1> QED
  BY <1>1, NoneIsState DEF Fresh, Locals

\* The locals of a run that was killed.
Dead(r) == [run[r] EXCEPT !.pc = "killed", !.fp = None, !.ret = "none"]

LEMMA DeadLocals ==
  ASSUME AgentInv, NEW r \in Runs
  PROVE  /\ Dead(r) \in Locals /\ Dead(r).pc = "killed" /\ Dead(r).fp = None
         /\ Dead(r).before = run[r].before /\ Dead(r).got = run[r].got
         /\ Dead(r).target = run[r].target
  BY LocalTypes, NoneIsState DEF Dead, Locals, Steps, Over, Returns

LEMMA KillStep ==
  ASSUME AgentInv, NEW r \in Runs, Kill(r)
  PROVE  AgentInv'
<1>1. Set(r, Dead(r)) /\ run[r].pc \notin Over /\ UNCHANGED <<repo, history, diskVars>>
  BY DEF Kill, Dead
<1>2. Settled(Dead(r))
  BY DeadLocals DEF Settled
<1>3. \A x \in Parts : Dead(r).fp[x] <= repo[x] /\ Dead(r).got[x] <= repo[x]
  BY DeadLocals, NoneIsState, LocalTypes
<1> QED
  BY <1>1, <1>2, <1>3, DeadLocals, GivesUp

LEMMA StartStep ==
  ASSUME AgentInv, NEW r \in Runs, NEW t \in Targets \cup {NoRun}, StartRun(r, t)
  PROVE  AgentInv'
<1> DEFINE me == [Fresh EXCEPT !.pc = "fp_head", !.target = t, !.ret = "captured"]
<1>1. /\ run[r].pc = "idle" /\ Set(r, me) /\ history' = [history EXCEPT ![r] = {repo}]
      /\ UNCHANGED <<repo, diskVars>>
  BY DEF StartRun, At
<1>2. /\ me \in Locals /\ me.pc = "fp_head" /\ me.ret = "captured" /\ me.target = t
      /\ me.before = None /\ me.fp = None /\ me.got = None
  <2>1. "fp_head" \in Steps /\ "captured" \in Returns
    BY DEF Steps, Reading, Returns
  <2> QED
    BY <2>1, FreshLocals DEF Locals
<1> HIDE DEF me
<1>3. run' \in [Runs -> Locals] /\ run'[r] = me /\ \A q \in Runs \ {r} : run'[q] = run[q]
  BY <1>1, <1>2 DEF Set, AgentInv, RunTypes
<1>4. /\ history' \in [Runs -> SUBSET State] /\ history'[r] = {repo}
      /\ \A q \in Runs \ {r} : history'[q] = history[q]
  BY <1>1 DEF AgentInv, RunTypes
<1>5. RunTypes' /\ DiskTypes'
  BY <1>1, <1>3, <1>4 DEF AgentInv, RunTypes, DiskTypes, diskVars
<1>6. NotNewer(r)' /\ ~Unconfirmed(r)' /\ ~Compared(r)'
  <2>1. \A x \in Parts : 0 <= repo[x]
    BY LocalTypes
  <2>2. NotNewer(r)'
    BY <1>1, <1>2, <1>3, <2>1, NoneIsState DEF NotNewer
  <2> QED
    BY <1>2, <1>3, <2>2 DEF Unconfirmed, Compared, Publishing, Reading
<1>7. Knows(r)'
  BY <1>1, <1>2, <1>3, <1>4, <1>6 DEF Knows, Snapshot, Reading
<1>8. Staged(r)'
  BY <1>2, <1>3 DEF Staged, Publishing, Reading
<1>9. ASSUME NEW q \in Runs \ {r} PROVE Knows(q)' /\ Staged(q)'
  <2>1. run'[q] = run[q] /\ history'[q] = history[q] /\ Knows(q) /\ Staged(q)
    BY <1>3, <1>4 DEF AgentInv
  <2>2. Knows(q)'
    BY <1>1, <2>1 DEF Knows, NotNewer, Snapshot, Unconfirmed, Between, Compared, OneState
  <2>3. Staged(q)'
    BY <1>1, <2>1 DEF Staged, Complete, diskVars
  <2> QED
    BY <2>2, <2>3
<1>10. ASSUME NEW u \in Targets PROVE Published(u)'
  <2>1. ~Settled(run[r])
    BY <1>1 DEF Settled, Reading
  <2>2. /\ Published(u) /\ target[u] \in Runs \cup {NoRun} /\ target[u] # r
        /\ UNCHANGED <<bundle, target, onDisk>>
    BY <1>1, <2>1, NotYetPublished DEF AgentInv, DiskTypes, diskVars
  <2>3. CASE target[u] = NoRun
    BY <2>2, <2>3 DEF Published
  <2>4. CASE target[u] \in Runs \ {r}
    BY <1>3, <1>4, <2>2, <2>4 DEF Published, Complete, OneState
  <2> QED
    BY <2>2, <2>3, <2>4
<1> QED
  BY <1>5, <1>7, <1>8, <1>9, <1>10 DEF AgentInv

LEMMA EditStep ==
  ASSUME AgentInv, Edit
  PROVE  AgentInv'
<1>1. PICK x \in Parts : repo' = [repo EXCEPT ![x] = @ + 1]
  BY DEF Edit
<1>2. /\ run' = run /\ UNCHANGED <<bundle, target, onDisk>>
      /\ history' = [r \in Runs |-> IF run[r].pc \in Over THEN history[r] ELSE history[r] \cup {repo'}]
  BY DEF Edit, diskVars
<1>3. repo \in State /\ repo' \in State /\ \A y \in Parts : repo[y] <= repo'[y] /\ repo[y] \in Nat /\ repo'[y] \in Nat
  BY <1>1 DEF AgentInv, RunTypes, State
<1>4. /\ history' \in [Runs -> SUBSET State]
      /\ \A r \in Runs : history[r] \subseteq history'[r] /\ (run[r].pc \notin Over => repo' \in history'[r])
  BY <1>2, <1>3 DEF AgentInv, RunTypes
<1>5. RunTypes' /\ DiskTypes'
  BY <1>2, <1>3, <1>4 DEF AgentInv, RunTypes, DiskTypes
<1>6. ASSUME NEW r \in Runs PROVE Knows(r)' /\ Staged(r)'
  <2>1. Knows(r) /\ Staged(r)
    BY DEF AgentInv
  <2>2. NotNewer(r)'
    BY <1>2, <1>3, LocalTypes DEF NotNewer
  <2>3. Snapshot(r)'
    <3> SUFFICES ASSUME Unconfirmed(r)' PROVE (\E s \in history[r] : Between(r, s))'
      BY DEF Snapshot
    <3>1. PICK s \in history[r] : Between(r, s)
      BY <1>2, <2>1 DEF Knows, Snapshot, Unconfirmed
    <3>2. s \in State /\ s \in history'[r]
      BY <1>4 DEF AgentInv, RunTypes
    <3>3. \A y \in Parts : s[y] <= repo'[y]
      BY <1>3, <3>1, <3>2 DEF Between, State
    <3>4. Between(r, s)'
      BY <1>2, <3>1, <3>3 DEF Between
    <3> QED
      BY <3>2, <3>4
  <2>4. Compared(r)' => OneState(r)'
    BY <1>2, <1>4, <2>1 DEF Knows, Compared, OneState
  <2>5. Knows(r)'
    BY <1>2, <1>4, <2>1, <2>2, <2>3, <2>4 DEF Knows
  <2>6. Staged(r)'
    BY <1>2, <2>1 DEF Staged, Complete
  <2> QED
    BY <2>5, <2>6
<1>7. ASSUME NEW t \in Targets PROVE Published(t)'
  <2>1. Published(t) /\ target[t] \in Runs \cup {NoRun}
    BY DEF AgentInv, DiskTypes
  <2> QED
    BY <1>2, <1>4, <2>1 DEF Published, Complete, OneState
<1> QED
  BY <1>5, <1>6, <1>7 DEF AgentInv

LEMMA PowerLossStep ==
  ASSUME AgentInv, PowerLoss
  PROVE  AgentInv'
<1>1. /\ run' = [r \in Runs |-> IF run[r].pc \in Over THEN run[r] ELSE Dead(r)]
      /\ target' \in [Targets -> Runs \cup {NoRun}]
      /\ \A t \in Targets : target'[t] \in {target[t], onDisk[t]}
      /\ onDisk' = target' /\ UNCHANGED <<repo, history>>
  BY DEF PowerLoss, Dead
<1>2. PICK kept \in [Runs -> 0..Files] :
         /\ \A r \in Runs : bundle[r].listed => kept[r] = bundle[r].files
         /\ bundle' = [r \in Runs |-> [bundle[r] EXCEPT !.files = kept[r]]]
  BY DEF PowerLoss
<1>3. ASSUME NEW r \in Runs
      PROVE  /\ bundle'[r] \in [exists : BOOLEAN, files : 0..Files, listed : BOOLEAN]
             /\ Complete(r) => Complete(r)'
  <2>1. bundle[r] \in [exists : BOOLEAN, files : 0..Files, listed : BOOLEAN] /\ kept[r] \in 0..Files
    BY DEF AgentInv, DiskTypes
  <2>2. /\ bundle'[r] = [bundle[r] EXCEPT !.files = kept[r]]
        /\ bundle[r].listed => kept[r] = bundle[r].files
    BY <1>2
  <2>3. /\ bundle'[r] \in [exists : BOOLEAN, files : 0..Files, listed : BOOLEAN]
        /\ bundle'[r].exists = bundle[r].exists /\ bundle'[r].listed = bundle[r].listed
        /\ bundle'[r].files = kept[r]
    BY <2>1, <2>2
  <2> QED
    BY <2>2, <2>3 DEF Complete
<1>4. DiskTypes'
  <2>1. bundle' \in [Runs -> [exists : BOOLEAN, files : 0..Files, listed : BOOLEAN]]
    <3>1. bundle' = [r \in Runs |-> bundle'[r]]
      BY <1>2
    <3> QED
      BY <1>3, <3>1
  <2> QED
    BY <1>1, <2>1 DEF DiskTypes
<1>5. ASSUME NEW r \in Runs
      PROVE  /\ run'[r] \in Locals /\ run'[r].pc \in Over
             /\ run'[r].before = run[r].before /\ run'[r].got = run[r].got
             /\ run'[r].target = run[r].target
             /\ run'[r].pc = run[r].pc \/ run'[r].pc = "killed"
             /\ \A x \in Parts : run'[r].fp[x] <= repo[x]
  <2>1. CASE run[r].pc \in Over
    BY <1>1, <2>1, LocalTypes
  <2>2. CASE run[r].pc \notin Over
    <3>1. run'[r] = Dead(r)
      BY <1>1, <2>2
    <3> QED
      BY <3>1, DeadLocals, NoneIsState, LocalTypes DEF Over
  <2> QED
    BY <2>1, <2>2
<1>6. RunTypes'
  <2>1. run' = [r \in Runs |-> run'[r]]
    BY <1>1
  <2>2. run' \in [Runs -> Locals]
    BY <1>5, <2>1
  <2> QED
    BY <1>1, <2>2 DEF AgentInv, RunTypes
<1>7. ASSUME NEW r \in Runs PROVE Knows(r)'
  <2>1. NotNewer(r)'
    BY <1>1, <1>5, LocalTypes DEF NotNewer
  <2>2. ~Unconfirmed(r)' /\ run'[r].pc \notin Reading /\ (Compared(r)' => run[r].pc = "done")
    BY <1>5 DEF Unconfirmed, Compared, Over, Reading, Publishing
  <2>3. Compared(r)' => OneState(r)'
    BY <1>1, <1>5, <2>2, LocalTypes DEF Knows, Compared, OneState
  <2> QED
    BY <1>5, <2>1, <2>2, <2>3 DEF Knows, Snapshot
<1>8. ASSUME NEW r \in Runs PROVE Staged(r)'
  <2>1. /\ run'[r].pc \notin Reading /\ run'[r].pc \notin Publishing
        /\ run'[r].pc \notin {"return", "guard", "rename", "write", "sync", "identity"}
    BY <1>5 DEF Over, Reading, Publishing
  <2>2. ASSUME run'[r].pc = "done", run'[r].target # NoRun
        PROVE  target'[run'[r].target] = r /\ onDisk'[run'[r].target] = r
    <3>1. run[r].pc = "done" /\ run[r].target \in Targets /\ run[r].target = run'[r].target
      BY <1>5, <2>2, LocalTypes
    <3>2. target[run[r].target] = r /\ onDisk[run[r].target] = r
      BY <2>2, <3>1, LocalTypes DEF Staged
    <3> QED
      BY <1>1, <3>1, <3>2
  <2> QED
    BY <2>1, <2>2 DEF Staged
<1>9. ASSUME NEW t \in Targets PROVE Published(t)'
  <2>1. Published(t) /\ target'[t] \in {NoRun, target[t]} /\ onDisk'[t] = target'[t]
    BY <1>1 DEF AgentInv, Published
  <2>2. CASE target'[t] = NoRun
    BY <2>1, <2>2 DEF Published
  <2>3. CASE target'[t] # NoRun
    <3>1. target'[t] = target[t] /\ target[t] \in Runs
      BY <2>1, <2>3 DEF AgentInv, DiskTypes
    <3> DEFINE r == target[t]
    <3>2. Complete(r) /\ OneState(r) /\ run[r].target = t /\ Settled(run[r])
      BY <2>1, <2>3, <3>1 DEF Published
    <3>3. Complete(r)'
      BY <1>3, <3>1, <3>2
    <3>4. OneState(r)' /\ run'[r].target = t
      BY <1>1, <1>5, <3>1, <3>2 DEF OneState
    <3>5. Settled(run'[r])
      BY <1>5, <3>1, <3>2 DEF Settled, Over, Reading
    <3> QED
      BY <2>1, <3>1, <3>3, <3>4, <3>5 DEF Published
  <2> QED
    BY <2>2, <2>3
<1> QED
  BY <1>4, <1>6, <1>7, <1>8, <1>9 DEF AgentInv

-----------------------------------------------------------------------------
(* The theorem *)

LEMMA InitAgent == AgentInit => AgentInv
<1> SUFFICES ASSUME AgentInit PROVE AgentInv
  OBVIOUS
<1>1. Fresh \in Locals
  BY FreshLocals
<1>2. repo \in State /\ \A x \in Parts : repo[x] = 1
  BY DEF AgentInit, State
<1>3. RunTypes /\ DiskTypes
  BY <1>1, <1>2, NoBundleType DEF AgentInit, RunTypes, DiskTypes
<1>4. ASSUME NEW r \in Runs PROVE Knows(r) /\ Staged(r)
  <2>1. /\ run[r].pc = "idle" /\ run[r].target = NoRun /\ run[r].before = None
        /\ run[r].fp = None /\ run[r].got = None
    BY DEF AgentInit, Fresh
  <2>2. NotNewer(r)
    BY <1>2, <2>1, NoneIsState DEF NotNewer
  <2> QED
    BY <2>1, <2>2 DEF Knows, Snapshot, Unconfirmed, Compared, Over, Reading, Publishing, Staged
<1>5. ASSUME NEW t \in Targets PROVE Published(t)
  BY DEF AgentInit, Published
<1> QED
  BY <1>3, <1>4, <1>5 DEF AgentInv

LEMMA NextAgent == AgentInv /\ [AgentNext]_agentVars => AgentInv'
<1> SUFFICES ASSUME AgentInv, [AgentNext]_agentVars PROVE AgentInv'
  OBVIOUS
<1>1. CASE UNCHANGED agentVars
  BY <1>1 DEF agentVars, AgentInv, RunTypes, DiskTypes, Knows, NotNewer, Snapshot, Unconfirmed,
              Between, Compared, OneState, Staged, Complete, Published, Settled
<1>2. ASSUME NEW r \in Runs, NEW t \in Targets \cup {NoRun}, StartRun(r, t) PROVE AgentInv'
  BY <1>2, StartStep
<1>3. ASSUME NEW r \in Runs, AgentStep(r) PROVE AgentInv'
  <2>1. CASE FingerprintHead(r) \/ FingerprintIndex(r) \/ FingerprintWorktree(r) \/ FingerprintUntracked(r)
    BY <2>1, FingerprintSteps
  <2>2. CASE FingerprintEnd(r)
    BY <2>2, FingerprintEndStep
  <2>3. CASE LoadTask(r) \/ LoadRegistry(r) \/ ResolveRevision(r)
    BY <2>3, LoadSteps
  <2>4. CASE VerifyUnchanged(r) \/ ReturnUnchanged(r) \/ PrePublishGuard(r)
    BY <2>4, RecheckStep DEF VerifyUnchanged, ReturnUnchanged, PrePublishGuard
  <2>5. CASE BuildEvidence(r) \/ StageBundle(r) \/ WriteFile(r) \/ SyncStaging(r)
    BY <2>5, BuildStep, StageStep, WriteStep, SyncStagingStep
  <2>6. CASE RenameBundle(r) \/ SyncParent(r) \/ ConfirmPublished(r) \/ HandleError(r)
    BY <2>6, RenameStep, SyncParentStep, ConfirmStep, HandleErrorStep
  <2> QED
    BY <1>3, <2>1, <2>2, <2>3, <2>4, <2>5, <2>6 DEF AgentStep
<1>4. ASSUME NEW r \in Runs, Kill(r) PROVE AgentInv'
  BY <1>4, KillStep
<1> QED
  BY <1>1, <1>2, <1>3, <1>4, EditStep, PowerLossStep DEF AgentNext

\* Whatever the working tree goes through during a dry run, however many runs
\* name the same target, and wherever they are killed or the machine loses
\* power: what a run publishes or reports as done describes one state that the
\* repository really had, with the task, the registry and the revision of that
\* state, a target never holds part of a bundle, and a run that reported
\* success finds its own bundle at its target and on the disk (_run_dry_run,
\* publish_evidence_bundle).
THEOREM AgentBundleIsSound == AgentSpec => []BundleIsSound
<1>1. AgentInv => BundleIsSound
  <2> SUFFICES ASSUME AgentInv PROVE EvidenceIsOneState /\ PublishedIsComplete
    BY DEF BundleIsSound
  <2>1. ASSUME NEW r \in Runs, (\E t \in Targets : target[t] = r) \/ (run[r].pc = "done")
        PROVE  OneState(r)
    BY <2>1, AgentAssumption DEF AgentInv, Published, Knows, Compared
  <2>2. EvidenceIsOneState
    BY <2>1 DEF EvidenceIsOneState, OneState
  <2>3. PublishedIsComplete
    BY DEF AgentInv, Published, Complete, Staged, PublishedIsComplete
  <2> QED
    BY <2>2, <2>3
<1> QED
  BY <1>1, InitAgent, NextAgent, PTL DEF AgentSpec

-----------------------------------------------------------------------------
(* Reviews *)

\* Every forbidden scope is one the handoff validator can read: one that is
\* absolute, empty or has an empty, "." or ".." part matches no path at all.
ForbiddenIsReadable == \A t \in ReviewTasks : \A s \in t.forbidden : ScopePath(s)

LEMMA TaskFields ==
  ASSUME NEW t \in ReviewTasks
  PROVE  t.allowed \subseteq Paths /\ t.forbidden \subseteq Paths /\ t.evidence \subseteq Paths
  BY ReviewAssumption

LEMMA HandoffFields ==
  ASSUME NEW h \in Handoffs
  PROVE  /\ h.changed \subseteq Paths /\ h.deleted \subseteq Paths
         /\ h.results \subseteq [command : STRING, status : STRING]
  BY ReviewAssumption

LEMMA PathParts == \A p \in Paths : p.parts \in Seq(STRING)
  BY DEF Paths

\* A sequence is under itself, and properly under another one only when longer.
LEMMA UnderItself == ASSUME NEW s \in Seq(STRING) PROVE IsUnder(s, s)
  BY DEF IsUnder

LEMMA ProperlyUnder ==
  ASSUME NEW s \in Seq(STRING), NEW p \in Seq(STRING), IsUnder(p, s)
  PROVE  p # s <=> Len(p) > Len(s)
<1>1. Len(s) <= Len(p) /\ SubSeq(p, 1, Len(s)) = s /\ Len(s) \in Nat /\ Len(p) \in Nat
  BY DEF IsUnder
<1>2. SubSeq(p, 1, Len(p)) = p
  OBVIOUS
<1> QED
  BY <1>1, <1>2

\* What the validator leaves when it finds nothing.
LEMMA NothingFound ==
  ASSUME NEW t, NEW h, ValidateHandoff(t, h) = {}
  PROVE  /\ TaskSchemaFindings(t) = {} /\ NonIdealGuard(t) = {}
         /\ PathFindings(t, h) = {} /\ AddressedFindings(t, h) = {}
         /\ EvidenceFindings(t, h) = {} /\ OutcomeFindings(t, h) = {}
<1> DEFINE shape == TaskSchemaFindings(t) \cup (IF h.claims = {} THEN {"HANDOFF_SCHEMA_INVALID"} ELSE {})
<1>1. shape = {} /\ NonIdealGuard(t) = {} /\ (IF shape = {} THEN BindingFindings(t, h) ELSE {}) = {}
  BY DEF ValidateHandoff
<1>2. BindingFindings(t, h) = {} /\ TaskSchemaFindings(t) = {}
  BY <1>1
<1> QED
  BY <1>1, <1>2 DEF BindingFindings

\* Declared paths are files of the repository inside the scope of the task.
LEMMA PathsInScope ==
  ASSUME NEW t, NEW h, PathFindings(t, h) = {}
  PROVE  /\ \A p \in h.changed \cup h.deleted :
               /\ FilePath(p)
               /\ \E s \in t.allowed : MatchesScope(p, s)
               /\ \A s \in t.forbidden : ~MatchesScope(p, s)
         /\ h.deleted # {} => t.deleteAllowed
<1> DEFINE Codes_ == {"PATH_OUT_OF_REPO", "PATH_OUT_OF_SCOPE", "FORBIDDEN_PATH",
                      "PATH_STATE_CONTRADICTION", "DELETE_WITHOUT_PERMISSION"}
           Found(code) ==
             \/ code = "PATH_OUT_OF_REPO" /\ \E p \in h.changed \cup h.deleted : ~FilePath(p)
             \/ /\ code = "PATH_OUT_OF_SCOPE"
                /\ \E p \in h.changed \cup h.deleted : FilePath(p) /\ \A s \in t.allowed : ~MatchesScope(p, s)
             \/ /\ code = "FORBIDDEN_PATH"
                /\ \E p \in h.changed \cup h.deleted, s \in t.forbidden : MatchesScope(p, s)
             \/ /\ code = "PATH_STATE_CONTRADICTION"
                /\ \E p \in h.changed \cap h.deleted : FilePath(p)
             \/ /\ code = "DELETE_WITHOUT_PERMISSION"
                /\ ~t.deleteAllowed /\ \E p \in h.deleted : FilePath(p)
<1>1. PathFindings(t, h) = {code \in Codes_ : Found(code)}
  BY DEF PathFindings
<1>2. \A code \in Codes_ : ~Found(code)
  <2> HIDE DEF Codes_, Found
  <2> QED
    BY <1>1
<1>3. ~Found("PATH_OUT_OF_REPO") /\ ~Found("PATH_OUT_OF_SCOPE") /\ ~Found("FORBIDDEN_PATH")
      /\ ~Found("DELETE_WITHOUT_PERMISSION")
  <2> HIDE DEF Found
  <2> QED
    BY <1>2
<1>4. \A p \in h.changed \cup h.deleted : FilePath(p)
  BY <1>3
<1>5. \A p \in h.changed \cup h.deleted : \E s \in t.allowed : MatchesScope(p, s)
  BY <1>3, <1>4
<1>6. \A p \in h.changed \cup h.deleted : \A s \in t.forbidden : ~MatchesScope(p, s)
  BY <1>3
<1>7. h.deleted # {} => t.deleteAllowed
  BY <1>3, <1>4
<1> QED
  BY <1>4, <1>5, <1>6, <1>7

\* Expected files are accounted for, and what is said to be there is there.
LEMMA EvidenceAccounted ==
  ASSUME NEW t, NEW h, EvidenceFindings(t, h) = {}
  PROVE  \A e \in t.evidence : FilePath(e) =>
            (e.parts \in Existing /\ e \in h.produced) \/ e \in h.missing
<1> DEFINE Files_(s) == {p \in s : FilePath(p)}
           Codes_ == {"EVIDENCE_STATE_CONTRADICTION", "EXPECTED_EVIDENCE_UNACCOUNTED",
                      "UNEXPECTED_MISSING_EVIDENCE", "EVIDENCE_PATH_INVALID", "EVIDENCE_NOT_FOUND"}
           Found(code) ==
             \/ /\ code = "EVIDENCE_STATE_CONTRADICTION"
                /\ Files_(h.produced) \cap Files_(h.missing) # {}
             \/ /\ code = "EXPECTED_EVIDENCE_UNACCOUNTED"
                /\ Files_(t.evidence) \ (h.produced \cup h.missing) # {}
             \/ /\ code = "UNEXPECTED_MISSING_EVIDENCE"
                /\ Files_(h.missing) \ Files_(t.evidence) # {}
             \/ /\ code = "EVIDENCE_PATH_INVALID"
                /\ \E p \in h.produced \cup h.missing : ~FilePath(p)
             \/ /\ code = "EVIDENCE_NOT_FOUND"
                /\ \E p \in Files_(h.produced) : p.parts \notin Existing
<1>1. EvidenceFindings(t, h) = {code \in Codes_ : Found(code)}
  BY DEF EvidenceFindings
<1>2. \A code \in Codes_ : ~Found(code)
  <2> HIDE DEF Codes_, Found
  <2> QED
    BY <1>1
<1>3. ~Found("EXPECTED_EVIDENCE_UNACCOUNTED") /\ ~Found("EVIDENCE_NOT_FOUND")
  <2> HIDE DEF Found
  <2> QED
    BY <1>2
<1>4. \A e \in t.evidence : FilePath(e) => e \in h.produced \cup h.missing
  BY <1>3
<1>5. \A p \in h.produced : FilePath(p) => p.parts \in Existing
  BY <1>3
<1> QED
  BY <1>4, <1>5

\* A handoff that is ready for review has nothing missing and nothing failed.
LEMMA ReadyIsFinished ==
  ASSUME NEW t, NEW h, OutcomeFindings(t, h) = {}, h.outcome = "ready_for_review"
  PROVE  /\ h.missing = {}
         /\ \A r \in h.results : r.status = "passed"
         /\ \A c \in t.commands : \E r \in h.results : r.command = c
<1> DEFINE recorded == {r.command : r \in h.results}
           missing == t.commands \ recorded
           failed == {r \in h.results : r.status # "passed"}
           unready == h.blockers \/ h.missing # {} \/ failed # {} \/ missing # {}
<1>1. ~unready
  <2>1. unready => "CONTRADICTORY_OUTCOME" \in OutcomeFindings(t, h)
    BY DEF OutcomeFindings
  <2> QED
    BY <2>1
<1>2. h.missing = {} /\ failed = {} /\ missing = {}
  BY <1>1
<1> QED
  BY <1>2

\* What a validator that finds nothing has established, for one task and handoff.
LEMMA AcceptedHandoff ==
  ASSUME ForbiddenIsReadable, NEW t \in ReviewTasks, NEW h \in Handoffs, ValidateHandoff(t, h) = {},
         review.task = t, review.handoff = h
  PROVE  AcceptedIsEarned
<1> DEFINE Below(p, s) == IF s.dir THEN IsUnder(p.parts, s.parts) /\ Len(p.parts) > Len(s.parts)
                                   ELSE p.parts = s.parts
<1>1. /\ PathFindings(t, h) = {} /\ AddressedFindings(t, h) = {}
      /\ EvidenceFindings(t, h) = {} /\ OutcomeFindings(t, h) = {}
  BY NothingFound
<1>2. ASSUME NEW p \in Paths, NEW s \in Paths, FilePath(p), ScopePath(s)
      PROVE  MatchesScope(p, s) <=> Below(p, s)
  <2>1. p.parts \in Seq(STRING) /\ s.parts \in Seq(STRING)
    BY PathParts
  <2>2. CASE s.dir
    <3>1. IsUnder(p.parts, s.parts) => (p.parts # s.parts <=> Len(p.parts) > Len(s.parts))
      BY <2>1, ProperlyUnder
    <3> QED
      BY <1>2, <2>2, <3>1 DEF MatchesScope
  <2>3. CASE ~s.dir
    BY <1>2, <2>3 DEF MatchesScope
  <2> QED
    BY <2>2, <2>3
<1>3. ASSUME NEW p \in h.changed \cup h.deleted
      PROVE  (\E s \in t.allowed : Below(p, s)) /\ \A s \in t.forbidden : ~Below(p, s)
  <2>1. p \in Paths /\ FilePath(p)
    BY <1>1, PathsInScope, HandoffFields
  <2>2. PICK s \in t.allowed : MatchesScope(p, s)
    BY <1>1, PathsInScope
  <2>3. s \in Paths /\ ScopePath(s)
    BY <2>2, TaskFields DEF MatchesScope
  <2>4. Below(p, s)
    BY <1>2, <2>1, <2>2, <2>3
  <2>5. ASSUME NEW f \in t.forbidden PROVE ~Below(p, f)
    <3>1. f \in Paths /\ ScopePath(f) /\ ~MatchesScope(p, f)
      BY <1>1, PathsInScope, TaskFields DEF ForbiddenIsReadable
    <3> QED
      BY <1>2, <2>1, <3>1
  <2> HIDE DEF Below
  <2> QED
    BY <2>4, <2>5
<1>4. h.deleted # {} => t.deleteAllowed
  BY <1>1, PathsInScope
<1>5. \A e \in {x \in t.evidence : FilePath(x)} :
         (e.parts \in Existing /\ e \in h.produced) \/ e \in h.missing
  BY <1>1, EvidenceAccounted
<1>6. ASSUME h.outcome = "ready_for_review"
      PROVE  /\ h.claims = t.claims
             /\ \A e \in {x \in t.evidence : FilePath(x)} : e.parts \in Existing
             /\ \A c \in t.commands : [command |-> c, status |-> "passed"] \in h.results
             /\ \A r \in h.results : r.status = "passed"
  <2>1. /\ h.missing = {} /\ \A r \in h.results : r.status = "passed"
        /\ \A c \in t.commands : \E r \in h.results : r.command = c
    BY <1>1, <1>6, ReadyIsFinished
  <2>2. h.claims = t.claims
    <3>1. h.claims \subseteq t.claims /\ t.claims \subseteq h.claims
      BY <1>1 DEF AddressedFindings
    <3> QED
      BY <3>1
  <2>3. ASSUME NEW c \in t.commands PROVE [command |-> c, status |-> "passed"] \in h.results
    <3>1. PICK r \in h.results : r.command = c
      BY <2>1
    <3>2. r \in [command : STRING, status : STRING] /\ r.status = "passed"
      BY <2>1, HandoffFields
    <3>3. r = [command |-> c, status |-> "passed"]
      BY <3>1, <3>2
    <3> QED
      BY <3>1, <3>3
  <2> QED
    BY <1>5, <2>1, <2>2, <2>3
<1> QED
  BY <1>3, <1>4, <1>5, <1>6 DEF AcceptedIsEarned

LEMMA AgreeingTools ==
  ASSUME NEW t \in ReviewTasks, NEW h \in Handoffs, ValidateHandoff(t, h) = {}
  PROVE  RunPreflight(t, h) \subseteq
            {"GENERATED_DIRECT_EDIT", "STATUS_DONE_WITHOUT_PROOF",
             "WORKFLOW_CHANGE_WITHOUT_TASK_TYPE", "INFRA_CHANGE_WITHOUT_PROOF"}
<1>1. TaskSchemaFindings(t) = {} /\ PathFindings(t, h) = {}
  BY NothingFound
<1>2. MetadataFindings(t) = {}
  <2>1. t.allowed # {} /\ t.evidence # {} /\ t.commands # {}
    BY <1>1 DEF TaskSchemaFindings
  <2> QED
    BY <2>1 DEF MetadataFindings
<1>3. ChangedFindings(t, h.changed \cup h.deleted) \subseteq {"GENERATED_DIRECT_EDIT"}
  <2>1. ASSUME NEW p \in h.changed \cup h.deleted PROVE \E s \in t.allowed : UnderAllowed(p, s)
    <3>1. PICK s \in t.allowed : MatchesScope(p, s)
      BY <1>1, PathsInScope
    <3>2. p.parts \in Seq(STRING) /\ s.parts \in Seq(STRING)
      BY TaskFields, HandoffFields, PathParts
    <3>3. s.parts # <<>> /\ IsUnder(p.parts, s.parts)
      BY <3>1, <3>2, UnderItself DEF MatchesScope, ScopePath
    <3> QED
      BY <3>3 DEF UnderAllowed
  <2> QED
    BY <2>1 DEF ChangedFindings
<1>4. DeleteFindings(t, h.deleted) = {}
  BY <1>1, PathsInScope DEF DeleteFindings
<1>5. UnprovenFindings(h) \subseteq {"STATUS_DONE_WITHOUT_PROOF"}
  BY DEF UnprovenFindings
<1>6. TaskTypeFindings(t, h.changed \cup h.deleted)
         \subseteq {"WORKFLOW_CHANGE_WITHOUT_TASK_TYPE", "INFRA_CHANGE_WITHOUT_PROOF"}
  BY DEF TaskTypeFindings
<1> QED
  BY <1>2, <1>3, <1>4, <1>5, <1>6 DEF RunPreflight

\* A review is about a task and a handoff; its verdicts are those of the tools.
ReviewInv ==
    \E t \in ReviewTasks, h \in Handoffs :
        /\ review \in [task : {t}, handoff : {h}, preflight : {0, 1, 9}, guard : {0, 1, 9}, valid : {0, 1, 9}]
        /\ review.valid # 9 =>
              /\ review.valid = HandoffExit(t, h)
              /\ review.guard = GuardExit(t)

LEMMA InitReview == ReviewInit => ReviewInv
<1> SUFFICES ASSUME ReviewInit PROVE ReviewInv
  OBVIOUS
<1>1. PICK t \in ReviewTasks, h \in Handoffs : review = ReviewOf(t, h)
  BY DEF ReviewInit
<1> QED
  BY <1>1 DEF ReviewOf, ReviewInv

LEMMA NextReview == ReviewInv /\ [ReviewNext]_reviewVars => ReviewInv'
<1> SUFFICES ASSUME ReviewInv, [ReviewNext]_reviewVars PROVE ReviewInv'
  OBVIOUS
<1>1. CASE UNCHANGED reviewVars
  BY <1>1 DEF reviewVars, ReviewInv
<1>2. CASE Review
  <2>1. PICK t \in ReviewTasks, h \in Handoffs :
          review \in [task : {t}, handoff : {h}, preflight : {0, 1, 9}, guard : {0, 1, 9}, valid : {0, 1, 9}]
    BY DEF ReviewInv
  <2> DEFINE p == PreflightExit(t, h)
             g == GuardExit(t)
             v == HandoffExit(t, h)
  <2>2. p \in {0, 1} /\ g \in {0, 1} /\ v \in {0, 1}
    BY DEF PreflightExit, GuardExit, HandoffExit
  <2>3. review.task = t /\ review.handoff = h
    BY <2>1
  <2>4. review' = [review EXCEPT !.preflight = p, !.guard = g, !.valid = v]
    BY <1>2, <2>3 DEF Review
  <2> HIDE DEF p, g, v
  <2>5. /\ review' \in [task : {t}, handoff : {h}, preflight : {0, 1, 9}, guard : {0, 1, 9}, valid : {0, 1, 9}]
        /\ review'.valid = v /\ review'.guard = g
    BY <2>1, <2>2, <2>4
  <2> QED
    BY <2>5 DEF ReviewInv, p, g, v
<1> QED
  BY <1>1, <1>2 DEF ReviewNext

\* For every task and every handoff of the schemas' shape, what the validator
\* accepts is earned, and the guard and the preflight do not contradict it;
\* forbidden scopes must be readable, because the validator passes over one
\* that is not (_path_matches_scope, validate_handoff, run_preflight).
THEOREM ReviewVerdictIsSound == ASSUME ForbiddenIsReadable PROVE ReviewSpec => []ReviewIsSound
<1>1. ReviewInv => ReviewIsSound
  <2> SUFFICES ASSUME ReviewInv, review.valid = 0 PROVE AcceptedIsEarned /\ ToolsAgree
    BY DEF ReviewIsSound, AcceptedIsEarned, ToolsAgree
  <2>1. PICK t \in ReviewTasks, h \in Handoffs :
           /\ review.task = t /\ review.handoff = h
           /\ HandoffExit(t, h) = 0 /\ review.guard = GuardExit(t)
    BY DEF ReviewInv
  <2>2. ValidateHandoff(t, h) = {}
    BY <2>1 DEF HandoffExit
  <2>3. AcceptedIsEarned
    BY <2>1, <2>2, AcceptedHandoff
  <2>4. review.guard = 0
    BY <2>1, <2>2, NothingFound DEF GuardExit
  <2>5. ToolsAgree
    BY <2>1, <2>2, <2>4, AgreeingTools DEF ToolsAgree
  <2> QED
    BY <2>3, <2>5
<1> QED
  BY <1>1, InitReview, NextReview, PTL DEF ReviewSpec

==============================================================================
