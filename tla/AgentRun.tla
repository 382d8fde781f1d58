------------------------------- MODULE AgentRun -------------------------------
(***************************************************************************)
(* scripts/agent/run_task.py: a dry run reads a task and the claim registry *)
(* from a working tree that others may edit meanwhile, plans the work, and  *)
(* publishes a bundle of evidence: four files in a directory that appears   *)
(* at its target in one rename.  Several runs may name the same target; a   *)
(* run may be killed and the machine may lose power at any step.            *)
(*                                                                          *)
(* The repository is a version per part; an edit makes a new version.       *)
(***************************************************************************)
EXTENDS TaskContract

CONSTANTS Runs, Targets, Tasks,
          NoRun,
          MaxEdits          \* bound on the edits of the working tree

ASSUME AgentAssumption == NoRun \notin Runs /\ MaxEdits \in Nat

Parts == {"head", "index", "task", "registry", "untracked"}
Files == 4      \* EVIDENCE_FILES: task.yml, handoff.json, validation.json, run-result.json

VARIABLES repo,       \* part -> version
          task,       \* what the task file says
          history,    \* run -> the states the repository has been in since it started
          run,        \* run -> its local variables
          bundle,     \* run -> how many files it has, and whether its listing is synced
          target,     \* target -> the run whose bundle is there
          onDisk      \* target -> the run whose bundle is there after a power loss

agentVars == <<repo, task, history, run, bundle, target, onDisk>>

None == [x \in Parts |-> 0]
NoBundle == [exists |-> FALSE, files |-> 0, listed |-> FALSE]

(* before: the fingerprint taken first; fp: the one being taken, with the   *)
(* step it returns to; got: the versions of task, registry and HEAD used.   *)
Fresh == [pc |-> "idle", target |-> NoRun, before |-> None, fp |-> None,
          ret |-> "none", got |-> None, code |-> "none"]

AgentInit ==
    /\ repo = [x \in Parts |-> 1]
    /\ task \in Tasks
    /\ history = [r \in Runs |-> {}]
    /\ run = [r \in Runs |-> Fresh]
    /\ bundle = [r \in Runs |-> NoBundle]
    /\ target = [t \in Targets |-> NoRun]
    /\ onDisk = [t \in Targets |-> NoRun]

diskVars == <<bundle, target, onDisk>>

Over == {"idle", "done", "blocked", "error", "killed"}

Set(r, next) == run' = [run EXCEPT ![r] = next]
At(r, step) == run[r].pc = step
Moves(r, from, to) == At(r, from) /\ Set(r, [run[r] EXCEPT !.pc = to])

(* A RunnerError: handled by the except block of _run_dry_run.              *)
Raise(r, code) == Set(r, [run[r] EXCEPT !.pc = "except", !.code = code])

-----------------------------------------------------------------------------
(* Others change the working tree: HEAD, the index, a file.                 *)
Edit ==
    /\ repo["head"] + repo["index"] + repo["task"] + repo["registry"] + repo["untracked"]
          < Cardinality(Parts) + MaxEdits
    /\ \E x \in Parts : repo' = [repo EXCEPT ![x] = @ + 1]
    /\ history' = [r \in Runs |-> IF run[r].pc \in Over THEN history[r] ELSE history[r] \cup {repo'}]
    /\ UNCHANGED <<task, run, diskVars>>

(* main, and the start of _run_dry_run; with no target the result goes to   *)
(* stdout only (--no-persist).                                              *)
StartRun(r, t) ==
    /\ At(r, "idle")
    /\ Set(r, [Fresh EXCEPT !.pc = "fp_head", !.target = t, !.ret = "captured"])
    /\ history' = [history EXCEPT ![r] = {repo}]
    /\ UNCHANGED <<repo, task, diskVars>>

(* repository_state_bytes reads HEAD, the index, the work tree and then the *)
(* untracked files, one git command after the other; HEAD must be the same  *)
(* at the end.                                                              *)
FingerprintHead(r) ==
    /\ At(r, "fp_head")
    /\ Set(r, [run[r] EXCEPT !.fp["head"] = repo["head"], !.pc = "fp_index"])
    /\ UNCHANGED <<repo, task, history, diskVars>>

FingerprintIndex(r) ==
    /\ At(r, "fp_index")
    /\ Set(r, [run[r] EXCEPT !.fp["index"] = repo["index"], !.pc = "fp_worktree"])
    /\ UNCHANGED <<repo, task, history, diskVars>>

FingerprintWorktree(r) ==
    /\ At(r, "fp_worktree")
    /\ Set(r, [run[r] EXCEPT !.fp["task"] = repo["task"], !.fp["registry"] = repo["registry"],
                             !.pc = "fp_untracked"])
    /\ UNCHANGED <<repo, task, history, diskVars>>

FingerprintUntracked(r) ==
    /\ At(r, "fp_untracked")
    /\ Set(r, [run[r] EXCEPT !.fp["untracked"] = repo["untracked"], !.pc = "fp_end"])
    /\ UNCHANGED <<repo, task, history, diskVars>>

(* Where it returns to: the first fingerprint is kept, every later one is   *)
(* compared with it (_assert_repository_unchanged).  A failure of the last  *)
(* comparison replaces the error that led to it.                            *)
FingerprintEnd(r) ==
    /\ At(r, "fp_end")
    /\ LET me == run[r]
           next == [me EXCEPT !.fp = None, !.ret = "none", !.pc = me.ret]
       IN  \/ /\ me.fp["head"] # repo["head"]
              /\ IF me.ret \in {"captured", "error"}
                   THEN Set(r, [next EXCEPT !.pc = "error", !.code = "GIT_STATE_UNAVAILABLE"])
                   ELSE Set(r, [next EXCEPT !.pc = "except", !.code = "GIT_STATE_UNAVAILABLE"])
           \/ /\ me.fp["head"] = repo["head"]
              /\ \/ me.ret = "captured" /\ Set(r, [next EXCEPT !.before = me.fp])
                 \/ me.ret # "captured" /\ me.fp = me.before /\ Set(r, next)
                 \/ /\ me.ret # "captured" /\ me.fp # me.before
                    /\ Set(r, [next EXCEPT !.pc = IF me.ret = "error" THEN "error" ELSE "except",
                                           !.code = "REPO_MUTATED_DURING_DRY_RUN"])
    /\ UNCHANGED <<repo, task, history, diskVars>>

AssertUnchanged(r, ret) == Set(r, [run[r] EXCEPT !.pc = "fp_head", !.ret = ret])

-----------------------------------------------------------------------------
(* A task with findings is blocked, once the repository is known to be      *)
(* unchanged; otherwise the run goes on.                                    *)
BlockedBy(findings, me, next) ==
    IF findings # {} THEN [me EXCEPT !.pc = "fp_head", !.ret = "blocked"]
                     ELSE [me EXCEPT !.pc = next]

(* resolve_task_path, _load_task_bytes and the schema.                      *)
LoadTask(r) ==
    /\ At(r, "captured")
    /\ Set(r, BlockedBy(TaskSchemaFindings(task),
                        [run[r] EXCEPT !.got["task"] = repo["task"]], "registry"))
    /\ UNCHANGED <<repo, task, history, diskVars>>

(* _load_claim_registry, then run_non_ideal_guard.                          *)
LoadRegistry(r) ==
    /\ At(r, "registry")
    /\ Set(r, BlockedBy(NonIdealGuard(task),
                        [run[r] EXCEPT !.got["registry"] = repo["registry"]], "revision"))
    /\ UNCHANGED <<repo, task, history, diskVars>>

(* resolve_git_head, then the plan, the accounting and the handoff, which   *)
(* validate_handoff checks.                                                 *)
ResolveRevision(r) ==
    /\ At(r, "revision")
    /\ LET me == [run[r] EXCEPT !.got["head"] = repo["head"]]
       IN  IF ValidateHandoff(task, DryRunHandoff(task)) # {}
             THEN Set(r, [me EXCEPT !.pc = "except", !.code = "HANDOFF_VALIDATION_FAILED"])
             ELSE Set(r, [me EXCEPT !.pc = "verify"])
    /\ UNCHANGED <<repo, task, history, diskVars>>

(* HEAD is still the revision, and the repository is unchanged: before the  *)
(* result is final, again as pre_publish_guard, and without --persist once  *)
(* more before it returns.                                                  *)
SameHeadOnly(r, from, ret) ==
    /\ At(r, from)
    /\ IF repo["head"] = run[r].got["head"]
         THEN Set(r, [run[r] EXCEPT !.pc = ret])
         ELSE Raise(r, "SOURCE_REVISION_CHANGED_DURING_DRY_RUN")
    /\ UNCHANGED <<repo, task, history, diskVars>>

SameRevision(r, from, ret) ==
    /\ At(r, from)
    /\ IF repo["head"] = run[r].got["head"]
         THEN AssertUnchanged(r, ret)
         ELSE Raise(r, "SOURCE_REVISION_CHANGED_DURING_DRY_RUN")
    /\ UNCHANGED <<repo, task, history, diskVars>>

VerifyUnchanged(r) ==
    SameRevision(r, "verify", IF run[r].target = NoRun THEN "return" ELSE "build")

ReturnUnchanged(r) == SameRevision(r, "return", "done")

PrePublishGuard(r) == SameRevision(r, "guard", "rename")

-----------------------------------------------------------------------------
(* publish_evidence_bundle: the four payloads are built from what the run    *)
(* holds, and checked against their schemas and against each other.         *)
BuildEvidence(r) ==
    /\ At(r, "build")
    /\ Set(r, [run[r] EXCEPT !.pc = "stage"]) \/ Raise(r, "RUN_EVIDENCE_INVALID")
    /\ UNCHANGED <<repo, task, history, diskVars>>

(* The target is acquired (a custom one must not exist yet) and a staging   *)
(* directory created beside it.                                             *)
StageBundle(r) ==
    /\ At(r, "stage")
    /\ \/ /\ target[run[r].target] = NoRun
          /\ bundle' = [bundle EXCEPT ![r] = [NoBundle EXCEPT !.exists = TRUE]]
          /\ Set(r, [run[r] EXCEPT !.pc = "write"])
       \/ Raise(r, "OUTPUT_WRITE_FAILED") /\ UNCHANGED bundle
    /\ UNCHANGED <<repo, task, history, target, onDisk>>

(* _write_file_sync_at: each file is new, written and synced, in order.     *)
WriteFile(r) ==
    /\ At(r, "write")
    /\ bundle[r].files < Files
    /\ \/ bundle' = [bundle EXCEPT ![r].files = @ + 1] /\ UNCHANGED run
       \/ Raise(r, "OUTPUT_WRITE_FAILED") /\ UNCHANGED bundle
    /\ UNCHANGED <<repo, task, history, target, onDisk>>

(* Exactly the four files, read back, and the directory itself synced.      *)
SyncStaging(r) ==
    /\ At(r, "write")
    /\ bundle[r].files = Files
    /\ \/ /\ bundle' = [bundle EXCEPT ![r].listed = TRUE]
          /\ Set(r, [run[r] EXCEPT !.pc = "guard"])
       \/ Raise(r, "OUTPUT_WRITE_FAILED") /\ UNCHANGED bundle
    /\ UNCHANGED <<repo, task, history, target, onDisk>>

(* _rename_noreplace_at: renameat2 with RENAME_NOREPLACE.                   *)
RenameBundle(r) ==
    /\ At(r, "rename")
    /\ \/ /\ target[run[r].target] = NoRun
          /\ target' = [target EXCEPT ![run[r].target] = r]
          /\ Set(r, [run[r] EXCEPT !.pc = "sync"])
       \/ Raise(r, "OUTPUT_DIR_EXISTS") /\ UNCHANGED target
    /\ UNCHANGED <<repo, task, history, bundle, onDisk>>

(* The parent directory is synced; when that fails the bundle is there but  *)
(* the run reports OUTPUT_DURABILITY_UNCONFIRMED.                           *)
SyncParent(r) ==
    /\ At(r, "sync")
    /\ \/ /\ onDisk' = [onDisk EXCEPT ![run[r].target] = target[run[r].target]]
          /\ Set(r, [run[r] EXCEPT !.pc = "identity"])
       \/ Raise(r, "OUTPUT_DURABILITY_UNCONFIRMED") /\ UNCHANGED onDisk
    /\ UNCHANGED <<repo, task, history, bundle, target>>

(* The parent and the target are still the directories that were opened and *)
(* the files read back once more; then the run succeeds.                    *)
ConfirmPublished(r) ==
    /\ At(r, "identity")
    /\ \/ target[run[r].target] = r /\ Set(r, [run[r] EXCEPT !.pc = "done"])
       \/ Raise(r, "OUTPUT_LOCATION_CHANGED")
    /\ UNCHANGED <<repo, task, history, diskVars>>

(* The finally block of publish_evidence_bundle: _cleanup_staging of what   *)
(* was not published may fail half way.                                     *)
NotPublished(r) == bundle[r].exists /\ \A t \in Targets : target[t] # r
CleanupStaging(r) ==
    \E left \in {NoBundle, bundle[r]} : bundle' = [bundle EXCEPT ![r] = left]

(* The except block of _run_dry_run: a changed repository is reported       *)
(* instead of the error.                                                    *)
HandleError(r) ==
    /\ At(r, "except")
    /\ IF run[r].code \in {"REPO_MUTATED_DURING_DRY_RUN", "SOURCE_REVISION_CHANGED_DURING_DRY_RUN"}
         THEN Set(r, [run[r] EXCEPT !.pc = "error"])
         ELSE AssertUnchanged(r, "error")
    /\ IF NotPublished(r) THEN CleanupStaging(r) ELSE UNCHANGED bundle
    /\ UNCHANGED <<repo, task, history, target, onDisk>>

(* The process is killed.  A power loss kills every process; a rename that  *)
(* was not synced may or may not have reached the disk, and a directory     *)
(* whose listing was not synced keeps any of its files.                     *)
Kill(r) ==
    /\ run[r].pc \notin Over
    /\ Set(r, [run[r] EXCEPT !.pc = "killed", !.fp = None, !.ret = "none"])
    /\ UNCHANGED <<repo, task, history, diskVars>>

PowerLoss ==
    /\ \E r \in Runs : run[r].pc \notin Over
    /\ run' = [r \in Runs |-> IF run[r].pc \in Over THEN run[r]
                              ELSE [run[r] EXCEPT !.pc = "killed", !.fp = None, !.ret = "none"]]
    /\ target' \in {f \in [Targets -> Runs \cup {NoRun}] :
                      \A t \in Targets : f[t] \in {target[t], onDisk[t]}}
    /\ onDisk' = target'
    /\ \E kept \in [Runs -> 0..Files] :
          /\ \A r \in Runs : IF bundle[r].listed THEN kept[r] = bundle[r].files
                                                  ELSE kept[r] <= bundle[r].files
          /\ bundle' = [r \in Runs |-> [bundle[r] EXCEPT !.files = kept[r]]]
    /\ UNCHANGED <<repo, task, history>>

AgentStep(r) ==
    \/ FingerprintHead(r) \/ FingerprintIndex(r) \/ FingerprintWorktree(r)
    \/ FingerprintUntracked(r) \/ FingerprintEnd(r)
    \/ LoadTask(r) \/ LoadRegistry(r) \/ ResolveRevision(r)
    \/ VerifyUnchanged(r) \/ ReturnUnchanged(r) \/ PrePublishGuard(r)
    \/ BuildEvidence(r) \/ StageBundle(r) \/ WriteFile(r) \/ SyncStaging(r) \/ RenameBundle(r)
    \/ SyncParent(r) \/ ConfirmPublished(r) \/ HandleError(r)

AgentNext ==
    \/ \E r \in Runs, t \in Targets \cup {NoRun} : StartRun(r, t)
    \/ \E r \in Runs : AgentStep(r) \/ Kill(r)
    \/ Edit
    \/ PowerLoss

AgentSpec == AgentInit /\ [][AgentNext]_agentVars

-----------------------------------------------------------------------------
(* The run names in its evidence a fingerprint that the whole repository    *)
(* really had at one moment of the run, although it was read in pieces, and *)
(* the task, the registry and the revision it used are those of that moment.*)
EvidenceIsOneState ==
    \A r \in Runs :
        (\E t \in Targets : target[t] = r) \/ (run[r].pc = "done") =>
            /\ run[r].before \in history[r]
            /\ \A x \in {"task", "registry", "head"} : run[r].got[x] = run[r].before[x]

(* Whatever stands at a target, also after a power loss, is complete; and a *)
(* run that reported success finds its bundle there for ever.               *)
PublishedIsComplete ==
    /\ \A t \in Targets : target[t] # NoRun => bundle[target[t]].files = Files
    /\ \A r \in Runs : run[r].pc = "done" /\ run[r].target # NoRun =>
          target[run[r].target] = r /\ onDisk[run[r].target] = r

(* Both, of every bundle of a dry run.                                      *)
BundleIsSound == EvidenceIsOneState /\ PublishedIsComplete
==============================================================================
