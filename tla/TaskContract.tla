---------------------------- MODULE TaskContract -----------------------------
(***************************************************************************)
(* The contract between a task and what an agent hands back, as             *)
(* scripts/agent checks it: check_non_ideal_task.py decides whether a task  *)
(* may be worked on, validate_handoff.py whether a handoff answers it.  The *)
(* two have their own ideas of a path: a scope is a sequence of names, with *)
(* dir for a trailing slash and odd for a path that is absolute or has an   *)
(* empty, "." or ".." part in the middle.                                   *)
(***************************************************************************)
EXTENDS Sequences, Naturals, FiniteSets

CONSTANTS Registry,         \* claim id -> status in docs/claims/registry.yml
          Existing          \* paths of the regular files of the repository

Contradictory == {"rejected", "contradicted", "superseded", "obsolete"}

IsUnder(parts, prefix) ==
    Len(prefix) <= Len(parts) /\ SubSeq(parts, 1, Len(prefix)) = prefix

-----------------------------------------------------------------------------
(* validate_instance with task.schema.json: the lists that may not be empty *)
(* (uniqueItems is built in: they are sets here).                           *)
TaskSchemaFindings(task) ==
    IF {} \in {task.allowed, task.claims, task.evidence, task.commands}
      THEN {"TASK_SCHEMA_INVALID"} ELSE {}

(* _forbidden_blocks_allowed compares without trailing slashes.             *)
BlocksAllowed(allowed, forbidden) ==
    /\ allowed.parts # <<>> /\ forbidden.parts # <<>>
    /\ IsUnder(allowed.parts, forbidden.parts)

(* _is_generated_path; generated is docs/_generated.                        *)
Generated == <<"generated">>

GeneratedPath(scope) == IsUnder(scope.parts, Generated)

(* _validate_scope_rules.                                                   *)
ScopeFindings(task) ==
    IF task.allowed = {} THEN {"NO_ALLOWED_PATHS"} ELSE
    {code \in {"SCOPE_TOO_BROAD", "FORBIDDEN_PATH"} :
        \/ code = "SCOPE_TOO_BROAD" /\ \E a \in task.allowed : a.parts = <<>>
        \/ /\ code = "FORBIDDEN_PATH"
           /\ \/ \E a \in task.allowed, f \in task.forbidden : BlocksAllowed(a, f)
              \/ /\ \E a \in task.allowed : GeneratedPath(a)
                 /\ ~(task.type = "generated_refresh" /\ "generate" \in task.commands)}

(* _validate_task_requirements.                                             *)
RequirementFindings(task) ==
    (IF task.commands = {} THEN {"NO_VALIDATION_COMMAND"} ELSE {}) \cup
    (IF task.evidence = {} THEN {"NO_EXPECTED_EVIDENCE"} ELSE {})

(* _find_status_done: an agent task may not declare itself finished.        *)
StatusDoneFindings(task) ==
    IF task.status = "done" THEN {"STATUS_DONE_BY_AGENT"} ELSE {}

(* _validate_claims of the guard.                                           *)
ClaimFindings(task) ==
    {code \in {"CLAIM_WITHOUT_REGISTRY_ENTRY", "CONTRADICTION_FOUND"} :
        \E c \in task.claims :
           IF c \in DOMAIN Registry
             THEN code = "CONTRADICTION_FOUND" /\ Registry[c] \in Contradictory
             ELSE code = "CLAIM_WITHOUT_REGISTRY_ENTRY"}

(* run_non_ideal_guard.                                                     *)
NonIdealGuard(task) ==
    TaskSchemaFindings(task) \cup ScopeFindings(task) \cup RequirementFindings(task)
        \cup StatusDoneFindings(task) \cup ClaimFindings(task)

-----------------------------------------------------------------------------
(* _normalize_repo_path gives None for a path that is odd, empty or, unless *)
(* directories are allowed, a directory.                                    *)
FilePath(p) == ~p.odd /\ p.parts # <<>> /\ ~p.dir

ScopePath(p) == ~p.odd /\ p.parts # <<>>

(* _path_matches_scope: below a directory scope, or exactly a file scope.   *)
MatchesBelow(p, scope) == FilePath(p) /\ ScopePath(scope) /\ IsUnder(p.parts, scope.parts)
MatchesScope(p, scope) ==
    /\ FilePath(p) /\ ScopePath(scope)
    /\ IF scope.dir THEN IsUnder(p.parts, scope.parts) /\ p.parts # scope.parts
                    ELSE p.parts = scope.parts

(* _validate_paths.                                                         *)
PathFindings(task, h) ==
    LET declared == h.changed \cup h.deleted IN
    {code \in {"PATH_OUT_OF_REPO", "PATH_OUT_OF_SCOPE", "FORBIDDEN_PATH",
               "PATH_STATE_CONTRADICTION", "DELETE_WITHOUT_PERMISSION"} :
        \/ code = "PATH_OUT_OF_REPO" /\ \E p \in declared : ~FilePath(p)
        \/ /\ code = "PATH_OUT_OF_SCOPE"
           /\ \E p \in declared : FilePath(p) /\ \A s \in task.allowed : ~MatchesScope(p, s)
        \/ /\ code = "FORBIDDEN_PATH"
           /\ \E p \in declared, s \in task.forbidden : MatchesScope(p, s)
        \/ /\ code = "PATH_STATE_CONTRADICTION"
           /\ \E p \in h.changed \cap h.deleted : FilePath(p)
        \/ /\ code = "DELETE_WITHOUT_PERMISSION"
           /\ ~task.deleteAllowed /\ \E p \in h.deleted : FilePath(p)}

(* _validate_claims of the handoff: exactly the claims of the task.         *)
AddressedFindings(task, h) ==
    (IF h.claims \subseteq task.claims THEN {} ELSE {"CLAIM_NOT_DECLARED"}) \cup
    (IF task.claims \subseteq h.claims THEN {} ELSE {"CLAIM_NOT_ADDRESSED"})

(* _validate_evidence: paths that do not normalise drop out of the sets     *)
(* that are compared and are reported one by one.                           *)
EvidenceFindings(task, h) ==
    LET Files(s) == {p \in s : FilePath(p)} IN
    {code \in {"EVIDENCE_STATE_CONTRADICTION", "EXPECTED_EVIDENCE_UNACCOUNTED",
               "UNEXPECTED_MISSING_EVIDENCE", "EVIDENCE_PATH_INVALID", "EVIDENCE_NOT_FOUND"} :
        \/ /\ code = "EVIDENCE_STATE_CONTRADICTION"
           /\ Files(h.produced) \cap Files(h.missing) # {}
        \/ /\ code = "EXPECTED_EVIDENCE_UNACCOUNTED"
           /\ Files(task.evidence) \ (h.produced \cup h.missing) # {}
        \/ /\ code = "UNEXPECTED_MISSING_EVIDENCE"
           /\ Files(h.missing) \ Files(task.evidence) # {}
        \/ /\ code = "EVIDENCE_PATH_INVALID"
           /\ \E p \in h.produced \cup h.missing : ~FilePath(p)
        \/ /\ code = "EVIDENCE_NOT_FOUND"
           /\ \E p \in Files(h.produced) : p.parts \notin Existing}

(* _validate_results_and_outcome.  results is a set of [command, status]:   *)
(* when a command is recorded twice the last entry counts, either one here, *)
(* and the duplicate is a finding anyway.                                   *)
OutcomeFindings(task, h) ==
    LET recorded == {r.command : r \in h.results}
        duplicate == Cardinality(recorded) < Cardinality(h.results)
        missing == task.commands \ recorded
        failed == {r \in h.results : r.status # "passed"}
        unfinished == h.missing # {} \/ h.gaps \/ failed # {} \/ missing # {}
                         \/ task.claims \ h.claims # {}
    IN (IF duplicate THEN {"VALIDATION_RESULT_DUPLICATE"} ELSE {}) \cup
       (IF missing # {} THEN {"VALIDATION_RESULT_MISSING"} ELSE {}) \cup
       (IF \/ /\ h.outcome = "ready_for_review"
              /\ h.blockers \/ h.missing # {} \/ failed # {} \/ missing # {}
           \/ h.outcome = "blocked" /\ ~h.blockers
           \/ h.outcome = "incomplete" /\ ~unfinished
          THEN {"CONTRADICTORY_OUTCOME"} ELSE {})

(* _validate_binding: the handoff names this task and these bytes of it.    *)
BindingFindings(task, h) ==
    (IF h.digest = task.digest THEN {} ELSE {"TASK_DIGEST_MISMATCH"}) \cup
    PathFindings(task, h) \cup AddressedFindings(task, h) \cup
    EvidenceFindings(task, h) \cup OutcomeFindings(task, h)

(* validate_handoff: schemas and the guard again; the binding only when     *)
(* both have their shape.                                                   *)
ValidateHandoff(task, h) ==
    LET shape == TaskSchemaFindings(task) \cup
                 (IF h.claims = {} THEN {"HANDOFF_SCHEMA_INVALID"} ELSE {})
    IN  shape \cup NonIdealGuard(task) \cup
        (IF shape = {} THEN BindingFindings(task, h) ELSE {})

-----------------------------------------------------------------------------
(* check_agent_preflight.py looks at the changed paths themselves.  Its own *)
(* reading of a scope, _is_under_allowed_path, ignores slashes at the ends. *)
UnderAllowed(p, scope) == scope.parts # <<>> /\ IsUnder(p.parts, scope.parts)

(* check_task_metadata.                                                     *)
MetadataFindings(task) ==
    (IF task.allowed = {} THEN {"MISSING_ALLOWED_PATHS"} ELSE {}) \cup
    (IF task.commands = {} THEN {"MISSING_VALIDATION"} ELSE {}) \cup
    (IF task.evidence = {} THEN {"MISSING_EXPECTED_EVIDENCE"} ELSE {})

(* check_path_scope and check_generated_direct_edit.                        *)
ChangedFindings(task, paths) ==
    (IF task.allowed # {} /\ \E p \in paths : \A s \in task.allowed : ~UnderAllowed(p, s)
       THEN {"PATH_OUT_OF_SCOPE"} ELSE {}) \cup
    (IF \E p \in paths : IsUnder(p.parts, Generated) /\ p.parts # Generated
       THEN {"GENERATED_DIRECT_EDIT"} ELSE {})

(* check_roadmap_done_without_claim and check_status_done_without_proof: a  *)
(* changed document that ticks something off without naming its proof.      *)
UnprovenFindings(h) ==
    IF \E p \in h.changed : p.parts \in h.ticked THEN {"STATUS_DONE_WITHOUT_PROOF"} ELSE {}

(* check_workflow_change_task_type and check_infra_change_without_proof.    *)
TaskTypeFindings(task, paths) ==
    (IF task.type # "ci_change" /\ \E p \in paths : IsUnder(p.parts, <<"workflows">>)
       THEN {"WORKFLOW_CHANGE_WITHOUT_TASK_TYPE"} ELSE {}) \cup
    (IF /\ \E p \in paths : IsUnder(p.parts, <<"infra">>)
        /\ task.type \notin {"infra_change", "deploy_change"} \/ task.evidence = {}
       THEN {"INFRA_CHANGE_WITHOUT_PROOF"} ELSE {})

(* check_delete_without_permission.                                         *)
DeleteFindings(task, paths) ==
    IF paths # {} /\ ~task.deleteAllowed THEN {"DELETE_WITHOUT_PERMISSION"} ELSE {}

(* run_preflight.                                                           *)
RunPreflight(task, h) ==
    MetadataFindings(task) \cup ChangedFindings(task, h.changed \cup h.deleted)
        \cup UnprovenFindings(h) \cup TaskTypeFindings(task, h.changed \cup h.deleted)
        \cup DeleteFindings(task, h.deleted)

-----------------------------------------------------------------------------
(* _handoff of run_task.py, with _execution_plan and _evidence_accounting:  *)
(* nothing changed, everything expected is missing, nothing was run.        *)
DryRunHandoff(task) ==
    [digest |-> task.digest, outcome |-> "incomplete",
     changed |-> {}, deleted |-> {}, claims |-> task.claims,
     produced |-> {}, missing |-> task.evidence,
     results |-> {[command |-> c, status |-> "not_run"] : c \in task.commands},
     blockers |-> FALSE, gaps |-> TRUE, ticked |-> {}]
==============================================================================
