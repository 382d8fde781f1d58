---------------------------- MODULE HandoffReview -----------------------------
(***************************************************************************)
(* What an agent hands back is looked at by three tools that were written   *)
(* apart: the preflight, the guard and the handoff validator.  A review     *)
(* runs all three on one task and one handoff; none of them writes.         *)
(***************************************************************************)
EXTENDS TaskContract

CONSTANTS ReviewTasks, Handoffs

(* What the schemas of tasks and handoffs let through, as sets of paths     *)
(* and results.                                                             *)
Paths == [parts : Seq(STRING), dir : BOOLEAN, odd : BOOLEAN]
ASSUME ReviewAssumption ==
    /\ ReviewTasks \subseteq
          [allowed : SUBSET Paths, forbidden : SUBSET Paths, type : STRING, claims : SUBSET STRING,
           evidence : SUBSET Paths, commands : SUBSET STRING, deleteAllowed : BOOLEAN,
           status : STRING, digest : Nat]
    /\ Handoffs \subseteq
          [digest : Nat, outcome : STRING, changed : SUBSET Paths, deleted : SUBSET Paths,
           claims : SUBSET STRING, produced : SUBSET Paths, missing : SUBSET Paths,
           results : SUBSET [command : STRING, status : STRING],
           blockers : BOOLEAN, gaps : BOOLEAN, ticked : SUBSET Seq(STRING)]

VARIABLE review       \* the task, the handoff and the tools' exit codes

reviewVars == <<review>>

ReviewOf(t, h) == [task |-> t, handoff |-> h, preflight |-> 9, guard |-> 9, valid |-> 9]

ReviewInit == \E t \in ReviewTasks, h \in Handoffs : review = ReviewOf(t, h)

(* main of check_agent_preflight in mode warn.                              *)
PreflightExit(task, h) == IF RunPreflight(task, h) = {} THEN 0 ELSE 1

(* main of check_non_ideal_task in mode warn.                               *)
GuardExit(task) == IF NonIdealGuard(task) = {} THEN 0 ELSE 1

(* main of validate_handoff.                                                *)
HandoffExit(task, h) == IF ValidateHandoff(task, h) = {} THEN 0 ELSE 1

Review ==
    /\ review.valid = 9
    /\ review' = [review EXCEPT !.preflight = PreflightExit(review.task, review.handoff),
                                !.guard = GuardExit(review.task),
                                !.valid = HandoffExit(review.task, review.handoff)]

ReviewNext == Review

ReviewSpec == ReviewInit /\ [][ReviewNext]_reviewVars

-----------------------------------------------------------------------------
(* An accepted handoff is earned.  One that is ready for review has every   *)
(* required command passed, once, every claim addressed, and every expected *)
(* file present; whatever its outcome, it changed only files below what the *)
(* task allows and none it forbids, and it never conceals: an expected file *)
(* is either there or declared missing.                                     *)
AcceptedIsEarned ==
    LET t == review.task
        h == review.handoff
        Below(p, s) == IF s.dir THEN IsUnder(p.parts, s.parts) /\ Len(p.parts) > Len(s.parts)
                                ELSE p.parts = s.parts
        expected == {e \in t.evidence : FilePath(e)}
    IN review.valid = 0 =>
         /\ \A p \in h.changed \cup h.deleted :
               /\ \E s \in t.allowed : Below(p, s)
               /\ \A s \in t.forbidden : ~Below(p, s)
         /\ h.deleted # {} => t.deleteAllowed
         /\ \A e \in expected : (e.parts \in Existing /\ e \in h.produced) \/ e \in h.missing
         /\ h.outcome = "ready_for_review" =>
               /\ h.claims = t.claims
               /\ \A e \in expected : e.parts \in Existing
               /\ \A c \in t.commands : [command |-> c, status |-> "passed"] \in h.results
               /\ \A r \in h.results : r.status = "passed"

(* The tools agree where they overlap: a handoff the validator accepts for  *)
(* a task belongs to a task the guard admits, and the preflight finds none  *)
(* of its paths out of scope, no deletion without permission and no missing *)
(* metadata, although each tool reads a scope in its own way.               *)
ToolsAgree ==
    review.valid = 0 =>
        /\ review.guard = 0
        /\ RunPreflight(review.task, review.handoff) \subseteq
              {"GENERATED_DIRECT_EDIT", "STATUS_DONE_WITHOUT_PROOF",
               "WORKFLOW_CHANGE_WITHOUT_TASK_TYPE", "INFRA_CHANGE_WITHOUT_PROOF"}

(* Both, of every review.                                                   *)
ReviewIsSound == AcceptedIsEarned /\ ToolsAgree
==============================================================================
