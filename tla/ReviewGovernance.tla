-------------------------- MODULE ReviewGovernance --------------------------
(***************************************************************************)
(* The review evidence gate of a pull request.  review_governance.py       *)
(* judges a materialised change and the comments and reviews that attest   *)
(* it; the job of .github/workflows/review-evidence.yml reads the pull     *)
(* request before, during and after, judges once, reads the evidence again *)
(* and judges a second time, and publishes a commit status.  Every event   *)
(* of the pull request queues a job and cancels the one that runs, whose   *)
(* "always" steps still publish.  A revision stands for a pair of base and *)
(* head; a comment, a review and the pull request's body may change at any *)
(* step of the job.                                                        *)
(***************************************************************************)
EXTENDS Naturals, Sequences, FiniteSets

CONSTANTS Revisions,        \* (base, head) pairs of the pull request
          FilesOf,          \* revision -> set of changed files
          LinesOf,          \* revision -> changed lines
          Attesters,        \* logins of review-evidence-authorities.json
          ProductDocs,      \* canonical product documents of the trusted manifest
          Bodies,           \* descriptions of the pull request
          Writings, Verdicts,   \* comments and native reviews that may be written
          Threads,          \* threads of comments a behaviour starts with
          MaxPrEvents       \* bound: changes of the pull request

\* All comments a behaviour may see.
Posts == Writings \cup UNION {{t[i] : i \in DOMAIN t} : t \in Threads}

\* A comment's association (member) is that of its author.
ASSUME GateAssumption ==
    /\ DOMAIN FilesOf = Revisions /\ LinesOf \in [Revisions -> Nat] /\ MaxPrEvents \in Nat
    /\ \A b \in Bodies : b.risk \in 0..4
    /\ \A t \in Threads : t \in Seq(Posts)
    /\ \A c \in Posts : /\ {"kind", "author", "member"} \subseteq DOMAIN c
                        /\ c.kind \in {"attested", "forwarded"} /\ c.member \in BOOLEAN
    /\ \A c, d \in Posts : c.author = d.author => c.member = d.member

VARIABLES pull,        \* the pull request: revision and body
          discussion,      \* its comments: id -> comment, with the time of the last write
          natives,     \* its native reviews, oldest first
          gate,        \* revision -> commit status of "Review evidence gate"
          evaluator,   \* the job that runs
          queued,      \* an event waits for its job
          blind,       \* the last job ended before it knew the revision
          prEvents     \* changes so far

gateVars == <<pull, discussion, natives, gate, evaluator, queued, blind, prEvents>>

NoComment == [kind |-> "none"]
NoSession == "no session"
NoJob == [at |-> "idle"]
Unresolved == 4               \* no risk marker, or several
HighRiskAxes == {"security", "privacy", "data-integrity", "concurrency", "migration", "operations"}
Required == <<0, 1, 2, 2>>    \* REQUIRED_REVIEWS of R0 to R3

(***************************************************************************)
(* The change                                                              *)
(***************************************************************************)

\* parse_risk_class, and R3 where it finds no single marker.
RiskOf(body) == IF body.risk = Unresolved THEN 3 ELSE body.risk

\* Rasters of the documented directories; every other file without a text
\* representation blocks the gate.
SafeOpaque(file) == file.class = "raster"
BlockingOpaque(files) == {f \in files : f.opaque /\ ~SafeOpaque(f)}

MinimumRisk(files) ==
    LET among(class) == \E f \in files : f.class = class
    IN IF among("sensitive") THEN 3
       ELSE IF among("code") THEN 2
       ELSE IF among("raster") \/ among("other") THEN 1 ELSE 0

R0ScopeValid(bundle) == bundle.lines <= 50 /\ \A f \in bundle.files : f.class = "markdown"

\* The attention contract looks at a renamed file's old name as well.
AttentionFiles(files) == {f.name : f \in files} \cup {f.oldName : f \in files}
ProductLogic(files) == \E f \in files : f.product
AttentionMarkers(body) == body.attention \in {"contract", "none with rationale"}
AttentionBound(body, files) ==
    ProductLogic(files) =>
        /\ AttentionMarkers(body)
        /\ body.attention = "contract" => AttentionFiles(files) \cap ProductDocs # {}

\* _materialized_metadata and _build_bundle: the count of the files must be
\* the diff's; the bundle is bound to the revision read before.
Materialised(job) ==
    [rev |-> job.rev, diff |-> job.diff, files |-> FilesOf[job.files], lines |-> LinesOf[job.rev]]
BundleValid(job) ==
    /\ FilesOf[job.diff] # {}
    /\ Cardinality(FilesOf[job.diff]) = Cardinality(FilesOf[job.files])

(***************************************************************************)
(* The evidence                                                            *)
(***************************************************************************)

\* _decode_evidence_payload and _evidence_blocks: one record per marker that
\* parses; a comment with several markers keeps their number.
Blocks(kind, comments) ==
    {i \in DOMAIN comments : comments[i].kind = kind /\ comments[i].parses}
EvidenceBlocks(comments) == Blocks("attested", comments)
ForwardedBlocks(comments) == Blocks("forwarded", comments)

Authorised(c) == c.member /\ c.author \in Attesters

SelfReviewFields(c) ==
    CASE c.mode = "external" -> c.session = NoSession /\ ~c.reason
      [] c.mode = "self-primary" -> c.session # NoSession /\ ~c.reason
      [] c.mode = "self-fallback" -> c.session # NoSession /\ c.reason

BoundToHead(c, bundle, risk) == c.rev = bundle.rev
Bound(c, bundle, risk) == c.rev = bundle.rev /\ c.diff = bundle.diff /\ c.risk = risk
WellFormed(c) == c.long /\ c.blocks = 1 /\ c.hash = c.text /\ SelfReviewFields(c)
ExactAttested(comments, bundle, risk) ==
    {i \in EvidenceBlocks(comments) : LET c == comments[i]
                                      IN Authorised(c) /\ Bound(c, bundle, risk) /\ WellFormed(c)}

\* A forwarded record names neither the risk nor the hash of its report.
ExactForwarded(comments, bundle) ==
    {i \in ForwardedBlocks(comments) : LET c == comments[i]
                                       IN /\ Authorised(c)
                                          /\ c.rev = bundle.rev /\ c.diff = bundle.diff
                                          /\ c.long /\ c.blocks = 1}

\* Of every reviewer and axis the record that was written last, by time and
\* then by id.
WrittenBefore(comments, i, j) ==
    \/ comments[i].updated < comments[j].updated
    \/ comments[i].updated = comments[j].updated /\ i < j
Latest(comments, exact) ==
    {i \in exact : \A j \in exact :
        comments[j].reviewer = comments[i].reviewer /\ comments[j].axis = comments[i].axis
            => ~WrittenBefore(comments, i, j)}

Blocking(comments, latest) == {i \in latest : comments[i].verdict # "PASS"}
Accepted(comments, latest) == {i \in latest : comments[i].verdict = "PASS" /\ comments[i].resolved}

\* _native_review_evidence: of every authorised login the last review that
\* approves, requests changes or is dismissed, if it is of this head.
NativeLatest(reviews) ==
    {i \in DOMAIN reviews : reviews[i].member /\ \A j \in DOMAIN reviews :
        reviews[j].member /\ reviews[j].login = reviews[i].login => j <= i}
NativeAccepted(reviews, bundle) ==
    {reviews[i].login : i \in {k \in NativeLatest(reviews) :
                                 reviews[k].state = "APPROVED" /\ reviews[k].rev = bundle.rev}}
NativeBlocking(reviews, bundle) ==
    {i \in NativeLatest(reviews) : reviews[i].state = "CHANGES_REQUESTED" /\ reviews[i].rev = bundle.rev}

\* Native approvals count for R1, and not besides a record of the same name.
QuickApprovals(comments, accepted, reviews, bundle, risk) ==
    IF risk = 1 THEN NativeAccepted(reviews, bundle) \ {comments[i].reviewer : i \in accepted} ELSE {}

Reviewers(comments, accepted) == {comments[i].reviewer : i \in accepted}
SelfPair(comments, accepted) ==
    LET sessions(mode) == {comments[i].session : i \in {k \in accepted :
                              comments[k].kind = "attested" /\ comments[k].mode = mode}}
    IN /\ Cardinality(Reviewers(comments, accepted)) = 1
       /\ sessions("self-primary") # {} /\ sessions("self-fallback") # {}
       /\ sessions("self-primary") \cap sessions("self-fallback") = {}

TwoReviews(comments, accepted) ==
    /\ Cardinality(Reviewers(comments, accepted)) >= 2 \/ SelfPair(comments, accepted)
    /\ Cardinality({comments[i].text : i \in accepted}) >= 2
    /\ Cardinality({comments[i].axis : i \in accepted}) >= 2
HighRiskReviewed(comments, accepted) == \E i \in accepted : comments[i].axis \in HighRiskAxes

\* evaluate_evidence, without the wording of its reasons.
ChangeAdmitted(bundle, body) ==
    /\ AttentionBound(body, bundle.files)
    /\ body.risk # Unresolved
    /\ BlockingOpaque(bundle.files) = {}
    /\ RiskOf(body) >= MinimumRisk(bundle.files)
    /\ RiskOf(body) = 0 => R0ScopeValid(bundle)
Evaluate(bundle, body, comments, reviews) ==
    LET risk == RiskOf(body)
        latest == Latest(comments, ExactAttested(comments, bundle, risk) \cup ExactForwarded(comments, bundle))
        accepted == Accepted(comments, latest)
        quick == QuickApprovals(comments, accepted, reviews, bundle, risk)
    IN /\ Attesters # {}
       /\ ChangeAdmitted(bundle, body)
       /\ Blocking(comments, latest) = {}
       /\ NativeBlocking(reviews, bundle) = {}
       /\ Cardinality(accepted) + Cardinality(quick) >= Required[risk + 1]
       /\ Required[risk + 1] >= 2 => TwoReviews(comments, accepted)
       /\ risk = 3 => HighRiskReviewed(comments, accepted)

(***************************************************************************)
(* The pull request                                                        *)
(***************************************************************************)

GateInit ==
    /\ pull \in [rev: Revisions, body: Bodies]
    /\ discussion \in Threads /\ natives = <<>>
    /\ gate = [v \in Revisions |-> "none"]
    /\ evaluator = NoJob /\ queued = TRUE /\ blind = FALSE /\ prEvents = 0

\* The workflow's triggers: a job is queued; the one that runs is cancelled,
\* and what it has published so far stays.  Comments of others than members
\* start no job.  (The pull request is not a fork's: reviews of those start
\* none either.)
Change == prEvents < MaxPrEvents /\ prEvents' = prEvents + 1 /\ UNCHANGED <<gate, blind>>
Trigger ==
    /\ Change /\ queued' = TRUE
    /\ evaluator' = IF evaluator.at = "idle" THEN evaluator ELSE [evaluator EXCEPT !.cancelled = TRUE]
TriggerBy(c) ==
    \/ c.member /\ Trigger
    \/ ~c.member /\ Change /\ UNCHANGED <<queued, evaluator>>

Push(v) == pull.rev # v /\ pull' = [pull EXCEPT !.rev = v] /\ Trigger /\ UNCHANGED <<discussion, natives>>
EditBody(b) == pull.body # b /\ pull' = [pull EXCEPT !.body = b] /\ Trigger /\ UNCHANGED <<discussion, natives>>

Stamped(c) == [f \in DOMAIN c \cup {"updated"} |-> IF f = "updated" THEN prEvents + 1 ELSE c[f]]
Comment(c) == discussion' = Append(discussion, Stamped(c)) /\ TriggerBy(c) /\ UNCHANGED <<pull, natives>>
EditComment(i, c) ==
    /\ discussion[i].kind # "none" /\ discussion[i].author = c.author
    /\ discussion' = [discussion EXCEPT ![i] = Stamped(c)] /\ TriggerBy(c) /\ UNCHANGED <<pull, natives>>
DeleteComment(i) ==
    /\ discussion[i].kind # "none"
    /\ discussion' = [discussion EXCEPT ![i] = NoComment] /\ TriggerBy(discussion[i]) /\ UNCHANGED <<pull, natives>>
SubmitReview(r) == natives' = Append(natives, r) /\ Trigger /\ UNCHANGED <<pull, discussion>>
Dismiss(i) ==
    /\ natives[i].state # "DISMISSED"
    /\ natives' = [natives EXCEPT ![i].state = "DISMISSED"] /\ Trigger /\ UNCHANGED <<pull, discussion>>

(***************************************************************************)
(* The job                                                                 *)
(***************************************************************************)

Unread == <<pull, discussion, natives, prEvents>>
Advance(job) == evaluator' = job /\ UNCHANGED <<Unread, queued, blind>>

StartJob ==
    /\ evaluator.at = "idle" /\ queued /\ queued' = FALSE
    /\ evaluator' = [at |-> "before", cancelled |-> FALSE]
    /\ UNCHANGED <<Unread, gate, blind>>

\* The revision is known and its status pending; a job that fails or is
\* cancelled before publishes nothing at all.
ReadBefore ==
    /\ evaluator.at = "before"
    /\ \/ /\ ~evaluator.cancelled
          /\ gate' = [gate EXCEPT ![pull.rev] = "pending"]
          /\ evaluator' = [at |-> "diff", cancelled |-> FALSE, rev |-> pull.rev, body |-> pull.body,
                           count |-> Cardinality(FilesOf[pull.rev]), pass |-> FALSE, made |-> FALSE]
          /\ blind' = FALSE
       \/ UNCHANGED gate /\ evaluator' = NoJob /\ blind' = TRUE
    /\ UNCHANGED <<Unread, queued>>

With(job, at, field, value) ==
    [f \in DOMAIN job \cup {field} |-> IF f = "at" THEN at ELSE IF f = field THEN value ELSE job[f]]

\* The evaluation fails, an error of the step included: refresh comes next.
StepFails ==
    /\ evaluator.at \in {"diff", "files", "after", "evidence"}
    /\ Advance([evaluator EXCEPT !.at = "refresh", !.pass = FALSE]) /\ UNCHANGED gate

Going(at) == evaluator.at = at /\ ~evaluator.cancelled /\ UNCHANGED gate
ReadDiff == Going("diff") /\ Advance(With(evaluator, "files", "diff", pull.rev))
ReadFiles == Going("files") /\ Advance(With(evaluator, "after", "files", pull.rev))
ReadAfter ==
    /\ Going("after")
    /\ pull.rev = evaluator.rev /\ BundleValid(evaluator)
    /\ evaluator.count = Cardinality(FilesOf[evaluator.files])
    /\ Advance([evaluator EXCEPT !.at = "evidence", !.made = TRUE])

\* The comments are read before the reviews; the second evaluation takes the
\* body as it is then, and the first one's change.
ReadComments ==
    /\ evaluator.at \in {"evidence", "refresh"} /\ UNCHANGED gate
    /\ evaluator.at = "evidence" => ~evaluator.cancelled
    /\ evaluator.at = "refresh" => evaluator.made /\ pull.rev = evaluator.rev
    /\ LET final == evaluator.at = "refresh"
       IN Advance(With([evaluator EXCEPT !.body = IF final THEN pull.body ELSE @],
                       IF final THEN "final" ELSE "first", "comments", discussion))
EvaluateAll ==
    /\ evaluator.at \in {"first", "final"} /\ UNCHANGED gate
    /\ evaluator.at = "first" => ~evaluator.cancelled
    /\ Advance([evaluator EXCEPT
            !.at = IF @ = "first" THEN "refresh" ELSE "publish",
            !.pass = Evaluate(Materialised(evaluator), evaluator.body, evaluator.comments, natives)])

\* A job cancelled within a step leaves evaluation.json as it is; the next
\* step runs nevertheless.
Cut ==
    /\ evaluator.at \in {"first", "refresh", "final"} /\ evaluator.cancelled
    /\ Advance([evaluator EXCEPT !.at = IF @ = "first" THEN "refresh" ELSE "publish"]) /\ UNCHANGED gate
RefreshFails ==
    /\ evaluator.at \in {"refresh", "final"}
    /\ Advance([evaluator EXCEPT !.at = "publish", !.pass = FALSE]) /\ UNCHANGED gate

\* A status that cannot be published in three attempts stays pending.
TornReads(job) == job.made /\ (job.diff # job.rev \/ job.files # job.rev)
PublishStatus ==
    /\ evaluator.at = "publish"
    /\ \/ gate' = [gate EXCEPT ![evaluator.rev] =
                     IF ~evaluator.pass THEN "failure" ELSE IF TornReads(evaluator) THEN "torn success" ELSE "success"]
       \/ UNCHANGED gate
    /\ Advance(NoJob)

JobNext ==
    \/ StartJob \/ ReadBefore \/ StepFails \/ ReadDiff \/ ReadFiles \/ ReadAfter
    \/ ReadComments \/ EvaluateAll \/ Cut \/ RefreshFails \/ PublishStatus

GateNext ==
    \/ JobNext
    \/ \E v \in Revisions : Push(v)
    \/ \E b \in Bodies : EditBody(b)
    \/ \E c \in Writings : Comment(c)
    \/ \E i \in DOMAIN discussion : DeleteComment(i) \/ \E c \in Writings : EditComment(i, c)
    \/ \E r \in Verdicts : SubmitReview(r)
    \/ \E i \in DOMAIN natives : Dismiss(i)

GateSpec == GateInit /\ [][GateNext]_gateVars

(***************************************************************************)
(* What the gate promises                                                  *)
(***************************************************************************)

\* docs/process/merge-quality-gate.md: a record counts that an attester wrote,
\* for this very base, head and diff, and that no later record of the same
\* reviewer and axis has replaced.
Counts(i) ==
    /\ discussion[i].kind # "none" /\ discussion[i].parses /\ discussion[i].long /\ discussion[i].blocks = 1
    /\ discussion[i].author \in Attesters /\ discussion[i].member
    /\ discussion[i].rev = pull.rev /\ discussion[i].diff = pull.rev
    /\ discussion[i].kind = "attested" => /\ discussion[i].hash = discussion[i].text /\ discussion[i].risk = pull.body.risk
                                      /\ SelfReviewFields(discussion[i])
Stands(i) ==
    /\ Counts(i)
    /\ ~\E j \in DOMAIN discussion : /\ Counts(j) /\ discussion[j].reviewer = discussion[i].reviewer
                                 /\ discussion[j].axis = discussion[i].axis /\ WrittenBefore(discussion, i, j)
StandingNative(i) ==
    /\ natives[i].member
    /\ ~\E j \in DOMAIN natives : j > i /\ natives[j].member /\ natives[j].login = natives[i].login
    /\ natives[i].rev = pull.rev
Earned ==
    LET files == FilesOf[pull.rev]
        passes == {i \in DOMAIN discussion : Stands(i) /\ discussion[i].verdict = "PASS" /\ discussion[i].resolved}
        approvals == {i \in DOMAIN natives : StandingNative(i) /\ natives[i].state = "APPROVED"}
        differ(f) == \E i, j \in passes : discussion[i][f] # discussion[j][f]
        modes == {discussion[i].mode : i \in {k \in passes : discussion[k].kind = "attested"}}
    IN /\ pull.body.risk \in 0..3 /\ pull.body.risk >= MinimumRisk(files)
       /\ \A f \in files : f.opaque => f.class = "raster"
       /\ \A i \in DOMAIN discussion : Stands(i) => discussion[i].verdict = "PASS"
       /\ \A i \in DOMAIN natives : StandingNative(i) => natives[i].state # "CHANGES_REQUESTED"
       /\ pull.body.risk = 1 => passes # {} \/ approvals # {}
       /\ pull.body.risk >= 2 =>
            /\ differ("text") /\ differ("axis")
            /\ differ("reviewer") \/ {"self-primary", "self-fallback"} \subseteq modes
       /\ pull.body.risk = 3 => \E i \in passes : discussion[i].axis \in HighRiskAxes

\* A commit status that allows the merge is true of the pull request as it
\* is: once no job runs or waits, a success on the current head has all the
\* evidence that the policy asks for, none of it replaced, withdrawn or bound
\* to another change, whatever came between the reads of the jobs and however
\* they were cancelled.  A job that ends before it knows the head leaves the
\* status of its predecessor (blind); a head that is pushed away and back
\* between two reads is judged by what was read (torn success).
GateIsCurrent ==
    evaluator.at = "idle" /\ ~queued /\ ~blind /\ gate[pull.rev] = "success" => Earned

=============================================================================
