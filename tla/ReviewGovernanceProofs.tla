----------------------- MODULE ReviewGovernanceProofs -----------------------
(***************************************************************************)
(* The review gate, for every pull request, thread of comments and number  *)
(* of events.                                                              *)
(*                                                                         *)
(* The property speaks of a pull request at rest; what carries it there is *)
(* Fresh.  Every event that could touch the verdict queues a job, so as    *)
(* long as none is queued a running job has read the pull request as it    *)
(* still is: revision, diff and files, in its second evaluation the body,  *)
(* and of the comments at least all those of members (Alike).  The others  *)
(* may change without a job, and none of them counts.                      *)
(***************************************************************************)
EXTENDS ReviewGovernance, FiniteSetTheorems, TLAPS

Judging == {"diff", "files", "after", "evidence", "first", "refresh", "final", "publish"}
Read(e) == e.at \in {"after", "evidence", "first", "final"} \/ (e.at = "refresh" /\ e.made)

JobFields(e) ==
    /\ "at" \in DOMAIN e /\ e.at \in {"idle", "before"} \cup Judging
    /\ e.at # "idle" => "cancelled" \in DOMAIN e
    /\ e.at \in Judging => {"rev", "body", "pass", "made"} \subseteq DOMAIN e
    /\ e.at \in {"diff", "files"} => ~e.made
    /\ e.at = "files" \/ Read(e) => "diff" \in DOMAIN e
    /\ Read(e) => "files" \in DOMAIN e
    /\ e.at \in {"first", "final"} => "comments" \in DOMAIN e

\* Comments that can count: what members wrote.
ByMembers(comments) == {i \in DOMAIN comments : comments[i].kind # "none" /\ comments[i].member}
Alike(comments, others) ==
    /\ ByMembers(comments) = ByMembers(others)
    /\ \A i \in ByMembers(comments) : comments[i] = others[i]

Bundle(v) == [rev |-> v, diff |-> v, files |-> FilesOf[v], lines |-> LinesOf[v]]

\* The evaluation succeeds on the pull request as it is.
Supported ==
    \E comments : /\ Alike(comments, discussion)
                  /\ Evaluate(Bundle(pull.rev), pull.body, comments, natives)

IsSeq(s) == s \in Seq({s[i] : i \in DOMAIN s})
Members == {c.author : c \in {d \in Posts : d.member}}
GoodComment(c) ==
    \/ c.kind = "none"
    \/ /\ c.kind \in {"attested", "forwarded"} /\ c.member \in BOOLEAN
       /\ c.member <=> c.author \in Members

GateTypes ==
    /\ pull \in [rev: Revisions, body: Bodies]
    /\ IsSeq(discussion) /\ \A i \in DOMAIN discussion : GoodComment(discussion[i])
    /\ IsSeq(natives) /\ DOMAIN gate = Revisions
    /\ queued \in BOOLEAN /\ blind \in BOOLEAN /\ JobFields(evaluator)

Fresh(e) ==
    /\ ~e.cancelled
    /\ e.at \in Judging => e.rev = pull.rev /\ gate[pull.rev] # "success" /\ ~blind
    /\ e.at = "files" \/ Read(e) => e.diff = pull.rev
    /\ Read(e) => e.files = pull.rev
    /\ e.at = "final" => e.body = pull.body /\ Alike(e.comments, discussion)
    /\ e.at = "publish" /\ e.pass => Supported

AtRest ==
    evaluator.at = "idle" /\ ~queued /\ ~blind /\ gate[pull.rev] = "success" => Supported

GateInv ==
    /\ GateTypes
    /\ evaluator.at # "idle" /\ ~queued => Fresh(evaluator)
    /\ AtRest

(***************************************************************************)
(* What the evaluation accepts is what the policy asks for                 *)
(***************************************************************************)

LEMMA BundleFields ==
    ASSUME NEW v
    PROVE  Bundle(v).rev = v /\ Bundle(v).diff = v /\ Bundle(v).files = FilesOf[v]
  BY DEF Bundle

LEMMA TwoDiffer ==
    ASSUME NEW S, Cardinality(S) >= 2
    PROVE  \E x, y \in S : x # y
<1>1. S # {}
  BY FS_EmptySet
<1>2. PICK x \in S : TRUE
  BY <1>1
<1>3. S # {x}
  BY FS_Singleton
<1> QED
  BY <1>2, <1>3

\* The exact records of an evaluation are the comments that count.
LEMMA ExactCounts ==
    ASSUME NEW cs, Alike(cs, discussion), pull.body.risk # Unresolved,
           \A i \in DOMAIN discussion : GoodComment(discussion[i]), NEW i
    PROVE  LET b == Bundle(pull.rev)
               exact == ExactAttested(cs, b, RiskOf(pull.body)) \cup ExactForwarded(cs, b)
           IN /\ i \in exact <=> i \in DOMAIN discussion /\ Counts(i)
              /\ i \in exact => cs[i] = discussion[i]
<1> DEFINE b == Bundle(pull.rev)
           exact == ExactAttested(cs, b, RiskOf(pull.body)) \cup ExactForwarded(cs, b)
<1>1. b.rev = pull.rev /\ b.diff = pull.rev /\ RiskOf(pull.body) = pull.body.risk
  BY BundleFields DEF RiskOf
<1> HIDE DEF b
<1>2. i \in ByMembers(cs) <=> i \in ByMembers(discussion)
  BY DEF Alike
<1>3. i \in ByMembers(cs) => cs[i] = discussion[i] /\ i \in DOMAIN cs /\ i \in DOMAIN discussion
  BY <1>2 DEF Alike, ByMembers
<1>4. i \in exact => i \in ByMembers(cs)
  BY DEF ExactAttested, ExactForwarded, EvidenceBlocks, ForwardedBlocks, Blocks, ByMembers, Authorised
<1>5. i \in DOMAIN discussion /\ Counts(i) => i \in ByMembers(cs)
  BY <1>2 DEF Counts, ByMembers
<1>6. ASSUME i \in ByMembers(cs) PROVE i \in exact <=> Counts(i)
  <2>1. PICK c : c = cs[i] /\ c = discussion[i]
    BY <1>3, <1>6
  <2>2. c.kind # "none" /\ c.member /\ GoodComment(c)
    BY <1>6, <2>1, <1>3 DEF ByMembers
  <2>3. c.kind \in {"attested", "forwarded"}
    BY <2>2 DEF GoodComment
  <2>4. i \in DOMAIN cs
    BY <1>3, <1>6
  <2>5. i \in ExactAttested(cs, b, RiskOf(pull.body)) <=>
          c.kind = "attested" /\ c.parses /\ Authorised(c) /\ Bound(c, b, RiskOf(pull.body)) /\ WellFormed(c)
    BY <2>1, <2>4 DEF ExactAttested, EvidenceBlocks, Blocks
  <2>6. i \in ExactForwarded(cs, b) <=>
          /\ c.kind = "forwarded" /\ c.parses /\ Authorised(c)
          /\ c.rev = b.rev /\ c.diff = b.diff /\ c.long /\ c.blocks = 1
    BY <2>1, <2>4 DEF ExactForwarded, ForwardedBlocks, Blocks
  <2>7. Counts(i) <=>
          /\ c.kind # "none" /\ c.parses /\ c.long /\ c.blocks = 1 /\ c.author \in Attesters /\ c.member
          /\ c.rev = pull.rev /\ c.diff = pull.rev
          /\ c.kind = "attested" => c.hash = c.text /\ c.risk = pull.body.risk /\ SelfReviewFields(c)
    BY <2>1 DEF Counts
  <2> QED
    BY <2>2, <2>3, <2>5, <2>6, <2>7, <1>1 DEF Authorised, Bound, WellFormed
<1>7. i \in exact <=> i \in DOMAIN discussion /\ Counts(i)
  BY <1>3, <1>4, <1>5, <1>6
<1>8. i \in exact => cs[i] = discussion[i]
  BY <1>3, <1>4
<1> QED
  BY <1>7, <1>8 DEF b

LEMMA SupportedIsEarned ==
    ASSUME GateTypes, Supported
    PROVE  Earned
<1>0. PICK cs : Alike(cs, discussion) /\ Evaluate(Bundle(pull.rev), pull.body, cs, natives)
  BY DEF Supported
<1> DEFINE b == Bundle(pull.rev)
           risk == RiskOf(pull.body)
           exact == ExactAttested(cs, b, risk) \cup ExactForwarded(cs, b)
           latest == Latest(cs, exact)
           accepted == Accepted(cs, latest)
           quick == QuickApprovals(cs, accepted, natives, b, risk)
           passes == {i \in DOMAIN discussion : Stands(i) /\ discussion[i].verdict = "PASS" /\ discussion[i].resolved}
           approvals == {i \in DOMAIN natives : StandingNative(i) /\ natives[i].state = "APPROVED"}
<1>1. /\ ChangeAdmitted(b, pull.body) /\ Blocking(cs, latest) = {} /\ NativeBlocking(natives, b) = {}
      /\ Cardinality(accepted) + Cardinality(quick) >= Required[risk + 1]
      /\ Required[risk + 1] >= 2 => TwoReviews(cs, accepted)
      /\ risk = 3 => HighRiskReviewed(cs, accepted)
  BY <1>0 DEF Evaluate
<1>2. pull.body.risk # Unresolved /\ risk = pull.body.risk /\ risk \in 0..3
  BY <1>1, GateAssumption DEF ChangeAdmitted, RiskOf, Unresolved, GateTypes
<1>3. b.rev = pull.rev /\ b.files = FilesOf[pull.rev]
  BY BundleFields
<1>4. \A i : /\ i \in exact <=> i \in DOMAIN discussion /\ Counts(i)
             /\ i \in exact => cs[i] = discussion[i]
  BY <1>0, <1>2, ExactCounts DEF GateTypes
<1> HIDE DEF b, risk, exact
<1>5. \A i : i \in latest <=> i \in DOMAIN discussion /\ Stands(i)
  <2>1. ASSUME NEW i \in exact, NEW j \in exact
        PROVE  WrittenBefore(cs, i, j) <=> WrittenBefore(discussion, i, j)
    BY <1>4 DEF WrittenBefore
  <2>2. ASSUME NEW i \in exact
        PROVE  i \in latest <=> Stands(i)
    <3>1. i \in latest <=> \A j \in exact :
             discussion[j].reviewer = discussion[i].reviewer /\ discussion[j].axis = discussion[i].axis
                => ~WrittenBefore(discussion, i, j)
      BY <1>4, <2>1 DEF Latest
    <3>2. Counts(i)
      BY <1>4
    <3> QED
      BY <3>1, <3>2, <1>4 DEF Stands
  <2>3. ASSUME NEW i, i \in DOMAIN discussion, Stands(i)
        PROVE  i \in exact
    BY <2>3, <1>4 DEF Stands
  <2>4. latest \subseteq exact
    BY DEF Latest
  <2> QED
    BY <2>2, <2>3, <2>4, <1>4
<1>6. latest \subseteq exact
  BY DEF Latest
<1> HIDE DEF latest
<1>7. accepted = passes
  BY <1>4, <1>5, <1>6 DEF Accepted
<1>8. \A i \in passes : cs[i] = discussion[i]
  BY <1>4, <1>5, <1>6
<1>9. \A i \in DOMAIN discussion : Stands(i) => discussion[i].verdict = "PASS"
  BY <1>1, <1>4, <1>5, <1>6 DEF Blocking
<1>10. DOMAIN natives \subseteq Nat
  BY DEF GateTypes, IsSeq
<1>11. \A i \in DOMAIN natives : StandingNative(i) <=> i \in NativeLatest(natives) /\ natives[i].rev = pull.rev
  BY <1>10 DEF StandingNative, NativeLatest
<1>12. \A i \in DOMAIN natives : StandingNative(i) => natives[i].state # "CHANGES_REQUESTED"
  BY <1>1, <1>3, <1>11 DEF NativeBlocking
<1>13. quick # {} => approvals # {}
  BY <1>3, <1>11 DEF QuickApprovals, NativeAccepted, NativeLatest
<1> HIDE DEF accepted, quick, approvals, passes
<1>14. risk = 1 => passes # {} \/ approvals # {}
  <2> SUFFICES ASSUME risk = 1, passes = {}, approvals = {} PROVE FALSE
    OBVIOUS
  <2>1. accepted = {} /\ quick = {}
    BY <1>7, <1>13
  <2>2. Cardinality(accepted) = 0 /\ Cardinality(quick) = 0 /\ Required[risk + 1] = 1
    BY <2>1, FS_EmptySet DEF Required
  <2> QED
    BY <2>2, <1>1
<1>15. risk >= 2 => TwoReviews(cs, accepted)
  BY <1>1, <1>2 DEF Required
<1>17. ASSUME risk >= 2
       PROVE  /\ \E i, j \in passes : discussion[i].text # discussion[j].text
              /\ \E i, j \in passes : discussion[i].axis # discussion[j].axis
  <2> DEFINE texts == {cs[i].text : i \in accepted}
             axes == {cs[i].axis : i \in accepted}
  <2>1. Cardinality(texts) >= 2 /\ Cardinality(axes) >= 2
    BY <1>15, <1>17 DEF TwoReviews
  <2> HIDE DEF texts, axes
  <2>2. (\E x, y \in texts : x # y) /\ (\E x, y \in axes : x # y)
    BY <2>1, TwoDiffer
  <2> QED
    BY <2>2, <1>7, <1>8 DEF texts, axes
<1>18. ASSUME risk >= 2
       PROVE  \/ \E i, j \in passes : discussion[i].reviewer # discussion[j].reviewer
              \/ /\ \E i \in passes : discussion[i].kind = "attested" /\ discussion[i].mode = "self-primary"
                 /\ \E i \in passes : discussion[i].kind = "attested" /\ discussion[i].mode = "self-fallback"
  <2>1. CASE Cardinality(Reviewers(cs, accepted)) >= 2
    <3>1. \E x, y \in Reviewers(cs, accepted) : x # y
      BY <2>1, TwoDiffer
    <3> QED
      BY <3>1, <1>7, <1>8 DEF Reviewers
  <2>2. CASE SelfPair(cs, accepted)
    BY <2>2, <1>7, <1>8 DEF SelfPair
  <2> QED
    BY <1>15, <1>18, <2>1, <2>2 DEF TwoReviews
<1>19. risk = 3 => \E i \in passes : discussion[i].axis \in HighRiskAxes
  BY <1>1, <1>7, <1>8 DEF HighRiskReviewed
<1>20. risk >= MinimumRisk(FilesOf[pull.rev]) /\ \A f \in FilesOf[pull.rev] : f.opaque => f.class = "raster"
  BY <1>1, <1>3 DEF ChangeAdmitted, BlockingOpaque, SafeOpaque, risk
<1>21. risk >= 2 =>
         /\ \E i, j \in passes : discussion[i]["text"] # discussion[j]["text"]
         /\ \E i, j \in passes : discussion[i]["axis"] # discussion[j]["axis"]
         /\ \/ \E i, j \in passes : discussion[i]["reviewer"] # discussion[j]["reviewer"]
            \/ {"self-primary", "self-fallback"}
                 \subseteq {discussion[i].mode : i \in {k \in passes : discussion[k].kind = "attested"}}
  BY <1>17, <1>18
<1> QED
  BY <1>2, <1>9, <1>12, <1>14, <1>19, <1>20, <1>21 DEF Earned, passes, approvals

(***************************************************************************)
(* The pull request changes                                                *)
(***************************************************************************)

LEMMA AlikeTransitive ==
    ASSUME NEW a, NEW b, NEW c, Alike(a, b), Alike(b, c)
    PROVE  Alike(a, c)
  BY DEF Alike

LEMMA SeqIsSeq ==
    ASSUME NEW T, NEW t \in Seq(T)
    PROVE  IsSeq(t)
<1> DEFINE S == {t[i] : i \in DOMAIN t}
<1>1. Len(t) \in Nat /\ DOMAIN t = 1..Len(t)
  OBVIOUS
<1>2. \A i \in 1..Len(t) : t[i] \in S
  BY <1>1
<1> HIDE DEF S
<1>3. t \in Seq(S)
  BY <1>1, <1>2
<1> QED
  BY <1>3 DEF IsSeq, S

LEMMA AppendIsSeq ==
    ASSUME NEW s, IsSeq(s), NEW x
    PROVE  /\ IsSeq(Append(s, x)) /\ Len(s) + 1 \notin DOMAIN s
           /\ DOMAIN Append(s, x) = DOMAIN s \cup {Len(s) + 1}
           /\ Append(s, x)[Len(s) + 1] = x
           /\ \A i \in DOMAIN s : Append(s, x)[i] = s[i]
<1> DEFINE S == {s[i] : i \in DOMAIN s}
<1>1. s \in Seq(S)
  BY DEF IsSeq
<1> HIDE DEF S
<1>2. s \in Seq(S \cup {x})
  BY <1>1
<1>3. Append(s, x) \in Seq(S \cup {x}) /\ DOMAIN Append(s, x) = 1..(Len(s) + 1)
  BY <1>2
<1>4. DOMAIN s = 1..Len(s) /\ Len(s) \in Nat
  BY <1>1
<1>5. /\ Append(s, x)[Len(s) + 1] = x
      /\ \A i \in DOMAIN s : Append(s, x)[i] = s[i]
  BY <1>2
<1>6. IsSeq(Append(s, x))
  BY <1>3, SeqIsSeq
<1> QED
  BY <1>3, <1>4, <1>5, <1>6

LEMMA ExceptIsSeq ==
    ASSUME NEW s, IsSeq(s), NEW i \in DOMAIN s, NEW x
    PROVE  /\ IsSeq([s EXCEPT ![i] = x])
           /\ DOMAIN [s EXCEPT ![i] = x] = DOMAIN s
           /\ [s EXCEPT ![i] = x][i] = x
           /\ \A j \in DOMAIN s \ {i} : [s EXCEPT ![i] = x][j] = s[j]
<1> DEFINE S == {s[j] : j \in DOMAIN s}
<1>1. s \in Seq(S)
  BY DEF IsSeq
<1> HIDE DEF S
<1>2. s \in Seq(S \cup {x})
  BY <1>1
<1>3. [s EXCEPT ![i] = x] \in Seq(S \cup {x})
  BY <1>2
<1>4. IsSeq([s EXCEPT ![i] = x])
  BY <1>3, SeqIsSeq
<1> QED
  BY <1>4

LEMMA StampedIsGood ==
    ASSUME NEW c \in Posts
    PROVE  GoodComment(Stamped(c)) /\ Stamped(c).member = c.member /\ Stamped(c).kind # "none"
<1>1. {"kind", "author", "member"} \subseteq DOMAIN c /\ c.kind \in {"attested", "forwarded"}
      /\ c.member \in BOOLEAN /\ \A d \in Posts : c.author = d.author => c.member = d.member
  BY GateAssumption
<1>2. Stamped(c).kind = c.kind /\ Stamped(c).author = c.author /\ Stamped(c).member = c.member
  BY <1>1 DEF Stamped
<1>3. c.member <=> c.author \in Members
  BY <1>1 DEF Members
<1> QED
  BY <1>1, <1>2, <1>3 DEF GoodComment

LEMMA TriggerFields ==
    ASSUME JobFields(evaluator), Trigger
    PROVE  JobFields(evaluator') /\ queued' = TRUE /\ UNCHANGED <<gate, blind>>
<1>1. CASE evaluator.at = "idle"
  BY <1>1 DEF Trigger, Change
<1>2. CASE evaluator.at # "idle"
  <2>1. evaluator' = [evaluator EXCEPT !.cancelled = TRUE]
    BY <1>2 DEF Trigger
  <2>2. DOMAIN evaluator' = DOMAIN evaluator
    BY <2>1
  <2>3. \A f \in DOMAIN evaluator \ {"cancelled"} : evaluator'[f] = evaluator[f]
    BY <2>1
  <2>4. evaluator'.at = evaluator.at
    BY <2>3 DEF JobFields
  <2>5. evaluator.at \in Judging => evaluator'.made = evaluator.made
    BY <2>3 DEF JobFields
  <2> QED
    BY <2>2, <2>4, <2>5 DEF JobFields, Read, Trigger, Change, Judging
<1> QED
  BY <1>1, <1>2

\* An event that queues a job leaves nothing to be shown.
LEMMA LoudChange ==
    ASSUME GateInv, Trigger, pull' \in [rev: Revisions, body: Bodies],
           IsSeq(discussion)', \A i \in DOMAIN discussion' : GoodComment(discussion'[i]),
           IsSeq(natives)'
    PROVE  GateInv'
<1>1. JobFields(evaluator)' /\ queued' = TRUE /\ UNCHANGED <<gate, blind>>
  BY TriggerFields DEF GateInv, GateTypes, JobFields, Read
<1>2. GateTypes'
  BY <1>1 DEF GateInv, GateTypes, GoodComment
<1> QED
  BY <1>1, <1>2 DEF GateInv, AtRest

LEMMA SupportedStays ==
    ASSUME Supported, UNCHANGED <<pull, natives>>, Alike(discussion, discussion')
    PROVE  Supported'
<1>1. PICK cs : Alike(cs, discussion) /\ Evaluate(Bundle(pull.rev), pull.body, cs, natives)
  BY DEF Supported
<1>2. Alike(cs, discussion')
  BY <1>1, AlikeTransitive
<1> QED
  BY <1>1, <1>2 DEF Supported

\* A change by somebody who is no member of the repository queues none, and none of
\* the comments that count changes.
LEMMA SilentChange ==
    ASSUME GateInv, Change, UNCHANGED <<pull, natives, queued, evaluator>>,
           Alike(discussion, discussion'),
           IsSeq(discussion)', \A i \in DOMAIN discussion' : GoodComment(discussion'[i])
    PROVE  GateInv'
<1>1. UNCHANGED <<gate, blind>>
  BY DEF Change
<1>2. GateTypes'
  BY <1>1 DEF GateInv, GateTypes, GoodComment, IsSeq, JobFields, Read
<1>3. Supported => Supported'
  BY SupportedStays
<1>4. evaluator.at = "final" /\ Alike(evaluator.comments, discussion)
        => Alike(evaluator.comments, discussion')
  BY AlikeTransitive
<1>5. evaluator'.at # "idle" /\ ~queued' => Fresh(evaluator)'
  BY <1>1, <1>3, <1>4 DEF GateInv, Fresh, Read, Alike
<1>6. AtRest'
  BY <1>1, <1>3 DEF GateInv, AtRest
<1> QED
  BY <1>2, <1>5, <1>6 DEF GateInv

LEMMA ExceptIsAlike ==
    ASSUME IsSeq(discussion), NEW i \in DOMAIN discussion, NEW x,
           ~(discussion[i].kind # "none" /\ discussion[i].member), ~(x.kind # "none" /\ x.member),
           discussion' = [discussion EXCEPT ![i] = x]
    PROVE  Alike(discussion, discussion')
<1>1. DOMAIN discussion' = DOMAIN discussion /\ discussion'[i] = x
      /\ \A j \in DOMAIN discussion \ {i} : discussion'[j] = discussion[j]
  BY ExceptIsSeq
<1>2. ASSUME NEW j PROVE j \in ByMembers(discussion) <=> j \in ByMembers(discussion')
  BY <1>1 DEF ByMembers
<1>3. \A j \in ByMembers(discussion) : discussion[j] = discussion'[j]
  BY <1>1 DEF ByMembers
<1> QED
  BY <1>2, <1>3 DEF Alike

LEMMA CommentKeeps ==
    ASSUME GateInv, NEW c \in Writings, Comment(c)
    PROVE  GateInv'
<1>0. c \in Posts /\ IsSeq(discussion) /\ UNCHANGED <<pull, natives>>
      /\ discussion' = Append(discussion, Stamped(c))
  BY DEF Posts, GateInv, GateTypes, Comment
<1>1. GoodComment(Stamped(c)) /\ Stamped(c).member = c.member
  BY <1>0, StampedIsGood
<1>2. /\ IsSeq(discussion') /\ DOMAIN discussion' = DOMAIN discussion \cup {Len(discussion) + 1}
      /\ discussion'[Len(discussion) + 1] = Stamped(c) /\ Len(discussion) + 1 \notin DOMAIN discussion
      /\ \A i \in DOMAIN discussion : discussion'[i] = discussion[i]
  BY <1>0, AppendIsSeq
<1>3. \A i \in DOMAIN discussion' : GoodComment(discussion'[i])
  BY <1>1, <1>2 DEF GateInv, GateTypes
<1>4. CASE c.member /\ Trigger
  BY <1>0, <1>2, <1>3, <1>4, LoudChange DEF GateInv, GateTypes, IsSeq
<1>5. CASE ~c.member /\ Change /\ UNCHANGED <<queued, evaluator>>
  <2>1. ASSUME NEW j PROVE j \in ByMembers(discussion) <=> j \in ByMembers(discussion')
    BY <1>1, <1>2, <1>5 DEF ByMembers
  <2>2. \A j \in ByMembers(discussion) : discussion[j] = discussion'[j]
    BY <1>2 DEF ByMembers
  <2>3. Alike(discussion, discussion')
    BY <2>1, <2>2 DEF Alike
  <2> QED
    BY <1>0, <1>2, <1>3, <1>5, <2>3, SilentChange DEF IsSeq
<1> QED
  BY <1>4, <1>5 DEF Comment, TriggerBy

LEMMA RewriteKeeps ==
    ASSUME GateInv, NEW i \in DOMAIN discussion, NEW x, GoodComment(x),
           discussion' = [discussion EXCEPT ![i] = x], UNCHANGED <<pull, natives>>,
           NEW c, TriggerBy(c),
           ~c.member => /\ ~(discussion[i].kind # "none" /\ discussion[i].member)
                        /\ ~(x.kind # "none" /\ x.member)
    PROVE  GateInv'
<1>0. IsSeq(discussion)
  BY DEF GateInv, GateTypes
<1>1. /\ IsSeq(discussion') /\ DOMAIN discussion' = DOMAIN discussion /\ discussion'[i] = x
      /\ \A j \in DOMAIN discussion \ {i} : discussion'[j] = discussion[j]
  BY <1>0, ExceptIsSeq
<1>2. \A j \in DOMAIN discussion' : GoodComment(discussion'[j])
  BY <1>1 DEF GateInv, GateTypes
<1>3. CASE Trigger
  BY <1>1, <1>2, <1>3, LoudChange DEF GateInv, GateTypes, IsSeq
<1>4. CASE ~c.member /\ Change /\ UNCHANGED <<queued, evaluator>>
  <2>1. Alike(discussion, discussion')
    BY <1>0, <1>4, ExceptIsAlike
  <2> QED
    BY <1>1, <1>2, <1>4, <2>1, SilentChange DEF IsSeq
<1> QED
  BY <1>3, <1>4 DEF TriggerBy

LEMMA EditCommentKeeps ==
    ASSUME GateInv, NEW i \in DOMAIN discussion, NEW c \in Writings, EditComment(i, c)
    PROVE  GateInv'
<1>1. c \in Posts /\ GoodComment(discussion[i])
  BY DEF Posts, GateInv, GateTypes
<1>2. GoodComment(Stamped(c)) /\ Stamped(c).member = c.member
  BY <1>1, StampedIsGood
<1>3. c.member <=> c.author \in Members
  BY <1>1, GateAssumption DEF Members
<1>4. ~c.member => ~discussion[i].member
  BY <1>1, <1>3 DEF EditComment, GoodComment
<1> QED
  BY <1>2, <1>4, RewriteKeeps DEF EditComment

LEMMA DeleteCommentKeeps ==
    ASSUME GateInv, NEW i \in DOMAIN discussion, DeleteComment(i)
    PROVE  GateInv'
<1>1. GoodComment(NoComment) /\ NoComment.kind = "none"
  BY DEF GoodComment, NoComment
<1> QED
  BY <1>1, RewriteKeeps DEF DeleteComment

LEMMA PullChangeKeeps ==
    ASSUME GateInv, Trigger, pull' \in [rev: Revisions, body: Bodies], UNCHANGED <<discussion, natives>>
    PROVE  GateInv'
  BY LoudChange DEF GateInv, GateTypes, IsSeq

LEMMA NativesKeep ==
    ASSUME GateInv,
           \/ \E r \in Verdicts : SubmitReview(r)
           \/ \E i \in DOMAIN natives : Dismiss(i)
    PROVE  GateInv'
<1>0. IsSeq(natives)
  BY DEF GateInv, GateTypes
<1>1. ASSUME NEW r \in Verdicts, SubmitReview(r) PROVE IsSeq(natives')
  BY <1>0, <1>1, AppendIsSeq DEF SubmitReview
<1>2. ASSUME NEW i \in DOMAIN natives, Dismiss(i) PROVE IsSeq(natives')
  <2>1. PICK x : natives' = [natives EXCEPT ![i] = x]
    BY <1>2 DEF Dismiss
  <2> QED
    BY <1>0, <2>1, ExceptIsSeq
<1>3. IsSeq(natives)'
  BY <1>1, <1>2 DEF IsSeq
<1>4. Trigger /\ UNCHANGED <<pull, discussion>>
  BY DEF SubmitReview, Dismiss
<1> QED
  BY <1>3, <1>4, LoudChange DEF GateInv, GateTypes, IsSeq

(***************************************************************************)
(* The job                                                                 *)
(***************************************************************************)

\* A step of a running job that publishes nothing.
LEMMA JobStep ==
    ASSUME GateInv, NEW e, evaluator' = e, UNCHANGED <<Unread, queued, blind, gate>>,
           JobFields(e), e.at # "idle", ~queued => Fresh(e)
    PROVE  GateInv'
<1>1. UNCHANGED <<pull, discussion, natives, queued, blind, gate>>
  BY DEF Unread
<1>2. GateTypes'
  BY <1>1 DEF GateInv, GateTypes, GoodComment, IsSeq, JobFields, Read
<1>3. Supported => Supported'
  BY <1>1 DEF Supported, Alike
<1>4. ~queued' => Fresh(evaluator)'
  BY <1>1, <1>3 DEF Fresh, Read, Alike
<1>5. AtRest'
  BY DEF AtRest
<1> QED
  BY <1>2, <1>4, <1>5 DEF GateInv

LEMMA StartJobKeeps == ASSUME GateInv, StartJob PROVE GateInv'
<1>1. /\ UNCHANGED <<pull, discussion, natives, gate, blind>> /\ queued' = FALSE
      /\ evaluator' = [at |-> "before", cancelled |-> FALSE]
  BY DEF StartJob, Unread
<1>2. GateTypes'
  BY <1>1 DEF GateInv, GateTypes, GoodComment, IsSeq, JobFields, Read, Judging
<1>3. Fresh(evaluator)' /\ evaluator'.at = "before"
  BY <1>1 DEF Fresh, Read, Judging
<1> QED
  BY <1>2, <1>3 DEF GateInv, AtRest

LEMMA ReadBeforeKeeps == ASSUME GateInv, ReadBefore PROVE GateInv'
<1>1. UNCHANGED <<pull, discussion, natives, queued>> /\ evaluator.at = "before"
  BY DEF ReadBefore, Unread
<1>2. CASE UNCHANGED gate /\ evaluator' = NoJob /\ blind' = TRUE
  <2>1. GateTypes' /\ evaluator'.at = "idle"
    BY <1>1, <1>2 DEF GateInv, GateTypes, GoodComment, IsSeq, JobFields, Read, NoJob, Judging
  <2> QED
    BY <1>2, <2>1 DEF GateInv, AtRest
<1>3. CASE /\ ~evaluator.cancelled /\ gate' = [gate EXCEPT ![pull.rev] = "pending"] /\ blind' = FALSE
           /\ evaluator' = [at |-> "diff", cancelled |-> FALSE, rev |-> pull.rev, body |-> pull.body,
                            count |-> Cardinality(FilesOf[pull.rev]), pass |-> FALSE, made |-> FALSE]
  <2>1. DOMAIN gate' = Revisions /\ gate'[pull.rev] = "pending"
    BY <1>3 DEF GateInv, GateTypes
  <2>2. JobFields(evaluator)'
    BY <1>3 DEF JobFields, Read, Judging
  <2>3. GateTypes'
    BY <1>1, <1>3, <2>1, <2>2 DEF GateInv, GateTypes, GoodComment, IsSeq
  <2>4. evaluator'.at = "diff" /\ ~evaluator'.cancelled /\ evaluator'.rev = pull.rev
    BY <1>3
  <2>5. Fresh(evaluator)'
    BY <1>1, <1>3, <2>1, <2>4 DEF Fresh, Read, Judging
  <2> QED
    BY <2>3, <2>4, <2>5 DEF GateInv, AtRest
<1> QED
  BY <1>2, <1>3 DEF ReadBefore

LEMMA PublishStatusKeeps == ASSUME GateInv, PublishStatus PROVE GateInv'
<1>1. /\ UNCHANGED <<pull, discussion, natives, queued, blind>> /\ evaluator.at = "publish"
      /\ evaluator' = NoJob
  BY DEF PublishStatus, Advance, Unread
<1>2. DOMAIN gate' = Revisions
  BY DEF PublishStatus, GateInv, GateTypes
<1>3. GateTypes' /\ evaluator'.at = "idle"
  BY <1>1, <1>2 DEF GateInv, GateTypes, GoodComment, IsSeq, JobFields, Read, NoJob, Judging
<1>4. ASSUME ~queued, gate'[pull.rev] = "success" PROVE Supported
  <2>1. Fresh(evaluator) /\ evaluator.rev = pull.rev /\ gate[pull.rev] # "success"
    BY <1>1, <1>4 DEF GateInv, Fresh, Judging
  <2>2. evaluator.pass
    BY <1>4, <2>1 DEF PublishStatus, GateInv, GateTypes
  <2> QED
    BY <1>1, <2>1, <2>2 DEF Fresh
<1>5. Supported => Supported'
  BY <1>1 DEF Supported, Alike
<1>6. AtRest'
  BY <1>1, <1>4, <1>5 DEF AtRest
<1> QED
  BY <1>3, <1>6 DEF GateInv

LEMMA FreshJob ==
    ASSUME GateInv, evaluator.at \in Judging, ~queued
    PROVE  Fresh(evaluator) /\ evaluator.rev = pull.rev /\ gate[pull.rev] # "success" /\ ~blind
           /\ ~evaluator.cancelled
  BY DEF GateInv, Fresh, Judging

LEMMA StepFailsKeeps == ASSUME GateInv, StepFails PROVE GateInv'
<1>1. /\ evaluator.at \in {"diff", "files", "after", "evidence"}
      /\ evaluator' = [evaluator EXCEPT !.at = "refresh", !.pass = FALSE]
      /\ UNCHANGED <<Unread, queued, blind, gate>>
  BY DEF StepFails, Advance
<1>2. PICK e : e = evaluator'
  OBVIOUS
<1>3. {"at", "cancelled", "rev", "body", "pass", "made"} \subseteq DOMAIN evaluator
  BY <1>1 DEF GateInv, GateTypes, JobFields, Judging
<1>4. /\ DOMAIN e = DOMAIN evaluator /\ e.at = "refresh"
      /\ \A f \in DOMAIN evaluator \ {"at", "pass"} : e[f] = evaluator[f]
  BY <1>1, <1>2, <1>3
<1>5. e.cancelled = evaluator.cancelled /\ e.rev = evaluator.rev /\ e.made = evaluator.made
  BY <1>3, <1>4
<1>6. e.made => Read(evaluator)
  BY <1>1, <1>5 DEF GateInv, GateTypes, JobFields, Read
<1>7. JobFields(e)
  BY <1>1, <1>3, <1>4, <1>5, <1>6 DEF GateInv, GateTypes, JobFields, Read, Judging
<1>8. e.made => e.diff = evaluator.diff /\ e.files = evaluator.files
  BY <1>4, <1>6 DEF GateInv, GateTypes, JobFields
<1>9. ~queued => Fresh(e)
  <2> SUFFICES ASSUME ~queued PROVE Fresh(e)
    OBVIOUS
  <2>1. Fresh(evaluator) /\ evaluator.rev = pull.rev /\ gate[pull.rev] # "success" /\ ~blind
        /\ ~evaluator.cancelled
    BY <1>1, FreshJob DEF Judging
  <2> QED
    BY <2>1, <1>4, <1>5, <1>6, <1>8 DEF Fresh, Read
<1> QED
  BY <1>1, <1>2, <1>4, <1>7, <1>9, JobStep

LEMMA ReadDiffKeeps == ASSUME GateInv, ReadDiff PROVE GateInv'
<1>1. /\ evaluator.at = "diff" /\ ~evaluator.cancelled /\ UNCHANGED <<Unread, queued, blind, gate>>
      /\ evaluator' = With(evaluator, "files", "diff", pull.rev)
  BY DEF ReadDiff, Going, Advance
<1>2. PICK e : e = evaluator'
  OBVIOUS
<1>3. {"at", "cancelled", "rev", "body", "pass", "made"} \subseteq DOMAIN evaluator /\ ~evaluator.made
  BY <1>1 DEF GateInv, GateTypes, JobFields, Judging
<1>4. /\ DOMAIN e = DOMAIN evaluator \cup {"diff"} /\ e.at = "files" /\ e["diff"] = pull.rev
      /\ \A f \in DOMAIN evaluator \ {"at", "diff"} : e[f] = evaluator[f]
  BY <1>1, <1>2, <1>3 DEF With
<1>5. e.cancelled = evaluator.cancelled /\ e.rev = evaluator.rev /\ e.made = evaluator.made
  BY <1>3, <1>4
<1>6. JobFields(e)
  BY <1>3, <1>4, <1>5 DEF JobFields, Read, Judging
<1>7. ~queued => Fresh(e)
  BY <1>1, <1>4, <1>5, FreshJob DEF Fresh, Read, Judging
<1> QED
  BY <1>1, <1>2, <1>4, <1>6, <1>7, JobStep

LEMMA ReadFilesKeeps == ASSUME GateInv, ReadFiles PROVE GateInv'
<1>1. /\ evaluator.at = "files" /\ ~evaluator.cancelled /\ UNCHANGED <<Unread, queued, blind, gate>>
      /\ evaluator' = With(evaluator, "after", "files", pull.rev)
  BY DEF ReadFiles, Going, Advance
<1>2. PICK e : e = evaluator'
  OBVIOUS
<1>3. {"at", "cancelled", "rev", "body", "pass", "made", "diff"} \subseteq DOMAIN evaluator
  BY <1>1 DEF GateInv, GateTypes, JobFields, Judging
<1>4. /\ DOMAIN e = DOMAIN evaluator \cup {"files"} /\ e.at = "after" /\ e["files"] = pull.rev
      /\ \A f \in DOMAIN evaluator \ {"at", "files"} : e[f] = evaluator[f]
  BY <1>1, <1>2, <1>3 DEF With
<1>5. e.cancelled = evaluator.cancelled /\ e.rev = evaluator.rev /\ e.diff = evaluator.diff
  BY <1>3, <1>4
<1>6. JobFields(e)
  BY <1>3, <1>4 DEF JobFields, Read, Judging
<1>7. ~queued => Fresh(e)
  BY <1>1, <1>4, <1>5, FreshJob DEF Fresh, Read, Judging
<1> QED
  BY <1>1, <1>2, <1>4, <1>6, <1>7, JobStep

LEMMA ReadAfterKeeps == ASSUME GateInv, ReadAfter PROVE GateInv'
<1>1. /\ evaluator.at = "after" /\ UNCHANGED <<Unread, queued, blind, gate>>
      /\ evaluator' = [evaluator EXCEPT !.at = "evidence", !.made = TRUE]
  BY DEF ReadAfter, Going, Advance
<1>2. PICK e : e = evaluator'
  OBVIOUS
<1>3. {"at", "cancelled", "rev", "body", "pass", "made", "diff", "files"} \subseteq DOMAIN evaluator
  BY <1>1 DEF GateInv, GateTypes, JobFields, Judging, Read
<1>4. /\ DOMAIN e = DOMAIN evaluator /\ e.at = "evidence"
      /\ \A f \in DOMAIN evaluator \ {"at", "made"} : e[f] = evaluator[f]
  BY <1>1, <1>2, <1>3
<1>5. /\ e.cancelled = evaluator.cancelled /\ e.rev = evaluator.rev
      /\ e.diff = evaluator.diff /\ e.files = evaluator.files
  BY <1>3, <1>4
<1>6. JobFields(e)
  BY <1>3, <1>4 DEF JobFields, Read, Judging
<1>7. ~queued => Fresh(e)
  BY <1>1, <1>4, <1>5, FreshJob DEF Fresh, Read, Judging
<1> QED
  BY <1>1, <1>2, <1>4, <1>6, <1>7, JobStep

LEMMA ReadCommentsKeeps == ASSUME GateInv, ReadComments PROVE GateInv'
<1> DEFINE final == evaluator.at = "refresh"
           old == [evaluator EXCEPT !.body = IF final THEN pull.body ELSE @]
           at == IF final THEN "final" ELSE "first"
<1>1. /\ evaluator.at \in {"evidence", "refresh"} /\ UNCHANGED <<Unread, queued, blind, gate>>
      /\ evaluator.at = "refresh" => evaluator.made
      /\ evaluator' = With(old, at, "comments", discussion)
  BY DEF ReadComments, Advance
<1>2. PICK e : e = evaluator'
  OBVIOUS
<1>3. {"at", "cancelled", "rev", "body", "pass", "made", "diff", "files"} \subseteq DOMAIN evaluator
      /\ Read(evaluator)
  BY <1>1 DEF GateInv, GateTypes, JobFields, Judging, Read
<1>4. /\ DOMAIN old = DOMAIN evaluator /\ (final => old.body = pull.body)
      /\ \A f \in DOMAIN evaluator \ {"body"} : old[f] = evaluator[f]
  BY <1>3
<1>5. at \in {"first", "final"} /\ (at = "final" <=> final)
  OBVIOUS
<1> HIDE DEF old, at, final
<1>6. /\ DOMAIN e = DOMAIN old \cup {"comments"} /\ e.at = at /\ e.comments = discussion
      /\ \A f \in DOMAIN old \ {"at", "comments"} : e[f] = old[f]
  BY <1>1, <1>2, <1>3, <1>4 DEF With
<1>7. /\ e.cancelled = evaluator.cancelled /\ e.rev = evaluator.rev
      /\ e.diff = evaluator.diff /\ e.files = evaluator.files /\ (final => e.body = pull.body)
  BY <1>3, <1>4, <1>6
<1>8. JobFields(e)
  BY <1>3, <1>4, <1>5, <1>6 DEF JobFields, Read, Judging
<1>9. ~queued => Fresh(e)
  <2> SUFFICES ASSUME ~queued PROVE Fresh(e)
    OBVIOUS
  <2>1. Fresh(evaluator) /\ evaluator.rev = pull.rev /\ gate[pull.rev] # "success" /\ ~blind
        /\ ~evaluator.cancelled
    BY <1>1, FreshJob DEF Judging
  <2>2. Alike(e.comments, discussion)
    BY <1>6 DEF Alike
  <2> QED
    BY <2>1, <2>2, <1>3, <1>5, <1>6, <1>7 DEF Fresh, Read
<1> QED
  BY <1>1, <1>2, <1>5, <1>6, <1>8, <1>9, JobStep

LEMMA EvaluateAllKeeps == ASSUME GateInv, EvaluateAll PROVE GateInv'
<1> DEFINE at == IF evaluator.at = "first" THEN "refresh" ELSE "publish"
           pass == Evaluate(Materialised(evaluator), evaluator.body, evaluator.comments, natives)
<1>1. /\ evaluator.at \in {"first", "final"} /\ UNCHANGED <<Unread, queued, blind, gate>>
      /\ evaluator' = [evaluator EXCEPT !.at = at, !.pass = pass]
  BY DEF EvaluateAll, Advance
<1>2. PICK e : e = evaluator'
  OBVIOUS
<1>3. {"at", "cancelled", "rev", "body", "pass", "made", "diff", "files", "comments"} \subseteq DOMAIN evaluator
      /\ Read(evaluator)
  BY <1>1 DEF GateInv, GateTypes, JobFields, Judging, Read
<1>4. at \in {"refresh", "publish"} /\ (at = "publish" => evaluator.at = "final")
  BY <1>1
<1> HIDE DEF at, pass
<1>5. /\ DOMAIN e = DOMAIN evaluator /\ e.at = at /\ e.pass = pass
      /\ \A f \in DOMAIN evaluator \ {"at", "pass"} : e[f] = evaluator[f]
  BY <1>1, <1>2, <1>3
<1>6. /\ e.cancelled = evaluator.cancelled /\ e.rev = evaluator.rev
      /\ e.diff = evaluator.diff /\ e.files = evaluator.files
  BY <1>3, <1>5
<1>7. JobFields(e)
  BY <1>3, <1>4, <1>5 DEF JobFields, Read, Judging
<1>8. ~queued => Fresh(e)
  <2> SUFFICES ASSUME ~queued PROVE Fresh(e)
    OBVIOUS
  <2>1. Fresh(evaluator) /\ evaluator.rev = pull.rev /\ gate[pull.rev] # "success" /\ ~blind
        /\ ~evaluator.cancelled
    BY <1>1, FreshJob DEF Judging
  <2>2. evaluator.diff = pull.rev /\ evaluator.files = pull.rev
    BY <2>1, <1>3 DEF Fresh
  <2>3. Materialised(evaluator) = Bundle(pull.rev)
    BY <2>1, <2>2 DEF Materialised, Bundle
  <2>4. at = "publish" /\ pass => Supported
    BY <2>1, <2>3, <1>4 DEF Fresh, Supported, pass
  <2> QED
    BY <2>1, <2>2, <2>4, <1>4, <1>5, <1>6 DEF Fresh, Read
<1> QED
  BY <1>1, <1>2, <1>4, <1>5, <1>7, <1>8, JobStep

\* A cancelled job keeps what it had concluded; another one is queued behind it.
LEMMA CutKeeps == ASSUME GateInv, Cut PROVE GateInv'
<1> DEFINE at == IF evaluator.at = "first" THEN "refresh" ELSE "publish"
<1>1. /\ evaluator.at \in {"first", "refresh", "final"} /\ evaluator.cancelled
      /\ UNCHANGED <<Unread, queued, blind, gate>> /\ evaluator' = [evaluator EXCEPT !.at = at]
  BY DEF Cut, Advance
<1>2. PICK e : e = evaluator'
  OBVIOUS
<1>3. {"at", "cancelled", "rev", "body", "pass", "made"} \subseteq DOMAIN evaluator
      /\ (evaluator.at = "first" => {"diff", "files"} \subseteq DOMAIN evaluator)
  BY <1>1 DEF GateInv, GateTypes, JobFields, Judging, Read
<1>4. at \in {"refresh", "publish"} /\ (at = "refresh" => evaluator.at = "first")
  OBVIOUS
<1> HIDE DEF at
<1>5. DOMAIN e = DOMAIN evaluator /\ e.at = at
  BY <1>1, <1>2, <1>3
<1>6. JobFields(e)
  BY <1>3, <1>4, <1>5 DEF JobFields, Read, Judging
<1>7. queued
  BY <1>1, FreshJob DEF Judging, GateInv, GateTypes
<1> QED
  BY <1>1, <1>2, <1>4, <1>5, <1>6, <1>7, JobStep

LEMMA RefreshFailsKeeps == ASSUME GateInv, RefreshFails PROVE GateInv'
<1>1. /\ evaluator.at \in {"refresh", "final"} /\ UNCHANGED <<Unread, queued, blind, gate>>
      /\ evaluator' = [evaluator EXCEPT !.at = "publish", !.pass = FALSE]
  BY DEF RefreshFails, Advance
<1>2. PICK e : e = evaluator'
  OBVIOUS
<1>3. {"at", "cancelled", "rev", "body", "pass", "made"} \subseteq DOMAIN evaluator
  BY <1>1 DEF GateInv, GateTypes, JobFields, Judging
<1>4. /\ DOMAIN e = DOMAIN evaluator /\ e.at = "publish" /\ e.pass = FALSE
      /\ \A f \in DOMAIN evaluator \ {"at", "pass"} : e[f] = evaluator[f]
  BY <1>1, <1>2, <1>3
<1>5. e.cancelled = evaluator.cancelled /\ e.rev = evaluator.rev
  BY <1>3, <1>4
<1>6. JobFields(e)
  BY <1>3, <1>4 DEF JobFields, Read, Judging
<1>7. ~queued => Fresh(e)
  BY <1>1, <1>4, <1>5, FreshJob DEF Fresh, Read, Judging
<1> QED
  BY <1>1, <1>2, <1>4, <1>6, <1>7, JobStep

LEMMA GateInitially == GateInit => GateInv
<1> SUFFICES ASSUME GateInit PROVE GateInv
  OBVIOUS
<1>1. discussion \in Seq(Posts) /\ discussion \in Threads
  BY GateAssumption DEF GateInit
<1>2. IsSeq(discussion)
  BY <1>1, SeqIsSeq
<1>3. ASSUME NEW i \in DOMAIN discussion PROVE GoodComment(discussion[i])
  <2>1. PICK c \in Posts : c = discussion[i]
    BY <1>1
  <2>2. c.kind \in {"attested", "forwarded"} /\ c.member \in BOOLEAN
        /\ \A d \in Posts : c.author = d.author => c.member = d.member
    BY GateAssumption
  <2> QED
    BY <2>1, <2>2 DEF GoodComment, Members
<1>4. natives = <<>> /\ queued = TRUE /\ blind = FALSE /\ evaluator = NoJob
      /\ pull \in [rev: Revisions, body: Bodies] /\ gate = [v \in Revisions |-> "none"]
  BY DEF GateInit
<1>5. natives \in Seq({})
  BY <1>4
<1>6. IsSeq(natives)
  BY <1>5, SeqIsSeq
<1>7. JobFields(evaluator) /\ evaluator.at = "idle"
  BY <1>4 DEF NoJob, JobFields, Read, Judging
<1>8. GateTypes
  BY <1>2, <1>3, <1>4, <1>6, <1>7 DEF GateTypes
<1> QED
  BY <1>4, <1>7, <1>8 DEF GateInv, AtRest

LEMMA GateStep == GateInv /\ [GateNext]_gateVars => GateInv'
<1> SUFFICES ASSUME GateInv, [GateNext]_gateVars PROVE GateInv'
  OBVIOUS
<1>1. CASE JobNext
  BY <1>1, StartJobKeeps, ReadBeforeKeeps, StepFailsKeeps, ReadDiffKeeps, ReadFilesKeeps,
     ReadAfterKeeps, ReadCommentsKeeps, EvaluateAllKeeps, CutKeeps, RefreshFailsKeeps,
     PublishStatusKeeps DEF JobNext
<1>2. ASSUME NEW v \in Revisions, Push(v) PROVE GateInv'
  <2>1. pull' \in [rev: Revisions, body: Bodies]
    BY <1>2 DEF Push, GateInv, GateTypes
  <2> QED
    BY <1>2, <2>1, PullChangeKeeps DEF Push
<1>3. ASSUME NEW b \in Bodies, EditBody(b) PROVE GateInv'
  <2>1. pull' \in [rev: Revisions, body: Bodies]
    BY <1>3 DEF EditBody, GateInv, GateTypes
  <2> QED
    BY <1>3, <2>1, PullChangeKeeps DEF EditBody
<1>4. ASSUME NEW c \in Writings, Comment(c) PROVE GateInv'
  BY <1>4, CommentKeeps
<1>5. ASSUME NEW i \in DOMAIN discussion, DeleteComment(i) \/ \E c \in Writings : EditComment(i, c)
      PROVE  GateInv'
  BY <1>5, DeleteCommentKeeps, EditCommentKeeps
<1>6. ASSUME (\E r \in Verdicts : SubmitReview(r)) \/ (\E i \in DOMAIN natives : Dismiss(i))
      PROVE  GateInv'
  BY <1>6, NativesKeep
<1>7. CASE UNCHANGED gateVars
  <2>1. UNCHANGED <<pull, discussion, natives, gate, evaluator, queued, blind>>
    BY <1>7 DEF gateVars
  <2>2. GateTypes'
    BY <2>1 DEF GateInv, GateTypes, GoodComment, IsSeq, JobFields, Read
  <2>3. Supported => Supported'
    BY <2>1 DEF Supported, Alike
  <2>4. evaluator'.at # "idle" /\ ~queued' => Fresh(evaluator)'
    BY <2>1, <2>3 DEF GateInv, Fresh, Read, Alike
  <2> QED
    BY <2>1, <2>2, <2>3, <2>4 DEF GateInv, AtRest
<1> QED
  BY <1>1, <1>2, <1>3, <1>4, <1>5, <1>6, <1>7 DEF GateNext

\* A success on the current head of a pull request at rest has all the evidence the
\* policy asks for, whatever was pushed, written, edited, withdrawn or dismissed
\* between the reads of the jobs and however they failed or were cancelled
\* (review_governance.py, review-evidence.yml).
THEOREM ReviewGateIsCurrent == GateSpec => []GateIsCurrent
<1>1. GateInv => GateIsCurrent
  BY SupportedIsEarned DEF GateInv, AtRest, GateIsCurrent
<1> QED
  BY <1>1, GateInitially, GateStep, PTL DEF GateSpec

=============================================================================
