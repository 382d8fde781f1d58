------------------------------ MODULE MCTools ------------------------------
(***************************************************************************)
(* The repository's command line tools and two parts of the API, side by   *)
(* side.  They share no state: a behaviour is one of one of them, chosen   *)
(* at the start, while the others rest in one of their initial states, so  *)
(* the state spaces add up.                                                *)
(***************************************************************************)
EXTENDS AgentRun, HandoffReview, ScaleFixture, RuntimeEvidence, PublicProduction, EnvReconcile,
        OciImages, ToolBootstrap, HaAvailability, ReviewGovernance, HybridRanking,
        NodeDeleteJournal, WebPush

CONSTANTS c1, c2, r1, r2, v1, v2, v3   \* commits, releases and revisions

VARIABLE tool

toolVars == <<tool, agentVars, reviewVars, fixtureVars, evidenceVars, productionVars, envVars,
              publisherVars, bootstrapVars, mirrorVars, availabilityVars, gateVars, rankingVars,
              dockerfileVars, journalVars, pushVars>>

Tools == {"agent", "review", "fixture", "evidence", "production", "backups", "env", "publisher",
          "bootstrap", "mirror", "availability", "gate", "ranking", "dockerfile",
          "journal", "push"}

(***************************************************************************)
(* Agent tools: tasks, hand-offs and the claim registry                    *)
(***************************************************************************)

FileAt(ps) == [parts |-> ps, dir |-> FALSE, odd |-> FALSE]
DirAt(ps) == [parts |-> ps, dir |-> TRUE, odd |-> FALSE]
OddAt(ps) == [parts |-> ps, dir |-> FALSE, odd |-> TRUE]
a == <<"a">>
ax == <<"a", "x">>
axy == <<"a", "x", "y">>

TaskOf(evidence, allowed) ==
    [allowed |-> {allowed}, forbidden |-> {}, type |-> "doc_change", claims |-> {"k1"},
     evidence |-> {evidence}, commands |-> {"check"}, deleteAllowed |-> FALSE,
     status |-> "open", digest |-> 1]
GoodTask == TaskOf(FileAt(a), DirAt(a))
RunnerTasks == {GoodTask, TaskOf(DirAt(a), DirAt(a)), TaskOf(FileAt(a), DirAt(<<>>))}

ScopedTasks ==
    [allowed: {{DirAt(a)}, {FileAt(ax)}, {DirAt(a), DirAt(Generated)}, {FileAt(a), DirAt(<<>>)}},
     forbidden: {{}, {FileAt(ax)}}, type: {"generated_refresh"},
     claims: {{"k1"}}, evidence: {{FileAt(ax)}, {DirAt(a)}},
     commands: {{"check"}, {"check", "generate"}}, deleteAllowed: {FALSE}, status: {"open"}, digest: {1}]
ClaimedTasks ==
    [allowed: {{DirAt(a)}}, forbidden: {{}}, type: {"doc_change"}, claims: {{"k1"}, {"k2"}, {"k3"}, {}},
     evidence: {{FileAt(ax)}}, commands: {{"check"}}, deleteAllowed: {TRUE}, status: {"open", "done"}, digest: {1}]

TasksToReview == ScopedTasks \cup ClaimedTasks

ResultOf(c, s) == [command |-> c, status |-> s]
ScopedHandoffs ==
    [digest: {1}, outcome: {"ready_for_review", "incomplete"},
     changed: {{FileAt(ax)}, {FileAt(axy)}, {OddAt(ax), FileAt(<<"generated", "g">>)}, {FileAt(<<"b">>)}},
     deleted: {{}, {FileAt(axy)}}, claims: {{"k1"}}, produced: {{}, {FileAt(ax)}}, missing: {{}, {FileAt(ax)}},
     results: {{ResultOf("check", "passed")}, {ResultOf("check", "passed"), ResultOf("generate", "passed")},
               {ResultOf("check", "failed")}, {ResultOf("check", "passed"), ResultOf("check", "failed")}},
     blockers: {FALSE}, gaps: {FALSE}, ticked: {{}}]
ClaimedHandoffs ==
    [digest: {1, 2}, outcome: {"ready_for_review", "blocked", "incomplete"},
     changed: {{FileAt(ax)}}, deleted: {{}}, claims: {{"k1"}, {}, {"k1", "k2"}},
     produced: {{FileAt(ax)}}, missing: {{}}, results: {{ResultOf("check", "passed")}},
     blockers: BOOLEAN, gaps: BOOLEAN, ticked: {{}, {ax}}]
HandoffsToReview == ScopedHandoffs \cup ClaimedHandoffs
ClaimRegistry == [k \in {"k1", "k2"} |-> IF k = "k1" THEN "active" ELSE "rejected"]
ExistingFiles == {ax}

(***************************************************************************)
(* The other tools                                                         *)
(***************************************************************************)

Nodes_ == [p \in Profiles |-> IF p = "small" THEN 1 ELSE 2]
PlanNode(index, loops, forbidden, temp) ==
    [index |-> index, loops |-> loops, condition |-> index, forbidden |-> forbidden, temp |-> temp]
SomePlans == {{PlanNode(TRUE, 1, FALSE, 0)}, {PlanNode(TRUE, 0, FALSE, 0)},
              {PlanNode(TRUE, 1, FALSE, 0), PlanNode(FALSE, 1, TRUE, 0)},
              {PlanNode(TRUE, 1, FALSE, 1), PlanNode(FALSE, 1, FALSE, 1)}}

Outcomes == {[p50 |-> 1, p95 |-> 1, p99 |-> 1, failed |-> 0], [p50 |-> 1, p95 |-> 2, p99 |-> 2, failed |-> 0]}

Mail(login, magic, port) ==
    [login |-> login, magic |-> magic, auth |-> "on", port |-> port, secrets |-> {"user", "pass"}, base |-> ""]
SomeMail == {Mail("1", "", 465), Mail("true", "0", 25)}

Batches == [i \in Images |-> IF i = "postgres" THEN 2 ELSE 1]
ToolLocks == [p \in Installers |-> IF p = "i1" THEN "v1" ELSE "v2"]
Content == [h \in Heads |-> IF h = "h3" THEN 2 ELSE 1]
Digest == [i \in 1..2 |-> IF i = 1 THEN "d1" ELSE "d2"]

(***************************************************************************)
(* The review gate and the ranking                                         *)
(***************************************************************************)

ChangedFile(name, class, product) ==
    [name |-> name, oldName |-> name, class |-> class, product |-> product, opaque |-> class = "raster"]
ChangedFiles == [v \in {v1, v2, v3} |->
    CASE v = v1 -> {ChangedFile("api", "code", TRUE)}
      [] v = v2 -> {ChangedFile("guide", "markdown", FALSE)}
      [] v = v3 -> {ChangedFile("logo", "raster", FALSE)}]
ChangedLines == [v \in {v1, v2, v3} |-> IF v = v2 THEN 50 ELSE 51]
BodyOf(risk, attention) == [risk |-> risk, attention |-> attention]
SomeBodies == {BodyOf(0, "absent"), BodyOf(1, "absent"), BodyOf(2, "none with rationale")}
Attested(author, reviewer, axis, text, says, resolved) ==
    [kind |-> "attested", parses |-> TRUE, author |-> author, member |-> TRUE, rev |-> v1, diff |-> v1,
     risk |-> 2, reviewer |-> reviewer, axis |-> axis, text |-> text, hash |-> text, long |-> TRUE, blocks |-> 1,
     verdict |-> says, resolved |-> resolved, mode |-> "external", session |-> NoSession, reason |-> FALSE]
SelfReview(axis, text, mode, session) ==
    [Attested("ann", "ann", axis, text, "PASS", TRUE) EXCEPT
        !.mode = mode, !.session = session, !.reason = mode = "self-fallback"]
Forwarded(reviewer, axis, text) ==
    [Attested("ann", reviewer, axis, text, "PASS", TRUE) EXCEPT !.kind = "forwarded"]
SomeComments ==
    {Attested("ann", "bob", "correctness", 1, "PASS", TRUE), Attested("ann", "bob", "correctness", 2, "BLOCKED", TRUE),
     Attested("ann", "bob", "correctness", 3, "PASS", FALSE), Forwarded("cid", "testing", 4),
     [Attested("ann", "bob", "correctness", 1, "PASS", TRUE) EXCEPT !.diff = v2]}
Posted(c) == [f \in DOMAIN c \cup {"updated"} |-> IF f = "updated" THEN 0 ELSE c[f]]
SomeThreads ==
    {<<>>, <<Posted(Attested("ann", "bob", "correctness", 1, "PASS", TRUE)), Posted(Forwarded("cid", "testing", 4))>>,
     <<Posted(SelfReview("correctness", 5, "self-primary", "s1")), Posted(SelfReview("testing", 6, "self-fallback", "s2"))>>,
     <<Posted(Attested("guest", "cid", "testing", 4, "PASS", TRUE)), Posted(Attested("ann", "bob", "correctness", 1, "PASS", TRUE))>>}
NativeOf(member, state, v) == [login |-> "dan", member |-> member, state |-> state, rev |-> v]
SomeVerdicts == {NativeOf(TRUE, "APPROVED", v3), NativeOf(FALSE, "APPROVED", v3), NativeOf(TRUE, "CHANGES_REQUESTED", v1)}

SignalOf(title, tag, trigram, matched) ==
    [title |-> title, tag |-> tag, share |-> 400, trigram |-> trigram, tokens |-> 4, matched |-> matched, weight |-> 250]
Signals == [d \in 1..4 |-> CASE d = 1 -> SignalOf("other", FALSE, 300, 0) [] d = 2 -> SignalOf("prefix", FALSE, 0, 0)
                               [] d = 3 -> SignalOf("other", FALSE, 299, 1) [] d = 4 -> SignalOf("other", FALSE, 0, 0)]
Similarities == [m \in {"m1", "m2", "remote"} |->
    IF m = "m1" THEN <<700, 100, 565, 550>> ELSE <<100, 100, 560, 590>>]

(***************************************************************************)
(* Dockerfiles                                                             *)
(***************************************************************************)

FoldedNames == [n \in {"build", "BUILD"} |-> "build"]
LocksOf == {[b \in {"rust", "debian"} |-> [ref |-> b, local |-> IF b = "rust" THEN "local rust" ELSE "local debian"]],
            [b \in {"rust", "debian"} |-> [ref |-> "rust", local |-> "local rust"]]}
ASSUME LocksKeepNamesApart == OwnLocalNames
LineOf(kind) == [kind |-> kind, text |-> NoWords, more |-> FALSE]
TextOf(t, more) == [kind |-> "text", text |-> t, more |-> more]
FromOf(base, alias) == [NoWords EXCEPT !.keyword = "FROM", !.base = base, !.alias = alias]
ReadsFrom(keyword, sources) == [NoWords EXCEPT !.keyword = keyword, !.sources = sources]
SomeLines ==
    {LineOf("blank"), LineOf("comment"), LineOf("directive"),
     TextOf(FromOf("rust", "build"), FALSE), TextOf(FromOf("debian", ""), FALSE), TextOf(FromOf("debian", ""), TRUE),
     TextOf(FromOf("BUILD", "build"), FALSE), TextOf(FromOf("scratch", ""), FALSE),
     TextOf([FromOf("rust", "") EXCEPT !.odd = TRUE], FALSE),
     TextOf(ReadsFrom("COPY", {StageName("from", "BUILD")}), FALSE), TextOf(ReadsFrom("COPY", {}), TRUE),
     TextOf(ReadsFrom("", {StageIndex("from", 1)}), FALSE), TextOf([NoWords EXCEPT !.alias = "BUILD"], FALSE),
     TextOf(ReadsFrom("RUN", {StageIndex("mount", 0)}), FALSE), TextOf(ReadsFrom("ADD", {}), FALSE),
     TextOf(ReadsFrom("ENV", {}), FALSE)}

(***************************************************************************)
(* Nodes and Faeden, devices and hints                                     *)
(***************************************************************************)

Anchors == [e \in {"e1", "e2"} |-> "n1"]
Recipients == [h \in Hints |-> "u1"]
OneDevice == [d \in Devices |-> IF d = "d1" THEN [owner |-> "u1", active |-> TRUE] ELSE Unregistered]

(***************************************************************************)
(* The specification                                                       *)
(***************************************************************************)

Some(S) == CHOOSE x \in S : TRUE

\* A pull request starts with the reviews of a declared R2 or with none.
StartOfReview ==
    \/ pull.rev = v1 /\ pull.body.risk = 2
    \/ discussion = <<>> /\ pull = [rev |-> v3, body |-> BodyOf(1, "absent")]
    \/ discussion = <<>> /\ pull = [rev |-> v1, body |-> BodyOf(0, "absent")]

SteadySite == site.tree /\ site.defects = {} /\ site.edge = site.api /\ site.bundle = site.api

ToolsInit ==
    /\ tool \in Tools
    /\ AgentInit /\ (tool # "agent" => task = Some(Tasks))
    /\ FixtureInit /\ EvidenceInit /\ AvailabilityInit
    /\ world.head = c1                          \* without loss of generality
    /\ ProductionInit /\ site.api = r1
    /\ CASE tool = "production" -> restored # {} /\ site.edge = site.bundle /\ (site.tree \/ site.defects = {})
         [] tool = "backups" -> SteadySite
         [] OTHER -> SteadySite /\ restored = {}
    /\ EnvInit /\ (tool # "env" => source.mail = Some(MailSettings) /\ env.push = Unset)
    /\ PublisherInit /\ (tool # "publisher" => \A i \in Images : mirrorTag[i] = "absent")
    /\ BootstrapInit /\ (tool # "bootstrap" => archive = Missing /\ binary = Missing)
    /\ MirrorInit /\ headOf["k1"] = "h1" /\ (tool # "mirror" => headOf["k2"] = "h1" /\ localTag = NoImage)
    /\ GateInit /\ (IF tool = "gate" THEN StartOfReview ELSE pull.rev = v1 /\ pull.body.risk = 0 /\ discussion = <<>>)
    /\ DockerfileInit /\ (tool # "dockerfile" => ociLock = Some(OciLocks))
    /\ RankingInit /\ (tool # "ranking" => corpus = {} /\ provider = Some(Models))
    /\ JournalInit /\ (tool # "journal" => disk.edges.there)
    /\ PushInit /\ wanted = [x \in Accounts |-> x = "u1"] /\ device = OneDevice
    /\ IF tool = "review"
         THEN ReviewInit /\ (review.task \in ScopedTasks <=> review.handoff \in ScopedHandoffs)
         ELSE review = ReviewOf(Some(ReviewTasks), Some(Handoffs))

\* A change of the surroundings meets the first attempt of the evidence, while
\* samplers and load that miss each other are left to the runs without one;
\* one change of the site meets all its observers.
EarlyChange == attempt.no = 1 /\ clock <= 1 /\ Surroundings
OneChange == events = 0 /\ SiteNext

ToolsNext ==
    /\ UNCHANGED tool
    /\ \/ tool = "agent" /\ AgentNext
          /\ UNCHANGED <<reviewVars, fixtureVars, evidenceVars, productionVars, envVars, publisherVars, bootstrapVars, mirrorVars, availabilityVars, gateVars, rankingVars, dockerfileVars, journalVars, pushVars>>
       \/ tool = "review" /\ ReviewNext
          /\ UNCHANGED <<agentVars, fixtureVars, evidenceVars, productionVars, envVars, publisherVars, bootstrapVars, mirrorVars, availabilityVars, gateVars, rankingVars, dockerfileVars, journalVars, pushVars>>
       \/ tool = "fixture" /\ FixtureNext
          /\ UNCHANGED <<agentVars, reviewVars, evidenceVars, productionVars, envVars, publisherVars, bootstrapVars, mirrorVars, availabilityVars, gateVars, rankingVars, dockerfileVars, journalVars, pushVars>>
       \/ tool = "evidence" /\ (EvidenceSteps \/ EarlyChange)
          /\ UNCHANGED <<agentVars, reviewVars, fixtureVars, productionVars, envVars, publisherVars, bootstrapVars, mirrorVars, availabilityVars, gateVars, rankingVars, dockerfileVars, journalVars, pushVars>>
       \/ (\/ tool = "production" /\ (OneChange \/ ReleaseNext \/ CollectNext \/ LiveNext \/ ObserverDies)
           \/ tool = "backups" /\ (BackupNext \/ CollectNext \/ ObserverDies))
          /\ UNCHANGED <<agentVars, reviewVars, fixtureVars, evidenceVars, envVars, publisherVars, bootstrapVars, mirrorVars, availabilityVars, gateVars, rankingVars, dockerfileVars, journalVars, pushVars>>
       \/ tool = "env" /\ EnvNext
          /\ UNCHANGED <<agentVars, reviewVars, fixtureVars, evidenceVars, productionVars, publisherVars, bootstrapVars, mirrorVars, availabilityVars, gateVars, rankingVars, dockerfileVars, journalVars, pushVars>>
       \/ tool = "publisher" /\ PublisherNext
          /\ UNCHANGED <<agentVars, reviewVars, fixtureVars, evidenceVars, productionVars, envVars, bootstrapVars, mirrorVars, availabilityVars, gateVars, rankingVars, dockerfileVars, journalVars, pushVars>>
       \/ tool = "bootstrap" /\ BootstrapNext
          /\ UNCHANGED <<agentVars, reviewVars, fixtureVars, evidenceVars, productionVars, envVars, publisherVars, mirrorVars, availabilityVars, gateVars, rankingVars, dockerfileVars, journalVars, pushVars>>
       \/ tool = "mirror" /\ MirrorNext
          /\ UNCHANGED <<agentVars, reviewVars, fixtureVars, evidenceVars, productionVars, envVars, publisherVars, bootstrapVars, availabilityVars, gateVars, rankingVars, dockerfileVars, journalVars, pushVars>>
       \/ tool = "availability" /\ AvailabilityNext
          /\ UNCHANGED <<agentVars, reviewVars, fixtureVars, evidenceVars, productionVars, envVars, publisherVars, bootstrapVars, mirrorVars, gateVars, rankingVars, dockerfileVars, journalVars, pushVars>>
       \/ tool = "gate" /\ GateNext
          /\ UNCHANGED <<agentVars, reviewVars, fixtureVars, evidenceVars, productionVars, envVars, publisherVars, bootstrapVars, mirrorVars, availabilityVars, rankingVars, dockerfileVars, journalVars, pushVars>>
       \/ tool = "ranking" /\ RankingNext
          /\ UNCHANGED <<agentVars, reviewVars, fixtureVars, evidenceVars, productionVars, envVars, publisherVars, bootstrapVars, mirrorVars, availabilityVars, gateVars, dockerfileVars, journalVars, pushVars>>
       \/ tool = "dockerfile" /\ DockerfileNext
          /\ UNCHANGED <<agentVars, reviewVars, fixtureVars, evidenceVars, productionVars, envVars, publisherVars, bootstrapVars, mirrorVars, availabilityVars, gateVars, rankingVars, journalVars, pushVars>>
       \/ tool = "journal" /\ JournalNext
          /\ UNCHANGED <<agentVars, reviewVars, fixtureVars, evidenceVars, productionVars, envVars, publisherVars, bootstrapVars, mirrorVars, availabilityVars, gateVars, rankingVars, dockerfileVars, pushVars>>
       \/ tool = "push" /\ PushNext
          /\ UNCHANGED <<agentVars, reviewVars, fixtureVars, evidenceVars, productionVars, envVars, publisherVars, bootstrapVars, mirrorVars, availabilityVars, gateVars, rankingVars, dockerfileVars, journalVars>>

ToolsSpec == ToolsInit /\ [][ToolsNext]_toolVars

(***************************************************************************)
(* Constraints: the combinations that are left out                         *)
(***************************************************************************)

\* Edits of the repository meet one dry run of the task that is no finding;
\* two dry runs, both with a target, meet each other.
RunsApart ==
    LET busy == {r \in Runs : run[r].pc # "idle"} IN
    /\ Cardinality(busy) > 1 => \A r \in busy : run[r].target # NoRun
    /\ repo # [x \in Parts |-> 1] => task = GoodTask /\ Cardinality(busy) <= 1
\* A change that cannot happen any more ends the run of the evidence.
ChangesApart == changes = 0 \/ (attempt.no = 1 /\ clock <= 1)
\* The searches of the second attempt are alike.
SearchesAlike == attempt.no = 2 => api.seen[2] = 0 /\ api.seen[3] = 0
\* The two samplers are interchangeable.
SamplersInOrder ==
    \A r \in RunIds : sampler[r]["connections"] # NotStarted => sampler[r]["resource"] # NotStarted
\* A report that the change of the site made obsolete is forgotten.
ReportsSteady == tool = "production" => \A o \in Observers : receipt[o] = NoReport \/ o \in steady
\* Two replacements of the environment file and its source.
FewFiles == nextInode < 5

Bounded == RunsApart /\ ChangesApart /\ SearchesAlike /\ SamplersInOrder /\ ReportsSteady /\ FewFiles

=============================================================================
