--------------------------- MODULE RuntimeEvidence ---------------------------
(***************************************************************************)
(* The evidence for an API load run (scripts/performance, driven as in     *)
(* .github/workflows/domain-scale.yml): the live binding reads checkout,   *)
(* database, search index and API one after another; two samplers run in   *)
(* the background while k6 loads the API between two metric scrapes;       *)
(* `check` joins the six files into a report, and `verify` re-binds the    *)
(* report to the checkout.  The tools share nothing but files; an attempt  *)
(* may be given up while its samplers still run; API, data, index, policy  *)
(* and checkout may change between any two steps.                          *)
(***************************************************************************)
EXTENDS Integers, FiniteSets

CONSTANTS Commits,       \* API builds and checkout revisions
          HttpOutcomes,  \* what k6 may measure: p50, p95, p99 and failed rate
          MaxP95, MaxP99, MaxFailed,  \* the budgets of the performance policy
          MaxTime,       \* bound: the clock
          MaxSearches,   \* bound: searches one API process serves
          MaxChanges,    \* bound: changes of the surroundings
          MaxAttempts    \* bound: attempts; the run id of an attempt is its number

ASSUME EvidenceAssumption ==
    /\ Commits # {}
    /\ {MaxP95, MaxP99, MaxFailed, MaxTime, MaxSearches, MaxChanges, MaxAttempts} \subseteq Nat
    /\ HttpOutcomes \subseteq [p50 : Nat, p95 : Nat, p99 : Nat, failed : Nat]
    /\ \A h \in HttpOutcomes : h.p50 <= h.p95 /\ h.p95 <= h.p99

VARIABLES clock,      \* wall-clock time the tools stamp their receipts with
          api,        \* the API: build commit, /search requests counted, latencies observed
          world,      \* checkout head, policy, limit source and fixture; database; search generation
          changes,    \* changes made so far
          attempt,    \* the attempt: its number, its step and what the step has read
          sampler,    \* per attempt and sampler: not started, its start time, or ended
          load,       \* the k6 run: its start and when its searches were served
          file,       \* the files the tools left: receipts, scrapes, summary, report
          verdict     \* what the last `check` or `verify` said

evidenceVars == <<clock, api, world, changes, attempt, sampler, load, file, verdict>>

RunIds == 1..MaxAttempts
FixtureRun == 0
Samplers == {"resource", "connections"}
Artifacts == {"binding", "resource", "connections", "k6", "before", "after"}
NoFile == [run |-> "none"]
NotStarted == -1
Ended == -2

\* Latency classes of the repository histogram: 1 and 2 are finite buckets, 3 is +Inf.
Classes == 1..3
Started(c) == [commit |-> c, http |-> 0, seen |-> [k \in Classes |-> 0]]
Cumulative(seen) == [k \in Classes |->
    IF k = 1 THEN seen[1] ELSE IF k = 2 THEN seen[1] + seen[2] ELSE seen[1] + seen[2] + seen[3]]
Searches == Cumulative(api.seen)[3]

NoLoad == [start |-> NotStarted, times |-> {}]
Stage(step) == attempt.at = step
Goto(step) == attempt' = [attempt EXCEPT !.at = step]

EvidenceInit ==
    /\ clock = 0 /\ changes = 0
    /\ \E c \in Commits :
         /\ api = Started(c)
         /\ world = [head |-> c, policy |-> 0, source |-> 0, fixture |-> 0, data |-> 0, generation |-> 0]
    /\ attempt = [no |-> 1, at |-> "binding", read |-> <<>>]
    /\ sampler = [r \in RunIds |-> [s \in Samplers |-> NotStarted]] /\ load = NoLoad
    /\ file = [a \in Artifacts \cup {"report"} |-> NoFile]
    /\ verdict = <<"none", "none">>

(***************************************************************************)
(* The surroundings: a rollout or restart of the API (its counters start   *)
(* again), a checkout, an edited policy or source, a regenerated fixture,  *)
(* a write to the database, a new search generation                        *)
(***************************************************************************)

Tick ==
    /\ clock < MaxTime /\ \E r \in RunIds, s \in Samplers : sampler[r][s] >= 0
    /\ clock' = clock + 1
    /\ UNCHANGED <<api, world, changes, attempt, sampler, load, file, verdict>>

Redeploy(c) == api' = Started(c) /\ UNCHANGED world
ChangeOf(field, value) == world' = [world EXCEPT ![field] = value] /\ UNCHANGED api
Surroundings ==
    /\ changes < MaxChanges /\ changes' = changes + 1
    /\ \/ \E c \in Commits : Redeploy(c)
       \/ \E c \in Commits \ {world.head} : ChangeOf("head", c)
       \/ \E f \in {"policy", "source", "fixture", "data", "generation"} : ChangeOf(f, world[f] + 1)
    /\ UNCHANGED <<clock, attempt, sampler, load, file, verdict>>

\* One /search request: the repository observes its latency, later the HTTP
\* middleware counts the request; a scrape may fall between the two.
SearchObserved(k) ==
    /\ attempt.at \in {"before", "load", "after"}
    /\ Searches < MaxSearches /\ Searches = api.http
    /\ api' = [api EXCEPT !.seen[k] = @ + 1]
    /\ load' = IF load.start >= 0 THEN [load EXCEPT !.times = @ \cup {clock}] ELSE load
    /\ UNCHANGED <<clock, world, changes, attempt, sampler, file, verdict>>
SearchCounted ==
    /\ api.http < Searches
    /\ api' = [api EXCEPT !.http = @ + 1]
    /\ UNCHANGED <<clock, world, changes, attempt, sampler, load, file, verdict>>

(***************************************************************************)
(* The live binding (api_runtime_live_binding.py): each read is a command  *)
(* of its own                                                              *)
(***************************************************************************)

CaptureStart ==
    /\ Stage("binding")
    /\ attempt' = [attempt EXCEPT !.at = "rows",
                     !.read = [head |-> world.head, source |-> world.source, fixture |-> world.fixture,
                               generation |-> NotStarted]]
    /\ verdict' = <<"none", "none">>
    /\ UNCHANGED <<clock, api, world, changes, sampler, load, file>>

CaptureRows ==
    /\ Stage("rows") /\ world.data = attempt.read.fixture
    /\ Goto("generation")
    /\ UNCHANGED <<clock, api, world, changes, sampler, load, file, verdict>>

\* The one active generation; its projections are compared with the fixture's rows.
CaptureGeneration ==
    /\ Stage("generation")
    /\ attempt' = [attempt EXCEPT !.at = "api", !.read.generation = world.generation]
    /\ UNCHANGED <<clock, api, world, changes, sampler, load, file, verdict>>

\* build_info must be the head read first, and /search must answer from the generation read before.
CaptureApi ==
    /\ Stage("api")
    /\ api.commit = attempt.read.head /\ world.generation = attempt.read.generation
    /\ file' = [file EXCEPT !["binding"] =
          [run |-> attempt.no, head |-> attempt.read.head, commit |-> api.commit,
           source |-> attempt.read.source, fixture |-> attempt.read.fixture,
           rows |-> attempt.read.fixture]]
    /\ attempt' = [attempt EXCEPT !.at = "before", !.read = <<>>]
    /\ UNCHANGED <<clock, api, world, changes, sampler, load, verdict>>

(***************************************************************************)
(* The scrapes, the samplers (container_resource_sampler.py,               *)
(* postgres_connection_sampler.py) and the load (api_runtime_k6.js)        *)
(***************************************************************************)

Scrape == [run |-> "scrape", commit |-> api.commit, http |-> api.http, hist |-> Cumulative(api.seen)]
ScrapeBefore ==
    /\ Stage("before")
    /\ file' = [file EXCEPT !["before"] = Scrape]
    /\ Goto("load")
    /\ UNCHANGED <<clock, api, world, changes, sampler, load, verdict>>

\* A background sampler gets going: before, during or after the load.
SamplerStart(s) ==
    /\ attempt.at = "load" /\ sampler[attempt.no][s] = NotStarted
    /\ sampler' = [sampler EXCEPT ![attempt.no][s] = clock]
    /\ UNCHANGED <<clock, api, world, changes, attempt, load, file, verdict>>

SamplerReceipt(r, start) == [run |-> r, start |-> start, finish |-> clock]

\* The loop ends when its duration is over; an empty wall-clock interval writes no receipt.
SamplerFinish(r, s) ==
    /\ sampler[r][s] >= 0 /\ clock > sampler[r][s]
    /\ sampler' = [sampler EXCEPT ![r][s] = Ended]
    /\ file' = [file EXCEPT ![s] = SamplerReceipt(r, sampler[r][s])]
    /\ UNCHANGED <<clock, api, world, changes, attempt, load, verdict>>

LoadStart ==
    /\ Stage("load") /\ load = NoLoad
    /\ load' = [start |-> clock, times |-> {}]
    /\ UNCHANGED <<clock, api, world, changes, attempt, sampler, file, verdict>>

LoadFinish(h) ==
    /\ load.start >= 0 /\ clock > load.start
    /\ file' = [file EXCEPT !["k6"] =
          [run |-> attempt.no, start |-> load.start, finish |-> clock, fixture |-> world.fixture,
           http |-> h, requests |-> Cardinality(load.times), times |-> load.times]]
    /\ load' = NoLoad /\ Goto("wait")
    /\ UNCHANGED <<clock, api, world, changes, sampler, verdict>>

\* The script waits for both samplers before the second scrape.
WaitSamplers ==
    /\ Stage("wait") /\ \A s \in Samplers : sampler[attempt.no][s] = Ended
    /\ Goto("after")
    /\ UNCHANGED <<clock, api, world, changes, sampler, load, file, verdict>>

ScrapeAfter ==
    /\ Stage("after")
    /\ file' = [file EXCEPT !["after"] = Scrape]
    /\ Goto("check")
    /\ UNCHANGED <<clock, api, world, changes, sampler, load, verdict>>

\* A command failed or the job was cancelled: the next attempt works in the same
\* directory, beside samplers of this one that still run.  The files that it
\* writes anew before it reads them are forgotten.
GiveUp ==
    /\ attempt.no < MaxAttempts /\ attempt.at \in {"load", "wait", "done"}
    /\ attempt' = [no |-> attempt.no + 1, at |-> "binding", read |-> <<>>]
    /\ load' = NoLoad /\ verdict' = <<"none", "none">>
    /\ file' = [a \in DOMAIN file |-> IF a \in Samplers \cup {"report"} THEN file[a] ELSE NoFile]
    /\ UNCHANGED <<clock, api, world, changes, sampler>>

(***************************************************************************)
(* check: the report                                                       *)
(***************************************************************************)

\* The budgets of the performance policy (measurements.api_runtime).
Thresholds == [p95 |-> MaxP95, p99 |-> MaxP99, failed |-> MaxFailed]
ThresholdFailures(h) == {m \in DOMAIN Thresholds : h[m] > Thresholds[m]}

Window(f) == f.start < f.finish
CoversStart(receipt, window) == receipt.start <= window.start
Covers(receipt, window) == receipt.start <= window.start /\ receipt.finish >= window.finish

\* histogram_delta refuses buckets and totals that went down.
DeltaValid(before, after) == \A k \in Classes : after[k] >= before[k]
HistogramDelta(before, after) == [k \in Classes |-> after[k] - before[k]]

\* histogram_quantile_ms: the first bucket whose count reaches percent% of the
\* total, and the place inside it; classes are 100 units wide.
QuantileClass(delta, percent) ==
    CHOOSE k \in Classes : /\ 100 * delta[k] >= percent * delta[3]
                           /\ \A j \in 1..(k - 1) : 100 * delta[j] < percent * delta[3]
Quantile(delta, percent) ==
    LET k == QuantileClass(delta, percent)
        lower == IF k = 1 THEN 0 ELSE delta[k - 1]
    IN  100 * (k - 1) + (IF delta[k] = lower THEN 100
                         ELSE (percent * delta[3] - 100 * lower) \div (delta[k] - lower))
Finite(delta) == \A percent \in {50, 95, 99} : QuantileClass(delta, percent) < 3

\* What binds the receipts and the summary to one run on this checkout.
FixtureCurrent(fixture) == fixture = world.fixture
BindingValid(b) == b.rows = b.fixture
BindingCurrent(b) ==
    /\ BindingValid(b)
    /\ b.head = world.head /\ b.commit = world.head
    /\ FixtureCurrent(b.fixture) /\ b.source = world.source
ReceiptsBound(f) == \A s \in Samplers : f[s].run = f["binding"].run /\ Window(f[s])
WorkloadBound(k, b) == k.run = b.run /\ Window(k)
LoadMeasured(k) == k.requests > 0
RunBound(f) ==
    /\ BindingCurrent(f["binding"]) /\ ReceiptsBound(f)
    /\ WorkloadBound(f["k6"], f["binding"]) /\ FixtureCurrent(f["k6"].fixture)
    /\ \A s \in Samplers : Covers(f[s], f["k6"])
    /\ LoadMeasured(f["k6"])

\* What binds the two scrapes to one build, and the HTTP counter to the histogram.
ScrapesOfOneBuild(p, q) ==
    /\ p.commit = q.commit /\ p.commit = world.head
    /\ q.http >= p.http
    /\ DeltaValid(p.hist, q.hist)
ScrapesBoundWithoutCount(f) ==
    /\ ScrapesOfOneBuild(f["before"], f["after"])
    /\ LET d == HistogramDelta(f["before"].hist, f["after"].hist) IN d[3] > 0 /\ Finite(d)
ScrapesBound(f) ==
    /\ ScrapesOfOneBuild(f["before"], f["after"])
    /\ LET d == HistogramDelta(f["before"].hist, f["after"].hist) IN
       d[3] > 0 /\ d[3] = f["after"].http - f["before"].http /\ Finite(d)

Report(f) ==
    LET d == HistogramDelta(f["before"].hist, f["after"].hist)
        k == f["k6"]
    IN  [run |-> f["binding"].run, binding |-> f["binding"],
         head |-> world.head, measured |-> f["before"].commit,
         policy |-> world.policy, fixture |-> world.fixture,
         resource |-> f["resource"], connections |-> f["connections"],
         window |-> [start |-> k.start, finish |-> k.finish, run |-> k.run],
         http |-> k.http, requests |-> k.requests, times |-> k.times,
         expected |-> f["after"].http - f["before"].http, queries |-> d[3],
         db |-> [c \in {50, 95, 99} |-> Quantile(d, c)],
         failures |-> ThresholdFailures(k.http),
         status |-> IF ThresholdFailures(k.http) = {} THEN "pass" ELSE "fail"]

AssembleFails(f) == ~RunBound(f) \/ ~ScrapesBound(f)

\* A contradiction is an error: it writes no report and leaves an older one alone.
Check ==
    /\ Stage("check") /\ \A a \in Artifacts : file[a] # NoFile
    /\ \/ /\ AssembleFails(file)
          /\ verdict' = <<"check", "error">> /\ Goto("done") /\ UNCHANGED file
       \/ /\ ~AssembleFails(file)
          /\ file' = [file EXCEPT !["report"] = Report(file)]
          /\ verdict' = <<"check", Report(file).status>>
          /\ Goto(IF Report(file).status = "pass" THEN "verify" ELSE "done")
    /\ UNCHANGED <<clock, api, world, changes, sampler, load>>

(***************************************************************************)
(* verify: the report against the checkout of the day                      *)
(***************************************************************************)

ReportCurrent(r) ==
    /\ r.head = world.head /\ r.measured = world.head
    /\ r.policy = world.policy /\ FixtureCurrent(r.fixture)
    /\ BindingValid(r.binding)
    /\ r.binding.head = world.head /\ FixtureCurrent(r.binding.fixture)
    /\ r.binding.source = world.source

Ordered(p, q, r) == p <= q /\ q <= r
ReportConsistent(r) ==
    /\ r.window.run = r.binding.run /\ Window(r.window)
    /\ Ordered(r.http.p50, r.http.p95, r.http.p99) /\ r.requests >= 1
    /\ Ordered(r.db[50], r.db[95], r.db[99])
    /\ r.expected >= 1 /\ r.expected = r.queries
    /\ \A receipt \in {r.resource, r.connections} :
         receipt.run = r.binding.run /\ Window(receipt) /\ Covers(receipt, r.window)
    /\ r.failures = ThresholdFailures(r.http)
    /\ r.status = IF r.failures = {} THEN "pass" ELSE "fail"

VerifyAccepts(r) == ReportCurrent(r) /\ ReportConsistent(r) /\ r.status = "pass"

Verify ==
    /\ Stage("verify")
    /\ verdict' = <<"verify", IF VerifyAccepts(file["report"]) THEN "pass" ELSE "error">>
    /\ Goto("done")
    /\ UNCHANGED <<clock, api, world, changes, sampler, load, file>>

(***************************************************************************)
(* The regression fixture: six consistent files that breach the budgets    *)
(***************************************************************************)

Breached == [p50 |-> 2 * MaxP95, p95 |-> 4 * MaxP95 + 1, p99 |-> 4 * MaxP99 + 1, failed |-> MaxFailed + 1]
RegressionFiles ==
    [a \in Artifacts |->
        CASE a = "k6" -> [run |-> FixtureRun, start |-> 1, finish |-> 2, fixture |-> world.fixture,
                          http |-> Breached, requests |-> 3, times |-> {}]
          [] a = "before" -> [commit |-> world.head, http |-> 0, hist |-> <<0, 0, 0>>]
          [] a = "after" -> [commit |-> world.head, http |-> 1, hist |-> <<0, 1, 1>>]
          [] a = "binding" -> [run |-> FixtureRun, head |-> world.head, commit |-> world.head,
                               source |-> world.source, fixture |-> world.fixture,
                               rows |-> world.fixture]
          [] OTHER -> [run |-> FixtureRun, start |-> 0, finish |-> 3]]

\* The workflow checks the fixture's files first and demands exit code 2 with a report.
RegressionCheck ==
    /\ Stage("binding")
    /\ verdict' = <<"regression", IF AssembleFails(RegressionFiles) THEN "error"
                                  ELSE Report(RegressionFiles).status>>
    /\ verdict # verdict'
    /\ UNCHANGED <<clock, api, world, changes, attempt, sampler, load, file>>

EvidenceSteps ==
    \/ Tick \/ GiveUp \/ RegressionCheck
    \/ \E k \in Classes : SearchObserved(k)
    \/ SearchCounted
    \/ CaptureStart \/ CaptureRows \/ CaptureGeneration \/ CaptureApi
    \/ \E s \in Samplers : SamplerStart(s) \/ \E r \in RunIds : SamplerFinish(r, s)
    \/ LoadStart \/ \E h \in HttpOutcomes : LoadFinish(h)
    \/ WaitSamplers \/ ScrapeBefore \/ ScrapeAfter
    \/ Check \/ Verify

EvidenceNext == EvidenceSteps \/ Surroundings

EvidenceSpec == EvidenceInit /\ [][EvidenceNext]_evidenceVars

(***************************************************************************)
(* Properties                                                              *)
(***************************************************************************)

\* A passing report is about a real load: every search k6 timed was served
\* while both samplers of that very attempt were sampling, on the build the
\* report names, within the budgets.  A late receipt of a sampler that
\* outlived its attempt, or a sampler that came too late, never adds up to a
\* pass, and the regression fixture is always refused by its budgets alone
\* (assemble_report, render_regression_fixture).
PassIsEarned ==
    /\ LET r == file["report"] IN
       r # NoFile /\ r.status = "pass" =>
         /\ r.times # {}
         /\ \A t \in r.times, receipt \in {r.resource, r.connections} :
              receipt.run = r.run /\ receipt.start <= t /\ t <= receipt.finish
         /\ r.binding.commit = r.head /\ r.measured = r.head
         /\ r.http.p95 <= MaxP95 /\ r.http.failed <= MaxFailed
    /\ verdict[1] = "regression" => verdict[2] = "fail"

\* check and verify agree: as long as checkout, policy, source and fixture
\* stay as they were, verify accepts exactly the reports that check passed
\* (_validate_complete_report recomputes what assemble_report concluded).
VerifyAgrees ==
    LET r == file["report"] IN
    r # NoFile /\ ReportCurrent(r) => (VerifyAccepts(r) <=> r.status = "pass")

\* Both, of every report.
VerdictIsSound == PassIsEarned /\ VerifyAgrees

=============================================================================
