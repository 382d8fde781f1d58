# Verification of weltgewebe

This directory holds TLA+ models of the parts of weltgewebe in which several
processes work on the same state or one process may be cut off in the middle of
its work. On the side of the API these are the domain event chain, the federation
of two cells, the process-local projection of the domain tables, web push and the
file-based delete of a node; on the side of the Python tooling the platform proofs
and the staging cell, the tools for images, evidence and production checks, and the
review gate and the agent tools. TLC checks them on small instances; TLAPS proves
most of the safety properties for every instance. `PROJECT.json`
maps each definition to the lines it models and lists runs, mutants, findings,
hazards and theorems. Paths below are relative to the repository; `api/` stands for
`apps/api/src/`.

## The system

weltgewebe is a map-based community platform. A *cell* is a PostgreSQL database,
a NATS JetStream server, any number of identical API instances (Rust, axum,
tokio) and a Svelte front end. Everything canonical is in PostgreSQL; instances
hold caches and run background loops. Cells federate over HTTP.

| Component | State it keeps | Operations | Talks to |
|---|---|---|---|
| domain event chain (`api/outbox.rs`, migration `20260716000001`) | `domain_outbox`, `domain_event_consumptions`, the stream `WELTGEWEBE_DOMAIN` | trigger insert, claim, publish, mark published/failed, requeue, consume, record receipt, acknowledge | every domain write (trigger); JetStream |
| federation delivery (`api/federation.rs`, `api/federation_delivery.rs`) | `federation_outbox`, `federation_objects`, `federation_delivery_attempts`, `federation_peer_relationships` | publish an object version, install a peer, reconcile endpoints and backfill, claim/post/finalise a delivery, expire | the receiving cell's `/federation/v1/events` |
| federation inbox (`api/federation.rs`) | `federation_inbox` and receipts, `federation_objects`, `federation_quarantine`, peer policy | verify, accept, quarantine, answer a duplicate, rate-limit | the sending cell |
| domain projection (`api/state.rs`, `api/middleware/domain_projection.rs`, `api/domain_db.rs`) | caches of accounts, nodes and edges, loaded generation, a read/write gate | compare generations, reload, install, write through | every request; the generation counter of the trigger |
| governance (`api/governance.rs`) | proposals, vetoes, votes, messages | propose, veto, vote, withdraw, repeal, finalise at the deadline, guest exit | accounts, projection, node locks |
| web push (`api/notifications.rs`) | subscriptions, preferences, `web_push_deliveries` | fan out, claim, send, finish | the event stream, push services |
| search (`api/search/`) | node versions, jobs, generations, projections | start a generation, claim a job, upsert/delete, finish, activate | domain triggers, an embedding service |
| authentication (`api/auth/`, `api/routes/auth.rs`) | sessions, one-time records, passkeys, rate counters | request and consume magic links, step up, passkey ceremonies, refresh and revoke | mailer, accounts |
| node, edge and account writes (`api/routes/`) | domain tables, or JSONL files with a delete journal | create, patch, replace, delete, compensate | projection, advisory locks |
| conversations (`api/routes/conversations.rs`) | conversations and messages | open, post, edit, delete | nodes, notifications |
| kind clusters and the reference proof (`scripts/platform/kind_reference.py`) | a marker and a lock file per cluster name, receipts | create with rollback, prove, delete, down | kind, Kubernetes, Flux |
| staging cell (`scripts/platform/staging_cell.py`) | receipt, credential, retained data of PostgreSQL and NATS | up, down, status | the same clusters and markers |
| high availability proof (`scripts/platform/ha_reference.py`) | primary and restore cluster, object store, archive | prove, fail over, back up, retire, restore, down | the same clusters, Docker |
| availability observer (`scripts/platform/ha_availability.py`) | samples of a thread | sample, mark the failure, summarise | the proof above |
| OCI mirror and proof identity (`publish_oci_mirror.py`, `oci_proof_mirror.py`, `proof_identity.py`) | registry tags, provenance, local Docker tags, reusable proof | publish, load, verify, record, reuse | registry, Docker, kind |
| Dockerfile control (`controlled_oci_dockerfile`) | none | read, check, rewrite | the image lock |
| tool bootstrap (`bootstrap_tools.py`) | a cache of archives and binaries | download, extract, install, check | |
| performance evidence (`scripts/performance/`) | six evidence files, a report; a fixture directory | bind, scrape, sample, check, verify; generate, load, check plans | the API, k6, PostgreSQL |
| production evidence (`scripts/ops/`) | receipts and reports | verify a release, collect evidence, check live | the public site |
| environment reconciliation (`scripts/ops/`) | the environment file, its lock and backups | plan, apply, add a push identity | |
| review gate (`scripts/quality/review_governance.py`) | a commit status | evaluate a pull request twice | the forge |
| agent runner and hand-off checks (`scripts/agent/`) | evidence bundles | dry run, guard, preflight, validate | the working tree |
| hybrid ranking (`scripts/search/`) | none | rank by lexical signals and one neighbour | an embedding provider |
| front end, documentation and CI validators | none shared | | |

Where it is hard: leases that run out while their holder still works; commits of
other instances between two queries; READ COMMITTED transactions that read each
other's tables without a common lock; answers that arrive after their sender has
given up; a process that dies between two effects; attempts and back-offs at
their limits; loops that must not starve a row. In the tooling: locks and markers
that do not cover what they name; two commands that must have seen the same thing;
files that are replaced one by one but mean something only together; a check at the
start whose answer is used at the end; cleanup after a death at any step.
`PROJECT.json` lists these hazards at their lines, with the properties that cover
them.

What makes each part correct:

* event chain: no committed event is lost or invented, publication is recorded
  only for stored events, the effect at the consumer happens once, no event stays
  pending for ever;
* federation: the remote cell holds a prefix of every object's history, a
  confirmation is true and final, policy is never mixed from two configurations,
  attempts are bounded, leases exclude;
* projection: equal generations mean equal rows, no request reads what is older
  than its arrival, a reload installs one generation and never under a running
  request, requests end;
* web push: a delivery is settled once and for a reason, and tried no more often
  than the limit and the lapsed leases allow;
* node delete in files: a node goes with all its Fäden or not at all, wherever it
  is cut off;
* platform: whose a cluster is can be seen at any time, nobody deletes what is not
  his, a cleanup receipt is true, retained data keep their credential, nothing is
  retired before it is archived;
* image and evidence tools: what a receipt, report, bundle or reused proof says is
  true of one state of the world, and of the one it names;
* review gate: a status that allows the merge is true of the pull request as it is;
* environment file: a replacement is the approved one, applied to the file it was
  approved for;
* the parts that are not modelled: a proposal is decided once and after its
  deadline; a search projection is never newer or older than its job's version; a
  one-time record is consumed once; lock orders are acyclic.

## Modules

```
EventChain            what the event chain promises
DomainOutbox          table, relays, stream, consumers          implements EventChain
OutboxFailures        DomainOutbox with a count of real failures
FederationEvents      objects, versions, scopes
FederationDelivery    the sending cell
FederationInbox       the receiving cell
Federation            both cells and the network                implements FederatedHistory
FederatedHistory      what federation promises
DomainProjection      one instance, the database, the other instances' commits
KindCluster           markers, locks, creation and deletion of clusters
KindReference         the reference proof                       extends KindCluster
StagingCell           up, down, status                          extends KindCluster
HaReference           the high availability proof               extends KindCluster
PlatformHost          all three on one host, with crashes
HaAvailability        the sampling thread and its summary
OciPublisher          the mirror and its provenance
ProofMirror           local images and reusable proofs
OciDockerfile         which Dockerfiles a proof may build
OciImages             the three, from the mirror to the build   extends all three
ToolBootstrap         installers of one tool cache
ScaleFixture          the benchmark fixture
RuntimeEvidence       the evidence of a load run
PublicProduction      the public site and its three observers
EnvReconcile          two tools that replace one environment file
ReviewGovernance      the review gate and its jobs
TaskContract          tasks, scopes, claims and hand-offs
AgentRun              dry runs and their bundles                extends TaskContract
HandoffReview         three tools on one hand-off               extends TaskContract
HybridRanking         one ranking and a provider that changes
NodeDeleteJournal     the file-based delete of a node
WebPush               hints for private messages
MC...                 small instances for TLC
...Proofs             theorems: DomainOutbox, DomainProjection, Federation,
                      PlatformHost, ReviewGovernance; ApiProofs (WebPush,
                      NodeDeleteJournal), AgentProofs (AgentRun, HandoffReview),
                      ToolsProofs (ToolBootstrap, ScaleFixture, EnvReconcile,
                      PublicProduction, RuntimeEvidence, OciImages,
                      HybridRanking, HaAvailability)
```

A definition whose comment begins with "Mutant of" changes the definition it
names the way a plausible bug would. No specification uses it; `PROJECT.json`
pairs it with the property that notices it.

### DomainOutbox

`rows`, `published`, `quarantined`, `attempts`, `due` and `older` are the columns
of `domain_outbox`: `available_at` is kept as "has passed" (`due`) and as the
order among due rows (`older`). `batch` and `relay` are the local variables of
`relay_loop`, `copies`, `window` and `late` the stream, `consumer`, `receipts`
and `acked` the durable consumer and its table.

* `CommitWrite`: the trigger. The new row may sort before rows committed
  earlier, because `available_at` is the start of its transaction.
* `claim_pending`: the first `BatchSize` due rows, attempt counted, lease set, in
  one statement. `SKIP LOCKED` is not visible: claims are single statements.
* `PublishOk`, `PublishErr`, `LateStore`: a publish that fails may still be
  stored later; the stream drops a repetition inside its duplicate window, which
  `WindowEnds` ends.
* `mark_published`, `mark_failed`, `requeue_quarantined`: the UPDATE statements
  with their different guards; the attempt that decides is the claim's, not the
  row's.
* `Receive`, `record_consumed_once`, `Ack`, and the faults `MarkFault`,
  `RelayCrash`, `ConsumerFault`.
* `Elapse` ends a lease or a retry delay; the code's delays are not compared with
  each other, so a lease may run out before its relay has done anything. One lease
  covers a batch that is published one event after the other, so this is a real
  behaviour and not only a generous abstraction.

Left out: the content of envelopes (a malformed message is never acknowledged, as
`ConsumerFault`), stream set-up, `max_age` of 30 days, the back-off formula.

### Federation

One target cell: every statement on `federation_delivery_attempts` filters by
`target_cell_id`. An event is the pair of object and version, because
`persist_local` admits exactly the next version.

* `enqueue_delivery_targets`, `persist_local`, `PublishAbort`: publishing in two
  steps, the snapshot of the relationships and the commit. Transactions are READ
  COMMITTED and publishing takes no lock that a start takes, except the foreign
  key of a reservation.
* `install_peer`, `ReconcileBegin`, `reconcile_delivery_endpoints`, `BootCrash`:
  the start of an instance (`runtime_router`), again with the snapshot of the
  backfill as a step of its own.
* `expire_exhausted_deliveries`, `claim_due_delivery`, `EndBatch`,
  `load_delivery_context`, `post_event_fails`, `finalize_decision`: the worker.
  `classify_response` and `Retry` reach the decision, which is written later and
  only if the claim still holds.
* `BackoffEnds`, `LeaseEnds`, `LeaseOverrun`: time. The lease is longer than the
  request timeout, so running over it counts as a fault.
* `accept_verified` in `FederationInbox`: one step, because the transaction locks
  the peer row, the event and the object. Rate limits and server errors are the
  outcome `unavailable`; trimming of the quarantine is any subset.
* `receive_event`, `receive_late`, `ForeignAnswer`: the network. `late` holds
  events of abandoned requests; the receiver may handle such a request any number
  of times, as there is one for each abandoned attempt.

Left out: signatures and document checks (events are the origin's own and
verified), key rotation, the branches of `load_delivery_context` that handle a
row changed by hand, several targets.

### DomainProjection

One instance; the others appear as `CommitElsewhere`, since instances share only
the database. `gen` is `domain_projection_state.version`, `rows[g]` the tables
after commit `g`, a cell's content the generation that wrote it last. Accounts
have two cells, profile and role, since the sweep changes the role only.

* `Arrive`, `Compare`, `AcquireWrite`, `Recheck`, `LoadBegin`, `LoadTable`,
  `LoadEnd`, `Install`: `refresh_domain_projection_if_stale` and
  `load_stable_domain_projection_from_postgres`, one action per await.
* `AcquireRead`, `CommitWrite`, `ReadCanonical`, `WriteThrough`, `Finish`,
  `Cancel`: a handler under the read guard of `ensure_current_domain_projection`.
  A future may be dropped at any await, also between commit and write-through.
* `finalize_due_proposals`, `apply_promotions_to_store`: the sweep, which does not
  take the gate. `Restart` is the first load of `run`.

Wider than the code: every handler may write through the row it committed as a
whole or only the fields it changed, and the mutex `nodes_persist`, which orders
some node writes of one instance, is left out: the properties hold without it.
One commit advances the generation by one, although the trigger counts rows:
nobody sees the numbers between two commits.

### WebPush

`delivery` is the table `web_push_deliveries` with one row per hint and device,
`device` the subscriptions, `wanted` the preference. `claim_deliveries`,
`send_private_message_hint` and `finish_delivery` are the loop of an instance;
`LeaseLapses` makes a row claimable while its owner still works, and the owner's
late result is then checked against the status only, as in the code. Requests that
register, refresh, disable or opt out are transactions of two steps, because they
and `finish_delivery` lock device and delivery in opposite orders; of two that wait
for each other PostgreSQL fails one. A late "gone" may disable a device that was
refreshed meanwhile; the property does not forbid it.

Left out: encryption and endpoint checks, lists, and deletions that cascade from
accounts and events. The run claims one row at a time: in a larger batch the later
rows only wait, and a lease may lapse at any moment anyway.

### NodeDeleteJournal

`disk` has the two files, their rewritten and set-aside versions and the journal;
`DeleteNode` and the stages after it are the delete, `Recovering` the start
of the process. A step may fail without an effect or, when only the sync of the
directory fails, after it. The promise has three exceptions, which the comment on
`DeleteIsAtomic` names; they are states the code really reaches, and the model
keeps them apart (`exposed`, `undone`) and does not hide them. Ids are created
once; the audit files are left out.

### The platform

`KindCluster` has the host (`cluster`, `inside`), the markers and locks of every
site, and the steps of creating and deleting under the lock; the tools extend it
with their phases. A site is a directory of markers together with a cluster name,
so two work trees are two sites of one name. A phase that waits for kind,
Kubernetes, Flux or Docker succeeds on the cluster the kubeconfig points to or
fails; nothing is assumed of the order in which Flux or the archive get ready.
`Crash` kills an invocation anywhere and releases its locks; its clusters,
containers, receipts and files stay. `LoseSecret` and `LoseReceipt` are the losses
of files that `staging_cell.py` tests for. The high availability proof keeps its
mutations as the only data: what is in the primary, in the archive and in the
restored cluster is compared by set. Left out: manifests, image names, probes of
single pods.

### The tools

Each module has the files or external objects the tool works on, the local
variables of every invocation, and one action per step at which somebody else can
come between. What the tools read of the world (a checkout, a site, a registry, a
pull request, a provider) is a version that may change between any two reads. Where
a tool takes no lock or reads twice, the model has the same gap; where a property
cannot hold because of it, the exception is a variable with a name (`raced`,
`foreign`, `blind`, `steady`) and in the comment of the property.

`TaskContract`, `HandoffReview` and `OciDockerfile` model pure functions: the
inputs are chosen in the initial state or line by line, and the property relates
the answers to a definition of their own, or three tools to one another.

## Runs

| Run | Shows |
|---|---|
| `outbox_races` | two relays, two consumers, one event, a requeue, two faults, two copies: `OutboxIsSound` (no row both published and quarantined, receipt before acknowledgement, receipts only for committed events), published only if stored, no quarantine before `MaxAttempts` claims, published is final |
| `outbox_progress` | one relay with batches of one and two events that compete: each is settled, each stored one received, although publishing may fail for ever; DomainOutbox implements EventChain, fairness included |
| `outbox_failures` (violation) | an event is quarantined after one failed publish: the attempts are claims, not failures |
| `federation_ordered` | two workers, two starting instances, two versions, two faults: `DeliveryIsSound` (prefix, true confirmations, bounded attempts), order without gaps, leases; Federation implements FederatedHistory |
| `federation_policies` | three configurations, three receiver policies, a crash: policy, delivered is final, every reserved event is settled or held back by a dead version |
| `federation_gaps` (violation) | publishing and reconciliation miss each other: version 2 is posted, version 1 was never reserved |
| `projection_races` | two interchangeable requests, three commits, two attempts of a reload: `ProjectionIsSound` (exactness), no stale reads, one generation at a time, no replacement under a request |
| `projection_progress` | all requests end |
| `projection_mixture` (violation) | a running request finds rows of two generations |
| `platform` | three invocations of the platform tools by two owners, with crashes: see below |
| `platform_worktrees` (violation) | the rollback in one work tree deletes the cluster of the other |
| `tools` | sixteen tools, one in each behaviour: see below |

`platform` checks that a cluster is marked with its creator's binding and that a
receipt rests on its own cluster (`ClustersAreOwned`); that nobody removes another
one's cluster or object store (`NoForeignDelete`); that a `down` that returns 0
left nothing (`CleanupReceiptIsTrue`); that a primary is retired only when its
mutations are archived (`RetirementLosesNothing`); and for the staging cell that
retained data keep their credential (`SecretNeverReplaced`), that a cell keeps
owner, commit and credential (`CellIsPinned`) and that "ready" is said only of a
cell whose database accepts the injected credential (`ReadyIsUsable`).

`tools` checks:

| Property | Shows |
|---|---|
| `BundleIsSound` | a bundle is complete, also after a power loss, and describes one state of the working tree |
| `ReviewIsSound` | what the validator accepts is earned, and the three agent tools agree where they overlap |
| `FixtureIsOneProfile` | an accepted fixture is of the manifest's own profile, although generators overlap |
| `VerdictIsSound` | a passing report rests on evidence of one attempt, one commit, one API; verify agrees with check |
| `ReportsAreSound` | backups called restorable are; three observers of an unchanged site agree |
| `UpdatesAreKept`, `ReconciledIsReady` | the environment file changes only by approved plans for exactly that file, and passes the readiness check |
| `ImagesAreControlled` | provenance is stored, a reused proof is bound to its inputs, an accepted Dockerfile builds on locked images |
| `ToolsAreLocked` | a tool receipt stands for the locked binary |
| `ReportIsHonest` | outages longer than an interval and a probe are seen; recovery times bracket real ones |
| `GateIsCurrent` | a success on the current head has its evidence once no job runs |
| `RankingIsSound` | only authorised candidates, lexical order, at most one neighbour, vectors of one model |
| `DeleteIsAtomic` | a node goes with all its Fäden or not at all |
| `PushIsSound` | a delivery is settled once, for a reason, in bounded attempts |

The bounds are the smallest at which each interesting case happens. Two attempts
are enough for first, last and one-too-many; two relays or workers for a stale and
a current claimant; two versions for an order; two copies for a duplicate that
outlives its window; three generations for a reload with two attempts, each
overtaken by a commit, so that one run has retries that succeed and some that give
up. `projection_progress` needs one commit only: a second one adds no new way of
waiting. In the runs of the API core a bound is a guard (`MaxFaults`, `MaxBoots`,
`MaxRequeues`, `MaxCopies`, `MaxGen`, `MaxVersion`) and never a state constraint,
and TLC checks for deadlock except in the outbox runs: there all events may be
settled and nothing is left to do.

`platform` and `tools` check safety only, switch the deadlock check off because
tools end, and leave combinations out, in definitions of the MC modules:

* `platform` (`OneToolSpec`): tools whose sites have names of their own share
  nothing, so the invocations of a behaviour that overlap belong to one family; at
  most two of them are of the high availability tool, one of which has left its
  primary; commits differ only for the staging cell, which pins one. `OthersRest`:
  while a proof fills its own cluster, the others rest. Invocations and owners are
  symmetric. Two invocations are enough for a claimant and an intruder, the third
  for the one that cleans up.
* `tools` (`ToolsInit`, `Bounded`): the tools share no state, so each behaviour is
  one of one tool and the others keep a fixed initial state; the site is split into
  releases (`production`) and backups (`backups`). Edits of the working tree meet
  one dry run, two dry runs meet each other (`RunsApart`); a change of the
  surroundings meets the first attempt of the evidence (`EarlyChange`,
  `ChangesApart`), whose second attempt has searches that are alike
  (`SearchesAlike`); the two samplers start in order (`SamplersInOrder`); a change
  of the site is the first event of its behaviour (`OneChange`) and forgets reports
  it made obsolete (`ReportsSteady`); the environment file and its source are
  replaced at most twice (`FewFiles`). Two of every actor that competes (dry runs,
  generators, reconcilers, installers, checkouts, loops), two attempts where the
  code retries, one lapse, and two mishaps in the delete, so that a rollback or a
  recovery can itself be cut off.

## Fairness

* Outbox: the loops run for ever (`spawn_essential_worker` restarts them), so each
  loop is weakly fair as a whole: it does something, but publishing may fail every
  time. Leases and delays end. Writes, requeues and faults need not happen.
* Federation: a worker is polled for ever and every request ends by its timeout or
  an answer; leases and back-offs end; a started reconciliation and an open
  transaction end. Nothing forces the receiver to accept.
* Projection: a request is polled until it ends. The tokio `RwLock` queues its
  waiters in order, so taking the gate is strongly fair; so are the end of a handler
  and its write-through, since the model lets a handler start again on another write
  for as long as commits last. Cancellation and commits are never assumed.
* The platform and the tools: none. They are started by people and schedules, may be
  killed, and promise nothing but that what they leave behind is true.

## Theorems

All constants are arbitrary under the named assumptions of the modules, which TLC
evaluates in every run. Where a theorem needs more it says so as a hypothesis, and
the text below says what goes wrong without it. Every inductive invariant was
checked by TLC on a small instance before it was proved.

* **DomainOutboxProofs.** Types need `InFlightIsCommitted`: claims, answers and
  late messages belong to committed rows. `OutboxSafe` is inductive only with
  `AnswersAreStored` and `RecordedHasReceipt`: what a relay or a consumer remembers
  between two steps is still true when it acts on it. `QuarantineIsEarned` needs
  `AttemptsAreCounted`: no relay remembers an attempt the row has not counted.
  `OutboxImplementsEventChain` maps every action to a step of the abstract chain or
  to a stutter. `OutboxSound` collects the invariants the run checks as one.
* **FederationProofs.** `TypeInv` adds `EventsArePublished` and
  `ReconcilerIsBooting`. `Arrival` joins the prefix property to `DecisionsAreSound`:
  a decision "delivered" that is not written yet is about an event in the inbox.
  `Tries` adds `InFlightIsOwned`, `ClaimsAreCurrent` and `ExcessIsCharged`, which
  charges each attempt beyond the limit to a fault nobody else has been charged
  with. The refinement to `FederatedHistory` follows from the prefix property.
  `FederationSound` is `DeliveryIsSound` of the run. `FederationPolicyIsRespected`
  follows what a worker decided under one configuration through reconfigurations
  (`Policy`: what is under way, late or arrived was allowed by one of them).
  `FederationInOrder` (`Ordered`: what is under way has all its predecessors in the
  inbox) has two hypotheses. `ReceiverAccepts`: a receiver that refuses an event by
  its own policy quarantines the next version. `[]GapFree`, of the whole history and
  not only of the present: a later reconciliation may close a gap after a later
  version was sent through it, so what the run checks with one configuration does
  not hold for every sequence of configurations.
* **DomainProjectionProofs.** One inductive invariant: `TypeOK`,
  `RowsMoveForward` (between two generations a cell is unchanged or newer than the
  first), `CacheIsRecent` (a cached cell is the loaded generation's or newer than
  it), `GateIsExclusive`, `LoadIsFenced` (what a reload has read is of the
  generation it started from or newer; with an equal generation at the end it is
  exactly that) and `PromotionIsKept` (roles only move up, so a late promotion is
  still the database's).  Exactness is then arithmetic: at equal generations
  nothing can be newer. `ProjectionSound` joins types and exactness.
* **ApiProofs, node delete.** Every state of the two files, their rewrites and their
  backups stands for one pair of files: the backups, as far as there are any, until
  the journal says "node_swapped", the swapped files afterwards. `Fits` says, per
  phase of the journal and step of a delete, a rollback or a recovery, that this
  pair keeps the promise and that the disk holds what the next steps need. A failure
  after the effect is the step followed by the failure, so each is one lemma.
* **ApiProofs, web push.** No single row shows the limit on attempts: a late result
  of a loop that lost its lease can send a delivery back to "retry" while another
  loop sends it. `ClaimsAreDistinct` (an attempt number is claimed once) and
  `AttemptsAreCharged` (attempts are at most the spent numbers below the limit, the
  lapses and the claim that is open) make the count inductive. `PushAssumption` has finite sets of
  hints and devices and a limit above 0.
* **PlatformHostProofs.** Five layers. `Host`: shapes, and every invocation is at a
  step of its own command. `Owned`: between reservation and release an invocation
  holds the lock of its site, and what it read under the lock still holds. `Proven`:
  the invocations of one owner exclude each other. `Celled`: `up` and `down` hold the
  lifecycle lock, so credential file, receipt, cluster and data agree on one
  credential. `Kept` follows what the high availability tool still has: until it
  deletes it the primary and the volume of the object store are its own, and from the
  moment the window closes all its mutations are archived
  (`HostRetirementLosesNothing`); `down` goes through the resources in their order
  and without a failure leaves none behind that carries its binding
  (`HostCleanupReceiptIsTrue`). Hypotheses: `DistinctNames` (no two sites share a cluster name;
  `platform_worktrees` shows `NoForeignDelete` broken without it) and `SeparateSites`
  (each tool has sites of its own, as the constants of the three scripts have).
* **AgentProofs, dry runs.** A run reads the repository in pieces. `Snapshot` is the
  state at the end of the first fingerprint; it lies between that and all that is
  read later, so an equal fingerprint at the end leaves the pieces no room to
  differ. `DiskInv` follows the bundle through staging, rename and power losses.
* **AgentProofs, reviews.** `ReviewVerdictIsSound` is about every task and hand-off
  of the schemas' shape (`ReviewAssumption`), with the hypothesis
  `ForbiddenIsReadable`. Without it the statement is false: `_path_matches_scope`
  (`scripts/agent/validate_handoff.py:84-91`) treats a forbidden scope that does not
  normalise (absolute, empty, with a "." or ".." part) as one that matches nothing,
  so the validator passes over it without a word. In the run all are readable.
* **ToolsProofs, bootstrap and fixture.** A receipt outlives the check of the binary,
  so the invariant starts at the check. Of the fixture's files it says that each is
  whole and of one profile at every moment, as each is renamed into place; row
  counts tell profiles apart, so a manifest that hashed another generator's files
  is refused.
* **ToolsProofs, environment file.** `Sound` says of each place in a tool's course
  it may rely on: the lock, its own temporary file, an approved plan for the file as
  it still is, a backup of that file; the push tool takes no lock, so what it read is
  current only while it has met no other writer (`raced`). The two theorems are about
  any number of tools; `EnvAssumption` keeps their names apart.
* **ToolsProofs, production evidence.** `Calm`: as long as nothing changed under an
  observer, all it has read is true of the site as it is; `SteadyIsTrue` says the
  same of the reports it leaves. `Held` and
  `ProofsAreReal` carry the bytes: a restore proof names a dump that a restore really
  imported, and a collector past the backup still knows which. `ProductionAssumption`
  names the defects the probes can find, and keeps the word for "no commit" out of
  the releases.
* **ToolsProofs, performance evidence.** `FilesAreReal`: each file is what its tool
  can have written (times of a load lie within its window, histograms count). A
  report is consistent by itself, whatever the checkout has become, and that is
  what `verify` recomputes. The arithmetic is proved once (`QuantilesInOrder`): the
  quantile of a histogram difference does not decrease with the percentage, also
  when an API restart left a difference that is not cumulative any more.
* **ToolsProofs, images.** `OciImagesAreControlled` joins three invariants.
  `PublisherInv`: what a thread saw of a tag may no longer be what the tag shows, but
  the bytes it saw are stored. `MirrorInv` follows one proof from the inspection of
  the kind nodes through the two files into the run that reuses it, bound at each
  step to the identity it was made for.
  `DockerfileInv`: aliases, stages and counters of the scanner are those of the
  instructions written so far, each written once, so an accepted base or source is a locked image or a stage
  that began earlier. Hypothesis `OwnLocalNames`: two base images of a lock do not
  share a local name. `controlled_refs` refuses only equal references; the committed
  lock keeps the names apart, and TLC evaluates the hypothesis on the run's locks.
* **ToolsProofs, ranking.** `RankingInv` counts changes: an answer of another model
  than the recorded one needs one change of the provider, the recorded one at the
  second identity after that needs two. So with fewer than two all vectors are of
  the model the generation names. The rest is about lists: `FirstAndSecond` (the
  first of the sorted candidates is nearest, the second nearest of the others),
  `LexicalList` and `OneMoreId` (what is cut off and what is appended), `HybridList`
  (the margin over the second is a margin over everything that is left out). A sort
  is modelled by places, so that these are statements about the place of a candidate.
* **ToolsProofs, availability.** `Timely` and `Spaced`: from one sample to the next,
  and from the last one to the moment the monitor is told to stop, at most an
  interval or a probe timeout passes, because a late sample does not move the due
  times. `Truthful`: a sample says what the service was at some moment within the
  timeout of its probe. An outage of the promised length therefore contains a whole
  probe. That needs a timeout of at least one tick (`AvailabilityAssumption`; the
  code's are 2 to 5 s): with none, a monitor may be stopped in the tick in which the
  sample is due. The loop of `summarize_continuous_availability` is a recursive
  function; `OutageAddsUp` shows that after every sample it has counted all but the
  outage under way.
* **ReviewGovernanceProofs.** The property is about a pull request at rest; `Fresh`
  carries it there: every event that could touch the verdict queues a job, so while
  none is queued a running job has read revision, diff, files and body as they still
  are, and at least all comments of members (`Alike`). `SupportedIsEarned` is the
  core: what the evaluation accepts is what the policy asks for. `GateAssumption`
  says that membership is the author's, not the comment's.

Statements about every position of a list or every round of a loop (the lines of a
Dockerfile, a ranking, the samples) are proved by contradiction at the least position
at which they fail (`Least`, from the well-foundedness of the natural numbers). A
recursive function first needs a proof that it exists: `Course`, for a step that is
itself a function.

Every invariant and every action property that a passing run checks is stated by a
theorem. Only model-checked is liveness (`EventuallySettled`, `EventuallyReceived`,
`ReservedIsSettled`, `RequestsEnd`, the fairness of `ImplementsEventChain`; its safety
part is proved): the prover handles neither fairness nor ENABLED.

## Findings

1. `outbox_failures`: the decision report says relays quarantine after ten failed
   attempts; the code counts claims, so an event can be quarantined after one
   failure if the other claims ran out of their lease.
2. `federation_gaps`: the proof document says a new target never begins with a
   version above 1; without a common lock of publishing and reconciling it can.
3. `projection_mixture`: the comment on `ensure_current_domain_projection` says no
   other task replaces part of the projection during a request; single rows are
   replaced by other handlers and by the sweep. What does hold is `NoStaleReads`
   and `NoReplacementUnderRequest`.
4. `platform_worktrees`: a message of the reference proof says a cluster of its name
   that it finds "is never adopted or deleted by this proof". A failed creation
   deletes by name, and the lock and the marker that would keep others away belong
   to one work tree: a cluster that another one creates between the check and the
   failure is deleted. With names of one's own (`platform`) the promise holds.

## Not modelled, and the plan

What an extension would model next, in this order:

1. `Governance`: proposals, vetoes, votes, withdrawal, deadlines, finalisation,
   guest exit; decided once, by the votes in time, promotion iff accepted. The
   composition with DomainProjection replaces its `Promote`.
2. `NodeWrites`: advisory locks of create, delete, compensation and guest exit, with
   the lock order as an acyclic relation and deadlock checked by TLC; create
   operations repeated with the same id; the mutation audit.
3. `SearchProjection`: versions, jobs, generations and activation; an indexed node
   is exactly the version its job names, an active generation is complete.
4. `AuthRecords`: one-time records, step-up tokens and sessions across instances.

Each would bring an inductive invariant of its own; nothing of what is modelled now
waits for a proof except liveness.

Outside the models for good:

* the validators under `scripts/ci`, `scripts/docmeta` and `scripts/guard`: each
  reads files once, compares them with constants of its own and prints. They have no
  state, no order of steps and no other actor; a model would repeat their tables;
* configuration parsing, telemetry, mail, the front end, embeddings and the
  cryptography of passkeys and push: no state that several actors change, or none
  that a model could say more about than a test;
* what the tools hand to Kubernetes, Docker, the registry and the forge: their
  answers are outcomes, their manifests and messages are not modelled.
