------------------------- MODULE FederationDelivery -------------------------
(***************************************************************************)
(* The sending cell: persist_local and the delivery workers with their     *)
(* table federation_delivery_attempts, and the start of an API instance,   *)
(* which installs the peer policy and reconciles the delivery endpoint     *)
(* (federation.rs, federation_delivery.rs).                                *)
(*                                                                         *)
(* One target cell: every statement on the delivery table filters by       *)
(* target_cell_id, so targets do not interact.                             *)
(*                                                                         *)
(* PostgreSQL runs these transactions at READ COMMITTED: a statement sees  *)
(* what was committed when it began.  Publishing and reconciling therefore *)
(* take two steps, the snapshot and the commit.                            *)
(*                                                                         *)
(* Time is abstract: ready says that a row's next_attempt_at or, in        *)
(* flight, its lease_expires_at has passed.                                *)
(***************************************************************************)
EXTENDS FederationEvents

CONSTANTS
    Workers,      \* delivery workers, one per API instance that enables them
    Instances,    \* API instances that may be starting
    Configs,      \* entries for the target cell in FEDERATION_PEERS_JSON
    NoOne,        \* SQL NULL, None
    MaxAttempts,  \* FEDERATION_DELIVERY_MAX_ATTEMPTS
    BatchSize,    \* FEDERATION_DELIVERY_BATCH_SIZE
    MaxFaults,    \* bound: crashes, failed statements and overrun leases
    MaxBoots      \* bound: starts of API instances

\* What the runtime configuration says of the target cell.  A configuration
\* that does not list it installs nothing and binds no endpoint.
ConfigType == [listed : BOOLEAN, trusted : BOOLEAN, neighbourhood : BOOLEAN,
               types : SUBSET EventTypes, endpoint : {"url", NoOne}]

ASSUME DeliveryAssumption ==
    /\ Configs \subseteq ConfigType
    /\ \A c \in Configs : ~c.listed => c.endpoint = NoOne
    /\ NoOne \notin Workers
    /\ NoOne \notin Configs
    /\ NoOne # "url"
    /\ MaxAttempts \in Nat \ {0}
    /\ BatchSize \in Nat \ {0}
    /\ MaxFaults \in Nat
    /\ MaxBoots \in Nat

VARIABLES
    version,   \* object_version in the sender's federation_objects
    open,      \* an open persist_local transaction, by its reservation
    rows,      \* federation_delivery_attempts
    peer,      \* the target cell's row in federation_peer_relationships
    boot,      \* configuration of an instance that has not reconciled yet
    recon,     \* the open reconciliation: its instance and outbox snapshot
    worker,    \* what a delivery worker is doing
    left,      \* claims left in the worker's batch
    late,      \* events in requests that their sender has given up on
    faults,    \* faults so far
    boots      \* instance starts so far

publishVars == <<version, open>>
bootVars == <<peer, boot, recon, boots>>
workerVars == <<worker, left, late>>
deliveryVars == <<publishVars, rows, bootVars, workerVars, faults>>

-----------------------------------------------------------------------------
(* Types *)

Errors == {"none", "policy", "refused", "exhausted", "protocol"}

RowType == [state : {"absent", "pending", "in_flight", "retry", "delivered", "dead"},
            attempts : Nat, owner : Workers \cup {NoOne}, ready : BOOLEAN,
            error : Errors]

\* The columns install_peer writes and the two that reconciliation writes.
PeerType == [trusted : BOOLEAN, neighbourhood : BOOLEAN, types : SUBSET EventTypes,
             endpoint : {"url", NoOne}, fingerprint : Configs \cup {NoOne}]

\* No row, and the row an INSERT creates.
Absent == [state |-> "absent", attempts |-> 0, owner |-> NoOne, ready |-> FALSE,
           error |-> "none"]
Pending == [Absent EXCEPT !.state = "pending", !.ready = TRUE]

Idle == [pc |-> "idle"]

\* DeliveryClaim, before ("claimed") and after ("posting") the policy readback.
ClaimType == [pc : {"claimed", "posting"}, ev : Events, attempt : Nat]

\* DeliveryDecision, not yet written.
DecisionType == [pc : {"decided"}, ev : Events, attempt : Nat,
                 to : {"delivered", "retry", "dead"}, error : Errors]

DeliveryTypeOK ==
    /\ version \in [Objects -> 0..MaxVersion]
    /\ open \in [Objects -> {"none", "reserve", "skip"}]
    /\ rows \in [Events -> RowType]
    /\ peer \in PeerType
    /\ boot \in [Instances -> Configs \cup {NoOne}]
    /\ recon \in {NoOne} \cup [inst : Instances, seen : SUBSET Events]
    /\ worker \in [Workers -> {Idle} \cup ClaimType \cup DecisionType]
    /\ left \in [Workers -> 0..BatchSize]
    /\ late \subseteq Events
    /\ faults \in 0..MaxFaults
    /\ boots \in 0..MaxBoots

-----------------------------------------------------------------------------
(* State formulae *)

\* federation_outbox: one event per version of an object.
Outbox == {e \in Events : e[2] <= version[e[1]]}

\* The claim of w still is the one the row records.
Holds(w, e) == rows[e].state = "in_flight" /\ rows[e].owner = w

\* Worker w is at work on e.
Works(w, e) == worker[w] # Idle /\ worker[w].ev = e

DeliveryInit ==
    /\ version = [o \in Objects |-> 0]
    /\ open = [o \in Objects |-> "none"]
    /\ rows = [e \in Events |-> Absent]
    /\ peer = [trusted |-> FALSE, neighbourhood |-> FALSE, types |-> {},
               endpoint |-> NoOne, fingerprint |-> NoOne]
    /\ boot = [i \in Instances |-> NoOne]
    /\ recon = NoOne
    /\ worker = [w \in Workers |-> Idle]
    /\ left = [w \in Workers |-> 0]
    /\ late = {}
    /\ faults = 0
    /\ boots = 0

Fault == faults < MaxFaults /\ faults' = faults + 1

-----------------------------------------------------------------------------
(* Publishing *)

\* The WHERE clause enqueue_delivery_targets and backfill_delivery_targets share.
Reserved(e, p) ==
    /\ p.trusted
    /\ p.endpoint # NoOne
    /\ ScopeOf[e[1]] = "neighbourhood" => p.neighbourhood

\* persist_local up to enqueue_delivery_targets: the object is locked, the next
\* version is the only one transition_rejection lets through, and the SELECT
\* over the relationships takes its snapshot.
enqueue_delivery_targets(o) ==
    /\ open[o] = "none"
    /\ version[o] < MaxVersion
    /\ open' = [open EXCEPT ![o] =
                  IF Reserved(<<o, version[o] + 1>>, peer) THEN "reserve" ELSE "skip"]
    /\ UNCHANGED <<version, rows, bootVars, workerVars, faults>>

\* Mutant of persist_local: the reservation is written apart from the event.
PersistUnreserved(o) ==
    /\ open[o] # "none"
    /\ open' = [open EXCEPT ![o] = "none"]
    /\ \/ version' = [version EXCEPT ![o] = @ + 1] /\ UNCHANGED rows
       \/ /\ open[o] = "reserve"
          /\ rows' = [rows EXCEPT ![<<o, version[o] + 1>>] = Pending]
          /\ UNCHANGED version
    /\ UNCHANGED <<bootVars, workerVars, faults>>

\* persist_local commits event and reservation.  The foreign key of a
\* reservation waits for a reconciliation that has the relationship locked.
persist_local(o) ==
    /\ open[o] # "none"
    /\ open[o] = "reserve" => recon = NoOne
    /\ version' = [version EXCEPT ![o] = @ + 1]
    /\ rows' = [rows EXCEPT ![<<o, version[o] + 1>>] =
                  IF open[o] = "reserve" THEN Pending ELSE @]
    /\ open' = [open EXCEPT ![o] = "none"]
    /\ UNCHANGED <<bootVars, workerVars, faults>>

\* The transaction fails and rolls back.
PublishAbort(o) ==
    /\ open[o] # "none"
    /\ open' = [open EXCEPT ![o] = "none"]
    /\ Fault
    /\ UNCHANGED <<version, rows, bootVars, workerVars>>

-----------------------------------------------------------------------------
(* The start of an instance: runtime_router *)

\* install_peer for the target cell, if the configuration lists it.  The upsert
\* waits for a reconciliation that has the relationship locked.
install_peer(i, c) ==
    /\ boot[i] = NoOne
    /\ recon = NoOne
    /\ boots < MaxBoots
    /\ boots' = boots + 1
    /\ boot' = [boot EXCEPT ![i] = c]
    /\ peer' = IF c.listed
               THEN [peer EXCEPT !.trusted = c.trusted, !.types = c.types,
                                 !.neighbourhood = c.neighbourhood]
               ELSE peer
    /\ UNCHANGED <<publishVars, rows, recon, workerVars, faults>>

\* reconcile_delivery_endpoints up to the backfill: the advisory lock and the row
\* lock are taken (after every reservation that holds the foreign key), and the
\* backfill takes its snapshot of the outbox.
ReconcileBegin(i) ==
    /\ boot[i] # NoOne
    /\ recon = NoOne
    /\ \A o \in Objects : open[o] # "reserve"
    /\ recon' = [inst |-> i, seen |-> Outbox]
    /\ UNCHANGED <<publishVars, rows, peer, boot, boots, workerVars, faults>>

\* delivery_policy_sha256: a digest of policy and endpoint.
delivery_policy_sha256(c) == IF c.endpoint = NoOne THEN NoOne ELSE c

\* Mutant of Refill: a terminal row is revived too.
RefillAnything(r) ==
    IF r.state \in {"absent", "dead", "delivered"} THEN Pending ELSE r

\* One row of backfill_delivery_targets.
Refill(r) ==
    IF \/ r.state = "absent"
       \/ r.state = "dead" /\ r.error \in {"policy", "refused", "exhausted"}
    THEN Pending
    ELSE r

\* reconcile_delivery_endpoints: endpoint, fingerprint and, if one of the two
\* changed, the backfill.
reconcile_delivery_endpoints(i) ==
    LET c == boot[i]
        fingerprint == delivery_policy_sha256(c)
        bound == [peer EXCEPT !.endpoint = c.endpoint, !.fingerprint = fingerprint]
    IN  /\ recon # NoOne
        /\ recon.inst = i
        /\ peer' = bound
        /\ rows' = IF bound # peer /\ c.endpoint # NoOne /\ c.trusted
                   THEN [e \in Events |-> IF e \in recon.seen /\ Reserved(e, bound)
                                          THEN Refill(rows[e]) ELSE rows[e]]
                   ELSE rows
        /\ boot' = [boot EXCEPT ![i] = NoOne]
        /\ recon' = NoOne
        /\ UNCHANGED <<publishVars, boots, workerVars, faults>>

\* The instance dies between install_peer and the end of the reconciliation.
BootCrash(i) ==
    /\ boot[i] # NoOne
    /\ boot' = [boot EXCEPT ![i] = NoOne]
    /\ recon' = IF recon # NoOne /\ recon.inst = i THEN NoOne ELSE recon
    /\ Fault
    /\ UNCHANGED <<publishVars, rows, peer, boots, workerVars>>

-----------------------------------------------------------------------------
(* The delivery worker: run_delivery_batch *)

\* What every UPDATE that ends an attempt writes: the lease is cleared.
Release(r, state, error) ==
    [r EXCEPT !.state = state, !.error = error, !.owner = NoOne, !.ready = FALSE]

\* Mutant of expire_exhausted_deliveries: the batch is one claim too long.
ExpireThenOneMore(w) ==
    /\ worker[w] = Idle
    /\ left[w] = 0
    /\ left' = [left EXCEPT ![w] = BatchSize + 1]
    /\ UNCHANGED <<publishVars, rows, bootVars, worker, late, faults>>

\* expire_exhausted_deliveries, the first statement of a batch.
expire_exhausted_deliveries(w) ==
    /\ worker[w] = Idle
    /\ left[w] = 0
    /\ rows' = [e \in Events |->
                 IF /\ rows[e].attempts >= MaxAttempts
                    /\ \/ rows[e].state \in {"pending", "retry"}
                       \/ rows[e].state = "in_flight" /\ rows[e].ready
                 THEN Release(rows[e], "dead", "exhausted")
                 ELSE rows[e]]
    /\ left' = [left EXCEPT ![w] = BatchSize]
    /\ UNCHANGED <<publishVars, bootVars, worker, late, faults>>

\* Mutant of Candidates: the row of a crashed worker is not taken over.
CandidatesNoTakeover ==
    {e \in Events : /\ rows[e].state \in {"pending", "retry"}
                    /\ rows[e].ready
                    /\ \A p \in Predecessors(e) : rows[p].state \in {"absent", "delivered"}}

\* Mutant of Candidates: a dead version does not hold back later ones.
CandidatesPassDead ==
    {e \in Events : /\ rows[e].state \in {"pending", "retry", "in_flight"}
                    /\ rows[e].ready
                    /\ \A p \in Predecessors(e) :
                          rows[p].state \in {"absent", "delivered", "dead"}}

\* Rows that are due and whose object has no earlier version on its way.
Candidates ==
    {e \in Events : /\ rows[e].state \in {"pending", "retry", "in_flight"}
                    /\ rows[e].ready
                    /\ \A p \in Predecessors(e) : rows[p].state \in {"absent", "delivered"}}

\* claim_due_delivery.  Which candidate the ORDER BY picks depends on due times
\* and on the rows that SKIP LOCKED passes over: any of them.
claim_due_delivery(w) ==
    /\ worker[w] = Idle
    /\ left[w] > 0
    /\ \E e \in Candidates :
          /\ rows' = [rows EXCEPT ![e].state = "in_flight", ![e].owner = w,
                                  ![e].attempts = @ + 1, ![e].ready = FALSE]
          /\ worker' = [worker EXCEPT ![w] = [pc |-> "claimed", ev |-> e,
                                              attempt |-> rows[e].attempts + 1]]
    /\ left' = [left EXCEPT ![w] = @ - 1]
    /\ UNCHANGED <<publishVars, bootVars, late, faults>>

\* claim_due_delivery returns None and the batch ends.
EndBatch(w) ==
    /\ worker[w] = Idle
    /\ left[w] > 0
    /\ Candidates = {}
    /\ left' = [left EXCEPT ![w] = 0]
    /\ UNCHANGED <<publishVars, rows, bootVars, worker, late, faults>>

\* The decision the worker has reached and will write next.
Decide(w, to, error) ==
    worker' = [worker EXCEPT ![w] = [pc |-> "decided", ev |-> @.ev, attempt |-> @.attempt,
                                     to |-> to, error |-> error]]

\* Mutant of delivery_policy_error: the event type is not looked at.
PolicyErrorAnyType(e) == ~Reserved(e, peer)

delivery_policy_error(e) ==
    \/ ~Reserved(e, peer)
    \/ TypeOf[e] \notin peer.types

\* load_delivery_context and the policy check of execute_claim.
load_delivery_context(w) ==
    /\ worker[w] # Idle
    /\ worker[w].pc = "claimed"
    /\ \/ /\ ~Holds(w, worker[w].ev)
          /\ worker' = [worker EXCEPT ![w] = Idle]
       \/ /\ Holds(w, worker[w].ev)
          /\ delivery_policy_error(worker[w].ev)
          /\ Decide(w, "dead", "policy")
       \/ /\ Holds(w, worker[w].ev)
          /\ ~delivery_policy_error(worker[w].ev)
          /\ worker' = [worker EXCEPT ![w].pc = "posting"]
    /\ UNCHANGED <<publishVars, rows, bootVars, left, late, faults>>

\* Mutant of Retry: the last attempt is retried as well.
RetryAlways(w, error) == Decide(w, "retry", error)

\* execute_claim turns the retry of the last attempt into a dead row.
Retry(w, error) ==
    \/ worker[w].attempt < MaxAttempts /\ Decide(w, "retry", error)
    \/ worker[w].attempt >= MaxAttempts /\ Decide(w, "dead", error)

\* classify_response.  "malformed" is every answer that is neither a
\* ReceiveOutcome of this event nor 429 or 5xx.
classify_response(w, outcome) ==
    \/ outcome \in {"applied", "duplicate"} /\ Decide(w, "delivered", "none")
    \/ outcome \in {"rejected", "quarantined"} /\ Retry(w, "refused")
    \/ outcome = "unavailable" /\ Retry(w, "exhausted")
    \/ outcome = "malformed" /\ Decide(w, "dead", "protocol")

\* post_event returns an answer.
Answer(w, outcome) ==
    /\ worker[w] # Idle
    /\ worker[w].pc = "posting"
    /\ classify_response(w, outcome)
    /\ UNCHANGED <<publishVars, rows, bootVars, left, late, faults>>

\* The request w is waiting for.
UnderWay(w) ==
    {e \in Events : worker[w] # Idle /\ worker[w].pc = "posting" /\ worker[w].ev = e}

\* post_event fails or times out.  The request may still be under way.
post_event_fails(w) ==
    /\ worker[w] # Idle
    /\ worker[w].pc = "posting"
    /\ Retry(w, "exhausted")
    /\ late' \in {late, late \cup UnderWay(w)}
    /\ UNCHANGED <<publishVars, rows, bootVars, left, faults>>

\* Mutant of finalize_decision: the owner of the lease is not compared.
FinalizeUnfenced(w) ==
    /\ worker[w] # Idle
    /\ worker[w].pc = "decided"
    /\ rows' = [rows EXCEPT ![worker[w].ev] =
                  IF @.state = "in_flight"
                  THEN Release(@, worker[w].to, worker[w].error)
                  ELSE @]
    /\ worker' = [worker EXCEPT ![w] = Idle]
    /\ UNCHANGED <<publishVars, bootVars, left, late, faults>>

\* finalize_decision and mark_dead: written only if the claim still holds.
finalize_decision(w) ==
    /\ worker[w] # Idle
    /\ worker[w].pc = "decided"
    /\ rows' = [rows EXCEPT ![worker[w].ev] =
                  IF Holds(w, worker[w].ev)
                  THEN Release(@, worker[w].to, worker[w].error)
                  ELSE @]
    /\ worker' = [worker EXCEPT ![w] = Idle]
    /\ UNCHANGED <<publishVars, bootVars, left, late, faults>>

\* A failed statement ends the batch, or the process dies; a request that was
\* under way may still arrive.
WorkerFault(w) ==
    /\ worker[w] # Idle \/ left[w] > 0
    /\ worker' = [worker EXCEPT ![w] = Idle]
    /\ left' = [left EXCEPT ![w] = 0]
    /\ late' \in {late, late \cup UnderWay(w)}
    /\ Fault
    /\ UNCHANGED <<publishVars, rows, bootVars>>

\* The back-off of a retry ends.
BackoffEnds(e) ==
    /\ rows[e].state = "retry" /\ ~rows[e].ready
    /\ rows' = [rows EXCEPT ![e].ready = TRUE]
    /\ UNCHANGED <<publishVars, bootVars, workerVars, faults>>

\* The lease of a worker that no longer works on the row ends.
LeaseEnds(e) ==
    /\ rows[e].state = "in_flight" /\ ~rows[e].ready
    /\ ~Works(rows[e].owner, e)
    /\ rows' = [rows EXCEPT ![e].ready = TRUE]
    /\ UNCHANGED <<publishVars, bootVars, workerVars, faults>>

\* A worker overruns its lease, which exceeds the request timeout by
\* DELIVERY_LEASE_GRACE_SECONDS: a stalled process or database.
LeaseOverrun(e) ==
    /\ rows[e].state = "in_flight" /\ ~rows[e].ready
    /\ Works(rows[e].owner, e)
    /\ rows' = [rows EXCEPT ![e].ready = TRUE]
    /\ Fault
    /\ UNCHANGED <<publishVars, bootVars, workerVars>>

=============================================================================
