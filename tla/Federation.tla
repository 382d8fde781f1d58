----------------------------- MODULE Federation -----------------------------
(***************************************************************************)
(* Two cells: the origin's delivery workers post events to the receiver's  *)
(* /federation/v1/events.  Requests and answers may be lost or delayed and *)
(* a request can outlive the attempt that sent it, so the receiver sees    *)
(* duplicates and events out of order.                                     *)
(***************************************************************************)
EXTENDS FederationDelivery, FederationInbox

vars == <<deliveryVars, inboxVars>>

TypeOK == DeliveryTypeOK /\ InboxTypeOK

Init == DeliveryInit /\ InboxInit

-----------------------------------------------------------------------------
(* Steps of both cells *)

\* The receiver handles the request w is waiting for, and w gets the answer.
\* An answer that is delayed or lost is a post_event_fails or WorkerFault of w
\* with the request handled late.
receive_event(w) ==
    \E outcome \in Outcomes :
        /\ \E e \in UnderWay(w) : accept_verified(e, outcome)
        /\ Answer(w, outcome)

\* Something between the cells answers instead of the receiver.
ForeignAnswer(w) == Answer(w, "malformed") /\ UNCHANGED inboxVars

\* The receiver handles a request nobody waits for any more.  There is one such
\* request for each attempt that was given up, so e may come more than once.
receive_late(e) ==
    /\ e \in late
    /\ \E outcome \in Outcomes : accept_verified(e, outcome)
    /\ UNCHANGED deliveryVars

\* The receiver starts with another policy for the origin.
InstallAtReceiver ==
    /\ boots < MaxBoots
    /\ boots' = boots + 1
    /\ \E p \in InPolicies : install_peer_in(p)
    /\ UNCHANGED <<publishVars, rows, peer, boot, recon, workerVars, faults>>

-----------------------------------------------------------------------------

PublishStep ==
    \E o \in Objects : enqueue_delivery_targets(o) \/ persist_local(o) \/ PublishAbort(o)

runtime_router ==
    \E i \in Instances :
        \/ \E c \in Configs : install_peer(i, c)
        \/ ReconcileBegin(i)
        \/ reconcile_delivery_endpoints(i)
        \/ BootCrash(i)

run_delivery_batch(w) ==
    \/ expire_exhausted_deliveries(w)
    \/ claim_due_delivery(w)
    \/ EndBatch(w)
    \/ load_delivery_context(w)
    \/ post_event_fails(w)
    \/ finalize_decision(w)

TimePasses == \E e \in Events : BackoffEnds(e) \/ LeaseEnds(e) \/ LeaseOverrun(e)

Next ==
    \/ (PublishStep \/ runtime_router \/ TimePasses) /\ UNCHANGED inboxVars
    \/ \E w \in Workers :
          \/ (run_delivery_batch(w) \/ WorkerFault(w)) /\ UNCHANGED inboxVars
          \/ receive_event(w)
          \/ ForeignAnswer(w)
    \/ \E e \in Events : receive_late(e)
    \/ InstallAtReceiver

\* The worker task is polled for ever; each request ends with an answer or the
\* client's timeout; leases and back-offs end; a transaction ends.
Fairness ==
    /\ \A w \in Workers :
          /\ WF_vars(run_delivery_batch(w) /\ UNCHANGED inboxVars)
          /\ WF_vars(receive_event(w))
    /\ \A e \in Events : WF_vars((BackoffEnds(e) \/ LeaseEnds(e)) /\ UNCHANGED inboxVars)
    /\ \A i \in Instances :
          WF_vars((ReconcileBegin(i) \/ reconcile_delivery_endpoints(i)) /\ UNCHANGED inboxVars)
    /\ \A o \in Objects : WF_vars(persist_local(o) /\ UNCHANGED inboxVars)

Spec == Init /\ [][Next]_vars /\ Fairness

-----------------------------------------------------------------------------
(* What the properties rest on *)

\* Rows, claims, requests and snapshots are about committed events only, and the
\* open transactions about the next version.
EventsArePublished ==
    /\ \A o \in Objects : open[o] # "none" => version[o] < MaxVersion
    /\ \A e \in Events : rows[e].state # "absent" => e \in Outbox
    /\ \A w \in Workers : worker[w] # Idle => worker[w].ev \in Outbox
    /\ late \subseteq Outbox

\* A reconciliation belongs to an instance that is starting.
ReconcilerIsBooting ==
    recon # NoOne => boot[recon.inst] # NoOne /\ recon.seen \subseteq Outbox

\* A decision not yet written is true, and a retry is not the last attempt.
DecisionsAreSound ==
    \A w \in Workers : worker[w] # Idle /\ worker[w].pc = "decided" =>
        /\ worker[w].to = "delivered" => worker[w].ev \in inbox
        /\ worker[w].to = "retry" => worker[w].attempt < MaxAttempts

\* The CHECK on federation_delivery_attempts: in flight, and only then, a row has
\* an owner.
InFlightIsOwned ==
    \A e \in Events : rows[e].state = "in_flight" <=> rows[e].owner # NoOne

\* A claim that holds is the latest one.
ClaimsAreCurrent ==
    \A w \in Workers, e \in Events :
        Works(w, e) /\ Holds(w, e) => worker[w].attempt = rows[e].attempts

\* A row that can be claimed or expired at MaxAttempts or beyond has been left
\* behind by a fault that no earlier excess attempt accounts for.
ExcessIsCharged ==
    \A e \in Events :
        /\ rows[e].attempts <= MaxAttempts + faults
        /\ rows[e].state \in {"pending", "retry"} => rows[e].attempts < MaxAttempts
        /\ rows[e].state = "in_flight" /\ (rows[e].ready \/ ~Works(rows[e].owner, e))
             => rows[e].attempts < MaxAttempts + faults

-----------------------------------------------------------------------------
(* Properties *)

\* The receiver never runs ahead of the origin and its inbox is exactly the
\* prefix of each object's history up to the version it holds, however late,
\* repeated or reordered the requests arrive (accept_verified).
ReplicaIsPrefix ==
    \A o \in Objects :
        /\ replica[o] <= version[o]
        /\ \A v \in 1..MaxVersion : <<o, v>> \in inbox <=> v <= replica[o]

\* A delivery the origin has recorded as delivered is in the receiver's inbox
\* (classify_response, finalize_decision).
DeliveredIsApplied ==
    \A e \in Events : rows[e].state = "delivered" => e \in inbox

\* An event leaves the origin only if some listed configuration trusts the peer
\* and allows the event's type and scope: policies of two configurations are
\* never mixed (delivery_policy_error, install_peer).
PolicyIsRespected ==
    \A e \in inbox \cup late :
        \E c \in Configs :
            /\ c.listed /\ c.trusted
            /\ TypeOf[e] \in c.types
            /\ ScopeOf[e[1]] = "neighbourhood" => c.neighbourhood

\* A delivery is tried more than MaxAttempts times only if a worker crashed or
\* overran its lease, and then once more for each such fault.
TriesAreBounded ==
    \A e \in Events : rows[e].attempts <= MaxAttempts + faults

\* The types, and what both cells may rely on: the replica is a prefix of the
\* history, what counts as delivered is there, and tries are bounded.
DeliveryIsSound ==
    TypeOK /\ ReplicaIsPrefix /\ DeliveredIsApplied /\ TriesAreBounded

\* Every reserved version has all earlier versions of its object reserved too.
GapFree ==
    \A e \in Events : rows[e].state # "absent" =>
        \A p \in Predecessors(e) : rows[p].state # "absent"

\* A target cell is never sent a later version of an object whose first version
\* was never reserved for it.
StartsAtVersionOne ==
    \A w \in Workers : \A e \in UnderWay(w) : rows[<<e[1], 1>>].state # "absent"

\* As long as no reservation is missing, the receiver never has to quarantine an
\* event: claims wait for earlier versions (claim_due_delivery), so reordered
\* requests are always repetitions.  For a receiver that accepts every event.
InOrderWithoutGaps == GapFree => quarantine = {}

\* A delivered row stays delivered, whatever late workers or reconciliations do
\* (finalize_decision, backfill_delivery_targets).
DeliveredIsFinal ==
    [][\A e \in Events : rows[e].state = "delivered" => rows'[e] = rows[e]]_vars

\* While a lease runs only its owner, finishing its work on the row, changes the
\* row; the decision of a worker that has lost its lease is void.
LeaseIsExclusive ==
    [][\A e \in Events :
          /\ rows[e].state = "in_flight" /\ ~rows[e].ready
          /\ rows'[e] # rows[e]
          => \/ rows'[e] = [rows[e] EXCEPT !.ready = TRUE]
             \/ Works(rows[e].owner, e) /\ worker'[rows[e].owner] = Idle]_vars

\* A reserved event is in the end delivered or dead, or an earlier version of
\* its object is dead and holds it back.
ReservedIsSettled ==
    \A e \in Events :
        rows[e].state = "pending" ~>
            \/ rows[e].state \in {"delivered", "dead"}
            \/ \E p \in Predecessors(e) : rows[p].state = "dead"

\* Versions the origin has seen confirmed.
Confirmed == [o \in Objects |-> {v \in 1..MaxVersion : rows[<<o, v>>].state = "delivered"}]

History == INSTANCE FederatedHistory
             WITH origin <- version, remote <- replica, confirmed <- Confirmed

\* The two cells implement FederatedHistory: the remote cell moves through each
\* history one version at a time and confirmations are true and final.
ImplementsHistory == History!Spec

=============================================================================
